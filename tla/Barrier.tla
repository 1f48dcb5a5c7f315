-------------------------------- MODULE Barrier -------------------------------
(***************************************************************************)
(* What build_sync promises its callers (scala_build.h separates the       *)
(* phases of the distributed build with it): a machine returns from its    *)
(* k-th call only when every machine has made its k-th call.  A machine    *)
(* may stop for ever at any time.                                          *)
(***************************************************************************)
EXTENDS Naturals

CONSTANT Machine

VARIABLES
  entered,  \* [i]: calls machine i has made
  left      \* [i]: calls that have returned

barrierVars == <<entered, left>>

Init ==
  /\ entered = [i \in Machine |-> 0]
  /\ left = [i \in Machine |-> 0]

Enter(i) ==
  /\ entered[i] = left[i]
  /\ entered' = [entered EXCEPT ![i] = @ + 1]
  /\ UNCHANGED left

Leave(i) ==
  /\ left[i] < entered[i]
  /\ \A j \in Machine : entered[j] >= entered[i]
  /\ left' = [left EXCEPT ![i] = @ + 1]
  /\ UNCHANGED entered

Next == \E i \in Machine : Enter(i) \/ Leave(i)

Spec == Init /\ [][Next]_barrierVars

=============================================================================
