------------------------------ MODULE MCRuntime ------------------------------
(***************************************************************************)
(* Three threads on two hosts: one package, known from sysfs only, whose   *)
(* CPU 1 is offline; two packages numbered 0 and 3 with the same numbers   *)
(* of cores, known from /proc/cpuinfo only, with a hyper-thread and a CPU  *)
(* the process may not use.                                                *)
(***************************************************************************)
EXTENDS Runtime

Ids(phys, core) == [p \in 0 .. Len(phys) - 1 |-> [phys |-> phys[p + 1], core |-> core[p + 1]]]
Unknown(n) == [p \in 0 .. n - 1 |-> [phys |-> Missing, core |-> Missing]]

Offline ==
  [online |-> {0, 2}, proc |-> Unknown(3), sys |-> Ids(<<0, Missing, 0>>, <<0, Missing, 2>>),
   numa |-> <<>>, allowed |-> <<>>]
HyperThread ==
  [online |-> 0 .. 3, proc |-> Ids(<<0, 3, 3, 0>>, <<0, 0, 0, 1>>), sys |-> Unknown(4),
   numa |-> [p \in 0 .. 3 |-> IF p \in {1, 2} THEN 1 ELSE 0], allowed |-> <<<<0, 2>>>>]

MCHosts == {Offline, HyperThread}
=============================================================================
