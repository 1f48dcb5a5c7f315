------------------------------ MODULE BuildSync -------------------------------
(***************************************************************************)
(* The build barrier (RdmaCommunication::build_sync in rdma_comm.cc).      *)
(*                                                                         *)
(* A call takes the next round number, sends it to every other machine and *)
(* then polls until it has seen that round from all of them.  A machine    *)
(* may be one round ahead of another, so a message of a later round goes   *)
(* back to the queue.  When the deadline passes the caller aborts.         *)
(*                                                                         *)
(* chan[j][i] are the messages of j that i has not polled.  The queue of   *)
(* polled messages is a set: no two of them are equal and every turn of    *)
(* the wait loop looks at all of them.  Flow control of the channel is the *)
(* subject of WriteFlow.                                                   *)
(***************************************************************************)
EXTENDS Integers, Sequences

CONSTANTS
  MachineNum,  \* MACHINE_NUM
  MaxRound,    \* calls of build_sync the build makes
  MaxCrash     \* machines that may stop for a reason of their own

Machine == 0 .. MachineNum - 1

ASSUME BuildSyncAssumption ==
  MachineNum \in Nat \ {0} /\ MaxRound \in Nat /\ MaxCrash \in Nat

VARIABLES
  pc,      \* [i]: "work" outside, "send" or "wait" inside build_sync;
           \*      "stop" after an abort or a crash
  round,   \* [i]: build_sync_round, one more than the round being waited for
  next,    \* [i]: m of the send loop
  seen,    \* [i]: machines seen in this call, none outside of one
  queue,   \* [i]: build_sync_queue
  chan,    \* [j][i]: messages sent by j to i and not polled
  late,    \* [i]: the deadline of this call has passed
  crashes  \* number of crashes so far

vars == <<pc, round, next, seen, queue, chan, late, crashes>>

(* BuildSyncMessage.                                                       *)
Message == [round : Nat, machine : Machine]

TypeOK ==
  /\ pc \in [Machine -> {"work", "send", "wait", "stop"}]
  /\ round \in [Machine -> Nat]
  /\ next \in [Machine -> 0 .. MachineNum]
  /\ seen \in [Machine -> SUBSET Machine]
  /\ queue \in [Machine -> SUBSET Message]
  /\ chan \in [Machine -> [Machine -> Seq(Message)]]
  /\ late \in [Machine -> BOOLEAN]
  /\ crashes \in Nat

Init ==
  /\ pc = [i \in Machine |-> "work"]
  /\ round = [i \in Machine |-> 0]
  /\ next = [i \in Machine |-> 0]
  /\ seen = [i \in Machine |-> {}]
  /\ queue = [i \in Machine |-> {}]
  /\ chan = [j \in Machine |-> [i \in Machine |-> <<>>]]
  /\ late = [i \in Machine |-> FALSE]
  /\ crashes = 0

-----------------------------------------------------------------------------
(* The call: round number, seen.                                           *)
Enter(i) ==
  /\ pc[i] = "work" /\ round[i] < MaxRound
  /\ pc' = [pc EXCEPT ![i] = "send"]
  /\ round' = [round EXCEPT ![i] = @ + 1]
  /\ seen' = [seen EXCEPT ![i] = {i}]
  /\ next' = [next EXCEPT ![i] = 0]
  /\ late' = [late EXCEPT ![i] = FALSE]
  /\ UNCHANGED <<queue, chan, crashes>>

(* Mutant: m <= MACHINE_NUM.                                               *)
SendOneMore(i) ==
  /\ pc[i] = "send" /\ next[i] <= MachineNum
  /\ chan' = IF next[i] = i THEN chan
             ELSE [chan EXCEPT ![i][next[i]] =
                     Append(@, [round |-> round[i] - 1, machine |-> i])]
  /\ next' = [next EXCEPT ![i] = @ + 1]
  /\ UNCHANGED <<pc, round, seen, queue, late, crashes>>

(* Mutant: the machine itself ends the loop (break for continue).          *)
SendUntilSelf(i) ==
  /\ pc[i] = "send" /\ next[i] < MachineNum
  /\ chan' = IF next[i] >= i THEN chan
             ELSE [chan EXCEPT ![i][next[i]] =
                     Append(@, [round |-> round[i] - 1, machine |-> i])]
  /\ next' = [next EXCEPT ![i] = @ + 1]
  /\ UNCHANGED <<pc, round, seen, queue, late, crashes>>

(* One turn of the send loop, which leaves out the machine itself.         *)
SendSync(i) ==
  /\ pc[i] = "send" /\ next[i] < MachineNum
  /\ chan' = IF next[i] = i THEN chan
             ELSE [chan EXCEPT ![i][next[i]] =
                     Append(@, [round |-> round[i] - 1, machine |-> i])]
  /\ next' = [next EXCEPT ![i] = @ + 1]
  /\ UNCHANGED <<pc, round, seen, queue, late, crashes>>

(* The end of the send loop; a single machine has nobody to wait for.      *)
Sent(i) ==
  /\ pc[i] = "send" /\ next[i] = MachineNum
  /\ \/ /\ seen[i] = Machine
        /\ pc' = [pc EXCEPT ![i] = "work"]
        /\ seen' = [seen EXCEPT ![i] = {}]
     \/ /\ seen[i] # Machine
        /\ pc' = [pc EXCEPT ![i] = "wait"]
        /\ UNCHANGED seen
  /\ UNCHANGED <<round, next, queue, chan, late, crashes>>

(* poll_recv, here or in any other routine that polls.                     *)
Poll(i, j) ==
  /\ pc[i] # "stop" /\ chan[j][i] # <<>>
  /\ queue' = [queue EXCEPT ![i] = @ \cup {Head(chan[j][i])}]
  /\ chan' = [chan EXCEPT ![j][i] = Tail(@)]
  /\ UNCHANGED <<pc, round, next, seen, late, crashes>>

(* Mutant: the message of a later round is freed, not put back.            *)
LaterFreed(i) == {}

(* A turn of the wait loop takes the messages of this round and of earlier *)
(* ones from the queue.                                                    *)
SeenNow(i) ==
  seen[i] \cup {m \in Machine : \E msg \in queue[i] :
                               msg.machine = m /\ msg.round = round[i] - 1}
Later(i) == {msg \in queue[i] : msg.round > round[i] - 1}

KeepWaiting(i) ==
  /\ pc[i] = "wait" /\ ~late[i] /\ SeenNow(i) # Machine
  /\ seen' = [seen EXCEPT ![i] = SeenNow(i)]
  /\ queue' = [queue EXCEPT ![i] = Later(i)]
  /\ UNCHANGED <<pc, round, next, chan, late, crashes>>

(* Mutant: the loop ends one machine early.                                *)
ProceedEarly(i) ==
  /\ pc[i] = "wait" /\ ~late[i]
  /\ \E m \in Machine : SeenNow(i) \cup {m} = Machine
  /\ pc' = [pc EXCEPT ![i] = "work"]
  /\ seen' = [seen EXCEPT ![i] = {}]
  /\ queue' = [queue EXCEPT ![i] = Later(i)]
  /\ UNCHANGED <<round, next, chan, late, crashes>>

Proceed(i) ==
  /\ pc[i] = "wait" /\ ~late[i] /\ SeenNow(i) = Machine
  /\ pc' = [pc EXCEPT ![i] = "work"]
  /\ seen' = [seen EXCEPT ![i] = {}]
  /\ queue' = [queue EXCEPT ![i] = Later(i)]
  /\ UNCHANGED <<round, next, chan, late, crashes>>

(* Mutant: the deadline is looked at only while nobody has been seen.      *)
TimeOutAlone(i) ==
  /\ pc[i] = "wait" /\ late[i] /\ SeenNow(i) = {i}
  /\ pc' = [pc EXCEPT ![i] = "stop"]
  /\ UNCHANGED <<round, next, seen, queue, chan, late, crashes>>

(* The deadline is looked at last, even when the last machine has just     *)
(* been seen.                                                              *)
TimeOut(i) ==
  /\ pc[i] = "wait" /\ late[i]
  /\ pc' = [pc EXCEPT ![i] = "stop"]
  /\ seen' = [seen EXCEPT ![i] = SeenNow(i)]
  /\ queue' = [queue EXCEPT ![i] = Later(i)]
  /\ UNCHANGED <<round, next, chan, late, crashes>>

(* Time passes.                                                            *)
Deadline(i) ==
  /\ pc[i] = "wait" /\ ~late[i]
  /\ late' = [late EXCEPT ![i] = TRUE]
  /\ UNCHANGED <<pc, round, next, seen, queue, chan, crashes>>

(* A machine stops for a reason of its own.                                *)
Crash(i) ==
  /\ pc[i] # "stop" /\ crashes < MaxCrash
  /\ pc' = [pc EXCEPT ![i] = "stop"]
  /\ crashes' = crashes + 1
  /\ UNCHANGED <<round, next, seen, queue, chan, late>>

Next ==
  \E i \in Machine :
    \/ Enter(i) \/ SendSync(i) \/ Sent(i)
    \/ KeepWaiting(i) \/ Proceed(i) \/ TimeOut(i)
    \/ Deadline(i) \/ Crash(i)
    \/ \E j \in Machine : Poll(i, j)

Spec == Init /\ [][Next]_vars

(* A running thread goes on.  Nothing is assumed about deadlines.          *)
Fairness ==
  \A i \in Machine :
    /\ WF_vars(Enter(i) \/ SendSync(i) \/ Sent(i))
    /\ WF_vars(KeepWaiting(i) \/ Proceed(i) \/ TimeOut(i))
    /\ WF_vars(\E j \in Machine : Poll(i, j))

FairSpec == Spec /\ Fairness

-----------------------------------------------------------------------------
(* Calls that have returned.                                               *)
Left == [i \in Machine |-> IF seen[i] = {} THEN round[i] ELSE round[i] - 1]

B == INSTANCE Barrier WITH entered <- round, left <- Left

(* build_sync is a barrier: no machine returns from a call that another    *)
(* has not made, whatever is delayed, aborted or crashed.                  *)
Refines == B!Spec

(* j has sent the round i is in, or was in last.                           *)
HasSent(j, i) == round[j] > round[i] \/ (round[j] = round[i] /\ next[j] > i)

(* No round is lost: once j has sent it to i, the message is on its way,   *)
(* in build_sync_queue or seen, however far j has gone on, whether or not  *)
(* it has stopped, and however often the wait loop has put it back.        *)
NoSyncLost ==
  \A i, j \in Machine :
    i # j /\ pc[i] \in {"send", "wait"} /\ HasSent(j, i)
      => \/ j \in seen[i]
         \/ [round |-> round[i] - 1, machine |-> j] \in
              queue[i] \cup {chan[j][i][k] : k \in DOMAIN chan[j][i]}

(* With no deadline passed and nobody stopped, every wait loop ends and    *)
(* the build passes all its barriers.                                      *)
Completes ==
  [](\A i \in Machine : ~late[i] /\ pc[i] # "stop")
    => <>(\A i \in Machine : pc[i] = "work" /\ round[i] = MaxRound)

(* "build barriers now time out instead of waiting forever": if deadlines  *)
(* expire, no machine waits for ever, whoever has stopped.                 *)
NeverStuck ==
  (\A i \in Machine : WF_vars(Deadline(i)))
    => <>(\A i \in Machine :
            pc[i] = "stop" \/ (pc[i] = "work" /\ round[i] = MaxRound))

=============================================================================
