---------------------------- MODULE BuildSyncProofs ---------------------------
(***************************************************************************)
(* BuildSync implements Barrier, for any number of machines and rounds and *)
(* any crashes and deadlines.                                              *)
(*                                                                         *)
(* The argument: a message of round r from j exists only if j has entered  *)
(* round r (MessagesHonest), so whoever is in seen has entered the round   *)
(* of the caller (SeenEntered); a caller is recorded as inside by its own  *)
(* entry in seen (SeenInside).                                             *)
(***************************************************************************)
EXTENDS BuildSync, TLAPS

(* Every message carries its sender and a round the sender has entered.    *)
MessagesHonest ==
  /\ \A i, j \in Machine : \A k \in DOMAIN chan[j][i] :
       chan[j][i][k].machine = j /\ chan[j][i][k].round < round[j]
  /\ \A i \in Machine : \A msg \in queue[i] : msg.round < round[msg.machine]

SeenEntered ==
  \A i \in Machine : \A j \in seen[i] : round[i] <= round[j]

SeenInside ==
  \A i \in Machine :
    /\ pc[i] = "work" => seen[i] = {}
    /\ pc[i] \in {"send", "wait"} => i \in seen[i]
    /\ seen[i] # {} => round[i] > 0

IInv == TypeOK /\ MessagesHonest /\ SeenEntered /\ SeenInside

-----------------------------------------------------------------------------
(* Appending to one channel keeps the table of channels well typed.        *)
LEMMA ChannelUpdate ==
  ASSUME NEW ch \in [Machine -> [Machine -> Seq(Message)]],
         NEW i \in Machine, NEW j \in Machine, NEW s \in Seq(Message)
  PROVE  /\ [ch EXCEPT ![i][j] = s] \in [Machine -> [Machine -> Seq(Message)]]
         /\ \A a, b \in Machine :
              [ch EXCEPT ![i][j] = s][a][b] =
                IF a = i /\ b = j THEN s ELSE ch[a][b]
  OBVIOUS

(* A round of the caller is a natural number as soon as it is inside.      *)
LEMMA SeenNowEntered ==
  ASSUME IInv, NEW i \in Machine, pc[i] = "wait"
  PROVE  /\ SeenNow(i) \subseteq Machine
         /\ i \in SeenNow(i)
         /\ round[i] > 0
         /\ \A j \in SeenNow(i) : round[i] <= round[j]
<1>1. seen[i] \subseteq Machine /\ i \in seen[i] /\ round[i] \in Nat /\ round[i] > 0
  BY DEF IInv, TypeOK, SeenInside
<1>2. \A j \in seen[i] : round[i] <= round[j]
  BY DEF IInv, SeenEntered
<1>3. ASSUME NEW j \in Machine, NEW msg \in queue[i],
             msg.machine = j, msg.round = round[i] - 1
      PROVE  round[i] <= round[j]
  <2>1. msg.round < round[j]
    BY <1>3 DEF IInv, MessagesHonest
  <2>2. round[j] \in Nat
    BY DEF IInv, TypeOK
  <2> QED BY <2>1, <2>2, <1>1, <1>3
<1> QED BY <1>1, <1>2, <1>3 DEF SeenNow

THEOREM Initialised == Init => IInv
  BY BuildSyncAssumption
  DEF Init, IInv, TypeOK, MessagesHonest, SeenEntered, SeenInside, Machine

-----------------------------------------------------------------------------
(* The invariant is preserved, action by action.                           *)
LEMMA EnterStep == ASSUME IInv, NEW i \in Machine, Enter(i) PROVE IInv'
<1> USE DEF IInv
<1>1. round \in [Machine -> Nat] /\ round' = [round EXCEPT ![i] = @ + 1]
  BY DEF TypeOK, Enter
<1>2. \A j \in Machine : round[j] \in Nat /\ round'[j] \in Nat /\ round[j] <= round'[j]
  BY <1>1
<1>3. TypeOK'
  BY BuildSyncAssumption DEF TypeOK, Enter
<1>4. MessagesHonest'
  <2>1. \A a, b \in Machine : \A k \in DOMAIN chan[b][a] :
          chan[b][a][k].round \in Nat
    <3> SUFFICES ASSUME NEW a \in Machine, NEW b \in Machine,
                        NEW k \in DOMAIN chan[b][a]
                 PROVE  chan[b][a][k].round \in Nat
      OBVIOUS
    <3>1. chan[b][a] \in Seq(Message)
      BY DEF TypeOK
    <3>2. chan[b][a][k] \in Message
      BY <3>1
    <3> QED BY <3>2 DEF Message
  <2>2. \A a \in Machine : \A msg \in queue[a] :
          msg.round \in Nat /\ msg.machine \in Machine
    BY DEF TypeOK, Message
  <2>3. ASSUME NEW a \in Machine, NEW b \in Machine, NEW k \in DOMAIN chan'[b][a]
        PROVE  chan'[b][a][k].machine = b /\ chan'[b][a][k].round < round'[b]
    <3>1. chan' = chan
      BY DEF Enter
    <3>2. k \in DOMAIN chan[b][a] /\ chan'[b][a][k] = chan[b][a][k]
      BY <3>1
    <3>3. /\ chan[b][a][k].machine = b /\ chan[b][a][k].round < round[b]
          /\ chan[b][a][k].round \in Nat
      BY <3>2, <2>1 DEF MessagesHonest
    <3> QED BY <3>2, <3>3, <1>2
  <2>4. ASSUME NEW a \in Machine, NEW msg \in queue'[a]
        PROVE  msg.round < round'[msg.machine]
    BY <2>2, <1>2 DEF MessagesHonest, Enter
  <2> QED BY <2>3, <2>4 DEF MessagesHonest
<1>5. SeenEntered'
  <2> SUFFICES ASSUME NEW a \in Machine, NEW b \in seen'[a]
               PROVE  round'[a] <= round'[b]
    BY DEF SeenEntered
  <2>1. CASE a = i
    BY <2>1, <1>2 DEF TypeOK, Enter
  <2>2. CASE a # i
    <3>1. b \in seen[a] /\ b \in Machine /\ round'[a] = round[a]
      BY <2>2, <1>1 DEF TypeOK, Enter
    <3> QED BY <3>1, <1>2 DEF SeenEntered
  <2> QED BY <2>1, <2>2
<1>6. SeenInside'
  BY <1>1, <1>2 DEF SeenInside, TypeOK, Enter
<1> QED BY <1>3, <1>4, <1>5, <1>6

LEMMA SendSyncStep == ASSUME IInv, NEW i \in Machine, SendSync(i) PROVE IInv'
<1> USE DEF IInv
<1>0. next' \in [Machine -> 0 .. MachineNum]
  <2>1. next \in [Machine -> 0 .. MachineNum] /\ next[i] < MachineNum
    BY DEF TypeOK, SendSync
  <2>2. next[i] + 1 \in 0 .. MachineNum
    BY <2>1, BuildSyncAssumption
  <2> QED BY <2>1, <2>2 DEF SendSync
<1>1. CASE next[i] = i
  <2>1. TypeOK'
    BY <1>0, <1>1 DEF TypeOK, SendSync
  <2>2. chan' = chan /\ UNCHANGED <<pc, round, seen, queue>>
    BY <1>1 DEF SendSync
  <2>3. MessagesHonest'
    BY <2>2 DEF MessagesHonest
  <2>4. SeenEntered' /\ SeenInside'
    BY <2>2 DEF SeenEntered, SeenInside
  <2> QED BY <2>1, <2>3, <2>4
<1>2. CASE next[i] # i
  <2> DEFINE m == next[i]
             new == [round |-> round[i] - 1, machine |-> i]
  <2>1. m \in Machine /\ round[i] \in Nat /\ round[i] > 0
    <3>1. next[i] \in 0 .. MachineNum /\ next[i] < MachineNum /\ pc[i] = "send"
      BY DEF TypeOK, SendSync
    <3>2. round[i] \in Nat /\ seen[i] # {} /\ round[i] > 0
      BY <3>1 DEF TypeOK, SeenInside
    <3> QED BY <3>1, <3>2, BuildSyncAssumption DEF Machine
  <2>2. new \in Message /\ new.round < round[i] /\ new.machine = i
    BY <2>1 DEF Message
  <2>3. chan \in [Machine -> [Machine -> Seq(Message)]]
    BY DEF TypeOK
  <2>4. chan' = [chan EXCEPT ![i][m] = Append(chan[i][m], new)]
    BY <1>2 DEF SendSync
  <2>5. Append(chan[i][m], new) \in Seq(Message)
    BY <2>1, <2>2, <2>3
  <2> HIDE DEF new, m
  <2>6. /\ chan' \in [Machine -> [Machine -> Seq(Message)]]
        /\ \A a, b \in Machine :
             chan'[a][b] = IF a = i /\ b = m THEN Append(chan[i][m], new)
                                             ELSE chan[a][b]
    BY SMTT(40), <2>1, <2>3, <2>4, <2>5, ChannelUpdate
  <2>7. TypeOK'
    BY <1>0, <2>6 DEF TypeOK, SendSync
  <2>8. ASSUME NEW a \in Machine, NEW b \in Machine, NEW k \in DOMAIN chan'[b][a]
        PROVE  chan'[b][a][k].machine = b /\ chan'[b][a][k].round < round[b]
    <3>1. CASE b = i /\ a = m
      <4>1. chan'[b][a] = Append(chan[b][a], new) /\ chan[b][a] \in Seq(Message)
        BY <3>1, <2>6, <2>3
      <4>2. chan'[b][a][k] = new \/ (k \in DOMAIN chan[b][a] /\ chan'[b][a][k] = chan[b][a][k])
        BY <4>1, <2>2
      <4> QED BY <4>2, <2>2, <3>1 DEF MessagesHonest
    <3>2. CASE ~(b = i /\ a = m)
      <4>1. chan'[b][a] = chan[b][a]
        BY <3>2, <2>6
      <4>2. chan[b][a][k].machine = b /\ chan[b][a][k].round < round[b]
        BY <4>1 DEF MessagesHonest
      <4> QED BY <4>1, <4>2
    <3> QED BY <3>1, <3>2
  <2>9. MessagesHonest'
    BY <2>8 DEF MessagesHonest, SendSync
  <2>10. SeenEntered' /\ SeenInside'
    BY DEF SendSync, SeenEntered, SeenInside
  <2> QED BY <2>7, <2>9, <2>10
<1> QED BY <1>1, <1>2

LEMMA SentStep == ASSUME IInv, NEW i \in Machine, Sent(i) PROVE IInv'
<1> USE DEF IInv
<1>1. TypeOK'
  BY ZenonT(40) DEF TypeOK, Sent
<1>2. MessagesHonest'
  BY DEF MessagesHonest, Sent
<1>3. SeenEntered' /\ SeenInside'
  BY DEF SeenEntered, SeenInside, TypeOK, Sent
<1> QED BY <1>1, <1>2, <1>3

LEMMA PollStep ==
  ASSUME IInv, NEW i \in Machine, NEW j \in Machine, Poll(i, j) PROVE IInv'
<1> USE DEF IInv
<1> DEFINE c == chan[j][i]
<1>1. chan \in [Machine -> [Machine -> Seq(Message)]] /\ queue \in [Machine -> SUBSET Message]
  BY DEF TypeOK
<1>2. c \in Seq(Message) /\ c # <<>>
  BY <1>1 DEF Poll
<1>3. /\ Head(c) \in Message /\ Tail(c) \in Seq(Message)
      /\ 1 \in DOMAIN c /\ Head(c) = c[1]
      /\ \A k \in DOMAIN Tail(c) : k + 1 \in DOMAIN c /\ Tail(c)[k] = c[k + 1]
  BY <1>2
<1>4. chan' = [chan EXCEPT ![j][i] = Tail(c)]
  BY DEF Poll
<1>5. queue' = [queue EXCEPT ![i] = @ \cup {Head(c)}]
  BY DEF Poll
<1>6. \A k \in DOMAIN c : c[k].machine = j /\ c[k].round < round[j]
  BY DEF MessagesHonest
<1> HIDE DEF c
<1>7. /\ chan' \in [Machine -> [Machine -> Seq(Message)]]
      /\ \A a, b \in Machine :
           chan'[a][b] = IF a = j /\ b = i THEN Tail(c) ELSE chan[a][b]
  BY SMTT(40), <1>1, <1>3, <1>4, ChannelUpdate
<1>8. TypeOK'
  BY <1>1, <1>3, <1>5, <1>7 DEF TypeOK, Poll
<1>9. MessagesHonest'
  <2>1. ASSUME NEW a \in Machine, NEW b \in Machine, NEW k \in DOMAIN chan'[b][a]
        PROVE  chan'[b][a][k].machine = b /\ chan'[b][a][k].round < round[b]
    <3>1. CASE b = j /\ a = i
      <4>1. chan'[b][a] = Tail(c)
        BY <3>1, <1>7
      <4>2. k + 1 \in DOMAIN c /\ chan'[b][a][k] = c[k + 1]
        BY <4>1, <1>3
      <4> QED BY <4>2, <3>1, <1>6
    <3>2. CASE ~(b = j /\ a = i)
      <4>1. chan'[b][a] = chan[b][a]
        BY <3>2, <1>7
      <4>2. chan[b][a][k].machine = b /\ chan[b][a][k].round < round[b]
        BY <4>1 DEF MessagesHonest
      <4> QED BY <4>1, <4>2
    <3> QED BY <3>1, <3>2
  <2>2. ASSUME NEW a \in Machine, NEW msg \in queue'[a]
        PROVE  msg.round < round[msg.machine]
    <3>1. msg \in queue[a] \/ msg = c[1]
      BY <1>1, <1>3, <1>5
    <3> QED BY <3>1, <1>3, <1>6 DEF MessagesHonest
  <2> QED BY <2>1, <2>2 DEF MessagesHonest, Poll
<1>10. SeenEntered' /\ SeenInside'
  BY DEF SeenEntered, SeenInside, Poll
<1> QED BY <1>8, <1>9, <1>10

(* The three ways a turn of the wait loop ends.                            *)
LEMMA TurnStep ==
  ASSUME IInv, NEW i \in Machine, KeepWaiting(i) \/ Proceed(i) \/ TimeOut(i)
  PROVE  IInv'
<1> USE DEF IInv
<1>1. pc[i] = "wait"
  BY DEF KeepWaiting, Proceed, TimeOut
<1>2. /\ SeenNow(i) \subseteq Machine /\ i \in SeenNow(i) /\ round[i] > 0
      /\ \A j \in SeenNow(i) : round[i] <= round[j]
  BY <1>1, SeenNowEntered
<1>3. /\ queue' = [queue EXCEPT ![i] = Later(i)]
      /\ UNCHANGED <<round, next, chan, late, crashes>>
  BY DEF KeepWaiting, Proceed, TimeOut
<1>4. \/ seen' = [seen EXCEPT ![i] = SeenNow(i)] /\ pc'[i] # "work"
      \/ seen' = [seen EXCEPT ![i] = {}] /\ pc'[i] \notin {"send", "wait"}
  BY <1>1 DEF KeepWaiting, Proceed, TimeOut, TypeOK
<1>5. \A a \in Machine \ {i} : pc'[a] = pc[a]
  BY DEF KeepWaiting, Proceed, TimeOut, TypeOK
<1>6. pc' \in [Machine -> {"work", "send", "wait", "stop"}]
  BY DEF KeepWaiting, Proceed, TimeOut, TypeOK
<1>7. seen' \in [Machine -> SUBSET Machine]
  BY ZenonT(40), <1>2, <1>4 DEF TypeOK
<1>8. queue' \in [Machine -> SUBSET Message]
  BY <1>3 DEF TypeOK, Later
<1>9. TypeOK'
  BY <1>3, <1>6, <1>7, <1>8 DEF TypeOK
<1>10. MessagesHonest'
  BY <1>3 DEF MessagesHonest, TypeOK, Later
<1>11. SeenEntered'
  BY <1>2, <1>3, <1>4 DEF SeenEntered, TypeOK
<1>12. SeenInside'
  BY <1>2, <1>3, <1>4, <1>5 DEF SeenInside, TypeOK
<1> QED BY <1>9, <1>10, <1>11, <1>12

LEMMA StopStep ==
  ASSUME IInv, NEW i \in Machine, Deadline(i) \/ Crash(i) PROVE IInv'
<1> USE DEF IInv
<1>1. UNCHANGED <<round, next, seen, queue, chan>>
  BY DEF Deadline, Crash
<1>2. TypeOK'
  <2>1. CASE Deadline(i)
    BY <2>1 DEF TypeOK, Deadline
  <2>2. CASE Crash(i)
    BY <2>2 DEF TypeOK, Crash
  <2> QED BY <2>1, <2>2
<1>3. MessagesHonest' /\ SeenEntered'
  BY <1>1 DEF MessagesHonest, SeenEntered
<1>4. SeenInside'
  BY <1>1 DEF SeenInside, TypeOK, Deadline, Crash
<1> QED BY <1>2, <1>3, <1>4

THEOREM Inductive == IInv /\ [Next]_vars => IInv'
<1> SUFFICES ASSUME IInv, [Next]_vars PROVE IInv'
  OBVIOUS
<1>1. CASE UNCHANGED vars
  BY <1>1 DEF vars, IInv, TypeOK, MessagesHonest, SeenEntered, SeenInside
<1>2. CASE Next
  BY <1>2, EnterStep, SendSyncStep, SentStep, PollStep, TurnStep, StopStep
  DEF Next
<1> QED BY <1>1, <1>2

(* The state of build_sync stays well typed.                               *)
THEOREM TypeCorrect == Spec => []TypeOK
  BY Initialised, Inductive, PTL DEF Spec, IInv

(* The strengthening the refinement rests on.                              *)
THEOREM Invariance == Spec => []IInv
  BY Initialised, Inductive, PTL DEF Spec

-----------------------------------------------------------------------------
(* A return of build_sync is a step Leave of the barrier.                  *)
LEMMA ReturnLeaves ==
  ASSUME IInv, NEW i \in Machine, seen[i] # {}, seen' = [seen EXCEPT ![i] = {}],
         round' = round, \A j \in Machine : round[i] <= round[j]
  PROVE  B!Leave(i)
<1>1. /\ round \in [Machine -> Nat] /\ round[i] > 0
      /\ seen \in [Machine -> SUBSET Machine]
  BY DEF IInv, TypeOK, SeenInside
<1>2. Left \in [Machine -> Int] /\ Left[i] = round[i] - 1
  BY <1>1 DEF Left
<1>3. Left' = [Left EXCEPT ![i] = @ + 1]
  <2>1. Left' = [m \in Machine |-> IF seen'[m] = {} THEN round[m] ELSE round[m] - 1]
    BY DEF Left
  <2>2. \A m \in Machine : (IF seen'[m] = {} THEN round[m] ELSE round[m] - 1)
                            = [Left EXCEPT ![i] = @ + 1][m]
    BY <1>1, <1>2 DEF Left
  <2> QED BY <2>1, <2>2, <1>2
<1> QED BY <1>1, <1>2, <1>3 DEF B!Leave

(* A step that keeps the rounds and keeps everyone inside or outside is    *)
(* not seen by the barrier.                                                *)
LEMMA Unseen ==
  ASSUME round' = round, \A m \in Machine : seen'[m] = {} <=> seen[m] = {}
  PROVE  UNCHANGED B!barrierVars
  BY DEF B!barrierVars, Left

(* A step of build_sync is a step of the barrier or leaves it unchanged.   *)
LEMMA StepRefines ==
  ASSUME IInv, [Next]_vars PROVE [B!Next]_(B!barrierVars)
<1> USE DEF IInv
<1>1. CASE UNCHANGED vars
  BY <1>1, Unseen DEF vars
<1>2. ASSUME NEW i \in Machine, Enter(i) PROVE B!Enter(i)
  <2>1. /\ round \in [Machine -> Nat] /\ seen[i] = {}
        /\ round' = [round EXCEPT ![i] = @ + 1]
        /\ seen \in [Machine -> SUBSET Machine]
        /\ seen' = [seen EXCEPT ![i] = {i}]
    BY <1>2 DEF TypeOK, SeenInside, Enter
  <2>2. \A m \in Machine : (IF seen'[m] = {} THEN round'[m] ELSE round'[m] - 1)
                            = IF seen[m] = {} THEN round[m] ELSE round[m] - 1
    BY <2>1
  <2>3. Left' = Left
    BY <2>2 DEF Left
  <2>4. Left[i] = round[i]
    BY <2>1 DEF Left
  <2> QED BY <2>1, <2>3, <2>4 DEF B!Enter
<1>3. ASSUME NEW i \in Machine, SendSync(i) \/ Deadline(i) \/ Crash(i)
      PROVE  UNCHANGED B!barrierVars
  BY <1>3, Unseen DEF SendSync, Deadline, Crash
<1>4. ASSUME NEW i \in Machine, NEW j \in Machine, Poll(i, j)
      PROVE  UNCHANGED B!barrierVars
  BY <1>4, Unseen DEF Poll
<1>5. ASSUME NEW i \in Machine, Sent(i)
      PROVE  B!Leave(i) \/ UNCHANGED B!barrierVars
  <2>1. pc[i] = "send" /\ i \in seen[i] /\ round' = round
    BY <1>5 DEF Sent, SeenInside
  <2>2. CASE seen[i] = Machine /\ seen' = [seen EXCEPT ![i] = {}]
    <3>1. \A j \in Machine : round[i] <= round[j]
      BY <2>2 DEF SeenEntered
    <3> QED BY <3>1, <2>1, <2>2, ReturnLeaves
  <2>3. CASE seen' = seen
    BY <2>1, <2>3, Unseen
  <2> QED BY <1>5, <2>2, <2>3 DEF Sent
<1>6. ASSUME NEW i \in Machine, Proceed(i) PROVE B!Leave(i)
  <2>1. pc[i] = "wait" /\ SeenNow(i) = Machine /\ round' = round
        /\ seen' = [seen EXCEPT ![i] = {}]
    BY <1>6 DEF Proceed
  <2>2. \A j \in Machine : round[i] <= round[j]
    BY <2>1, SeenNowEntered
  <2>3. seen[i] # {}
    BY <2>1 DEF SeenInside
  <2> QED BY <2>1, <2>2, <2>3, ReturnLeaves
<1>7. ASSUME NEW i \in Machine, KeepWaiting(i) \/ TimeOut(i)
      PROVE  UNCHANGED B!barrierVars
  <2>1. /\ pc[i] = "wait" /\ round' = round
        /\ seen' = [seen EXCEPT ![i] = SeenNow(i)]
    BY <1>7 DEF KeepWaiting, TimeOut
  <2>2. i \in SeenNow(i) /\ i \in seen[i] /\ seen \in [Machine -> SUBSET Machine]
    BY <2>1, SeenNowEntered DEF TypeOK, SeenInside
  <2>3. \A m \in Machine : seen'[m] = {} <=> seen[m] = {}
    BY <2>1, <2>2
  <2> QED BY <2>1, <2>3, Unseen
<1>8. CASE Next
  BY <1>2, <1>3, <1>4, <1>5, <1>6, <1>7, <1>8 DEF Next, B!Next
<1> QED BY <1>1, <1>8

(* build_sync is a barrier: a call returns only after every machine has    *)
(* made that call, for any number of machines, calls, crashes and          *)
(* deadlines.                                                              *)
THEOREM BarrierRefined == Spec => Refines
<1>1. Init => B!Init
  BY DEF Init, B!Init, Left
<1>2. IInv /\ [Next]_vars => [B!Next]_(B!barrierVars)
  BY StepRefines
<1> QED BY <1>1, <1>2, Invariance, PTL DEF Spec, Refines, B!Spec

-----------------------------------------------------------------------------
(* No round is lost.  NoSyncLost speaks of the round the receiver is in;   *)
(* what keeps it true is the same of every round still ahead of the        *)
(* receiver, which the queue holds back until the receiver gets there.     *)

(* j has sent round r to i.                                                *)
RoundSent(j, i, r) == r < round[j] - 1 \/ (r = round[j] - 1 /\ next[j] > i)

(* The message of round r from j has not been looked at by i.              *)
Pending(i, j, r) ==
  [round |-> r, machine |-> j] \in
    queue[i] \cup {chan[j][i][k] : k \in DOMAIN chan[j][i]}

(* Round r has not gone by for i.                                          *)
Ahead(i, r) ==
  r >= round[i] \/ (r = round[i] - 1 /\ pc[i] \in {"send", "wait"})

RoundsKept ==
  \A i, j \in Machine : \A r \in Nat :
    i # j /\ pc[i] # "stop" /\ Ahead(i, r) /\ RoundSent(j, i, r)
      => Pending(i, j, r) \/ (r = round[i] - 1 /\ j \in seen[i])

(* Outside of the send loop the last round has been sent to everyone.      *)
LastSent ==
  \A i \in Machine :
    pc[i] = "wait" \/ (pc[i] = "work" /\ round[i] > 0) => next[i] = MachineNum

KInv == IInv /\ LastSent /\ RoundsKept

(* What a step leaves alone in a channel and in a queue stays pending.     *)
LEMMA StillPending ==
  ASSUME NEW i \in Machine, NEW j \in Machine, NEW r \in Nat,
         Pending(i, j, r), queue[i] \subseteq queue'[i], chan'[j][i] = chan[j][i]
  PROVE  Pending(i, j, r)'
  BY DEF Pending

LEMMA KInitialised == Init => KInv
<1> SUFFICES ASSUME Init PROVE KInv
  OBVIOUS
<1>1. IInv
  BY Initialised
<1>2. LastSent
  BY DEF Init, LastSent
<1>3. RoundsKept
  BY BuildSyncAssumption DEF Init, RoundsKept, RoundSent, Machine
<1> QED BY <1>1, <1>2, <1>3 DEF KInv

LEMMA EnterKeeps == ASSUME KInv, NEW e \in Machine, Enter(e) PROVE (LastSent /\ RoundsKept)'
<1>1. TypeOK /\ LastSent /\ RoundsKept /\ round \in [Machine -> Nat]
  BY DEF KInv, IInv, TypeOK
<1>2. /\ round' = [round EXCEPT ![e] = @ + 1] /\ queue' = queue /\ chan' = chan
      /\ pc[e] = "work" /\ pc'[e] = "send" /\ next'[e] = 0
      /\ \A m \in Machine \ {e} : pc'[m] = pc[m] /\ next'[m] = next[m] /\ seen'[m] = seen[m]
  BY <1>1 DEF Enter, TypeOK
<1>3. LastSent'
  BY <1>1, <1>2 DEF LastSent
<1>4. ASSUME NEW i \in Machine, NEW j \in Machine, NEW r \in Nat,
             i # j, pc'[i] # "stop", Ahead(i, r)', RoundSent(j, i, r)'
      PROVE  Pending(i, j, r)' \/ (r = round'[i] - 1 /\ j \in seen'[i])
  <2>1. RoundSent(j, i, r)
    <3>1. CASE j = e
      <4>1. r < round[j]
        BY <1>1, <1>2, <1>4, <3>1, BuildSyncAssumption DEF RoundSent, Machine
      <4>2. next[j] = MachineNum /\ next[j] > i
        BY <1>1, <1>2, <3>1, <4>1, BuildSyncAssumption DEF LastSent, Machine
      <4> QED BY <1>1, <4>1, <4>2 DEF RoundSent
    <3>2. CASE j # e
      BY <1>1, <1>2, <1>4, <3>2 DEF RoundSent
    <3> QED BY <3>1, <3>2
  <2>2. Ahead(i, r) /\ pc[i] # "stop"
    BY <1>1, <1>2, <1>4 DEF Ahead
  <2>3. Pending(i, j, r) \/ (r = round[i] - 1 /\ j \in seen[i])
    BY <1>1, <1>4, <2>1, <2>2 DEF RoundsKept
  <2>4. CASE i = e
    <3>1. seen[i] = {}
      BY <1>2, <2>4 DEF KInv, IInv, SeenInside
    <3> QED BY <2>3, <3>1, <1>2, StillPending
  <2>5. CASE i # e
    BY <2>3, <2>5, <1>1, <1>2, StillPending
  <2> QED BY <2>4, <2>5
<1> QED BY <1>3, <1>4 DEF RoundsKept

LEMMA SendKeeps == ASSUME KInv, NEW s \in Machine, SendSync(s) PROVE (LastSent /\ RoundsKept)'
<1>1. /\ TypeOK /\ LastSent /\ RoundsKept /\ round \in [Machine -> Nat]
      /\ next \in [Machine -> 0 .. MachineNum]
      /\ chan \in [Machine -> [Machine -> Seq(Message)]]
  BY DEF KInv, IInv, TypeOK
<1>2. /\ UNCHANGED <<pc, round, seen, queue>> /\ pc[s] = "send"
      /\ next' = [next EXCEPT ![s] = @ + 1]
  BY DEF SendSync
<1>3. LastSent'
  BY <1>1, <1>2 DEF LastSent
<1>4. next[s] \in Machine /\ round[s] \in Nat /\ round[s] > 0
  <2>1. round[s] > 0
    BY <1>2 DEF KInv, IInv, SeenInside
  <2> QED BY <1>1, <2>1, BuildSyncAssumption DEF SendSync, Machine
<1> DEFINE m == next[s]
           new == [round |-> round[s] - 1, machine |-> s]
<1>5. new \in Message
  BY <1>4 DEF Message
<1>6. CASE next[s] = s
  <2>1. chan' = chan
    BY <1>6 DEF SendSync
  <2>2. \A i, j \in Machine : \A r \in Nat : i # j /\ RoundSent(j, i, r)' => RoundSent(j, i, r)
    BY <1>1, <1>2, <1>6, BuildSyncAssumption DEF RoundSent, Machine
  <2>3. \A i \in Machine : \A r \in Nat : Ahead(i, r)' => Ahead(i, r)
    BY <1>2 DEF Ahead
  <2> QED BY <1>1, <1>2, <1>3, <2>1, <2>2, <2>3, StillPending DEF RoundsKept
<1>7. CASE next[s] # s
  <2>1. chan' = [chan EXCEPT ![s][m] = Append(chan[s][m], new)]
    BY <1>7 DEF SendSync
  <2>2. chan[s][m] \in Seq(Message) /\ Append(chan[s][m], new) \in Seq(Message)
    BY <1>1, <1>4, <1>5
  <2>0. m \in Machine /\ chan \in [Machine -> [Machine -> Seq(Message)]]
    BY <1>1, <1>4
  <2> HIDE DEF m, new
  <2>3. \A a, b \in Machine :
          chan'[a][b] = IF a = s /\ b = m THEN Append(chan[s][m], new)
                                          ELSE chan[a][b]
    BY <2>0, <2>1, <2>2, ChannelUpdate
  <2>4. ASSUME NEW i \in Machine, NEW j \in Machine, NEW r \in Nat,
               i # j, pc'[i] # "stop", Ahead(i, r)', RoundSent(j, i, r)'
        PROVE  Pending(i, j, r)' \/ (r = round'[i] - 1 /\ j \in seen'[i])
    <3>1. CASE j = s /\ i = m /\ r = round[s] - 1
      <4>1. chan'[j][i] = Append(chan[s][m], new)
        BY <2>3, <3>1
      <4>2. \E k \in DOMAIN chan'[j][i] : chan'[j][i][k] = new
        <5>1. /\ Len(chan[s][m]) + 1 \in DOMAIN Append(chan[s][m], new)
              /\ Append(chan[s][m], new)[Len(chan[s][m]) + 1] = new
          BY <2>2, <1>5
        <5> QED BY <4>1, <5>1
      <4>3. new = [round |-> r, machine |-> j]
        BY <3>1 DEF new
      <4> QED BY <4>2, <4>3 DEF Pending
    <3>2. CASE ~(j = s /\ i = m /\ r = round[s] - 1)
      <4>1. RoundSent(j, i, r)
        <5>1. CASE j # s
          BY <1>1, <1>2, <2>4, <5>1 DEF RoundSent
        <5>2. CASE j = s
          <6>1. round' = round /\ next'[j] = next[j] + 1 /\ next[j] = m
            BY <1>1, <1>2, <5>2 DEF m
          <6>2. i \in Int /\ m \in Int /\ round[s] \in Int
            BY <1>4, <2>0 DEF Machine
          <6> QED BY <2>4, <3>2, <5>2, <6>1, <6>2 DEF RoundSent
        <5> QED BY <5>1, <5>2
      <4>2. Ahead(i, r) /\ pc[i] # "stop"
        BY <1>2, <2>4 DEF Ahead
      <4>3. Pending(i, j, r) \/ (r = round[i] - 1 /\ j \in seen[i])
        BY <1>1, <2>4, <4>1, <4>2 DEF RoundsKept
      <4>4. ASSUME Pending(i, j, r) PROVE Pending(i, j, r)'
        <5>1. CASE j = s /\ i = m
          <6>1. chan'[j][i] = Append(chan[j][i], new) /\ chan[j][i] \in Seq(Message)
            BY <2>2, <2>3, <5>1
          <6>2. \A k \in DOMAIN chan[j][i] :
                  k \in DOMAIN chan'[j][i] /\ chan'[j][i][k] = chan[j][i][k]
            BY <6>1, <1>5
          <6> QED BY <4>4, <6>2, <1>2 DEF Pending
        <5>2. CASE ~(j = s /\ i = m)
          BY <4>4, <5>2, <2>3, <1>2, StillPending
        <5> QED BY <5>1, <5>2
      <4> QED BY <4>3, <4>4, <1>2
    <3> QED BY <3>1, <3>2
  <2> QED BY <1>3, <2>4 DEF RoundsKept
<1> QED BY <1>6, <1>7

LEMMA PollKeeps ==
  ASSUME KInv, NEW p \in Machine, NEW q \in Machine, Poll(p, q)
  PROVE  (LastSent /\ RoundsKept)'
<1>1. /\ TypeOK /\ LastSent /\ RoundsKept
      /\ chan \in [Machine -> [Machine -> Seq(Message)]]
      /\ queue \in [Machine -> SUBSET Message]
  BY DEF KInv, IInv, TypeOK
<1>2. UNCHANGED <<pc, round, next, seen>>
  BY DEF Poll
<1> DEFINE c == chan[q][p]
<1>3. c \in Seq(Message) /\ c # <<>>
  BY <1>1 DEF Poll
<1>4. /\ Head(c) = c[1] /\ Tail(c) \in Seq(Message)
      /\ \A k \in DOMAIN c : k = 1 \/ (k - 1 \in DOMAIN Tail(c) /\ Tail(c)[k - 1] = c[k])
  BY <1>3
<1>5. chan' = [chan EXCEPT ![q][p] = Tail(c)]
  BY DEF Poll
<1>6. queue' = [queue EXCEPT ![p] = @ \cup {Head(c)}]
  BY DEF Poll
<1> HIDE DEF c
<1>7. \A a, b \in Machine : chan'[a][b] = IF a = q /\ b = p THEN Tail(c) ELSE chan[a][b]
  BY SMTT(40), <1>1, <1>4, <1>5, ChannelUpdate
<1>8. \A i \in Machine : queue[i] \subseteq queue'[i]
  BY <1>1, <1>6
<1>9. ASSUME NEW i \in Machine, NEW j \in Machine, NEW r \in Nat, Pending(i, j, r)
      PROVE  Pending(i, j, r)'
  <2>1. CASE j = q /\ i = p
    <3>1. chan[j][i] = c /\ chan'[j][i] = Tail(c) /\ queue'[i] = queue[i] \cup {c[1]}
      BY <1>1, <1>4, <1>6, <1>7, <2>1 DEF c
    <3> DEFINE msg == [round |-> r, machine |-> j]
    <3>2. msg \in queue[i] \/ \E k \in DOMAIN c : msg = c[k]
      BY <3>1, <1>9 DEF Pending
    <3> HIDE DEF msg
    <3>3. msg \in queue'[i] \/ \E k \in DOMAIN chan'[j][i] : msg = chan'[j][i][k]
      BY <3>1, <3>2, <1>4
    <3> QED BY <3>3 DEF Pending, msg
  <2>2. CASE ~(j = q /\ i = p)
    BY <2>2, <1>7, <1>8, <1>9, StillPending
  <2> QED BY <2>1, <2>2
<1>10. LastSent'
  BY <1>1, <1>2 DEF LastSent
<1>11. RoundsKept'
  BY <1>1, <1>2, <1>9 DEF RoundsKept, Ahead, RoundSent
<1> QED BY <1>10, <1>11

LEMMA TurnKeeps ==
  ASSUME KInv, NEW w \in Machine, KeepWaiting(w) \/ Proceed(w) \/ TimeOut(w)
  PROVE  (LastSent /\ RoundsKept)'
<1>1. TypeOK /\ LastSent /\ RoundsKept /\ round \in [Machine -> Nat]
  BY DEF KInv, IInv, TypeOK
<1>2. pc[w] = "wait" /\ queue' = [queue EXCEPT ![w] = Later(w)]
      /\ UNCHANGED <<round, next, chan>>
  BY DEF KeepWaiting, Proceed, TimeOut
<1>3. \/ pc'[w] \in {"work", "stop"}
      \/ pc'[w] = "wait" /\ seen'[w] = SeenNow(w)
  BY <1>1, <1>2 DEF KeepWaiting, Proceed, TimeOut, TypeOK
<1>4. \A m \in Machine \ {w} : pc'[m] = pc[m] /\ seen'[m] = seen[m] /\ queue'[m] = queue[m]
  BY <1>1, <1>2 DEF KeepWaiting, Proceed, TimeOut, TypeOK
<1>5. LastSent'
  BY <1>1, <1>2, <1>3, <1>4 DEF LastSent
<1>6. ASSUME NEW i \in Machine, NEW j \in Machine, NEW r \in Nat,
             i # j, pc'[i] # "stop", Ahead(i, r)', RoundSent(j, i, r)'
      PROVE  Pending(i, j, r)' \/ (r = round'[i] - 1 /\ j \in seen'[i])
  <2>1. RoundSent(j, i, r)
    BY <1>2, <1>6 DEF RoundSent
  <2>2. CASE i # w
    <3>1. Ahead(i, r) /\ pc[i] # "stop"
      BY <1>2, <1>4, <1>6, <2>2 DEF Ahead
    <3>2. Pending(i, j, r) \/ (r = round[i] - 1 /\ j \in seen[i])
      BY <1>1, <1>6, <2>1, <3>1 DEF RoundsKept
    <3> QED BY <3>2, <2>2, <1>2, <1>4, StillPending
  <2>3. CASE i = w
    <3>1. Ahead(i, r) /\ pc[i] # "stop"
      BY <1>2, <1>6, <2>3 DEF Ahead
    <3>2. Pending(i, j, r) \/ (r = round[i] - 1 /\ j \in seen[i])
      BY <1>1, <1>6, <2>1, <3>1 DEF RoundsKept
    <3>3. CASE r = round[i] - 1
      <4>1. pc'[i] = "wait" /\ seen'[i] = SeenNow(i)
        BY <1>1, <1>2, <1>3, <1>6, <2>3, <3>3 DEF Ahead
      <4>2. CASE j \in SeenNow(i)
        BY <4>1, <4>2, <3>3, <1>2
      <4>3. CASE j \notin SeenNow(i)
        <5> DEFINE msg == [round |-> r, machine |-> j]
        <5>1. msg.round = r /\ msg.machine = j
          OBVIOUS
        <5>2. msg \notin queue[i]
          BY <4>3, <3>3, <5>1 DEF SeenNow
        <5>3. j \notin seen[i]
          BY <4>3 DEF SeenNow
        <5> QED BY <3>2, <5>2, <5>3, <1>2 DEF Pending
      <4> QED BY <4>2, <4>3
    <3>4. CASE r # round[i] - 1
      <4>1. Pending(i, j, r) /\ r > round[i] - 1
        BY <3>1, <3>2, <3>4, <1>1 DEF Ahead
      <4> DEFINE msg == [round |-> r, machine |-> j]
      <4>2. msg \in queue[i] => msg \in Later(i)
        BY <4>1 DEF Later
      <4>3. queue'[i] = Later(i)
        BY <1>1, <1>2, <2>3 DEF TypeOK
      <4> QED BY <4>1, <4>2, <4>3, <1>2 DEF Pending
    <3> QED BY <3>3, <3>4
  <2> QED BY <2>2, <2>3
<1> QED BY <1>5, <1>6 DEF RoundsKept

LEMMA OtherKeeps ==
  ASSUME KInv, NEW s \in Machine, Sent(s) \/ Deadline(s) \/ Crash(s)
  PROVE  (LastSent /\ RoundsKept)'
<1>1. TypeOK /\ LastSent /\ RoundsKept /\ round \in [Machine -> Nat]
  BY DEF KInv, IInv, TypeOK
<1>2. UNCHANGED <<round, next, queue, chan>>
  BY DEF Sent, Deadline, Crash
<1>3. \/ pc' = pc /\ seen' = seen
      \/ pc'[s] = "stop" /\ seen' = seen
      \/ pc'[s] = "work" /\ next[s] = MachineNum
      \/ pc[s] = "send" /\ pc'[s] = "wait" /\ next[s] = MachineNum /\ seen' = seen
  BY <1>1 DEF Sent, Deadline, Crash, TypeOK
<1>4. \A m \in Machine \ {s} : pc'[m] = pc[m] /\ seen'[m] = seen[m]
  BY <1>1 DEF Sent, Deadline, Crash, TypeOK
<1>5. LastSent'
  BY <1>1, <1>2, <1>3, <1>4 DEF LastSent
<1>6. ASSUME NEW i \in Machine, NEW j \in Machine, NEW r \in Nat,
             i # j, pc'[i] # "stop", Ahead(i, r)', RoundSent(j, i, r)'
      PROVE  Pending(i, j, r)' \/ (r = round'[i] - 1 /\ j \in seen'[i])
  <2>1. RoundSent(j, i, r)
    BY <1>2, <1>6 DEF RoundSent
  <2>2. Ahead(i, r) /\ pc[i] # "stop"
    BY <1>1, <1>2, <1>3, <1>4, <1>6 DEF Ahead, Sent, Deadline, Crash
  <2>3. Pending(i, j, r) \/ (r = round[i] - 1 /\ j \in seen[i])
    BY <1>1, <1>6, <2>1, <2>2 DEF RoundsKept
  <2>4. Pending(i, j, r) => Pending(i, j, r)'
    BY <1>2, StillPending
  <2>5. r = round[i] - 1 => seen'[i] = seen[i]
    BY <1>1, <1>2, <1>3, <1>4, <1>6 DEF Ahead
  <2> QED BY <2>3, <2>4, <2>5, <1>2
<1> QED BY <1>5, <1>6 DEF RoundsKept

THEOREM KInductive == KInv /\ [Next]_vars => KInv'
<1> SUFFICES ASSUME KInv, [Next]_vars PROVE KInv'
  OBVIOUS
<1>1. IInv'
  BY Inductive DEF KInv
<1>2. CASE UNCHANGED vars
  BY <1>1, <1>2 DEF vars, KInv, LastSent, RoundsKept, Ahead, RoundSent, Pending
<1>3. CASE Next
  BY <1>1, <1>3, EnterKeeps, SendKeeps, PollKeeps, TurnKeeps, OtherKeeps
  DEF Next, KInv
<1> QED BY <1>2, <1>3

(* A round that j has sent to i is on its way, put back or seen until i    *)
(* has left it, for any number of machines, calls, crashes and deadlines   *)
(* and however far ahead j is.                                             *)
THEOREM SyncKept == Spec => []NoSyncLost
<1>1. KInv => NoSyncLost
  <2> SUFFICES ASSUME KInv, NEW i \in Machine, NEW j \in Machine,
                      i # j, pc[i] \in {"send", "wait"}, HasSent(j, i)
               PROVE  j \in seen[i] \/ Pending(i, j, round[i] - 1)
    BY DEF NoSyncLost, Pending
  <2>1. round[i] - 1 \in Nat /\ round \in [Machine -> Nat]
    <3>1. round \in [Machine -> Nat] /\ round[i] > 0
      BY DEF KInv, IInv, TypeOK, SeenInside
    <3> QED BY <3>1
  <2>2. Ahead(i, round[i] - 1) /\ RoundSent(j, i, round[i] - 1)
    BY <2>1 DEF Ahead, RoundSent, HasSent
  <2> QED BY <2>1, <2>2 DEF KInv, RoundsKept
<1> QED BY <1>1, KInitialised, KInductive, PTL DEF Spec

=============================================================================
