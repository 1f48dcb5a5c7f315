---------------------------- MODULE StartupProofs -----------------------------
(***************************************************************************)
(* Two results about the start of the machines, for any number of          *)
(* machines, failures, restarts and flushes of memcached: past the barrier *)
(* every machine has the data the others keep for it (PeersMatch), and     *)
(* without a failure the machines never all wait (NoMutualWait).           *)
(*                                                                         *)
(* PeersMatch: what memcached holds was written once, by the process that  *)
(* owned the order id then (Orders, Names, Metas).  A process has          *)
(* exchanged data with all order ids below the one it is at (Exchange).    *)
(* The barrier counts order ids, not processes: an order id is done when   *)
(* its row of the table is full and no process of it is still to arrive,   *)
(* and at most the done ones have been counted (Counted).  So the barrier  *)
(* opens only over a full table (Filled), and in a full table no machine   *)
(* has two order ids.                                                      *)
(***************************************************************************)
EXTENDS Startup, FiniteSetTheorems, WellFoundedInduction, TLAPS

Phase == {"open", "add", "id", "num", "mid", "set", "get", "route", "arrive",
          "wait", "connect", "run", "exit"}
RegionKeys == [read : Machine \X Nat, write : Machine \X Nat \X Machine]
Msg == [from : Machine, to : Machine, regions : RegionKeys, gid : {BestGidIndex}]
Qp == [state : {"RESET", "INIT", "RTS"}, dest : Msg \cup {NoMsg}, mtu : {0, CurrMtu}]

TypeOK ==
  /\ up \in [Machine -> Phase]
  /\ gen \in [Machine -> Nat]
  /\ faults \in Nat /\ flushes \in Nat
  /\ myId \in [Machine -> Nat]
  /\ curNum \in [Machine -> Nat]
  /\ serverNum \in [Machine -> Nat]
  /\ k \in [Machine -> Nat]
  /\ mid \in [Machine -> Machine \cup {None}]
  /\ remoteMsg \in [Machine -> [Machine -> Msg \cup {NoMsg}]]
  /\ qp \in [Machine -> [Machine -> Qp]]
  /\ mcNum \in Nat
  /\ mcId \in [OrderId -> Machine \cup {None}]
  /\ mcMeta \in [OrderId \X OrderId -> Msg \cup {NoMsg}]
  /\ mcBarrier \in Nat \cup {None}

(* The process of i has an order id; it has also written its machine id.   *)
Alive(i) == up[i] \notin {"open", "add", "exit"}
Named(i) == Alive(i) /\ up[i] # "id"
Arrived == {"wait", "connect", "run"}

(* Order id q has left data for order id r.                                *)
Sent(q, r) == mcMeta[<<q, r>>] # NoMsg

Orders ==
  /\ \A i \in Machine : Alive(i) => myId[i] \in OrderId /\ myId[i] < mcNum
  /\ \A i, j \in Machine : Alive(i) /\ Alive(j) /\ myId[i] = myId[j] => i = j

(* The order ids of earlier processes of a machine are smaller.            *)
Names ==
  /\ \A o \in OrderId : mcId[o] # None => o < mcNum
  /\ \A i \in Machine : up[i] = "id" => mcId[myId[i]] = None
  /\ \A i \in Machine : Named(i) => mcId[myId[i]] = i
  /\ \A i \in Machine, o \in OrderId : Alive(i) /\ mcId[o] = i => o <= myId[i]

(* The data of an order id whose process is alive are of that process.     *)
Metas ==
  \A q, r \in OrderId : Sent(q, r) =>
    /\ mcId[q] # None /\ mcId[r] # None
    /\ mcMeta[<<q, r>>].from = mcId[q] /\ mcMeta[<<q, r>>].to = mcId[r]
    /\ q < r => mcId[q] # mcId[r]
    /\ \A i \in Machine :
         Alive(i) /\ myId[i] = q => mcMeta[<<q, r>>] = Meta(i, mcId[r])

(* i has left data for order id q and has taken those of its machine.      *)
Exchanged(i, q) ==
  /\ Sent(q, myId[i]) /\ Sent(myId[i], q)
  /\ \E p \in OrderId :
       /\ mcId[p] = mcId[q] /\ Sent(p, myId[i])
       /\ remoteMsg[i][mcId[q]] = mcMeta[<<p, myId[i]>>]

Upto(i) == CASE up[i] = "num" -> curNum[i]
             [] up[i] \in {"mid", "set", "get"} -> k[i]
             [] OTHER -> MachineNum

ExchangeOf(i) ==
  Named(i) =>
    /\ remoteMsg[i][i] = Meta(i, i)
    /\ \A q \in OrderId \ {myId[i]} : q < Upto(i) => Exchanged(i, q)
    /\ up[i] \in {"mid", "set", "get"} =>
         /\ k[i] \in OrderId \ {myId[i]}
         /\ k[i] < serverNum[i] /\ serverNum[i] <= MachineNum
    /\ up[i] = "set" => mid[i] = mcId[k[i]] /\ mid[i] # None
    /\ up[i] = "get" => Sent(myId[i], k[i])

Exchange == \A i \in Machine : ExchangeOf(i)

(* The order ids the barrier may have counted.                             *)
Done ==
  {q \in OrderId :
     /\ q < mcNum
     /\ \A r \in OrderId \ {q} : Sent(q, r)
     /\ \A i \in Machine : Alive(i) /\ myId[i] = q => up[i] \in Arrived}

Counted == mcBarrier <= Cardinality(Done)

Full == \A q, r \in OrderId : q # r => Sent(q, r)
Filled == \A i \in Machine : Past(i) => Full

(* A new process has exchanged nothing.                                    *)
Idle == \A i \in Machine : up[i] \in {"open", "add", "id"} => curNum[i] = 0

Joined ==
  \A i, j \in Machine : up[i] = "run" /\ i # j => qp[i][j].dest = remoteMsg[i][j]

IInv ==
  /\ TypeOK /\ Orders /\ Names /\ Metas /\ Exchange /\ Idle
  /\ Counted /\ Filled /\ Joined

-----------------------------------------------------------------------------
(* Data that have been prepared are data.                                  *)
LEMMA MetaReal ==
  ASSUME TypeOK, NEW i \in Machine, NEW m \in Machine
  PROVE  Meta(i, m) \in Msg /\ Meta(i, m).from = i /\ Meta(i, m).to = m
<1>1. gen[i] \in Nat
  BY DEF TypeOK
<1>2. Regions(i, m) \in RegionKeys
  BY <1>1 DEF Regions, RegionKeys
<1> QED BY <1>2 DEF Meta, Msg

LEMMA MsgReal == \A msg \in Msg : msg # NoMsg
<1> SUFFICES ASSUME NEW msg \in Msg, msg = NoMsg PROVE FALSE
  OBVIOUS
<1>1. "from" \in DOMAIN msg
  BY DEF Msg
<1>2. DOMAIN msg = {}
  BY DEF NoMsg
<1> QED BY <1>1, <1>2

(* The type of a table of tables after one of its entries has changed.     *)
LEMMA EntryUpdate ==
  ASSUME NEW T, NEW f \in [Machine -> [Machine -> T]],
         NEW i \in Machine, NEW m \in Machine, NEW v \in T
  PROVE  /\ [f EXCEPT ![i][m] = v] \in [Machine -> [Machine -> T]]
         /\ [f EXCEPT ![i][m] = v][i] = [f[i] EXCEPT ![m] = v]
         /\ \A a, b \in Machine :
              [f EXCEPT ![i][m] = v][a][b] = IF a = i /\ b = m THEN v ELSE f[a][b]
  OBVIOUS

THEOREM Initialised == StartupInit => IInv
<1> SUFFICES ASSUME StartupInit PROVE IInv
  OBVIOUS
<1>1. NewQp \in Qp
  BY DEF NewQp, Qp
<1>2. TypeOK
  BY <1>1 DEF StartupInit, TypeOK, Phase
<1>3. Orders /\ Names /\ Metas /\ Exchange /\ Idle /\ Filled /\ Joined
  BY DEF StartupInit, Orders, Names, Metas, Exchange, ExchangeOf, Idle, Filled,
         Joined, Alive, Named, Sent, Past
<1>4. Counted
  <2>1. Done = {}
    BY StartupAssumption DEF Done, StartupInit, OrderId, Machine
  <2> QED BY <2>1, FS_EmptySet DEF Counted, StartupInit, None
<1> QED BY <1>2, <1>3, <1>4 DEF IInv

-----------------------------------------------------------------------------
(* There are as many order ids as machines.                                *)
LEMMA OrderIdsFinite == IsFiniteSet(OrderId) /\ Cardinality(OrderId) = MachineNum
<1>1. MachineNum \in Nat /\ MachineNum > 0
  BY StartupAssumption
<1>2. 0 \in Int /\ MachineNum - 1 \in Int /\ ~(0 > MachineNum - 1)
      /\ (MachineNum - 1) - 0 + 1 = MachineNum
  BY <1>1
<1>3. /\ IsFiniteSet(0 .. (MachineNum - 1))
      /\ Cardinality(0 .. (MachineNum - 1)) =
           IF 0 > MachineNum - 1 THEN 0 ELSE (MachineNum - 1) - 0 + 1
  BY <1>2, FS_Interval
<1> QED BY <1>2, <1>3 DEF OrderId, Machine

(* What a step does not touch.                                             *)
Same(j) ==
  /\ up'[j] = up[j] /\ gen'[j] = gen[j] /\ myId'[j] = myId[j]
  /\ curNum'[j] = curNum[j] /\ serverNum'[j] = serverNum[j]
  /\ k'[j] = k[j] /\ mid'[j] = mid[j]
  /\ remoteMsg'[j] = remoteMsg[j] /\ qp'[j] = qp[j]

(* A process that is alive after a step was alive before and has not gone  *)
(* back.                                                                   *)
Goes(i) ==
  Alive(i)' =>
    /\ Alive(i) /\ myId'[i] = myId[i] /\ gen'[i] = gen[i]
    /\ up[i] \in Arrived => up'[i] \in Arrived
    /\ up'[i] = "id" => up[i] = "id"

(* memcached keeps what it has.                                            *)
Grows ==
  /\ mcNum <= mcNum'
  /\ \A o \in OrderId : mcId[o] # None => mcId'[o] = mcId[o]
  /\ \A q, r \in OrderId : Sent(q, r) => mcMeta'[<<q, r>>] = mcMeta[<<q, r>>]

(* A step of one machine leaves the other ones alone.                      *)
LEMMA OthersSame ==
  ASSUME TypeOK, NEW i \in Machine, ComInit(i) \/ Fail(i),
         NEW j \in Machine, j # i
  PROVE  Same(j)
<1> USE DEF Same, TypeOK, UpGoto, connVars
<1>1. CASE CtxInit(i)
  BY <1>1 DEF CtxInit
<1>2. CASE AddMachine(i)
  BY <1>2 DEF AddMachine
<1>3. CASE SetMachineKey(i)
  BY <1>3 DEF SetMachineKey
<1>4. CASE GetServerNum(i)
  BY <1>4 DEF GetServerNum
<1>5. CASE GetMachineKey(i)
  BY <1>5 DEF GetMachineKey
<1>6. CASE SetMeta(i)
  BY <1>6 DEF SetMeta
<1>7. CASE GetMeta(i)
  BY <1>7 DEF GetMeta
<1>8. CASE BarrierAdd(i) \/ BarrierArrive(i) \/ BarrierWait(i)
  BY <1>8 DEF BarrierAdd, BarrierArrive, BarrierWait
<1>9. CASE Connect(i)
  BY <1>9 DEF Connect
<1>10. CASE TimeOut(i) \/ Crash(i)
  BY <1>10 DEF TimeOut, Crash
<1>11. CASE Restart(i)
  BY <1>11 DEF Restart
<1> QED
  BY <1>1, <1>2, <1>3, <1>4, <1>5, <1>6, <1>7, <1>8, <1>9, <1>10, <1>11
  DEF ComInit, Fail

(* What a process has exchanged stays exchanged while memcached grows.     *)
LEMMA ExchangedKept ==
  ASSUME TypeOK, Metas, Grows, NEW i \in Machine, NEW q \in OrderId,
         myId[i] \in OrderId, myId'[i] = myId[i],
         Exchanged(i, q), remoteMsg'[i][mcId[q]] = remoteMsg[i][mcId[q]]
  PROVE  Exchanged(i, q)'
<1>1. mcId[q] # None /\ mcId'[q] = mcId[q]
  BY DEF Exchanged, Metas, Grows
<1>2. PICK p \in OrderId : /\ mcId[p] = mcId[q] /\ Sent(p, myId[i])
                           /\ remoteMsg[i][mcId[q]] = mcMeta[<<p, myId[i]>>]
  BY DEF Exchanged
<1>3. mcId'[p] = mcId[p] /\ mcMeta'[<<p, myId[i]>>] = mcMeta[<<p, myId[i]>>]
  BY <1>1, <1>2 DEF Grows
<1>4. Sent(q, myId[i])' /\ Sent(myId[i], q)' /\ Sent(p, myId[i])'
  BY <1>2, <1>3 DEF Exchanged, Sent, Grows
<1> QED BY <1>1, <1>2, <1>3, <1>4 DEF Exchanged

(* The exchange of a machine that does nothing.                            *)
LEMMA ExchangeOther ==
  ASSUME TypeOK, Orders, Metas, Exchange, Grows, NEW j \in Machine, Same(j)
  PROVE  ExchangeOf(j)'
<1> SUFFICES ASSUME Named(j)' PROVE ExchangeOf(j)'
  BY DEF ExchangeOf
<1>1. Named(j) /\ ExchangeOf(j) /\ myId[j] \in OrderId /\ myId'[j] = myId[j]
  BY DEF Named, Alive, Same, Exchange, Orders
<1>2. remoteMsg'[j][j] = Meta(j, j)'
  BY <1>1 DEF ExchangeOf, Meta, Regions, Same
<1>3. Upto(j)' = Upto(j)
  BY DEF Upto, Same
<1>4. ASSUME NEW q \in OrderId \ {myId'[j]}, q < Upto(j)'
      PROVE  Exchanged(j, q)'
  <2>1. Exchanged(j, q)
    BY <1>1, <1>3, <1>4 DEF ExchangeOf
  <2> QED BY <2>1, <1>1, ExchangedKept DEF Same
<1>5. up'[j] \in {"mid", "set", "get"} =>
         /\ k'[j] \in OrderId \ {myId'[j]}
         /\ k'[j] < serverNum'[j] /\ serverNum'[j] <= MachineNum
  BY <1>1 DEF ExchangeOf, Same
<1>6. up'[j] = "set" => mid'[j] = mcId'[k'[j]] /\ mid'[j] # None
  BY <1>1 DEF ExchangeOf, Same, Grows
<1>7. up'[j] = "get" => Sent(myId[j], k[j])'
  BY <1>1 DEF ExchangeOf, Same, Grows, Sent
<1> QED BY <1>2, <1>4, <1>5, <1>6, <1>7 DEF ExchangeOf, Same, Sent

(* The done order ids stay done, so the count stays right.                 *)
LEMMA DoneKept ==
  ASSUME TypeOK, Orders, Grows, mcNum' \in Nat,
         \A i \in Machine : Goes(i) \/ (Alive(i)' => myId'[i] >= mcNum)
  PROVE  Done \subseteq Done' /\ Cardinality(Done) <= Cardinality(Done') 
         /\ IsFiniteSet(Done') /\ Cardinality(Done) \in Nat
<1>1. Done \subseteq Done'
  <2> SUFFICES ASSUME NEW q \in Done PROVE q \in Done'
    OBVIOUS
  <2>1. q \in OrderId /\ q < mcNum /\ \A r \in OrderId \ {q} : Sent(q, r)
    BY DEF Done
  <2>2. q < mcNum'
    BY <2>1 DEF Grows, OrderId, Machine, TypeOK
  <2>3. \A r \in OrderId \ {q} : Sent(q, r)'
    BY <2>1 DEF Grows, Sent
  <2>4. ASSUME NEW i \in Machine, Alive(i)', myId'[i] = q PROVE up'[i] \in Arrived
    <3>1. Goes(i)
      BY <2>1, <2>4 DEF OrderId, Machine, TypeOK
    <3> QED BY <3>1, <2>4 DEF Goes, Done
  <2> QED BY <2>1, <2>2, <2>3, <2>4 DEF Done
<1>2. IsFiniteSet(OrderId)
  BY FS_Interval, StartupAssumption DEF OrderId, Machine
<1>3. Done' \subseteq OrderId
  BY DEF Done
<1>4. IsFiniteSet(Done')
  BY <1>2, <1>3, FS_Subset
<1> QED BY <1>1, <1>4, FS_Subset, FS_CardinalityType

-----------------------------------------------------------------------------
(* The tables keep their types.                                            *)
LEMMA TypeStep ==
  ASSUME IInv, NEW i \in Machine, ComInit(i) \/ Fail(i) PROVE TypeOK'
<1> USE DEF TypeOK, UpGoto, connVars, mcVars
<1>0. TypeOK
  BY DEF IInv
<1>1. CASE CtxInit(i)
  <2>1. PICK bad \in SUBSET Machine :
          /\ Cardinality(bad) <= 1 /\ faults' = faults + Cardinality(bad)
          /\ qp' = [qp EXCEPT ![i] = InitQps(bad)]
    BY <1>1 DEF CtxInit
  <2>2. Cardinality(bad) \in Nat
    <3>1. IsFiniteSet(Machine)
      BY FS_Interval, StartupAssumption DEF Machine
    <3> QED BY <3>1, FS_Subset, FS_CardinalityType
  <2>3. InitQps(bad) \in [Machine -> Qp]
    BY DEF InitQps, NewQp, Qp
  <2>4. up' \in [Machine -> Phase]
    BY <1>0, <1>1 DEF CtxInit, Phase
  <2> QED BY <1>0, <1>1, <2>1, <2>2, <2>3, <2>4 DEF CtxInit
<1>2. CASE AddMachine(i)
  <2>1. up' \in [Machine -> Phase]
    BY <1>0, <1>2 DEF AddMachine, Phase
  <2> QED BY <1>0, <1>2, <2>1 DEF AddMachine
<1>3. CASE SetMachineKey(i)
  <2>1. up' \in [Machine -> Phase]
    BY <1>0, <1>3 DEF SetMachineKey, Phase
  <2>2. Meta(i, i) \in Msg \cup {NoMsg}
    BY <1>0, MetaReal
  <2>3. remoteMsg' \in [Machine -> [Machine -> Msg \cup {NoMsg}]]
    BY <1>0, <1>3, <2>2, EntryUpdate DEF SetMachineKey
  <2> QED BY <1>0, <1>3, <2>1, <2>3 DEF SetMachineKey
<1>4. CASE GetServerNum(i)
  <2>1. up' \in [Machine -> Phase]
    BY <1>0, <1>4 DEF GetServerNum, Phase
  <2>2. k' \in [Machine -> Nat] /\ curNum' \in [Machine -> Nat] /\ serverNum' \in [Machine -> Nat]
    BY <1>0, <1>4 DEF GetServerNum, NextOther
  <2> QED BY <1>0, <1>4, <2>1, <2>2 DEF GetServerNum
<1>5. CASE GetMachineKey(i)
  <2>1. up' \in [Machine -> Phase]
    BY <1>0, <1>5 DEF GetMachineKey, Phase
  <2>2. k[i] \in OrderId
    BY <1>5 DEF IInv, Exchange, ExchangeOf, GetMachineKey, Named, Alive
  <2>3. mid' \in [Machine -> Machine \cup {None}]
    BY <1>0, <1>5, <2>2 DEF GetMachineKey
  <2> QED BY <1>0, <1>5, <2>1, <2>3 DEF GetMachineKey
<1>6. CASE SetMeta(i)
  <2>1. up' \in [Machine -> Phase]
    BY <1>0, <1>6 DEF SetMeta, Phase
  <2>2. mid[i] \in Machine
    BY <1>6 DEF IInv, Exchange, ExchangeOf, SetMeta, Named, Alive
  <2>3. Meta(i, mid[i]) \in Msg
    BY <1>0, <2>2, MetaReal
  <2>4. mcMeta' \in [OrderId \X OrderId -> Msg \cup {NoMsg}]
    BY <1>0, <1>6, <2>3 DEF SetMeta
  <2> QED BY <1>0, <1>6, <2>1, <2>4 DEF SetMeta
<1>7. CASE GetMeta(i)
  <2>1. up' \in [Machine -> Phase]
    BY <1>0, <1>7 DEF GetMeta, Phase
  <2>2. k' \in [Machine -> Nat] /\ curNum' \in [Machine -> Nat]
    BY <1>0, <1>7 DEF GetMeta, NextOther
  <2> DEFINE msg == mcMeta[<<k[i], myId[i]>>]
  <2>3. k[i] \in OrderId /\ myId[i] \in OrderId
    BY <1>7 DEF IInv, Orders, Exchange, ExchangeOf, GetMeta, Named, Alive
  <2>4. msg \in Msg \cup {NoMsg} /\ msg.from \in Machine
    BY <1>0, <1>7, <2>3 DEF GetMeta, Msg
  <2>5. remoteMsg' = [remoteMsg EXCEPT ![i][msg.from] = msg]
    BY <1>7 DEF GetMeta
  <2> HIDE DEF msg
  <2>6. remoteMsg' \in [Machine -> [Machine -> Msg \cup {NoMsg}]]
    <3>1. remoteMsg \in [Machine -> [Machine -> Msg \cup {NoMsg}]]
      BY <1>0
    <3> HIDE DEF TypeOK
    <3> QED BY <3>1, <2>4, <2>5, EntryUpdate
  <2> QED BY <1>0, <1>7, <2>1, <2>2, <2>6 DEF GetMeta
<1>8. CASE BarrierAdd(i) \/ BarrierArrive(i) \/ BarrierWait(i)
  <2>1. up' \in [Machine -> Phase]
    BY <1>0, <1>8 DEF BarrierAdd, BarrierArrive, BarrierWait, Phase
  <2>2. mcBarrier' \in Nat \cup {None}
    BY <1>0, <1>8 DEF BarrierAdd, BarrierArrive, BarrierWait, None
  <2>3. UNCHANGED <<gen, faults, flushes, connVars, mcNum, mcId, mcMeta>>
    BY <1>8 DEF BarrierAdd, BarrierArrive, BarrierWait
  <2> QED BY <1>0, <2>1, <2>2, <2>3
<1>9. CASE Connect(i)
  <2>1. up' \in [Machine -> Phase]
    BY <1>0, <1>9 DEF Connect, Phase
  <2>2. \A m \in Machine : ToRts(i, m) \in Qp /\ qp[i][m] \in Qp
    <3> SUFFICES ASSUME NEW m \in Machine PROVE ToRts(i, m) \in Qp /\ qp[i][m] \in Qp
      OBVIOUS
    <3>1. qp[i][m] \in Qp /\ remoteMsg[i][m] \in Msg \cup {NoMsg}
      BY <1>0
    <3> HIDE DEF TypeOK
    <3> QED BY <3>1 DEF ToRts, Qp
  <2>3. PICK S \in SUBSET Machine :
          qp' = [qp EXCEPT ![i] = [m \in Machine |-> IF m \in S THEN ToRts(i, m) ELSE @[m]]]
    <3> DEFINE bad == {m \in Machine \ {i} : ~Connectable(i, m)}
               S == {m \in Machine : m # i /\ \A b \in bad : m < b}
    <3>1. qp' = [qp EXCEPT ![i] = [m \in Machine |->
                   IF m # i /\ \A b \in bad : m < b THEN ToRts(i, m) ELSE @[m]]]
      BY <1>9 DEF Connect
    <3>2. \A m \in Machine : m \in S <=> (m # i /\ \A b \in bad : m < b)
      OBVIOUS
    <3> HIDE DEF S, bad
    <3>3. qp' = [qp EXCEPT ![i] = [m \in Machine |-> IF m \in S THEN ToRts(i, m) ELSE @[m]]]
      BY <3>1, <3>2
    <3>4. S \in SUBSET Machine
      BY DEF S
    <3> QED BY <3>3, <3>4
  <2>4. qp' \in [Machine -> [Machine -> Qp]]
    BY <1>0, <2>2, <2>3
  <2> QED BY <1>0, <1>9, <2>1, <2>4 DEF Connect
<1>10. CASE TimeOut(i) \/ Crash(i)
  <2>1. up' \in [Machine -> Phase] /\ faults' \in Nat
    BY <1>0, <1>10 DEF TimeOut, Crash, Phase
  <2>2. UNCHANGED <<gen, flushes, connVars, mcVars>>
    BY <1>10 DEF TimeOut, Crash
  <2> QED BY <1>0, <2>1, <2>2
<1>11. CASE Restart(i)
  <2>1. up' \in [Machine -> Phase] /\ gen' \in [Machine -> Nat]
    BY <1>0, <1>11 DEF Restart, Phase
  <2>2. NewQp \in Qp
    BY DEF NewQp, Qp
  <2>3. qp' \in [Machine -> [Machine -> Qp]]
    BY <1>0, <1>11, <2>2 DEF Restart
  <2>4. remoteMsg' \in [Machine -> [Machine -> Msg \cup {NoMsg}]]
    BY <1>0, <1>11 DEF Restart
  <2> QED BY <1>0, <1>11, <2>1, <2>3, <2>4 DEF Restart
<1> QED
  BY <1>1, <1>2, <1>3, <1>4, <1>5, <1>6, <1>7, <1>8, <1>9, <1>10, <1>11
  DEF ComInit, Fail

(* Steps that leave the order ids and the machine ids in memcached alone.  *)
LEMMA NamesKept ==
  ASSUME TypeOK, Orders, Names, mcNum' = mcNum, mcId' = mcId,
         \A j \in Machine : Goes(j) /\ (Named(j)' => Named(j))
  PROVE  Orders' /\ Names'
  BY DEF Orders, Names, Goes, Named, Alive

(* Steps that leave the data in memcached alone.                           *)
LEMMA MetasKept ==
  ASSUME TypeOK, Metas, Grows, mcMeta' = mcMeta, \A j \in Machine : Goes(j)
  PROVE  Metas'
<1> SUFFICES ASSUME NEW q \in OrderId, NEW r \in OrderId, Sent(q, r)'
             PROVE  /\ mcId'[q] # None /\ mcId'[r] # None
                    /\ mcMeta'[<<q, r>>].from = mcId'[q] /\ mcMeta'[<<q, r>>].to = mcId'[r]
                    /\ q < r => mcId'[q] # mcId'[r]
                    /\ \A i \in Machine : Alive(i)' /\ myId'[i] = q
                         => mcMeta'[<<q, r>>] = Meta(i, mcId[r])'
  BY DEF Metas
<1>1. Sent(q, r)
  BY DEF Sent
<1>2. mcId'[q] = mcId[q] /\ mcId'[r] = mcId[r]
  BY <1>1 DEF Metas, Grows
<1>3. \A i \in Machine : Alive(i)' /\ myId'[i] = q => mcMeta'[<<q, r>>] = Meta(i, mcId[r])'
  BY <1>1, <1>2 DEF Metas, Goes, Meta, Regions
<1> QED BY <1>1, <1>2, <1>3 DEF Metas

(* A step of i that does not write to memcached.                           *)
LEMMA Quiet ==
  ASSUME IInv, TypeOK', NEW i \in Machine, UNCHANGED mcVars,
         \A j \in Machine \ {i} : Same(j),
         Goes(i), Named(i)' => Named(i), ExchangeOf(i)', Past(i)' => Full,
         up'[i] \in {"open", "add", "id"} => curNum'[i] = 0,
         up'[i] = "run" =>
           \A j \in Machine \ {i} : qp'[i][j].dest = remoteMsg'[i][j]
  PROVE  IInv'
<1> USE DEF IInv
<1>1. Grows /\ mcNum' = mcNum /\ mcId' = mcId /\ mcMeta' = mcMeta /\ mcBarrier' = mcBarrier
  BY DEF Grows, mcVars, TypeOK
<1>2. \A j \in Machine : Goes(j) /\ (Named(j)' => Named(j))
  BY DEF Goes, Same, Alive, Named
<1>3. Orders' /\ Names'
  BY <1>1, <1>2, NamesKept
<1>4. Metas'
  BY <1>1, <1>2, MetasKept
<1>5. Exchange'
  BY <1>1, ExchangeOther DEF Exchange
<1>6. Counted'
  <2>1. Cardinality(Done) <= Cardinality(Done') /\ Cardinality(Done) \in Nat
        /\ Cardinality(Done') \in Nat
    BY <1>1, <1>2, DoneKept, FS_CardinalityType DEF TypeOK
  <2> QED BY <1>1, <2>1 DEF Counted, TypeOK, None
<1>7. Filled'
  BY <1>1 DEF Filled, Full, Sent, Past, Same
<1>8. Joined'
  BY DEF Joined, Same
<1>9. Idle'
  BY DEF Idle, Same
<1> QED BY <1>3, <1>4, <1>5, <1>6, <1>7, <1>8, <1>9

-----------------------------------------------------------------------------
(* The invariant is preserved, action by action.  First the steps that end *)
(* a process or do not yet give it an order id.                            *)
LEMMA GoneStep ==
  ASSUME IInv, NEW i \in Machine,
         CtxInit(i) \/ TimeOut(i) \/ Crash(i) \/ Restart(i)
  PROVE  IInv'
<1>1. TypeOK /\ TypeOK' /\ \A j \in Machine \ {i} : Same(j)
  BY TypeStep, OthersSame DEF IInv, ComInit, Fail
<1>2. UNCHANGED mcVars
  BY DEF CtxInit, TimeOut, Crash, Restart
<1>3. up'[i] \in {"open", "add", "exit"}
  BY <1>1 DEF CtxInit, TimeOut, Crash, Restart, UpGoto, TypeOK
<1>4. ~Alive(i)' /\ ~Named(i)' /\ ~Past(i)'
  BY <1>3 DEF Alive, Named, Past
<1>5. up'[i] \in {"open", "add", "id"} => curNum'[i] = 0
  BY <1>1 DEF IInv, Idle, CtxInit, TimeOut, Crash, Restart, UpGoto, TypeOK
<1> QED BY <1>1, <1>2, <1>3, <1>4, <1>5, Quiet DEF Goes, ExchangeOf

LEMMA GetServerNumStep ==
  ASSUME IInv, NEW i \in Machine, GetServerNum(i) PROVE IInv'
<1>1. TypeOK /\ TypeOK' /\ \A j \in Machine \ {i} : Same(j)
  BY TypeStep, OthersSame DEF IInv, ComInit
<1>2. UNCHANGED mcVars
  BY DEF GetServerNum
<1> DEFINE first == NextOther(i, curNum[i])
<1>3. /\ up[i] = "num" /\ myId'[i] = myId[i] /\ gen'[i] = gen[i] /\ remoteMsg' = remoteMsg
      /\ serverNum'[i] = mcNum /\ k'[i] = first
      /\ curNum'[i] = IF first < mcNum THEN curNum[i] ELSE mcNum
  BY <1>1 DEF GetServerNum, TypeOK
<1>4. \/ up'[i] = "exit"
      \/ up'[i] = "mid" /\ first < mcNum /\ mcNum <= MachineNum
      \/ up'[i] = "route" /\ ~(first < mcNum) /\ mcNum = MachineNum
      \/ up'[i] = "num" /\ ~(first < mcNum)
  <2>1. up'[i] = CASE mcNum > MachineNum -> "exit"
                   [] mcNum <= MachineNum /\ first < mcNum -> "mid"
                   [] OTHER -> IF mcNum = MachineNum THEN "route" ELSE "num"
    BY <1>1 DEF GetServerNum, UpGoto, TypeOK
  <2>2. mcNum \in Int /\ MachineNum \in Int
    BY <1>1, StartupAssumption DEF TypeOK
  <2>3. mcNum > MachineNum <=> ~(mcNum <= MachineNum)
    BY <2>2
  <2> QED BY <2>1, <2>3, Zenon
<1>5. Named(i) /\ Alive(i) /\ ExchangeOf(i) /\ Orders /\ Metas
  BY <1>3 DEF Named, Alive, IInv, Exchange
<1>6. Goes(i) /\ ~Past(i)' /\ up'[i] # "run"
  BY <1>3, <1>4, <1>5 DEF Goes, Past, Arrived
<1>7. ExchangeOf(i)'
  <2> SUFFICES ASSUME Named(i)' PROVE ExchangeOf(i)'
    BY DEF ExchangeOf
  <2>1. remoteMsg'[i][i] = Meta(i, i)'
    BY <1>3, <1>5 DEF ExchangeOf, Meta, Regions
  <2>2. myId[i] \in OrderId /\ first \in Nat /\ curNum[i] \in Nat /\ mcNum \in Nat
        /\ first # myId[i] /\ (first = curNum[i] \/ (curNum[i] = myId[i] /\ first = curNum[i] + 1))
    BY <1>1, <1>5 DEF Orders, TypeOK, NextOther
  <2>3. Upto(i)' <= first
    <3>1. CASE up'[i] = "mid"
      <4>1. Upto(i)' = k'[i]
        BY <3>1 DEF Upto
      <4> QED BY <4>1, <1>3, <2>2
    <3>2. CASE up'[i] = "route"
      <4>1. Upto(i)' = MachineNum
        BY <3>2, Zenon DEF Upto
      <4> QED BY <4>1, <3>2, <1>4, <2>2
    <3>3. CASE up'[i] = "num"
      <4>1. Upto(i)' = curNum'[i]
        BY <3>3 DEF Upto
      <4> QED BY <4>1, <3>3, <1>3, <1>4, <2>2
    <3> QED BY <1>4, <3>1, <3>2, <3>3 DEF Named, Alive
  <2> HIDE DEF first
  <2>4. ASSUME NEW q \in OrderId \ {myId'[i]}, q < Upto(i)' PROVE Exchanged(i, q)'
    <3>1. Upto(i)' <= first /\ q \in Nat
      <4>1. q \in Nat
        BY DEF OrderId, Machine
      <4> QED BY <4>1, <2>2, <2>3
    <3>2. Upto(i)' \in Int
      BY <1>1, <1>3, <1>4, <2>2, <2>3, StartupAssumption DEF Upto, TypeOK
    <3>3. q < curNum[i]
      BY <1>3, <2>2, <2>4, <3>1, <3>2
    <3>4. Upto(i) = curNum[i]
      BY <1>3 DEF Upto
    <3>5. Exchanged(i, q)
      BY <1>3, <1>5, <2>4, <3>3, <3>4 DEF ExchangeOf
    <3> QED BY <3>5, <1>2, <1>3 DEF Exchanged, Sent, mcVars
  <2>5. up'[i] \in {"mid", "set", "get"} =>
         /\ k'[i] \in OrderId \ {myId'[i]}
         /\ k'[i] < serverNum'[i] /\ serverNum'[i] <= MachineNum
    BY <1>3, <1>4, <2>2, StartupAssumption DEF OrderId, Machine
  <2>6. up'[i] # "set" /\ up'[i] # "get"
    BY <1>4
  <2> QED BY <2>1, <2>4, <2>5, <2>6 DEF ExchangeOf
<1>8. up'[i] \notin {"open", "add", "id"}
  BY <1>4
<1> QED BY <1>1, <1>2, <1>5, <1>6, <1>7, <1>8, Quiet

LEMMA GetMachineKeyStep ==
  ASSUME IInv, NEW i \in Machine, GetMachineKey(i) PROVE IInv'
<1>1. TypeOK /\ TypeOK' /\ \A j \in Machine \ {i} : Same(j)
  BY TypeStep, OthersSame DEF IInv, ComInit
<1>2. UNCHANGED mcVars
  BY DEF GetMachineKey
<1>3. /\ up[i] = "mid" /\ up'[i] = "set" /\ mcId[k[i]] # None /\ mid'[i] = mcId[k[i]]
      /\ UNCHANGED <<gen, myId, k, serverNum, remoteMsg>>
  BY <1>1 DEF GetMachineKey, UpGoto, TypeOK
<1>4. Named(i) /\ Alive(i) /\ ExchangeOf(i)
  BY <1>3 DEF Named, Alive, IInv, Exchange
<1>5. Goes(i) /\ ~Past(i)' /\ up'[i] # "run"
  BY <1>3, <1>4 DEF Goes, Past, Arrived
<1>6. Upto(i)' = Upto(i)
  <2>1. Upto(i) = k[i] /\ Upto(i)' = k'[i]
    BY <1>3 DEF Upto
  <2> QED BY <2>1, <1>3
<1>7. ExchangeOf(i)'
  BY <1>2, <1>3, <1>4, <1>6 DEF ExchangeOf, Exchanged, Sent, mcVars, Meta, Regions
<1>8. up'[i] \notin {"open", "add", "id"}
  BY <1>3
<1> QED BY <1>1, <1>2, <1>4, <1>5, <1>7, <1>8, Quiet

(* The data of order id k are not of the machine itself.                   *)
LEMMA OtherMachine ==
  ASSUME IInv, NEW i \in Machine, Named(i), NEW q \in OrderId, q # myId[i],
         Sent(q, myId[i])
  PROVE  mcId[q] # i /\ mcId[q] \in Machine
<1>1. TypeOK /\ Orders /\ Names /\ Metas /\ Alive(i) /\ myId[i] \in OrderId
  BY DEF IInv, Named, Orders
<1>2. mcId[q] # None /\ (q < myId[i] => mcId[q] # mcId[myId[i]])
  BY <1>1 DEF Metas
<1>3. mcId[myId[i]] = i
  BY <1>1 DEF Names
<1>4. mcId[q] = i => q <= myId[i]
  BY <1>1 DEF Names
<1>5. q \in Int /\ myId[i] \in Int
  BY <1>1 DEF OrderId, Machine
<1>6. mcId[q] # i
  BY <1>2, <1>3, <1>4, <1>5
<1>7. mcId[q] \in Machine
  BY <1>1, <1>2 DEF TypeOK
<1> QED BY <1>6, <1>7

LEMMA GetMetaStep == ASSUME IInv, NEW i \in Machine, GetMeta(i) PROVE IInv'
<1>1. TypeOK /\ TypeOK' /\ \A j \in Machine \ {i} : Same(j)
  BY TypeStep, OthersSame DEF IInv, ComInit
<1>2. UNCHANGED mcVars
  BY DEF GetMeta
<1> DEFINE msg == mcMeta[<<k[i], myId[i]>>]
           next == NextOther(i, k[i] + 1)
<1>3. /\ up[i] = "get" /\ msg # NoMsg /\ k'[i] = next
      /\ UNCHANGED <<gen, myId, serverNum>>
      /\ remoteMsg' = [remoteMsg EXCEPT ![i][msg.from] = msg]
      /\ curNum'[i] = IF next < serverNum[i] THEN curNum[i] ELSE serverNum[i]
  BY <1>1 DEF GetMeta, TypeOK
<1>4. \/ up'[i] = "mid" /\ next < serverNum[i]
      \/ up'[i] = "num" /\ ~(next < serverNum[i])
      \/ up'[i] = "route" /\ ~(next < serverNum[i]) /\ ~(serverNum[i] < MachineNum)
  <2>1. up'[i] = CASE next < serverNum[i] -> "mid"
                 [] next >= serverNum[i] /\ serverNum[i] < MachineNum -> "num"
                 [] OTHER -> "route"
    BY <1>1 DEF GetMeta, UpGoto, TypeOK
  <2>2. next \in Int /\ serverNum[i] \in Int
    BY <1>1 DEF NextOther, TypeOK
  <2>3. next >= serverNum[i] <=> ~(next < serverNum[i])
    BY <2>2
  <2> QED BY <2>1, <2>3, Zenon
<1>5. Named(i) /\ Alive(i) /\ ExchangeOf(i) /\ Orders /\ Metas /\ Names
  BY <1>3 DEF Named, Alive, IInv, Exchange
<1>6. Goes(i) /\ ~Past(i)' /\ up'[i] # "run"
  BY <1>3, <1>4, <1>5 DEF Goes, Past, Arrived
<1>7. /\ k[i] \in OrderId /\ k[i] # myId[i] /\ k[i] < serverNum[i] /\ serverNum[i] <= MachineNum
      /\ Sent(myId[i], k[i]) /\ Sent(k[i], myId[i]) /\ myId[i] \in OrderId
      /\ serverNum[i] \in Nat
  BY <1>1, <1>3, <1>5 DEF ExchangeOf, Orders, Sent, TypeOK
<1>8. msg.from = mcId[k[i]] /\ mcId[k[i]] # i /\ mcId[k[i]] \in Machine
  <2>1. msg.from = mcId[k[i]]
    BY <1>5, <1>7 DEF Metas
  <2> QED BY <2>1, <1>5, <1>7, OtherMachine
<1>9. \A b \in Machine : remoteMsg'[i][b] = IF b = mcId[k[i]] THEN msg ELSE remoteMsg[i][b]
  <2>1. msg \in Msg \cup {NoMsg}
    BY <1>1, <1>7 DEF TypeOK
  <2>2. remoteMsg \in [Machine -> [Machine -> Msg \cup {NoMsg}]]
    BY <1>1 DEF TypeOK
  <2> HIDE DEF msg
  <2> QED BY <1>3, <1>8, <2>1, <2>2, EntryUpdate
<1>10. ASSUME NEW q \in OrderId, q = k[i] \/ Exchanged(i, q)
       PROVE  Exchanged(i, q)'
  <2>1. Sent(q, myId[i]) /\ Sent(myId[i], q) /\ mcId[q] \in Machine
    <3>1. Sent(q, myId[i]) /\ Sent(myId[i], q)
      BY <1>7, <1>10 DEF Exchanged
    <3> QED BY ZenonT(40), <1>1, <1>5, <1>7, <3>1 DEF Metas, TypeOK
  <2>2. CASE mcId[q] = mcId[k[i]]
    <3>1. remoteMsg'[i][mcId[q]] = mcMeta[<<k[i], myId[i]>>]
      BY <1>9, <2>1, <2>2
    <3> QED BY <1>2, <1>3, <1>7, <2>1, <2>2, <3>1 DEF Exchanged, Sent, mcVars
  <2>3. CASE mcId[q] # mcId[k[i]]
    <3>1. remoteMsg'[i][mcId[q]] = remoteMsg[i][mcId[q]] /\ Exchanged(i, q)
      BY <1>9, <1>10, <2>1, <2>3
    <3> QED BY <1>2, <1>3, <3>1 DEF Exchanged, Sent, mcVars
  <2> QED BY <2>2, <2>3
<1>11. ExchangeOf(i)'
  <2>1. remoteMsg'[i][i] = Meta(i, i)'
    BY <1>3, <1>5, <1>8, <1>9 DEF ExchangeOf, Meta, Regions
  <2>2. /\ next \in Nat /\ k[i] \in Nat /\ next # myId[i]
        /\ next = k[i] + 1 \/ (k[i] + 1 = myId[i] /\ next = k[i] + 2)
    BY <1>1, <1>7 DEF NextOther, TypeOK
  <2> HIDE DEF next
  <2>3. Upto(i)' <= next /\ Upto(i)' \in Int
    <3>1. CASE up'[i] = "mid"
      BY <3>1, <1>3, <2>2 DEF Upto
    <3>2. CASE up'[i] = "num"
      <4>1. Upto(i)' = curNum'[i]
        BY <3>2 DEF Upto
      <4> QED BY <4>1, <3>2, <1>3, <1>4, <1>7, <2>2
    <3>3. CASE up'[i] = "route"
      <4>1. Upto(i)' = MachineNum
        BY <3>3, Zenon DEF Upto
      <4> QED BY <4>1, <3>3, <1>4, <1>7, <2>2, StartupAssumption
    <3> QED BY <1>4, <3>1, <3>2, <3>3
  <2>4. ASSUME NEW q \in OrderId \ {myId'[i]}, q < Upto(i)' PROVE Exchanged(i, q)'
    <3>1. q \in Nat /\ q # myId[i]
      BY <1>3 DEF OrderId, Machine
    <3>2. q < k[i] \/ q = k[i]
      BY <2>2, <2>3, <2>4, <3>1
    <3>3. Upto(i) = k[i]
      BY <1>3 DEF Upto
    <3> QED BY <3>1, <3>2, <3>3, <1>5, <1>10 DEF ExchangeOf
  <2>5. up'[i] = "mid" =>
         /\ k'[i] \in OrderId \ {myId'[i]}
         /\ k'[i] < serverNum'[i] /\ serverNum'[i] <= MachineNum
    BY <1>3, <1>4, <1>7, <2>2, StartupAssumption DEF OrderId, Machine
  <2>6. up'[i] # "set" /\ up'[i] # "get"
    BY <1>4
  <2> QED BY <2>1, <2>4, <2>5, <2>6 DEF ExchangeOf
<1>12. up'[i] \notin {"open", "add", "id"}
  BY <1>4
<1> QED BY <1>1, <1>2, <1>5, <1>6, <1>11, <1>12, Quiet

(* A process beyond the exchange keeps what it has exchanged.              *)
LEMMA ExchangeOver ==
  ASSUME IInv, NEW i \in Machine, Grows,
         up[i] \in {"route", "arrive", "wait", "connect", "run"},
         up'[i] \in {"route", "arrive", "wait", "connect", "run"},
         myId' = myId, gen' = gen, remoteMsg' = remoteMsg
  PROVE  ExchangeOf(i)' /\ Named(i) /\ Alive(i)
<1>1. Named(i) /\ Alive(i) /\ ExchangeOf(i) /\ TypeOK /\ Orders /\ Metas /\ myId[i] \in OrderId
  BY DEF IInv, Exchange, Named, Alive, Orders
<1>2. Upto(i) = MachineNum
  BY Zenon DEF Upto
<1>3. \A q \in OrderId \ {myId[i]} : Exchanged(i, q)
  <2>1. \A q \in OrderId : q < MachineNum
    BY StartupAssumption DEF OrderId, Machine
  <2> QED BY <1>1, <1>2, <2>1 DEF ExchangeOf
<1>4. \A q \in OrderId \ {myId[i]} : Exchanged(i, q)'
  BY <1>1, <1>3, ExchangedKept
<1>5. remoteMsg'[i][i] = Meta(i, i)'
  BY <1>1 DEF ExchangeOf, Meta, Regions
<1> QED BY <1>1, <1>4, <1>5 DEF ExchangeOf

(* The barrier opens over a full table only.                               *)
LEMMA BarrierOpens ==
  ASSUME IInv, mcBarrier = MachineNum PROVE Full
<1>1. IsFiniteSet(OrderId) /\ Cardinality(OrderId) = MachineNum
  BY OrderIdsFinite
<1>2. Done \subseteq OrderId
  BY DEF Done
<1>3. /\ Cardinality(Done) <= Cardinality(OrderId) /\ Cardinality(Done) \in Nat
      /\ Cardinality(Done) = Cardinality(OrderId) => Done = OrderId
  BY <1>1, <1>2, FS_Subset, FS_CardinalityType
<1>4. MachineNum <= Cardinality(Done)
  BY DEF IInv, Counted
<1>5. Done = OrderId
  BY <1>1, <1>3, <1>4, StartupAssumption
<1> QED BY <1>5 DEF Full, Done

LEMMA BarrierWaitStep ==
  ASSUME IInv, NEW i \in Machine, BarrierWait(i) PROVE IInv'
<1>1. TypeOK /\ TypeOK' /\ \A j \in Machine \ {i} : Same(j)
  BY TypeStep, OthersSame DEF IInv, ComInit
<1>2. UNCHANGED mcVars /\ UNCHANGED <<myId, gen, remoteMsg>> /\ up[i] = "wait"
  BY DEF BarrierWait, connVars
<1>3. Grows
  BY <1>1, <1>2 DEF Grows, mcVars, TypeOK
<1>4. up'[i] = "exit" \/ (up'[i] = "connect" /\ mcBarrier = MachineNum)
  BY <1>1 DEF BarrierWait, UpGoto, TypeOK
<1>5. CASE up'[i] = "exit"
  <2>1. ~Alive(i)' /\ ~Named(i)' /\ ~Past(i)'
    BY <1>5 DEF Alive, Named, Past
  <2> QED BY <1>1, <1>2, <1>5, <2>1, Quiet DEF Goes, ExchangeOf
<1>6. CASE up'[i] = "connect" /\ mcBarrier = MachineNum
  <2>1. ExchangeOf(i)' /\ Named(i) /\ Alive(i)
    BY <1>2, <1>3, <1>6, ExchangeOver
  <2>2. Full
    BY <1>6, BarrierOpens
  <2>3. Goes(i)
    BY <1>2, <1>6, <2>1 DEF Goes, Arrived
  <2> QED BY <1>1, <1>2, <1>6, <2>1, <2>2, <2>3, Quiet
<1> QED BY <1>4, <1>5, <1>6

LEMMA ConnectStep == ASSUME IInv, NEW i \in Machine, Connect(i) PROVE IInv'
<1>1. TypeOK /\ TypeOK' /\ \A j \in Machine \ {i} : Same(j)
  BY TypeStep, OthersSame DEF IInv, ComInit
<1>2. UNCHANGED mcVars /\ UNCHANGED <<myId, gen, remoteMsg>> /\ up[i] = "connect"
  BY DEF Connect
<1>3. Grows
  BY <1>1, <1>2 DEF Grows, mcVars, TypeOK
<1> DEFINE bad == {m \in Machine \ {i} : ~Connectable(i, m)}
<1>4. up'[i] = "exit" \/ (up'[i] = "run" /\ bad = {})
  BY <1>1 DEF Connect, UpGoto, TypeOK
<1>5. CASE up'[i] = "exit"
  <2>1. ~Alive(i)' /\ ~Named(i)' /\ ~Past(i)'
    BY <1>5 DEF Alive, Named, Past
  <2> QED BY <1>1, <1>2, <1>5, <2>1, Quiet DEF Goes, ExchangeOf
<1>6. CASE up'[i] = "run" /\ bad = {}
  <2>1. ExchangeOf(i)' /\ Named(i) /\ Alive(i)
    BY <1>2, <1>3, <1>6, ExchangeOver
  <2>2. Full
    BY <1>2 DEF IInv, Filled, Past
  <2>3. Goes(i)
    BY <1>2, <1>6, <2>1 DEF Goes, Arrived
  <2>4. ASSUME NEW j \in Machine \ {i} PROVE qp'[i][j].dest = remoteMsg'[i][j]
    <3>1. qp' = [qp EXCEPT ![i] = [m \in Machine |->
                   IF m # i /\ \A b \in bad : m < b THEN ToRts(i, m) ELSE @[m]]]
      BY DEF Connect
    <3> HIDE DEF bad
    <3>2. qp \in [Machine -> [Machine -> Qp]]
      BY <1>1 DEF TypeOK
    <3>3. qp'[i][j] = ToRts(i, j)
      BY <1>6, <3>1, <3>2
    <3>4. qp[i][j] \in Qp
      BY <3>2
    <3>5. ToRts(i, j).dest = remoteMsg[i][j]
      BY <3>4 DEF ToRts, Qp
    <3> QED BY <3>3, <3>5, <1>2
  <2> HIDE DEF bad
  <2> QED BY <1>1, <1>2, <1>6, <2>1, <2>2, <2>3, <2>4, Quiet
<1> QED BY <1>4, <1>5, <1>6

LEMMA BarrierStep ==
  ASSUME IInv, NEW i \in Machine, BarrierAdd(i) \/ BarrierArrive(i) PROVE IInv'
<1>1. TypeOK /\ TypeOK' /\ \A j \in Machine \ {i} : Same(j)
  BY TypeStep, OthersSame DEF IInv, ComInit
<1>2. UNCHANGED <<myId, gen, remoteMsg, qp, mcNum, mcId, mcMeta>>
  BY DEF BarrierAdd, BarrierArrive, connVars
<1>3. Grows
  BY <1>1, <1>2 DEF Grows, TypeOK
<1>4. /\ up[i] \in {"route", "arrive"} /\ up'[i] \in {"arrive", "wait"}
  BY <1>1 DEF BarrierAdd, BarrierArrive, UpGoto, TypeOK
<1>5. ExchangeOf(i)' /\ Named(i) /\ Alive(i) /\ ExchangeOf(i)
  <2>1. ExchangeOf(i)
    BY DEF IInv, Exchange
  <2> QED BY <2>1, <1>2, <1>3, <1>4, ExchangeOver
<1>6. \A j \in Machine : Goes(j) /\ (Named(j)' => Named(j))
  BY <1>1, <1>2, <1>4, <1>5 DEF Goes, Same, Alive, Named, Arrived
<1>7. Orders' /\ Names' /\ Metas'
  BY <1>1, <1>2, <1>3, <1>6, NamesKept, MetasKept DEF IInv
<1>8. Exchange'
  BY <1>1, <1>3, <1>5, ExchangeOther DEF Exchange, IInv
<1>9. Filled' /\ Joined'
  <2>1. \A j \in Machine : Past(j)' => Past(j)
    BY <1>1, <1>4 DEF Same, Past
  <2>2. Full => Full'
    BY <1>2 DEF Full, Sent
  <2> QED BY <1>1, <1>2, <1>4, <2>1, <2>2 DEF IInv, Filled, Joined, Same
<1>11. Idle'
  BY <1>1, <1>4 DEF IInv, Idle, Same
<1>10. Counted'
  <2>1. /\ Done \subseteq Done' /\ IsFiniteSet(Done')
        /\ Cardinality(Done) <= Cardinality(Done') /\ Cardinality(Done) \in Nat
        /\ Cardinality(Done') \in Nat
    BY <1>1, <1>2, <1>3, <1>6, DoneKept, FS_CardinalityType DEF IInv, TypeOK
  <2>2. mcBarrier <= Cardinality(Done)
    BY DEF IInv, Counted
  <2>3. CASE BarrierAdd(i)
    BY <1>1, <2>1, <2>2, <2>3 DEF BarrierAdd, Counted, TypeOK, None
  <2>4. CASE BarrierArrive(i)
    <3>1. up[i] = "arrive" /\ up'[i] = "wait" /\ mcBarrier' = mcBarrier + 1
      BY <1>1, <2>4 DEF BarrierArrive, UpGoto, TypeOK
    <3>2. myId[i] \in OrderId /\ myId[i] < mcNum
      BY <1>5 DEF IInv, Orders
    <3>3. myId[i] \notin Done
      BY <1>5, <3>1 DEF Done, Arrived
    <3>4. \A r \in OrderId \ {myId[i]} : Sent(myId[i], r)
      <4>1. Upto(i) = MachineNum
        BY <3>1, Zenon DEF Upto
      <4>2. \A q \in OrderId : q < MachineNum
        BY StartupAssumption DEF OrderId, Machine
      <4> QED BY <1>5, <4>1, <4>2 DEF ExchangeOf, Exchanged
    <3>5. \A j \in Machine : Alive(j)' /\ myId'[j] = myId[i] => up'[j] \in Arrived
      <4>1. \A j \in Machine : Alive(j)' => Alive(j)
        BY <1>6 DEF Goes
      <4>2. \A j \in Machine : Alive(j) /\ myId[j] = myId[i] => j = i
        BY <1>5 DEF IInv, Orders
      <4> QED BY <1>2, <3>1, <4>1, <4>2 DEF Arrived
    <3>6. myId[i] \in Done'
      BY <1>2, <3>2, <3>4, <3>5 DEF Done, Sent
    <3>7. Cardinality(Done \cup {myId[i]}) = Cardinality(Done) + 1
      BY <2>1, <3>3, FS_Subset, FS_AddElement
    <3>8. Cardinality(Done \cup {myId[i]}) <= Cardinality(Done')
      BY <2>1, <3>6, FS_Subset
    <3> QED BY <1>1, <2>1, <2>2, <3>1, <3>7, <3>8 DEF Counted, TypeOK, None
  <2> QED BY <2>3, <2>4
<1> QED BY <1>1, <1>7, <1>8, <1>9, <1>10, <1>11 DEF IInv

LEMMA AddMachineStep ==
  ASSUME IInv, NEW i \in Machine, AddMachine(i) PROVE IInv'
<1>1. TypeOK /\ TypeOK' /\ \A j \in Machine \ {i} : Same(j)
  BY TypeStep, OthersSame DEF IInv, ComInit
<1>2. /\ UNCHANGED <<gen, remoteMsg, qp, mcId, mcMeta, mcBarrier>>
      /\ mcNum' = mcNum + 1 /\ mcNum \in Nat /\ up[i] = "add" /\ myId'[i] = mcNum
      /\ up'[i] = "exit" \/ (up'[i] = "id" /\ ~(mcNum + 1 > MachineNum))
  BY <1>1 DEF AddMachine, UpGoto, TypeOK
<1>3. Grows
  BY <1>2 DEF Grows
<1>4. \A j \in Machine : Alive(j)' => j = i \/ (Alive(j) /\ j # i)
  BY <1>1 DEF Same, Alive
<1>5. Alive(i)' => myId'[i] \in OrderId /\ up'[i] = "id" /\ myId'[i] = mcNum
  BY <1>2, StartupAssumption DEF Alive, OrderId, Machine
<1>6. Orders'
  <2>1. ASSUME NEW j \in Machine, Alive(j)'
        PROVE  myId'[j] \in OrderId /\ myId'[j] < mcNum'
    <3>1. CASE j = i
      BY <1>2, <1>5, <2>1, <3>1
    <3>2. CASE j # i
      <4>1. Alive(j) /\ myId'[j] = myId[j] /\ myId[j] \in OrderId /\ myId[j] < mcNum
        BY <1>1, <1>4, <2>1, <3>2 DEF IInv, Orders, Same
      <4> QED BY <4>1, <1>2 DEF OrderId, Machine
    <3> QED BY <3>1, <3>2
  <2>2. ASSUME NEW a \in Machine, NEW b \in Machine, Alive(a)', Alive(b)', myId'[a] = myId'[b]
        PROVE  a = b
    <3>1. \A j \in Machine \ {i} : Alive(j)' => Alive(j) /\ myId'[j] = myId[j] /\ myId[j] < mcNum
      BY <1>1, <1>4 DEF IInv, Orders, Same
    <3>2. myId'[i] = mcNum
      BY <1>2
    <3> QED BY <1>2, <2>2, <3>1, <3>2 DEF IInv, Orders
  <2> QED BY <2>1, <2>2 DEF Orders
<1>7. \A o \in OrderId : mcId[o] # None => o < mcNum
  BY DEF IInv, Names
<1>8. Names'
  <2>1. \A o \in OrderId : mcId'[o] # None => o < mcNum'
    BY <1>2, <1>7 DEF OrderId, Machine
  <2>2. ASSUME NEW j \in Machine, up'[j] = "id" PROVE mcId'[myId'[j]] = None
    <3>1. CASE j = i
      BY <1>2, <1>5, <1>7, <2>2, <3>1 DEF Alive
    <3>2. CASE j # i
      BY <1>1, <1>2, <2>2, <3>2 DEF IInv, Names, Same
    <3> QED BY <3>1, <3>2
  <2>3. ASSUME NEW j \in Machine, Named(j)' PROVE mcId'[myId'[j]] = j
    <3>1. j # i
      BY <1>2, <2>3 DEF Named, Alive
    <3> QED BY <1>1, <1>2, <2>3, <3>1 DEF IInv, Names, Same, Named, Alive
  <2>4. ASSUME NEW j \in Machine, NEW o \in OrderId, Alive(j)', mcId'[o] = j
        PROVE  o <= myId'[j]
    <3>1. mcId[o] = j /\ j # None
      BY <1>2, <2>4 DEF Machine, None
    <3>2. CASE j = i
      BY <1>2, <1>7, <3>1, <3>2 DEF OrderId, Machine
    <3>3. CASE j # i
      BY <1>1, <1>4, <2>4, <3>1, <3>3 DEF IInv, Names, Same
    <3> QED BY <3>2, <3>3
  <2> QED BY <2>1, <2>2, <2>3, <2>4 DEF Names
<1>9. Metas'
  <2> SUFFICES ASSUME NEW q \in OrderId, NEW r \in OrderId, Sent(q, r)',
                      NEW j \in Machine, Alive(j)', myId'[j] = q
               PROVE  mcMeta'[<<q, r>>] = Meta(j, mcId[r])'
    BY ZenonT(40), <1>2 DEF IInv, Metas, Sent
  <2>1. Sent(q, r) /\ mcId[q] # None
    BY <1>2 DEF IInv, Metas, Sent
  <2>2. q < mcNum
    BY <1>7, <2>1
  <2>3. j # i
    BY <1>2, <2>2
  <2> QED BY <1>1, <1>2, <1>4, <2>1, <2>3 DEF IInv, Metas, Same, Meta, Regions
<1>10. Exchange'
  <2>1. ExchangeOf(i)'
    BY <1>2 DEF ExchangeOf, Named, Alive
  <2> QED BY <1>1, <1>3, <2>1, ExchangeOther DEF Exchange, IInv
<1>11. Counted'
  <2>1. \A j \in Machine : Goes(j) \/ (Alive(j)' => myId'[j] >= mcNum)
    BY <1>1, <1>2 DEF Goes, Same, Alive
  <2>2. Cardinality(Done) <= Cardinality(Done') /\ Cardinality(Done) \in Nat
        /\ Cardinality(Done') \in Nat
    BY <1>1, <1>2, <1>3, <2>1, DoneKept, FS_CardinalityType DEF IInv
  <2> QED BY <1>1, <1>2, <2>2 DEF IInv, Counted, TypeOK, None
<1>12. Filled' /\ Joined'
  <2>1. \A j \in Machine : Past(j)' => Past(j) /\ j # i
    BY <1>1, <1>2 DEF Same, Past
  <2>2. Full => Full'
    BY <1>2 DEF Full, Sent
  <2> QED BY <1>1, <1>2, <2>1, <2>2 DEF IInv, Filled, Joined, Same
<1>13. Idle'
  <2>1. curNum'[i] = 0
    BY <1>2 DEF IInv, Idle, AddMachine
  <2> QED BY <1>1, <2>1 DEF IInv, Idle, Same
<1> QED BY <1>1, <1>6, <1>8, <1>9, <1>10, <1>11, <1>12, <1>13 DEF IInv

LEMMA SetMachineKeyStep ==
  ASSUME IInv, NEW i \in Machine, SetMachineKey(i) PROVE IInv'
<1>1. TypeOK /\ TypeOK' /\ \A j \in Machine \ {i} : Same(j)
  BY TypeStep, OthersSame DEF IInv, ComInit
<1>2. /\ UNCHANGED <<gen, myId, curNum, qp, mcNum, mcMeta, mcBarrier>>
      /\ up[i] = "id" /\ up'[i] = "num"
      /\ mcId' = [mcId EXCEPT ![myId[i]] = i]
      /\ remoteMsg' = [remoteMsg EXCEPT ![i][i] = Meta(i, i)]
  BY <1>1 DEF SetMachineKey, UpGoto, TypeOK
<1>3. /\ Alive(i) /\ myId[i] \in OrderId /\ myId[i] < mcNum /\ mcId[myId[i]] = None
  BY <1>2 DEF IInv, Alive, Orders, Names
<1>4. \A o \in OrderId : mcId'[o] = IF o = myId[i] THEN i ELSE mcId[o]
  BY <1>1, <1>2, <1>3 DEF TypeOK
<1>5. Grows
  BY <1>1, <1>2, <1>3, <1>4 DEF Grows, TypeOK
<1>6. \A j \in Machine : Goes(j)
  BY <1>1, <1>2, <1>3 DEF Goes, Same, Alive, Arrived
<1>7. \A j \in Machine \ {i} : Alive(j) => myId[j] # myId[i]
  BY <1>3 DEF IInv, Orders
<1>8. Orders'
  BY <1>2, <1>6 DEF IInv, Orders, Goes
<1>9. Names'
  <2>1. \A o \in OrderId : mcId'[o] # None => o < mcNum'
    BY <1>2, <1>3, <1>4 DEF IInv, Names
  <2>2. ASSUME NEW j \in Machine, up'[j] = "id" PROVE mcId'[myId'[j]] = None
    <3>1. j # i /\ up[j] = "id" /\ myId'[j] = myId[j]
      BY <1>1, <1>2, <2>2 DEF Same
    <3>2. Alive(j) /\ myId[j] \in OrderId /\ mcId[myId[j]] = None
      BY <3>1 DEF IInv, Alive, Orders, Names
    <3> QED BY <1>4, <1>7, <3>1, <3>2
  <2>3. ASSUME NEW j \in Machine, Named(j)' PROVE mcId'[myId'[j]] = j
    <3>1. CASE j = i
      BY <1>2, <1>3, <1>4, <3>1
    <3>2. CASE j # i
      <4>1. Named(j) /\ Alive(j) /\ myId[j] \in OrderId /\ mcId[myId[j]] = j
        BY <1>1, <2>3, <3>2 DEF IInv, Named, Alive, Orders, Names, Same
      <4> QED BY <1>2, <1>4, <1>7, <3>2, <4>1
    <3> QED BY <3>1, <3>2
  <2>4. ASSUME NEW j \in Machine, NEW o \in OrderId, Alive(j)', mcId'[o] = j
        PROVE  o <= myId'[j]
    <3>1. Alive(j) /\ myId'[j] = myId[j] /\ myId[j] \in OrderId
      BY <1>6, <2>4 DEF Goes, IInv, Orders
    <3>2. CASE o = myId[i]
      <4>1. j = i
        BY <1>4, <2>4, <3>2
      <4> QED BY <3>1, <3>2, <4>1 DEF OrderId, Machine
    <3>3. CASE o # myId[i]
      BY <1>4, <2>4, <3>1, <3>3 DEF IInv, Names
    <3> QED BY <3>2, <3>3
  <2> QED BY <2>1, <2>2, <2>3, <2>4 DEF Names
<1>10. Metas'
  BY <1>2, <1>5, <1>6, MetasKept DEF IInv
<1>11. Exchange'
  <2>1. remoteMsg'[i][i] = Meta(i, i)'
    <3>1. remoteMsg'[i][i] = Meta(i, i)
      BY <1>1, <1>2 DEF TypeOK
    <3> QED BY <3>1, <1>2 DEF Meta, Regions
  <2>2. Upto(i)' = 0
    <3>1. curNum[i] = 0
      BY <1>2 DEF IInv, Idle
    <3> QED BY <1>2, <3>1 DEF Upto
  <2>3. \A q \in OrderId : ~(q < 0)
    BY DEF OrderId, Machine
  <2>4. ExchangeOf(i)'
    BY <1>2, <2>1, <2>2, <2>3 DEF ExchangeOf
  <2> QED BY <1>1, <1>5, <2>4, ExchangeOther DEF Exchange, IInv
<1>12. Counted'
  <2>1. Cardinality(Done) <= Cardinality(Done') /\ Cardinality(Done) \in Nat
        /\ Cardinality(Done') \in Nat
    BY <1>1, <1>2, <1>5, <1>6, DoneKept, FS_CardinalityType DEF IInv, TypeOK
  <2> QED BY <1>1, <1>2, <2>1 DEF IInv, Counted, TypeOK, None
<1>13. Filled' /\ Joined'
  <2>1. \A j \in Machine : Past(j)' => Past(j) /\ j # i
    BY <1>1, <1>2 DEF Same, Past
  <2>2. Full => Full'
    BY <1>2 DEF Full, Sent
  <2> QED BY <1>1, <1>2, <2>1, <2>2 DEF IInv, Filled, Joined, Same
<1>14. Idle'
  BY <1>1, <1>2 DEF IInv, Idle, Same
<1> QED BY <1>1, <1>8, <1>9, <1>10, <1>11, <1>12, <1>13, <1>14 DEF IInv

LEMMA SetMetaStep == ASSUME IInv, NEW i \in Machine, SetMeta(i) PROVE IInv'
<1>1. TypeOK /\ TypeOK' /\ \A j \in Machine \ {i} : Same(j)
  BY TypeStep, OthersSame DEF IInv, ComInit
<1>2. /\ UNCHANGED <<gen, myId, curNum, serverNum, k, mid, remoteMsg, qp, mcNum, mcId, mcBarrier>>
      /\ up[i] = "set" /\ up'[i] = "get"
      /\ mcMeta' = [mcMeta EXCEPT ![<<myId[i], k[i]>>] = Meta(i, mid[i])]
  BY <1>1 DEF SetMeta, UpGoto, TypeOK, connVars
<1>3. Alive(i) /\ Named(i) /\ ExchangeOf(i)
  BY <1>2 DEF IInv, Exchange, Alive, Named
<1>4. /\ myId[i] \in OrderId /\ k[i] \in OrderId /\ k[i] # myId[i]
      /\ mid[i] = mcId[k[i]] /\ mid[i] # None /\ mcId[myId[i]] = i
      /\ k[i] < serverNum[i] /\ serverNum[i] <= MachineNum
  BY <1>2, <1>3 DEF IInv, ExchangeOf, Orders, Names
<1>5. mid[i] \in Machine
  BY <1>1, <1>4 DEF TypeOK
<1>6. Meta(i, mid[i]) \in Msg /\ Meta(i, mid[i]) # NoMsg
      /\ Meta(i, mid[i]).from = i /\ Meta(i, mid[i]).to = mid[i]
  BY <1>1, <1>5, MetaReal, MsgReal
<1>7. \A q, r \in OrderId :
        mcMeta'[<<q, r>>] = IF q = myId[i] /\ r = k[i] THEN Meta(i, mid[i]) ELSE mcMeta[<<q, r>>]
  BY <1>1, <1>2, <1>4 DEF TypeOK
<1>8. Sent(myId[i], k[i]) => mcMeta[<<myId[i], k[i]>>] = Meta(i, mid[i])
  BY <1>3, <1>4 DEF IInv, Metas
<1>9. Grows
  <2>1. mcNum <= mcNum' /\ \A o \in OrderId : mcId[o] # None => mcId'[o] = mcId[o]
    BY <1>1, <1>2 DEF TypeOK
  <2>2. \A q, r \in OrderId : Sent(q, r) => mcMeta'[<<q, r>>] = mcMeta[<<q, r>>]
    BY <1>7, <1>8
  <2> QED BY <2>1, <2>2 DEF Grows
<1>10. \A j \in Machine : Goes(j) /\ (Named(j)' => Named(j))
  BY <1>1, <1>2, <1>3 DEF Goes, Same, Alive, Named, Arrived
<1>11. Orders' /\ Names'
  BY <1>1, <1>2, <1>10, NamesKept DEF IInv
<1>13. Metas'
  <2> SUFFICES ASSUME NEW q \in OrderId, NEW r \in OrderId, Sent(q, r)'
               PROVE  /\ mcId'[q] # None /\ mcId'[r] # None
                      /\ mcMeta'[<<q, r>>].from = mcId'[q] /\ mcMeta'[<<q, r>>].to = mcId'[r]
                      /\ q < r => mcId'[q] # mcId'[r]
                      /\ \A j \in Machine : Alive(j)' /\ myId'[j] = q
                           => mcMeta'[<<q, r>>] = Meta(j, mcId[r])'
    BY DEF Metas
  <2>1. CASE q = myId[i] /\ r = k[i]
    <3>1. mcMeta'[<<q, r>>] = Meta(i, mcId[r]) /\ mcId[q] = i /\ mcId[r] = mid[i] /\ i # None
      BY <1>4, <1>7, <2>1 DEF Machine, None
    <3>2. q < r => mcId[q] # mcId[r]
      <4>1. mcId[r] = i => r <= q
        BY <1>3, <2>1 DEF IInv, Names
      <4> QED BY <3>1, <4>1 DEF OrderId, Machine
    <3>3. ASSUME NEW j \in Machine, Alive(j)', myId'[j] = q PROVE j = i
      BY <1>2, <1>3, <1>10, <2>1, <3>3 DEF IInv, Orders, Goes
    <3>4. Meta(i, mcId[r])' = Meta(i, mcId[r])
      BY <1>2 DEF Meta, Regions
    <3> QED BY <1>2, <1>4, <1>6, <2>1, <3>1, <3>2, <3>3, <3>4
  <2>2. CASE ~(q = myId[i] /\ r = k[i])
    <3>1. Sent(q, r) /\ mcMeta'[<<q, r>>] = mcMeta[<<q, r>>]
      BY <1>7, <2>2 DEF Sent
    <3>2. \A j \in Machine : Alive(j)' /\ myId'[j] = q => mcMeta'[<<q, r>>] = Meta(j, mcId[r])'
      BY <1>2, <1>10, <3>1 DEF IInv, Metas, Goes, Meta, Regions
    <3> QED BY <1>2, <3>1, <3>2 DEF IInv, Metas
  <2> QED BY <2>1, <2>2
<1>14. Exchange'
  <2>1. Upto(i)' = k[i] /\ Upto(i) = k[i]
    BY <1>2 DEF Upto
  <2>2. \A q \in OrderId \ {myId[i]} : q < k[i] => Exchanged(i, q)'
    <3>1. \A q \in OrderId \ {myId[i]} : q < k[i] => Exchanged(i, q)
      BY <1>3, <2>1 DEF ExchangeOf
    <3> QED BY <3>1, <1>1, <1>2, <1>4, <1>9, ExchangedKept DEF IInv
  <2>3. Sent(myId[i], k[i])'
    BY <1>2, <1>4, <1>6, <1>7 DEF Sent
  <2>4. remoteMsg'[i][i] = Meta(i, i)'
    BY <1>2, <1>3 DEF ExchangeOf, Meta, Regions
  <2>5. ExchangeOf(i)'
    BY <1>2, <1>4, <2>1, <2>2, <2>3, <2>4 DEF ExchangeOf
  <2> QED BY <1>1, <1>9, <2>5, ExchangeOther DEF Exchange, IInv
<1>15. Counted'
  <2>1. Cardinality(Done) <= Cardinality(Done') /\ Cardinality(Done) \in Nat
        /\ Cardinality(Done') \in Nat
    BY <1>1, <1>2, <1>9, <1>10, DoneKept, FS_CardinalityType DEF IInv, TypeOK
  <2> QED BY <1>1, <1>2, <2>1 DEF IInv, Counted, TypeOK, None
<1>16. Filled' /\ Joined' /\ Idle'
  <2>1. \A j \in Machine : Past(j)' => Past(j) /\ j # i
    BY <1>1, <1>2 DEF Same, Past
  <2>2. Full => Full'
    BY <1>9 DEF Full, Sent, Grows
  <2> QED BY <1>1, <1>2, <2>1, <2>2 DEF IInv, Filled, Joined, Idle, Same
<1> QED BY <1>1, <1>11, <1>13, <1>14, <1>15, <1>16 DEF IInv

(* memcached is emptied only when there is no process.                     *)
LEMMA ClearStep == ASSUME IInv, ClearMemcache PROVE IInv'
<1>1. \A i \in Machine : up'[i] = "exit"
  BY DEF ClearMemcache
<1>2. TypeOK'
  BY DEF IInv, TypeOK, ClearMemcache, connVars
<1>3. \A i \in Machine : ~Alive(i)' /\ ~Named(i)' /\ ~Past(i)'
  BY <1>1 DEF Alive, Named, Past
<1>4. mcNum' = 0 /\ mcBarrier' = None /\ (\A o \in OrderId : mcId'[o] = None)
      /\ \A q, r \in OrderId : ~Sent(q, r)'
  BY DEF ClearMemcache, Sent
<1>5. Orders' /\ Names' /\ Exchange' /\ Idle' /\ Filled' /\ Joined'
  BY <1>1, <1>3, <1>4 DEF Orders, Names, Exchange, ExchangeOf, Idle, Filled, Joined
<1>6. Metas'
  BY <1>4 DEF Metas
<1>7. Counted'
  <2>1. Done' = {}
    BY <1>4 DEF Done, OrderId, Machine
  <2> QED BY <1>4, <2>1, FS_EmptySet DEF Counted, None
<1> QED BY <1>2, <1>5, <1>6, <1>7 DEF IInv

THEOREM Inductive == IInv /\ [StartupNext]_startVars => IInv'
<1> SUFFICES ASSUME IInv, [StartupNext]_startVars PROVE IInv'
  OBVIOUS
<1>1. CASE UNCHANGED startVars
  <2>1. UNCHANGED <<up, gen, faults, flushes, myId, curNum, serverNum, k, mid,
                    remoteMsg, qp, mcNum, mcId, mcMeta, mcBarrier>>
    BY <1>1 DEF startVars, connVars, mcVars
  <2>2. TypeOK'
    BY <2>1 DEF IInv, TypeOK
  <2>3. (Orders /\ Names /\ Idle /\ Filled /\ Joined)'
    BY <2>1 DEF IInv, Orders, Names, Idle, Filled, Full, Joined, Alive, Named, Sent, Past
  <2>4. (Metas /\ Exchange)'
    BY <2>1 DEF IInv, Metas, Exchange, ExchangeOf, Exchanged, Upto, Alive, Named,
                Sent, Meta, Regions
  <2>5. Done' = Done
    BY <2>1 DEF Done, Alive, Sent
  <2> QED BY <2>1, <2>2, <2>3, <2>4, <2>5 DEF IInv, Counted
<1>2. CASE ClearMemcache
  BY <1>2, ClearStep
<1>3. ASSUME NEW i \in Machine, ComInit(i) \/ Fail(i) PROVE IInv'
  BY <1>3, GoneStep, AddMachineStep, SetMachineKeyStep, GetServerNumStep,
     GetMachineKeyStep, SetMetaStep, GetMetaStep, BarrierStep, BarrierWaitStep,
     ConnectStep DEF ComInit, Fail
<1> QED BY <1>1, <1>2, <1>3 DEF StartupNext

(* The strengthening both results rest on.                                 *)
THEOREM Invariance == StartupSpec => []IInv
  BY Initialised, Inductive, PTL DEF StartupSpec

-----------------------------------------------------------------------------
(* In a full table no two order ids are of one machine, and every machine  *)
(* has one.                                                                *)
LEMMA FullTable ==
  ASSUME IInv, Full, NEW i \in Machine, Named(i)
  PROVE  /\ \A q, r \in OrderId : mcId[q] = mcId[r] => q = r
         /\ \A m \in Machine : \E q \in OrderId : mcId[q] = m
<1>1. TypeOK /\ Orders /\ Names /\ Metas /\ myId[i] \in OrderId /\ mcId[myId[i]] = i
  BY DEF IInv, Orders, Names, Named
<1>2. \A q \in OrderId : mcId[q] \in Machine
  <2>1. \A q \in OrderId : q # myId[i] => mcId[q] # None
    BY <1>1 DEF Full, Metas
  <2> QED BY <1>1, <2>1 DEF TypeOK
<1>3. \A q, r \in OrderId : mcId[q] = mcId[r] => q = r
  <2>1. \A q, r \in OrderId : q < r => mcId[q] # mcId[r]
    <3> SUFFICES ASSUME NEW q \in OrderId, NEW r \in OrderId, q < r
                 PROVE  mcId[q] # mcId[r]
      OBVIOUS
    <3>1. q # r
      BY DEF OrderId, Machine
    <3>2. Sent(q, r)
      BY <3>1 DEF Full
    <3> QED BY <1>1, <3>2 DEF Metas
  <2>2. \A q, r \in OrderId : q = r \/ q < r \/ r < q
    BY DEF OrderId, Machine
  <2> QED BY <2>1, <2>2
<1>4. mcId \in Injection(OrderId, Machine)
  BY <1>1, <1>2, <1>3 DEF Injection, IsInjective, TypeOK
<1>5. IsFiniteSet(Machine) /\ Cardinality(OrderId) = Cardinality(Machine)
  BY OrderIdsFinite DEF OrderId
<1>6. mcId \in Surjection(OrderId, Machine)
  BY <1>4, <1>5, FS_Injection
<1> QED BY <1>3, <1>6 DEF Surjection

(* Past the barrier every machine holds, for every other one, the queue    *)
(* pair and the regions that one keeps for it in its present process: for  *)
(* any number of machines and any order of registrations, failures,        *)
(* restarts and flushes.                                                   *)
THEOREM PeersRight == StartupSpec => []PeersMatch
<1>1. IInv => PeersMatch
  <2> SUFFICES ASSUME IInv, NEW i \in Machine, NEW j \in Machine, Past(i)
               PROVE  /\ remoteMsg[i][j] # NoMsg
                      /\ remoteMsg[i][j].from = j /\ remoteMsg[i][j].to = i
                      /\ Past(j) => remoteMsg[i][j].regions = Regions(j, i)
                      /\ up[i] = "run" /\ i # j => qp[i][j].dest = remoteMsg[i][j]
    BY DEF PeersMatch
  <2>1. Full /\ Named(i) /\ Alive(i) /\ ExchangeOf(i)
    BY DEF IInv, Filled, Past, Named, Alive, Exchange
  <2>2. up[i] = "run" /\ i # j => qp[i][j].dest = remoteMsg[i][j]
    BY DEF IInv, Joined
  <2>3. CASE i = j
    <3>1. remoteMsg[i][i] = Meta(i, i)
      BY <2>1 DEF ExchangeOf
    <3>2. Meta(i, i) # NoMsg /\ Meta(i, i).from = i /\ Meta(i, i).to = i
      BY MetaReal, MsgReal DEF IInv
    <3>3. Meta(i, i).regions = Regions(i, i)
      BY DEF Meta
    <3> QED BY <2>3, <3>1, <3>2, <3>3
  <2>4. CASE i # j
    <3>1. PICK q \in OrderId : mcId[q] = j
      BY <2>1, FullTable
    <3>2. myId[i] \in OrderId /\ mcId[myId[i]] = i /\ q # myId[i]
      BY <2>1, <2>4, <3>1 DEF IInv, Orders, Names
    <3>3. q < Upto(i)
      <4>1. Upto(i) = MachineNum
        BY Zenon DEF Upto, Past
      <4> QED BY <4>1, StartupAssumption DEF OrderId, Machine
    <3>4. Exchanged(i, q)
      BY <2>1, <3>2, <3>3 DEF ExchangeOf
    <3>5. remoteMsg[i][j] = mcMeta[<<q, myId[i]>>] /\ Sent(q, myId[i])
      BY <2>1, <3>1, <3>4, FullTable DEF Exchanged
    <3>6. /\ remoteMsg[i][j] # NoMsg
          /\ remoteMsg[i][j].from = j /\ remoteMsg[i][j].to = i
      BY <3>1, <3>2, <3>5 DEF IInv, Metas, Sent
    <3>7. ASSUME Past(j) PROVE remoteMsg[i][j].regions = Regions(j, i)
      <4>1. Named(j) /\ Alive(j)
        BY <3>7 DEF Past, Named, Alive
      <4>2. myId[j] \in OrderId /\ mcId[myId[j]] = j
        BY <4>1 DEF IInv, Orders, Names
      <4>3. myId[j] = q
        BY <2>1, <3>1, <4>2, FullTable
      <4>4. mcMeta[<<q, myId[i]>>] = Meta(j, i)
        BY <3>2, <3>5, <4>1, <4>3 DEF IInv, Metas
      <4> QED BY <3>5, <4>4 DEF Meta
    <3> QED BY <2>2, <3>6, <3>7
  <2> QED BY <2>2, <2>3, <2>4
<1> QED BY <1>1, Invariance, PTL

-----------------------------------------------------------------------------
(* Nobody waits for ever before anybody has failed.  What a machine waits  *)
(* for in the exchange comes from a machine that is itself no further than *)
(* the order id of the first; so among machines that all wait, following   *)
(* who waits for whom lowers the sum of the own order id and the one       *)
(* waited for at every step, and cannot go on.                             *)
Clean == \A i \in Machine : up[i] # "exit" /\ gen[i] = 1

Here == {i \in Machine : up[i] \in Arrived}

Waits ==
  /\ \A i \in Machine : gen[i] > 0
  /\ Clean => mcNum <= MachineNum
  /\ \A i \in Machine : up[i] = "num" => curNum[i] < MachineNum
  /\ \A i \in Machine : up[i] \in {"arrive"} \cup Arrived => mcBarrier \in Nat
  /\ mcBarrier \in Nat => Cardinality(Here) <= mcBarrier

(* A set of naturals that is not empty has a least element.                *)
LEMMA LeastNat ==
  ASSUME NEW S \in SUBSET Nat, S # {}
  PROVE  \E n \in S : \A m \in S : n <= m
<1>1. IsWellFoundedOn(OpToRel(<, Nat), Nat)
  BY NatLessThanWellFounded
<1>2. PICK n \in S : \A y \in Nat : <<y, n>> \in OpToRel(<, Nat) => ~(y \in S)
  BY <1>1, WFMin
<1>3. \A m \in S : ~(m < n)
  BY <1>2 DEF OpToRel
<1> QED BY <1>3

LEMMA WaitsInitialised == StartupInit => Waits
<1> SUFFICES ASSUME StartupInit PROVE Waits
  OBVIOUS
<1>1. Here = {}
  BY DEF StartupInit, Here, Arrived
<1> QED BY <1>1, FS_EmptySet, StartupAssumption DEF StartupInit, Waits, None, Arrived

(* The machines that have arrived are finitely many.                       *)
LEMMA HereFinite ==
  IsFiniteSet(Here) /\ Cardinality(Here) \in Nat
  /\ \A T \in SUBSET Here : Cardinality(T) <= Cardinality(Here)
<1>1. IsFiniteSet(Machine) /\ Here \subseteq Machine
  BY OrderIdsFinite DEF OrderId, Here
<1> QED BY <1>1, FS_Subset, FS_CardinalityType

LEMMA WaitsStep ==
  ASSUME IInv, Waits, NEW i \in Machine, ComInit(i) \/ Fail(i) PROVE Waits'
<1>1. TypeOK /\ TypeOK' /\ \A j \in Machine \ {i} : Same(j)
  BY TypeStep, OthersSame DEF IInv
<1>2. gen'[i] = gen[i] \/ (up[i] = "exit" /\ gen'[i] = gen[i] + 1)
  BY <1>1 DEF ComInit, Fail, CtxInit, AddMachine, SetMachineKey, GetServerNum,
     GetMachineKey, SetMeta, GetMeta, BarrierAdd, BarrierArrive, BarrierWait, Connect,
     TimeOut, Crash, Restart, TypeOK
<1>3. \A j \in Machine : gen'[j] > 0
  BY <1>1, <1>2 DEF Waits, Same, TypeOK
<1>4. Clean' => mcNum' <= MachineNum
  <2> SUFFICES ASSUME Clean' PROVE mcNum' <= MachineNum
    OBVIOUS
  <2>1. CASE AddMachine(i)
    <3>1. up'[i] # "exit" /\ mcNum' = mcNum + 1
      BY <2>1 DEF Clean, AddMachine
    <3>2. ~(mcNum + 1 > MachineNum)
      BY <1>1, <2>1, <3>1 DEF AddMachine, UpGoto, TypeOK
    <3> QED BY <1>1, <3>1, <3>2, StartupAssumption DEF TypeOK
  <2>2. CASE ~AddMachine(i)
    <3>1. mcNum' = mcNum
      BY <2>2 DEF ComInit, Fail, CtxInit, SetMachineKey, GetServerNum,
         GetMachineKey, SetMeta, GetMeta, BarrierAdd, BarrierArrive, BarrierWait,
         Connect, TimeOut, Crash, Restart, mcVars
    <3>2. \A j \in Machine : gen[j] = 1
      BY <1>1, <1>2, <1>3 DEF Clean, Same, Waits, TypeOK
    <3>3. up[i] = "exit" => up'[i] = "exit" \/ gen'[i] = gen[i] + 1
      BY <1>1 DEF ComInit, Fail, CtxInit, AddMachine, SetMachineKey, GetServerNum,
         GetMachineKey, SetMeta, GetMeta, BarrierAdd, BarrierArrive, BarrierWait,
         Connect, TimeOut, Blocked, Crash, Restart, TypeOK
    <3>4. Clean
      BY <1>1, <3>2, <3>3 DEF Clean, Same, Waits, TypeOK
    <3> QED BY <3>1, <3>4 DEF Waits
  <2> QED BY <2>1, <2>2
<1>5. \A j \in Machine : up'[j] = "num" => curNum'[j] < MachineNum
  <2> SUFFICES ASSUME up'[i] = "num" PROVE curNum'[i] < MachineNum
    BY <1>1 DEF Same, Waits
  <2>1. CASE SetMachineKey(i)
    BY <1>1, <2>1, StartupAssumption DEF SetMachineKey, IInv, Idle, TypeOK
  <2>2. CASE GetServerNum(i)
    <3> DEFINE first == NextOther(i, curNum[i])
    <3>1. up'[i] = CASE mcNum > MachineNum -> "exit"
                   [] mcNum <= MachineNum /\ first < mcNum -> "mid"
                   [] OTHER -> IF mcNum = MachineNum THEN "route" ELSE "num"
      BY <1>1, <2>2 DEF GetServerNum, UpGoto, TypeOK
    <3>2. mcNum \in Int /\ MachineNum \in Int
      BY <1>1, StartupAssumption DEF TypeOK
    <3>3. mcNum > MachineNum <=> ~(mcNum <= MachineNum)
      BY <3>2
    <3>4. mcNum <= MachineNum /\ ~(first < mcNum) /\ mcNum # MachineNum
      BY <3>1, <3>3, Zenon
    <3>5. curNum'[i] = IF first < mcNum THEN curNum[i] ELSE mcNum
      BY <1>1, <2>2 DEF GetServerNum, TypeOK
    <3> QED BY <3>2, <3>4, <3>5
  <2>3. CASE GetMeta(i)
    <3> DEFINE next == NextOther(i, k[i] + 1)
    <3>1. up'[i] = CASE next < serverNum[i] -> "mid"
                   [] next >= serverNum[i] /\ serverNum[i] < MachineNum -> "num"
                   [] OTHER -> "route"
      BY <1>1, <2>3 DEF GetMeta, UpGoto, TypeOK
    <3>4. next >= serverNum[i] => ~(next < serverNum[i])
      BY <1>1 DEF NextOther, TypeOK
    <3>2. ~(next < serverNum[i]) /\ serverNum[i] < MachineNum
      BY <3>1, <3>4, Zenon
    <3>3. curNum'[i] = IF next < serverNum[i] THEN curNum[i] ELSE serverNum[i]
      BY <1>1, <2>3 DEF GetMeta, TypeOK
    <3> QED BY <3>2, <3>3
  <2>4. CASE ~(SetMachineKey(i) \/ GetServerNum(i) \/ GetMeta(i))
    BY <1>1, <2>4 DEF ComInit, Fail, CtxInit, AddMachine, GetMachineKey, SetMeta,
       BarrierAdd, BarrierArrive, BarrierWait, Connect, TimeOut, Crash, Restart,
       UpGoto, TypeOK
  <2> QED BY <2>1, <2>2, <2>3, <2>4
<1>6. (\A j \in Machine : up'[j] \in {"arrive"} \cup Arrived => mcBarrier' \in Nat)
      /\ (mcBarrier' \in Nat => Cardinality(Here') <= mcBarrier')
  <2>1. CASE BarrierAdd(i)
    <3>1. up[i] = "route" /\ up'[i] = "arrive"
          /\ mcBarrier' = IF mcBarrier = None THEN 0 ELSE mcBarrier
      BY <1>1, <2>1 DEF BarrierAdd, UpGoto, TypeOK
    <3>2. Here' = Here
      BY <1>1, <3>1 DEF Here, Same, Arrived
    <3>3. mcBarrier' \in Nat
      BY <1>1, <3>1 DEF TypeOK
    <3>4. CASE mcBarrier = None
      <4>1. Here = {}
        BY <1>1, <3>4 DEF Waits, Here, None
      <4> QED BY <3>1, <3>2, <3>3, <3>4, <4>1, FS_EmptySet
    <3>5. CASE mcBarrier # None
      BY <1>1, <3>1, <3>2, <3>3, <3>5 DEF Waits
    <3> QED BY <3>4, <3>5
  <2>2. CASE BarrierArrive(i)
    <3>1. up[i] = "arrive" /\ up'[i] = "wait" /\ mcBarrier' = mcBarrier + 1
      BY <1>1, <2>2 DEF BarrierArrive, UpGoto, TypeOK
    <3>2. mcBarrier \in Nat
      BY <3>1 DEF Waits
    <3>3. Here' = Here \cup {i} /\ i \notin Here
      BY <1>1, <3>1 DEF Here, Same, Arrived
    <3>4. Cardinality(Here') = Cardinality(Here) + 1
      BY <3>3, HereFinite, FS_AddElement
    <3> QED BY <3>1, <3>2, <3>4, HereFinite DEF Waits
  <2>3. CASE ~(BarrierAdd(i) \/ BarrierArrive(i))
    <3>1. mcBarrier' = mcBarrier
      BY <2>3 DEF ComInit, Fail, CtxInit, AddMachine, SetMachineKey, GetServerNum,
         GetMachineKey, SetMeta, GetMeta, BarrierWait, Connect,
         TimeOut, Crash, Restart, mcVars
    <3>2. up'[i] \in {"arrive"} \cup Arrived => up[i] \in Arrived /\ up'[i] \in Arrived
      <4>1. CASE GetServerNum(i)
        <5>1. up'[i] \in {"exit", "mid", "route", "num"}
          BY <1>1, <4>1 DEF GetServerNum, UpGoto, TypeOK
        <5> QED BY <5>1 DEF Arrived
      <4>2. CASE GetMeta(i)
        <5>1. up'[i] \in {"mid", "route", "num"}
          BY <1>1, <4>2 DEF GetMeta, UpGoto, TypeOK
        <5> QED BY <5>1 DEF Arrived
      <4>3. CASE ~(GetServerNum(i) \/ GetMeta(i))
        BY <1>1, <2>3, <4>3 DEF ComInit, Fail, CtxInit, AddMachine, SetMachineKey,
           GetMachineKey, SetMeta, BarrierWait, Connect, TimeOut, Crash, Restart,
           UpGoto, TypeOK, Arrived
      <4> QED BY <4>1, <4>2, <4>3
    <3>3. Here' \subseteq Here
      BY <1>1, <3>2 DEF Here, Same
    <3>4. Cardinality(Here') <= Cardinality(Here) /\ Cardinality(Here') \in Nat
      BY <3>3, HereFinite, FS_Subset, FS_CardinalityType
    <3>5. \A j \in Machine : up'[j] \in {"arrive"} \cup Arrived => mcBarrier' \in Nat
      BY <1>1, <3>1, <3>2 DEF Same, Waits
    <3> QED BY <3>1, <3>4, <3>5, HereFinite DEF Waits
  <2> QED BY <2>1, <2>2, <2>3
<1> QED BY <1>3, <1>4, <1>5, <1>6 DEF Waits

THEOREM WaitsInductive == IInv /\ Waits /\ [StartupNext]_startVars => Waits'
<1> SUFFICES ASSUME IInv, Waits, [StartupNext]_startVars PROVE Waits'
  OBVIOUS
<1>1. CASE UNCHANGED startVars
  <2>1. UNCHANGED <<up, gen, curNum, mcNum, mcBarrier>>
    BY <1>1 DEF startVars, connVars, mcVars
  <2>2. Here' = Here
    BY <2>1 DEF Here
  <2> QED BY <2>1, <2>2 DEF Waits, Clean
<1>2. CASE ClearMemcache
  <2>1. /\ \A i \in Machine : up'[i] = "exit"
        /\ gen' = gen /\ mcNum' = 0 /\ mcBarrier' = None
    BY <1>2 DEF ClearMemcache
  <2> QED BY <2>1, StartupAssumption DEF Waits, None, Arrived
<1>3. ASSUME NEW i \in Machine, ComInit(i) \/ Fail(i) PROVE Waits'
  BY <1>3, WaitsStep
<1> QED BY <1>1, <1>2, <1>3 DEF StartupNext

(* A machine that waits for data in the exchange waits for one that is     *)
(* itself at a smaller order id than the own one of the first.             *)
LEMMA WaitsForSmaller ==
  ASSUME IInv, NEW i \in Machine, NEW j \in Machine, Named(j),
         up[i] = "get", mcMeta[<<k[i], myId[i]>>] = NoMsg, myId[j] = k[i],
         up[j] \in {"get", "wait", "run"}
  PROVE  up[j] = "get" /\ k[j] < myId[i]
<1>1. Named(i) /\ Alive(i) /\ Alive(j) /\ ExchangeOf(i) /\ ExchangeOf(j)
  BY DEF IInv, Named, Alive, Exchange
<1>2. /\ myId[i] \in OrderId /\ k[i] \in OrderId /\ k[i] # myId[i]
      /\ ~Sent(myId[j], myId[i])
  BY <1>1 DEF IInv, Orders, ExchangeOf, Sent
<1>3. ~(myId[i] < Upto(j))
  BY <1>1, <1>2 DEF ExchangeOf, Exchanged
<1>4. CASE up[j] \in {"wait", "run"}
  <2>1. Upto(j) = MachineNum
    BY <1>4, Zenon DEF Upto
  <2> QED BY <1>2, <1>3, <2>1, StartupAssumption DEF OrderId, Machine
<1>5. CASE up[j] = "get"
  <2>1. Upto(j) = k[j] /\ Sent(myId[j], k[j]) /\ k[j] \in OrderId
    BY <1>1, <1>5 DEF Upto, ExchangeOf
  <2>2. k[j] # myId[i]
    BY <1>2, <2>1
  <2> QED BY <1>2, <1>3, <1>5, <2>1, <2>2 DEF OrderId, Machine
<1> QED BY <1>4, <1>5

LEMMA SomeoneGoesOn ==
  ASSUME IInv, Waits, Clean, NEW w \in Machine, up[w] # "run",
         \A i \in Machine : up[i] = "run" \/ Blocked(i)
  PROVE  FALSE
<1>1. \A i \in Machine : up[i] \in {"num", "mid", "get", "wait", "run"}
  BY DEF Blocked
<1>2. \A i \in Machine : Named(i) /\ Alive(i)
  BY <1>1 DEF Named, Alive
<1>3. \A i \in Machine : myId[i] \in OrderId /\ myId[i] < mcNum /\ mcId[myId[i]] = i
  BY <1>2 DEF IInv, Orders, Names
<1>4. \A o \in OrderId : \E i \in Machine : myId[i] = o
  <2>1. myId \in Injection(Machine, OrderId)
    <3>1. myId \in [Machine -> OrderId]
      BY <1>3 DEF IInv, TypeOK
    <3>2. \A i, j \in Machine : myId[i] = myId[j] => i = j
      BY <1>2 DEF IInv, Orders
    <3> QED BY <3>1, <3>2 DEF Injection, IsInjective
  <2>2. IsFiniteSet(OrderId) /\ Cardinality(Machine) = Cardinality(OrderId)
    BY OrderIdsFinite DEF OrderId
  <2>3. myId \in Surjection(Machine, OrderId)
    BY <2>1, <2>2, FS_Injection
  <2> QED BY <2>3 DEF Surjection
<1>5. mcNum = MachineNum
  <2>1. MachineNum - 1 \in OrderId /\ MachineNum \in Nat /\ mcNum \in Nat
    BY StartupAssumption DEF OrderId, Machine, IInv, TypeOK
  <2>2. MachineNum - 1 < mcNum
    BY <1>3, <1>4, <2>1
  <2>3. mcNum <= MachineNum
    BY DEF Waits
  <2> QED BY <2>1, <2>2, <2>3
<1>6. \A i \in Machine :
        \/ up[i] = "get" /\ mcMeta[<<k[i], myId[i]>>] = NoMsg
        \/ up[i] = "wait" /\ mcBarrier < MachineNum
        \/ up[i] = "run"
  <2> SUFFICES ASSUME NEW i \in Machine, up[i] \in {"num", "mid"} PROVE FALSE
    BY <1>1 DEF Blocked
  <2>1. CASE up[i] = "num"
    <3>1. curNum[i] = mcNum /\ curNum[i] < MachineNum
      BY <2>1 DEF Blocked, Waits
    <3> QED BY <1>5, <3>1, StartupAssumption
  <2>2. CASE up[i] = "mid"
    <3>1. mcId[k[i]] = None /\ k[i] \in OrderId
      BY <1>2, <2>2 DEF Blocked, IInv, Exchange, ExchangeOf
    <3> QED BY <1>3, <1>4, <3>1 DEF Machine, None
  <2> QED BY <2>1, <2>2
<1>7. \A i \in Machine : up[i] # "get"
  <2> SUFFICES ASSUME NEW g \in Machine, up[g] = "get" PROVE FALSE
    OBVIOUS
  <2> DEFINE G == {i \in Machine : up[i] = "get"}
             S == {myId[i] + k[i] : i \in G}
  <2>1. S \in SUBSET Nat /\ S # {}
    <3>1. \A i \in Machine : myId[i] \in Nat /\ k[i] \in Nat
      BY DEF IInv, TypeOK
    <3>2. \A i \in Machine : myId[i] + k[i] \in Nat
      BY <3>1
    <3>3. myId[g] + k[g] \in S
      OBVIOUS
    <3> QED BY <3>2, <3>3
  <2>2. PICK n \in S : \A m \in S : n <= m
    BY <2>1, LeastNat
  <2>3. PICK i \in Machine : up[i] = "get" /\ n = myId[i] + k[i]
    BY <2>2
  <2>4. k[i] \in OrderId
    BY <1>2, <2>3 DEF IInv, Exchange, ExchangeOf
  <2>5. PICK j \in Machine : myId[j] = k[i]
    BY <1>4, <2>4
  <2>6. up[j] = "get" /\ k[j] < myId[i]
    BY <1>2, <1>6, <2>3, <2>5, WaitsForSmaller
  <2>7. myId[j] + k[j] \in S
    BY <2>6
  <2>8. myId[i] + k[i] <= myId[j] + k[j]
    BY <2>2, <2>3, <2>7
  <2>9. myId[i] \in Nat /\ k[i] \in Nat /\ k[j] \in Nat
    BY DEF IInv, TypeOK
  <2> QED BY <2>5, <2>6, <2>8, <2>9
<1>8. Here = Machine
  BY <1>6, <1>7 DEF Here, Arrived
<1>9. up[w] = "wait" /\ mcBarrier < MachineNum
  BY <1>6, <1>7
<1>10. mcBarrier \in Nat /\ Cardinality(Machine) <= mcBarrier
  BY <1>8, <1>9 DEF Waits, Arrived
<1> QED BY <1>9, <1>10, OrderIdsFinite, StartupAssumption DEF OrderId

(* As long as no process has stopped, the exchange through memcached never *)
(* comes to a stand with every machine waiting for another, for any number *)
(* of machines and in whatever order they register and exchange.           *)
THEOREM NobodyStuck == StartupSpec => []NoMutualWait
<1>1. IInv /\ Waits => NoMutualWait
  BY SomeoneGoesOn DEF NoMutualWait, Clean
<1>2. StartupSpec => []Waits
  BY WaitsInitialised, WaitsInductive, Invariance, PTL DEF StartupSpec
<1> QED BY <1>1, <1>2, Invariance, PTL
===============================================================================
