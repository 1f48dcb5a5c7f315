------------------------------- MODULE Startup -------------------------------
(***************************************************************************)
(* From the start of a process to a connected machine: com_init and the    *)
(* two initialisations after it (rdma_comm.cc), the verbs objects          *)
(* (rdma_context.cc) and the exchange of metadata through memcached        *)
(* (server_connect.cc).                                                    *)
(*                                                                         *)
(* A process gets its order id from a counter in memcached and keeps its   *)
(* configured machine id; the keys of the exchange are order ids, the      *)
(* arrays the data goes to are indexed by machine ids.  Every access to    *)
(* memcached is a step of its own.  Processes may stop anywhere, deadlines *)
(* may pass, and a process that has stopped may be started again while     *)
(* memcached keeps what the earlier one has written.  Only when no process *)
(* is running does the launcher flush it.                                  *)
(***************************************************************************)
EXTENDS Integers, Sequences, FiniteSets, TLC

CONSTANTS
  MachineNum,  \* MACHINE_NUM
  ActiveMtu,   \* the active mtu of the ports
  UserMtu,     \* the mtu asked for, 0 for none
  GidTable,    \* GIDs of a port: sequence of [zero, ipv4, v2, own]
  MaxFault,    \* bound: processes that stop for a reason of their own
  MaxGen,      \* bound: processes started on one machine
  MaxFlush     \* bound: calls of clear_memcache

Machine == 0 .. MachineNum - 1
OrderId == Machine
None == -1      \* a key or a number that is not there
NoMsg == <<>>   \* a message that is not there

ASSUME StartupAssumption ==
  /\ MachineNum \in Nat \ {0}
  /\ {ActiveMtu, UserMtu, MaxFault, MaxGen, MaxFlush} \subseteq Nat

VARIABLES
  up,          \* [i]: what the process of machine i does next
  gen,         \* [i]: processes started on i
  faults,      \* processes that have stopped for a reason of their own
  flushes,     \* calls of clear_memcache
  myId,        \* [i]: my_id
  curNum,      \* [i]: cur_machine_num
  serverNum,   \* [i]: the local serverNum of connect_machine
  k,           \* [i]: k of connect_machine
  mid,         \* [i]: m of exchange_meta
  remoteMsg,   \* [i][m]: remote_mr_msg
  qp,          \* [i][m]: the queue pair towards m
  mcNum,       \* memcached: serverNum
  mcId,        \* memcached: Machine-id-<order id>
  mcMeta,      \* memcached: <order id>-<order id>
  mcBarrier    \* memcached: barrier-RDMA-init

mcVars == <<mcNum, mcId, mcMeta, mcBarrier>>
connVars == <<myId, curNum, serverNum, k, mid, remoteMsg, qp>>
startVars == <<up, gen, faults, flushes, connVars, mcVars>>

NewQp == [state |-> "RESET", dest |-> NoMsg, mtu |-> 0]

StartupInit ==
  /\ up = [i \in Machine |-> "open"]
  /\ gen = [i \in Machine |-> 1]
  /\ faults = 0 /\ flushes = 0
  /\ myId = [i \in Machine |-> 0]
  /\ curNum = [i \in Machine |-> 0]
  /\ serverNum = [i \in Machine |-> 0]
  /\ k = [i \in Machine |-> 0]
  /\ mid = [i \in Machine |-> None]
  /\ remoteMsg = [i \in Machine |-> [m \in Machine |-> NoMsg]]
  /\ qp = [i \in Machine |-> [m \in Machine |-> NewQp]]
  /\ mcNum = 0
  /\ mcId = [o \in OrderId |-> None]
  /\ mcMeta = [o \in OrderId \X OrderId |-> NoMsg]
  /\ mcBarrier = None

UpGoto(i, s) == up' = [up EXCEPT ![i] = s]

-----------------------------------------------------------------------------
(* get_best_gid_index: the first of the GIDs with the highest score; zero  *)
(* GIDs do not count.                                                      *)
GidScore(g) ==
  1 + (IF g.ipv4 THEN 20 ELSE 0) + (IF g.v2 THEN 10 ELSE 0)
    + (IF g.ipv4 /\ g.own THEN 100 ELSE 0)

BestGidIndex ==
  LET usable == {n \in DOMAIN GidTable : ~GidTable[n].zero}
      best == {n \in usable :
                 \A l \in usable : GidScore(GidTable[l]) <= GidScore(GidTable[n])}
  IN IF best = {} THEN -1 ELSE (CHOOSE n \in best : \A l \in best : n <= l) - 1

(* set_mtu: an mtu the verbs do not know, or a larger one than the port    *)
(* has, becomes the active one.  It is not compared with the peer's.       *)
CurrMtu ==
  IF UserMtu \in {256, 512, 1024, 2048, 4096} /\ UserMtu <= ActiveMtu
    THEN UserMtu ELSE ActiveMtu

(* qp_create and modify_qp_to_init: a failed change is reported and the    *)
(* queue pair kept as it is.                                               *)
InitQps(bad) ==
  [m \in Machine |-> [NewQp EXCEPT !.state = IF m \in bad THEN "RESET" ELSE "INIT"]]

(* com_init up to the exchange: the device and its GID, then the regions,  *)
(* completion queues and queue pairs of all threads.                       *)
CtxInit(i) ==
  /\ up[i] = "open"
  /\ \E bad \in {b \in SUBSET Machine : Cardinality(b) <= 1} :
       /\ faults + Cardinality(bad) <= MaxFault
       /\ faults' = faults + Cardinality(bad)
       /\ qp' = [qp EXCEPT ![i] = InitQps(bad)]
  /\ UpGoto(i, IF BestGidIndex < 0 THEN "exit" ELSE "add")
  /\ UNCHANGED <<gen, flushes, myId, curNum, serverNum, k, mid, remoteMsg,
                 mcVars>>

-----------------------------------------------------------------------------
(* The regions of the present process of i that machine m may use: all     *)
(* machines read the same partition, each writes to buffers of its own.    *)
Regions(i, m) == [read |-> <<i, gen[i]>>, write |-> <<i, gen[i], m>>]

(* local_meta[m], set by set_up_connection and setDataToRemote: the queue  *)
(* pair this process keeps for machine m, and the keys of the regions.     *)
Meta(i, m) == [from |-> i, to |-> m, regions |-> Regions(i, m), gid |-> BestGidIndex]

(* add_machine: the counter gives the order id.                            *)
AddMachine(i) ==
  /\ up[i] = "add"
  /\ mcNum' = mcNum + 1
  /\ myId' = [myId EXCEPT ![i] = mcNum]
  /\ UpGoto(i, IF mcNum + 1 > MachineNum THEN "exit" ELSE "id")
  /\ UNCHANGED <<gen, faults, flushes, curNum, serverNum, k, mid, remoteMsg,
                 qp, mcId, mcMeta, mcBarrier>>

(* The end of add_machine, and the metadata of the machine itself.         *)
SetMachineKey(i) ==
  /\ up[i] = "id"
  /\ mcId' = [mcId EXCEPT ![myId[i]] = i]
  /\ remoteMsg' = [remoteMsg EXCEPT ![i][i] = Meta(i, i)]
  /\ UpGoto(i, "num")
  /\ UNCHANGED <<gen, faults, flushes, myId, curNum, serverNum, k, mid, qp,
                 mcNum, mcMeta, mcBarrier>>

(* The order id at or after o that is not the own one.                     *)
NextOther(i, o) == IF o = myId[i] THEN o + 1 ELSE o

(* connect_machine reads the counter: exchange with the new machines, or   *)
(* leave the loop.                                                         *)
GetServerNum(i) ==
  LET first == NextOther(i, curNum[i]) IN
  /\ up[i] = "num"
  /\ serverNum' = [serverNum EXCEPT ![i] = mcNum]
  /\ k' = [k EXCEPT ![i] = first]
  /\ UpGoto(i, CASE mcNum > MachineNum -> "exit"
                 [] mcNum <= MachineNum /\ first < mcNum -> "mid"
                 [] OTHER -> IF mcNum = MachineNum THEN "route" ELSE "num")
  /\ curNum' = [curNum EXCEPT ![i] = IF first < mcNum THEN @ ELSE mcNum]
  /\ UNCHANGED <<gen, faults, flushes, myId, mid, remoteMsg, qp, mcVars>>

\* Faulty variant: towards lower order ids the peer's data are read first.
GetMachineKeyFirst(i) ==
  /\ up[i] = "mid" /\ mcId[k[i]] # None
  /\ mid' = [mid EXCEPT ![i] = mcId[k[i]]]
  /\ UpGoto(i, IF myId[i] > k[i] THEN "get" ELSE "set")
  /\ UNCHANGED <<gen, faults, flushes, myId, curNum, serverNum, k, remoteMsg,
                 qp, mcVars>>

(* exchange_meta: which machine has order id k ...                         *)
GetMachineKey(i) ==
  /\ up[i] = "mid" /\ mcId[k[i]] # None
  /\ mid' = [mid EXCEPT ![i] = mcId[k[i]]]
  /\ UpGoto(i, "set")
  /\ UNCHANGED <<gen, faults, flushes, myId, curNum, serverNum, k, remoteMsg,
                 qp, mcVars>>

(* ... the data for it ...                                                 *)
SetMeta(i) ==
  /\ up[i] = "set"
  /\ mcMeta' = [mcMeta EXCEPT ![<<myId[i], k[i]>>] = Meta(i, mid[i])]
  /\ UpGoto(i, "get")
  /\ UNCHANGED <<gen, faults, flushes, connVars, mcNum, mcId, mcBarrier>>

(* ... and the data of it; then the loops of connect_machine go on.        *)
GetMeta(i) ==
  LET msg == mcMeta[<<k[i], myId[i]>>]
      next == NextOther(i, k[i] + 1) IN
  /\ up[i] = "get" /\ msg # NoMsg
  /\ remoteMsg' = [remoteMsg EXCEPT ![i][msg.from] = msg]
  /\ k' = [k EXCEPT ![i] = next]
  /\ curNum' = [curNum EXCEPT ![i] = IF next < serverNum[i] THEN @ ELSE serverNum[i]]
  /\ UpGoto(i, CASE next < serverNum[i] -> "mid"
                 [] next >= serverNum[i] /\ serverNum[i] < MachineNum -> "num"
                 [] OTHER -> "route")
  /\ UNCHANGED <<gen, faults, flushes, myId, serverNum, mid, qp, mcVars>>

-----------------------------------------------------------------------------
(* init_route writes a key nobody reads; barrier("RDMA-init") creates the  *)
(* counter unless it is there ...                                          *)
BarrierAdd(i) ==
  /\ up[i] = "route"
  /\ mcBarrier' = IF mcBarrier = None THEN 0 ELSE mcBarrier
  /\ UpGoto(i, "arrive")
  /\ UNCHANGED <<gen, faults, flushes, connVars, mcNum, mcId, mcMeta>>

(* ... counts itself ...                                                   *)
BarrierArrive(i) ==
  /\ up[i] = "arrive"
  /\ mcBarrier' = mcBarrier + 1
  /\ UpGoto(i, "wait")
  /\ UNCHANGED <<gen, faults, flushes, connVars, mcNum, mcId, mcMeta>>

\* Faulty variant: the loop ends as soon as the counter has been read.
BarrierWaitOnce(i) ==
  /\ up[i] = "wait"
  /\ UpGoto(i, IF mcBarrier <= MachineNum THEN "connect" ELSE "exit")
  /\ UNCHANGED <<gen, faults, flushes, connVars, mcVars>>

(* ... and reads it until all machines have; more of them are stale ones.  *)
BarrierWait(i) ==
  /\ up[i] = "wait" /\ mcBarrier >= MachineNum
  /\ UpGoto(i, IF mcBarrier = MachineNum THEN "connect" ELSE "exit")
  /\ UNCHANGED <<gen, faults, flushes, connVars, mcVars>>

-----------------------------------------------------------------------------
(* modify_qp_to_rtr and modify_qp_to_rts.  They fail for a queue pair that *)
(* is not in INIT and for an empty GID.                                    *)
Connectable(i, m) == qp[i][m].state = "INIT" /\ remoteMsg[i][m] # NoMsg
ToRts(i, m) ==
  [qp[i][m] EXCEPT !.state = "RTS", !.dest = remoteMsg[i][m], !.mtu = CurrMtu]

(* connect of all threads, up to the first machine for which it fails;     *)
(* then com_read_init and com_write_init: buffers free, receives posted.   *)
Connect(i) ==
  LET bad == {m \in Machine \ {i} : ~Connectable(i, m)}
      before(m) == m # i /\ \A b \in bad : m < b IN
  /\ up[i] = "connect"
  /\ qp' = [qp EXCEPT ![i] = [m \in Machine |-> IF before(m) THEN ToRts(i, m) ELSE @[m]]]
  /\ UpGoto(i, IF bad = {} THEN "run" ELSE "exit")
  /\ UNCHANGED <<gen, faults, flushes, myId, curNum, serverNum, k, mid,
                 remoteMsg, mcVars>>

-----------------------------------------------------------------------------
(* What the process waits for is not there.                                *)
Blocked(i) ==
  \/ up[i] = "num" /\ curNum[i] = mcNum
  \/ up[i] = "mid" /\ mcId[k[i]] = None
  \/ up[i] = "get" /\ mcMeta[<<k[i], myId[i]>>] = NoMsg
  \/ up[i] = "wait" /\ mcBarrier < MachineNum

(* A deadline passes: the loop throws and com_init exits.                  *)
TimeOut(i) ==
  /\ Blocked(i)
  /\ UpGoto(i, "exit")
  /\ UNCHANGED <<gen, faults, flushes, connVars, mcVars>>

(* The process stops by itself: a verbs call fails, memcached cannot be    *)
(* reached, the machine is switched off.                                   *)
Crash(i) ==
  /\ up[i] \notin {"exit", "run"} /\ faults < MaxFault
  /\ faults' = faults + 1
  /\ UpGoto(i, "exit")
  /\ UNCHANGED <<gen, flushes, connVars, mcVars>>

(* It is started again.                                                    *)
Restart(i) ==
  /\ up[i] = "exit" /\ gen[i] < MaxGen
  /\ UpGoto(i, "open")
  /\ gen' = [gen EXCEPT ![i] = @ + 1]
  /\ myId' = [myId EXCEPT ![i] = 0]
  /\ curNum' = [curNum EXCEPT ![i] = 0]
  /\ serverNum' = [serverNum EXCEPT ![i] = 0]
  /\ k' = [k EXCEPT ![i] = 0]
  /\ mid' = [mid EXCEPT ![i] = None]
  /\ remoteMsg' = [remoteMsg EXCEPT ![i] = [m \in Machine |-> NoMsg]]
  /\ qp' = [qp EXCEPT ![i] = [m \in Machine |-> NewQp]]
  /\ UNCHANGED <<faults, flushes, mcVars>>

(* clear_memcache of the launcher: flush_all and set serverNum 0.  The     *)
(* script does not look for running processes: that there are none is the  *)
(* order of the launch scripts, which call it before the program starts.   *)
ClearMemcache ==
  /\ \A i \in Machine : up[i] = "exit"
  /\ flushes < MaxFlush
  /\ flushes' = flushes + 1
  /\ mcNum' = 0
  /\ mcId' = [o \in OrderId |-> None]
  /\ mcMeta' = [o \in OrderId \X OrderId |-> NoMsg]
  /\ mcBarrier' = None
  /\ UNCHANGED <<up, gen, faults, connVars>>

ComInit(i) ==
  \/ CtxInit(i) \/ AddMachine(i) \/ SetMachineKey(i)
  \/ GetServerNum(i) \/ GetMachineKey(i) \/ SetMeta(i) \/ GetMeta(i)
  \/ BarrierAdd(i) \/ BarrierArrive(i) \/ BarrierWait(i)
  \/ Connect(i)

Fail(i) == TimeOut(i) \/ Crash(i) \/ Restart(i)

StartupNext == ClearMemcache \/ \E i \in Machine : ComInit(i) \/ Fail(i)

StartupSpec == StartupInit /\ [][StartupNext]_startVars

-----------------------------------------------------------------------------
Past(i) == up[i] \in {"connect", "run"}

(* Past the barrier every machine has what every other one that is past it *)
(* keeps for it in its present process: its own queue pair and regions     *)
(* there, not those of an earlier process or of another machine,           *)
(* in whatever order the machines have registered, stopped and restarted.  *)
PeersMatch ==
  \A i, j \in Machine :
    Past(i) =>
      /\ remoteMsg[i][j] # NoMsg
      /\ remoteMsg[i][j].from = j /\ remoteMsg[i][j].to = i
      /\ Past(j) => remoteMsg[i][j].regions = Regions(j, i)
      /\ up[i] = "run" /\ i # j => qp[i][j].dest = remoteMsg[i][j]

(* As long as nobody has failed, the machines never all wait for each      *)
(* other: the data a machine waits for is there or its owner can go on.    *)
NoMutualWait ==
  (\A i \in Machine : up[i] # "exit" /\ gen[i] = 1)
    => \/ \A i \in Machine : up[i] = "run"
       \/ \E i \in Machine : up[i] # "run" /\ ~Blocked(i)

=============================================================================
