------------------------------- MODULE Runtime -------------------------------
(***************************************************************************)
(* The threads under all searches and builds (src/coromem): the thread     *)
(* pool with its cascades, on_each, the MCS barrier, and the loops do_all  *)
(* and do_all_standby with work stealing.                                  *)
(*                                                                         *)
(* The main thread runs loops, each on its own number of active threads:   *)
(* on_each gives every thread its part of the range, then the loop runs.   *)
(* Between loops it may stop and restart the pool, or make and destroy     *)
(* per-thread storages of its own.  A critical section under work_mutex is *)
(* one step; try_lock may fail.  The termination detection of the loops is *)
(* initialised and never asked (USE_TERM).                                 *)
(***************************************************************************)
EXTENDS Topology, PerThread

CONSTANTS
  MaxThreads,   \* threads of the pool
  Hosts,        \* hosts the program may run on
  ChunkSize,    \* chunk_size of the loop
  MaxItems,     \* bound: items of a loop
  Lengths,      \* numbers of items a loop may have
  MaxLoops,     \* bound: loops
  MaxPauses,    \* bound: calls of poolPause
  Sizes,        \* bound: sizes of the main thread's own storages
  MaxStorages   \* bound: how many of these are alive at a time

Thread == 0 .. MaxThreads - 1

ASSUME RuntimeAssumption ==
  /\ {MaxThreads, ChunkSize} \subseteq Nat \ {0}
  /\ {MaxItems, MaxLoops, MaxPauses, MaxStorages} \subseteq Nat
  /\ Lengths \subseteq 0 .. MaxItems
  /\ \A h \in Hosts : DOMAIN UsableCPUs(h) = 1 .. MaxThreads
  /\ Sizes \subseteq Nat \ {0}

VARIABLES
  host,      \* the host
  topo,      \* [t]: topo of thd_signal
  pc,        \* [t]: where the thread is
  wbegin,    \* [t]: wbegin of thd_signal
  wend,      \* [t]: wend
  done,      \* [t]: done
  work,      \* the job of the pool
  active,    \* activeThreads
  num,       \* num of the RangeIterator
  range,     \* [t]: its localIterators
  barrierN,  \* m_num_threads of the barrier
  node,      \* [t]: the barrier's treenode
  ctx,       \* [t]: ThreadContext
  mine,      \* [t]: items taken, or stolen and not yet assigned
  scan,      \* [t]: progress of trySteal
  cnt,       \* [x]: how often item x has been executed
  loops,     \* loops started
  pauses     \* calls of poolPause

poolVars == <<wbegin, wend, done, work>>
loopVars == <<ctx, mine, scan, cnt>>
hostVars == <<host, topo>>
vars == <<hostVars, ptVars, pc, poolVars, active, num, range, barrierN, node, loopVars,
          loops, pauses>>

Empty == [beg |-> 0, end |-> 0]
NoContext == [id |-> MaxThreads, beg |-> 0, end |-> 0]
NoScan == [phase |-> 1, n |-> 1, saw |-> FALSE]
Each(x) == [t \in Thread |-> x]

-----------------------------------------------------------------------------
(* The barrier's trees: a thread waits for four children and wakes two.    *)
Children(t, n) == {c \in Thread : c < n /\ c > 0 /\ (c - 1) \div 4 = t}
Wakes(t, k, n) == {c \in Thread : c < n /\ c = 2 * t + k}

(* _reinit.                                                                *)
NewNodes(n) ==
  [t \in Thread |-> [sense |-> TRUE, parentsense |-> FALSE, notready |-> Children(t, n)]]

(* The pool has been constructed, its threads have not yet come up.        *)
Init ==
  /\ host \in Hosts /\ topo = MakeHWTopo(host)
  /\ PerThreadInit(Thread)
  /\ pc = [t \in Thread |-> IF t = 0 THEN "await" ELSE "start"]
  /\ wbegin = Each(0) /\ wend = Each(0)
  /\ done = [t \in Thread |-> t = 0]
  /\ work = "none"
  /\ active = 1
  /\ num = 0
  /\ range = Each(Empty)
  /\ barrierN = MaxThreads
  /\ node = NewNodes(MaxThreads)
  /\ ctx = Each(NoContext)
  /\ mine = Each(Empty)
  /\ scan = Each(NoScan)
  /\ cnt = [x \in 0 .. MaxItems - 1 |-> 0]
  /\ loops = 0 /\ pauses = 0

Goto(t, s) == pc' = [pc EXCEPT ![t] = s]

-----------------------------------------------------------------------------
(* initThread of a new thread: its region, then that of its socket, then   *)
(* its loop.                                                               *)
InitThread(t) ==
  /\ \/ /\ pc[t] = "start"
        /\ InitPerThread(t, pauses)
        /\ Goto(t, "socket")
        /\ UNCHANGED done
     \/ /\ pc[t] = "socket"
        /\ InitPerSocket(t, topo[t].socketLeader, pauses)
        /\ done' = [done EXCEPT ![t] = TRUE]
        /\ Goto(t, "sleep")
  /\ UNCHANGED <<hostVars, allocVars, wbegin, wend, work, active, num, range,
                 barrierN, node, loopVars, loops, pauses>>

(* The end of the constructor and of poolContiue.                          *)
PoolReady ==
  /\ pc[0] = "await" /\ \A t \in Thread : done[t] /\ pc[t] # "start"
  /\ Goto(0, "idle")
  /\ UNCHANGED <<hostVars, ptVars, poolVars, active, num, range, barrierN, node,
                 loopVars, loops, pauses>>

(* run of the main thread up to the cascade.                               *)
Run(job, n) ==
  /\ work' = job
  /\ wbegin' = [wbegin EXCEPT ![0] = 1]
  /\ wend' = [wend EXCEPT ![0] = n]
  /\ Goto(0, "left")

(* setActiveThreads, a RangeIterator with its storage, and on_each over it. *)
(* Bound: no storage of the main thread has been made before.              *)
OnEach ==
  /\ pc[0] = "idle" /\ loops < MaxLoops
  /\ nextLoc = 0 /\ free = NoFree
  /\ Construct(1)
  /\ \E n \in 1 .. MaxThreads, items \in Lengths :
       active' = n /\ num' = items /\ Run("range", n)
  /\ range' = Each(Empty)
  /\ cnt' = [x \in 0 .. MaxItems - 1 |-> 0]
  /\ loops' = loops + 1
  /\ UNCHANGED <<hostVars, regionVars, done, barrierN, node, ctx, mine, scan, pauses>>

(* The loop on that range: a new executor with its storage, and the        *)
(* barrier for as many threads as are active.                              *)
DoAll ==
  /\ pc[0] = "next"
  /\ Construct(1)
  /\ Run("loop", active)
  /\ ctx' = Each(NoContext)
  /\ barrierN' = active
  /\ node' = IF barrierN = active THEN node ELSE NewNodes(active)
  /\ UNCHANGED <<hostVars, regionVars, done, active, num, range, mine, scan, cnt,
                 loops, pauses>>

-----------------------------------------------------------------------------
Midpoint(t) == wbegin[t] + (1 + wend[t] - wbegin[t]) \div 2

(* wakeup of thread c with the threads from b to e below it.               *)
Wakeup(c, b, e) ==
  /\ wbegin' = [wbegin EXCEPT ![c] = b]
  /\ wend' = [wend EXCEPT ![c] = e]
  /\ done' = [done EXCEPT ![c] = FALSE]

(* wait.                                                                   *)
Wait(t) ==
  /\ pc[t] = "sleep" /\ ~done[t]
  /\ Goto(t, "left")
  /\ UNCHANGED <<hostVars, ptVars, poolVars, active, num, range, barrierN, node,
                 loopVars, loops, pauses>>

(* cascade: the left child, then the right one.                            *)
Cascade(t) ==
  /\ \/ /\ pc[t] = "left" /\ wbegin[t] # wend[t]
        /\ Wakeup(wbegin[t], wbegin[t] + 1, Midpoint(t))
        /\ Goto(t, "right")
     \/ /\ pc[t] = "right" /\ Midpoint(t) < wend[t]
        /\ Wakeup(Midpoint(t), Midpoint(t) + 1, wend[t])
        /\ Goto(t, "job")
     \/ /\ \/ pc[t] = "left" /\ wbegin[t] = wend[t]
           \/ pc[t] = "right" /\ Midpoint(t) >= wend[t]
        /\ Goto(t, "job") /\ UNCHANGED <<wbegin, wend, done>>
  /\ UNCHANGED <<hostVars, ptVars, work, active, num, range, barrierN, node, loopVars,
                 loops, pauses>>

\* Faulty variant: only the left child is waited for.
ChildrenDoneLeft(t) == wbegin[t] # wend[t] => done[wbegin[t]]

(* The children of decascade have finished.                                *)
ChildrenDone(t) ==
  wbegin[t] # wend[t] =>
    done[wbegin[t]] /\ (Midpoint(t) < wend[t] => done[Midpoint(t)])

(* decascade, and the end of mainThread.                                   *)
Decascade(t) ==
  /\ pc[t] = "join" /\ ChildrenDone(t)
  /\ done' = [done EXCEPT ![t] = TRUE]
  /\ work' = IF t = 0 THEN "none" ELSE work
  /\ Goto(t, CASE t # 0 -> "sleep"
               [] t = 0 /\ work = "range" -> "next"
               [] OTHER -> "over")
  /\ UNCHANGED <<hostVars, ptVars, wbegin, wend, active, num, range, barrierN, node,
                 loopVars, loops, pauses>>

(* The loop has returned: the executor goes, then the range.               *)
EndLoop ==
  /\ pc[0] = "over"
  /\ Destruct(CHOOSE s \in storages : \A u \in storages : u.offset <= s.offset)
  /\ Goto(0, IF Cardinality(storages) = 1 THEN "idle" ELSE "over")
  /\ UNCHANGED <<hostVars, regionVars, poolVars, active, num, range, barrierN,
                 node, loopVars, loops, pauses>>

(* A PerThreadStorage of the main thread, or none where none fits ...      *)
ConstructStorage ==
  /\ pc[0] = "idle" /\ loops = 0 /\ Cardinality(storages) < MaxStorages
  /\ \E sz \in Sizes :
       \/ Construct(sz) /\ UNCHANGED pc
       \/ OutOfMemory(NextLog2(sz)) /\ Goto(0, "exit") /\ UNCHANGED allocVars
  /\ UNCHANGED <<hostVars, regionVars, poolVars, active, num, range, barrierN,
                 node, loopVars, loops, pauses>>

(* ... and its end.                                                        *)
DestructStorage ==
  /\ pc[0] = "idle"
  /\ \E s \in storages : Destruct(s)
  /\ UNCHANGED <<hostVars, regionVars, pc, poolVars, active, num, range,
                 barrierN, node, loopVars, loops, pauses>>

(* poolPause: destroyCommon throws in every thread ...                     *)
PoolPause ==
  /\ pc[0] = "idle" /\ pauses < MaxPauses
  /\ pauses' = pauses + 1
  /\ Run("shutdown", MaxThreads)
  /\ UNCHANGED <<hostVars, ptVars, done, active, num, range, barrierN, node, loopVars, loops>>

Shutdown(t) ==
  /\ pc[t] = "job" /\ work = "shutdown"
  /\ Goto(t, IF t = 0 THEN "collect" ELSE "gone")
  /\ UNCHANGED <<hostVars, ptVars, poolVars, active, num, range, barrierN, node,
                 loopVars, loops, pauses>>

(* ... which are joined; poolContiue starts new ones.                      *)
PoolContinue ==
  /\ pc[0] = "collect" /\ \A t \in Thread \ {0} : pc[t] = "gone"
  /\ pc' = [t \in Thread |-> IF t = 0 THEN "await" ELSE "start"]
  /\ done' = [t \in Thread |-> t = 0]
  /\ UNCHANGED <<hostVars, ptVars, wbegin, wend, work, active, num, range, barrierN,
                 node, loopVars, loops, pauses>>

-----------------------------------------------------------------------------
(* RangeIterator: the part of a thread.                                    *)
SetRange(t) ==
  LET len == num \div active + 1
      end == IF num < len * (t + 1) THEN num ELSE len * (t + 1) IN
  /\ pc[t] = "job" /\ work = "range"
  /\ range' = [range EXCEPT ![t] = [beg |-> len * t, end |-> end]]
  /\ Goto(t, "join")
  /\ UNCHANGED <<hostVars, ptVars, poolVars, active, num, barrierN, node, loopVars,
                 loops, pauses>>

(* initThread of the executor, with local_begin and local_end.             *)
LoopInit(t) ==
  LET upTo(x) == IF x < num THEN x ELSE num IN
  /\ pc[t] = "job" /\ work = "loop"
  /\ ctx' = [ctx EXCEPT ![t] =
               [id |-> t, beg |-> upTo(range[t].beg), end |-> upTo(range[t].end)]]
  /\ Goto(t, "arrive")
  /\ UNCHANGED <<hostVars, ptVars, poolVars, active, num, range, barrierN, node, mine,
                 scan, cnt, loops, pauses>>

(* wait of the barrier: the children have come, so has this thread.        *)
BarrierArrive(t) ==
  /\ pc[t] = "arrive" /\ node[t].notready = {}
  /\ node' = [u \in Thread |->
       [node[u] EXCEPT !.notready =
          IF u = t THEN Children(t, barrierN) ELSE @ \ {t}]]
  /\ Goto(t, IF t = 0 THEN "signal" ELSE "sense")
  /\ UNCHANGED <<hostVars, ptVars, poolVars, active, num, range, barrierN, loopVars,
                 loops, pauses>>

\* Faulty variant: a thread that has no children does not wait.
BarrierSenseLeaf(t) ==
  /\ pc[t] = "sense"
  /\ node[t].parentsense = node[t].sense \/ Children(t, barrierN) = {}
  /\ Goto(t, "signal")
  /\ UNCHANGED <<hostVars, ptVars, poolVars, active, num, range, barrierN, node,
                 loopVars, loops, pauses>>

(* It is woken by its parent ...                                           *)
BarrierSense(t) ==
  /\ pc[t] = "sense" /\ node[t].parentsense = node[t].sense
  /\ Goto(t, "signal")
  /\ UNCHANGED <<hostVars, ptVars, poolVars, active, num, range, barrierN, node,
                 loopVars, loops, pauses>>

(* ... and wakes the threads below it, one after the other.                *)
BarrierSignal(t) ==
  LET wake(k) == [u \in Thread |->
        IF u \in Wakes(t, k, barrierN)
          THEN [node[u] EXCEPT !.parentsense = node[t].sense] ELSE node[u]] IN
  /\ \/ pc[t] = "signal" /\ node' = wake(1) /\ Goto(t, "signal2")
     \/ /\ pc[t] = "signal2"
        /\ node' = [wake(2) EXCEPT ![t].sense = ~@]
        /\ Goto(t, "work")
  /\ UNCHANGED <<hostVars, ptVars, poolVars, active, num, range, barrierN, loopVars,
                 loops, pauses>>

-----------------------------------------------------------------------------
Size(c) == c.end - c.beg

(* getWork: the next chunk, or none.                                       *)
GetWork(t) ==
  LET c == ctx[t]
      to == IF Size(c) <= ChunkSize THEN c.end ELSE c.beg + ChunkSize IN
  /\ pc[t] = "work"
  /\ IF Size(c) > 0
       THEN /\ mine' = [mine EXCEPT ![t] = [beg |-> c.beg, end |-> to]]
            /\ ctx' = [ctx EXCEPT ![t].beg = to]
            /\ Goto(t, "exec") /\ UNCHANGED scan
       ELSE /\ scan' = [scan EXCEPT ![t] = NoScan]
            /\ Goto(t, "steal") /\ UNCHANGED <<mine, ctx>>
  /\ UNCHANGED <<hostVars, ptVars, poolVars, active, num, range, barrierN, node, cnt,
                 loops, pauses>>

(* func of the next item.                                                  *)
Execute(t) ==
  /\ pc[t] = "exec"
  /\ cnt' = [cnt EXCEPT ![mine[t].beg] = @ + 1]
  /\ LET last == mine[t].beg + 1 = mine[t].end IN
     /\ mine' = [mine EXCEPT ![t] = IF last THEN Empty
                                    ELSE [beg |-> @.beg + 1, end |-> @.end]]
     /\ Goto(t, IF last THEN "work" ELSE "exec")
  /\ UNCHANGED <<hostVars, ptVars, poolVars, active, num, range, barrierN, node, ctx,
                 scan, loops, pauses>>

(* The threads stealWithinSocket and stealOutsideSocket go through ...     *)
PerPack == MaxThreads \div Cardinality({topo[t].socket : t \in Thread})
Within(t) ==
  LET beg == topo[t].socket * PerPack IN
  [i \in 1 .. beg + PerPack - 1 |-> beg + ((t + i) % PerPack)]
Outside(t) == [i \in 1 .. active |-> (t + i - 1) % active]
Leader(t) == topo[t].socketLeader = t

(* trySteal: within the socket, then outside, a leader twice.              *)
Victims(t) ==
  IF scan[t].phase = 1 THEN Within(t)
  ELSE IF scan[t].phase = 2 /\ ~Leader(t) THEN <<>> ELSE Outside(t)

(* ... and those among them that are looked at, from the next one on.      *)
Ahead(t) ==
  {k \in DOMAIN Victims(t) :
     /\ k >= scan[t].n
     /\ LET u == Victims(t)[k] IN
        IF scan[t].phase = 1 THEN u < active
        ELSE topo[ctx[u].id].socket # topo[t].socket}

(* hasWorkWeak of the next victim, without its lock; at the end of a       *)
(* list back to the own work, on to the next list, or stb_func and out.    *)
Look(t) ==
  LET s == scan[t]
      next == CHOOSE k \in Ahead(t) : \A l \in Ahead(t) : k <= l IN
  /\ pc[t] = "steal"
  /\ IF Ahead(t) # {}
       THEN LET rich == Size(ctx[Victims(t)[next]]) > 0 IN
            /\ scan' = [scan EXCEPT ![t] = [phase |-> s.phase, saw |-> s.saw \/ rich,
                                           n |-> IF rich THEN next ELSE next + 1]]
            /\ Goto(t, IF rich THEN "take" ELSE "steal")
       ELSE /\ scan' = [scan EXCEPT ![t] =
                          IF s.saw \/ s.phase = 3 THEN NoScan
                          ELSE [NoScan EXCEPT !.phase = s.phase + 1]]
            /\ Goto(t, CASE s.saw -> "work"
                         [] ~s.saw /\ s.phase = 3 -> "join"
                         [] OTHER -> "steal")
  /\ UNCHANGED <<hostVars, ptVars, poolVars, active, num, range, barrierN, node, ctx,
                 mine, cnt, loops, pauses>>

\* Faulty variant: the victim keeps the last of what is stolen.
AfterStealKeep(c, size) ==
  IF Size(c) <= size THEN [c EXCEPT !.beg = c.end] ELSE [c EXCEPT !.beg = @ + size - 1]

(* stealWork: all of it, or steal_from_beg.                                *)
AfterSteal(c, size) ==
  IF Size(c) <= size THEN [c EXCEPT !.beg = c.end] ELSE [c EXCEPT !.beg = @ + size]

(* transferWork: try_lock fails, the work is gone, or it is taken.         *)
StealWork(t) ==
  LET v == Victims(t)[scan[t].n]
      c == ctx[v]
      size == IF Size(c) > ChunkSize THEN Size(c) \div 2 ELSE Size(c) IN
  /\ pc[t] = "take"
  /\ \/ /\ Size(c) > 0
        /\ mine' = [mine EXCEPT ![t] = [beg |-> c.beg, end |-> c.beg + size]]
        /\ ctx' = [ctx EXCEPT ![v] = AfterSteal(c, size)]
        /\ Goto(t, "assign") /\ UNCHANGED scan
     \/ /\ scan' = [scan EXCEPT ![t].n = @ + 1]
        /\ Goto(t, "steal") /\ UNCHANGED <<mine, ctx>>
  /\ UNCHANGED <<hostVars, ptVars, poolVars, active, num, range, barrierN, node, cnt,
                 loops, pauses>>

(* assignWork.                                                             *)
AssignWork(t) ==
  /\ pc[t] = "assign"
  /\ ctx' = [ctx EXCEPT ![t] = [id |-> @.id, beg |-> mine[t].beg, end |-> mine[t].end]]
  /\ mine' = [mine EXCEPT ![t] = Empty]
  /\ scan' = [scan EXCEPT ![t] = NoScan]
  /\ Goto(t, "work")
  /\ UNCHANGED <<hostVars, ptVars, poolVars, active, num, range, barrierN, node, cnt,
                 loops, pauses>>

-----------------------------------------------------------------------------
Over ==
  \/ pc[0] = "idle" /\ loops = MaxLoops /\ pauses = MaxPauses
  \/ pc[0] = "exit"

PoolStep(t) ==
  InitThread(t) \/ Wait(t) \/ Cascade(t) \/ Decascade(t) \/ Shutdown(t) \/ SetRange(t)

LoopStep(t) ==
  \/ LoopInit(t) \/ BarrierArrive(t) \/ BarrierSense(t) \/ BarrierSignal(t)
  \/ GetWork(t) \/ Execute(t) \/ Look(t) \/ StealWork(t) \/ AssignWork(t)

Next ==
  \/ PoolReady \/ OnEach \/ DoAll \/ EndLoop \/ PoolPause \/ PoolContinue
  \/ ConstructStorage \/ DestructStorage
  \/ \E t \in Thread : PoolStep(t) \/ LoopStep(t)
  \/ Over /\ UNCHANGED vars

Spec == Init /\ [][Next]_vars

-----------------------------------------------------------------------------
(* No item is executed twice, and when the loop has returned every item of *)
(* its range has been executed, whoever has stolen what from whom, on any  *)
(* number of threads.                                                      *)
ItemsOnce ==
  /\ \A x \in DOMAIN cnt : cnt[x] <= 1
  /\ pc[0] = "idle" /\ loops > 0 => \A x \in 0 .. num - 1 : cnt[x] = 1

Working == {"work", "exec", "steal", "take", "assign"}

(* Behind the barrier the contexts of all active threads are those of this *)
(* loop: nobody is looked at, or stolen from, before it has been set up.   *)
BehindBarrier ==
  (\E t \in Thread : pc[t] \in Working) => \A u \in 0 .. active - 1 : ctx[u].id = u

(* When the pool is up, and after every loop and restart, the threads are  *)
(* a right image of the host's CPUs (TopologyOf).                          *)
TopologyRight == pc[0] = "idle" => TopologyOf(topo, host)

(* makeHWTopo gives every CPU its own thread, so that bindThreadSelf never *)
(* puts two threads on one CPU.                                            *)
OneThreadPerCPU == pc[0] = "idle" => \A p \in MayUse(host) : ~Doubled(topo, p)

(* A PerThreadStorage has an object in the region of every thread, as long *)
(* as it lives: also when poolPause and poolContiue have replaced the      *)
(* threads.                                                                *)
ObjectsThere == pc[0] = "idle" => \A s \in storages : s.made = heads

(* A thread that is up has the region its socket shares: before the pool   *)
(* is restarted it is the one of the leader, and it is never missing.      *)
SocketShared ==
  \A t \in Thread : pc[t] \notin {"start", "socket"} =>
    /\ pssBase[t] # NoRegion
    /\ pauses = 0 => pssBase[t] = pssBase[topo[t].socketLeader]

(* While the main thread is outside of run no worker is in a job: all wait *)
(* for the next one, and nobody calls the function that has been reset.    *)
AllBack ==
  pc[0] \in {"idle", "next", "over"} => \A t \in Thread \ {0} : pc[t] = "sleep" /\ done[t]

=============================================================================
