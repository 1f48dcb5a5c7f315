------------------------------- MODULE SubQuery -------------------------------
(***************************************************************************)
(* One query of the distributed graph search (coro_sub_query_v5 and        *)
(* scala_sub_proc_v5 in scala_search.h, with the TaskManager, QueryMsg,    *)
(* SyncMsg and RdmaCommunication routines they call).                      *)
(*                                                                         *)
(* The origin searches the top index, forks a sub-query to every core      *)
(* machine (one that holds more than its share of the candidates found)    *)
(* and the core machines search the graph together.  A core machine        *)
(* expands its own vertices; neighbours on another core machine travel in  *)
(* SYNC messages, neighbours on a non-core machine are read by RDMA or     *)
(* evaluated there.  A token passed along the ring of core machines tells  *)
(* the leader when everyone is idle; the leader then returns the result.   *)
(*                                                                         *)
(* A vertex is a natural number and stands for its own distance from the   *)
(* query.  chan[i][j] are the messages of i to j, in order; messages of    *)
(* different pairs are not ordered.  A priority queue is a function from   *)
(* vertices to multiplicities.  The slots of the channel are the subject   *)
(* of WriteFlow and are left out here.                                     *)
(***************************************************************************)
EXTENDS Integers, Sequences, FiniteSets, SequencesExt

CONSTANTS
  MachineNum,    \* MACHINE_NUM
  Vertex,        \* vertices of the graph
  Owner,         \* get_machine_id of a vertex
  Ngh,           \* neighbours of a vertex
  PreTop,        \* vertices the search of the top index ends with
  Origin,        \* machine that starts the query
  Ef,            \* size of the result pool
  Knn,           \* res_knn
  CandGroup,     \* CAND_GROUP_SIZE
  SyncBar,       \* SYNC_BAR
  InlineDegBar,  \* INLINE_DEG_BAR
  Thieves,       \* other threads of a machine, which steal its local tasks
  Garbage        \* values an uninitialised sync_msg.lower_bound may hold

Machine == 0 .. MachineNum - 1
Bag == [Vertex -> Nat]

ASSUME GraphAssumption ==
  /\ MachineNum \in Nat \ {0} /\ Origin \in Machine
  /\ Vertex \subseteq Nat /\ IsFiniteSet(Vertex)
  /\ Owner \in [Vertex -> Machine]
  /\ Ngh \in [Vertex -> SUBSET Vertex]
  /\ PreTop \subseteq Vertex /\ PreTop # {}
ASSUME SizeAssumption ==
  /\ Ef \in Nat \ {0} /\ Knn \in 1 .. Ef /\ Cardinality(PreTop) <= Ef
  /\ CandGroup \in Nat \ {0} /\ SyncBar \in Nat /\ InlineDegBar \in Nat
  /\ Thieves \in Nat
  /\ Garbage \subseteq Nat /\ Garbage # {}

VARIABLES
  q,      \* [m]: the QueryMsg of the query on machine m
  chan,   \* [i][j]: messages posted by i to j and not yet processed by j
  read,   \* [m]: vertices being read by RDMA from non-core machines
  fault   \* what stopped the program: "none", "abort" or "late"

vars == <<q, chan, read, fault>>

-----------------------------------------------------------------------------
(* Priority queues of (distance, vertex) pairs.                            *)
Nil == [v \in Vertex |-> 0]
Ones(S) == [v \in Vertex |-> IF v \in S THEN 1 ELSE 0]
Plus(b, c) == [v \in Vertex |-> b[v] + c[v]]
Minus(b, c) == [v \in Vertex |-> IF b[v] > c[v] THEN b[v] - c[v] ELSE 0]
Only(b, S) == [v \in Vertex |-> IF v \in S THEN b[v] ELSE 0]
Support(b) == {v \in Vertex : b[v] > 0}
Size(b) == SumFunctionOnSet(b, Vertex)

(* The k nearest entries: what is left after popping the farthest ones.    *)
Best(b, k) ==
  [v \in Vertex |->
     LET room == k - Size(Only(b, {u \in Vertex : u < v}))
     IN IF room <= 0 THEN 0 ELSE Min({room, b[v]})]

LowerBound(top) == IF top = Nil THEN 0 ELSE Max(Support(top))

-----------------------------------------------------------------------------
(* Core machines and leader, from the share of candidates per machine.     *)
Owned(m) == {v \in Vertex : Owner[v] = m}
FilterNum(m) == Cardinality(PreTop \cap Owned(m))

Leader ==
  Min({m \in Machine : \A k \in Machine : FilterNum(k) <= FilterNum(m)})

(* ratio_m > 1.0 / MACHINE_NUM compares a float with a double.  When the   *)
(* share is exactly 1/MACHINE_NUM, the float is larger if and only if the  *)
(* 24 bits of its significand are rounded up: never for a power of two.    *)
RoundsUp ==
  LET exp == CHOOSE e \in 0 .. MachineNum : MachineNum <= 2^e /\ 2^e < 2 * MachineNum
  IN  2 * (2^(23 + exp) % MachineNum) > MachineNum
IsCore(m) ==
  \/ FilterNum(m) * MachineNum > Cardinality(PreTop)
  \/ RoundsUp /\ FilterNum(m) * MachineNum = Cardinality(PreTop)
Core == {m \in Machine : IsCore(m)}

(* Candidates of non-core machines are searched by the leader.             *)
Filtered(m) ==
  IF m = Leader
    THEN {v \in PreTop : Owner[v] = m \/ Owner[v] \notin Core}
    ELSE PreTop \cap Owned(m)

(* core_machine is in increasing order; the token goes to the next one.    *)
NextCore(m) ==
  LET above == {k \in Core : k > m}
  IN IF above = {} THEN Min(Core) ELSE Min(above)

-----------------------------------------------------------------------------
State == {"START", "PRE_STAGE", "POST_STAGE", "PAUSE", "END"}

QueryMsg == [
  state : State, isNew : BOOLEAN,
  coro : {"none", "wait", "loop", "over"},
  queued : Nat,                   \* entries in (next_)subquery_queue
  ret : BOOLEAN, freed : BOOLEAN, \* returned to the caller; deleted by it
  cand : Bag, top : Bag, result : Bag, visited : SUBSET Vertex,
  local : Bag,                    \* expanded vertices in ba_task_queue
  stolen : Seq(SUBSET Vertex),    \* tasks at other threads: what they will find
  micro : SUBSET Vertex,          \* local_micro_task and local_task
  found : Bag,                    \* con_task_queue and local_res
  arrived : SUBSET Vertex,        \* recv_async_read_queue
  core : Nat, nocore : Nat,       \* counts those three carry
  due : Int, nodue : Int,         \* post_cnt - recv_cnt, nocore_post - nocore_recv
  token : BOOLEAN, tokenBlack : BOOLEAN, procBlack : BOOLEAN,
  lastWhite : BOOLEAN,
  step : Nat, bound : Nat,        \* sync_step, sync_msg.lower_bound
  add : Bag, ngh : [Machine -> SUBSET Vertex]]

(* A query in transit: forked to a core machine or sent home.              *)
QueryMessage ==
  [type : {"QUERY"}, state : State, cand : Bag, top : Bag, result : Bag]

(* New candidates and neighbours, from one core machine to another.        *)
SyncMessage ==
  [type : {"SYNC"}, token : BOOLEAN, black : BOOLEAN, add : Bag,
   ngh : SUBSET Vertex]

(* Neighbours on a core machine that a non-core machine came across.       *)
NodeSyncMessage == [type : {"NODE_SYNC"}, ngh : SUBSET Vertex]

(* Requests to a machine, in the name of for: vertices to expand (NodeTask *)
(* of the code) and vertices whose neighbours there are to be evaluated.   *)
TaskMessage ==
  [type : {"TASK"}, for : Machine, nodes : Bag, lists : Bag, bound : Nat,
   fill : BOOLEAN, core : {0, 1}]

(* Answers to the second and to the first kind of request.                 *)
ResultMessage ==
  [type : {"RESULT"}, found : SUBSET Vertex, core : Nat, nocore : Nat]
NodeResultMessage ==
  [type : {"NODE_RESULT"}, found : SUBSET Vertex, core : Nat \ {0}, post : Nat]

Message == QueryMessage \cup SyncMessage \cup NodeSyncMessage
           \cup TaskMessage \cup ResultMessage \cup NodeResultMessage

TypeOK ==
  /\ q \in [Machine -> QueryMsg]
  /\ chan \in [Machine -> [Machine -> Seq(Message)]]
  /\ read \in [Machine -> Bag]
  /\ fault \in {"none", "abort", "late"}

NewQuery(garbage) == [
  state |-> "START", isNew |-> TRUE, coro |-> "none", queued |-> 0,
  ret |-> FALSE, freed |-> FALSE,
  cand |-> Nil, top |-> Nil, result |-> Nil, visited |-> {}, local |-> Nil,
  stolen |-> <<>>, micro |-> {}, found |-> Nil, arrived |-> {}, core |-> 0, nocore |-> 0,
  due |-> 0, nodue |-> 0,
  token |-> FALSE, tokenBlack |-> FALSE, procBlack |-> TRUE, lastWhite |-> TRUE,
  step |-> 0, bound |-> garbage, add |-> Nil, ngh |-> [m \in Machine |-> {}]]

Init ==
  /\ \E g \in [Machine -> Garbage] : q = [m \in Machine |-> NewQuery(g[m])]
  /\ chan = [i \in Machine |-> [j \in Machine |-> <<>>]]
  /\ read = [m \in Machine |-> Nil]
  /\ fault = "none"

-----------------------------------------------------------------------------
Nothing == [m \in Machine |-> <<>>]
And(out1, out2) == [m \in Machine |-> out1[m] \o out2[m]]

(* The channels ch after m has posted out; the channels without the first  *)
(* message of j to m, which m has processed.                               *)
Posted(ch, m, out) == [ch EXCEPT ![m] = And(@, out)]
Popped(m, j) == [chan EXCEPT ![j][m] = Tail(@)]

(* Mutant: the candidates are cleared before the SYNC is written.          *)
SyncsCleared(m, s, prop, taint) ==
  [p \in Machine |->
     IF p \in Core \ {m}
       THEN <<[type |-> "SYNC", token |-> prop /\ p = NextCore(m),
               black |-> taint, add |-> Nil, ngh |-> s.ngh[p]]>>
       ELSE <<>>]

(* post_subquery_sync: a SYNC to every other core machine, with the token  *)
(* for the next one if prop.  Candidates beyond sync_msg.lower_bound are   *)
(* left out.                                                               *)
Syncs(m, s, prop, taint) ==
  [p \in Machine |->
     IF p \in Core \ {m}
       THEN <<[type |-> "SYNC", token |-> prop /\ p = NextCore(m),
               black |-> taint,
               add |-> Only(s.add, {v \in Vertex : v <= s.bound}),
               ngh |-> s.ngh[p]]>>
       ELSE <<>>]

SyncCleared(s) ==
  [s EXCEPT !.add = Nil, !.ngh = [m \in Machine |-> {}], !.step = 0]

-----------------------------------------------------------------------------
(* The candidates the coroutine expands next.                              *)
Group(s) ==
  Best(Only(s.cand, {v \in Vertex : v <= LowerBound(s.top)}), CandGroup)

(* Mutant: recv_cnt is not compared with post_cnt.                         *)
AllRecvedNoCore(s) == s.nodue = 0

AllRecved(s) == s.due = 0 /\ s.nodue = 0

Idle(s) == Group(s) = Nil /\ AllRecved(s)

NghOn(n, p) == Ngh[n] \cap Owned(p)

(* Neighbours of n on non-core machines with few of them: read one by one. *)
Inline(n) ==
  {v \in Ngh[n] :
     Owner[v] \notin Core /\ Cardinality(NghOn(n, Owner[v])) <= InlineDegBar}

(* Vertices of g whose neighbours on the non-core p are evaluated there.   *)
Lists(g, p) ==
  IF p \in Core THEN Nil
  ELSE Only(g, {n \in Vertex : Cardinality(NghOn(n, p)) > InlineDegBar})

(* The vertices of g that belong to another machine.                       *)
Far(m, g, p) == IF p = m THEN Nil ELSE Only(g, Owned(p))

(* serialize_task: the requests queued for a machine, if there are any.    *)
TaskTo(caller, nodes, lists, bound, fill, core) ==
  IF nodes = Nil /\ lists = Nil THEN <<>>
  ELSE <<[type |-> "TASK", for |-> caller, nodes |-> nodes, lists |-> lists,
          bound |-> bound, fill |-> fill, core |-> core]>>

(* The requests of one round, one message per machine.                     *)
Tasks(m, s, g) ==
  [p \in Machine |->
     IF p = m THEN <<>>
     ELSE TaskTo(m, Far(m, g, p), Lists(Only(g, Owned(m)), p),
                 LowerBound(s.top), Size(s.top) < Ef, 1)]

(* One round of the search: a vertex of another machine is sent there, a   *)
(* vertex of this machine is split by the machine of its neighbours.       *)
ExpandGroup(m, s, ch, g) ==
  LET own   == Only(g, Owned(m))
      local == Only(own, {n \in Vertex : NghOn(n, m) # {}})
      reads == [v \in Vertex |->
                  Size(Only(own, {n \in Vertex : v \in Inline(n)}))]
      posted == Size(local) + Size(reads) +
                SumFunction([p \in Machine \ {m} |->
                               Size(Far(m, g, p)) + Size(Lists(own, p))])
      full  == s.step + 1 >= SyncBar
      t     == [s EXCEPT
                  !.cand = Minus(@, g), !.local = Plus(@, local),
                  !.due = @ + posted, !.step = @ + 1,
                  !.queued = @ + (IF s.state = "POST_STAGE" THEN 1 ELSE 0),
                  !.bound = IF full THEN LowerBound(s.top) ELSE @,
                  !.ngh = [p \in Machine |->
                     IF p \in Core \ {m}
                       THEN @[p] \cup UNION {NghOn(n, p) : n \in Support(own)}
                       ELSE {}]]
  IN /\ q' = [q EXCEPT ![m] = IF full THEN SyncCleared(t) ELSE t]
     /\ read' = [read EXCEPT ![m] = Plus(@, reads)]
     /\ chan' = Posted(ch, m, And(Tasks(m, s, g),
                    IF full THEN Syncs(m, t, FALSE, FALSE) ELSE Nothing))
     /\ UNCHANGED fault

Expand(m, s, ch) ==
  \E g \in {Group(s)} \ {Nil} : ExpandGroup(m, s, ch, g)

(* Nothing to expand, answers are missing: look again in the next round.   *)
Requeue(m, s, ch) ==
  /\ Group(s) = Nil /\ ~AllRecved(s)
  /\ q' = [q EXCEPT ![m] = [s EXCEPT !.queued = @ + 1]]
  /\ chan' = ch
  /\ UNCHANGED <<read, fault>>

(* The query has ended on this machine: the coroutine only yields.         *)
Yield(m, s, ch) ==
  /\ Idle(s) /\ s.state # "POST_STAGE"
  /\ q' = [q EXCEPT ![m] = s]
  /\ chan' = ch
  /\ UNCHANGED <<read, fault>>

(* Mutant: only the token is asked, not proc_is_black.                     *)
FailedTokenOnly(s) == s.tokenBlack

Failed(s) == s.tokenBlack \/ s.procBlack

SecondSuccess(m, s) == m = Leader /\ s.lastWhite /\ ~Failed(s)

(* Mutant: has_token is not reset.                                         *)
PauseKeepsToken(m, s, ch) ==
  /\ Idle(s) /\ s.state = "POST_STAGE" /\ Cardinality(Core) > 1
  /\ ~(s.token /\ SecondSuccess(m, s))
  /\ q' = [q EXCEPT ![m] = [s EXCEPT !.state = "PAUSE"]]
  /\ chan' = IF s.token
               THEN Posted(ch, m, Syncs(m, s, TRUE, m # Leader /\ Failed(s)))
               ELSE ch
  /\ UNCHANGED <<read, fault>>

(* Locally idle: hand on the token, if it is here, and pause.              *)
Pause(m, s, ch) ==
  /\ Idle(s) /\ s.state = "POST_STAGE" /\ Cardinality(Core) > 1
  /\ ~(s.token /\ SecondSuccess(m, s))
  /\ IF s.token
       THEN /\ q' = [q EXCEPT ![m] = SyncCleared(
                       [s EXCEPT !.state = "PAUSE", !.token = FALSE,
                                 !.tokenBlack = FALSE, !.procBlack = FALSE,
                                 !.lastWhite = IF m = Leader THEN ~Failed(s)
                                                             ELSE @])]
            /\ chan' = Posted(ch, m, Syncs(m, s, TRUE, m # Leader /\ Failed(s)))
       ELSE /\ q' = [q EXCEPT ![m] = [s EXCEPT !.state = "PAUSE"]]
            /\ chan' = ch
  /\ UNCHANGED <<read, fault>>

(* migrate_query: the query goes home to its origin.  serialize2 pops the  *)
(* queues it sends, and keeps back the candidates that are not below the   *)
(* lower bound.                                                            *)
Migrate(cand, best) ==
  [Nothing EXCEPT ![Origin] = <<[type |-> "QUERY", state |-> "END",
                                 cand |-> cand, top |-> Nil, result |-> best]>>]

(* Global termination: the result leaves for the origin.                   *)
Conclude(m, s, ch) ==
  LET best == Best(s.top, Knn)
      near == Only(s.cand, {v \in Vertex : v < LowerBound(s.top)})
      Kept(b) == IF m = Origin THEN b ELSE Nil
  IN /\ Idle(s) /\ s.state = "POST_STAGE"
     /\ Cardinality(Core) = 1 \/ (s.token /\ SecondSuccess(m, s))
     /\ q' = [q EXCEPT ![m] = [s EXCEPT !.state = "END", !.coro = "over",
                                        !.cand = Kept(s.cand), !.top = Nil,
                                        !.result = Kept(best),
                                        !.ret = (m = Origin)]]
     /\ chan' = IF m = Origin THEN ch ELSE Posted(ch, m, Migrate(near, best))
     /\ UNCHANGED <<read, fault>>

(* The coroutine runs until it yields.                                     *)
Loop(m, s, ch) ==
  \/ Expand(m, s, ch)
  \/ Requeue(m, s, ch)
  \/ Yield(m, s, ch)
  \/ Pause(m, s, ch)
  \/ Conclude(m, s, ch)

PostStage(m, s, ch) ==
  \E t \in {[s EXCEPT !.state = "POST_STAGE", !.coro = "loop",
                       !.due = 0, !.nodue = 0]} : Loop(m, t, ch)

-----------------------------------------------------------------------------
(* fork_query: the query for machine p, with its share of the candidates.  *)
ForkQuery(p, top) ==
  <<[type |-> "QUERY", state |-> "PRE_STAGE",
     cand |-> Ones(Filtered(p)), top |-> top, result |-> Nil]>>

(* Mutant: the loop over the core machines stops one early.                *)
ForksButLast(m, top) ==
  [p \in Machine |-> IF p \in Core \ {m, Max(Core)} THEN ForkQuery(p, top) ELSE <<>>]

(* Every other core machine gets the query.                                *)
Forks(m, top) ==
  [p \in Machine |-> IF p \in Core \ {m} THEN ForkQuery(p, top) ELSE <<>>]

(* scala_search_sub at the origin: top index search, choice of the core    *)
(* machines, fork.                                                         *)
Start ==
  LET m == Origin
      s == [q[m] EXCEPT !.isNew = FALSE, !.state = "PRE_STAGE",
                        !.top = Ones(PreTop), !.visited = {}]
  IN /\ q[m].isNew
     /\ \/ /\ m \in Core
           /\ PostStage(m, [s EXCEPT !.cand = Ones(Filtered(m)),
                                     !.token = (m = Leader)],
                        Posted(chan, m, Forks(m, s.top)))
        \/ /\ m \notin Core
           /\ q' = [q EXCEPT ![m] = [s EXCEPT !.coro = "wait"]]
           /\ chan' = Posted(chan, m, Forks(m, s.top))
           /\ UNCHANGED <<read, fault>>

(* post_proc_candidate for a number of entries.  The pool they leave does  *)
(* not depend on their order.  An entry that enters the pool also becomes  *)
(* a candidate; one that another entry throws out again does so only if    *)
(* it came first.                                                          *)
Pool(top, items) == Best(Plus(top, items), Ef)
Accepted(top, items) == Minus(Pool(top, items), top)
Passing(top, items) ==
  {v \in Support(Minus(items, Accepted(top, items))) :
     Size(top) < Ef \/ v < LowerBound(top)}

(* What the coroutine takes in when it resumes: the neighbours sent here,  *)
(* the local tasks that no other thread has taken, the vertices read, and  *)
(* what was found elsewhere.                                               *)
Arrivals(m, s) ==
  LET own == s.micro \cup s.arrived \cup
             UNION {NghOn(n, m) : n \in Support(s.local)}
  IN Plus(Ones(own \ s.visited), s.found)

TakeIn(m, s, passing) ==
  LET items == Arrivals(m, s)
      new   == Plus(Accepted(s.top, items), Ones(passing))
  IN [s EXCEPT !.queued = @ - 1,
               !.visited = @ \cup s.micro \cup s.arrived \cup
                           UNION {NghOn(n, m) : n \in Support(s.local)},
               !.micro = {}, !.arrived = {}, !.found = Nil, !.local = Nil,
               !.core = 0, !.nocore = 0,
               !.due = @ - s.core - Size(s.local), !.nodue = @ - s.nocore,
               !.top = Pool(@, items),
               !.cand = Plus(@, new), !.add = Plus(@, new),
               !.procBlack = @ \/ new # Nil]

(* Mutant: a coroutine runs whether or not it is in the queue.             *)
ResumeUnqueued(m) ==
  LET s == q[m] IN
  /\ fault = "none" /\ s.coro = "loop" /\ ~s.freed
  /\ \E passing \in SUBSET Passing(s.top, Arrivals(m, s)) :
       \E t \in {TakeIn(m, s, passing)} : Loop(m, t, chan)

(* The thread of the query resumes its coroutine.                          *)
Resume(m) ==
  LET s == q[m] IN
  /\ fault = "none" /\ s.queued > 0 /\ s.coro = "loop" /\ ~s.freed
  /\ \E passing \in SUBSET Passing(s.top, Arrivals(m, s)) :
       \E t \in {TakeIn(m, s, passing)} : Loop(m, t, chan)

(* pop of the BalanceQueue by another thread: a task is in one queue and   *)
(* leaves it under the lock of that queue.                                 *)
PopTask(s, n) == [s EXCEPT !.local = Minus(@, Ones({n}))]

(* do_task on another thread: visit_hash is read and written without a     *)
(* lock, so what the thief finds is decided before its marks are seen.     *)
Steal(m, n) ==
  LET s == q[m] IN
  /\ fault = "none" /\ s.local[n] > 0 /\ Len(s.stolen) < Thieves
  /\ q' = [q EXCEPT ![m] = [PopTask(s, n) EXCEPT
              !.stolen = Append(@, NghOn(n, m) \ s.visited)]]
  /\ fault' = IF s.freed THEN "late" ELSE "none"
  /\ UNCHANGED <<chan, read>>

(* Mutant: the chunk of a thief is not counted.                            *)
StolenUncounted(m, k) ==
  LET s == q[m] IN
  /\ fault = "none" /\ k \in DOMAIN s.stolen
  /\ q' = [q EXCEPT ![m] = [s EXCEPT
              !.stolen = RemoveAt(@, k), !.visited = @ \cup s.stolen[k],
              !.found = Plus(@, Ones(s.stolen[k]))]]
  /\ fault' = IF s.freed THEN "late" ELSE "none"
  /\ UNCHANGED <<chan, read>>

StolenDone(m, k) ==
  LET s == q[m] IN
  /\ fault = "none" /\ k \in DOMAIN s.stolen
  /\ q' = [q EXCEPT ![m] = [s EXCEPT
              !.stolen = RemoveAt(@, k), !.core = @ + 1,
              !.visited = @ \cup s.stolen[k],
              !.found = Plus(@, Ones(s.stolen[k]))]]
  /\ fault' = IF s.freed THEN "late" ELSE "none"
  /\ UNCHANGED <<chan, read>>

(* Mutant: the state stays PAUSE.                                          *)
WokenPaused(s) ==
  IF s.state = "PAUSE" THEN [s EXCEPT !.queued = @ + 1] ELSE s

Woken(s) ==
  IF s.state = "PAUSE" THEN [s EXCEPT !.state = "POST_STAGE", !.queued = @ + 1]
                       ELSE s

(* An RDMA read completes; the vertex reaches the sub-query.               *)
ReadDone(m, v) ==
  /\ fault = "none" /\ read[m][v] > 0
  /\ read' = [read EXCEPT ![m] = Minus(@, Ones({v}))]
  /\ q' = [q EXCEPT ![m] = Woken([q[m] EXCEPT !.arrived = @ \cup {v},
                                              !.core = @ + 1])]
  /\ fault' = IF q[m].freed THEN "late" ELSE "none"
  /\ UNCHANGED chan

-----------------------------------------------------------------------------
(* Handlers of the messages of j to m.                                     *)

(* deserialize_and_merge: the pool, the candidates and the result are      *)
(* replaced by those of the message.                                       *)
Deserialized(s, msg) ==
  [s EXCEPT !.state = msg.state, !.cand = msg.cand, !.top = msg.top,
            !.result = msg.result, !.visited = @ \cup Support(msg.cand)]

(* The start of a forked sub-query or the end of the query at its origin.  *)
RecvQuery(m, j, msg) ==
  LET s == Deserialized(q[m], msg)
  IN /\ msg.type = "QUERY"
     /\ \/ /\ s.isNew
           /\ PostStage(m, [s EXCEPT !.isNew = FALSE,
                                     !.token = @ \/ m = Leader],
                        Popped(m, j))
        \/ /\ ~s.isNew
           /\ q' = [q EXCEPT ![m] = [s EXCEPT !.ret = TRUE]]
           /\ chan' = Popped(m, j)
           /\ UNCHANGED <<read, fault>>

(* update_sub_query: candidates of another machine enter the pool while it *)
(* has room or if they are below a bound that is not adjusted in between;  *)
(* which of the farther ones find room depends on their order.             *)
Merges(top, add) ==
  LET near == Only(add, {v \in Vertex : v < LowerBound(top)})
      far  == Minus(add, near)
      room == Ef - Size(top)
      Fits(T) == /\ Size(Only(far, T)) <= room
                 /\ \A v \in Support(far) \ T :
                      Size(near) + Size(Only(far, T)) + far[v] > room
  IN {Best(Plus(top, Plus(near, Only(far, T))), Ef) :
        T \in {T \in SUBSET Support(far) : Fits(T)}}

RecvSync(m, j, msg) ==
  LET s == q[m] IN
  /\ msg.type = "SYNC"
  /\ \E top \in Merges(s.top, msg.add) :
       q' = [q EXCEPT ![m] = Woken([s EXCEPT
               !.token = @ \/ msg.token,
               !.tokenBlack = IF msg.token THEN msg.black ELSE @,
               !.top = top, !.micro = @ \cup msg.ngh])]
  /\ chan' = Popped(m, j)
  /\ UNCHANGED <<read, fault>>

RecvNodeSync(m, j, msg) ==
  /\ msg.type = "NODE_SYNC"
  /\ q' = [q EXCEPT ![m] = Woken([q[m] EXCEPT !.micro = @ \cup msg.ngh])]
  /\ chan' = Popped(m, j)
  /\ UNCHANGED <<read, fault>>

(* node_queue: whole vertices are expanded for the core machine msg.for.   *)
(* Their neighbours here are the answer, those on core machines are sent   *)
(* to them, those on other non-core machines are requested there.          *)
Further(m, msg, p) ==
  IF p \in Core \cup {m} THEN Nil
  ELSE Only(msg.nodes, {n \in Vertex : NghOn(n, p) # {}})

InNode(m, msg) == UNION {NghOn(n, m) : n \in Support(msg.nodes)}

(* serialize_node_result, serialize_node_sync and what is read from them.  *)
NodeResultTo(found, core, post) ==
  IF core = 0 THEN <<>>
  ELSE <<[type |-> "NODE_RESULT", found |-> found, core |-> core, post |-> post]>>
NodeSyncTo(ngh) == IF ngh = {} THEN <<>> ELSE <<[type |-> "NODE_SYNC", ngh |-> ngh]>>

(* post_remote_res_task_sync: results, then neighbours, then requests.     *)
ResTaskSync(results, syncs, tasks) == And(results, And(syncs, tasks))

NodeAnswers(m, msg) ==
  LET sync(p) == IF p \in Core
                   THEN UNION {NghOn(n, p) : n \in Support(msg.nodes)} ELSE {}
      post == SumFunction([k \in Machine |-> Size(Further(m, msg, k))])
  IN ResTaskSync(
       [Nothing EXCEPT ![msg.for] =
          NodeResultTo(InNode(m, msg) \ q[m].visited, Size(msg.nodes), post)],
       [p \in Machine |-> NodeSyncTo(sync(p))],
       [p \in Machine |-> TaskTo(msg.for, Nil, Further(m, msg, p), 0, FALSE, 0)])

(* task_queue: the neighbours here of given vertices are evaluated.  The   *)
(* filter by the bound is applied while the pool of the caller has room.   *)
InList(m, msg) ==
  UNION {NghOn(n, m) : n \in Support(msg.lists)} \ InNode(m, msg)

(* serialize_result, and post_remote_result to the machine that asked.     *)
ResultTo(found, core, nocore) ==
  IF core + nocore = 0 THEN <<>>
  ELSE <<[type |-> "RESULT", found |-> found, core |-> core, nocore |-> nocore]>>
PostRemoteResult(caller, result) == [Nothing EXCEPT ![caller] = result]

ListAnswers(m, msg) ==
  LET count == Size(msg.lists)
      kept  == {v \in InList(m, msg) \ q[m].visited :
                  ~msg.fill \/ v < msg.bound}
  IN PostRemoteResult(msg.for,
       ResultTo(kept, msg.core * count, (1 - msg.core) * count))

RecvTask(m, j, msg) ==
  /\ msg.type = "TASK"
  /\ q' = [q EXCEPT ![m].visited = @ \cup InNode(m, msg) \cup InList(m, msg)]
  /\ chan' = Posted(Popped(m, j), m,
                   And(NodeAnswers(m, msg), ListAnswers(m, msg)))
  /\ UNCHANGED <<read, fault>>

(* An answer to a query that has ended on this machine.                    *)
Abort(m, j) ==
  /\ q[m].state = "END"
  /\ fault' = "abort"
  /\ chan' = Popped(m, j)
  /\ UNCHANGED <<q, read>>

(* result_queue.                                                           *)
RecvResult(m, j, msg) ==
  /\ msg.type = "RESULT"
  /\ \/ Abort(m, j)
     \/ /\ q[m].state # "END"
        /\ q' = [q EXCEPT ![m] = Woken([q[m] EXCEPT
                    !.found = Plus(@, Ones(msg.found)),
                    !.core = @ + msg.core, !.nocore = @ + msg.nocore])]
        /\ chan' = Popped(m, j)
        /\ UNCHANGED <<read, fault>>

(* node_res_queue: the answer announces answers of other machines.         *)
RecvNodeResult(m, j, msg) ==
  /\ msg.type = "NODE_RESULT"
  /\ \/ Abort(m, j)
     \/ /\ q[m].state # "END"
        /\ q' = [q EXCEPT ![m] = Woken([q[m] EXCEPT
                    !.found = Plus(@, Ones(msg.found)),
                    !.core = @ + msg.core, !.nodue = @ + msg.post])]
        /\ chan' = Popped(m, j)
        /\ UNCHANGED <<read, fault>>

(* A message for a query that its origin has deleted.                      *)
RecvLate(m, j) ==
  /\ q[m].freed
  /\ fault' = "late"
  /\ chan' = Popped(m, j)
  /\ UNCHANGED <<q, read>>

Recv(m, j) ==
  /\ fault = "none" /\ chan[j][m] # <<>>
  /\ \/ /\ ~q[m].freed
        /\ \E msg \in {Head(chan[j][m])} :
             \/ RecvQuery(m, j, msg)
             \/ RecvSync(m, j, msg)
             \/ RecvNodeSync(m, j, msg)
             \/ RecvTask(m, j, msg)
             \/ RecvResult(m, j, msg)
             \/ RecvNodeResult(m, j, msg)
     \/ RecvLate(m, j)

(* proc_res: the caller takes the result and deletes the query.            *)
ProcRes ==
  /\ fault = "none" /\ q[Origin].ret /\ ~q[Origin].freed
  /\ q' = [q EXCEPT ![Origin].freed = TRUE]
  /\ UNCHANGED <<chan, read, fault>>

-----------------------------------------------------------------------------
Next ==
  \/ Start
  \/ ProcRes
  \/ \E m \in Machine : Resume(m)
  \/ \E m \in Machine, v \in Vertex : Steal(m, v)
  \/ \E m \in Machine, k \in 1 .. Thieves : StolenDone(m, k)
  \/ \E m \in Machine, v \in Vertex : ReadDone(m, v)
  \/ \E m, j \in Machine : Recv(m, j)

Spec == Init /\ [][Next]_vars

(* A step is possible: the enabling condition of Next.                     *)
Busy ==
  \/ q[Origin].isNew
  \/ /\ fault = "none"
     /\ \/ q[Origin].ret /\ ~q[Origin].freed
        \/ \E m \in Machine :
             \/ q[m].queued > 0 /\ q[m].coro = "loop" /\ ~q[m].freed
             \/ q[m].local # Nil /\ Len(q[m].stolen) < Thieves
             \/ q[m].stolen # <<>>
             \/ read[m] # Nil
             \/ \E j \in Machine : chan[j][m] # <<>>

(* Every thread polls and works in an endless loop until the batch ends,   *)
(* so some step is taken as long as one is possible.  No thread is assumed *)
(* to be faster than another.  This is weak fairness of Next.              *)
FairSpec == Spec /\ (<>[]Busy => []<><<TRUE>>_vars)

-----------------------------------------------------------------------------
(* Where work and answers of the search can be.                            *)

Msgs(j, m) == {chan[j][m][k] : k \in DOMAIN chan[j][m]}

(* Sum of F[j][p][k] over the messages k on their way from j to p.         *)
Total(F) ==
  SumFunction([j \in Machine |->
                 SumFunction([p \in Machine |-> SumFunction(F[j][p])])])

Searching(m) == q[m].coro = "loop" /\ q[m].state \in {"POST_STAGE", "PAUSE"}

(* The answers to m that a message to p is, or asks for: those counted by  *)
(* recv_cnt, and those counted by nocore_recv less the ones it announces.  *)
CoreAnswers(m, p, msg) ==
  IF msg.type = "TASK"
    THEN IF msg.for = m THEN Size(msg.nodes) + msg.core * Size(msg.lists) ELSE 0
  ELSE IF p = m /\ msg.type \in {"RESULT", "NODE_RESULT"} THEN msg.core ELSE 0

NoCoreAnswers(m, p, msg) ==
  IF msg.type = "TASK"
    THEN IF msg.for = m THEN (1 - msg.core) * Size(msg.lists) ELSE 0
  ELSE IF p = m /\ msg.type = "RESULT" THEN msg.nocore
  ELSE IF p = m /\ msg.type = "NODE_RESULT" THEN 0 - msg.post ELSE 0

CoreUnderWay(m) ==
  Total([j \in Machine |-> [p \in Machine |->
           [k \in DOMAIN chan[j][p] |-> CoreAnswers(m, p, chan[j][p][k])]]])
NoCoreUnderWay(m) ==
  Total([j \in Machine |-> [p \in Machine |->
           [k \in DOMAIN chan[j][p] |-> NoCoreAnswers(m, p, chan[j][p][k])]]])

(* post_cnt, recv_cnt, nocore_post and nocore_recv agree with the world:   *)
(* every answer a sub-query still expects is on its way, and no other: a   *)
(* local task, a read, a request to a non-core machine or its answer.      *)
(* Answers to requests that one non-core machine made of another may come  *)
(* before the NODE_RESULT that announces them.  Once a message has been    *)
(* applied to a deleted query nothing is said.                             *)
Balanced(m) ==
  LET s == q[m]
  IN  /\ s.due = s.core + Size(s.local) + Len(s.stolen) + Size(read[m])
                  + CoreUnderWay(m)
      /\ s.nodue = s.nocore + NoCoreUnderWay(m)

AnswersDue ==
  fault # "late" => \A m \in Core : Searching(m) => Balanced(m)

(* A sub-query that is not paused has one entry in subquery_queue or       *)
(* next_subquery_queue, a paused or finished one none: however many        *)
(* handlers wake it, its coroutine is never lost, never resumed twice in a *)
(* round and never resumed after its last yield.                           *)
QueuedOnce ==
  \A m \in Machine :
    /\ q[m].state = "POST_STAGE" => q[m].queued = 1
    /\ q[m].state = "PAUSE" \/ q[m].coro = "over" => q[m].queued = 0

IsToken(msg) == msg.type = "SYNC" /\ msg.token
Holders == {m \in Machine : q[m].token}
InFlight ==
  UNION {{<<j, m, k>> : k \in {k \in DOMAIN chan[j][m] : IsToken(chan[j][m][k])}} :
           j \in Machine, m \in Machine}

(* The token of a query is in one place: has_token of one machine, or one  *)
(* SYNC on its way with the token.                                         *)
OneToken ==
  LET tokens == Cardinality(Holders) + Cardinality(InFlight)
  IN /\ tokens <= 1
     /\ Core # {} /\ ~q[Leader].isNew => tokens = 1

(* Vertices sent to m by SYNC or NODE_SYNC that m has not looked at.       *)
Unvisited(m) ==
  (q[m].micro \cup
   UNION {msg.ngh : msg \in {x \in UNION {Msgs(j, m) : j \in Machine} :
                                x.type \in {"SYNC", "NODE_SYNC"}}})
  \ q[m].visited

(* Termination detection ("This was the second success"): when the leader  *)
(* sets global_term, no core machine has a vertex left to visit, to expand *)
(* or to wait for, and none is on its way to one.                          *)
SearchOver ==
  q[Leader].coro = "over" =>
    \A m \in Core : Unvisited(m) = {} /\ Group(q[m]) = Nil /\ AllRecved(q[m])

(* "Sync top_candidate set & lower bound.": whatever candidate a core      *)
(* machine holds when the leader ends the query has reached the leader,    *)
(* and is in the result unless Knn nearer ones are.                        *)
ResultBest ==
  q[Leader].coro = "over" /\ ~q[Leader].freed =>
    \A m \in Core \ {Leader} : \A v \in Support(q[m].top) :
      \/ v \in Support(q[Leader].result)
      \/ Size(q[Leader].result) >= Knn /\ v > Max(Support(q[Leader].result))

(* No answer reaches a query in state END (the program aborts) and no      *)
(* message, read or stolen task reaches one that proc_res has deleted.     *)
NoFault == fault = "none"

(* The caller gets the result of its query: scala_sub_proc_v5 returns it   *)
(* at its origin, which may have to be told by the leader.                 *)
QueryReturned == <>(q[Origin].ret)

=============================================================================
