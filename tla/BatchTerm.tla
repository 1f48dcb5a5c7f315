------------------------------ MODULE BatchTerm ------------------------------
(***************************************************************************)
(* The batches of exec_query for SINGLE_MACHINE, B1, B1_ASYNC and          *)
(* ScalaANN_v3, and how the machines agree that a batch is over: initTerm, *)
(* the loop over the queries, sendTerm, the stand-by loops with            *)
(* check_term, reset_sendrecv.                                             *)
(*                                                                         *)
(* Every thread has its own channel to the same thread of every other      *)
(* machine.  Slots are counted, not named (WriteFlow has their numbers);   *)
(* a batch has fewer messages than RELEASE_BLOCK, so that slots return in  *)
(* CLEAR messages only.  A query of ScalaANN_v3 is what the protocol of    *)
(* SubQuery looks like from here: it needs an answer of every machine in   *)
(* dep.need.                                                               *)
(***************************************************************************)
EXTENDS ReadCache

CONSTANTS
  QueryGroup,  \* QUERY_GROUP_SIZE, open queries of a thread
  MaxWcNum     \* MAX_WC_NUM, completions of one poll

VARIABLES
  batch,       \* [i]: number of the batch
  st,          \* [i][t]: where the thread is
  todo,        \* [i]: queries of the batch not yet taken
  loadCnt,     \* [i]: load_cnt
  rd,          \* [i][t]: the search of B1 and the read buffers
  awaited,     \* [i][t]: <<q, m>>, machine m has not yet answered query q
  inq,         \* [i][t]: received and not yet processed
  term,        \* [i]: machines m with term[m]
  sum,         \* [i]: query_load of rdma_comm, the queries announced
  sent,        \* [i]: the last batch that i has announced
  wire,        \* [i][j][t]: messages from i to j
  out,         \* [i][t][j]: slots towards j that are not free
  owed,        \* [i][t][j]: release_id_list of j
  next         \* [i][t]: m of reset_sendrecv

termVars == <<batch, st, todo, loadCnt, rd, awaited, inq, term, sum, sent,
              wire, out, owed, next>>

Term == [kind |-> "TERMINATION", load |-> dep.load]

Scala == dep.app = "ScalaANN_v3"
Single == dep.app = "SINGLE_MACHINE"
Driven == dep.app \in {"SINGLE_MACHINE", "B1", "B1_ASYNC", "ScalaANN_v3"}

BatchInit ==
  /\ batch = [i \in Machine |-> 1]
  /\ st = [i \in Machine |-> [t \in Thread |-> IF Driven THEN "init" ELSE "off"]]
  /\ todo = [i \in Machine |-> {}]
  /\ loadCnt = [i \in Machine |-> 0]
  /\ rd = [i \in Machine |-> [t \in Thread |-> IdleThread]]
  /\ awaited = [i \in Machine |-> [t \in Thread |-> {}]]
  /\ inq = [i \in Machine |-> [t \in Thread |-> <<>>]]
  /\ term = [i \in Machine |-> {}]
  /\ sum = [i \in Machine |-> 0]
  /\ sent = [i \in Machine |-> 0]
  /\ wire = [i \in Machine |-> [j \in Machine |-> [t \in Thread |-> <<>>]]]
  /\ out = [i \in Machine |-> [t \in Thread |-> [j \in Machine |-> 0]]]
  /\ owed = [i \in Machine |-> [t \in Thread |-> [j \in Machine |-> 0]]]
  /\ next = [i \in Machine |-> [t \in Thread |-> 0]]

Goto(i, t, s) == st' = [st EXCEPT ![i][t] = s]

(* post_write_send of msg from thread t of i to every machine of ms.       *)
Post(i, t, ms, msg) ==
  /\ wire' = [wire EXCEPT ![i] = [j \in Machine |->
                 IF j \in ms THEN [@[j] EXCEPT ![t] = Append(@, msg)] ELSE @[j]]]
  /\ out' = [out EXCEPT ![i][t] = [j \in Machine |->
                 IF j \in ms THEN @[j] + 1 ELSE @[j]]]

-----------------------------------------------------------------------------
(* The start of a batch: load_cnt, initTerm, and for ScalaANN_v3           *)
(* scala_search_init.  What has been received before stays in the queues.  *)
InitTerm(i) ==
  /\ \A t \in Thread : st[i][t] = "init"
  /\ st' = [st EXCEPT ![i] = [t \in Thread |-> "work"]]
  /\ todo' = [todo EXCEPT ![i] = {i * dep.load + n : n \in 0 .. dep.load - 1}]
  /\ loadCnt' = [loadCnt EXCEPT ![i] = 0]
  /\ term' = [term EXCEPT ![i] = {}]
  /\ sum' = [sum EXCEPT ![i] = 0]
  /\ UNCHANGED <<batch, rd, awaited, inq, sent, wire, out, owed, next>>

(* A query of a single machine, and the end of its do_all.                 *)
SearchSingle(i, t) ==
  /\ Single /\ st[i][t] = "work"
  /\ \E q \in todo[i] :
       /\ todo' = [todo EXCEPT ![i] = @ \ {q}]
       /\ rd' = [rd EXCEPT ![i][t].result =
                   LocalSearchKnn(i, Vec(q), EfOf(batch[i]))]
  /\ loadCnt' = [loadCnt EXCEPT ![i] = @ + 1]
  /\ UNCHANGED <<batch, st, awaited, inq, term, sum, sent, wire, out, owed, next>>

EndSingle(i, t) ==
  /\ Single /\ st[i][t] = "work" /\ todo[i] = {}
  /\ Goto(i, t, "join")
  /\ sum' = [sum EXCEPT ![i] = dep.load]
  /\ UNCHANGED <<batch, todo, loadCnt, rd, awaited, inq, term, sent, wire, out,
                 owed, next>>

(* do_all takes a query for B1: remoteSearchKnn or remoteAsyncSearchKnn,   *)
(* which fetch the entry point for its distance, the former twice.         *)
TakeB1(i, t) ==
  LET ep == dep.entry[i]
      once == Access(rd[i][t], i, ep)
      read == IF dep.app = "B1" THEN Access(once, i, ep) ELSE once IN
  /\ ~Scala /\ ~Single /\ st[i][t] = "work" /\ rd[i][t].phase = "idle"
  /\ \E q \in todo[i] :
       /\ todo' = [todo EXCEPT ![i] = @ \ {q}]
       /\ rd' = [rd EXCEPT ![i][t] = BeginSearch(read, ep, Vec(q), EfOf(batch[i]))]
  /\ UNCHANGED <<batch, st, loadCnt, awaited, inq, term, sum, sent, wire, out,
                 owed, next>>

(* A round of the search, or its end.                                      *)
SearchB1(i, t) ==
  LET s == rd[i][t]
      more == Open(s) # {}
      round == IF dep.app = "B1" THEN SyncRound(s, i) ELSE AsyncRound(s, i)
      end == IF dep.app = "B1" THEN SyncEnd(s, i) ELSE AsyncEnd(s) IN
  /\ st[i][t] = "work" /\ s.phase = "run"
  /\ rd' = [rd EXCEPT ![i][t] = IF more THEN round ELSE end]
  /\ loadCnt' = [loadCnt EXCEPT ![i] = IF more THEN @ ELSE @ + 1]
  /\ UNCHANGED <<batch, st, todo, awaited, inq, term, sum, sent, wire, out,
                 owed, next>>

(* The end of do_all: thread 0 goes on when all have come to its end.      *)
JoinB1(i, t) ==
  /\ ~Scala /\ ~Single /\ st[i][t] = "work" /\ todo[i] = {} /\ rd[i][t].phase = "idle"
  /\ t = 0 => \A u \in Thread \ {0} : st[i][u] = "join"
  /\ Goto(i, t, IF t = 0 THEN "term" ELSE "join")
  /\ UNCHANGED <<batch, todo, loadCnt, rd, awaited, inq, term, sum, sent,
                 wire, out, owed, next>>

-----------------------------------------------------------------------------
(* scala_search_sub takes a query once nothing is queued.                  *)
TakeScala(i, t) ==
  LET open == {a[1] : a \in awaited[i][t]} IN
  /\ Scala /\ st[i][t] = "work" /\ inq[i][t] = <<>>
  /\ Cardinality(open) < QueryGroup
  /\ \E q \in todo[i] :
       /\ todo' = [todo EXCEPT ![i] = @ \ {q}]
       /\ awaited' = [awaited EXCEPT ![i][t] = @ \cup {<<q, m>> : m \in dep.need[i]}]
       /\ loadCnt' = [loadCnt EXCEPT ![i] = IF dep.need[i] = {} THEN @ + 1 ELSE @]
       /\ Post(i, t, dep.need[i], [kind |-> "REQ", q |-> q, from |-> i])
  /\ UNCHANGED <<batch, st, rd, inq, term, sum, sent, owed, next>>

(* scala_sub_proc_v5 and proc_res: a request is answered, the last answer  *)
(* finishes a query.                                                       *)
Process(i, t) ==
  /\ st[i][t] \in {"work", "wait", "standby"} /\ inq[i][t] # <<>>
  /\ LET m == Head(inq[i][t])
         left == awaited[i][t] \ {<<m.q, m.from>>}
         over == m.kind = "ANS" /\ ~\E a \in left : a[1] = m.q IN
     /\ awaited' = [awaited EXCEPT ![i][t] = IF m.kind = "ANS" THEN left ELSE @]
     /\ loadCnt' = [loadCnt EXCEPT ![i] = IF over THEN @ + 1 ELSE @]
     /\ Post(i, t, IF m.kind = "REQ" THEN {m.from} ELSE {},
             [kind |-> "ANS", q |-> m.q, from |-> i])
  /\ inq' = [inq EXCEPT ![i][t] = Tail(@)]
  /\ UNCHANGED <<batch, st, todo, rd, term, sum, sent, owed, next>>

\* Faulty variant: a thread goes on when the last query has been taken.
WaitFinishTaken(i, t) ==
  /\ Scala
  /\ \/ st[i][t] = "work" /\ todo[i] = {} /\ Goto(i, t, "wait")
     \/ st[i][t] = "wait" /\ Goto(i, t, IF t = 0 THEN "term" ELSE "standby")
  /\ UNCHANGED <<batch, todo, loadCnt, rd, awaited, inq, term, sum, sent,
                 wire, out, owed, next>>

(* The end of the loop over the queries, and the wait for the last ones.   *)
WaitFinish(i, t) ==
  /\ Scala
  /\ \/ st[i][t] = "work" /\ todo[i] = {} /\ Goto(i, t, "wait")
     \/ /\ st[i][t] = "wait" /\ loadCnt[i] >= dep.load
        /\ Goto(i, t, IF t = 0 THEN "term" ELSE "standby")
  /\ UNCHANGED <<batch, todo, loadCnt, rd, awaited, inq, term, sum, sent,
                 wire, out, owed, next>>

-----------------------------------------------------------------------------
(* sendTerm.                                                               *)
SendTerm(i) ==
  /\ st[i][0] = "term"
  /\ term' = [term EXCEPT ![i] = @ \cup {i}]
  /\ sum' = [sum EXCEPT ![i] = @ + dep.load]
  /\ sent' = [sent EXCEPT ![i] = batch[i]]
  /\ Post(i, 0, Machine \ {i}, Term)
  /\ Goto(i, 0, "standby")
  /\ UNCHANGED <<batch, todo, loadCnt, rd, awaited, inq, owed, next>>

(* The loads that the TERMINATION messages of the sequence ms bring.       *)
TermLoad(ms) ==
  FoldLeft(LAMBDA n, m : IF m.kind = "TERMINATION" THEN n + m.load ELSE n, 0, ms)

(* poll_recv takes some messages of every channel, as many as take says    *)
(* (one by one, where nothing is decided between two polls) ...            *)
Takes(i, t) ==
  {f \in [Machine -> 0 .. MaxWcNum] :
     /\ \A j \in Machine : f[j] <= Len(wire[j][i][t])
     /\ FoldFunction(LAMBDA m, n : m + n, 0, f) <= MaxWcNum}
Zero == [j \in Machine |-> 0]
One(j) == [Zero EXCEPT ![j] = 1]
Got(i, t, take) == [j \in Machine |-> SubSeq(wire[j][i][t], 1, take[j])]
Drained(i, t, take) ==
  [j \in Machine |-> [wire[j] EXCEPT ![i][t] = SubSeq(@, take[j] + 1, Len(@))]]

IsWork(m) == m.kind \in {"REQ", "ANS"}
AllOf(got) == FlattenSeq([n \in 1 .. dep.machines |-> got[n - 1]])

(* ... queues requests and answers, notes a TERMINATION and its counts ... *)
Receive(i, t, got) ==
  /\ inq' = [inq EXCEPT ![i][t] = @ \o SelectSeq(AllOf(got), IsWork)]
  /\ term' = [term EXCEPT ![i] = @ \cup {j \in Machine :
                \E n \in DOMAIN got[j] : got[j][n].kind = "TERMINATION"}]
  /\ sum' = [sum EXCEPT ![i] = @ + TermLoad(AllOf(got))]

(* ... takes the slots of a CLEAR home, and notes those of everything else.*)
Home(ms) == FoldLeft(LAMBDA n, m : IF m.kind = "CLEAR" THEN n + m.num ELSE n, 0, ms)
Due(ms) == Len(SelectSeq(ms, LAMBDA m : m.kind # "CLEAR"))
OutAfter(i, t, got) == [j \in Machine |-> out[i][t][j] - Home(got[j])]
OwedAfter(i, t, got) == [j \in Machine |-> owed[i][t][j] + Due(got[j])]

PollRecv(i, t, take) ==
  LET got == Got(i, t, take) IN
  /\ Receive(i, t, got)
  /\ out' = [out EXCEPT ![i][t] = OutAfter(i, t, got)]
  /\ owed' = [owed EXCEPT ![i][t] = OwedAfter(i, t, got)]
  /\ wire' = Drained(i, t, take)

(* poll_task_result while the queries of the machine run.                  *)
PollWork(i, t) ==
  /\ Scala /\ st[i][t] \in {"work", "wait"}
  /\ \E j \in Machine : wire[j][i][t] # <<>> /\ PollRecv(i, t, One(j))
  /\ UNCHANGED <<batch, st, todo, loadCnt, rd, awaited, sent, next>>

(* check_term of the stand-by loops: poll, then look at term[].            *)
CheckTerm(i, t) ==
  /\ st[i][t] = "standby"
  /\ \/ \E j \in Machine : wire[j][i][t] # <<>> /\ PollRecv(i, t, One(j))
     \/ term[i] = Machine /\ PollRecv(i, t, Zero)
  /\ Goto(i, t, IF term'[i] = Machine THEN "reset" ELSE "standby")
  /\ next' = [next EXCEPT ![i][t] = 0]
  /\ UNCHANGED <<batch, todo, loadCnt, rd, awaited, sent>>

(* One pass of the loop of reset_sendrecv: poll, clear_write_release, and  *)
(* on to the next machine once all slots towards this one are home.        *)
ResetPoll(i, t) ==
  /\ st[i][t] = "reset"
  /\ \E take \in Takes(i, t) :
       LET got == Got(i, t, take)
           due == OwedAfter(i, t, got)
           after == OutAfter(i, t, got)
           m == next[i][t]
           last == after[m] = 0 /\ m = dep.machines - 1 IN
       /\ after[m] = 0 \/ \E j \in Machine : take[j] + owed[i][t][j] > 0
       /\ Receive(i, t, got)
       /\ out' = [out EXCEPT ![i][t] = after]
       /\ owed' = [owed EXCEPT ![i][t] = [j \in Machine |-> 0]]
       /\ wire' = [Drained(i, t, take) EXCEPT ![i] = [j \in Machine |->
                     IF due[j] > 0
                       THEN [@[j] EXCEPT ![t] = Append(@, [kind |-> "CLEAR", num |-> due[j]])]
                       ELSE @[j]]]
       /\ next' = [next EXCEPT ![i][t] =
                     CASE after[m] # 0 -> m [] after[m] = 0 /\ last -> 0 [] OTHER -> m + 1]
       /\ Goto(i, t, IF last THEN "join" ELSE "reset")
  /\ UNCHANGED <<batch, todo, loadCnt, rd, awaited, sent>>

(* All threads are through: the next ef, or the end.                       *)
NextBatch(i) ==
  /\ \A t \in Thread : st[i][t] = "join"
  /\ batch' = [batch EXCEPT ![i] = @ + 1]
  /\ st' = [st EXCEPT ![i] = [t \in Thread |->
              IF batch[i] < BatchNum THEN "init" ELSE "done"]]
  /\ UNCHANGED <<todo, loadCnt, rd, awaited, inq, term, sum, sent, wire, out,
                 owed, next>>

BatchThread(i, t) ==
  \/ SearchSingle(i, t) \/ EndSingle(i, t)
  \/ TakeB1(i, t) \/ SearchB1(i, t) \/ JoinB1(i, t)
  \/ TakeScala(i, t) \/ Process(i, t) \/ WaitFinish(i, t)
  \/ PollWork(i, t) \/ CheckTerm(i, t) \/ ResetPoll(i, t)

BatchNext ==
  \E i \in Machine :
    \/ InitTerm(i) \/ SendTerm(i) \/ NextBatch(i)
    \/ \E t \in Thread : BatchThread(i, t)

-----------------------------------------------------------------------------
(* A TERMINATION that is still on its way.                                 *)
OnWire(j, i) == \E n \in DOMAIN wire[j][i][0] : wire[j][i][0][n].kind = "TERMINATION"

(* No announcement of send_term is lost: as long as j has announced the    *)
(* batch that i is in, check_term of i knows or will be told; a TERMINATION*)
(* of a later batch is not polled before reset_term of this one, which     *)
(* forgets all that have arrived.                                          *)
TermKept ==
  \A i, j \in Machine :
    /\ sent[j] = batch[i] => j \in term[i] \/ (i # j /\ OnWire(j, i))
    /\ sent[j] > batch[i] => OnWire(j, i)

(* Thread 0 has left check_term.                                           *)
Left(i) == st[i][0] \in {"reset", "join"}

(* The queries of batch b of machine j have been answered.                 *)
Finished(j, b) ==
  batch[j] > b \/ (batch[j] = b /\ st[j][0] # "init" /\ loadCnt[j] = dep.load)

(* When a machine leaves the stand-by loop nobody needs it any more: all   *)
(* queries of the batch are finished everywhere, and the counts it prints  *)
(* are those of all machines, of this batch only.                          *)
BatchOver ==
  \A i \in Machine :
    Left(i) => /\ \A j \in Machine : Finished(j, batch[i])
               /\ sum[i] = dep.machines * dep.load

(* The read buffers of all threads (post_read, release_cache), see         *)
(* BufferRight in ReadCache.                                               *)
BuffersRight == \A i \in Machine, t \in Thread : BufferRight(rd[i][t])

(* A buffer is not released as long as a candidate that will be expanded   *)
(* is in it.  searchAsyncRemoteBaseLayerST expands candidates at the       *)
(* distance of the bound too.                                              *)
CandidatesKept ==
  \A i \in Machine, t \in Thread : \A e \in Open(rd[i][t]) : InPlace(rd[i][t], e)

(* The visited table of every query (OptHashPosVector) is the set of the   *)
(* vertices looked at, through its second block and every doubling: no     *)
(* vertex is evaluated twice and none is taken for seen that is not.       *)
VisitedRight ==
  \A i \in Machine, t \in Thread :
    rd[i][t].phase # "idle" => Holds(rd[i][t].hash, rd[i][t].seen)

=============================================================================
