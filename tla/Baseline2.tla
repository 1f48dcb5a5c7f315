------------------------------ MODULE Baseline2 ------------------------------
(***************************************************************************)
(* The shared-nothing baselines of exec_query: B2, where a thread of the   *)
(* leader has one query at a time, and B2KmeansBatch, where it has several.*)
(* The leader sends a query to the same thread of all members, everybody   *)
(* searches its own partition, and the leader merges what comes back.      *)
(*                                                                         *)
(* The members never leave their loop; what they know of a later batch is  *)
(* what the messages say.  In B2 all threads of a member write the ef of   *)
(* the last message to the same ef_ and answer with a query id that nobody *)
(* sets; in B2KmeansBatch ef and the answer belong to a query id.          *)
(***************************************************************************)
EXTENDS ReadCache

CONSTANT
  KmeansBatch   \* B2_KMEANS_BATCH, queries of a leader thread under way

VARIABLES
  round,      \* the batch of the leader
  b2Todo,     \* queries of the batch not yet dispatched
  ongoing,    \* [t]: ongoing_queries of a leader thread
  recvNum,    \* [q]: recv_cnt, b2_recv_num
  result,     \* [q]: result
  merged,     \* queries of the batch that the leader has evaluated
  startWire,  \* [i][t]: B2_START messages to member i
  queue,      \* [i][t]: b2_query_queue of a member
  efOf,       \* [i][q]: ef of a query, ef_ in B2 (the same for all q)
  endWire     \* [i][t]: B2_END messages of member i

b2Vars == <<round, b2Todo, ongoing, recvNum, result, merged, startWire, queue,
            efOf, endWire>>

Member == Machine \ {0}
Query == 0 .. dep.load - 1
Batched == dep.app = "B2KmeansBatch"
Nothing == [q \in Query |-> {}]

B2Init ==
  LET on == dep.app \in {"B2", "B2KmeansBatch"} IN
  /\ round = 1
  /\ b2Todo = IF on THEN Query ELSE {}
  /\ ongoing = [t \in Thread |-> {}]
  /\ recvNum = [q \in Query |-> 0]
  /\ result = Nothing
  /\ merged = {}
  /\ startWire = [i \in Member |-> [t \in Thread |-> <<>>]]
  /\ queue = [i \in Member |-> [t \in Thread |-> <<>>]]
  /\ efOf = [i \in Member |-> [q \in Query |-> EfOf(1)]]
  /\ endWire = [i \in Member |-> [t \in Thread |-> <<>>]]

-----------------------------------------------------------------------------
(* result.push of all, then pop until k are left.                          *)
Merge(q, vs) ==
  LET all == Ordered(Vec(q), {[v |-> v] : v \in vs})
  IN {e.v : e \in ToSet(FirstOf(all, Knn))}

(* post_b2_start to all members, and post_b2_end of member i.              *)
PostB2Start(t, q, ef) ==
  startWire' = [i \in Member |-> [startWire[i] EXCEPT ![t] = Append(@, [q |-> q, ef |-> ef])]]
PostB2End(i, t, q, res) ==
  endWire' = [endWire EXCEPT ![i][t] = Append(@, [q |-> q, res |-> res])]

(* dispatch_query with localSearchKnn; dispatch_kmeans_query_start with    *)
(* the local part of b2_deal_local.  All machines get the query: the       *)
(* search of the top index does not choose.  A thread with a full set of   *)
(* queries stays in the loop of b2_deal_local.                             *)
Dispatch(t) ==
  /\ Cardinality(ongoing[t]) < (IF Batched THEN KmeansBatch ELSE 1)
  /\ \E q \in b2Todo :
       /\ b2Todo' = b2Todo \ {q}
       /\ ongoing' = [ongoing EXCEPT ![t] = @ \cup {q}]
       /\ recvNum' = [recvNum EXCEPT ![q] = 1]
       /\ result' = [result EXCEPT ![q] = LocalSearchKnn(0, Vec(q), EfOf(round))]
       /\ PostB2Start(t, q, EfOf(round))
  /\ UNCHANGED <<round, merged, queue, efOf, endWire>>

(* poll_b2_start: B2 takes one message, B2KmeansBatch what has arrived.    *)
PollStart(i, t) ==
  /\ queue[i][t] = <<>>
  /\ \E n \in 1 .. Len(startWire[i][t]) :
       LET got == SubSeq(startWire[i][t], 1, n) IN
       /\ n > 1 => Batched
       /\ queue' = [queue EXCEPT ![i][t] = [m \in DOMAIN got |-> got[m].q]]
       /\ startWire' = [startWire EXCEPT ![i][t] = SubSeq(@, n + 1, Len(@))]
       /\ efOf' = [efOf EXCEPT ![i] = [q \in Query |->
            IF Batched
              THEN IF \E m \in DOMAIN got : got[m].q = q
                     THEN got[CHOOSE m \in DOMAIN got : got[m].q = q].ef ELSE @[q]
              ELSE got[1].ef]]
  /\ UNCHANGED <<round, b2Todo, ongoing, recvNum, result, merged, endWire>>

(* localSearchKnn and post_b2_end of a member.  The assert on its count of *)
(* results, which is never set, is not compiled: the build is a Release    *)
(* build unless another type is asked for.                                 *)
MemberSearch(i, t) ==
  /\ queue[i][t] # <<>>
  /\ LET q == Head(queue[i][t]) IN
     PostB2End(i, t, q, LocalSearchKnn(i, Vec(q), efOf[i][q]))
  /\ queue' = [queue EXCEPT ![i][t] = Tail(@)]
  /\ UNCHANGED <<round, b2Todo, ongoing, recvNum, result, merged, startWire, efOf>>

\* Faulty variant: a thread with several queries takes an answer for any.
AnsweredAny(t, msg) == CHOOSE o \in ongoing[t] : TRUE

(* An answer belongs to the only query of the thread, or to the one it     *)
(* names.                                                                  *)
Answered(t, msg) ==
  IF Batched THEN msg.q ELSE CHOOSE o \in ongoing[t] : TRUE

(* poll_b2_end: the last answer finishes the query and its recall is       *)
(* counted.                                                                *)
CollectEnd(i, t) ==
  /\ endWire[i][t] # <<>> /\ ongoing[t] # {}
  /\ LET msg == Head(endWire[i][t])
         q == Answered(t, msg)
         over == recvNum[q] + 1 = dep.machines IN
     /\ result' = [result EXCEPT ![q] = Merge(q, @ \cup msg.res)]
     /\ recvNum' = [recvNum EXCEPT ![q] = @ + 1]
     /\ ongoing' = [ongoing EXCEPT ![t] = IF over THEN @ \ {q} ELSE @]
     /\ merged' = IF over THEN merged \cup {q} ELSE merged
  /\ endWire' = [endWire EXCEPT ![i][t] = Tail(@)]
  /\ UNCHANGED <<round, b2Todo, startWire, queue, efOf>>

(* load_cnt == query_load: the leader goes to the next ef.                 *)
NextRound ==
  /\ merged = Query /\ round < BatchNum
  /\ round' = round + 1
  /\ b2Todo' = Query
  /\ recvNum' = [q \in Query |-> 0]
  /\ result' = Nothing
  /\ merged' = {}
  /\ UNCHANGED <<ongoing, startWire, queue, efOf, endWire>>

B2Next ==
  \/ NextRound
  \/ \E t \in Thread :
       \/ Dispatch(t)
       \/ \E i \in Member : PollStart(i, t) \/ MemberSearch(i, t) \/ CollectEnd(i, t)

-----------------------------------------------------------------------------
(* The leader counts a query when its result is the best of what all       *)
(* machines find for this query with the ef of this batch: no answer of    *)
(* another query or batch is merged into it, and none is missing.          *)
B2Merged ==
  \A q \in merged :
    result[q] = Merge(q, UNION {LocalSearchKnn(i, Vec(q), EfOf(round)) : i \in Machine})

=============================================================================
