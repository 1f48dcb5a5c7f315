------------------------------ MODULE ReadCache ------------------------------
(***************************************************************************)
(* The searches that fetch remote vertices with one-sided reads: the       *)
(* baselines B1 (searchRemoteBaseLayerST, one vertex at a time) and        *)
(* B1_ASYNC (searchAsyncRemoteBaseLayerST, a group of candidates at a      *)
(* time), the local search of the other baselines, and the read buffers of *)
(* a thread (post_read, poll_read, release_cache, sync_read).              *)
(*                                                                         *)
(* A search is a record of the queues of the query and of the read buffers *)
(* of its thread.  The buffers belong to one thread and a round waits for  *)
(* all its reads, so a round is one step.  d is the distance of every      *)
(* vertex to the query.                                                    *)
(***************************************************************************)
EXTENDS Deployment, VisitHash

CONSTANTS
  MaxCacheVec,  \* MAX_CACHE_VEC, read buffers of a thread
  GroupSize     \* CAND_GROUP_SIZE

Local == 0      \* buffer id -1: the vertex is in local memory
Buffer == 1 .. MaxCacheVec

ASSUME ReadCacheAssumption == {MaxCacheVec, GroupSize} \subseteq Nat \ {0}

(* A thread that is not searching, with its free buffers in order and what *)
(* the last read has put into each of them.                                *)
IdleThread ==
  [phase |-> "idle", d |-> <<>>, ef |-> 0, top |-> {}, cand |-> {}, seen |-> {},
   hash |-> NewTable,
   bound |-> 0, free |-> [b \in Buffer |-> b], content |-> [b \in Buffer |-> 0],
   result |-> {}]

-----------------------------------------------------------------------------
(* The two priority queues: entries by distance.                           *)
Before(d, e, f) == d[e.v] < d[f.v] \/ (d[e.v] = d[f.v] /\ Sooner(e.v, f.v))
Farthest(d, S) == CHOOSE e \in S : \A f \in S \ {e} : Before(d, f, e)
Ordered(d, S) ==
  [n \in 1 .. Cardinality(S) |->
     CHOOSE e \in S : Cardinality({f \in S : Before(d, f, e)}) = n - 1]

FirstOf(seq, n) == SubSeq(seq, 1, IF Len(seq) < n THEN Len(seq) ELSE n)

(* CheckAndSet of the vertices of vs, in order: those not seen before and  *)
(* the table afterwards.                                                   *)
Visit(r, v, put) ==
  [hash |-> put.table, new |-> IF put.hit THEN r.new ELSE Append(r.new, v)]

Fresh(s, vs) ==
  FoldLeft(LAMBDA r, v : Visit(r, v, CheckAndSet(r.hash, v)),
           [hash |-> s.hash, new |-> <<>>], vs)

(* The candidates es are expanded to the vertices of vs; hash is the table *)
(* afterwards.  seen is what has been put in, for the property.            *)
Expanded(s, es, vs, hash) ==
  [s EXCEPT !.hash = hash, !.seen = @ \cup ToSet(vs), !.cand = @ \ es,
            !.phase = IF hash = Stuck THEN "abort" ELSE @]

\* Faulty variant: the vector read into the buffer is dropped without it.
ReleaseNothing(s, b) == s

(* release_cache; vertices in local memory have no buffer.                 *)
Release(s, b) == IF b = Local THEN s ELSE [s EXCEPT !.free = Append(@, b)]

(* A vertex whose distance is known: it enters both queues, and the        *)
(* farthest leaves a full one (Case 1), or its buffer is released (Case 2).*)
Consider(s, e) ==
  IF Cardinality(s.top) < s.ef \/ s.d[e.v] < s.bound
    THEN LET all == s.top \cup {e}
             last == Farthest(s.d, all)
             top == IF Cardinality(all) > s.ef THEN all \ {last} ELSE all IN
         [(IF top = all THEN s ELSE Release(s, last.buf))
            EXCEPT !.top = top, !.cand = @ \cup {e},
                   !.bound = s.d[Farthest(s.d, top).v]]
    ELSE Release(s, e.buf)

ConsiderAll(s, es) == FoldLeft(Consider, s, es)

(* Both searches and the local one begin at the entry point.               *)
BeginSearch(s, ep, d, ef) ==
  LET e == [v |-> ep, buf |-> Local] IN
  [s EXCEPT !.phase = "run", !.d = d, !.ef = ef, !.top = {e}, !.cand = {e},
            !.seen = {ep}, !.hash = CheckAndSet(NewTable, ep).table,
            !.bound = d[ep], !.result = {}]

(* Candidates that are not farther than the worst of the result.           *)
Open(s) == {e \in s.cand : s.d[e.v] <= s.bound}
Nearest(s) == Ordered(s.d, Open(s))[1]

-----------------------------------------------------------------------------
(* post_read takes the front buffers for the vertices of vs, in order.     *)
Entries(s, vs) == [n \in DOMAIN vs |-> [v |-> vs[n], buf |-> s.free[n]]]
PostRead(s, vs) == [s EXCEPT !.free = SubSeq(@, Len(vs) + 1, Len(@))]

(* poll_send of poll_read, until all reads of es have completed.           *)
PollSend(s, es) == FoldLeft(LAMBDA r, e : [r EXCEPT !.content[e.buf] = e.v], s, es)

(* sync_read through fetch_vector: the front buffer is filled and released *)
(* at once; the caller uses it before the next read.                       *)
SyncRead(s, v) ==
  LET done == PollSend(PostRead(s, <<v>>), Entries(s, <<v>>)) IN
  [done EXCEPT !.free = Append(@, Head(s.free))]

(* getData and get_Remotelinklist0 on machine i.                           *)
Access(s, i, v) == IF Owner(v) = i THEN s ELSE SyncRead(s, v)

(* One iteration of searchRemoteBaseLayerST: the neighbour list is copied, *)
(* then every new neighbour is fetched.                                    *)
SyncExpand(s, i, e, fresh) ==
  FoldLeft(LAMBDA r, v : Consider(Access(r, i, v), [v |-> v, buf |-> Local]),
           Expanded(Access(s, i, e.v), {e}, Ngh(e.v), fresh.hash), fresh.new)

SyncRound(s, i) ==
  LET e == Nearest(s) IN SyncExpand(s, i, e, Fresh(s, Ngh(e.v)))

(* remoteSearchKnn after the loop: the k best, labels fetched again.       *)
SyncEnd(s, i) ==
  LET best == Ordered(s.d, s.top)
      res == FirstOf(best, Knn)
      s1 == FoldLeft(LAMBDA r, e : Access(r, i, e.v), s, Reverse(res))
  IN [s1 EXCEPT !.phase = "idle", !.top = {}, !.cand = {}, !.seen = {}, !.bound = 0,
                !.hash = NewTable, !.d = <<>>, !.ef = 0, !.result = {e.v : e \in ToSet(res)}]

-----------------------------------------------------------------------------
(* The vertex a pointer of an entry points at.                             *)
At(s, e) == IF e.buf = Local THEN e.v ELSE s.content[e.buf]

(* The group of candidates expanded together.                              *)
Group(s) == FirstOf(Ordered(s.d, Open(s)), GroupSize)

(* One iteration of searchAsyncRemoteBaseLayerST: split the new neighbours *)
(* of the group, post the reads, compute the local ones, then the remote   *)
(* ones.  assert(buff_id_list.size() > 0) fails when the buffers run out.  *)
AsyncExpand(s, i, group, nghs, fresh) ==
  LET near == SelectSeq(fresh.new, LAMBDA v : Owner(v) = i)
      far == SelectSeq(fresh.new, LAMBDA v : Owner(v) # i)
      s1 == Expanded(s, ToSet(group), nghs, fresh.hash)
      s2 == ConsiderAll(PostRead(s1, far),
                        [n \in DOMAIN near |-> [v |-> near[n], buf |-> Local]])
  IN IF Len(far) > Len(s.free) THEN [s EXCEPT !.phase = "abort"]
     ELSE ConsiderAll(PollSend(s2, Entries(s, far)), Entries(s, far))

AsyncRound(s, i) ==
  LET group == Group(s)
      nghs == FlattenSeq([n \in DOMAIN group |-> Ngh(At(s, group[n]))])
  IN AsyncExpand(s, i, group, nghs, Fresh(s, nghs))

(* The end: the farthest go first, every buffer of the queue is released,  *)
(* and the labels of the k best are read from where they are.              *)
AsyncEnd(s) ==
  LET best == Ordered(s.d, s.top)
      res == FirstOf(best, Knn)
      s1 == FoldLeft(LAMBDA r, e : Release(r, e.buf), s, Reverse(best))
  IN [s1 EXCEPT !.phase = "idle", !.top = {}, !.cand = {}, !.seen = {}, !.bound = 0,
                !.hash = NewTable, !.d = <<>>, !.ef = 0, !.result = {At(s, e) : e \in ToSet(res)}]

-----------------------------------------------------------------------------
(* searchBaseLayerST and localSearchKnn: the same loop on a local graph    *)
(* whose vertices are those of machine i.                                  *)
LocalExpand(s, e, nghs, fresh) ==
  ConsiderAll(Expanded(s, {e}, nghs, fresh.hash),
              [n \in DOMAIN fresh.new |-> [v |-> fresh.new[n], buf |-> Local]])

LocalRound(s, i) ==
  LET e == Nearest(s)
      nghs == SelectSeq(Ngh(e.v), LAMBDA v : Owner(v) = i)
  IN LocalExpand(s, e, nghs, Fresh(s, nghs))

LocalSearchKnn(i, d, ef) ==
  LET step(s, n) == IF Open(s) = {} THEN s ELSE LocalRound(s, i)
      end == FoldLeft(step, BeginSearch(IdleThread, dep.entry[i], d, ef),
                      [n \in 1 .. Cardinality(Vertex) |-> n])
      best == Ordered(d, end.top)
  IN {e.v : e \in ToSet(FirstOf(best, Knn))}

-----------------------------------------------------------------------------
Held(s) == {e.buf : e \in s.top} \ {Local}

(* The vertex of an entry is still where its pointer says.                 *)
InPlace(s, e) == At(s, e) = e.v /\ (e.buf # Local => e.buf \in Held(s))

(* Every buffer is free once or holds one vertex of the result; nothing    *)
(* that may be returned, and no candidate below the bound, is in a buffer  *)
(* that has been released or read into again; and the buffers never run    *)
(* out.                                                                    *)
BufferRight(s) ==
  /\ s.phase # "abort"
  /\ \A m, n \in DOMAIN s.free : s.free[m] = s.free[n] => m = n
  /\ Held(s) = Buffer \ ToSet(s.free)
  /\ \A e, f \in s.top : e.buf = f.buf /\ e.buf # Local => e = f
  /\ \A e \in s.top \cup {c \in s.cand : s.d[c.v] < s.bound} : InPlace(s, e)

=============================================================================
