------------------------------ MODULE IndexBuild ------------------------------
(***************************************************************************)
(* The distributed construction of the index, as tests/scala_index.cc      *)
(* drives it on every machine (scala_build.h, scala_build.cc, the          *)
(* collect and merge functions of disk_utils.cc, the exchanges of          *)
(* rdma_comm.cc and top_index.cc).                                         *)
(*                                                                         *)
(* Machine 0 partitions the data (Partition), every machine builds a graph *)
(* on its shard, the copies of a vertex meet on the machine that owns it,  *)
(* are merged and renumbered, and the result is laid out so that the       *)
(* neighbours of a vertex lie on the machines that own them.               *)
(*                                                                         *)
(* build_sync is the abstract barrier of module Barrier, which BuildSync   *)
(* implements: a call enters, Sync leaves.  poll_recv sorts messages into  *)
(* a queue per type; net[i][t][j] are the messages of type t that j has    *)
(* sent to i and i has not taken.  A queue is shared by all senders, so    *)
(* the receiver takes the first message of any of them.                    *)
(***************************************************************************)
EXTENDS Partition

CONSTANTS
  BuildGraph(_),  \* graphs that Index::build may give for a number of points
  MaxDegree,      \* max_degree
  MaxTrans,       \* words of a DISPATCH or SCALA_NGH message
  InlineDegBar,   \* INLINE_DEG_BAR
  TopThreads,     \* threads of sampleVectorsFromHugeFile
  TopMin          \* the least number of points in the top index

Machine == Part

MsgType == {"PART_INFO", "DISPATCH_META", "DISPATCH_ID", "DISPATCH_NGH",
            "SCALA_META", "SCALA_NGH"}

ASSUME IndexBuildAssumption ==
  /\ {MaxDegree, MaxTrans, TopThreads} \subseteq Nat \ {0}
  /\ InlineDegBar \in Nat
  /\ MaxDegree < 256 /\ MachineNum <= 64  \* deg and partition of a 16 bit msg

VARIABLES
  pc,        \* [i]: the next thing machine i does
  to,        \* [i]: m or p of the loop over the machines in an exchange
  entered,   \* [i]: calls of build_sync
  left,      \* [i]: calls that have returned
  net,       \* [i][type][j]
  graph,     \* [i]: the local index file, [1 .. n -> Seq(1 .. n)]
  maps,      \* the files of write_partition_info, <<>> before
  dispatch,  \* [i][m]: dispatch_ids and dispatch_nghs
  collect,   \* [i][j]: recv_meta, the expected numbers, what has come
  merged,    \* [i]: the final index: [id, ngh], in the order of the ids
  b1,        \* [i]: b1graph (b2graph): [ngh, vec, label]
  inNum,     \* [i][p][q]: in_remote_ngh_num
  out,       \* [i][q]: out_remote_ngh_ptr
  entry,     \* [i]: the array of entries of the scala index
  got,       \* [i]: ngh_recv_cnt of the current round
  remote,    \* [i]: the array of remote neighbours, by offset
  data,      \* [i]: the scala data file
  whole,     \* temp_b1_index, the concatenation of all b1graphs
  top,       \* sampledVectorIds
  scanned,   \* [t]: points that sampling thread t has read
  topIndex,  \* the elements of the saved top index
  loaded     \* [i]: what a search program on i has read of the files

syncVars == <<entered, left>>
replicaVars == <<dispatch, collect, merged>>
scalaVars == <<b1, inNum, out, entry, got, remote, data>>
topVars == <<whole, top, scanned, topIndex, loaded>>
buildVars == <<pc, to, syncVars, net, graph, maps, replicaVars, scalaVars,
               topVars>>
vars == <<partitionVars, buildVars>>

NoMsg == [t \in MsgType |-> [j \in Machine |-> <<>>]]
NotCollected == [meta |-> FALSE, idNum |-> 0, nghNum |-> 0, ids |-> <<>>,
                 nghs |-> <<>>]

Init ==
  /\ PartitionInit
  /\ pc = [i \in Machine |-> IF i = 0 THEN "partition" ELSE "swap"]
  /\ to = [i \in Machine |-> 0]
  /\ entered = [i \in Machine |-> 0] /\ left = [i \in Machine |-> 0]
  /\ net = [i \in Machine |-> NoMsg]
  /\ graph = [i \in Machine |-> <<>>]
  /\ maps = <<>>
  /\ dispatch = [i \in Machine |-> <<>>]
  /\ collect = [i \in Machine |-> [j \in Machine |-> NotCollected]]
  /\ merged = [i \in Machine |-> <<>>]
  /\ b1 = [i \in Machine |-> <<>>]
  /\ inNum = [i \in Machine |-> [p \in Machine |-> <<>>]]
  /\ out = [i \in Machine |-> <<>>]
  /\ entry = [i \in Machine |-> <<>>]
  /\ remote = [i \in Machine |-> <<>>]
  /\ data = [i \in Machine |-> <<>>]
  /\ got = [i \in Machine |-> 0]
  /\ whole = <<>>
  /\ top = <<>> /\ scanned = [t \in 1 .. TopThreads |-> 0] /\ topIndex = <<>>
  /\ loaded = [i \in Machine |-> <<>>]

-----------------------------------------------------------------------------
(* Machine i is at s and not inside build_sync.                            *)
At(i, s) == pc[i] = s /\ entered[i] = left[i]

(* The next thing machine i does, and the next thing after build_sync.     *)
Go(i, s) == pc' = [pc EXCEPT ![i] = s] /\ UNCHANGED syncVars
GoSync(i, s) ==
  /\ pc' = [pc EXCEPT ![i] = s]
  /\ entered' = [entered EXCEPT ![i] = @ + 1]
  /\ UNCHANGED left

Barriers == INSTANCE Barrier

Sync(i) ==
  /\ Barriers!Leave(i)
  /\ UNCHANGED <<partitionVars, pc, to, net, graph, maps, replicaVars,
                 scalaVars, topVars>>

(* Every machine but i gets msgs[m] behind what i has sent it before.      *)
SendAll(i, type, msgs) ==
  net' = [m \in Machine |->
            IF m = i THEN net[m]
            ELSE [net[m] EXCEPT ![type][i] = @ \o msgs[m]]]

Send(i, m, type, msgs) == net' = [net EXCEPT ![m][type][i] = @ \o msgs]

Take(i, type, j) == net' = [net EXCEPT ![i][type][j] = Tail(@)]

(* A list of words cut into messages.                                      *)
Pieces(words) ==
  [k \in 1 .. (Len(words) + MaxTrans - 1) \div MaxTrans |->
     SubSeq(words, (k - 1) * MaxTrans + 1,
            IF k * MaxTrans < Len(words) THEN k * MaxTrans ELSE Len(words))]

(* The files of the shard a machine builds: local_replica_* with replicas, *)
(* local_noreplica_* without.                                              *)
ShardKind == IF ReplicaNum > 1 THEN "rp" ELSE "norp"

-----------------------------------------------------------------------------
(* partition() on machine 0; an exception or a failed check ends in abort. *)
PartitionStep ==
  /\ pc[0] = "partition"
  /\ PartitionNext
  /\ UNCHANGED buildVars

PartitionEnd ==
  /\ pc[0] = "partition" /\ stage \in {"partitioned", "failed"}
  /\ Go(0, IF stage = "failed" THEN "abort" ELSE "swap")
  /\ stage' = "over"
  /\ UNCHANGED <<jobVars, kmeansVars, assignVars, fileVars, to, net, graph,
                 maps, replicaVars, scalaVars, topVars>>

(* swap_partition_info: machine 0 tells the others that the files are      *)
(* there (post_partition_info); the message has no other content in use.   *)
PostPartitionInfo ==
  /\ At(0, "swap")
  /\ SendAll(0, "PART_INFO", [m \in Machine |-> <<"info">>])
  /\ Go(0, "build")
  /\ UNCHANGED <<partitionVars, to, graph, maps, replicaVars, scalaVars,
                 topVars>>

(* poll_partition_info, without a deadline.                                *)
PollPartitionInfo(i) ==
  /\ i # 0 /\ At(i, "swap")
  /\ net[i]["PART_INFO"][0] # <<>>
  /\ Take(i, "PART_INFO", 0)
  /\ Go(i, "build")
  /\ UNCHANGED <<partitionVars, to, graph, maps, replicaVars, scalaVars,
                 topVars>>

(* build_local_partition: Index::build throws on an empty shard; otherwise *)
(* its graph is any of BuildGraph.  The vectors of a replica shard are     *)
(* deleted afterwards.                                                     *)
Build(i) ==
  LET n == Len(base[ShardKind][i])
  IN  /\ At(i, "build")
      /\ IF n = 0 THEN Go(i, "abort") /\ UNCHANGED <<graph, base>>
         ELSE /\ \E g \in BuildGraph(n) : graph' = [graph EXCEPT ![i] = g]
              /\ base' = [base EXCEPT !["rp"][i] = <<>>]
              /\ GoSync(i, IF graphType = "KmeansSharedNothing" THEN "done"
                           ELSE "info")
      /\ UNCHANGED <<jobVars, stage, kmeansVars, assignVars, idmap, to, net,
                     maps, replicaVars, scalaVars, topVars>>

(* write_partition_info: the owner of a point, and positions: the points   *)
(* of machine 0 first, each machine's in the order of its file.            *)
Positions == FlattenSeq([k \in 1 .. MachineNum |-> idmap["norp"][k - 1]])

PartitionMaps ==
  [part |-> [v \in Point |-> CHOOSE m \in Machine : v \in Range(idmap["norp"][m])],
   p2l  |-> [k \in 0 .. PointNum - 1 |-> Positions[k + 1]],
   l2p  |-> [v \in Point |-> (CHOOSE k \in 1 .. PointNum : Positions[k] = v) - 1],
   size |-> [m \in Machine |-> Len(idmap["norp"][m])]]

(* Mutant: no build_sync behind the files.                                 *)
WritePartitionInfoUnsynced(i) ==
  /\ At(i, "info")
  /\ maps' = IF i = 0 THEN PartitionMaps ELSE maps
  /\ Go(i, "check")
  /\ UNCHANGED <<partitionVars, to, net, graph, replicaVars, scalaVars,
                 topVars>>

WritePartitionInfo(i) ==
  /\ At(i, "info")
  /\ maps' = IF i = 0 THEN PartitionMaps ELSE maps
  /\ GoSync(i, "check")
  /\ UNCHANGED <<partitionVars, to, net, graph, replicaVars, scalaVars,
                 topVars>>

(* partition_checkpoint and shared_nothing_checkpoint read the files that  *)
(* machine 0 has written; the numbers read from a missing file do not      *)
(* match and the machine aborts.                                           *)
Checkpoint(i) ==
  /\ At(i, "check")
  /\ Go(i, IF maps = <<>> THEN "abort"
           ELSE IF graphType = "SharedNothing" THEN "b2" ELSE "collect")
  /\ UNCHANGED <<partitionVars, to, net, graph, maps, replicaVars, scalaVars,
                 topVars>>

-----------------------------------------------------------------------------
(* collect_replica_partition: the vertices of the shard by owner, in the   *)
(* order of the shard: their ids, and for each the degree and the          *)
(* neighbours by id.                                                       *)
Mine(i, m) == SelectSeq([k \in 1 .. Len(idmap["rp"][i]) |-> k],
                        LAMBDA k : maps.part[idmap["rp"][i][k]] = m)

NghWords(i, k) ==
  <<Len(graph[i][k])>> \o
    [d \in 1 .. Len(graph[i][k]) |-> idmap["rp"][i][graph[i][k][d]]]

CollectReplicaPartition(i) ==
  /\ At(i, "collect")
  /\ IF \E k \in DOMAIN graph[i] : graph[i][k] = <<>>
     THEN Go(i, "abort") /\ UNCHANGED dispatch
     ELSE /\ dispatch' = [dispatch EXCEPT ![i] = [m \in Machine |->
               [ids |-> [k \in 1 .. Len(Mine(i, m)) |-> idmap["rp"][i][Mine(i, m)[k]]],
                nghs |-> FlattenSeq([k \in 1 .. Len(Mine(i, m)) |->
                                       NghWords(i, Mine(i, m)[k])])]]]
          /\ Go(i, "round")
  /\ UNCHANGED <<partitionVars, to, net, graph, maps, collect, merged,
                 scalaVars, topVars>>

(* send_replica_partition, the round in which i collects: clear_finish and *)
(* collect_local_ids_nghs.                                                 *)
StartCollect(i) ==
  LET own == dispatch[i][i]
  IN  /\ At(i, "round") /\ to[i] = i
      /\ collect' = [collect EXCEPT ![i] = [j \in Machine |->
           IF j = i THEN [meta |-> TRUE, idNum |-> Len(own.ids),
                          nghNum |-> Len(own.nghs), ids |-> own.ids,
                          nghs |-> own.nghs]
           ELSE NotCollected]]
      /\ Go(i, "meta")
      /\ UNCHANGED <<partitionVars, to, net, graph, maps, dispatch, merged,
                     scalaVars, topVars>>

(* The conditions of the three loops.                                      *)
CollectFinish(i) ==
  \A j \in Machine \ {i} :
    CASE pc[i] = "meta" -> collect[i][j].meta
      [] pc[i] = "ids"  -> Len(collect[i][j].ids) >= collect[i][j].idNum
      [] pc[i] = "nghs" -> Len(collect[i][j].nghs) >= collect[i][j].nghNum

Polling(i) == (At(i, "meta") \/ At(i, "ids") \/ At(i, "nghs"))
                /\ ~CollectFinish(i)

(* poll_build: proc_dispatch_meta, proc_dispatch_id and proc_dispatch_ngh. *)
(* Without the memory that the meta message makes the words go astray.     *)
PollBuild(i, j) ==
  /\ Polling(i)
  /\ \E type \in {"DISPATCH_META", "DISPATCH_ID", "DISPATCH_NGH"} :
       LET msg == Head(net[i][type][j])
           had == collect[i][j]
       IN  /\ net[i][type][j] # <<>>
           /\ Take(i, type, j)
           /\ collect' = [collect EXCEPT ![i][j] =
                CASE type = "DISPATCH_META" ->
                       [meta |-> TRUE, idNum |-> msg[1], nghNum |-> msg[2],
                        ids |-> <<>>, nghs |-> <<>>]
                  [] type = "DISPATCH_ID"  -> [had EXCEPT !.ids = @ \o msg]
                  [] type = "DISPATCH_NGH" -> [had EXCEPT !.nghs = @ \o msg]]
           /\ pc' = [pc EXCEPT ![i] =
                IF type # "DISPATCH_META" /\ ~had.meta THEN "abort" ELSE @]
  /\ UNCHANGED <<partitionVars, to, syncVars, graph, maps, dispatch, merged,
                 scalaVars, topVars>>

Collected(i) ==
  /\ At(i, "meta") \/ At(i, "ids") \/ At(i, "nghs")
  /\ CollectFinish(i)
  /\ GoSync(i, CASE pc[i] = "meta" -> "ids" [] pc[i] = "ids" -> "nghs"
                 [] pc[i] = "nghs" -> "round")
  /\ to' = [to EXCEPT ![i] = IF pc[i] = "nghs" THEN @ + 1 ELSE @]
  /\ UNCHANGED <<partitionVars, net, graph, maps, replicaVars, scalaVars,
                 topVars>>

(* The rounds of the other machines: serialize_dispatch_meta, then the ids *)
(* and the neighbours in pieces, each followed by build_sync.              *)
SendDispatchMeta(i) ==
  LET d == dispatch[i][to[i]]
  IN  /\ At(i, "round") /\ to[i] \in Machine \ {i}
      /\ Send(i, to[i], "DISPATCH_META", <<<<Len(d.ids), Len(d.nghs)>>>>)
      /\ GoSync(i, "sendids")
      /\ UNCHANGED <<partitionVars, to, graph, maps, replicaVars, scalaVars,
                     topVars>>

SendDispatchIds(i) ==
  /\ At(i, "sendids")
  /\ Send(i, to[i], "DISPATCH_ID", Pieces(dispatch[i][to[i]].ids))
  /\ GoSync(i, "sendnghs")
  /\ UNCHANGED <<partitionVars, to, graph, maps, replicaVars, scalaVars,
                 topVars>>

SendDispatchNghs(i) ==
  /\ At(i, "sendnghs")
  /\ Send(i, to[i], "DISPATCH_NGH", Pieces(dispatch[i][to[i]].nghs))
  /\ GoSync(i, "round")
  /\ to' = [to EXCEPT ![i] = @ + 1]
  /\ UNCHANGED <<partitionVars, graph, maps, replicaVars, scalaVars, topVars>>

-----------------------------------------------------------------------------
(* merge_replica_partition.  The lists of a shard are read one after the   *)
(* other (ofs of the shard), whatever id they were written for: list r     *)
(* starts behind the r lists before it.                                    *)
ListStart(words, r) ==
  LET ofs[n \in 0 .. r] ==
        IF n = 0 THEN 0 ELSE LET o == ofs[n - 1] IN o + words[o + 1] + 1
  IN  ofs[r]

(* node_shard is sorted by id and then by shard, so the next list of a     *)
(* shard goes to its next larger id.                                       *)
MergedNgh(i, v) ==
  UNION {LET c == collect[i][j]
             o == ListStart(c.nghs, Cardinality({u \in Range(c.ids) : u < v}))
         IN  {c.nghs[o + 1 + d] : d \in 1 .. c.nghs[o + 1]} :
           j \in {j \in Machine : v \in Range(collect[i][j].ids)}}

Least(a, b) == IF a < b THEN a ELSE b

(* Of the shuffled neighbours the first max_degree are kept: the choices   *)
(* for every list of the final index.                                      *)
Kept(ngh) == kSubset(Least(MaxDegree, Cardinality(ngh)), ngh)

FinalNghs(i, ids) ==
  LET lists[k \in 0 .. Len(ids)] ==
        IF k = 0 THEN {<<>>}
        ELSE {Append(l, n) : l \in lists[k - 1], n \in Kept(MergedNgh(i, ids[k]))}
  IN  lists[Len(ids)]

(* Without any vertex node_shard[0] does not exist.                        *)
MergeReplicaPartition(i) ==
  LET ids == Ascending(UNION {Range(collect[i][j].ids) : j \in Machine})
  IN  /\ At(i, "round") /\ to[i] = MachineNum
      /\ IF ids = <<>> THEN Go(i, "abort") /\ UNCHANGED merged
         ELSE /\ \E nghs \in FinalNghs(i, ids) :
                   merged' = [merged EXCEPT ![i] =
                     [k \in 1 .. Len(ids) |-> [id |-> ids[k], ngh |-> nghs[k]]]]
              /\ Go(i, "b1")
      /\ UNCHANGED <<partitionVars, to, net, graph, maps, dispatch, collect,
                     scalaVars, topVars>>

(* Positions of a machine start at partition_ofs (also cumupsize).         *)
PartitionOfs(m) ==
  MapThenSumSet(LAMBDA o : maps.size[o], 0 .. m - 1)

Remap(ngh) == {maps.l2p[v] : v \in ngh}

(* transfer_to_b1graph_format: neighbours by position; the vector is the   *)
(* next one of the base file and the label comes from the position.  More  *)
(* or fewer lists than the partition has points would leave the memory     *)
(* that was allocated, or leave it unset.                                  *)
TransferToB1(i) ==
  /\ At(i, "b1")
  /\ IF Len(merged[i]) # maps.size[i] THEN Go(i, "abort") /\ UNCHANGED b1
     ELSE /\ b1' = [b1 EXCEPT ![i] = [k \in 1 .. maps.size[i] |->
                 [ngh   |-> Remap(merged[i][k].ngh),
                  vec   |-> base["norp"][i][k],
                  label |-> maps.p2l[PartitionOfs(i) + k - 1]]]]
          /\ GoSync(i, "scalameta")
  /\ UNCHANGED <<partitionVars, to, net, graph, maps, replicaVars, inNum, out,
                 entry, got, remote, data, topVars>>

(* trans_to_b2graph: the graph of a shard without replicas keeps its local *)
(* numbers.                                                                *)
TransToB2(i) ==
  LET ids == idmap["norp"][i]
      bad(k) == Len(graph[i][k]) \notin 1 .. MaxDegree
  IN  /\ At(i, "b2")
      /\ IF maps.size[i] # Len(ids) \/ \E k \in 1 .. Len(ids) : bad(k)
         THEN Go(i, "abort") /\ UNCHANGED b1
         ELSE /\ b1' = [b1 EXCEPT ![i] = [k \in 1 .. Len(ids) |->
                     [ngh |-> Range(graph[i][k]), vec |-> base["norp"][i][k],
                      label |-> ids[k]]]]
              /\ Go(i, IF i = 0 THEN "top" ELSE "done")
      /\ UNCHANGED <<partitionVars, to, net, graph, maps, replicaVars, inNum,
                     out, entry, got, remote, data, topVars>>

-----------------------------------------------------------------------------
(* transfer_to_scala_v3.  judge_partition: the owner of a position.        *)
JudgePartition(pos) ==
  CHOOSE p \in Machine : /\ PartitionOfs(p) <= pos
                         /\ pos < PartitionOfs(p) + maps.size[p]

(* The neighbours of a vertex on machine q, and the machines that have     *)
(* some, the machine of the vertex itself last.                            *)
NghsOn(b, q) == Ascending({n \in b.ngh : JudgePartition(n) = q})

PartIds(i, b) ==
  SelectSeq([k \in 1 .. MachineNum |-> k - 1], LAMBDA q : q # i /\ NghsOn(b, q) # <<>>)
    \o (IF NghsOn(b, i) # <<>> THEN <<i>> ELSE <<>>)

(* Longer lists of another machine are stored there.                       *)
Away(i, b, q) == q # i /\ Len(NghsOn(b, q)) > InlineDegBar

OutWords(i, q) ==
  FlattenSeq([k \in 1 .. Len(b1[i]) |->
                IF Away(i, b1[i][k], q) THEN NghsOn(b1[i][k], q) ELSE <<>>])

(* Step 1, swap_scala_index_meta_info: everybody tells everybody how much  *)
(* it will store at each machine (out_remote_ngh_num).                     *)
SendScalaMeta(i) ==
  LET num == [q \in Machine |-> Len(OutWords(i, q))]
  IN  /\ At(i, "scalameta")
      /\ SendAll(i, "SCALA_META", [m \in Machine |-> <<num>>])
      /\ inNum' = [inNum EXCEPT ![i][i] = [q \in Machine |-> 0]]
      /\ Go(i, "pollmeta")
      /\ UNCHANGED <<partitionVars, to, graph, maps, replicaVars, b1, out,
                     entry, got, remote, data, topVars>>

PollScalaMeta(i, j) ==
  /\ At(i, "pollmeta") /\ net[i]["SCALA_META"][j] # <<>>
  /\ inNum' = [inNum EXCEPT ![i][j] = Head(net[i]["SCALA_META"][j])]
  /\ Take(i, "SCALA_META", j)
  /\ UNCHANGED <<partitionVars, pc, to, syncVars, graph, maps, replicaVars, b1,
                 out, entry, got, remote, data, topVars>>

(* Sizes in bytes: local_ngh_ele_size, out_remote_ngh_start_ofs and        *)
(* in_remote_ngh_start_ofs less index_meta_len.                            *)
EleSize == MaxDegree * 4 + MachineNum * 2

(* Mutant: the words that come in are counted, not those that q gets.      *)
OutStartIn(i, q) ==
  maps.size[q] * EleSize
    + 4 * MapThenSumSet(LAMBDA p : inNum[i][p][i], 0 .. i - 1)

OutStart(i, q) ==
  maps.size[q] * EleSize
    + 4 * MapThenSumSet(LAMBDA p : inNum[i][p][q], 0 .. i - 1)

InStart(i, p) ==
  maps.size[i] * EleSize
    + 4 * MapThenSumSet(LAMBDA q : inNum[i][q][i], 0 .. p - 1)

(* Step 3: the entry of vertex k.  A machine with neighbours takes a 16    *)
(* bit msg (end flag, local flag, machine, number) and the neighbours, or  *)
(* the offset of the list on that machine.  A cell is a msg, a neighbour   *)
(* or an offset.                                                           *)
Msg(i, q, last, deg) ==
  (IF last THEN 2^15 ELSE 0) + (IF last /\ q = i THEN 2^14 ELSE 0) + q * 2^8 + deg

(* Mutant: the cursor is moved before the offset is stored.                *)
OfsOfAfter(i, q, k) ==
  OutStart(i, q)
    + 4 * Len(FlattenSeq([l \in 1 .. k |->
                IF Away(i, b1[i][l], q) THEN NghsOn(b1[i][l], q) ELSE <<>>]))

OfsOf(i, q, k) ==
  OutStart(i, q)
    + 4 * Len(FlattenSeq([l \in 1 .. k - 1 |->
                IF Away(i, b1[i][l], q) THEN NghsOn(b1[i][l], q) ELSE <<>>]))

EntryOf(i, k) ==
  LET b == b1[i][k]
      ps == PartIds(i, b)
      cells(l) == <<Msg(i, ps[l], l = Len(ps), Len(NghsOn(b, ps[l])))>>
                    \o (IF Away(i, b, ps[l]) THEN <<OfsOf(i, ps[l], k)>>
                        ELSE NghsOn(b, ps[l]))
  IN  FlattenSeq([l \in 1 .. Len(ps) |-> cells(l)])

(* The bytes of an entry, which must fit into local_ngh_ele_size.          *)
EntryBytes(i, k) ==
  MapThenSumSet(LAMBDA q : LET n == Len(NghsOn(b1[i][k], q))
                           IN  IF n = 0 THEN 0
                               ELSE 2 + IF Away(i, b1[i][k], q) THEN 8 ELSE 4 * n,
                Machine)

ReformatIndex(i) ==
  /\ At(i, "pollmeta") /\ \A p \in Machine : inNum[i][p] # <<>>
  /\ IF \E k \in 1 .. Len(b1[i]) : EntryBytes(i, k) > EleSize
     THEN Go(i, "abort") /\ UNCHANGED <<entry, out>>
     ELSE /\ entry' = [entry EXCEPT ![i] = [k \in 1 .. Len(b1[i]) |-> EntryOf(i, k)]]
          /\ out' = [out EXCEPT ![i] = [q \in Machine |-> OutWords(i, q)]]
          /\ Go(i, "ngh")
  /\ to' = [to EXCEPT ![i] = 0]
  /\ UNCHANGED <<partitionVars, net, graph, maps, replicaVars, b1, inNum, got,
                 remote, data, topVars>>

(* Step 4, swap_scalagraph_remote_ngh: in round p machine p sends and the  *)
(* others receive what they expect; build_sync ends the round.             *)
SendNgh(i) ==
  /\ At(i, "ngh") /\ to[i] = i
  /\ SendAll(i, "SCALA_NGH", [m \in Machine |-> Pieces(out[i][m])])
  /\ GoSync(i, "ngh")
  /\ to' = [to EXCEPT ![i] = @ + 1]
  /\ UNCHANGED <<partitionVars, graph, maps, replicaVars, scalaVars, topVars>>

(* The sender named in a message is not looked at.                         *)
RecvNgh(i, j) ==
  LET p == to[i]
      words == Head(net[i]["SCALA_NGH"][j])
      ofs == InStart(i, p) + 4 * got[i]
  IN  /\ At(i, "ngh") /\ p \in Machine \ {i} /\ got[i] < inNum[i][p][i]
      /\ net[i]["SCALA_NGH"][j] # <<>>
      /\ Take(i, "SCALA_NGH", j)
      /\ remote' = [remote EXCEPT ![i] =
           [o \in {ofs + 4 * (d - 1) : d \in 1 .. Len(words)} |->
              words[(o - ofs) \div 4 + 1]] @@ @]
      /\ got' = [got EXCEPT ![i] = @ + Len(words)]
      /\ UNCHANGED <<partitionVars, pc, to, syncVars, graph, maps, replicaVars,
                     b1, inNum, out, entry, data, topVars>>

NghRoundEnd(i) ==
  /\ At(i, "ngh") /\ to[i] \in Machine \ {i} /\ got[i] >= inNum[i][to[i]][i]
  /\ got' = [got EXCEPT ![i] = 0]
  /\ to' = [to EXCEPT ![i] = @ + 1]
  /\ GoSync(i, "ngh")
  /\ UNCHANGED <<partitionVars, net, graph, maps, replicaVars, b1, inNum, out,
                 entry, remote, data, topVars>>

(* Steps 5 and 6: the files are written; the data file holds vector and    *)
(* label of every vertex.                                                  *)
WriteScala(i) ==
  /\ At(i, "ngh") /\ to[i] = MachineNum
  /\ data' = [data EXCEPT ![i] = [k \in 1 .. Len(b1[i]) |->
                <<b1[i][k].vec, b1[i][k].label>>]]
  /\ Go(i, IF i = 0 THEN "concat" ELSE "done")
  /\ UNCHANGED <<partitionVars, to, net, graph, maps, replicaVars, b1, inNum,
                 out, entry, got, remote, topVars>>

-----------------------------------------------------------------------------
(* merge_all_b1_index on machine 0: the files of all machines in turn.  An *)
(* empty file is an error.                                                 *)
MergeAllB1 ==
  /\ At(0, "concat")
  /\ IF \E m \in Machine : b1[m] = <<>> THEN Go(0, "abort") /\ UNCHANGED whole
     ELSE /\ whole' = FlattenSeq([k \in 1 .. MachineNum |-> b1[k - 1]])
          /\ Go(0, "top")
  /\ UNCHANGED <<partitionVars, to, net, graph, maps, replicaVars, scalaVars,
                 top, scanned, topIndex, loaded>>

(* Ranges of n things for the threads, the first threads one more: the     *)
(* base file in sampleVectorsFromHugeFile, a parallel loop of OpenMP.      *)
RangeStart(n, t) ==
  (t - 1) * (n \div TopThreads) + Least(t - 1, n % TopThreads)

Unread(t) ==
  RangeStart(PointNum, t + 1) - RangeStart(PointNum, t) - scanned[t]

(* sampleWorker: the next point is taken or not; vector and id are         *)
(* appended under one lock.  TopMin: the samples that                      *)
(* run_sample_and_build looks at must exist.                               *)
SampleWorker(t) ==
  /\ At(0, "top") /\ Unread(t) > 0
  /\ scanned' = [scanned EXCEPT ![t] = @ + 1]
  /\ \/ top' = Append(top, RangeStart(PointNum, t) + scanned[t])
     \/ /\ Len(top) + MapThenSumSet(Unread, 1 .. TopThreads) > TopMin
        /\ UNCHANGED top
  /\ UNCHANGED <<partitionVars, pc, to, syncVars, net, graph, maps,
                 replicaVars, scalaVars, whole, topIndex, loaded>>

(* The thread that adds sample s > 1.                                      *)
AddedBy(s) ==
  CHOOSE t \in 1 .. TopThreads : /\ RangeStart(Len(top) - 1, t) <= s - 2
                                 /\ s - 2 < RangeStart(Len(top) - 1, t + 1)

(* buildAndSaveHnswIndex: sample 1 is added first, the others by all       *)
(* threads, each in the order of its range; the label is the number of the *)
(* sample.                                                                 *)
AddPoint(s) ==
  LET added == {topIndex[k].label : k \in 1 .. Len(topIndex)}
  IN  /\ At(0, "top") /\ \A t \in 1 .. TopThreads : Unread(t) = 0
      /\ s \in 1 .. Len(top) \ added
      /\ s # 1 => \A r \in 1 .. s - 1 :
                    (r = 1 \/ AddedBy(r) = AddedBy(s)) => r \in added
      /\ topIndex' = Append(topIndex, [vec |-> top[s], label |-> s])
      /\ UNCHANGED <<partitionVars, pc, to, syncVars, net, graph, maps,
                     replicaVars, scalaVars, whole, top, scanned, loaded>>

(* Mutant: the label of the k-th element is taken from the k-th sample.    *)
TopLabelByElement(k) == maps.l2p[top[k]]

(* The label of an element becomes the position of its point.              *)
TopLabel(k) == maps.l2p[top[topIndex[k].label]]

SaveTopIndex ==
  /\ At(0, "top") /\ top # <<>> /\ Len(topIndex) = Len(top)
  /\ \A t \in 1 .. TopThreads : Unread(t) = 0
  /\ topIndex' = [k \in 1 .. Len(topIndex) |->
                    [vec |-> topIndex[k].vec, label |-> TopLabel(k)]]
  /\ Go(0, "done")
  /\ UNCHANGED <<partitionVars, to, net, graph, maps, replicaVars, scalaVars,
                 whole, top, scanned, loaded>>

-----------------------------------------------------------------------------
(* The search program, started when the index is built, reads the files of *)
(* its graph_type.  cumu_partition_num counts the vectors of the machines  *)
(* before p.                                                               *)
Cumulated(num) ==
  [p \in 0 .. MachineNum |-> MapThenSumSet(LAMBDA m : num[m], 0 .. p - 1)]

(* ScalaGraphIndex::load_index: the index of the machine and the headers   *)
(* of all data files.                                                      *)
LoadScala(i) ==
  [type |-> "SCALA_V3",
   cumu |-> Cumulated([m \in Machine |-> Len(data[m])]),
   vector |-> [k \in 0 .. Len(data[i]) - 1 |-> data[i][k + 1]]]

(* VamanaIndex::loadIndex: the concatenated graph, or the graph of the     *)
(* shard and, with k-means, the sizes of the partitions.                   *)
LoadB1(type, i) ==
  LET file == IF type = "VAMANA" THEN whole ELSE b1[i]
  IN  [type |-> type,
       cumu |-> IF type = "KmeansSharedNothing" THEN Cumulated(maps.size) ELSE <<>>,
       vector |-> [k \in 0 .. Len(file) - 1 |->
                     <<file[k + 1].vec, file[k + 1].label>>]]

(* GraphIndex and the constructor of ScalaSearch: every machine is given   *)
(* the same graph_type, one that reads what has been built.                *)
LoadIndex(i) ==
  /\ \A m \in Machine : At(m, "done")
  /\ loaded[i] = <<>>
  /\ \E type \in IF graphType = "SCALA_V3" THEN {"SCALA_V3", "VAMANA"}
                ELSE IF graphType = "SharedNothing"
                     THEN {"SharedNothing", "KmeansSharedNothing"} ELSE {} :
       /\ \A m \in Machine : loaded[m] # <<>> => loaded[m].type = type
       /\ loaded' = [loaded EXCEPT ![i] =
            IF type = "SCALA_V3" THEN LoadScala(i) ELSE LoadB1(type, i)]
  /\ UNCHANGED <<partitionVars, pc, to, syncVars, net, graph, maps,
                 replicaVars, scalaVars, whole, top, scanned, topIndex>>

(* Mutant: a position is looked for in the partition that ends with it.    *)
GetMachineIdInclusive(i, pos) ==
  (CHOOSE p \in 1 .. MachineNum : /\ loaded[i].cumu[p] >= pos
                                  /\ \A q \in 1 .. p - 1 : loaded[i].cumu[q] < pos) - 1

(* get_machine_id: the first partition whose end lies behind the position. *)
GetMachineId(i, pos) ==
  (CHOOSE p \in 1 .. MachineNum : /\ loaded[i].cumu[p] > pos
                                  /\ \A q \in 1 .. p - 1 : loaded[i].cumu[q] <= pos) - 1

-----------------------------------------------------------------------------
Step(i) ==
  \/ Sync(i) \/ PollPartitionInfo(i) \/ Build(i) \/ WritePartitionInfo(i)
  \/ Checkpoint(i) \/ CollectReplicaPartition(i) \/ StartCollect(i)
  \/ \E j \in Machine : PollBuild(i, j) \/ PollScalaMeta(i, j) \/ RecvNgh(i, j)
  \/ Collected(i) \/ SendDispatchMeta(i) \/ SendDispatchIds(i)
  \/ SendDispatchNghs(i) \/ MergeReplicaPartition(i) \/ TransferToB1(i)
  \/ TransToB2(i) \/ SendScalaMeta(i) \/ ReformatIndex(i) \/ SendNgh(i)
  \/ NghRoundEnd(i) \/ WriteScala(i) \/ LoadIndex(i)

Step0 ==
  \/ PartitionStep \/ PartitionEnd \/ PostPartitionInfo \/ MergeAllB1
  \/ \E t \in 1 .. TopThreads : SampleWorker(t)
  \/ \E s \in Point : AddPoint(s + 1)
  \/ SaveTopIndex

(* The end of the program.  A machine that aborts leaves the others        *)
(* waiting in build_sync until its deadline (BuildSync).                   *)
Finished ==
  /\ \/ \A i \in Machine : At(i, "done")
     \/ \E i \in Machine : pc[i] = "abort"
  /\ UNCHANGED vars

Next == Step0 \/ (\E i \in Machine : Step(i)) \/ Finished

Spec == Init /\ [][Next]_vars

-----------------------------------------------------------------------------
(* The reader of an entry (verify_scala_v3, and expand of the search): the *)
(* positions an entry leads to.  An offset without a neighbour gives -1.   *)
Decode(i, k) ==
  LET e == entry[i][k]
      Read[o \in 1 .. Len(e) + 2] ==
        IF o > Len(e) THEN {-1}
        ELSE LET end == e[o] \div 2^15 = 1
                 local == (e[o] \div 2^14) % 2 = 1
                 pid == (e[o] \div 2^8) % 2^6
                 deg == e[o] % 2^8
                 inline == {IF o + d <= Len(e) THEN e[o + d] ELSE -1 : d \in 1 .. deg}
                 stored == {IF e[o + 1] + 4 * d \in DOMAIN remote[pid]
                            THEN remote[pid][e[o + 1] + 4 * d] ELSE -1 :
                              d \in 0 .. deg - 1}
             IN  IF local THEN inline
                 ELSE IF deg <= InlineDegBar
                      THEN inline \cup (IF end THEN {} ELSE Read[o + deg + 1])
                      ELSE stored \cup (IF end THEN {} ELSE Read[o + 2])
  IN  Read[1]

(* What a vertex of the global graph is linked to: its neighbours in all   *)
(* shards that index it.                                                   *)
Linked(v) ==
  UNION {{idmap["rp"][m][n] : n \in UNION {Range(graph[m][k]) :
            k \in {l \in DOMAIN graph[m] : idmap["rp"][m][l] = v}}} : m \in Machine}

(* The finished index is the graph that was built: the vertex at a         *)
(* position has its own vector and label, and reading its entry across     *)
(* machines leads to max_degree (or all) of the vertices it is linked to   *)
(* in the shards.  This is what verify_scala_v3 compares, for every order  *)
(* of the messages and every outcome of the partition.                     *)
IndexRight ==
  \A i \in Machine : (data[i] # <<>> /\ pc[0] \in {"concat", "done"}) =>
    \A k \in 1 .. Len(data[i]) :
      LET v == maps.p2l[PartitionOfs(i) + k - 1]
          read == Decode(i, k)
      IN  /\ data[i][k] = <<v, v>>
          /\ read \subseteq {maps.l2p[u] : u \in Linked(v)}
          /\ Cardinality(read) = Least(MaxDegree, Cardinality(Linked(v)))

(* The index of a shard without replicas (trans_to_b2graph) and the        *)
(* concatenation for the top index: vector, label and place agree.         *)
LabelsRight ==
  /\ \A i \in Machine : \A k \in 1 .. Len(b1[i]) :
       /\ b1[i][k].vec = b1[i][k].label
       /\ maps.l2p[b1[i][k].label] = PartitionOfs(i) + k - 1
  /\ \A k \in 1 .. Len(whole) : maps.l2p[whole[k].label] = k - 1
  /\ pc[0] = "done" =>
       \A k \in 1 .. Len(topIndex) : maps.p2l[topIndex[k].label] = topIndex[k].vec

(* A machine aborts only when the partition has succeeded and gives some   *)
(* machine nothing, which Index::build or the merge refuses.  Otherwise    *)
(* the partition succeeds, no file is read before it is written and no     *)
(* message taken before the memory for it exists; the checks of sizes and  *)
(* degrees hold.                                                           *)
EmptyShard ==
  /\ stage = "over"
  /\ UNION {Range(idmap["norp"][i]) : i \in Machine} = Point
  /\ \A k \in Kind, i \in Machine : base[k][i] \in {<<>>, idmap[k][i]}
  /\ \E i \in Machine : idmap["norp"][i] = <<>>
NoAbort == (\E i \in Machine : pc[i] = "abort") => EmptyShard

(* "partition[p] out_remote_ngh_start_ofs[q] should be equal to            *)
(* partition[q] in_remote_ngh_start_ofs[p] - index_meta_len" (NOTE in      *)
(* transfer_to_scala_v3): sender and receiver compute the place of a list  *)
(* from what each has been told.                                           *)
OffsetsAgree ==
  \A p, q \in Machine :
    (p # q /\ entry[p] # <<>> /\ entry[q] # <<>>) => OutStart(p, q) = InStart(q, p)

(* Whatever machine asks, a position given by the top index or a neighbour *)
(* leads to the machine and the place where its vector has been loaded:    *)
(* load_index, get_machine_id and the renumbering of the build agree.      *)
Found(i, pos) ==
  LET m == GetMachineId(i, pos)
      at == IF loaded[i].type = "VAMANA" THEN <<i, pos>>
            ELSE <<m, pos - loaded[i].cumu[m]>>
      there == loaded[at[1]].vector
  IN  IF at[2] \in DOMAIN there THEN there[at[2]] ELSE <<-1, -1>>

LoadedRight ==
  (\A i \in Machine : loaded[i] # <<>> /\ loaded[i].type # "SharedNothing") =>
    /\ \A i \in Machine, pos \in 0 .. PointNum - 1 :
         Found(i, pos) = <<maps.p2l[pos], maps.p2l[pos]>>
    /\ \A i \in Machine, k \in 1 .. Len(topIndex) :
         Found(i, topIndex[k].label)[1] = topIndex[k].vec

=============================================================================
