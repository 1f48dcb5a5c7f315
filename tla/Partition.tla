------------------------------- MODULE Partition ------------------------------
(***************************************************************************)
(* How machine 0 divides the base data among the machines (partition.cc,   *)
(* math_utils.cc, and kmeans_partition and random_partition of             *)
(* disk_utils.cc).                                                         *)
(*                                                                         *)
(* k-means runs on a sample, then the points are assigned block by block:  *)
(* the first choice of a point is its owner, the first ReplicaNum choices  *)
(* are the shards it is indexed in.  Inside a block the threads of OpenMP  *)
(* take chunks of points; they read the sizes of the clusters without a    *)
(* lock while other threads add to them.                                   *)
(*                                                                         *)
(* A vector is an integer (one dimension, a multiple of Unit), so that the *)
(* mean of up to PointNum vectors is exact when Unit is a multiple of      *)
(* 1 .. PointNum.  Files are sequences of points.                          *)
(***************************************************************************)
EXTENDS Integers, Sequences, FiniteSets, SequencesExt, FiniteSetsExt, Functions

CONSTANTS
  MachineNum,   \* MACHINE_NUM, also num_parts and TARGET_PARTS
  PointNum,     \* npts of the base file
  Coord,        \* [point]: its vector
  Unit,         \* what the vectors are multiples of
  SampleMin,    \* the least number of points gen_random_slice takes
  MaxReps,      \* max_k_means_reps
  BlockSize,    \* BLOCK_SIZE
  ChunkSize,    \* points of one iteration of the parallel loop, 8192
  Lambdas,      \* values of ComputeLambda once there are points
  Garbage,      \* what the word behind a list of ids may hold
  GraphTypes,   \* values of graph_type to consider
  DataTypes     \* values of data_type to consider

Point == 0 .. PointNum - 1
Part == 0 .. MachineNum - 1
Kind == {"rp", "norp"}

ASSUME PartitionAssumption ==
  /\ {MachineNum, PointNum, Unit, MaxReps, BlockSize, ChunkSize, SampleMin}
       \subseteq Nat \ {0}
  /\ Coord \in [Point -> Int]
  /\ Lambdas \subseteq Nat
  /\ GraphTypes \subseteq {"SCALA_V3", "SharedNothing", "KmeansSharedNothing"}
  /\ DataTypes \subseteq {"float", "uint8", "int8"}

VARIABLES
  graphType,  \* index_param.graph_type
  dataType,   \* index_param.data_type
  stage,      \* what machine 0 does in partition()
  sample,     \* points of train_data_float
  pivots,     \* pivot_data, a sequence while pivots are being selected
  rep,        \* iterations of run_lloyds
  residual,   \* residual of the last one
  block,      \* current block of shard_data_into_clusters_*
  lambda,     \* [kind]: lambda of this block
  stats,      \* [kind][part]: count of the cluster statistics
  center,     \* [point]: block_closest_centers, <<>> before it is known
  merging,    \* [chunk]: clusters added to stats in the critical section
  idmap,      \* [kind][part]: the file of ids
  base        \* [kind][part]: the file of vectors, as points

jobVars == <<graphType, dataType>>
kmeansVars == <<sample, pivots, rep, residual>>
assignVars == <<block, lambda, stats, center, merging>>
fileVars == <<idmap, base>>
partitionVars == <<jobVars, stage, kmeansVars, assignVars, fileVars>>

(* partition() of ScalaBuild sets replica_num on every machine.            *)
ReplicaNum == IF graphType = "SCALA_V3" THEN 2 ELSE 1

(* A set in the order of Before; the ids of a set ascending.               *)
Sorted(S, Before(_, _)) ==
  [k \in 1 .. Cardinality(S) |->
     CHOOSE x \in S : Cardinality({y \in S : Before(y, x)}) = k - 1]
Ascending(S) == Sorted(S, <)

NoFile == [k \in Kind |-> [m \in Part |-> <<>>]]

PartitionInit ==
  /\ graphType \in GraphTypes /\ dataType \in DataTypes
  /\ stage = IF graphType = "SharedNothing" THEN "random" ELSE "sample"
  /\ sample = {} /\ pivots = <<>> /\ rep = 0 /\ residual = 0
  /\ block = 0
  /\ lambda = [k \in Kind |-> 0]
  /\ stats = [k \in Kind |-> [m \in Part |-> 0]]
  /\ center = [v \in Point |-> <<>>]
  /\ merging = <<>>
  /\ idmap = NoFile /\ base = NoFile

Goto(s) == stage' = s /\ UNCHANGED jobVars

-----------------------------------------------------------------------------
(* gen_random_slice: with at most 500000 points the rate is 1 and all are  *)
(* taken.                                                                  *)
GenRandomSlice ==
  /\ stage = "sample"
  /\ \E s \in SUBSET Point : Cardinality(s) >= SampleMin /\ sample' = s
  /\ Goto("pivots")
  /\ UNCHANGED <<pivots, rep, residual, assignVars, fileVars>>

(* calc_distance.                                                          *)
Dist(x, y) == (x - y) * (x - y)

(* kmeanspp_selecting_pivots: the dart hits a point with a probability     *)
(* proportional to its distance from the pivots.  When all distances are 0 *)
(* the scan ends at the last point, which is taken even if it was picked.  *)
SelectPivot ==
  LET far == {v \in sample : \A k \in 1 .. Len(pivots) :
                               Dist(Coord[v], pivots[k]) > 0}
  IN  /\ stage = "pivots"
      /\ \E v \in IF far # {} THEN far ELSE {Max(sample)} :
            pivots' = Append(pivots, Coord[v])
      /\ Goto(IF Len(pivots) + 1 = MachineNum THEN "lloyd" ELSE "pivots")
      /\ UNCHANGED <<sample, rep, residual, assignVars, fileVars>>

(* compute_closest_centers with k = 1: the first of the closest centers.   *)
Closest(v) ==
  CHOOSE k \in 1 .. Len(pivots) :
    /\ \A l \in 1 .. Len(pivots) :
         Dist(Coord[v], pivots[k]) <= Dist(Coord[v], pivots[l])
    /\ \A l \in 1 .. k - 1 :
         Dist(Coord[v], pivots[l]) > Dist(Coord[v], pivots[k])

(* The mean of a cluster; an empty one is left at 0 by the memset.         *)
Mean(docs) ==
  IF docs = {} THEN 0
  ELSE MapThenSumSet(LAMBDA v : Coord[v], docs) \div Cardinality(docs)

(* lloyds_iter: the centers that the points closest to each of them give.  *)
LloydsIter ==
  [k \in 1 .. Len(pivots) |-> Mean({v \in sample : Closest(v) = k})]

(* run_lloyds: one iteration and the test for early termination.           *)
RunLloyds ==
  /\ stage = "lloyd"
  /\ pivots' = LloydsIter
  /\ residual' = MapThenSumSet(LAMBDA v : Dist(Coord[v], LloydsIter[Closest(v)]),
                               sample)
  /\ rep' = rep + 1
  /\ Goto(IF \/ rep + 1 = MaxReps
             \/ residual' = 0
             \/ rep # 0 /\ (residual - residual') * 100000 < residual'
          THEN "lambda" ELSE "lloyd")
  /\ UNCHANGED <<sample, assignVars, fileVars>>

-----------------------------------------------------------------------------
(* Assignment of one block.                                                *)
BlockPoints == {v \in Point : v \div BlockSize = block}
ChunkPoints(c) == {v \in BlockPoints : (v % BlockSize) \div ChunkSize = c}
Chunks == {c \in Point : ChunkPoints(c) # {}}

(* ComputeLambda: 0 as long as no point has been assigned.                 *)
LambdaOf(kind) ==
  IF \A m \in Part : stats[kind][m] = 0 THEN {0} ELSE Lambdas

(* The start of a block: both factors, all chunks at their first point.    *)
(* With fewer centers than shards of a point nothing is assigned (k >      *)
(* num_centers): all centers stay 0 and a point is written to the ids of   *)
(* shard 0 once for each.  The pass over the data finds every point once,  *)
(* so that retrieve_shard_data_from_ids aborts.                            *)
ComputeLambda ==
  /\ stage = "lambda"
  /\ \E ln \in LambdaOf("norp"), lr \in LambdaOf("rp") :
        lambda' = [k \in Kind |-> IF k = "norp" THEN ln ELSE lr]
  /\ merging' = [c \in Chunks |-> 0]
  /\ Goto(IF ReplicaNum > MachineNum THEN "failed" ELSE "assign")
  /\ UNCHANGED <<kmeansVars, block, stats, center, fileVars>>

(* A weighted distance as a fraction.  The clusters of float data shrink   *)
(* the distance by a factor of their size (compute_balance_closest_centers *)
(* does so for every type), the others add to it.                          *)
Weighted(v, m, kind) ==
  LET d == Dist(Coord[v], pivots[m + 1])
      n == lambda[kind] * stats[kind][m]
  IN  IF dataType = "float" \/ ReplicaNum = 1
      THEN [num |-> d * n, den |-> n + 1]
      ELSE [num |-> d + n, den |-> 1]

Lighter(a, b) == a.num * b.den < b.num * a.den

(* The owner: the first center with the least weighted distance.           *)
Owner(v) ==
  CHOOSE m \in Part :
    /\ \A o \in Part : ~Lighter(Weighted(v, o, "norp"), Weighted(v, m, "norp"))
    /\ \A o \in 0 .. m - 1 :
         Lighter(Weighted(v, m, "norp"), Weighted(v, o, "norp"))

(* Mutant: the owner is not taken out of the heap.                         *)
ReplicasOfAll(v) ==
  {m \in Part : \A o \in Part : ~Lighter(Weighted(v, o, "rp"), Weighted(v, m, "rp"))}

(* The further shards come from a heap without an order among equals.      *)
Replicas(v) ==
  {m \in Part \ {Owner(v)} :
     \A o \in Part \ {Owner(v)} :
        ~Lighter(Weighted(v, o, "rp"), Weighted(v, m, "rp"))}

(* compute_balance_norp_rp_closest_centers_in_block (two shards) and       *)
(* compute_balance_closest_centers_in_block (one): the next point of a     *)
(* chunk, with the statistics as they are now.                             *)
AssignPoint(c) ==
  LET todo == {v \in ChunkPoints(c) : center[v] = <<>>}
      v == Min(todo)
  IN  /\ stage = "assign" /\ todo # {}
      /\ IF ReplicaNum = 1 THEN center' = [center EXCEPT ![v] = <<Owner(v)>>]
         ELSE \E m \in Replicas(v) :
                center' = [center EXCEPT ![v] = <<Owner(v), m>>]
      /\ UNCHANGED <<jobVars, stage, kmeansVars, block, lambda, stats,
                     merging, fileVars>>

(* local_norp_stats and local_rp_stats of a chunk.                         *)
LocalCount(c, kind, m) ==
  Cardinality({v \in ChunkPoints(c) :
     IF kind = "norp" THEN center[v][1] = m ELSE m \in Range(center[v])})

(* The critical section at the end of a chunk, cluster by cluster: other   *)
(* threads read the counts meanwhile.                                      *)
MergeStats(c) ==
  LET m == merging[c]
  IN  /\ stage = "assign" /\ m < MachineNum
      /\ \A v \in ChunkPoints(c) : center[v] # <<>>
      /\ \A d \in Chunks \ {c} : merging[d] \in {0, MachineNum}
      /\ stats' = [k \in Kind |-> [stats[k] EXCEPT ![m] = @ + LocalCount(c, k, m)]]
      /\ merging' = [merging EXCEPT ![c] = m + 1]
      /\ UNCHANGED <<jobVars, stage, kmeansVars, block, lambda, center,
                     fileVars>>

(* The points of a block that go to a file of ids, in order.               *)
Listed(kind, m) ==
  Ascending({v \in BlockPoints :
     IF kind = "norp" THEN center[v][1] = m ELSE m \in Range(center[v])})

(* shard_data_into_clusters_with_and_without_replica and _without_replica: *)
(* all threads have joined; the ids of the block are appended.             *)
WriteBlock ==
  /\ stage = "assign"
  /\ \A c \in Chunks : merging[c] = MachineNum
  /\ idmap' = [k \in Kind |-> [m \in Part |->
                 IF k = "rp" /\ ReplicaNum = 1 THEN <<>>
                 ELSE idmap[k][m] \o Listed(k, m)]]
  /\ block' = block + 1
  /\ Goto(IF (block + 1) * BlockSize >= PointNum THEN "retrieve" ELSE "lambda")
  /\ UNCHANGED <<kmeansVars, lambda, stats, center, merging, base>>

(* shard_data_into_random: ranges of npts / num_centers points.  A shard   *)
(* number out of range is an access behind the array of writers.           *)
ShardIntoRandom ==
  /\ stage = "random"
  /\ LET size == PointNum \div MachineNum
         bad == size = 0 \/ (PointNum - 1) \div size >= MachineNum
     IN  IF bad THEN Goto("failed") /\ UNCHANGED idmap
         ELSE /\ idmap' = [idmap EXCEPT !["norp"] = [m \in Part |->
                   Ascending({v \in Point : v \div size = m})]]
              /\ Goto("retrieve")
  /\ UNCHANGED <<kmeansVars, assignVars, base>>

-----------------------------------------------------------------------------
(* One pass over the base file with a position in the list of ids.  The    *)
(* version for all shards does not stop at the end of the list and then    *)
(* compares with the word behind it.                                       *)
Walk(ids, behind) ==
  FoldLeft(LAMBDA done, v :
             IF \/ Len(done) < Len(ids) /\ ids[Len(done) + 1] = v
                \/ Len(done) = Len(ids) /\ behind = v
             THEN Append(done, v) ELSE done,
           <<>>, [k \in 1 .. PointNum |-> k - 1])

(* retrieve_shard_data_from_ids for all shards aborts when a file has not  *)
(* the expected length.                                                    *)
RetrieveAllShards ==
  /\ stage = "retrieve" /\ graphType # "SharedNothing"
  /\ \E g \in Garbage :
       /\ base' = [k \in Kind |-> [m \in Part |->
                     IF k = "rp" /\ ReplicaNum = 1 THEN <<>>
                     ELSE Walk(idmap[k][m], g)]]
       /\ Goto(IF \E k \in Kind, m \in Part :
                     Len(base'[k][m]) # Len(idmap[k][m])
               THEN "failed" ELSE "partitioned")
  /\ UNCHANGED <<kmeansVars, assignVars, idmap>>

(* The version for one shard stops at the end of the ids and does not      *)
(* check.                                                                  *)
RetrieveShard ==
  /\ stage = "retrieve" /\ graphType = "SharedNothing"
  /\ base' = [base EXCEPT !["norp"] = [m \in Part |-> Walk(idmap["norp"][m], -1)]]
  /\ Goto("partitioned")
  /\ UNCHANGED <<kmeansVars, assignVars, idmap>>

KmeansPartition ==
  \/ GenRandomSlice \/ SelectPivot \/ RunLloyds \/ ComputeLambda
  \/ \E c \in Chunks : AssignPoint(c) \/ MergeStats(c)
  \/ WriteBlock \/ RetrieveAllShards

RandomPartition == ShardIntoRandom \/ RetrieveShard

PartitionNext == KmeansPartition \/ RandomPartition

-----------------------------------------------------------------------------
(* The files of ids and vectors are right whatever the threads of a block  *)
(* read of the statistics: every point has one owner, is indexed by        *)
(* ReplicaNum shards of which the owner is one, and the vectors are in the *)
(* order of the ids, which is ascending as collect_replica_partition,      *)
(* merge_replica_partition and the positions of write_partition_info need. *)
ShardsRight ==
  stage = "partitioned" =>
    /\ \A v \in Point :
         /\ Cardinality({m \in Part : v \in Range(idmap["norp"][m])}) = 1
         /\ ReplicaNum > 1 =>
              /\ Cardinality({m \in Part : v \in Range(idmap["rp"][m])})
                   = ReplicaNum
              /\ \A m \in Part : v \in Range(idmap["norp"][m])
                                   => v \in Range(idmap["rp"][m])
    /\ \A k \in Kind, m \in Part :
         /\ base[k][m] = idmap[k][m]
         /\ \A a, b \in 1 .. Len(idmap[k][m]) :
              a < b => idmap[k][m][a] < idmap[k][m][b]

=============================================================================
