--------------------------- MODULE IndexBuildProofs ---------------------------
(***************************************************************************)
(* Proofs about the distributed build, for every number of machines,       *)
(* points and threads, every graph that Index::build may give and every    *)
(* order of the messages.                                                  *)
(*                                                                         *)
(* BuildInv adds to the invariant of the partition what the machines tell  *)
(* each other about remote neighbours: everybody is told the same, so the  *)
(* offsets that sender and receiver add up agree.  NumInv follows points   *)
(* from the files of the partition to the ones a search program reads:     *)
(* the position of a point is its place in the shards laid one behind the  *)
(* other (Numbered), write_partition_info writes that (Mapped), and vector *)
(* and label of every file are those of the position.                      *)
(***************************************************************************)
EXTENDS IndexBuild, PartitionProofs

-----------------------------------------------------------------------------
(* The build around it.                                                    *)

(* Until machine 0 has told the others nobody goes on.                     *)
Waiting ==
  stage # "over" =>
    /\ pc[0] = "partition"
    /\ \A i \in Machine \ {0} : pc[i] = "swap" /\ net[i]["PART_INFO"][0] = <<>>

(* What the proofs need of the types.                                      *)
Shape ==
  /\ DOMAIN pc = Machine /\ DOMAIN entry = Machine /\ DOMAIN b1 = Machine
  /\ DOMAIN net = Machine /\ DOMAIN inNum = Machine
  /\ \A i \in Machine :
       /\ DOMAIN net[i] = MsgType /\ DOMAIN inNum[i] = Machine
       /\ \A t \in MsgType : DOMAIN net[i][t] = Machine

(* Where the files of write_partition_info are used.                       *)
Checked == {"collect", "round", "meta", "ids", "nghs", "sendids", "sendnghs",
            "b1", "b2"}

MapsRead ==
  /\ maps = <<>> \/ maps.size \in [Machine -> Nat]
  /\ \A i \in Machine : /\ pc[i] \in Checked => maps # <<>>
                        /\ Len(b1[i]) \in Nat

(* Where a machine is once it has told the others its numbers; the last    *)
(* three are reached without telling them, too.                            *)
Told == {"pollmeta", "ngh", "concat", "top", "done", "abort"}

MetaTo(i, j) == net[i]["SCALA_META"][j]

(* num is all that anybody else has been, or will be, told by machine j.   *)
TellsOnly(j, num) ==
  \A i \in Machine \ {j} : /\ MetaTo(i, j) \in {<<>>, <<num>>}
                           /\ inNum[i][j] \in {<<>>, num}

(* j has told nothing yet, or the same to everybody; nothing to itself.    *)
TellsSame(j) ==
  /\ pc[j] \notin Told => \A i \in Machine : MetaTo(i, j) = <<>> /\ inNum[i][j] = <<>>
  /\ \E num : num # <<>> /\ num[j] = 0 /\ TellsOnly(j, num)
  /\ MetaTo(j, j) = <<>>
  /\ inNum[j][j] \in {<<>>, [q \in Machine |-> 0]}

NumbersKnown(p) == entry[p] # <<>> => \A x \in Machine : inNum[p][x] # <<>>

BuildInv ==
  /\ PartInv /\ Waiting /\ Shape /\ MapsRead
  /\ \A j \in Machine : TellsSame(j) /\ NumbersKnown(j)

(* The machines are numbered from 0, and there is one.                     *)
LEMMA Machines ==
  /\ MachineNum \in Nat \ {0} /\ 0 \in Machine /\ Machine \subseteq Nat
  /\ Machine = Part
  /\ \A p \in Machine : 0 .. p - 1 \subseteq Machine /\ p \notin 0 .. p - 1
BY PartitionAssumption DEF Machine, Part

(* The invariant of the build holds at the start.                          *)
LEMMA BuildInitialised == Init => BuildInv
<1> SUFFICES ASSUME Init PROVE BuildInv
  OBVIOUS
<1> USE DEF Init
<1>1. PartInv
  BY PartInitialised
<1>2. Shape
  BY DEF Shape, NoMsg
<1>3. \A i, j \in Machine : MetaTo(i, j) = <<>> /\ inNum[i][j] = <<>>
  BY DEF MetaTo, NoMsg, MsgType
<1>4. Waiting
  BY Machines DEF Waiting, NoMsg, MsgType
<1>5. MapsRead
  BY DEF MapsRead, Checked
<1>6. ASSUME NEW j \in Machine PROVE TellsSame(j) /\ NumbersKnown(j)
  <2> DEFINE num == [q \in Machine |-> 0]
  <2>1. num # <<>> /\ num[j] = 0
    BY Machines
  <2> HIDE DEF num
  <2> QED
    BY <1>3, <2>1 DEF TellsSame, TellsOnly, NumbersKnown
<1> QED
  BY <1>1, <1>2, <1>4, <1>5, <1>6 DEF BuildInv

(* A machine that has gone on shows that the partition is over ...         *)
LEMMA PartitionOver ==
  ASSUME BuildInv, NEW i \in Machine,
         \/ pc[i] \notin {"partition", "swap"}
         \/ i = 0 /\ pc[i] = "swap"
         \/ i # 0 /\ net[i]["PART_INFO"][0] # <<>>
  PROVE  stage = "over"
BY DEF BuildInv, Waiting

(* ... and then only the vectors may change.                               *)
LEMMA OverKeeps ==
  ASSUME BuildInv, stage = "over",
         UNCHANGED <<jobVars, stage, kmeansVars, assignVars, idmap>>
  PROVE  PartInv' /\ Waiting'
<1>1. ReplicaNum' = ReplicaNum
  BY DEF ReplicaNum, jobVars
<1>2. PartTypes'
  BY <1>1 DEF BuildInv, PartInv, PartTypes, IsCenter, kmeansVars, assignVars
<1> QED
  BY <1>2 DEF PartInv, Stages, BlocksWritten, ChunkMerged, Assigning, Waiting

(* Steps that exchange no numbers of neighbours.                           *)
LEMMA MetaKept ==
  ASSUME BuildInv, Shape', MapsRead', PartInv' /\ Waiting',
         \A i, j \in Machine : MetaTo(i, j)' = MetaTo(i, j),
         UNCHANGED <<inNum, entry>>,
         \A j \in Machine : pc'[j] \notin Told => pc[j] \notin Told
  PROVE  BuildInv'
<1>1. ASSUME NEW j \in Machine PROVE TellsSame(j)' /\ NumbersKnown(j)'
  <2>1. TellsSame(j) /\ NumbersKnown(j)
    BY DEF BuildInv
  <2>2. PICK num : num # <<>> /\ num[j] = 0 /\ TellsOnly(j, num)
    BY <2>1 DEF TellsSame
  <2>3. TellsOnly(j, num)'
    BY <2>2 DEF TellsOnly
  <2>4. \E n : n # <<>> /\ n[j] = 0 /\ TellsOnly(j, n)'
    BY <2>2, <2>3
  <2> QED
    BY <2>1, <2>4 DEF TellsSame, NumbersKnown
<1> QED
  BY <1>1 DEF BuildInv

(* Where the places of the messages do not change.                         *)
LEMMA SendKept ==
  ASSUME Shape, NEW m, NEW type \in MsgType, NEW i, NEW msgs,
         net' = [net EXCEPT ![m][type][i] = msgs]
  PROVE  /\ DOMAIN net' = Machine
         /\ \A k \in Machine : /\ DOMAIN net'[k] = MsgType
                               /\ \A t \in MsgType : DOMAIN net'[k][t] = Machine
         /\ type # "SCALA_META" => \A k, j \in Machine : MetaTo(k, j)' = MetaTo(k, j)
BY DEF Shape, MetaTo, MsgType

(* The same for a message to all.                                          *)
LEMMA SendAllKept ==
  ASSUME Shape, NEW type \in MsgType, NEW i, NEW msgs, SendAll(i, type, msgs)
  PROVE  /\ DOMAIN net' = Machine
         /\ \A k \in Machine : /\ DOMAIN net'[k] = MsgType
                               /\ \A t \in MsgType : DOMAIN net'[k][t] = Machine
         /\ type # "SCALA_META" => \A k, j \in Machine : MetaTo(k, j)' = MetaTo(k, j)
BY DEF Shape, MetaTo, MsgType, SendAll

(* A step that tells nobody a number of neighbours.                        *)
NetQuiet ==
  /\ DOMAIN net' = Machine
  /\ \A k \in Machine : /\ DOMAIN net'[k] = MsgType
                        /\ \A t \in MsgType : DOMAIN net'[k][t] = Machine
  /\ \A k, j \in Machine : MetaTo(k, j)' = MetaTo(k, j)

OverStep == stage = "over" /\ UNCHANGED <<jobVars, stage, kmeansVars, assignVars, idmap>>

(* Without messages nothing is told.                                       *)
LEMMA NetSame == Shape /\ UNCHANGED net => NetQuiet
BY DEF Shape, NetQuiet, MetaTo

(* One machine goes on and tells no numbers.                               *)
LEMMA QuietStep ==
  ASSUME BuildInv, OverStep, NetQuiet, NEW i \in Machine, NEW s,
         pc' = [pc EXCEPT ![i] = s], UNCHANGED <<maps, b1, inNum, entry>>,
         s \in Checked => maps # <<>>, s \notin Told => pc[i] \notin Told
  PROVE  BuildInv'
<1>1. PartInv' /\ Waiting'
  BY OverKeeps DEF OverStep
<1>2. Shape /\ MapsRead
  BY DEF BuildInv
<1>3. Shape'
  BY <1>2 DEF Shape, NetQuiet
<1>4. \A j \in Machine : pc'[j] = IF j = i THEN s ELSE pc[j]
  BY <1>2 DEF Shape
<1>5. MapsRead'
  BY <1>2, <1>4 DEF MapsRead
<1>6. \A j \in Machine : pc'[j] \notin Told => pc[j] \notin Told
  BY <1>4
<1> QED
  BY <1>1, <1>3, <1>5, <1>6, MetaKept DEF NetQuiet

(* No machine goes on and no numbers are told.                             *)
LEMMA StillStep ==
  ASSUME BuildInv, OverStep, NetQuiet, UNCHANGED <<pc, maps, b1, inNum, entry>>
  PROVE  BuildInv'
<1>1. PartInv' /\ Waiting'
  BY OverKeeps DEF OverStep
<1>2. Shape /\ MapsRead
  BY DEF BuildInv
<1>3. Shape'
  BY <1>2 DEF Shape, NetQuiet
<1>4. MapsRead'
  BY <1>2 DEF MapsRead
<1> QED
  BY <1>1, <1>3, <1>4, MetaKept DEF NetQuiet

(* A machine past the partition shows that it is over.                     *)
LEMMA Gone == BuildInv => \A i \in Machine : pc[i] \in Checked \cup Told \cup
                {"build", "info", "check", "scalameta"} => stage = "over"
BY DEF BuildInv, Waiting, Checked, Told

(* The phases before the numbers are exchanged.                            *)
LEMMA FirstPhases ==
  ASSUME BuildInv, NEW i \in Machine,
         \/ PollPartitionInfo(i) \/ Build(i) \/ Checkpoint(i)
         \/ CollectReplicaPartition(i) \/ StartCollect(i) \/ Collected(i)
         \/ MergeReplicaPartition(i)
         \/ i = 0 /\ PostPartitionInfo
  PROVE  BuildInv'
<1> USE DEF At, Go, GoSync
<1>0. Shape /\ MapsRead
  BY DEF BuildInv
<1>1. CASE PollPartitionInfo(i)
  <2>1. OverStep
    BY <1>1, PartitionOver DEF PollPartitionInfo, OverStep, partitionVars, fileVars
  <2>2. NetQuiet
    <3>1. net' = [net EXCEPT ![i]["PART_INFO"][0] = Tail(net[i]["PART_INFO"][0])]
      BY <1>1 DEF PollPartitionInfo, Take
    <3> QED
      BY <1>0, <3>1, SendKept DEF NetQuiet, MsgType
  <2> QED
    BY <1>1, <2>1, <2>2, QuietStep DEF PollPartitionInfo, scalaVars, Checked, Told
<1>2. CASE i = 0 /\ PostPartitionInfo
  <2>1. OverStep
    BY <1>2, PartitionOver DEF PostPartitionInfo, OverStep, partitionVars, fileVars
  <2>2. NetQuiet
    <3>1. SendAll(0, "PART_INFO", [m \in Machine |-> <<"info">>])
      BY <1>2 DEF PostPartitionInfo
    <3>2. "PART_INFO" \in MsgType
      BY DEF MsgType
    <3> QED
      BY <1>0, <3>1, <3>2, SendAllKept DEF NetQuiet
  <2> QED
    BY <1>2, <2>1, <2>2, QuietStep DEF PostPartitionInfo, scalaVars, Checked, Told
<1>3. CASE Build(i)
  <2>1. pc[i] = "build"
    BY <1>3 DEF Build
  <2>2. stage = "over"
    BY <2>1, Gone
  <2>3. OverStep /\ NetQuiet
    BY <1>0, <1>3, <2>2, NetSame DEF Build, OverStep
  <2>4. \E s \in {"abort", "done", "info"} : pc' = [pc EXCEPT ![i] = s]
    BY <1>3 DEF Build
  <2>5. UNCHANGED <<maps, b1, inNum, entry>>
    BY <1>3 DEF Build, scalaVars
  <2> QED
    BY <2>1, <2>3, <2>4, <2>5, QuietStep DEF Checked, Told
<1>4. CASE Checkpoint(i)
  <2>1. OverStep /\ NetQuiet
    <3>1. stage = "over"
      BY <1>4, Gone DEF Checkpoint
    <3> QED
      BY <1>0, <1>4, <3>1, NetSame DEF Checkpoint, OverStep, partitionVars, fileVars
  <2>2. PICK s : /\ pc' = [pc EXCEPT ![i] = s] /\ (s \in Checked => maps # <<>>)
                 /\ pc[i] \notin Told
    BY <1>4 DEF Checkpoint, Checked, Told
  <2>3. UNCHANGED <<maps, b1, inNum, entry>>
    BY <1>4 DEF Checkpoint, scalaVars
  <2> QED
    BY <2>1, <2>2, <2>3, QuietStep
<1>5. CASE \/ CollectReplicaPartition(i) \/ StartCollect(i) \/ Collected(i)
           \/ MergeReplicaPartition(i)
  <2>1. pc[i] \in Checked /\ pc[i] \notin Told
    BY <1>5 DEF CollectReplicaPartition, StartCollect, Collected, MergeReplicaPartition,
                Checked, Told
  <2>2. OverStep /\ NetQuiet
    <3>1. stage = "over"
      BY <2>1, Gone
    <3> QED
      BY <1>0, <1>5, <3>1, NetSame
         DEF CollectReplicaPartition, StartCollect, Collected, MergeReplicaPartition,
             OverStep, partitionVars, fileVars
  <2>3. maps # <<>>
    BY <1>0, <2>1 DEF MapsRead
  <2>4. \E s : pc' = [pc EXCEPT ![i] = s]
    BY <1>5 DEF CollectReplicaPartition, StartCollect, Collected, MergeReplicaPartition
  <2>5. UNCHANGED <<maps, b1, inNum, entry>>
    BY <1>5 DEF CollectReplicaPartition, StartCollect, Collected, MergeReplicaPartition,
                scalaVars
  <2> QED
    BY <2>1, <2>2, <2>3, <2>4, <2>5, QuietStep
<1> QED
  BY <1>1, <1>2, <1>3, <1>4, <1>5

(* The messages of the exchange of replicas and of remote neighbours.      *)
LEMMA Exchanges ==
  ASSUME BuildInv, NEW i \in Machine,
         \/ \E j \in Machine : PollBuild(i, j) \/ RecvNgh(i, j)
         \/ SendDispatchMeta(i) \/ SendDispatchIds(i) \/ SendDispatchNghs(i)
         \/ SendNgh(i)
  PROVE  BuildInv'
<1> USE DEF At, Go, GoSync
<1>0. Shape /\ MapsRead
  BY DEF BuildInv
<1>1. ASSUME NEW j \in Machine, PollBuild(i, j) PROVE BuildInv'
  <2>1. pc[i] \in Checked /\ pc[i] \notin Told
    BY <1>1 DEF PollBuild, Polling, Checked, Told
  <2>2. OverStep
    <3>1. stage = "over"
      BY <2>1, Gone
    <3> QED
      BY <1>1, <3>1 DEF PollBuild, OverStep, partitionVars, fileVars
  <2>3. NetQuiet
    <3>1. PICK type \in {"DISPATCH_META", "DISPATCH_ID", "DISPATCH_NGH"} :
            net' = [net EXCEPT ![i][type][j] = Tail(net[i][type][j])]
      BY <1>1 DEF PollBuild, Take
    <3>2. type \in MsgType /\ type # "SCALA_META"
      BY DEF MsgType
    <3> QED
      BY <1>0, <3>1, <3>2, SendKept DEF NetQuiet
  <2>4. \E s : pc' = [pc EXCEPT ![i] = s]
    BY <1>1 DEF PollBuild
  <2>5. UNCHANGED <<maps, b1, inNum, entry>> /\ maps # <<>>
    BY <1>0, <1>1, <2>1 DEF PollBuild, scalaVars, MapsRead
  <2> QED
    BY <2>1, <2>2, <2>3, <2>4, <2>5, QuietStep
<1>2. ASSUME NEW j \in Machine, RecvNgh(i, j) PROVE BuildInv'
  <2>1. pc[i] = "ngh" /\ pc' = pc
    BY <1>2 DEF RecvNgh
  <2>2. OverStep
    <3>1. stage = "over"
      BY <2>1, Gone DEF Told
    <3> QED
      BY <1>2, <3>1 DEF RecvNgh, OverStep, partitionVars, fileVars
  <2>3. NetQuiet
    <3>1. net' = [net EXCEPT ![i]["SCALA_NGH"][j] = Tail(net[i]["SCALA_NGH"][j])]
      BY <1>2 DEF RecvNgh, Take
    <3> QED
      BY <1>0, <3>1, SendKept DEF NetQuiet, MsgType
  <2>4. UNCHANGED <<maps, b1, inNum, entry>>
    BY <1>2 DEF RecvNgh
  <2> QED
    BY <2>1, <2>2, <2>3, <2>4, StillStep
<1>3. CASE SendDispatchMeta(i) \/ SendDispatchIds(i) \/ SendDispatchNghs(i)
  <2>1. pc[i] \in Checked /\ pc[i] \notin Told
    BY <1>3 DEF SendDispatchMeta, SendDispatchIds, SendDispatchNghs, Checked, Told
  <2>2. OverStep
    <3>1. stage = "over"
      BY <2>1, Gone
    <3> QED
      BY <1>3, <3>1 DEF SendDispatchMeta, SendDispatchIds, SendDispatchNghs, OverStep,
                        partitionVars, fileVars
  <2>3. NetQuiet
    <3>0. PICK type \in {"DISPATCH_META", "DISPATCH_ID", "DISPATCH_NGH"} :
            \E msgs : Send(i, to[i], type, msgs)
      BY <1>3 DEF SendDispatchMeta, SendDispatchIds, SendDispatchNghs
    <3>1. PICK msgs : Send(i, to[i], type, msgs)
      BY <3>0
    <3>2. type \in MsgType /\ type # "SCALA_META"
      BY DEF MsgType
    <3>3. net' = [net EXCEPT ![to[i]][type][i] = net[to[i]][type][i] \o msgs]
      BY <3>1 DEF Send
    <3> QED
      BY <1>0, <3>2, <3>3, SendKept DEF NetQuiet
  <2>4. \E s : pc' = [pc EXCEPT ![i] = s]
    BY <1>3 DEF SendDispatchMeta, SendDispatchIds, SendDispatchNghs
  <2>5. UNCHANGED <<maps, b1, inNum, entry>> /\ maps # <<>>
    BY <1>0, <1>3, <2>1 DEF SendDispatchMeta, SendDispatchIds, SendDispatchNghs,
                            scalaVars, MapsRead
  <2> QED
    BY <2>1, <2>2, <2>3, <2>4, <2>5, QuietStep
<1>4. CASE SendNgh(i)
  <2>1. pc[i] = "ngh" /\ pc' = [pc EXCEPT ![i] = "ngh"]
    BY <1>4 DEF SendNgh
  <2>2. OverStep
    <3>1. stage = "over"
      BY <2>1, Gone DEF Told
    <3> QED
      BY <1>4, <3>1 DEF SendNgh, OverStep, partitionVars, fileVars
  <2>3. NetQuiet
    <3>1. SendAll(i, "SCALA_NGH", [m \in Machine |-> Pieces(out[i][m])])
      BY <1>4 DEF SendNgh
    <3>2. "SCALA_NGH" \in MsgType
      BY DEF MsgType
    <3> QED
      BY <1>0, <3>1, <3>2, SendAllKept DEF NetQuiet
  <2>4. UNCHANGED <<maps, b1, inNum, entry>>
    BY <1>4 DEF SendNgh, scalaVars
  <2> QED
    BY <2>1, <2>2, <2>3, <2>4, QuietStep DEF Checked, Told
<1> QED
  BY <1>1, <1>2, <1>3, <1>4

(* Steps that write files of their own.                                    *)
LEMMA OwnFiles ==
  ASSUME BuildInv, NEW i \in Machine,
         \/ NghRoundEnd(i) \/ WriteScala(i)
         \/ i = 0 /\ MergeAllB1
         \/ i = 0 /\ SaveTopIndex
  PROVE  BuildInv'
<1> USE DEF At, Go, GoSync
<1>0. Shape
  BY DEF BuildInv
<1>1. pc[i] \in Told
  BY DEF NghRoundEnd, WriteScala, MergeAllB1, SaveTopIndex, Told
<1>2. OverStep /\ NetQuiet
  <2>1. stage = "over"
    BY <1>1, Gone
  <2> QED
    BY <1>0, <2>1, NetSame DEF NghRoundEnd, WriteScala, MergeAllB1, SaveTopIndex, OverStep,
       partitionVars, fileVars
<1>3. \E s \in Told : pc' = [pc EXCEPT ![i] = s]
  BY DEF NghRoundEnd, WriteScala, MergeAllB1, SaveTopIndex, Told
<1>4. UNCHANGED <<maps, b1, inNum, entry>>
  BY DEF NghRoundEnd, WriteScala, MergeAllB1, SaveTopIndex, scalaVars
<1>5. \A s \in Told : s \notin Checked
  BY DEF Told, Checked
<1> QED
  BY <1>2, <1>3, <1>4, <1>5, QuietStep

(* A step that leaves what the invariant is about.                         *)
LEMMA NothingNew ==
  ASSUME BuildInv,
         UNCHANGED <<jobVars, stage, kmeansVars, assignVars, idmap, base, pc, net, maps, b1,
                     inNum, entry>>
  PROVE  BuildInv'
<1>1. UNCHANGED <<jobVars, stage, kmeansVars, assignVars, idmap, base, pc, net, maps, b1,
                  inNum, entry>>
  OBVIOUS
<1>2. PartInv'
  <2>1. PartInv
    BY DEF BuildInv
  <2>2. /\ ReplicaNum' = ReplicaNum /\ Chunks' = Chunks
        /\ \A d : ChunkPoints(d)' = ChunkPoints(d)
    BY <1>1 DEF ReplicaNum, jobVars, Chunks, ChunkPoints, BlockPoints, assignVars
  <2>3. \A k \in Kind, m \in Part : Home(k, m)' = Home(k, m)
    BY <1>1, <2>2 DEF Home, Belongs, assignVars
  <2>4. PartTypes'
    BY <1>1, <2>1, <2>2 DEF PartInv, PartTypes, IsCenter, kmeansVars, assignVars
  <2>5. Stages'
    BY <1>1, <2>1 DEF PartInv, Stages, kmeansVars, jobVars
  <2>6. BlocksWritten'
    BY <1>1, <2>1, <2>3 DEF PartInv, BlocksWritten, assignVars
  <2>7. ChunkMerged'
    BY <1>1, <2>1, <2>2 DEF PartInv, ChunkMerged, assignVars
  <2>8. FilesRight' <=> FilesRight
    BY <1>1, <2>2 DEF FilesRight, Filed
  <2> QED
    BY <1>1, <2>1, <2>4, <2>5, <2>6, <2>7, <2>8 DEF PartInv
<1>3. Waiting'
  BY <1>1 DEF BuildInv, Waiting
<1>4. Shape' /\ MapsRead'
  BY <1>1 DEF BuildInv, Shape, MapsRead
<1>5. \A i, j \in Machine : MetaTo(i, j)' = MetaTo(i, j)
  BY <1>1 DEF MetaTo
<1> QED
  BY <1>1, <1>2, <1>3, <1>4, <1>5, MetaKept

(* The steps of that kind.                                                 *)
LEMMA StillSteps ==
  ASSUME BuildInv,
         \/ \E i \in Machine : Sync(i) \/ LoadIndex(i)
         \/ \E t \in 1 .. TopThreads : SampleWorker(t)
         \/ \E s \in Point : AddPoint(s + 1)
         \/ Finished
  PROVE  BuildInv'
<1>1. UNCHANGED <<jobVars, stage, kmeansVars, assignVars, idmap, base, pc, net, maps, b1,
                  inNum, entry>>
  BY DEF Sync, LoadIndex, SampleWorker, AddPoint, Finished, vars, buildVars, partitionVars,
         scalaVars, fileVars
<1> QED
  BY <1>1, NothingNew

(* The partition itself.                                                   *)
LEMMA Partitioning == PartitionNext => stage # "over"
<1> USE DEF Goto
<1>1. GenRandomSlice => stage = "sample"
  BY DEF GenRandomSlice
<1>2. SelectPivot => stage = "pivots"
  BY DEF SelectPivot
<1>3. RunLloyds => stage = "lloyd"
  BY DEF RunLloyds
<1>4. ComputeLambda => stage = "lambda"
  BY DEF ComputeLambda
<1>5. \A c : AssignPoint(c) => stage = "assign"
  BY DEF AssignPoint
<1>6. \A c : MergeStats(c) => stage = "assign"
  BY DEF MergeStats
<1>7. WriteBlock => stage = "assign"
  BY DEF WriteBlock
<1>8. RetrieveAllShards => stage = "retrieve"
  BY DEF RetrieveAllShards
<1>9. RandomPartition => stage \in {"random", "retrieve"}
  BY DEF RandomPartition, ShardIntoRandom, RetrieveShard
<1> QED
  BY <1>1, <1>2, <1>3, <1>4, <1>5, <1>6, <1>7, <1>8, <1>9
     DEF PartitionNext, KmeansPartition

(* machine 0 partitions the points while the others wait.                  *)
LEMMA PartitionSteps ==
  ASSUME BuildInv, PartitionStep \/ PartitionEnd PROVE BuildInv'
<1>0. Shape /\ MapsRead /\ 0 \in Machine
  BY Machines DEF BuildInv
<1>1. CASE PartitionStep
  <2>1. UNCHANGED <<pc, net, maps, b1, inNum, entry>> /\ PartitionNext
    BY <1>1 DEF PartitionStep, buildVars, scalaVars
  <2>2. PartInv'
    BY <2>1, PartitionKeeps DEF BuildInv
  <2>3. stage # "over"
    BY <2>1, Partitioning
  <2>4. Waiting'
    BY <2>1, <2>3 DEF BuildInv, Waiting
  <2>5. Shape' /\ MapsRead'
    BY <1>0, <2>1 DEF Shape, MapsRead
  <2>6. \A i, j \in Machine : MetaTo(i, j)' = MetaTo(i, j)
    BY <2>1 DEF MetaTo
  <2> QED
    BY <2>1, <2>2, <2>4, <2>5, <2>6, MetaKept
<1>2. CASE PartitionEnd
  <2>1. /\ stage' = "over" /\ pc[0] = "partition"
        /\ UNCHANGED <<jobVars, kmeansVars, assignVars, idmap, net, maps, b1, inNum, entry>>
    BY <1>2 DEF PartitionEnd, fileVars, scalaVars
  <2>2. PICK s \in {"abort", "swap"} : pc' = [pc EXCEPT ![0] = s]
    BY <1>2 DEF PartitionEnd, Go
  <2>3. PartInv' /\ Waiting'
    <3>1. ReplicaNum' = ReplicaNum
      BY <2>1 DEF ReplicaNum, jobVars
    <3>2. PartTypes'
      BY <2>1, <3>1 DEF BuildInv, PartInv, PartTypes, IsCenter, kmeansVars, assignVars
    <3> QED
      BY <2>1, <3>2 DEF PartInv, Stages, BlocksWritten, ChunkMerged, Assigning, Waiting
  <2>4. Shape' /\ \A j \in Machine : pc'[j] = IF j = 0 THEN s ELSE pc[j]
    BY <1>0, <2>1, <2>2 DEF Shape
  <2>5. MapsRead'
    BY <1>0, <2>1, <2>4 DEF MapsRead, Checked
  <2>6. \A i, j \in Machine : MetaTo(i, j)' = MetaTo(i, j)
    BY <2>1 DEF MetaTo
  <2>7. \A j \in Machine : pc'[j] \notin Told => pc[j] \notin Told
    BY <2>1, <2>4 DEF Told
  <2> QED
    BY <2>1, <2>3, <2>4, <2>5, <2>6, <2>7, MetaKept
<1> QED
  BY <1>1, <1>2

(* The files every machine reads, and the graphs.                          *)
LEMMA FilesRead ==
  ASSUME BuildInv, NEW i \in Machine,
         WritePartitionInfo(i) \/ TransferToB1(i) \/ TransToB2(i)
  PROVE  BuildInv'
<1> USE DEF At, Go, GoSync
<1>0. Shape /\ MapsRead /\ idmap \in [Kind -> [Part -> Seq(Point)]]
  BY DEF BuildInv, PartInv, PartTypes
<1>1. /\ pc[i] \in {"info", "b1", "b2"} /\ pc[i] \notin Told
      /\ UNCHANGED <<net, inNum, entry>>
      /\ UNCHANGED <<jobVars, stage, kmeansVars, assignVars, idmap>>
  BY DEF WritePartitionInfo, TransferToB1, TransToB2, Told, scalaVars, partitionVars,
         fileVars
<1>2. stage = "over"
  BY <1>1, Gone DEF Checked
<1>3. PartInv' /\ Waiting'
  BY <1>1, <1>2, OverKeeps
<1>4. \A j, k \in Machine : MetaTo(j, k)' = MetaTo(j, k)
  BY <1>1 DEF MetaTo
<1>5. CASE WritePartitionInfo(i)
  <2>1. /\ pc' = [pc EXCEPT ![i] = "check"] /\ b1' = b1
        /\ maps' = IF i = 0 THEN PartitionMaps ELSE maps
    BY <1>5 DEF WritePartitionInfo, scalaVars
  <2>2. Shape' /\ \A j \in Machine : pc'[j] = IF j = i THEN "check" ELSE pc[j]
    BY <1>0, <1>1, <2>1 DEF Shape
  <2>3. PartitionMaps.size \in [Machine -> Nat] /\ PartitionMaps # <<>>
    <3>1. \A m \in Machine : Len(idmap["norp"][m]) \in Nat
      BY <1>0, Machines DEF Kind
    <3> QED
      BY <3>1 DEF PartitionMaps
  <2>4. maps' = <<>> \/ maps'.size \in [Machine -> Nat]
    BY <1>0, <2>1, <2>3 DEF MapsRead
  <2>5. maps # <<>> => maps' # <<>>
    BY <2>1, <2>3
  <2>6. MapsRead'
    BY <1>0, <2>1, <2>2, <2>4, <2>5 DEF MapsRead, Checked
  <2>7. \A j \in Machine : pc'[j] \notin Told => pc[j] \notin Told
    BY <1>1, <2>2
  <2> QED
    BY <1>1, <1>3, <1>4, <2>2, <2>6, <2>7, MetaKept
<1>6. ASSUME NEW new, Len(new) \in Nat, b1' = [b1 EXCEPT ![i] = new], NEW s,
             pc' = [pc EXCEPT ![i] = s], s \notin Checked, maps' = maps
      PROVE  BuildInv'
  <2>1. Shape' /\ \A j \in Machine : pc'[j] = IF j = i THEN s ELSE pc[j]
    BY <1>0, <1>1, <1>6 DEF Shape
  <2>2. \A j \in Machine : b1'[j] = IF j = i THEN new ELSE b1[j]
    BY <1>0, <1>6 DEF Shape
  <2>3. MapsRead'
    BY <1>0, <1>6, <2>1, <2>2 DEF MapsRead
  <2>4. \A j \in Machine : pc'[j] \notin Told => pc[j] \notin Told
    BY <1>1, <2>1
  <2> QED
    BY <1>1, <1>3, <1>4, <2>1, <2>3, <2>4, MetaKept
<1>7. ASSUME b1' = b1, pc' = [pc EXCEPT ![i] = "abort"], maps' = maps
      PROVE  BuildInv'
  <2>1. OverStep /\ NetQuiet
    BY <1>0, <1>1, <1>2, NetSame DEF OverStep
  <2> QED
    BY <1>1, <1>7, <2>1, QuietStep DEF Checked, Told
<1>8. CASE TransferToB1(i)
  <2>1. maps' = maps /\ maps.size[i] \in Nat
    BY <1>0, <1>8 DEF MapsRead, TransferToB1, Checked
  <2> DEFINE new == [k \in 1 .. maps.size[i] |->
                      [ngh   |-> Remap(merged[i][k].ngh),
                       vec   |-> base["norp"][i][k],
                       label |-> maps.p2l[PartitionOfs(i) + k - 1]]]
  <2>2. Len(new) \in Nat
    BY <2>1
  <2>3. \/ b1' = b1 /\ pc' = [pc EXCEPT ![i] = "abort"]
        \/ b1' = [b1 EXCEPT ![i] = new] /\ pc' = [pc EXCEPT ![i] = "scalameta"]
    BY <1>8 DEF TransferToB1
  <2> HIDE DEF new
  <2>4. "scalameta" \notin Checked
    BY DEF Checked
  <2> QED
    BY <1>6, <1>7, <2>1, <2>2, <2>3, <2>4
<1>9. CASE TransToB2(i)
  <2> DEFINE ids == idmap["norp"][i]
             new == [k \in 1 .. Len(ids) |->
                      [ngh |-> Range(graph[i][k]), vec |-> base["norp"][i][k],
                       label |-> ids[k]]]
  <2>1. maps' = maps /\ Len(ids) \in Nat
    <3>1. maps' = maps
      BY <1>9 DEF TransToB2
    <3>2. idmap["norp"][i] \in Seq(Point)
      BY <1>0, Machines DEF Kind
    <3> QED
      BY <3>1, <3>2
  <2>2. Len(new) \in Nat
    BY <2>1
  <2>3. \/ b1' = b1 /\ pc' = [pc EXCEPT ![i] = "abort"]
        \/ b1' = [b1 EXCEPT ![i] = new]
           /\ pc' = [pc EXCEPT ![i] = IF i = 0 THEN "top" ELSE "done"]
    BY <1>9 DEF TransToB2
  <2> HIDE DEF new
  <2>4. (IF i = 0 THEN "top" ELSE "done") \notin Checked
    BY DEF Checked
  <2> QED
    BY <1>6, <1>7, <2>1, <2>2, <2>3, <2>4
<1> QED
  BY <1>5, <1>8, <1>9

(* Empty lists one behind the other are the empty list.                    *)
LEMMA FlattenEmpty ==
  ASSUME NEW n \in Nat, NEW seqs, seqs = [k \in 1 .. n |-> <<>>]
  PROVE  FlattenSeq(seqs) = <<>>
<1> DEFINE R(f) == [k \in 1 .. n |-> IF k = 1 THEN seqs[k] ELSE f[k - 1] \o seqs[k]]
           g == CHOOSE f : f = R(f)
<1>0. Len(seqs) = n
  OBVIOUS
<1>1. CASE n = 0
  BY <1>0, <1>1 DEF FlattenSeq
<1>2. CASE n # 0
  <2>1. [k \in 1 .. n |-> <<>>] = R([k \in 1 .. n |-> <<>>])
    <3>1. \A k \in 1 .. n : k # 1 => k - 1 \in 1 .. n
      OBVIOUS
    <3>2. <<>> \o <<>> = <<>>
      OBVIOUS
    <3> QED
      BY <3>1, <3>2
  <2>2. g = R(g)
    BY <2>1
  <2> HIDE DEF g
  <2> DEFINE S == {k \in Nat : k \in 1 .. n => g[k] = <<>>}
  <2>3. 0 \in S
    OBVIOUS
  <2>4. \A k \in Nat : k \in S => k + 1 \in S
    <3> SUFFICES ASSUME NEW k \in Nat, k \in S, k + 1 \in 1 .. n
                 PROVE  g[k + 1] = <<>>
      OBVIOUS
    <3>1. g[k + 1] = IF k + 1 = 1 THEN seqs[k + 1] ELSE g[k + 1 - 1] \o seqs[k + 1]
      BY <2>2
    <3>2. CASE k = 0
      BY <3>1, <3>2
    <3>3. CASE k # 0
      <4>1. g[k] = <<>> /\ k + 1 - 1 = k /\ seqs[k + 1] = <<>>
        BY <3>3
      <4> QED
        BY <3>1, <3>3, <4>1
    <3> QED
      BY <3>2, <3>3
  <2> HIDE DEF S
  <2>5. n \in S
    BY <2>3, <2>4, AllNaturals
  <2>6. g[n] = <<>>
    BY <1>2, <2>5 DEF S
  <2> QED
    BY <1>0, <1>2, <2>6 DEF FlattenSeq, g
<1> QED
  BY <1>1, <1>2

(* A machine stores nothing at itself.                                     *)
LEMMA NothingToItself ==
  ASSUME NEW i \in Machine, Len(b1[i]) \in Nat PROVE Len(OutWords(i, i)) = 0
<1> DEFINE seqs == [k \in 1 .. Len(b1[i]) |->
                      IF Away(i, b1[i][k], i) THEN NghsOn(b1[i][k], i) ELSE <<>>]
<1>1. seqs = [k \in 1 .. Len(b1[i]) |-> <<>>]
  BY DEF Away
<1> HIDE DEF seqs
<1>2. FlattenSeq(seqs) = <<>>
  BY <1>1, FlattenEmpty
<1> QED
  BY <1>2 DEF OutWords, seqs

(* The step in which a machine tells the others its numbers.               *)
LEMMA NumbersSent ==
  ASSUME BuildInv, NEW i \in Machine, SendScalaMeta(i) PROVE BuildInv'
<1>0. Shape /\ MapsRead /\ Len(b1[i]) \in Nat /\ i \in Nat
  BY Machines DEF BuildInv, MapsRead
<1>1. PICK num : num = [q \in Machine |-> Len(OutWords(i, q))]
  OBVIOUS
<1>2. num # <<>> /\ num[i] = 0
  BY <1>0, <1>1, Machines, NothingToItself
<1>3. /\ pc[i] = "scalameta" /\ SendAll(i, "SCALA_META", [m \in Machine |-> <<num>>])
      /\ inNum' = [inNum EXCEPT ![i][i] = [q \in Machine |-> 0]]
      /\ pc' = [pc EXCEPT ![i] = "pollmeta"]
  BY <1>1 DEF SendScalaMeta, At, Go
<1>4. UNCHANGED <<jobVars, stage, kmeansVars, assignVars, idmap, maps, b1, entry>>
  BY DEF SendScalaMeta, partitionVars, fileVars
<1>5. stage = "over"
  BY <1>3, Gone
<1>6. PartInv' /\ Waiting'
  BY <1>4, <1>5, OverKeeps
<1>7. \A j \in Machine : pc'[j] = IF j = i THEN "pollmeta" ELSE pc[j]
  BY <1>0, <1>3 DEF Shape
<1>8. "SCALA_META" \in MsgType
  BY DEF MsgType
<1>9. Shape'
  <2>1. /\ DOMAIN net' = Machine
        /\ \A k \in Machine : /\ DOMAIN net'[k] = MsgType
                              /\ \A t \in MsgType : DOMAIN net'[k][t] = Machine
    BY <1>0, <1>3, <1>8, SendAllKept
  <2> QED
    BY <1>0, <1>3, <1>4, <2>1 DEF Shape
<1>10. MapsRead'
  BY <1>0, <1>4, <1>7 DEF MapsRead, Checked
<1>11. \A k, j \in Machine : inNum'[k][j] = IF k = i /\ j = i THEN [q \in Machine |-> 0]
                                            ELSE inNum[k][j]
  BY <1>0, <1>3 DEF Shape
<1>12. \A k, j \in Machine : MetaTo(k, j)' = IF j = i /\ k # i THEN MetaTo(k, j) \o <<num>>
                                             ELSE MetaTo(k, j)
  BY <1>0, <1>3, <1>8 DEF Shape, MetaTo, SendAll
<1>13. \A k \in Machine : MetaTo(k, i) = <<>> /\ inNum[k][i] = <<>>
  BY <1>3 DEF BuildInv, TellsSame, Told
<1>14. \A k \in Machine \ {i} : MetaTo(k, i)' = <<num>> /\ inNum'[k][i] = <<>>
  <2>1. <<>> \o <<num>> = <<num>>
    OBVIOUS
  <2> QED
    BY <1>11, <1>12, <1>13, <2>1
<1>15. ASSUME NEW j \in Machine PROVE TellsSame(j)'
  <2>1. CASE j = i
    <3>1. TellsOnly(i, num)'
      BY <1>14 DEF TellsOnly
    <3>2. \E n : n # <<>> /\ n[i] = 0 /\ TellsOnly(i, n)'
      BY <1>2, <3>1
    <3>3. MetaTo(i, i)' = <<>> /\ inNum'[i][i] = [q \in Machine |-> 0]
      BY <1>11, <1>12, <1>13
    <3>4. pc'[i] \in Told
      BY <1>7 DEF Told
    <3> QED
      BY <2>1, <3>2, <3>3, <3>4 DEF TellsSame
  <2>2. CASE j # i
    <3>1. TellsSame(j)
      BY DEF BuildInv
    <3>2. /\ pc'[j] = pc[j]
          /\ \A k \in Machine : MetaTo(k, j)' = MetaTo(k, j) /\ inNum'[k][j] = inNum[k][j]
      BY <1>7, <1>11, <1>12, <2>2
    <3>3. PICK n : n # <<>> /\ n[j] = 0 /\ TellsOnly(j, n)
      BY <3>1 DEF TellsSame
    <3>4. TellsOnly(j, n)'
      BY <3>2, <3>3 DEF TellsOnly
    <3>5. \E x : x # <<>> /\ x[j] = 0 /\ TellsOnly(j, x)'
      BY <3>3, <3>4
    <3> QED
      BY <3>1, <3>2, <3>5 DEF TellsSame
  <2> QED
    BY <2>1, <2>2
<1>16. ASSUME NEW j \in Machine PROVE NumbersKnown(j)'
  <2>1. NumbersKnown(j)
    BY DEF BuildInv
  <2>2. [q \in Machine |-> 0] # <<>>
    BY Machines
  <2>3. \A x \in Machine : inNum[j][x] # <<>> => inNum'[j][x] # <<>>
    BY <1>11, <2>2
  <2> QED
    BY <1>4, <2>1, <2>3 DEF NumbersKnown
<1> QED
  BY <1>6, <1>9, <1>10, <1>15, <1>16 DEF BuildInv

(* The step in which it is told those of another.                          *)
LEMMA NumbersTaken ==
  ASSUME BuildInv, NEW i \in Machine, NEW j \in Machine, PollScalaMeta(i, j)
  PROVE  BuildInv'
<1>0. Shape /\ MapsRead /\ TellsSame(j)
  BY DEF BuildInv
<1>1. /\ pc[i] = "pollmeta" /\ MetaTo(i, j) # <<>>
      /\ inNum' = [inNum EXCEPT ![i][j] = Head(MetaTo(i, j))]
      /\ net' = [net EXCEPT ![i]["SCALA_META"][j] = Tail(net[i]["SCALA_META"][j])]
  BY DEF PollScalaMeta, At, Take, MetaTo
<1>2. UNCHANGED <<jobVars, stage, kmeansVars, assignVars, idmap, maps, b1, entry, pc>>
  BY DEF PollScalaMeta, partitionVars, fileVars
<1>3. stage = "over"
  BY <1>1, Gone DEF Told
<1>4. PartInv' /\ Waiting'
  BY <1>2, <1>3, OverKeeps
<1>5. PICK num : num # <<>> /\ num[j] = 0 /\ TellsOnly(j, num)
  BY <1>0 DEF TellsSame
<1>6. i # j /\ MetaTo(i, j) = <<num>>
  BY <1>0, <1>1, <1>5 DEF TellsSame, TellsOnly
<1>7. Head(MetaTo(i, j)) = num /\ Tail(MetaTo(i, j)) = <<>>
  BY <1>6
<1>8. "SCALA_META" \in MsgType
  BY DEF MsgType
<1>9. Shape'
  <2>1. /\ DOMAIN net' = Machine
        /\ \A k \in Machine : /\ DOMAIN net'[k] = MsgType
                              /\ \A t \in MsgType : DOMAIN net'[k][t] = Machine
    BY <1>0, <1>1, <1>8, SendKept
  <2> QED
    BY <1>0, <1>1, <1>2, <2>1 DEF Shape
<1>10. MapsRead'
  BY <1>0, <1>2 DEF MapsRead
<1>11. \A k, l \in Machine : inNum'[k][l] = IF k = i /\ l = j THEN num ELSE inNum[k][l]
  BY <1>0, <1>1, <1>7 DEF Shape
<1>12. \A k, l \in Machine : MetaTo(k, l)' = IF k = i /\ l = j THEN <<>> ELSE MetaTo(k, l)
  BY <1>0, <1>1, <1>7, <1>8 DEF Shape, MetaTo
<1>13. ASSUME NEW l \in Machine PROVE TellsSame(l)'
  <2>1. CASE l = j
    <3>1. TellsOnly(j, num)'
      BY <1>5, <1>11, <1>12 DEF TellsOnly
    <3>2. \E n : n # <<>> /\ n[j] = 0 /\ TellsOnly(j, n)'
      BY <1>5, <3>1
    <3>3. MetaTo(j, j)' = <<>> /\ inNum'[j][j] = inNum[j][j]
      BY <1>0, <1>6, <1>11, <1>12 DEF TellsSame
    <3>4. pc'[j] \in Told
      BY <1>0, <1>1, <1>2 DEF TellsSame
    <3> QED
      BY <1>0, <2>1, <3>2, <3>3, <3>4 DEF TellsSame
  <2>2. CASE l # j
    <3>1. TellsSame(l)
      BY DEF BuildInv
    <3>2. /\ pc'[l] = pc[l]
          /\ \A k \in Machine : MetaTo(k, l)' = MetaTo(k, l) /\ inNum'[k][l] = inNum[k][l]
      BY <1>2, <1>11, <1>12, <2>2
    <3>3. PICK n : n # <<>> /\ n[l] = 0 /\ TellsOnly(l, n)
      BY <3>1 DEF TellsSame
    <3>4. TellsOnly(l, n)'
      BY <3>2, <3>3 DEF TellsOnly
    <3>5. \E x : x # <<>> /\ x[l] = 0 /\ TellsOnly(l, x)'
      BY <3>3, <3>4
    <3> QED
      BY <3>1, <3>2, <3>5 DEF TellsSame
  <2> QED
    BY <2>1, <2>2
<1>14. ASSUME NEW l \in Machine PROVE NumbersKnown(l)'
  <2>1. NumbersKnown(l)
    BY DEF BuildInv
  <2>2. \A x \in Machine : inNum[l][x] # <<>> => inNum'[l][x] # <<>>
    BY <1>5, <1>11
  <2> QED
    BY <1>2, <2>1, <2>2 DEF NumbersKnown
<1> QED
  BY <1>4, <1>9, <1>10, <1>13, <1>14 DEF BuildInv

(* The entries are laid out when all numbers have come.                    *)
LEMMA EntriesWritten ==
  ASSUME BuildInv, NEW i \in Machine, ReformatIndex(i) PROVE BuildInv'
<1>0. Shape /\ MapsRead
  BY DEF BuildInv
<1>1. pc[i] = "pollmeta" /\ \A p \in Machine : inNum[i][p] # <<>>
  BY DEF ReformatIndex, At
<1>2. UNCHANGED <<jobVars, stage, kmeansVars, assignVars, idmap, maps, b1, inNum, net>>
  BY DEF ReformatIndex, partitionVars, fileVars
<1>3. stage = "over"
  BY <1>1, Gone DEF Told
<1>4. PartInv' /\ Waiting'
  BY <1>2, <1>3, OverKeeps
<1>5. DOMAIN entry' = Machine /\ \A k \in Machine \ {i} : entry'[k] = entry[k]
  <2>1. entry' = entry \/ \E e : entry' = [entry EXCEPT ![i] = e]
    BY DEF ReformatIndex
  <2> QED
    BY <1>0, <2>1 DEF Shape
<1>6. PICK s \in {"abort", "ngh"} : pc' = [pc EXCEPT ![i] = s]
  BY DEF ReformatIndex, Go
<1>7. \A j \in Machine : pc'[j] = IF j = i THEN s ELSE pc[j]
  BY <1>0, <1>6 DEF Shape
<1>8. Shape'
  BY <1>0, <1>2, <1>5, <1>6 DEF Shape
<1>9. MapsRead'
  BY <1>0, <1>2, <1>7 DEF MapsRead, Checked
<1>10. \A k, j \in Machine : MetaTo(k, j)' = MetaTo(k, j)
  BY <1>2 DEF MetaTo
<1>11. ASSUME NEW j \in Machine PROVE TellsSame(j)' /\ NumbersKnown(j)'
  <2>1. TellsSame(j) /\ NumbersKnown(j)
    BY DEF BuildInv
  <2>2. PICK num : num # <<>> /\ num[j] = 0 /\ TellsOnly(j, num)
    BY <2>1 DEF TellsSame
  <2>3. TellsOnly(j, num)'
    BY <1>2, <1>10, <2>2 DEF TellsOnly
  <2>4. \E n : n # <<>> /\ n[j] = 0 /\ TellsOnly(j, n)'
    BY <2>2, <2>3
  <2>5. pc'[j] \notin Told => pc[j] \notin Told
    BY <1>7 DEF Told
  <2> QED
    BY <1>1, <1>2, <1>5, <1>10, <2>1, <2>4, <2>5 DEF TellsSame, NumbersKnown
<1> QED
  BY <1>4, <1>8, <1>9, <1>11 DEF BuildInv

(* Every step of the build.                                                *)
LEMMA BuildKeeps == BuildInv /\ [Next]_vars => BuildInv'
<1> SUFFICES ASSUME BuildInv, [Next]_vars PROVE BuildInv'
  OBVIOUS
<1>0. 0 \in Machine
  BY Machines
<1>1. CASE UNCHANGED vars
  <2>1. UNCHANGED <<jobVars, stage, kmeansVars, assignVars, idmap, base, pc, net, maps, b1,
                    inNum, entry>>
    BY <1>1 DEF vars, buildVars, partitionVars, scalaVars, fileVars
  <2> QED
    BY <2>1, NothingNew
<1>2. CASE Step0
  <2>1. CASE PartitionStep \/ PartitionEnd
    BY <2>1, PartitionSteps
  <2>2. CASE PostPartitionInfo
    <3>1. PICK i \in Machine : i = 0
      BY <1>0
    <3> QED
      BY <2>2, <3>1, FirstPhases
  <2>3. CASE MergeAllB1 \/ SaveTopIndex
    <3>1. PICK i \in Machine : i = 0
      BY <1>0
    <3>2. CASE MergeAllB1
      BY <3>1, <3>2, OwnFiles
    <3>3. CASE SaveTopIndex
      BY <3>1, <3>3, OwnFiles
    <3> QED
      BY <2>3, <3>2, <3>3
  <2>4. CASE \/ \E t \in 1 .. TopThreads : SampleWorker(t)
             \/ \E s \in Point : AddPoint(s + 1)
    BY <2>4, StillSteps
  <2> QED
    BY <1>2, <2>1, <2>2, <2>3, <2>4 DEF Step0
<1>3. ASSUME NEW i \in Machine, Step(i) PROVE BuildInv'
  <2>1. CASE Sync(i) \/ LoadIndex(i)
    BY <2>1, StillSteps
  <2>2. CASE \/ PollPartitionInfo(i) \/ Build(i) \/ Checkpoint(i)
             \/ CollectReplicaPartition(i) \/ StartCollect(i) \/ Collected(i)
             \/ MergeReplicaPartition(i)
    BY <2>2, FirstPhases
  <2>3. CASE WritePartitionInfo(i) \/ TransferToB1(i) \/ TransToB2(i)
    BY <2>3, FilesRead
  <2>4. CASE SendDispatchMeta(i) \/ SendDispatchIds(i) \/ SendDispatchNghs(i) \/ SendNgh(i)
    BY <2>4, Exchanges
  <2>5. CASE \E j \in Machine : PollBuild(i, j) \/ PollScalaMeta(i, j) \/ RecvNgh(i, j)
    <3>1. PICK j \in Machine : PollBuild(i, j) \/ PollScalaMeta(i, j) \/ RecvNgh(i, j)
      BY <2>5
    <3>2. CASE PollBuild(i, j) \/ RecvNgh(i, j)
      BY <3>2, Exchanges
    <3>3. CASE PollScalaMeta(i, j)
      BY <3>3, NumbersTaken
    <3> QED
      BY <3>1, <3>2, <3>3
  <2>6. CASE SendScalaMeta(i)
    BY <2>6, NumbersSent
  <2>7. CASE ReformatIndex(i)
    BY <2>7, EntriesWritten
  <2>8. CASE NghRoundEnd(i) \/ WriteScala(i)
    <3>1. CASE NghRoundEnd(i)
      BY <3>1, OwnFiles
    <3>2. CASE WriteScala(i)
      BY <3>2, OwnFiles
    <3> QED
      BY <2>8, <3>1, <3>2
  <2> QED
    BY <1>3, <2>1, <2>2, <2>3, <2>4, <2>5, <2>6, <2>7, <2>8 DEF Step
<1>4. CASE Finished
  BY <1>4, StillSteps
<1> QED
  BY <1>1, <1>2, <1>3, <1>4 DEF Next

(* What two machines have been told by a third is the same, and neither    *)
(* counts its own words.                                                   *)
LEMMA ToldSame ==
  ASSUME BuildInv, NEW p \in Machine, NEW q \in Machine, p # q,
         entry[p] # <<>>, entry[q] # <<>>, NEW x \in Machine, x # p
  PROVE  inNum[p][x][q] = inNum[q][x][q]
<1>1. inNum[p][x] # <<>> /\ inNum[q][x] # <<>> /\ TellsSame(x)
  BY DEF BuildInv, NumbersKnown
<1>2. PICK num : num # <<>> /\ num[x] = 0 /\ TellsOnly(x, num)
  BY <1>1 DEF TellsSame
<1>3. inNum[p][x] = num
  BY <1>1, <1>2 DEF TellsOnly
<1>4. CASE x = q
  BY <1>1, <1>2, <1>3, <1>4 DEF TellsSame
<1>5. CASE x # q
  BY <1>1, <1>2, <1>3, <1>5 DEF TellsOnly
<1> QED
  BY <1>4, <1>5

(* The sum over the machines before p as a sum over a function.            *)
LEMMA NumbersSummed ==
  ASSUME NEW m, NEW q, NEW S
  PROVE  MapThenSumSet(LAMBDA x : inNum[m][x][q], S) = SumOf([x \in S |-> inNum[m][x][q]], S)
<1> USE DEF Pick
<1> DEFINE F == [x \in S |-> inNum[m][x][q]]
           R(f) == [s \in SUBSET S |->
                      IF s = {} THEN 0 ELSE F[Pick(s)] + f[s \ {Pick(s)}]]
           Q(f) == [s \in SUBSET S |->
                      IF s = {} THEN 0 ELSE inNum[m][Pick(s)][q] + f[s \ {Pick(s)}]]
<1>1. \A f : R(f) = Q(f)
  <2> TAKE f
  <2>1. \A s \in SUBSET S : s # {} => Pick(s) \in S
    OBVIOUS
  <2> QED
    BY <2>1
<1> HIDE DEF R, Q
<1>2. (CHOOSE f : f = R(f)) = (CHOOSE f : f = Q(f))
  BY <1>1
<1> QED
  BY <1>2 DEF SumOf, MapThenSumSet, MapThenFoldSet, R, Q

(* Sender and receiver add up the same numbers.                            *)
LEMMA OffsetsHold == BuildInv => OffsetsAgree
<1> SUFFICES ASSUME BuildInv, NEW p \in Machine, NEW q \in Machine, p # q,
                    entry[p] # <<>>, entry[q] # <<>>
             PROVE  OutStart(p, q) = InStart(q, p)
  BY DEF OffsetsAgree
<1> DEFINE F == [x \in 0 .. p - 1 |-> inNum[p][x][q]]
           G == [x \in 0 .. p - 1 |-> inNum[q][x][q]]
<1>1. \A x \in 0 .. p - 1 : F[x] = G[x]
  BY Machines, ToldSame
<1> HIDE DEF F, G
<1>2. SumOf(F, 0 .. p - 1) = SumOf(G, 0 .. p - 1)
  BY <1>1, SameSum
<1>3. SumOf(F, 0 .. p - 1) = MapThenSumSet(LAMBDA x : inNum[p][x][q], 0 .. p - 1)
  BY ZenonT(40), NumbersSummed DEF F
<1>4. SumOf(G, 0 .. p - 1) = MapThenSumSet(LAMBDA x : inNum[q][x][q], 0 .. p - 1)
  BY ZenonT(40), NumbersSummed DEF G
<1> QED
  BY <1>2, <1>3, <1>4 DEF OutStart, InStart

(* The build keeps its invariant.                                          *)
THEOREM BuildInvariant == Spec => []BuildInv
<1>1. Init => BuildInv
  BY BuildInitialised
<1>2. BuildInv /\ [Next]_vars => BuildInv'
  BY BuildKeeps
<1> QED
  BY <1>1, <1>2, PTL DEF Spec

(* partition(): when the files of a partition are written every point has  *)
(* one owner, is indexed by ReplicaNum shards of which the owner is one,   *)
(* and the vectors stand in the order of the ascending ids -- for any data *)
(* set, any number of machines, blocks and threads, whatever they read of  *)
(* the statistics, and whatever word lies behind a list of ids.            *)
THEOREM ShardsAreRight == Spec => []ShardsRight
<1>1. BuildInv => ShardsRight
  <2> SUFFICES ASSUME BuildInv, stage = "partitioned" PROVE ShardsRight
    BY DEF ShardsRight
  <2>1. FilesRight /\ \A k \in Kind, m \in Part : base[k][m] = idmap[k][m]
    BY DEF BuildInv, PartInv
  <2> QED
    BY <2>1, FilesGood
<1> QED
  BY <1>1, BuildInvariant, PTL

(* transfer_to_scala_v3: the place where machine p says its lists start on *)
(* machine q is the place where q stores what p sends, though each adds up *)
(* what it has been told, in whatever order the messages came.             *)
THEOREM OffsetsAlwaysAgree == Spec => []OffsetsAgree
<1>1. BuildInv => OffsetsAgree
  BY OffsetsHold
<1> QED
  BY <1>1, BuildInvariant, PTL

-----------------------------------------------------------------------------
(* Sums of what stands before.                                             *)

(* The sum of what stands before n.                                        *)
Before(F, n) == SumOf(F, 0 .. n - 1)

(* A sum before a number, one by one.                                      *)
LEMMA BeforeRight ==
  ASSUME NEW N \in Nat, NEW F, \A x \in 0 .. N - 1 : F[x] \in Nat
  PROVE  /\ Before(F, 0) = 0
         /\ \A n \in 0 .. N - 1 : Before(F, n + 1) = Before(F, n) + F[n]
         /\ \A n \in 0 .. N : Before(F, n) \in Nat
<1>1. \A n \in 0 .. N : Summable(F, 0 .. n - 1)
  <2> SUFFICES ASSUME NEW n \in 0 .. N PROVE Summable(F, 0 .. n - 1)
    OBVIOUS
  <2>1. 0 \in Int /\ n - 1 \in Int
    OBVIOUS
  <2>2. IsFiniteSet(0 .. n - 1)
    BY <2>1, FS_Interval
  <2>3. \A x \in 0 .. n - 1 : F[x] \in Int
    OBVIOUS
  <2> QED
    BY <2>2, <2>3 DEF Summable
<1>2. Before(F, 0) = 0
  <2>1. 0 .. 0 - 1 = {} /\ Summable(F, {})
    BY <1>1, FS_EmptySet DEF Summable
  <2>2. PICK f : AddsUp(f, F, {}) /\ SumOf(F, {}) = f[{}]
    BY <2>1, SumRecurses
  <2> QED
    BY <2>1, <2>2 DEF AddsUp, Before
<1>3. ASSUME NEW n \in 0 .. N - 1 PROVE Before(F, n + 1) = F[n] + Before(F, n)
  <2>1. n + 1 \in 0 .. N /\ n + 1 - 1 = n /\ n \in 0 .. n
    OBVIOUS
  <2>2. Summable(F, 0 .. n)
    BY <1>1, <2>1
  <2>3. SumOf(F, 0 .. n) = F[n] + SumOf(F, (0 .. n) \ {n})
    BY <2>1, <2>2, SumTake
  <2>4. (0 .. n) \ {n} = 0 .. n - 1
    OBVIOUS
  <2>5. 0 .. n + 1 - 1 = 0 .. n
    BY <2>1
  <2>6. Before(F, n + 1) = SumOf(F, 0 .. n + 1 - 1) /\ Before(F, n) = SumOf(F, 0 .. n - 1)
    BY DEF Before
  <2>7. SumOf(F, 0 .. n + 1 - 1) = SumOf(F, 0 .. n)
    BY <2>5
  <2>8. SumOf(F, (0 .. n) \ {n}) = SumOf(F, 0 .. n - 1)
    BY <2>4
  <2> QED
    BY <2>3, <2>6, <2>7, <2>8
<1> DEFINE Good == {n \in Nat : n \in 0 .. N => Before(F, n) \in Nat}
<1>4. 0 \in Good
  BY <1>2
<1>5. \A n \in Nat : n \in Good => n + 1 \in Good
  <2> SUFFICES ASSUME NEW n \in Nat, n \in Good, n + 1 \in 0 .. N
               PROVE  Before(F, n + 1) \in Nat
    OBVIOUS
  <2>1. n \in 0 .. N - 1 /\ n \in 0 .. N
    OBVIOUS
  <2>2. Before(F, n) \in Nat /\ F[n] \in Nat
    BY <2>1
  <2> QED
    BY <1>3, <2>1, <2>2
<1> HIDE DEF Good
<1>6. Nat \subseteq Good
  BY <1>4, <1>5, AllNaturals
<1>7. \A n \in 0 .. N : Before(F, n) \in Nat
  BY <1>6 DEF Good
<1>8. \A n \in 0 .. N - 1 : Before(F, n + 1) = Before(F, n) + F[n]
  <2> SUFFICES ASSUME NEW n \in 0 .. N - 1 PROVE Before(F, n + 1) = Before(F, n) + F[n]
    OBVIOUS
  <2>1. n \in 0 .. N
    OBVIOUS
  <2>2. Before(F, n) \in Nat /\ F[n] \in Nat
    BY <1>7, <2>1
  <2> QED
    BY <1>3, <2>2
<1> QED
  BY <1>2, <1>7, <1>8

(* Every number below the whole sum lies in one place: behind what stands  *)
(* before some m, within the size of m.                                    *)
LEMMA Located ==
  ASSUME NEW N \in Nat, NEW F, \A x \in 0 .. N - 1 : F[x] \in Nat
  PROVE  /\ \A a \in 1 .. Before(F, N) : \E m \in 0 .. N - 1 : \E k \in 1 .. F[m] :
              a = Before(F, m) + k
         /\ \A m, n \in 0 .. N : m <= n => Before(F, m) <= Before(F, n)
<1>0. /\ Before(F, 0) = 0
      /\ \A n \in 0 .. N - 1 : Before(F, n + 1) = Before(F, n) + F[n]
      /\ \A n \in 0 .. N : Before(F, n) \in Nat
  BY BeforeRight
<1> DEFINE Found0(n) == \A a \in 1 .. Before(F, n) :
                          \E m \in 0 .. n - 1 : \E k \in 1 .. F[m] : a = Before(F, m) + k
           More(n) == \A m \in 0 .. n : Before(F, m) <= Before(F, n)
           Good == {n \in Nat : n \in 0 .. N => Found0(n) /\ More(n)}
<1>1. 0 \in Good
  BY <1>0
<1>2. \A n \in Nat : n \in Good => n + 1 \in Good
  <2> SUFFICES ASSUME NEW n \in Nat, n \in Good, n + 1 \in 0 .. N
               PROVE  Found0(n + 1) /\ More(n + 1)
    OBVIOUS
  <2>1. n \in 0 .. N - 1 /\ n \in 0 .. N
    OBVIOUS
  <2>2. Found0(n) /\ More(n)
    BY <2>1
  <2>3. PICK x \in Nat, y \in Nat : x = Before(F, n) /\ y = F[n] /\ Before(F, n + 1) = x + y
    BY <1>0, <2>1
  <2>4. Found0(n + 1)
    <3> SUFFICES ASSUME NEW a \in 1 .. x + y
                 PROVE  \E m \in 0 .. n : \E k \in 1 .. F[m] : a = Before(F, m) + k
      BY <2>3
    <3>1. CASE a <= x
      <4>1. a \in 1 .. x
        BY <3>1
      <4>2. PICK m \in 0 .. n - 1 : \E k \in 1 .. F[m] : a = Before(F, m) + k
        BY <2>2, <2>3, <4>1
      <4> QED
        BY <4>2
    <3>2. CASE a > x
      <4>1. a - x \in 1 .. y /\ a = x + (a - x) /\ n \in 0 .. n
        BY <3>2
      <4> QED
        BY <2>3, <4>1
    <3> QED
      BY <3>1, <3>2
  <2>5. More(n + 1)
    <3> SUFFICES ASSUME NEW m \in 0 .. n + 1 PROVE Before(F, m) <= x + y
      BY <2>3
    <3>1. CASE m = n + 1
      BY <2>3, <3>1
    <3>2. CASE m # n + 1
      <4>1. m \in 0 .. n /\ m \in 0 .. N
        BY <2>1, <3>2
      <4>2. Before(F, m) <= x /\ Before(F, m) \in Nat
        BY <1>0, <2>2, <2>3, <4>1
      <4> QED
        BY <4>2
    <3> QED
      BY <3>1, <3>2
  <2> QED
    BY <2>4, <2>5
<1> HIDE DEF Good
<1>3. Nat \subseteq Good
  BY <1>1, <1>2, AllNaturals
<1>4. \A n \in 0 .. N : Found0(n) /\ More(n)
  BY <1>3 DEF Good
<1>5. Found0(N)
  BY <1>4
<1>6. \A m, n \in 0 .. N : m <= n => Before(F, m) <= Before(F, n)
  <2> SUFFICES ASSUME NEW m \in 0 .. N, NEW n \in 0 .. N, m <= n
               PROVE  Before(F, m) <= Before(F, n)
    OBVIOUS
  <2>1. m \in 0 .. n
    OBVIOUS
  <2> QED
    BY <1>4, <2>1
<1> QED
  BY <1>5, <1>6

-----------------------------------------------------------------------------
(* Lists one behind the other.                                             *)

(* The list of a[0], a[1], ... and the sizes of these.                     *)
ListOf(a, n) == FlattenSeq([k \in 1 .. n |-> a[k - 1]])

SizeOf(a, n) == [m \in 0 .. n - 1 |-> Len(a[m])]

(* Everything stands behind what stands before it.                         *)
Joined(a, n, all) ==
  /\ Len(all) = Before(SizeOf(a, n), n)
  /\ \A m \in 0 .. n - 1 : \A k \in 1 .. Len(a[m]) :
       all[Before(SizeOf(a, n), m) + k] = a[m][k]

(* Two lists, one behind the other.                                        *)
LEMMA TwoLists ==
  ASSUME NEW X, NEW s \in Seq(X), NEW t \in Seq(X)
  PROVE  /\ s \o t \in Seq(X) /\ Len(s \o t) = Len(s) + Len(t)
         /\ Len(s) \in Nat /\ Len(t) \in Nat
         /\ \A k \in 1 .. Len(s) : (s \o t)[k] = s[k]
         /\ \A k \in 1 .. Len(t) : (s \o t)[Len(s) + k] = t[k]
OBVIOUS

(* Many lists, one behind the other.                                       *)
LEMMA FlattenJoins ==
  ASSUME NEW n \in Nat \ {0}, NEW X, NEW a, \A m \in 0 .. n - 1 : a[m] \in Seq(X)
  PROVE  ListOf(a, n) \in Seq(X) /\ Joined(a, n, ListOf(a, n))
<1> DEFINE seqs == [k \in 1 .. n |-> a[k - 1]]
           F == SizeOf(a, n)
           R(f) == [k \in 1 .. n |-> IF k = 1 THEN seqs[k] ELSE f[k - 1] \o seqs[k]]
           g == CHOOSE f : f = R(f)
           Grown(h, j) == \A k \in 1 .. j :
                            h[k] = IF k = 1 THEN seqs[k] ELSE h[k - 1] \o seqs[k]
<1>0. Len(seqs) = n /\ \A k \in 1 .. n : seqs[k] = a[k - 1] /\ seqs[k] \in Seq(X)
  <2>1. Len(seqs) = n
    OBVIOUS
  <2>2. \A k \in 1 .. n : k - 1 \in 0 .. n - 1
    OBVIOUS
  <2> QED
    BY <2>1, <2>2
<1>1. /\ \A m \in 0 .. n - 1 : F[m] = Len(a[m]) /\ F[m] \in Nat
      /\ Before(F, 0) = 0
      /\ \A m \in 0 .. n - 1 : Before(F, m + 1) = Before(F, m) + F[m]
      /\ \A m \in 0 .. n : Before(F, m) \in Nat
  <2>1. \A m \in 0 .. n - 1 : F[m] = Len(a[m]) /\ F[m] \in Nat
    BY DEF SizeOf
  <2> HIDE DEF F
  <2> QED
    BY <2>1, BeforeRight
<1> HIDE DEF seqs, F
<1>2. \E h : h = R(h)
  <2> DEFINE Good == {j \in Nat : j \in 0 .. n => \E h \in [1 .. n -> Seq(X)] : Grown(h, j)}
  <2>1. 0 \in Good
    <3> DEFINE h == [k \in 1 .. n |-> <<>>]
    <3>1. h \in [1 .. n -> Seq(X)]
      OBVIOUS
    <3> HIDE DEF h
    <3>2. Grown(h, 0)
      OBVIOUS
    <3> HIDE DEF Grown
    <3> QED
      BY <3>1, <3>2
  <2> HIDE DEF Grown
  <2>2. \A j \in Nat : j \in Good => j + 1 \in Good
    <3> SUFFICES ASSUME NEW j \in Nat, j \in Good, j + 1 \in 0 .. n
                 PROVE  \E h \in [1 .. n -> Seq(X)] : Grown(h, j + 1)
      OBVIOUS
    <3>0. j \in 0 .. n
      OBVIOUS
    <3>1. PICK h \in [1 .. n -> Seq(X)] : Grown(h, j)
      BY <3>0
    <3>2. PICK new \in Seq(X) : new = IF j = 0 THEN seqs[1] ELSE h[j] \o seqs[j + 1]
      <4>1. CASE j = 0
        BY <1>0, <4>1
      <4>2. CASE j # 0
        <5>1. h[j] \in Seq(X) /\ seqs[j + 1] \in Seq(X)
          BY <1>0, <4>2
        <5>2. h[j] \o seqs[j + 1] \in Seq(X)
          BY <5>1, TwoLists
        <5> QED
          BY <4>2, <5>2
      <4> QED
        BY <4>1, <4>2
    <3> DEFINE h2 == [h EXCEPT ![j + 1] = new]
    <3>3. h2 \in [1 .. n -> Seq(X)] /\ h2[j + 1] = new
          /\ \A k \in 1 .. j : h2[k] = h[k]
      OBVIOUS
    <3> HIDE DEF h2
    <3>4. ASSUME NEW k \in 1 .. j + 1
          PROVE  h2[k] = IF k = 1 THEN seqs[k] ELSE h2[k - 1] \o seqs[k]
      <4>1. CASE k = j + 1
        <5>1. CASE j = 0
          BY <3>2, <3>3, <4>1, <5>1
        <5>2. CASE j # 0
          <6>1. j \in 1 .. j /\ k - 1 = j /\ k # 1
            BY <4>1, <5>2
          <6>2. h2[k - 1] = h[j]
            BY <3>3, <6>1
          <6> QED
            BY <3>2, <3>3, <4>1, <5>2, <6>1, <6>2
        <5> QED
          BY <5>1, <5>2
      <4>2. CASE k # j + 1
        <5>1. k \in 1 .. j /\ (k # 1 => k - 1 \in 1 .. j)
          BY <4>2
        <5> QED
          BY <3>1, <3>3, <5>1 DEF Grown
      <4> QED
        BY <4>1, <4>2
    <3>5. Grown(h2, j + 1)
      BY <3>4 DEF Grown
    <3> QED
      BY <3>3, <3>5
  <2> HIDE DEF Good
  <2>3. n \in Good
    BY <2>1, <2>2, AllNaturals
  <2>4. PICK h \in [1 .. n -> Seq(X)] : Grown(h, n)
    BY <2>3 DEF Good
  <2>5. h = R(h)
    BY <2>4 DEF Grown
  <2> QED
    BY <2>5
<1>3. g = R(g)
  BY <1>2
<1> HIDE DEF g
<1> DEFINE All(j) == /\ g[j] \in Seq(X) /\ Len(g[j]) = Before(F, j)
                     /\ \A m \in 0 .. j - 1 : \A k \in 1 .. Len(a[m]) :
                          g[j][Before(F, m) + k] = a[m][k]
           Good == {j \in Nat : j + 1 \in 1 .. n => All(j + 1)}
<1>4. \A k \in 1 .. n : g[k] = IF k = 1 THEN seqs[k] ELSE g[k - 1] \o seqs[k]
  BY <1>3
<1>5. 0 \in Good
  <2>1. g[1] = a[0] /\ a[0] \in Seq(X) /\ 0 \in 0 .. n - 1
    BY <1>0, <1>4
  <2>2. Before(F, 1) = Len(a[0]) /\ Before(F, 0) = 0
    <3>1. Before(F, 0 + 1) = Before(F, 0) + F[0] /\ F[0] = Len(a[0]) /\ F[0] \in Nat
      BY <1>1, <2>1
    <3> QED
      BY <1>1, <3>1
  <2>3. ASSUME NEW m \in 0 .. 0, NEW k \in 1 .. Len(a[m])
        PROVE  g[1][Before(F, m) + k] = a[m][k]
    <3>1. m = 0
      OBVIOUS
    <3>2. k \in Nat
      BY <2>1, <3>1
    <3> QED
      BY <2>1, <2>2, <3>1, <3>2
  <2> QED
    BY <2>1, <2>2, <2>3
<1>6. \A j \in Nat : j \in Good => j + 1 \in Good
  <2> SUFFICES ASSUME NEW j \in Nat, j \in Good, j + 1 + 1 \in 1 .. n
               PROVE  All(j + 1 + 1)
    OBVIOUS
  <2>1. PICK i \in Nat : i = j + 1 /\ i \in 1 .. n /\ i + 1 \in 1 .. n /\ i \in 0 .. n - 1
    OBVIOUS
  <2>2. All(i)
    BY <2>1
  <2> HIDE DEF Good
  <2>3. PICK s \in Seq(X), t \in Seq(X), B \in Nat :
          s = g[i] /\ t = a[i] /\ B = Before(F, i) /\ Len(s) = B
    <3>1. i \in 0 .. n /\ a[i] \in Seq(X)
      BY <2>1
    <3>2. Before(F, i) \in Nat
      BY <1>1, <3>1
    <3>3. g[i] \in Seq(X) /\ Len(g[i]) = Before(F, i)
      BY <2>2
    <3> QED
      BY <3>1, <3>2, <3>3
  <2>4. g[i + 1] = s \o t
    <3>1. g[i + 1] = g[i] \o seqs[i + 1]
      <4>1. i + 1 # 1 /\ i + 1 \in 1 .. n
        BY <2>1
      <4>2. PICK k \in 1 .. n : k = i + 1 /\ k # 1 /\ k - 1 = i
        BY <4>1
      <4>3. g[k] = g[k - 1] \o seqs[k]
        BY <1>4, <4>2
      <4> QED
        BY <4>2, <4>3
    <3>2. seqs[i + 1] = a[i]
      BY <1>0, <2>1
    <3> QED
      BY <2>3, <3>1, <3>2
  <2>5. Before(F, i + 1) = B + Len(t)
    BY <1>1, <2>1, <2>3
  <2>6. /\ s \o t \in Seq(X) /\ Len(s \o t) = Len(s) + Len(t)
        /\ Len(s) \in Nat /\ Len(t) \in Nat
        /\ \A k \in 1 .. Len(s) : (s \o t)[k] = s[k]
        /\ \A k \in 1 .. Len(t) : (s \o t)[Len(s) + k] = t[k]
    BY TwoLists
  <2>7. ASSUME NEW m \in 0 .. i, NEW k \in 1 .. Len(a[m])
        PROVE  (s \o t)[Before(F, m) + k] = a[m][k]
    <3>1. CASE m = i
      <4>1. k \in 1 .. Len(t)
        BY <2>3, <3>1
      <4> QED
        BY ZenonT(40), <2>3, <2>6, <3>1, <4>1
    <3>2. CASE m # i
      <4>1. m \in 0 .. i - 1 /\ m \in 0 .. n - 1 /\ m + 1 \in 0 .. n /\ m + 1 <= i
        BY <2>1, <3>2
      <4>2. PICK b \in Nat, l \in Nat : b = Before(F, m) /\ l = Len(a[m])
                                        /\ Before(F, m + 1) = b + l
        <5>1. F[m] = Len(a[m]) /\ F[m] \in Nat /\ Before(F, m) \in Nat
          BY <1>1, <4>1
        <5> QED
          BY <1>1, <4>1, <5>1
      <4>3. b + l <= B
        <5>1. Before(F, m + 1) <= Before(F, i)
          <6>1. \A x \in 0 .. n - 1 : F[x] \in Nat
            BY <1>1
          <6>2. i \in 0 .. n
            BY <2>1
          <6> QED
            BY <4>1, <6>1, <6>2, Located
        <5> QED
          BY <2>3, <4>2, <5>1
      <4>4. k \in 1 .. l /\ b + k \in 1 .. Len(s)
        BY <2>3, <2>6, <4>2, <4>3
      <4>5. (s \o t)[b + k] = s[b + k]
        BY <2>6, <4>4
      <4> QED
        BY <2>2, <2>3, <4>1, <4>2, <4>5
    <3> QED
      BY <3>1, <3>2
  <2>8. All(i + 1)
    <3>1. i + 1 - 1 = i
      BY <2>1
    <3>2. g[i + 1] \in Seq(X) /\ Len(g[i + 1]) = Before(F, i + 1)
      BY <2>3, <2>4, <2>5, <2>6
    <3>3. \A m \in 0 .. i + 1 - 1 : \A k \in 1 .. Len(a[m]) :
            g[i + 1][Before(F, m) + k] = a[m][k]
      BY <2>4, <2>7, <3>1
    <3> QED
      BY <3>2, <3>3
  <2> QED
    BY <2>1, <2>8
<1> HIDE DEF Good
<1>7. All(n)
  <2>1. PICK j \in Nat : n = j + 1
    <3>1. n - 1 \in Nat /\ n = n - 1 + 1
      OBVIOUS
    <3> QED
      BY <3>1
  <2>2. j \in Good /\ j + 1 \in 1 .. n
    BY SMTT(40), <1>5, <1>6, <2>1, AllNaturals
  <2>3. All(j + 1)
    BY <2>2 DEF Good
  <2> QED
    BY <2>1, <2>3
<1>8. ListOf(a, n) = g[n]
  BY <1>0 DEF ListOf, FlattenSeq, g, seqs
<1> QED
  BY <1>7, <1>8 DEF Joined, F

-----------------------------------------------------------------------------
(* Positions.                                                              *)

Own == idmap["norp"]
OwnSize == [m \in Machine |-> Len(idmap["norp"][m])]

(* Every point has one position, and a machine's points stand one behind   *)
(* the other.                                                              *)
Numbered ==
  /\ OwnSize \in [Machine -> Nat] /\ Before(OwnSize, MachineNum) = PointNum
  /\ Positions \in Seq(Point) /\ Len(Positions) = PointNum
  /\ \A m \in Machine : \A k \in 1 .. OwnSize[m] :
       /\ Own[m][k] \in Point
       /\ Before(OwnSize, m) + k \in 1 .. PointNum
       /\ Positions[Before(OwnSize, m) + k] = Own[m][k]
  /\ \A a, b \in 1 .. PointNum : Positions[a] = Positions[b] => a = b
  /\ \A v \in Point : \E a \in 1 .. PointNum : Positions[a] = v

(* write_partition_info numbers the points of a partition that is right.   *)
LEMMA PositionsRight ==
  ASSUME FilesRight, idmap \in [Kind -> [Part -> Seq(Point)]]
  PROVE  Numbered
<1> DEFINE N == MachineNum
           F == OwnSize
           L == Before(F, N)
<1>0. N \in Nat \ {0} /\ Machine = 0 .. N - 1 /\ Part = Machine
  BY Machines DEF Machine, Part
<1>1. \A m \in Machine : Own[m] \in Seq(Point)
  BY <1>0 DEF Own, Kind
<1>2. F \in [Machine -> Nat] /\ \A m \in Machine : F[m] = Len(Own[m])
  BY <1>1 DEF OwnSize, Own
<1>3. F = SizeOf(Own, N)
  BY <1>0 DEF OwnSize, Own, SizeOf
<1>4. Positions = ListOf(Own, N)
  BY DEF Positions, ListOf, Own
<1>5. Positions \in Seq(Point) /\ Joined(Own, N, Positions)
  BY <1>0, <1>1, <1>4, FlattenJoins
<1> HIDE DEF F
<1>6. /\ Len(Positions) = L
      /\ \A m \in Machine : \A k \in 1 .. F[m] : Positions[Before(F, m) + k] = Own[m][k]
  BY <1>0, <1>2, <1>3, <1>5 DEF Joined
<1>7. \A m \in 0 .. N - 1 : F[m] \in Nat
  BY <1>0, <1>2
<1>8. /\ \A m \in 0 .. N : Before(F, m) \in Nat
      /\ \A m \in 0 .. N - 1 : Before(F, m + 1) = Before(F, m) + F[m]
  BY <1>0, <1>7, BeforeRight
<1>9. /\ \A a \in 1 .. L : \E m \in 0 .. N - 1 : \E k \in 1 .. F[m] : a = Before(F, m) + k
      /\ \A m, n \in 0 .. N : m <= n => Before(F, m) <= Before(F, n)
  BY <1>0, <1>7, Located
<1>10. ASSUME NEW m \in Machine, NEW k \in 1 .. F[m]
       PROVE  Own[m][k] \in Point /\ Before(F, m) + k \in 1 .. L
  <2>1. Own[m][k] \in Point
    BY <1>1, <1>2
  <2>2. m \in 0 .. N /\ m + 1 \in 0 .. N /\ N \in 0 .. N /\ m + 1 <= N /\ m \in 0 .. N - 1
    BY <1>0
  <2>3. PICK x \in Nat, y \in Nat, z \in Nat : x = Before(F, m) /\ y = F[m] /\ z = L
    BY <1>2, <1>8, <2>2
  <2>4. x + y <= z
    BY <1>8, <1>9, <2>2, <2>3
  <2> QED
    BY <2>1, <2>3, <2>4
<1>11. ASSUME NEW a \in 1 .. L, NEW b \in 1 .. L, Positions[a] = Positions[b] PROVE a = b
  <2>01. PICK m \in Machine : \E k \in 1 .. F[m] : a = Before(F, m) + k
    BY <1>0, <1>9
  <2>1. PICK k \in 1 .. F[m] : a = Before(F, m) + k
    BY <2>01
  <2>02. PICK n \in Machine : \E l \in 1 .. F[n] : b = Before(F, n) + l
    BY <1>0, <1>9
  <2>2. PICK l \in 1 .. F[n] : b = Before(F, n) + l
    BY <2>02
  <2>3. PICK v \in Point : v = Own[m][k] /\ v = Own[n][l]
    BY <1>6, <1>10, <1>11, <2>1, <2>2
  <2>4. /\ DOMAIN Own[m] = 1 .. F[m] /\ DOMAIN Own[n] = 1 .. F[n]
    BY <1>1, <1>2
  <2>5. v \in Range(Own[m]) /\ v \in Range(Own[n])
    BY <2>3, <2>4 DEF Range
  <2>6. m = n
    <3>1. Filed(v)
      BY DEF FilesRight
    <3> QED
      BY <1>0, <2>5, <3>1 DEF Filed, Own
  <2>7. Increasing(Own[m])
    BY <1>0 DEF FilesRight, Own, Kind
  <2>8. k \in 1 .. Len(Own[m]) /\ l \in 1 .. Len(Own[m]) /\ k \in Int /\ l \in Int
    BY <1>2, <2>6
  <2>9. k = l
    <3>1. ~(k < l) /\ ~(l < k)
      <4>1. v \in Int /\ Own[m][k] = v /\ Own[m][l] = v
        BY <2>3, <2>6, Points
      <4>2. (k < l => v < v) /\ (l < k => v < v)
        BY <2>7, <2>8, <4>1 DEF Increasing
      <4> QED
        BY <4>1, <4>2
    <3> QED
      BY <2>8, <3>1
  <2> QED
    BY <2>1, <2>2, <2>6, <2>9
<1>12. ASSUME NEW v \in Point PROVE \E a \in 1 .. L : Positions[a] = v
  <2>1. PICK m \in Machine : v \in Range(Own[m])
    <3>1. Filed(v)
      BY DEF FilesRight
    <3> QED
      BY <1>0, <3>1 DEF Filed, Own
  <2>2. PICK k \in 1 .. F[m] : v = Own[m][k]
    BY <1>1, <1>2, <2>1 DEF Range
  <2> QED
    BY <1>6, <1>10, <2>2
<1>13. L = PointNum
  <2>1. L \in Nat
    BY <1>0, <1>8
  <2> HIDE DEF L
  <2>2. Positions \in [1 .. L -> Point]
    BY <1>5, <1>6, <2>1
  <2>3. Positions \in Bijection(1 .. L, Point)
    BY <1>11, <1>12, <2>2 DEF Bijection, Injection, Surjection, IsInjective
  <2>4. IsFiniteSet(1 .. L) /\ Cardinality(1 .. L) = L
    BY <2>1, FS_Interval, 1 \in Int
  <2>5. Cardinality(Point) = L
    BY <2>3, <2>4, FS_Bijection DEF ExistsBijection
  <2>6. Cardinality(Point) = PointNum
    <3>1. 0 \in Int /\ PointNum - 1 \in Int /\ PointNum \in Nat \ {0}
      BY Points
    <3>2. Cardinality(0 .. PointNum - 1) = PointNum - 1 - 0 + 1
      BY <3>1, FS_Interval
    <3> QED
      BY <3>1, <3>2 DEF Point
  <2> QED
    BY <2>5, <2>6
<1>14. /\ Before(F, N) = PointNum /\ Len(Positions) = PointNum
       /\ \A m \in Machine : \A k \in 1 .. F[m] :
            Own[m][k] \in Point /\ Before(F, m) + k \in 1 .. PointNum
       /\ \A a, b \in 1 .. PointNum : Positions[a] = Positions[b] => a = b
       /\ \A v \in Point : \E a \in 1 .. PointNum : Positions[a] = v
  BY <1>6, <1>10, <1>11, <1>12, <1>13
<1> QED
  BY <1>2, <1>5, <1>6, <1>14 DEF Numbered, F

(* The files of write_partition_info translate back and forth.             *)
Mapped ==
  /\ \A pos \in 0 .. PointNum - 1 : /\ maps.p2l[pos] = Positions[pos + 1]
                                    /\ maps.p2l[pos] \in Point
                                    /\ maps.l2p[maps.p2l[pos]] = pos
  /\ \A v \in Point : /\ maps.l2p[v] \in 0 .. PointNum - 1
                      /\ maps.p2l[maps.l2p[v]] = v
  /\ \A m \in Machine : \A k \in 1 .. OwnSize[m] :
       /\ PartitionOfs(m) + k - 1 \in 0 .. PointNum - 1
       /\ maps.p2l[PartitionOfs(m) + k - 1] = Own[m][k]
       /\ maps.l2p[Own[m][k]] = PartitionOfs(m) + k - 1
  /\ maps.size = OwnSize /\ \A m : PartitionOfs(m) = Before(OwnSize, m)

(* The files of write_partition_info say so.                               *)
LEMMA MapsRight ==
  ASSUME Numbered, maps = PartitionMaps PROVE Mapped
<1>0. PointNum \in Nat \ {0}
  BY Points
<1>1. \A pos \in 0 .. PointNum - 1 : maps.p2l[pos] = Positions[pos + 1]
  BY DEF PartitionMaps
<1>2. \A v \in Point : maps.l2p[v] = (CHOOSE k \in 1 .. PointNum : Positions[k] = v) - 1
  BY DEF PartitionMaps
<1>3. ASSUME NEW a \in 1 .. PointNum
      PROVE  Positions[a] \in Point /\ maps.l2p[Positions[a]] = a - 1
  <2>1. Positions[a] \in Point
    BY DEF Numbered
  <2>2. PICK v \in Point : v = Positions[a]
    BY <2>1
  <2>3. (CHOOSE k \in 1 .. PointNum : Positions[k] = v) = a
    BY <2>2 DEF Numbered
  <2> QED
    BY <1>2, <2>2, <2>3
<1>4. ASSUME NEW v \in Point
      PROVE  maps.l2p[v] \in 0 .. PointNum - 1 /\ maps.p2l[maps.l2p[v]] = v
  <2>1. PICK a \in 1 .. PointNum : Positions[a] = v
    BY DEF Numbered
  <2>2. maps.l2p[v] = a - 1 /\ a - 1 \in 0 .. PointNum - 1 /\ a - 1 + 1 = a
    BY <1>0, <1>3, <2>1
  <2> QED
    BY <1>1, <2>1, <2>2
<1>5. ASSUME NEW pos \in 0 .. PointNum - 1
      PROVE  maps.p2l[pos] \in Point /\ maps.l2p[maps.p2l[pos]] = pos
  <2>1. pos + 1 \in 1 .. PointNum /\ pos + 1 - 1 = pos
    BY <1>0
  <2> QED
    BY <1>1, <1>3, <2>1
<1>6. maps.size = OwnSize
  BY DEF PartitionMaps, OwnSize
<1>7. \A m : PartitionOfs(m) = Before(OwnSize, m)
  BY <1>6 DEF PartitionOfs, Before, SumOf
<1>8. ASSUME NEW m \in Machine, NEW k \in 1 .. OwnSize[m]
      PROVE  /\ PartitionOfs(m) + k - 1 \in 0 .. PointNum - 1
             /\ maps.p2l[PartitionOfs(m) + k - 1] = Own[m][k]
             /\ maps.l2p[Own[m][k]] = PartitionOfs(m) + k - 1
  <2>1. PICK a \in 1 .. PointNum : /\ a = Before(OwnSize, m) + k
                                   /\ Positions[a] = Own[m][k]
    BY DEF Numbered
  <2>2. PartitionOfs(m) + k = a /\ PartitionOfs(m) \in Int
    <3>1. Before(OwnSize, m) \in Nat
      <4>1. \A x \in 0 .. MachineNum - 1 : OwnSize[x] \in Nat
        BY DEF Numbered, Machine, Part
      <4> QED
        BY <4>1, Machines, BeforeRight DEF Machine, Part
    <3> QED
      BY <1>7, <2>1, <3>1
  <2>3. a - 1 \in 0 .. PointNum - 1 /\ a - 1 + 1 = a
    BY <1>0
  <2>4. maps.p2l[a - 1] = Own[m][k] /\ maps.l2p[Own[m][k]] = a - 1
    BY <1>1, <1>3, <2>1, <2>3
  <2>5. PartitionOfs(m) + k - 1 = a - 1
    BY <2>2
  <2> QED
    BY <2>3, <2>4, <2>5
<1> QED
  BY <1>1, <1>4, <1>5, <1>6, <1>7, <1>8 DEF Mapped

-----------------------------------------------------------------------------
(* Labels and places in the files.                                         *)

(* The files of the partition, as the machines use them.                   *)
Usable ==
  /\ FilesRight /\ DOMAIN base = Kind
  /\ \A m \in Machine : base["norp"][m] = Own[m]

(* Machine 0 has failed to partition and nobody goes on.                   *)
Stopped ==
  /\ pc[0] = "abort"
  /\ \A i \in Machine \ {0} : pc[i] = "swap" /\ net[i]["PART_INFO"][0] = <<>>

(* b1graph (b2graph) of machine i: vector and label of a vertex are its    *)
(* point.                                                                  *)
Written(i) ==
  /\ maps # <<>>
  /\ b1[i] = [k \in 1 .. OwnSize[i] |-> b1[i][k]]
  /\ \A k \in 1 .. OwnSize[i] : b1[i][k].vec = Own[i][k] /\ b1[i][k].label = Own[i][k]

DataWritten(i) == data[i] = [k \in 1 .. OwnSize[i] |-> <<Own[i][k], Own[i][k]>>]

WholeWritten ==
  /\ maps # <<>> /\ Len(whole) = PointNum
  /\ \A k \in 1 .. PointNum : whole[k].vec = Positions[k] /\ whole[k].label = Positions[k]

(* The samples, before the labels of the top index become positions and    *)
(* after it.                                                               *)
SampleRight ==
  /\ top \in Seq(Point) /\ scanned \in [1 .. TopThreads -> Nat]
  /\ topIndex \in Seq([vec : Point, label : Nat])

Sampled ==
  \A k \in 1 .. Len(topIndex) : /\ topIndex[k].label \in 1 .. Len(top)
                                /\ topIndex[k].vec = top[topIndex[k].label]

Saved ==
  \A k \in 1 .. Len(topIndex) : /\ topIndex[k].label \in 0 .. PointNum - 1
                                /\ maps.p2l[topIndex[k].label] = topIndex[k].vec

(* What has been written when machine i gets to s.                         *)
Laying == {"scalameta", "pollmeta", "ngh", "concat", "top"}

Reached(i, s) ==
  /\ s \in Laying \/ (s = "done" /\ graphType # "KmeansSharedNothing") => Written(i)
  /\ s = "b2" => graphType = "SharedNothing"
  /\ s = "concat" \/ (s \in {"top", "done"} /\ graphType = "SCALA_V3") => DataWritten(i)
  /\ i = 0 =>
       /\ s \in {"top", "done"} /\ graphType = "SCALA_V3" => WholeWritten
       /\ s \notin {"top", "done"} => topIndex = <<>>
       /\ s = "top" => Sampled
       /\ s = "done" => Saved

(* What a search program has read.                                         *)
ReadShard(i) ==
  /\ \A p \in 0 .. MachineNum : loaded[i].cumu[p] = Before(OwnSize, p)
  /\ loaded[i].vector = [k \in 0 .. OwnSize[i] - 1 |-> <<Own[i][k + 1], Own[i][k + 1]>>]

ReadWhole(i) ==
  loaded[i].vector = [k \in 0 .. PointNum - 1 |-> <<Positions[k + 1], Positions[k + 1]>>]

Loads(i) ==
  loaded[i] # <<>> =>
    /\ maps # <<>> /\ \A m \in Machine : pc[m] = "done"
    /\ loaded[i].type \in {"SCALA_V3", "VAMANA", "SharedNothing", "KmeansSharedNothing"}
    /\ loaded[i].type \in {"SCALA_V3", "KmeansSharedNothing"} => ReadShard(i)
    /\ loaded[i].type = "VAMANA" => ReadWhole(i)
    /\ \A m \in Machine : loaded[m] # <<>> => loaded[m].type = loaded[i].type

NumInv ==
  /\ graphType \in {"SCALA_V3", "SharedNothing", "KmeansSharedNothing"}
  /\ DOMAIN base = Kind /\ DOMAIN data = Machine /\ DOMAIN loaded = Machine
  /\ stage = "over" => Usable \/ Stopped
  /\ maps # <<>> => stage = "over" /\ Usable /\ maps = PartitionMaps
  /\ whole = <<>> \/ WholeWritten
  /\ SampleRight
  /\ \A i \in Machine : /\ b1[i] = <<>> \/ Written(i)
                        /\ Reached(i, pc[i]) /\ Loads(i)

(* With the files of write_partition_info there are positions.             *)
LEMMA PositionsKnown ==
  ASSUME BuildInv, NumInv, maps # <<>> PROVE Numbered /\ Mapped
<1>1. FilesRight /\ maps = PartitionMaps
  BY DEF NumInv, Usable
<1>2. idmap \in [Kind -> [Part -> Seq(Point)]]
  BY DEF BuildInv, PartInv, PartTypes
<1> QED
  BY <1>1, <1>2, PositionsRight, MapsRight

(* The labels are right where they have been written.                      *)
LEMMA LabelsHold == BuildInv /\ NumInv => LabelsRight
<1> SUFFICES ASSUME BuildInv, NumInv PROVE LabelsRight
  OBVIOUS
<1>1. ASSUME NEW i \in Machine, NEW k \in 1 .. Len(b1[i])
      PROVE  /\ b1[i][k].vec = b1[i][k].label
             /\ maps.l2p[b1[i][k].label] = PartitionOfs(i) + k - 1
  <2>1. b1[i] # <<>>
    BY <1>1
  <2>2. Written(i)
    BY <2>1 DEF NumInv
  <2>3. Numbered /\ Mapped
    BY <2>2, PositionsKnown DEF Written
  <2>4. OwnSize[i] \in Nat
    BY <2>3 DEF Numbered
  <2>5. Len(b1[i]) = OwnSize[i]
    BY <2>2, <2>4 DEF Written
  <2>6. k \in 1 .. OwnSize[i] /\ b1[i][k].vec = Own[i][k] /\ b1[i][k].label = Own[i][k]
    BY <2>2, <2>5 DEF Written
  <2> QED
    BY <2>3, <2>6 DEF Mapped
<1>2. ASSUME NEW k \in 1 .. Len(whole) PROVE maps.l2p[whole[k].label] = k - 1
  <2>1. whole # <<>>
    BY <1>2
  <2>2. WholeWritten
    BY <2>1 DEF NumInv
  <2>3. Numbered /\ Mapped
    BY <2>2, PositionsKnown DEF WholeWritten
  <2>4. k \in 1 .. PointNum /\ whole[k].label = Positions[k] /\ PointNum \in Nat
    BY <2>2, Points DEF WholeWritten
  <2>5. k - 1 \in 0 .. PointNum - 1 /\ k - 1 + 1 = k
    BY <2>4
  <2>6. maps.p2l[k - 1] = Positions[k] /\ maps.l2p[maps.p2l[k - 1]] = k - 1
    BY <2>3, <2>5 DEF Mapped
  <2> QED
    BY <2>4, <2>6
<1>3. ASSUME pc[0] = "done", NEW k \in 1 .. Len(topIndex)
      PROVE  maps.p2l[topIndex[k].label] = topIndex[k].vec
  <2>1. Reached(0, pc[0])
    BY Machines DEF NumInv
  <2> QED
    BY <1>3, <2>1 DEF Reached, Saved
<1> QED
  BY <1>1, <1>2, <1>3 DEF LabelsRight

(* Nothing has been written at the start.                                  *)
LEMMA NumInitialised == Init => NumInv
<1> SUFFICES ASSUME Init PROVE NumInv
  OBVIOUS
<1> USE DEF Init, PartitionInit
<1>1. graphType \in {"SCALA_V3", "SharedNothing", "KmeansSharedNothing"}
  BY PartitionAssumption
<1>2. DOMAIN base = Kind /\ DOMAIN data = Machine /\ DOMAIN loaded = Machine
  BY DEF NoFile
<1>3. stage # "over" /\ maps = <<>> /\ whole = <<>>
  OBVIOUS
<1>4. SampleRight
  BY DEF SampleRight
<1>5. ASSUME NEW i \in Machine
      PROVE  b1[i] = <<>> /\ Reached(i, pc[i]) /\ Loads(i)
  <2>1. pc[i] \in {"partition", "swap"} /\ topIndex = <<>> /\ b1[i] = <<>> /\ loaded[i] = <<>>
    OBVIOUS
  <2> QED
    BY <2>1 DEF Reached, Loads, Laying
<1> QED
  BY <1>1, <1>2, <1>3, <1>4, <1>5 DEF NumInv

(* The ids and what is derived from them do not change.                    *)
IdsKept == UNCHANGED <<jobVars, idmap>>

(* Then what is derived from the ids does not change either.               *)
LEMMA SameIds ==
  ASSUME IdsKept
  PROVE  /\ Own' = Own /\ OwnSize' = OwnSize /\ Positions' = Positions
         /\ PartitionMaps' = PartitionMaps /\ FilesRight' = FilesRight
         /\ graphType' = graphType
<1>1. Own' = Own /\ OwnSize' = OwnSize /\ Positions' = Positions
  BY DEF IdsKept, Own, OwnSize, Positions
<1>2. PartitionMaps' = PartitionMaps
  BY <1>1 DEF PartitionMaps, IdsKept
<1>3. ReplicaNum' = ReplicaNum /\ graphType' = graphType
  BY DEF IdsKept, jobVars, ReplicaNum
<1>4. FilesRight' = FilesRight
  BY <1>3 DEF FilesRight, Filed, Increasing, IdsKept
<1> QED
  BY <1>1, <1>2, <1>3, <1>4

(* The files of the later phases do not change, nor the vectors that count *)
(* for them.                                                               *)
LaterKept == UNCHANGED <<data, whole, top, scanned, topIndex, loaded>>
VectorsKept == DOMAIN base' = Kind /\ base'["norp"] = base["norp"]

(* A step of some machines that writes none of these files.                *)
LEMMA MoveStep ==
  ASSUME NumInv, Usable, stage = "over" /\ stage' = stage, IdsKept, VectorsKept,
         UNCHANGED <<maps, b1>>, LaterKept,
         \A j \in Machine : pc'[j] = pc[j] \/ (pc[j] # "done" /\ Reached(j, pc'[j]))
  PROVE  NumInv'
<1>1. /\ Own' = Own /\ OwnSize' = OwnSize /\ Positions' = Positions
      /\ PartitionMaps' = PartitionMaps /\ FilesRight' = FilesRight
      /\ graphType' = graphType
  BY SameIds
<1>2. Usable'
  BY <1>1 DEF Usable, VectorsKept
<1>3. \A i \in Machine : Written(i)' = Written(i) /\ DataWritten(i)' = DataWritten(i)
  BY <1>1 DEF Written, DataWritten, LaterKept
<1>4. WholeWritten' = WholeWritten /\ SampleRight' = SampleRight
  BY <1>1 DEF WholeWritten, SampleRight, LaterKept
<1>5. Sampled' = Sampled /\ Saved' = Saved
  BY DEF Sampled, Saved, LaterKept
<1>6. ASSUME NEW i \in Machine PROVE Reached(i, pc[i])'
  <2>1. Reached(i, pc'[i])
    BY DEF NumInv
  <2> QED
    BY <1>1, <1>3, <1>4, <1>5, <2>1 DEF Reached, LaterKept
<1>7. ASSUME NEW i \in Machine PROVE Loads(i)'
  <2>1. Loads(i)
    BY DEF NumInv
  <2>2. ReadShard(i)' = ReadShard(i) /\ ReadWhole(i)' = ReadWhole(i)
    BY <1>1 DEF ReadShard, ReadWhole, LaterKept
  <2> QED
    BY <2>1, <2>2 DEF Loads, LaterKept
<1>8. /\ DOMAIN base' = Kind /\ DOMAIN data' = Machine /\ DOMAIN loaded' = Machine
      /\ maps' # <<>> => maps' = PartitionMaps'
      /\ whole' = <<>> \/ WholeWritten'
      /\ \A i \in Machine : b1'[i] = <<>> \/ Written(i)'
      /\ graphType' \in {"SCALA_V3", "SharedNothing", "KmeansSharedNothing"}
  BY <1>1, <1>3, <1>4 DEF NumInv, VectorsKept, LaterKept
<1>9. SampleRight'
  BY <1>4 DEF NumInv
<1> QED
  BY <1>2, <1>6, <1>7, <1>8, <1>9 DEF NumInv

(* A step that writes nothing at all and does not go on.                   *)
LEMMA IdleStep ==
  ASSUME NumInv, IdsKept, UNCHANGED <<stage, base, maps, b1, pc, net>>, LaterKept
  PROVE  NumInv'
<1>1. /\ Own' = Own /\ OwnSize' = OwnSize /\ Positions' = Positions
      /\ PartitionMaps' = PartitionMaps /\ FilesRight' = FilesRight
      /\ graphType' = graphType
  BY SameIds
<1>2. Usable' = Usable /\ Stopped' = Stopped
  BY <1>1 DEF Usable, Stopped
<1>3. \A i \in Machine : Written(i)' = Written(i) /\ DataWritten(i)' = DataWritten(i)
  BY <1>1 DEF Written, DataWritten, LaterKept
<1>4. WholeWritten' = WholeWritten /\ SampleRight' = SampleRight
  BY <1>1 DEF WholeWritten, SampleRight, LaterKept
<1>5. Sampled' = Sampled /\ Saved' = Saved
  BY DEF Sampled, Saved, LaterKept
<1>6. ASSUME NEW i \in Machine PROVE Reached(i, pc[i])'
  <2>1. Reached(i, pc[i])
    BY DEF NumInv
  <2> QED
    BY <1>1, <1>3, <1>4, <1>5, <2>1 DEF Reached, LaterKept
<1>7. ASSUME NEW i \in Machine PROVE Loads(i)'
  <2>1. Loads(i)
    BY DEF NumInv
  <2>2. ReadShard(i)' = ReadShard(i) /\ ReadWhole(i)' = ReadWhole(i)
    BY <1>1 DEF ReadShard, ReadWhole, LaterKept
  <2> QED
    BY <2>1, <2>2 DEF Loads, LaterKept
<1>8. /\ DOMAIN base' = Kind /\ DOMAIN data' = Machine /\ DOMAIN loaded' = Machine
      /\ maps' # <<>> => maps' = PartitionMaps'
      /\ \A i \in Machine : b1'[i] = <<>> \/ Written(i)'
      /\ graphType' \in {"SCALA_V3", "SharedNothing", "KmeansSharedNothing"}
  BY <1>1, <1>3, <1>4 DEF NumInv, LaterKept
<1>9. SampleRight' /\ (whole' = <<>> \/ WholeWritten')
  BY <1>4 DEF NumInv, LaterKept
<1>10. (stage' = "over" => Usable' \/ Stopped') /\ (maps' # <<>> => stage' = "over" /\ Usable')
  BY <1>2 DEF NumInv
<1> QED
  BY <1>6, <1>7, <1>8, <1>9, <1>10 DEF NumInv

(* A machine that is past the start works with files that are right.       *)
LEMMA FilesUsable ==
  ASSUME BuildInv, NumInv, NEW i \in Machine, pc[i] \notin {"partition", "swap", "abort"}
  PROVE  stage = "over" /\ Usable
<1>1. stage = "over"
  BY DEF BuildInv, Waiting
<1>2. ~Stopped
  BY DEF Stopped
<1> QED
  BY <1>1, <1>2 DEF NumInv

(* A machine that has not got to the labels, and does not.                 *)
LEMMA PlainReached ==
  ASSUME NumInv, NEW i \in Machine, pc[i] \notin {"top", "done"}, NEW s,
         s \notin Laying \cup {"done", "b2"}
  PROVE  Reached(i, s)
<1>1. Reached(i, pc[i])
  BY DEF NumInv
<1> QED
  BY <1>1 DEF Reached, Laying

(* One that lays out its graph, and goes on with that.                     *)
LEMMA LayingReached ==
  ASSUME NumInv, NEW i \in Machine, pc[i] \in Laying, pc[i] # "top", NEW s,
         s \in {"pollmeta", "ngh"}
  PROVE  Reached(i, s)
<1>1. Reached(i, pc[i])
  BY DEF NumInv
<1> QED
  BY <1>1 DEF Reached, Laying

(* One machine goes to s.                                                  *)
LEMMA PcOf ==
  ASSUME Shape, NEW i \in Machine, NEW s, pc' = [pc EXCEPT ![i] = s]
  PROVE  \A j \in Machine : pc'[j] = IF j = i THEN s ELSE pc[j]
BY DEF Shape

(* One machine goes on.                                                    *)
LEMMA OneMoves ==
  ASSUME BuildInv, NumInv, NEW i \in Machine, NEW s, pc' = [pc EXCEPT ![i] = s],
         stage = "over" /\ Usable /\ stage' = stage, IdsKept, VectorsKept,
         UNCHANGED <<maps, b1>>, LaterKept, pc[i] # "done", Reached(i, s)
  PROVE  NumInv'
<1>1. \A j \in Machine : pc'[j] = IF j = i THEN s ELSE pc[j]
  BY PcOf DEF BuildInv
<1>2. \A j \in Machine : pc'[j] = pc[j] \/ (pc[j] # "done" /\ Reached(j, pc'[j]))
  BY <1>1
<1> QED
  BY <1>2, MoveStep

(* The first steps behind the partition.                                   *)
LEMMA FirstLabels ==
  ASSUME BuildInv, NumInv, NEW i \in Machine,
         \/ PollPartitionInfo(i)
         \/ i = 0 /\ PostPartitionInfo
         \/ Build(i)
         \/ Checkpoint(i)
  PROVE  NumInv'
<1> USE DEF At, Go, GoSync
<1>1. CASE PollPartitionInfo(i)
  <2>1. pc[i] = "swap" /\ i # 0 /\ net[i]["PART_INFO"][0] # <<>>
    BY <1>1 DEF PollPartitionInfo
  <2>2. stage = "over" /\ Usable
    <3>1. stage = "over"
      BY <2>1 DEF BuildInv, Waiting
    <3>2. ~Stopped
      BY <2>1 DEF Stopped
    <3> QED
      BY <3>1, <3>2 DEF NumInv
  <2>3. pc' = [pc EXCEPT ![i] = "build"]
    BY <1>1 DEF PollPartitionInfo
  <2>4. /\ stage' = stage /\ IdsKept /\ VectorsKept /\ UNCHANGED <<maps, b1>> /\ LaterKept
    BY <1>1, <2>2 DEF PollPartitionInfo, partitionVars, fileVars, scalaVars, topVars,
       IdsKept, VectorsKept, LaterKept, Usable
  <2>5. Reached(i, "build")
    BY <2>1, PlainReached DEF Laying
  <2> QED
    BY <2>1, <2>2, <2>3, <2>4, <2>5, OneMoves
<1>2. CASE i = 0 /\ PostPartitionInfo
  <2>1. pc[i] = "swap" /\ i = 0
    BY <1>2 DEF PostPartitionInfo
  <2>2. stage = "over" /\ Usable
    <3>1. stage = "over"
      BY <2>1 DEF BuildInv, Waiting
    <3>2. ~Stopped
      BY <2>1 DEF Stopped
    <3> QED
      BY <3>1, <3>2 DEF NumInv
  <2>3. pc' = [pc EXCEPT ![i] = "build"]
    BY <1>2 DEF PostPartitionInfo
  <2>4. /\ stage' = stage /\ IdsKept /\ VectorsKept /\ UNCHANGED <<maps, b1>> /\ LaterKept
    BY <1>2, <2>2 DEF PostPartitionInfo, partitionVars, fileVars, scalaVars, topVars,
       IdsKept, VectorsKept, LaterKept, Usable
  <2>5. Reached(i, "build")
    BY <2>1, PlainReached DEF Laying
  <2> QED
    BY <2>1, <2>2, <2>3, <2>4, <2>5, OneMoves
<1>3. CASE Build(i)
  <2>1. pc[i] = "build"
    BY <1>3 DEF Build
  <2>2. stage = "over" /\ Usable
    BY <2>1, FilesUsable
  <2>3. PICK s : /\ pc' = [pc EXCEPT ![i] = s]
                 /\ \/ s \in {"abort", "info"}
                    \/ s = "done" /\ graphType = "KmeansSharedNothing"
    BY <1>3 DEF Build
  <2>4. base' = base \/ base' = [base EXCEPT !["rp"][i] = <<>>]
    BY <1>3 DEF Build
  <2>5. VectorsKept
    BY <2>2, <2>4 DEF VectorsKept, Usable, Kind
  <2>6. stage' = stage /\ IdsKept /\ UNCHANGED <<maps, b1>> /\ LaterKept
    BY <1>3 DEF Build, scalaVars, topVars, IdsKept, LaterKept
  <2>7. Reached(i, s)
    <3>1. CASE s \in {"abort", "info"}
      BY <2>1, <3>1, PlainReached DEF Laying
    <3>2. CASE s = "done" /\ graphType = "KmeansSharedNothing"
      <4>1. Reached(i, pc[i])
        BY DEF NumInv
      <4>2. i = 0 => topIndex = <<>>
        BY <2>1, <4>1 DEF Reached
      <4> QED
        BY <3>2, <4>2 DEF Reached, Saved, Laying
    <3> QED
      BY <2>3, <3>1, <3>2
  <2> QED
    BY <2>1, <2>2, <2>3, <2>5, <2>6, <2>7, OneMoves
<1>4. CASE Checkpoint(i)
  <2>1. pc[i] = "check"
    BY <1>4 DEF Checkpoint
  <2>2. stage = "over" /\ Usable
    BY <2>1, FilesUsable
  <2>3. PICK s : /\ pc' = [pc EXCEPT ![i] = s]
                 /\ \/ s \in {"abort", "collect"}
                    \/ s = "b2" /\ graphType = "SharedNothing"
    BY <1>4 DEF Checkpoint
  <2>4. stage' = stage /\ IdsKept /\ VectorsKept /\ UNCHANGED <<maps, b1>> /\ LaterKept
    BY <1>4, <2>2 DEF Checkpoint, partitionVars, fileVars, scalaVars, topVars, IdsKept,
       VectorsKept, LaterKept, Usable
  <2>5. Reached(i, s)
    <3>1. CASE s \in {"abort", "collect"}
      BY <2>1, <3>1, PlainReached DEF Laying
    <3>2. CASE s = "b2" /\ graphType = "SharedNothing"
      <4>1. Reached(i, pc[i])
        BY DEF NumInv
      <4>2. i = 0 => topIndex = <<>>
        BY <2>1, <4>1 DEF Reached
      <4> QED
        BY <3>2, <4>2 DEF Reached, Laying
    <3> QED
      BY <2>3, <3>1, <3>2
  <2> QED
    BY <2>1, <2>2, <2>3, <2>4, <2>5, OneMoves
<1> QED
  BY <1>1, <1>2, <1>3, <1>4

(* The exchange of the replicas.                                           *)
LEMMA ReplicaLabels ==
  ASSUME BuildInv, NumInv, NEW i \in Machine,
         \/ CollectReplicaPartition(i)
         \/ StartCollect(i)
         \/ Collected(i)
         \/ MergeReplicaPartition(i)
         \/ SendDispatchMeta(i)
         \/ SendDispatchIds(i)
         \/ SendDispatchNghs(i)
  PROVE  NumInv'
<1> USE DEF At, Go, GoSync
<1> DEFINE Phases == {"collect", "round", "meta", "ids", "nghs", "sendids", "sendnghs"}
           Next0 == Phases \cup {"abort", "b1"}
<1>1. pc[i] \in Phases
  BY DEF CollectReplicaPartition, StartCollect, Collected, MergeReplicaPartition,
         SendDispatchMeta, SendDispatchIds, SendDispatchNghs
<1>2. stage = "over" /\ Usable
  BY <1>1, FilesUsable
<1>3. /\ stage' = stage /\ UNCHANGED <<jobVars, idmap, base>> /\ UNCHANGED <<maps, b1>>
      /\ LaterKept
  BY DEF CollectReplicaPartition, StartCollect, Collected, MergeReplicaPartition,
         SendDispatchMeta, SendDispatchIds, SendDispatchNghs, partitionVars, fileVars,
         scalaVars, topVars, LaterKept
<1>4. \E s \in Next0 : pc' = [pc EXCEPT ![i] = s]
  <2>1. CASE CollectReplicaPartition(i)
    BY <2>1 DEF CollectReplicaPartition
  <2>2. CASE StartCollect(i)
    BY <2>2 DEF StartCollect
  <2>3. CASE Collected(i)
    BY <2>3 DEF Collected
  <2>4. CASE MergeReplicaPartition(i)
    BY <2>4 DEF MergeReplicaPartition
  <2>5. CASE SendDispatchMeta(i) \/ SendDispatchIds(i) \/ SendDispatchNghs(i)
    BY <2>5 DEF SendDispatchMeta, SendDispatchIds, SendDispatchNghs
  <2> QED
    BY <2>1, <2>2, <2>3, <2>4, <2>5
<1>5. IdsKept /\ VectorsKept
  BY <1>2, <1>3 DEF IdsKept, VectorsKept, Usable
<1>6. \A s \in Next0 : Reached(i, s)
  BY <1>1, PlainReached DEF Laying
<1>7. pc[i] # "done"
  BY <1>1
<1> HIDE DEF Next0, Phases
<1> QED
  BY <1>2, <1>3, <1>4, <1>5, <1>6, <1>7, OneMoves

(* poll_build.                                                             *)
LEMMA PollLabels ==
  ASSUME BuildInv, NumInv, NEW i \in Machine, NEW j \in Machine, PollBuild(i, j)
  PROVE  NumInv'
<1> USE DEF At
<1>1. pc[i] \in {"meta", "ids", "nghs"}
  BY DEF PollBuild, Polling
<1>2. stage = "over" /\ Usable
  BY <1>1, FilesUsable
<1>3. /\ stage' = stage /\ UNCHANGED <<jobVars, idmap, base>> /\ UNCHANGED <<maps, b1>>
      /\ LaterKept
  BY DEF PollBuild, partitionVars, fileVars, scalaVars, topVars, LaterKept
<1>4. PICK s \in {"abort", pc[i]} : pc' = [pc EXCEPT ![i] = s]
  BY DEF PollBuild
<1>5. IdsKept /\ VectorsKept
  BY <1>2, <1>3 DEF IdsKept, VectorsKept, Usable
<1>6. Reached(i, s)
  BY <1>1, <1>4, PlainReached DEF Laying
<1> QED
  BY <1>1, <1>2, <1>3, <1>4, <1>5, <1>6, OneMoves

(* The exchange of the remote neighbours.                                  *)
LEMMA NeighbourLabels ==
  ASSUME BuildInv, NumInv, NEW i \in Machine,
         \/ SendScalaMeta(i)
         \/ ReformatIndex(i)
         \/ SendNgh(i)
         \/ NghRoundEnd(i)
  PROVE  NumInv'
<1> USE DEF At, Go, GoSync
<1>1. pc[i] \in {"scalameta", "pollmeta", "ngh"}
  BY DEF SendScalaMeta, ReformatIndex, SendNgh, NghRoundEnd
<1>2. stage = "over" /\ Usable
  BY <1>1, FilesUsable
<1>3. /\ stage' = stage /\ UNCHANGED <<jobVars, idmap, base>> /\ UNCHANGED <<maps, b1>>
      /\ LaterKept
  BY DEF SendScalaMeta, ReformatIndex, SendNgh, NghRoundEnd, partitionVars, fileVars,
         scalaVars, topVars, LaterKept
<1>4. PICK s \in {"pollmeta", "ngh", "abort"} : pc' = [pc EXCEPT ![i] = s]
  BY DEF SendScalaMeta, ReformatIndex, SendNgh, NghRoundEnd
<1>5. IdsKept /\ VectorsKept
  BY <1>2, <1>3 DEF IdsKept, VectorsKept, Usable
<1>6. Reached(i, s)
  <2>1. CASE s = "abort"
    BY <1>1, <2>1, PlainReached DEF Laying
  <2>2. CASE s # "abort"
    BY <1>1, <1>4, <2>2, LayingReached DEF Laying
  <2> QED
    BY <2>1, <2>2
<1> QED
  BY <1>1, <1>2, <1>3, <1>4, <1>5, <1>6, OneMoves

(* Messages are taken and the machine stays where it is.                   *)
LEMMA TakenLabels ==
  ASSUME BuildInv, NumInv, NEW i \in Machine, NEW j \in Machine,
         PollScalaMeta(i, j) \/ RecvNgh(i, j)
  PROVE  NumInv'
<1>1. pc[i] \in {"pollmeta", "ngh"}
  BY DEF PollScalaMeta, RecvNgh, At
<1>2. stage = "over" /\ Usable
  BY <1>1, FilesUsable
<1>3. /\ stage' = stage /\ UNCHANGED <<jobVars, idmap, base>> /\ UNCHANGED <<maps, b1>>
      /\ LaterKept /\ UNCHANGED pc
  BY DEF PollScalaMeta, RecvNgh, partitionVars, fileVars, topVars, LaterKept
<1>4. IdsKept /\ VectorsKept
  BY <1>2, <1>3 DEF IdsKept, VectorsKept, Usable
<1> QED
  BY <1>2, <1>3, <1>4, MoveStep

(* Nobody has written anything.                                            *)
Blank ==
  /\ maps = <<>> /\ whole = <<>> /\ topIndex = <<>>
  /\ \A i \in Machine : /\ pc[i] \in {"partition", "swap", "abort"}
                        /\ b1[i] = <<>> /\ loaded[i] = <<>>

(* It is so while machine 0 partitions the points.                         *)
LEMMA BlankFirst ==
  ASSUME BuildInv, NumInv, stage # "over" PROVE Blank
<1>1. maps = <<>> /\ \A i \in Machine : pc[i] \in {"partition", "swap"}
  BY DEF NumInv, BuildInv, Waiting
<1>2. whole = <<>>
  BY <1>1 DEF NumInv, WholeWritten
<1>3. \A i \in Machine : b1[i] = <<>> /\ loaded[i] = <<>>
  BY <1>1 DEF NumInv, Written, Loads
<1>4. topIndex = <<>>
  BY <1>1, Machines DEF NumInv, Reached
<1> QED
  BY <1>1, <1>2, <1>3, <1>4 DEF Blank

(* Then the partition alone has to be looked at.                           *)
LEMMA BlankRight ==
  ASSUME NumInv, Blank, Blank', graphType' = graphType, DOMAIN base' = Kind,
         UNCHANGED <<data, top, scanned, topIndex, loaded>>,
         stage' = "over" => Usable' \/ Stopped'
  PROVE  NumInv'
<1>1. SampleRight'
  BY DEF NumInv, SampleRight
<1>2. \A i \in Machine : Reached(i, pc[i])' /\ Loads(i)'
  BY DEF Blank, Reached, Loads, Laying
<1> QED
  BY <1>1, <1>2 DEF NumInv, Blank

(* A step of the partition leaves the kind of job and does not end it.     *)
LEMMA PartitionDomains ==
  ASSUME PartitionNext, DOMAIN base = Kind
  PROVE  graphType' = graphType /\ DOMAIN base' = Kind /\ stage' # "over"
<1> USE DEF Goto, jobVars, fileVars
<1>1. CASE GenRandomSlice
  BY <1>1 DEF GenRandomSlice
<1>2. CASE SelectPivot
  BY <1>2 DEF SelectPivot
<1>3. CASE RunLloyds
  BY <1>3 DEF RunLloyds
<1>4. CASE ComputeLambda
  BY <1>4 DEF ComputeLambda
<1>5. ASSUME NEW c, AssignPoint(c)
      PROVE  graphType' = graphType /\ DOMAIN base' = Kind /\ stage' # "over"
  BY <1>5 DEF AssignPoint
<1>6. ASSUME NEW c, MergeStats(c)
      PROVE  graphType' = graphType /\ DOMAIN base' = Kind /\ stage' # "over"
  BY <1>6 DEF MergeStats
<1>7. CASE WriteBlock
  BY <1>7 DEF WriteBlock
<1>8. CASE RetrieveAllShards
  BY <1>8 DEF RetrieveAllShards
<1>9. CASE ShardIntoRandom
  BY <1>9 DEF ShardIntoRandom
<1>10. CASE RetrieveShard
  BY <1>10 DEF RetrieveShard
<1> QED
  BY <1>1, <1>2, <1>3, <1>4, <1>5, <1>6, <1>7, <1>8, <1>9, <1>10
     DEF PartitionNext, KmeansPartition, RandomPartition

(* The partition.                                                          *)
LEMMA PartitionLabels ==
  ASSUME BuildInv, NumInv, PartitionStep \/ PartitionEnd PROVE NumInv'
<1>1. CASE PartitionStep
  <2>1. /\ PartitionNext
        /\ UNCHANGED <<maps, whole, topIndex, pc, b1, loaded, data, top, scanned>>
    BY <1>1 DEF PartitionStep, buildVars, scalaVars, topVars
  <2>2. Blank
    BY <2>1, Partitioning, BlankFirst
  <2>3. graphType' = graphType /\ DOMAIN base' = Kind /\ stage' # "over"
    BY <2>1, PartitionDomains DEF NumInv
  <2>4. Blank'
    BY <2>1, <2>2 DEF Blank
  <2> QED
    BY <2>1, <2>2, <2>3, <2>4, BlankRight
<1>2. CASE PartitionEnd
  <2>1. /\ stage' = "over" /\ pc[0] = "partition" /\ stage \in {"partitioned", "failed"}
        /\ UNCHANGED <<jobVars, idmap, base, net, maps, whole, topIndex, b1, loaded, data, top,
                       scanned>>
        /\ pc' = [pc EXCEPT ![0] = IF stage = "failed" THEN "abort" ELSE "swap"]
    BY <1>2 DEF PartitionEnd, Go, fileVars, scalaVars, topVars
  <2>2. Blank /\ Waiting /\ Shape
    BY <2>1, BlankFirst DEF BuildInv
  <2>3. \A j \in Machine : pc'[j] = IF j = 0 THEN (IF stage = "failed" THEN "abort" ELSE "swap")
                                    ELSE pc[j]
    BY <2>1, <2>2, Machines DEF Shape
  <2>4. Blank'
    BY <2>1, <2>2, <2>3 DEF Blank
  <2>5. graphType' = graphType /\ DOMAIN base' = Kind
    BY <2>1 DEF NumInv, jobVars
  <2>6. Usable' \/ Stopped'
    <3>1. CASE stage = "failed"
      <4>1. pc'[0] = "abort" /\ \A j \in Machine \ {0} : pc'[j] = pc[j]
        BY <2>3, <3>1, Machines
      <4>2. \A j \in Machine \ {0} : pc[j] = "swap" /\ net[j]["PART_INFO"][0] = <<>>
        BY <2>2, <3>1 DEF Waiting
      <4>3. net' = net
        BY <2>1
      <4> QED
        BY <4>1, <4>2, <4>3 DEF Stopped
    <3>2. CASE stage = "partitioned"
      <4>1. FilesRight /\ \A m \in Machine : base["norp"][m] = Own[m]
        BY <3>2 DEF BuildInv, PartInv, Own, Machine, Kind
      <4>2. IdsKept
        BY <2>1 DEF IdsKept
      <4>3. FilesRight' /\ Own' = Own
        BY <4>1, <4>2, SameIds
      <4>4. \A m \in Machine : base'["norp"][m] = Own'[m]
        BY <2>1, <4>1, <4>3
      <4> QED
        BY <2>5, <4>3, <4>4 DEF Usable
    <3> QED
      BY <2>1, <3>1, <3>2
  <2> QED
    BY <2>1, <2>2, <2>4, <2>5, <2>6, BlankRight
<1> QED
  BY <1>1, <1>2

(* Only the files of machine i change, and before any is read.             *)
OthersKept(i) ==
  /\ \A j \in Machine \ {i} : pc'[j] = pc[j] /\ b1'[j] = b1[j] /\ data'[j] = data[j]
  /\ i # 0 => UNCHANGED <<whole, top, topIndex>>
  /\ UNCHANGED <<maps, loaded>> /\ DOMAIN data' = Machine

(* A step in which machine i writes files of its own.                      *)
LEMMA WriterMoves ==
  ASSUME NumInv, NEW i \in Machine, pc[i] # "done", stage = "over" /\ stage' = stage,
         Usable, IdsKept, VectorsKept, OthersKept(i), SampleRight',
         whole' = <<>> \/ WholeWritten', b1'[i] = <<>> \/ Written(i)',
         Reached(i, pc[i])'
  PROVE  NumInv'
<1>1. /\ Own' = Own /\ OwnSize' = OwnSize /\ Positions' = Positions
      /\ PartitionMaps' = PartitionMaps /\ FilesRight' = FilesRight
      /\ graphType' = graphType
  BY SameIds
<1>2. Usable'
  BY <1>1 DEF Usable, VectorsKept
<1>3. ASSUME NEW j \in Machine \ {i}
      PROVE  /\ Written(j)' = Written(j) /\ DataWritten(j)' = DataWritten(j)
             /\ pc'[j] = pc[j] /\ b1'[j] = b1[j]
  <2>1. /\ pc'[j] = pc[j] /\ b1'[j] = b1[j] /\ data'[j] = data[j] /\ maps' = maps
        /\ j \in Machine
    BY DEF OthersKept
  <2> QED
    BY <1>1, <2>1 DEF Written, DataWritten
<1>4. i # 0 => /\ WholeWritten' = WholeWritten /\ Sampled' = Sampled /\ Saved' = Saved
               /\ topIndex' = topIndex
  <2> SUFFICES ASSUME i # 0
               PROVE  /\ WholeWritten' = WholeWritten /\ Sampled' = Sampled
                      /\ Saved' = Saved /\ topIndex' = topIndex
    OBVIOUS
  <2>1. UNCHANGED <<maps, whole, top, topIndex, Positions>>
    BY <1>1 DEF OthersKept
  <2> QED
    BY <2>1 DEF WholeWritten, Sampled, Saved
<1>5. ASSUME NEW j \in Machine PROVE Reached(j, pc[j])'
  <2>1. CASE j = i
    BY <2>1
  <2>2. CASE j # i
    <3>1. Reached(j, pc[j])
      BY DEF NumInv
    <3>2. j = 0 => /\ WholeWritten' = WholeWritten /\ Sampled' = Sampled /\ Saved' = Saved
                   /\ topIndex' = topIndex
      BY <1>4, <2>2
    <3>3. /\ Written(j)' = Written(j) /\ DataWritten(j)' = DataWritten(j)
          /\ pc'[j] = pc[j]
      BY <1>3, <2>2
    <3> QED
      BY <1>1, <3>1, <3>2, <3>3 DEF Reached
  <2> QED
    BY <2>1, <2>2
<1>6. ASSUME NEW j \in Machine PROVE Loads(j)'
  <2>1. loaded[j] = <<>>
    BY DEF NumInv, Loads
  <2> QED
    BY <2>1 DEF Loads, OthersKept
<1>7. ASSUME NEW j \in Machine PROVE b1'[j] = <<>> \/ Written(j)'
  <2>1. CASE j = i
    BY <2>1
  <2>2. CASE j # i
    BY <1>3, <2>2 DEF NumInv
  <2> QED
    BY <2>1, <2>2
<1>8. /\ DOMAIN base' = Kind /\ DOMAIN data' = Machine /\ DOMAIN loaded' = Machine
      /\ maps' # <<>> => maps' = PartitionMaps'
      /\ graphType' \in {"SCALA_V3", "SharedNothing", "KmeansSharedNothing"}
  BY <1>1 DEF NumInv, VectorsKept, OthersKept
<1> QED
  BY <1>2, <1>5, <1>6, <1>7, <1>8 DEF NumInv

(* write_partition_info.                                                   *)
LEMMA InfoLabels ==
  ASSUME BuildInv, NumInv, NEW i \in Machine, WritePartitionInfo(i) PROVE NumInv'
<1>1. /\ pc[i] = "info" /\ pc' = [pc EXCEPT ![i] = "check"]
      /\ maps' = IF i = 0 THEN PartitionMaps ELSE maps
      /\ stage' = stage /\ UNCHANGED <<jobVars, idmap, base, b1>> /\ LaterKept
  BY DEF WritePartitionInfo, At, GoSync, partitionVars, fileVars, scalaVars, topVars,
         LaterKept
<1>2. stage = "over" /\ Usable
  BY <1>1, FilesUsable
<1>3. IdsKept /\ VectorsKept
  BY <1>1, <1>2 DEF IdsKept, VectorsKept, Usable
<1>4. Reached(i, "check")
  BY <1>1, PlainReached DEF Laying
<1>5. CASE maps' = maps
  BY <1>1, <1>2, <1>3, <1>4, <1>5, OneMoves
<1>6. CASE maps' # maps
  <2>1. i = 0 /\ maps = <<>> /\ maps' = PartitionMaps
    BY <1>1, <1>6 DEF NumInv
  <2>2. /\ Own' = Own /\ OwnSize' = OwnSize /\ Positions' = Positions
        /\ PartitionMaps' = PartitionMaps /\ FilesRight' = FilesRight
        /\ graphType' = graphType
    BY <1>3, SameIds
  <2>3. Usable'
    BY <1>2, <1>3, <2>2 DEF Usable, VectorsKept
  <2>4. whole = <<>> /\ \A j \in Machine : ~Written(j) /\ b1[j] = <<>> /\ loaded[j] = <<>>
    BY <2>1 DEF NumInv, Written, WholeWritten, Loads
  <2>5. \A j \in Machine : pc'[j] = IF j = i THEN "check" ELSE pc[j]
    BY <1>1, PcOf DEF BuildInv
  <2>6. \A j \in Machine : DataWritten(j)' = DataWritten(j)
    BY <1>1, <2>2 DEF DataWritten, LaterKept
  <2>7. topIndex' = <<>>
    BY <1>1, <2>1 DEF NumInv, Reached, LaterKept
  <2>8. ASSUME NEW j \in Machine PROVE Reached(j, pc[j])'
    <3>1. CASE j = i
      <4>1. pc'[j] = "check"
        BY <2>5, <3>1
      <4> QED
        BY <2>7, <4>1 DEF Reached, Laying
    <3>2. CASE j # i
      <4>1. pc'[j] = pc[j] /\ j # 0 /\ Reached(j, pc[j]) /\ ~Written(j)
        BY <2>1, <2>4, <2>5, <3>2 DEF NumInv
      <4> QED
        BY <2>2, <2>6, <4>1 DEF Reached
    <3> QED
      BY <3>1, <3>2
  <2>9. SampleRight'
    BY <1>1 DEF NumInv, SampleRight, LaterKept
  <2>10. /\ graphType' \in {"SCALA_V3", "SharedNothing", "KmeansSharedNothing"}
         /\ DOMAIN base' = Kind /\ DOMAIN data' = Machine /\ DOMAIN loaded' = Machine
    BY <1>1, <2>2, <2>3 DEF NumInv, Usable, LaterKept
  <2>11. /\ whole' = <<>> /\ stage' = "over" /\ maps' = PartitionMaps'
         /\ \A j \in Machine : b1'[j] = <<>> /\ loaded'[j] = <<>>
    BY <1>1, <1>2, <2>1, <2>2, <2>4 DEF LaterKept
  <2>12. \A j \in Machine : Loads(j)'
    BY <2>11 DEF Loads
  <2> QED
    BY <2>3, <2>8, <2>9, <2>10, <2>11, <2>12 DEF NumInv
<1> QED
  BY <1>5, <1>6

(* transfer_to_b1graph_format and trans_to_b2graph: what is written.       *)
LEMMA GraphWritten ==
  ASSUME NEW i \in Machine, Numbered, IdsKept, maps' = maps, maps # <<>>, DOMAIN b1 = Machine,
         NEW f, DOMAIN f = 1 .. OwnSize[i],
         \A k \in 1 .. OwnSize[i] : f[k].vec = Own[i][k] /\ f[k].label = Own[i][k],
         f = [k \in 1 .. OwnSize[i] |-> f[k]],
         b1' = [b1 EXCEPT ![i] = f]
  PROVE  Written(i)' /\ \A j \in Machine \ {i} : b1'[j] = b1[j]
<1>1. Own' = Own /\ OwnSize' = OwnSize
  BY SameIds
<1>2. b1'[i] = f /\ \A j \in Machine \ {i} : b1'[j] = b1[j]
  OBVIOUS
<1> QED
  BY <1>1, <1>2 DEF Written

(* transfer_to_b1graph_format.                                             *)
LEMMA TransferLabels ==
  ASSUME BuildInv, NumInv, NEW i \in Machine, TransferToB1(i) PROVE NumInv'
<1> DEFINE f == [k \in 1 .. maps.size[i] |->
                   [ngh   |-> Remap(merged[i][k].ngh),
                    vec   |-> base["norp"][i][k],
                    label |-> maps.p2l[PartitionOfs(i) + k - 1]]]
<1>1. /\ pc[i] = "b1" /\ UNCHANGED <<jobVars, stage, idmap, base, maps>> /\ LaterKept
      /\ \/ pc' = [pc EXCEPT ![i] = "abort"] /\ b1' = b1
         \/ pc' = [pc EXCEPT ![i] = "scalameta"] /\ b1' = [b1 EXCEPT ![i] = f]
  BY DEF TransferToB1, At, Go, GoSync, partitionVars, fileVars, topVars, LaterKept
<1>2. stage = "over" /\ Usable
  BY <1>1, FilesUsable
<1>3. IdsKept /\ VectorsKept
  BY <1>1, <1>2 DEF IdsKept, VectorsKept, Usable
<1>4. CASE pc' = [pc EXCEPT ![i] = "abort"] /\ b1' = b1
  <2>1. Reached(i, "abort")
    BY <1>1, PlainReached DEF Laying
  <2> QED
    BY <1>1, <1>2, <1>3, <1>4, <2>1, OneMoves
<1>5. CASE pc' = [pc EXCEPT ![i] = "scalameta"] /\ b1' = [b1 EXCEPT ![i] = f]
  <2>1. maps # <<>> /\ DOMAIN b1 = Machine /\ Shape
    BY <1>1 DEF BuildInv, MapsRead, Checked, Shape
  <2>2. Numbered /\ Mapped
    BY <2>1, PositionsKnown
  <2>3. maps.size = OwnSize
    BY <2>2 DEF Mapped
  <2>4. DOMAIN f = 1 .. OwnSize[i] /\ f = [k \in 1 .. OwnSize[i] |-> f[k]]
    BY <2>3
  <2>5. ASSUME NEW k \in 1 .. OwnSize[i]
        PROVE  f[k].vec = Own[i][k] /\ f[k].label = Own[i][k]
    <3>1. base["norp"][i][k] = Own[i][k]
      BY <1>2 DEF Usable
    <3>2. maps.p2l[PartitionOfs(i) + k - 1] = Own[i][k]
      BY <2>2 DEF Mapped
    <3>3. k \in 1 .. maps.size[i]
      BY <2>3
    <3> QED
      BY <3>1, <3>2, <3>3
  <2> HIDE DEF f
  <2>6. Written(i)' /\ \A j \in Machine \ {i} : b1'[j] = b1[j]
    <3>1. PICK g : g = f
      OBVIOUS
    <3>2. b1' = [b1 EXCEPT ![i] = g] /\ maps' = maps
      BY <1>1, <1>5, <3>1
    <3>3. /\ DOMAIN g = 1 .. OwnSize[i] /\ g = [k \in 1 .. OwnSize[i] |-> g[k]]
          /\ \A k \in 1 .. OwnSize[i] : g[k].vec = Own[i][k] /\ g[k].label = Own[i][k]
      BY <2>4, <2>5, <3>1
    <3> QED
      BY <1>3, <2>1, <2>2, <3>2, <3>3, GraphWritten
  <2>7. \A j \in Machine : pc'[j] = IF j = i THEN "scalameta" ELSE pc[j]
    BY <1>5, <2>1 DEF Shape
  <2>8. OthersKept(i)
    BY <1>1, <2>6, <2>7 DEF OthersKept, LaterKept, NumInv
  <2>9. SampleRight' /\ topIndex' = topIndex
    BY <1>1 DEF NumInv, SampleRight, LaterKept
  <2>10. whole' = <<>> \/ WholeWritten'
    BY <1>1, <1>3, SameIds DEF NumInv, WholeWritten, LaterKept
  <2>11. Reached(i, pc[i])'
    <3>1. Reached(i, pc[i]) /\ pc'[i] = "scalameta"
      BY <2>7 DEF NumInv
    <3> QED
      BY <1>1, <2>6, <2>9, <3>1 DEF Reached, Laying
  <2> QED
    BY <1>1, <1>2, <1>3, <2>6, <2>8, <2>9, <2>10, <2>11, WriterMoves
<1> QED
  BY <1>1, <1>4, <1>5

(* trans_to_b2graph.                                                       *)
LEMMA SharedLabels ==
  ASSUME BuildInv, NumInv, NEW i \in Machine, TransToB2(i) PROVE NumInv'
<1> DEFINE f == [k \in 1 .. Len(idmap["norp"][i]) |->
                   [ngh |-> Range(graph[i][k]), vec |-> base["norp"][i][k],
                    label |-> idmap["norp"][i][k]]]
           s == IF i = 0 THEN "top" ELSE "done"
<1>1. /\ pc[i] = "b2" /\ UNCHANGED <<jobVars, stage, idmap, base, maps>> /\ LaterKept
      /\ \/ pc' = [pc EXCEPT ![i] = "abort"] /\ b1' = b1
         \/ pc' = [pc EXCEPT ![i] = s] /\ b1' = [b1 EXCEPT ![i] = f]
  BY DEF TransToB2, At, Go, partitionVars, fileVars, topVars, LaterKept
<1>2. stage = "over" /\ Usable
  BY <1>1, FilesUsable
<1>3. IdsKept /\ VectorsKept
  BY <1>1, <1>2 DEF IdsKept, VectorsKept, Usable
<1>4. CASE pc' = [pc EXCEPT ![i] = "abort"] /\ b1' = b1
  <2>1. Reached(i, "abort")
    BY <1>1, PlainReached DEF Laying
  <2> QED
    BY <1>1, <1>2, <1>3, <1>4, <2>1, OneMoves
<1>5. CASE pc' = [pc EXCEPT ![i] = s] /\ b1' = [b1 EXCEPT ![i] = f]
  <2>1. maps # <<>> /\ DOMAIN b1 = Machine /\ Shape
    BY <1>1 DEF BuildInv, MapsRead, Checked, Shape
  <2>2. Numbered
    BY <2>1, PositionsKnown
  <2>3. Len(idmap["norp"][i]) = OwnSize[i]
    BY DEF OwnSize
  <2>4. DOMAIN f = 1 .. OwnSize[i] /\ f = [k \in 1 .. OwnSize[i] |-> f[k]]
    BY <2>3
  <2>5. ASSUME NEW k \in 1 .. OwnSize[i]
        PROVE  f[k].vec = Own[i][k] /\ f[k].label = Own[i][k]
    <3>1. base["norp"][i][k] = Own[i][k]
      BY <1>2 DEF Usable
    <3>2. k \in 1 .. Len(idmap["norp"][i])
      BY <2>3
    <3> QED
      BY <3>1, <3>2 DEF Own
  <2> HIDE DEF f
  <2>6. Written(i)' /\ \A j \in Machine \ {i} : b1'[j] = b1[j]
    <3>1. PICK g : g = f
      OBVIOUS
    <3>2. b1' = [b1 EXCEPT ![i] = g] /\ maps' = maps
      BY <1>1, <1>5, <3>1
    <3>3. /\ DOMAIN g = 1 .. OwnSize[i] /\ g = [k \in 1 .. OwnSize[i] |-> g[k]]
          /\ \A k \in 1 .. OwnSize[i] : g[k].vec = Own[i][k] /\ g[k].label = Own[i][k]
      BY <2>4, <2>5, <3>1
    <3> QED
      BY <1>3, <2>1, <2>2, <3>2, <3>3, GraphWritten
  <2>7. \A j \in Machine : pc'[j] = IF j = i THEN s ELSE pc[j]
    BY <1>5, <2>1 DEF Shape
  <2>8. OthersKept(i)
    BY <1>1, <2>6, <2>7 DEF OthersKept, LaterKept, NumInv
  <2>9. SampleRight' /\ topIndex' = topIndex
    BY <1>1 DEF NumInv, SampleRight, LaterKept
  <2>10. whole' = <<>> \/ WholeWritten'
    BY <1>1, <1>3, SameIds DEF NumInv, WholeWritten, LaterKept
  <2>11. Reached(i, pc[i])'
    <3>1. Reached(i, pc[i]) /\ pc'[i] = s /\ graphType' = graphType
      BY <1>3, <2>7, SameIds DEF NumInv
    <3>2. graphType' = "SharedNothing" /\ (i = 0 => topIndex' = <<>>)
      BY <1>1, <2>9, <3>1 DEF Reached
    <3>3. i = 0 => Sampled'
      BY <3>2 DEF Sampled
    <3> QED
      BY <2>6, <3>1, <3>2, <3>3 DEF Reached, Laying
  <2> QED
    BY <1>1, <1>2, <1>3, <2>6, <2>8, <2>9, <2>10, <2>11, WriterMoves
<1> QED
  BY <1>1, <1>4, <1>5

(* The data file of transfer_to_scala_v3.                                  *)
LEMMA DataLabels ==
  ASSUME BuildInv, NumInv, NEW i \in Machine, WriteScala(i) PROVE NumInv'
<1> DEFINE f == [k \in 1 .. Len(b1[i]) |-> <<b1[i][k].vec, b1[i][k].label>>]
           s == IF i = 0 THEN "concat" ELSE "done"
<1>1. /\ pc[i] = "ngh" /\ UNCHANGED <<jobVars, stage, idmap, base, maps, b1>>
      /\ UNCHANGED <<whole, top, scanned, topIndex, loaded>>
      /\ pc' = [pc EXCEPT ![i] = s] /\ data' = [data EXCEPT ![i] = f]
  BY DEF WriteScala, At, Go, partitionVars, fileVars, topVars
<1>2. stage = "over" /\ Usable
  BY <1>1, FilesUsable
<1>3. IdsKept /\ VectorsKept
  BY <1>1, <1>2 DEF IdsKept, VectorsKept, Usable
<1>4. Own' = Own /\ OwnSize' = OwnSize /\ Positions' = Positions /\ graphType' = graphType
  BY <1>3, SameIds
<1>5. Written(i) /\ Reached(i, pc[i])
  BY <1>1 DEF NumInv, Reached, Laying
<1>6. Numbered
  BY <1>5, PositionsKnown DEF Written
<1>7. OwnSize[i] \in Nat
  BY <1>6 DEF Numbered
<1>8. Len(b1[i]) = OwnSize[i]
  BY <1>5, <1>7 DEF Written
<1>9. f = [k \in 1 .. OwnSize[i] |-> <<Own[i][k], Own[i][k]>>]
  BY <1>5, <1>8 DEF Written
<1> HIDE DEF f
<1>10. data'[i] = f /\ DOMAIN data' = Machine /\ \A j \in Machine \ {i} : data'[j] = data[j]
  BY <1>1 DEF NumInv
<1>11. DataWritten(i)' /\ Written(i)'
  <2>1. data'[i] = [k \in 1 .. OwnSize[i] |-> <<Own[i][k], Own[i][k]>>]
    BY <1>9, <1>10
  <2>2. DataWritten(i)'
    BY <1>4, <2>1 DEF DataWritten
  <2>3. Written(i)'
    BY <1>1, <1>4, <1>5 DEF Written
  <2> QED
    BY <2>2, <2>3
<1>12. \A j \in Machine : pc'[j] = IF j = i THEN s ELSE pc[j]
  BY <1>1 DEF BuildInv, Shape
<1>13. OthersKept(i)
  BY <1>1, <1>10, <1>12 DEF OthersKept
<1>14. SampleRight' /\ topIndex' = topIndex
  BY <1>1 DEF NumInv, SampleRight
<1>15. whole' = <<>> \/ WholeWritten'
  BY <1>1, <1>4 DEF NumInv, WholeWritten
<1>16. Reached(i, pc[i])'
  <2>1. pc'[i] = s /\ (i = 0 => topIndex' = <<>>)
    BY <1>1, <1>5, <1>12, <1>14 DEF Reached
  <2> QED
    BY <1>11, <2>1 DEF Reached, Laying
<1> QED
  BY <1>1, <1>2, <1>3, <1>11, <1>13, <1>14, <1>15, <1>16, WriterMoves

(* The graphs of all machines, one behind the other, are in the order of   *)
(* the positions.                                                          *)
LEMMA GraphsJoin ==
  ASSUME Numbered, \A m \in Machine : Written(m)
  PROVE  LET all == ListOf(b1, MachineNum) IN
         /\ Len(all) = PointNum
         /\ \A k \in 1 .. PointNum : all[k].vec = Positions[k] /\ all[k].label = Positions[k]
<1> DEFINE N == MachineNum
           all == ListOf(b1, N)
           X == UNION {{b1[m][k] : k \in 1 .. OwnSize[m]} : m \in Machine}
<1>1. N \in Nat \ {0} /\ Machine = 0 .. N - 1
  BY Machines DEF Machine, Part
<1>2. OwnSize \in [Machine -> Nat] /\ Before(OwnSize, N) = PointNum
  BY DEF Numbered
<1>3. ASSUME NEW m \in Machine PROVE b1[m] \in Seq(X) /\ Len(b1[m]) = OwnSize[m]
  <2>1. b1[m] = [k \in 1 .. OwnSize[m] |-> b1[m][k]] /\ OwnSize[m] \in Nat
    BY <1>2 DEF Written
  <2>2. \A k \in 1 .. OwnSize[m] : b1[m][k] \in X
    OBVIOUS
  <2> HIDE DEF X
  <2>3. PICK n \in Nat : n = OwnSize[m]
    BY <2>1
  <2>4. DOMAIN b1[m] = 1 .. n
    BY <2>1, <2>3
  <2>5. b1[m] \in [1 .. n -> X]
    BY <2>1, <2>2, <2>3
  <2>6. b1[m] \in Seq(X)
    BY <2>5
  <2> QED
    BY <2>3, <2>4, <2>6
<1> HIDE DEF X
<1>4. Joined(b1, N, all)
  BY <1>1, <1>3, FlattenJoins
<1>5. SizeOf(b1, N) = OwnSize
  BY <1>1, <1>2, <1>3 DEF SizeOf
<1>6. /\ Len(all) = PointNum
      /\ \A m \in Machine : \A k \in 1 .. OwnSize[m] : all[Before(OwnSize, m) + k] = b1[m][k]
  BY <1>1, <1>2, <1>3, <1>4, <1>5 DEF Joined
<1> HIDE DEF all
<1>7. ASSUME NEW a \in 1 .. PointNum
      PROVE  all[a].vec = Positions[a] /\ all[a].label = Positions[a]
  <2>1. \A x \in 0 .. N - 1 : OwnSize[x] \in Nat
    BY <1>1, <1>2
  <2>2. N \in Nat
    BY <1>1
  <2>3. \A b \in 1 .. Before(OwnSize, N) : \E m \in 0 .. N - 1 : \E k \in 1 .. OwnSize[m] :
          b = Before(OwnSize, m) + k
    BY <2>1, <2>2, Located
  <2>4. PICK m \in Machine : \E k \in 1 .. OwnSize[m] : a = Before(OwnSize, m) + k
    BY <1>1, <1>2, <2>3
  <2>5. PICK k \in 1 .. OwnSize[m] : a = Before(OwnSize, m) + k
    BY <2>4
  <2>6. all[a] = b1[m][k] /\ Positions[a] = Own[m][k]
    BY <1>6, <2>5 DEF Numbered
  <2>7. b1[m][k].vec = Own[m][k] /\ b1[m][k].label = Own[m][k]
    BY DEF Written
  <2> QED
    BY <2>6, <2>7
<1> QED
  BY <1>6, <1>7 DEF all

(* merge_all_b1_index.                                                     *)
LEMMA MergeLabels ==
  ASSUME BuildInv, NumInv, NEW i \in Machine, i = 0, MergeAllB1 PROVE NumInv'
<1>1. /\ pc[i] = "concat" /\ UNCHANGED <<jobVars, stage, idmap, base, maps, b1, data>>
      /\ UNCHANGED <<top, scanned, topIndex, loaded>>
      /\ \/ pc' = [pc EXCEPT ![i] = "abort"] /\ whole' = whole
         \/ /\ pc' = [pc EXCEPT ![i] = "top"] /\ whole' = ListOf(b1, MachineNum)
            /\ \A m \in Machine : b1[m] # <<>>
  BY DEF MergeAllB1, At, Go, partitionVars, fileVars, scalaVars, ListOf
<1>2. stage = "over" /\ Usable
  BY <1>1, FilesUsable
<1>3. IdsKept /\ VectorsKept
  BY <1>1, <1>2 DEF IdsKept, VectorsKept, Usable
<1>4. CASE pc' = [pc EXCEPT ![i] = "abort"] /\ whole' = whole
  <2>1. Reached(i, "abort")
    BY <1>1, PlainReached DEF Laying
  <2>2. LaterKept
    BY <1>1, <1>4 DEF LaterKept
  <2> QED
    BY <1>1, <1>2, <1>3, <1>4, <2>1, <2>2, OneMoves
<1>5. CASE /\ pc' = [pc EXCEPT ![i] = "top"] /\ whole' = ListOf(b1, MachineNum)
           /\ \A m \in Machine : b1[m] # <<>>
  <2>1. \A m \in Machine : Written(m)
    BY <1>5 DEF NumInv
  <2>2. maps # <<>>
    BY <2>1 DEF Written
  <2>3. Numbered
    BY <2>2, PositionsKnown
  <2>4. /\ Len(whole') = PointNum
        /\ \A k \in 1 .. PointNum : whole'[k].vec = Positions[k] /\ whole'[k].label = Positions[k]
    BY <1>5, <2>1, <2>3, GraphsJoin
  <2>5. Own' = Own /\ OwnSize' = OwnSize /\ Positions' = Positions /\ graphType' = graphType
    BY <1>3, SameIds
  <2>6. WholeWritten'
    BY <1>1, <2>2, <2>4, <2>5 DEF WholeWritten
  <2>7. \A j \in Machine : pc'[j] = IF j = i THEN "top" ELSE pc[j]
    BY <1>5 DEF BuildInv, Shape
  <2>8. OthersKept(i)
    BY <1>1, <2>7 DEF OthersKept, NumInv
  <2>9. SampleRight'
    BY <1>1 DEF NumInv, SampleRight
  <2>10. Written(i)' /\ DataWritten(i)' = DataWritten(i)
    BY <1>1, <2>1, <2>5 DEF Written, DataWritten
  <2>11. Reached(i, pc[i]) /\ pc'[i] = "top"
    BY <2>7 DEF NumInv
  <2>12. DataWritten(i) /\ topIndex' = <<>>
    BY <1>1, <2>11 DEF Reached
  <2>13. Reached(i, pc[i])'
    <3>1. Sampled'
      BY <2>12 DEF Sampled
    <3> QED
      BY <2>6, <2>10, <2>11, <2>12, <3>1 DEF Reached
  <2> QED
    BY <1>1, <1>2, <1>3, <2>6, <2>8, <2>9, <2>10, <2>13, WriterMoves
<1> QED
  BY <1>1, <1>4, <1>5

(* A product grows with a factor.                                          *)
LEMMA TimesGrow ==
  ASSUME NEW T \in Nat \ {0}, NEW q \in Nat, NEW t \in 1 .. T, NEW x, x = t * q,
         NEW y, y = T * q, NEW z, z = (t - 1) * q
  PROVE  x <= y /\ x \in Nat /\ y \in Nat /\ z \in Nat
OBVIOUS

(* The range of a sampling thread lies in the data set.                    *)
LEMMA RangesInside ==
  ASSUME NEW n \in Nat, NEW t \in 1 .. TopThreads
  PROVE  RangeStart(n, t) \in Nat /\ RangeStart(n, t + 1) \in Nat /\ RangeStart(n, t + 1) <= n
<1> DEFINE T == TopThreads
<1>1. T \in Nat \ {0}
  BY IndexBuildAssumption
<1>2. PICK q \in Nat, r \in 0 .. T - 1 : q = n \div T /\ r = n % T /\ n = T * q + r
  BY <1>1
<1>3. PICK x, y, z : x = t * q /\ y = T * q /\ z = (t - 1) * q
  OBVIOUS
<1> HIDE DEF T
<1>4. x <= y /\ x \in Nat /\ y \in Nat /\ z \in Nat
  BY <1>1, <1>3, TimesGrow DEF T
<1>5. RangeStart(n, t) = z + Least(t - 1, r)
  BY <1>2, <1>3 DEF RangeStart, T
<1>6. RangeStart(n, t + 1) = x + Least(t, r)
  <2>1. PICK u : u = t + 1 /\ u - 1 = t
    BY <1>1 DEF T
  <2>2. RangeStart(n, u) = (u - 1) * (n \div T) + Least(u - 1, n % T)
    BY DEF RangeStart, T
  <2>3. RangeStart(n, u) = t * q + Least(t, r)
    BY <1>2, <2>1, <2>2
  <2> QED
    BY <1>3, <2>1, <2>3
<1>7. Least(t - 1, r) \in Nat /\ Least(t, r) \in Nat /\ Least(t, r) <= r
  BY <1>1, <1>2 DEF Least, T
<1>8. n = y + r /\ r \in Nat
  BY <1>1, <1>2, <1>3
<1> QED
  BY <1>4, <1>5, <1>6, <1>7, <1>8

(* One element more.                                                       *)
LEMMA OneMore ==
  ASSUME NEW X, NEW s \in Seq(X), NEW x \in X
  PROVE  /\ Append(s, x) \in Seq(X) /\ Len(s) \in Nat /\ Len(Append(s, x)) = Len(s) + 1
         /\ \A k \in 1 .. Len(s) : Append(s, x)[k] = s[k]
         /\ Append(s, x)[Len(s) + 1] = x
OBVIOUS

(* An element of a list.                                                   *)
LEMMA ListElement ==
  ASSUME NEW X, NEW s \in Seq(X), NEW k \in 1 .. Len(s) PROVE s[k] \in X
OBVIOUS

(* A step of machine 0 at the top index that stays there.                  *)
LEMMA TopStep ==
  ASSUME BuildInv, NumInv, pc[0] = "top", IdsKept, SampleRight', Sampled',
         UNCHANGED <<stage, base, maps, b1, data, whole, pc, loaded>>
  PROVE  NumInv'
<1>1. PICK i \in Machine : i = 0
  BY Machines
<1>2. pc[i] = "top"
  BY <1>1
<1>3. stage = "over" /\ Usable
  BY <1>2, FilesUsable
<1>4. VectorsKept
  BY <1>3 DEF VectorsKept, Usable
<1>5. Own' = Own /\ OwnSize' = OwnSize /\ Positions' = Positions /\ graphType' = graphType
  BY SameIds
<1>6. OthersKept(i)
  BY <1>1 DEF OthersKept, NumInv
<1>7. WholeWritten' = WholeWritten /\ Written(i)' = Written(i) /\ DataWritten(i)' = DataWritten(i)
  BY <1>5 DEF WholeWritten, Written, DataWritten
<1>8. Reached(i, pc[i]) /\ pc'[i] = "top"
  BY <1>2 DEF NumInv
<1>9. Reached(i, pc[i])'
  BY <1>2, <1>5, <1>7, <1>8 DEF Reached
<1>10. whole' = <<>> \/ WholeWritten'
  BY <1>7 DEF NumInv
<1>11. b1'[i] = <<>> \/ Written(i)'
  BY <1>7 DEF NumInv
<1> QED
  BY <1>2, <1>3, <1>4, <1>6, <1>9, <1>10, <1>11, WriterMoves

(* sampleWorker.                                                           *)
LEMMA SampleLabels ==
  ASSUME BuildInv, NumInv, NEW t \in 1 .. TopThreads, SampleWorker(t) PROVE NumInv'
<1> DEFINE v == RangeStart(PointNum, t) + scanned[t]
<1>1. /\ pc[0] = "top" /\ Unread(t) > 0 /\ scanned' = [scanned EXCEPT ![t] = @ + 1]
      /\ top' = Append(top, v) \/ top' = top
      /\ UNCHANGED <<jobVars, idmap, stage, base, maps, b1, data, whole, pc, loaded, topIndex>>
  BY DEF SampleWorker, At, partitionVars, fileVars, scalaVars
<1>2. /\ top \in Seq(Point) /\ scanned \in [1 .. TopThreads -> Nat]
      /\ topIndex \in Seq([vec : Point, label : Nat])
  BY DEF NumInv, SampleRight
<1>3. v \in Point
  <2>1. PointNum \in Nat /\ Point = 0 .. PointNum - 1
    BY Points DEF Point
  <2>2. PICK a, b, c \in Nat : /\ a = RangeStart(PointNum, t) /\ b = RangeStart(PointNum, t + 1)
                               /\ c = scanned[t] /\ b <= PointNum
    BY <1>2, <2>1, RangesInside
  <2>3. b - a - c > 0
    BY <1>1, <2>2 DEF Unread
  <2>4. v = a + c
    BY <2>2
  <2>5. a + c \in Nat /\ a + c < b
    <3> HIDE DEF v
    <3> QED
      BY <2>3
  <2>6. a + c \in 0 .. PointNum - 1
    <3> HIDE DEF v
    <3>1. b <= PointNum
      BY <2>2
    <3> QED
      BY <2>1, <2>5, <3>1
  <2> QED
    BY <2>1, <2>4, <2>6
<1> HIDE DEF v
<1>4. PICK w \in Point : w = v
  BY <1>3
<1>5. /\ top' \in Seq(Point) /\ Len(top) \in Nat /\ Len(top') \in Nat /\ Len(top) <= Len(top')
      /\ \A k \in 1 .. Len(top) : top'[k] = top[k]
  <2>1. CASE top' = top
    BY <1>2, <2>1
  <2>2. CASE top' = Append(top, w)
    <3>1. /\ Append(top, w) \in Seq(Point) /\ Len(top) \in Nat
          /\ Len(Append(top, w)) = Len(top) + 1
          /\ \A k \in 1 .. Len(top) : Append(top, w)[k] = top[k]
      BY <1>2, OneMore
    <3> QED
      BY <2>2, <3>1
  <2> QED
    BY <1>1, <1>4, <2>1, <2>2
<1>6. scanned' \in [1 .. TopThreads -> Nat]
  BY <1>1, <1>2
<1>7. SampleRight'
  BY <1>1, <1>2, <1>5, <1>6 DEF SampleRight
<1>8. Sampled
  BY <1>1, Machines DEF NumInv, Reached
<1>9. Sampled'
  BY <1>1, <1>5, <1>8 DEF Sampled
<1> QED
  BY <1>1, <1>7, <1>9, TopStep DEF IdsKept

(* buildAndSaveHnswIndex adds a sample.                                    *)
LEMMA AddLabels ==
  ASSUME BuildInv, NumInv, NEW s, AddPoint(s) PROVE NumInv'
<1>1. /\ pc[0] = "top" /\ s \in 1 .. Len(top)
      /\ topIndex' = Append(topIndex, [vec |-> top[s], label |-> s])
      /\ UNCHANGED <<jobVars, idmap, stage, base, maps, b1, data, whole, pc, loaded, top, scanned>>
  BY DEF AddPoint, At, partitionVars, fileVars, scalaVars
<1>2. /\ top \in Seq(Point) /\ scanned \in [1 .. TopThreads -> Nat]
      /\ topIndex \in Seq([vec : Point, label : Nat])
  BY DEF NumInv, SampleRight
<1>3. PICK x \in [vec : Point, label : Nat] : x = [vec |-> top[s], label |-> s]
  BY <1>1, <1>2
<1>4. x.vec = top[s] /\ x.label = s
  BY <1>3
<1>5. /\ topIndex' \in Seq([vec : Point, label : Nat]) /\ Len(topIndex) \in Nat
      /\ Len(topIndex') = Len(topIndex) + 1
      /\ \A k \in 1 .. Len(topIndex) : topIndex'[k] = topIndex[k]
      /\ topIndex'[Len(topIndex) + 1] = x
  <2>1. topIndex' = Append(topIndex, x)
    BY <1>1, <1>3
  <2> QED
    BY <1>2, <2>1, OneMore
<1>6. SampleRight'
  BY <1>1, <1>2, <1>5 DEF SampleRight
<1>7. Sampled
  BY <1>1, Machines DEF NumInv, Reached
<1>8. Sampled'
  <2> SUFFICES ASSUME NEW k \in 1 .. Len(topIndex')
               PROVE  /\ topIndex'[k].label \in 1 .. Len(top)
                      /\ topIndex'[k].vec = top[topIndex'[k].label]
    BY <1>1 DEF Sampled
  <2>1. CASE k = Len(topIndex) + 1
    BY <1>1, <1>4, <1>5, <2>1
  <2>2. CASE k # Len(topIndex) + 1
    <3>1. k \in 1 .. Len(topIndex)
      BY <1>5, <2>2
    <3> QED
      BY <1>5, <1>7, <3>1 DEF Sampled
  <2> QED
    BY <2>1, <2>2
<1> QED
  BY <1>1, <1>6, <1>8, TopStep DEF IdsKept

(* The labels of the top index become positions.                           *)
LEMMA SaveLabels ==
  ASSUME BuildInv, NumInv, NEW i \in Machine, i = 0, SaveTopIndex PROVE NumInv'
<1>1. /\ pc[i] = "top" /\ pc' = [pc EXCEPT ![i] = "done"]
      /\ topIndex' = [k \in 1 .. Len(topIndex) |->
                        [vec |-> topIndex[k].vec, label |-> TopLabel(k)]]
      /\ UNCHANGED <<jobVars, idmap, stage, base, maps, b1, data, whole, loaded, top, scanned>>
  BY DEF SaveTopIndex, At, Go, partitionVars, fileVars, scalaVars
<1>2. /\ top \in Seq(Point) /\ scanned \in [1 .. TopThreads -> Nat]
      /\ topIndex \in Seq([vec : Point, label : Nat])
  BY DEF NumInv, SampleRight
<1>3. stage = "over" /\ Usable
  BY <1>1, FilesUsable
<1>4. IdsKept /\ VectorsKept
  BY <1>1, <1>3 DEF IdsKept, VectorsKept, Usable
<1>5. Own' = Own /\ OwnSize' = OwnSize /\ Positions' = Positions /\ graphType' = graphType
  BY <1>4, SameIds
<1>6. Reached(i, "top")
  BY <1>1 DEF NumInv
<1>7. Written(i) /\ Sampled
  BY <1>6 DEF Reached, Laying
<1>8. Mapped
  BY <1>7, PositionsKnown DEF Written
<1>9. ASSUME NEW k \in 1 .. Len(topIndex)
      PROVE  /\ topIndex[k].vec \in Point /\ TopLabel(k) \in 0 .. PointNum - 1
             /\ maps.p2l[TopLabel(k)] = topIndex[k].vec
  <2>1. topIndex[k].vec \in Point
    <3>1. topIndex[k] \in [vec : Point, label : Nat]
      BY <1>2, <1>9, ListElement
    <3> QED
      BY <3>1
  <2>2. TopLabel(k) = maps.l2p[topIndex[k].vec]
    <3>1. topIndex[k].vec = top[topIndex[k].label]
      BY <1>7 DEF Sampled
    <3> QED
      BY <3>1 DEF TopLabel
  <2>3. \A v \in Point : maps.l2p[v] \in 0 .. PointNum - 1 /\ maps.p2l[maps.l2p[v]] = v
    BY <1>8 DEF Mapped
  <2> QED
    BY <2>1, <2>2, <2>3
<1>10. PICK n \in Nat : n = Len(topIndex)
  BY <1>2
<1>11. /\ Len(topIndex') = n
       /\ \A k \in 1 .. n : /\ topIndex'[k].vec = topIndex[k].vec
                            /\ topIndex'[k].label = TopLabel(k)
  BY <1>1, <1>10
<1>12. topIndex' \in Seq([vec : Point, label : Nat])
  <2>1. \A k \in 1 .. n : [vec |-> topIndex[k].vec, label |-> TopLabel(k)]
                             \in [vec : Point, label : Nat]
    BY <1>9, <1>10, Points
  <2> QED
    BY <1>1, <1>10, <2>1
<1>13. SampleRight'
  BY <1>1, <1>2, <1>12 DEF SampleRight
<1>14. Saved'
  BY <1>1, <1>9, <1>10, <1>11 DEF Saved
<1>15. \A j \in Machine : pc'[j] = IF j = i THEN "done" ELSE pc[j]
  BY <1>1 DEF BuildInv, Shape
<1>16. OthersKept(i)
  BY <1>1, <1>15 DEF OthersKept, NumInv
<1>17. WholeWritten' = WholeWritten /\ Written(i)' = Written(i) /\ DataWritten(i)' = DataWritten(i)
  BY <1>1, <1>5 DEF WholeWritten, Written, DataWritten
<1>18. Reached(i, pc[i])'
  <2>1. pc'[i] = "done"
    BY <1>15
  <2> QED
    BY <1>5, <1>6, <1>7, <1>14, <1>17, <2>1 DEF Reached, Laying
<1>19. whole' = <<>> \/ WholeWritten'
  BY <1>1, <1>17 DEF NumInv
<1>20. Written(i)'
  BY <1>7, <1>17
<1> QED
  BY <1>1, <1>3, <1>4, <1>13, <1>16, <1>18, <1>19, <1>20, WriterMoves

(* cumu_partition_num is the sum of the sizes before.                      *)
LEMMA CumulatedBefore ==
  ASSUME NEW num PROVE \A p \in 0 .. MachineNum : Cumulated(num)[p] = Before(num, p)
BY DEF Cumulated, Before, SumOf

(* What the build has left when every machine is done, for the types of    *)
(* graph a search program can read.                                        *)
LEMMA BuildDone ==
  ASSUME BuildInv, NumInv, \A m \in Machine : pc[m] = "done",
         graphType # "KmeansSharedNothing"
  PROVE  /\ maps # <<>> /\ Numbered /\ Mapped /\ \A m \in Machine : Written(m)
         /\ graphType = "SCALA_V3" => WholeWritten /\ \A m \in Machine : DataWritten(m)
<1>1. \A m \in Machine : Reached(m, "done")
  BY DEF NumInv
<1>2. \A m \in Machine : Written(m)
  BY <1>1 DEF Reached
<1>3. graphType = "SCALA_V3" => WholeWritten /\ \A m \in Machine : DataWritten(m)
  BY <1>1, Machines DEF Reached
<1>4. maps # <<>>
  BY <1>2, Machines DEF Written
<1> QED
  BY <1>2, <1>3, <1>4, PositionsKnown

(* load_index of a scala index.                                            *)
LEMMA ScalaLoaded ==
  ASSUME Numbered, \A m \in Machine : DataWritten(m), NEW i \in Machine
  PROVE  LET l == LoadScala(i) IN
         /\ l.type = "SCALA_V3" /\ \A p \in 0 .. MachineNum : l.cumu[p] = Before(OwnSize, p)
         /\ l.vector = [k \in 0 .. OwnSize[i] - 1 |-> <<Own[i][k + 1], Own[i][k + 1]>>]
<1>1. \A m \in Machine : OwnSize[m] \in Nat /\ OwnSize \in [Machine -> Nat]
  BY DEF Numbered
<1>2. \A m \in Machine : Len(data[m]) = OwnSize[m]
  <2> SUFFICES ASSUME NEW m \in Machine PROVE Len(data[m]) = OwnSize[m]
    OBVIOUS
  <2>1. PICK n \in Nat : n = OwnSize[m]
    BY <1>1
  <2>2. data[m] = [k \in 1 .. n |-> <<Own[m][k], Own[m][k]>>]
    BY <2>1 DEF DataWritten
  <2> QED
    BY <2>1, <2>2
<1>3. [m \in Machine |-> Len(data[m])] = OwnSize
  BY <1>1, <1>2
<1>4. \A p \in 0 .. MachineNum : LoadScala(i).cumu[p] = Before(OwnSize, p)
  <2>1. LoadScala(i).cumu = Cumulated(OwnSize)
    BY <1>3 DEF LoadScala
  <2> QED
    BY <2>1, CumulatedBefore
<1>5. LoadScala(i).vector = [k \in 0 .. OwnSize[i] - 1 |-> data[i][k + 1]]
  BY <1>2 DEF LoadScala
<1>6. \A k \in 0 .. OwnSize[i] - 1 : data[i][k + 1] = <<Own[i][k + 1], Own[i][k + 1]>>
  <2> SUFFICES ASSUME NEW k \in 0 .. OwnSize[i] - 1
               PROVE  data[i][k + 1] = <<Own[i][k + 1], Own[i][k + 1]>>
    OBVIOUS
  <2>1. data[i] = [a \in 1 .. OwnSize[i] |-> <<Own[i][a], Own[i][a]>>]
    BY DEF DataWritten
  <2>2. PICK a \in 1 .. OwnSize[i] : a = k + 1
    BY <1>1
  <2> QED
    BY <2>1, <2>2
<1>7. LoadScala(i).type = "SCALA_V3"
  BY DEF LoadScala
<1> QED
  BY <1>4, <1>5, <1>6, <1>7

(* loadIndex of the graph of a shard.                                      *)
LEMMA ShardLoaded ==
  ASSUME Numbered, Mapped, NEW i \in Machine, Written(i)
  PROVE  LET l == LoadB1("KmeansSharedNothing", i) IN
         /\ \A p \in 0 .. MachineNum : l.cumu[p] = Before(OwnSize, p)
         /\ l.vector = [k \in 0 .. OwnSize[i] - 1 |-> <<Own[i][k + 1], Own[i][k + 1]>>]
<1> DEFINE l == LoadB1("KmeansSharedNothing", i)
<1>1. OwnSize[i] \in Nat /\ maps.size = OwnSize
  BY DEF Numbered, Mapped
<1>2. Len(b1[i]) = OwnSize[i]
  BY <1>1 DEF Written
<1>3. /\ l.cumu = Cumulated(maps.size)
      /\ l.vector = [k \in 0 .. Len(b1[i]) - 1 |-> <<b1[i][k + 1].vec, b1[i][k + 1].label>>]
  BY DEF LoadB1
<1>4. \A k \in 0 .. OwnSize[i] - 1 : /\ b1[i][k + 1].vec = Own[i][k + 1]
                                     /\ b1[i][k + 1].label = Own[i][k + 1]
  BY <1>1 DEF Written
<1> QED
  BY ZenonT(40), <1>1, <1>2, <1>3, <1>4, CumulatedBefore

(* loadIndex of the concatenated graph.                                    *)
LEMMA WholeLoaded ==
  ASSUME WholeWritten, NEW i \in Machine
  PROVE  LoadB1("VAMANA", i).vector
           = [k \in 0 .. PointNum - 1 |-> <<Positions[k + 1], Positions[k + 1]>>]
<1> DEFINE l == LoadB1("VAMANA", i)
<1>1. PointNum \in Nat /\ Len(whole) = PointNum
  BY Points DEF WholeWritten
<1>2. l.vector = [k \in 0 .. Len(whole) - 1 |-> <<whole[k + 1].vec, whole[k + 1].label>>]
  BY DEF LoadB1
<1>3. \A k \in 0 .. PointNum - 1 : /\ whole[k + 1].vec = Positions[k + 1]
                                   /\ whole[k + 1].label = Positions[k + 1]
  BY <1>1 DEF WholeWritten
<1> QED
  BY <1>1, <1>2, <1>3

(* A search program reads the files.                                       *)
LEMMA LoadLabels ==
  ASSUME BuildInv, NumInv, NEW i \in Machine, LoadIndex(i) PROVE NumInv'
<1>1. /\ \A m \in Machine : pc[m] = "done"
      /\ UNCHANGED <<jobVars, idmap, stage, base, maps, b1, data, whole, pc, top, scanned,
                     topIndex, net>>
  BY DEF LoadIndex, At, partitionVars, fileVars, scalaVars
<1>2. PICK type : /\ type \in IF graphType = "SCALA_V3" THEN {"SCALA_V3", "VAMANA"}
                              ELSE IF graphType = "SharedNothing"
                                   THEN {"SharedNothing", "KmeansSharedNothing"} ELSE {}
                  /\ \A m \in Machine : loaded[m] # <<>> => loaded[m].type = type
                  /\ loaded' = [loaded EXCEPT ![i] =
                       IF type = "SCALA_V3" THEN LoadScala(i) ELSE LoadB1(type, i)]
  BY DEF LoadIndex
<1>3. \/ graphType = "SCALA_V3" /\ type \in {"SCALA_V3", "VAMANA"}
      \/ graphType = "SharedNothing" /\ type \in {"SharedNothing", "KmeansSharedNothing"}
  BY <1>2
<1>4. /\ maps # <<>> /\ Numbered /\ Mapped /\ \A m \in Machine : Written(m)
      /\ graphType = "SCALA_V3" => WholeWritten /\ \A m \in Machine : DataWritten(m)
  BY <1>1, <1>3, BuildDone
<1>5. PICK l : l = IF type = "SCALA_V3" THEN LoadScala(i) ELSE LoadB1(type, i)
  OBVIOUS
<1>6. /\ loaded'[i] = l /\ DOMAIN loaded' = Machine
      /\ \A j \in Machine \ {i} : loaded'[j] = loaded[j]
  BY <1>2, <1>5 DEF NumInv
<1>7. l.type = type
  BY <1>5 DEF LoadScala, LoadB1
<1>8. /\ type \in {"SCALA_V3", "KmeansSharedNothing"} =>
           /\ \A p \in 0 .. MachineNum : l.cumu[p] = Before(OwnSize, p)
           /\ l.vector = [k \in 0 .. OwnSize[i] - 1 |-> <<Own[i][k + 1], Own[i][k + 1]>>]
      /\ type = "VAMANA" =>
           l.vector = [k \in 0 .. PointNum - 1 |-> <<Positions[k + 1], Positions[k + 1]>>]
  <2>1. CASE type = "SCALA_V3"
    BY <1>3, <1>4, <1>5, <2>1, ScalaLoaded
  <2>2. CASE type = "KmeansSharedNothing"
    BY <1>4, <1>5, <2>2, ShardLoaded
  <2>3. CASE type = "VAMANA"
    BY <1>3, <1>4, <1>5, <2>3, WholeLoaded
  <2>4. CASE type = "SharedNothing"
    BY <2>4
  <2> QED
    BY <1>3, <2>1, <2>2, <2>3, <2>4
<1>9. IdsKept
  BY <1>1 DEF IdsKept
<1>10. /\ Own' = Own /\ OwnSize' = OwnSize /\ Positions' = Positions
       /\ PartitionMaps' = PartitionMaps /\ FilesRight' = FilesRight
       /\ graphType' = graphType
  BY <1>9, SameIds
<1>11. ASSUME NEW j \in Machine PROVE Loads(j)'
  <2>1. \A m \in Machine : loaded'[m] # <<>> => loaded'[m].type = type
    BY <1>2, <1>6, <1>7
  <2>2. maps' # <<>> /\ \A m \in Machine : pc'[m] = "done"
    BY <1>1, <1>4
  <2>3. CASE j = i
    <3>1. ReadShard(j)' <=>
            /\ \A p \in 0 .. MachineNum : l.cumu[p] = Before(OwnSize, p)
            /\ l.vector = [k \in 0 .. OwnSize[i] - 1 |-> <<Own[i][k + 1], Own[i][k + 1]>>]
      BY <1>6, <1>10, <2>3 DEF ReadShard
    <3>2. ReadWhole(j)' <=>
            l.vector = [k \in 0 .. PointNum - 1 |-> <<Positions[k + 1], Positions[k + 1]>>]
      BY <1>6, <1>10, <2>3 DEF ReadWhole
    <3>3. loaded'[j].type = type
      BY <1>6, <1>7, <2>3
    <3> QED
      BY <1>3, <1>8, <2>1, <2>2, <3>1, <3>2, <3>3 DEF Loads
  <2>4. CASE j # i
    <3>1. Loads(j) /\ loaded'[j] = loaded[j]
      BY <1>6, <2>4 DEF NumInv
    <3>2. ReadShard(j)' = ReadShard(j) /\ ReadWhole(j)' = ReadWhole(j)
      BY <1>10, <3>1 DEF ReadShard, ReadWhole
    <3> QED
      BY <2>1, <2>2, <3>1, <3>2 DEF Loads
  <2> QED
    BY <2>3, <2>4
<1>12. \A m \in Machine : Written(m)' = Written(m) /\ DataWritten(m)' = DataWritten(m)
  BY <1>1, <1>10 DEF Written, DataWritten
<1>13. WholeWritten' = WholeWritten /\ SampleRight' = SampleRight
  BY <1>1, <1>10 DEF WholeWritten, SampleRight
<1>14. Sampled' = Sampled /\ Saved' = Saved /\ Usable' = Usable
  BY <1>1, <1>10 DEF Sampled, Saved, Usable
<1>15. ASSUME NEW j \in Machine PROVE Reached(j, pc[j])'
  <2>1. Reached(j, pc[j]) /\ UNCHANGED <<pc, topIndex>>
    BY <1>1 DEF NumInv
  <2> QED
    BY <1>10, <1>12, <1>13, <1>14, <2>1 DEF Reached
<1>16. /\ DOMAIN base' = Kind /\ DOMAIN data' = Machine
       /\ graphType' \in {"SCALA_V3", "SharedNothing", "KmeansSharedNothing"}
       /\ maps' = PartitionMaps' /\ stage' = "over" /\ Usable'
  BY <1>1, <1>4, <1>10, <1>14 DEF NumInv
<1>17. SampleRight' /\ (whole' = <<>> \/ WholeWritten')
  BY <1>1, <1>13 DEF NumInv
<1>18. \A j \in Machine : Written(j)'
  BY <1>4, <1>12
<1> QED
  BY <1>6, <1>11, <1>15, <1>16, <1>17, <1>18 DEF NumInv

(* The machine and the place of a position.                                *)
LEMMA Placed ==
  ASSUME Numbered, NEW pos \in 0 .. PointNum - 1
  PROVE  \E m \in Machine : \E k \in 1 .. OwnSize[m] :
           /\ pos = Before(OwnSize, m) + k - 1 /\ Positions[pos + 1] = Own[m][k]
<1> DEFINE N == MachineNum
<1>1. N \in Nat /\ Machine = 0 .. N - 1 /\ PointNum \in Nat
  BY Machines, Points DEF Machine, Part
<1>2. OwnSize \in [Machine -> Nat] /\ Before(OwnSize, N) = PointNum
  BY DEF Numbered
<1>3. \A x \in 0 .. N - 1 : OwnSize[x] \in Nat
  BY <1>1, <1>2
<1>4. /\ \A b \in 1 .. Before(OwnSize, N) : \E m \in 0 .. N - 1 : \E k \in 1 .. OwnSize[m] :
           b = Before(OwnSize, m) + k
      /\ \A n \in 0 .. N : Before(OwnSize, n) \in Nat
  <2>1. \A b \in 1 .. Before(OwnSize, N) : \E m \in 0 .. N - 1 : \E k \in 1 .. OwnSize[m] :
          b = Before(OwnSize, m) + k
    BY <1>1, <1>3, Located
  <2>2. \A n \in 0 .. N : Before(OwnSize, n) \in Nat
    BY <1>1, <1>3, BeforeRight
  <2> QED
    BY <2>1, <2>2
<1>5. PICK b \in 1 .. PointNum : b = pos + 1 /\ pos = b - 1
  BY <1>1
<1>6. PICK m \in Machine : \E k \in 1 .. OwnSize[m] : b = Before(OwnSize, m) + k
  BY <1>1, <1>2, <1>4
<1>7. PICK k \in 1 .. OwnSize[m] : b = Before(OwnSize, m) + k
  BY <1>6
<1>8. Positions[b] = Own[m][k]
  BY <1>7 DEF Numbered
<1>9. PICK a \in Nat : a = Before(OwnSize, m)
  BY <1>1, <1>4
<1>10. pos = a + k - 1
  BY SMTT(40), <1>1, <1>2, <1>5, <1>7, <1>9
<1> QED
  BY <1>5, <1>8, <1>9, <1>10

(* get_machine_id finds the machine.                                       *)
LEMMA MachineFound ==
  ASSUME Numbered, NEW i \in Machine, ReadShard(i), NEW m \in Machine,
         NEW k \in 1 .. OwnSize[m], NEW pos, pos = Before(OwnSize, m) + k - 1
  PROVE  GetMachineId(i, pos) = m /\ pos - loaded[i].cumu[m] = k - 1
<1> DEFINE N == MachineNum
           C(p) == loaded[i].cumu[p]
           Ends(p) == C(p) > pos /\ \A q \in 1 .. p - 1 : C(q) <= pos
<1>1. N \in Nat /\ Machine = 0 .. N - 1
  BY Machines DEF Machine, Part
<1>2. \A x \in 0 .. N - 1 : OwnSize[x] \in Nat
  BY <1>1 DEF Numbered
<1>3. /\ \A p \in 0 .. N : C(p) = Before(OwnSize, p)
  BY DEF ReadShard
<1>4. /\ \A n \in 0 .. N - 1 : Before(OwnSize, n + 1) = Before(OwnSize, n) + OwnSize[n]
      /\ \A n \in 0 .. N : Before(OwnSize, n) \in Nat
  BY <1>1, <1>2, BeforeRight
<1>5. \A n, o \in 0 .. N : n <= o => Before(OwnSize, n) <= Before(OwnSize, o)
  BY <1>1, <1>2, Located
<1>6. PICK e \in 1 .. N : e = m + 1 /\ e - 1 = m
  BY <1>1
<1>7. C(e) = Before(OwnSize, m) + OwnSize[m] /\ m \in 0 .. N - 1 /\ m \in 0 .. N
  BY SMTT(40), <1>1, <1>3, <1>4, <1>6
<1>8. PICK a, s \in Nat : a = Before(OwnSize, m) /\ s = OwnSize[m]
  BY <1>1, <1>2, <1>4
<1>9. pos \in Nat /\ a <= pos /\ pos < a + s /\ pos - a = k - 1
  BY <1>8
<1>10. \A q \in 1 .. e - 1 : C(q) <= pos
  <2> SUFFICES ASSUME NEW q \in 1 .. e - 1 PROVE C(q) <= pos
    OBVIOUS
  <2>1. q \in 0 .. N /\ q <= m
    BY <1>1, <1>6
  <2>2. Before(OwnSize, q) <= a /\ Before(OwnSize, q) \in Nat
    BY <1>4, <1>5, <1>7, <1>8, <2>1
  <2>3. C(q) = Before(OwnSize, q)
    BY <1>3, <2>1
  <2> HIDE DEF C
  <2> QED
    BY <1>8, <1>9, <2>2, <2>3
<1>11. \A p \in 1 .. N : C(p) \in Nat
  BY <1>1, <1>3, <1>4
<1>12. pos - C(m) = k - 1
  BY <1>3, <1>7, <1>8, <1>9
<1>13. C(e) > pos
  BY <1>7, <1>8, <1>9
<1>14. GetMachineId(i, pos) = (CHOOSE p \in 1 .. N : Ends(p)) - 1
  BY DEF GetMachineId
<1>15. pos - loaded[i].cumu[m] = k - 1
  BY <1>12
<1> HIDE DEF C
<1>16. Ends(e)
  BY <1>10, <1>13
<1>17. \A p \in 1 .. N : Ends(p) => p = e
  <2> SUFFICES ASSUME NEW p \in 1 .. N, Ends(p) PROVE p = e
    OBVIOUS
  <2>1. ~(p < e)
    <3> SUFFICES ASSUME p < e PROVE FALSE
      OBVIOUS
    <3>1. p \in 1 .. e - 1
      BY <1>1
    <3>2. C(p) <= pos
      BY <1>10, <3>1
    <3> QED
      BY <1>9, <1>11, <3>2
  <2>2. ~(e < p)
    <3> SUFFICES ASSUME e < p PROVE FALSE
      OBVIOUS
    <3>1. e \in 1 .. p - 1
      BY <1>1
    <3>2. C(e) <= pos
      BY <3>1
    <3> QED
      BY <1>9, <1>11, <1>13, <3>2
  <2> QED
    BY <1>1, <2>1, <2>2
<1> HIDE DEF Ends
<1>18. (CHOOSE p \in 1 .. N : Ends(p)) = e
  BY <1>16, <1>17
<1> QED
  BY <1>6, <1>14, <1>15, <1>18

(* Whatever has been read is found where it is looked for.                 *)
LEMMA LoadedHold == BuildInv /\ NumInv => LoadedRight
<1> SUFFICES ASSUME BuildInv, NumInv,
                    \A i \in Machine : loaded[i] # <<>> /\ loaded[i].type # "SharedNothing"
             PROVE  /\ \A i \in Machine, pos \in 0 .. PointNum - 1 :
                         Found(i, pos) = <<maps.p2l[pos], maps.p2l[pos]>>
                    /\ \A i \in Machine, k \in 1 .. Len(topIndex) :
                         Found(i, topIndex[k].label)[1] = topIndex[k].vec
  BY DEF LoadedRight
<1>1. 0 \in Machine /\ \A i \in Machine : Loads(i)
  BY Machines DEF NumInv
<1>2. maps # <<>> /\ \A m \in Machine : pc[m] = "done"
  BY <1>1 DEF Loads
<1>3. Numbered /\ Mapped
  BY <1>2, PositionsKnown
<1>4. ASSUME NEW i \in Machine, NEW pos \in 0 .. PointNum - 1
      PROVE  Found(i, pos) = <<maps.p2l[pos], maps.p2l[pos]>>
  <2>1. maps.p2l[pos] = Positions[pos + 1]
    BY <1>3 DEF Mapped
  <2>2. CASE loaded[i].type = "VAMANA"
    <3>1. loaded[i].vector = [k \in 0 .. PointNum - 1 |-> <<Positions[k + 1], Positions[k + 1]>>]
      BY <1>1, <2>2 DEF Loads, ReadWhole
    <3>2. /\ pos \in DOMAIN loaded[i].vector
          /\ loaded[i].vector[pos] = <<Positions[pos + 1], Positions[pos + 1]>>
      BY <3>1
    <3>3. Found(i, pos) = loaded[i].vector[pos]
      BY <2>2, <3>2 DEF Found
    <3> QED
      BY <2>1, <3>2, <3>3
  <2>3. CASE loaded[i].type # "VAMANA"
    <3>1. /\ loaded[i].type \in {"SCALA_V3", "KmeansSharedNothing"}
          /\ \A m \in Machine : loaded[m].type = loaded[i].type
      BY <1>1, <2>3 DEF Loads
    <3>2. \A m \in Machine : ReadShard(m)
      BY <1>1, <3>1 DEF Loads
    <3>3. PICK m \in Machine : \E k \in 1 .. OwnSize[m] :
            /\ pos = Before(OwnSize, m) + k - 1 /\ Positions[pos + 1] = Own[m][k]
      BY <1>3, Placed
    <3>4. PICK k \in 1 .. OwnSize[m] :
            /\ pos = Before(OwnSize, m) + k - 1 /\ Positions[pos + 1] = Own[m][k]
      BY <3>3
    <3>5. GetMachineId(i, pos) = m /\ pos - loaded[i].cumu[m] = k - 1
      BY <1>3, <3>2, <3>4, MachineFound
    <3>6. loaded[m].vector = [a \in 0 .. OwnSize[m] - 1 |-> <<Own[m][a + 1], Own[m][a + 1]>>]
      BY <3>2 DEF ReadShard
    <3>7. OwnSize[m] \in Nat
      BY <1>3 DEF Numbered
    <3>8. PICK a \in 0 .. OwnSize[m] - 1 : a = k - 1 /\ a + 1 = k
      BY <3>7
    <3>9. a \in DOMAIN loaded[m].vector /\ loaded[m].vector[a] = <<Own[m][k], Own[m][k]>>
      BY <3>6, <3>8
    <3>10. Found(i, pos) = loaded[m].vector[a]
      BY <2>3, <3>5, <3>8, <3>9 DEF Found
    <3> QED
      BY <2>1, <3>4, <3>9, <3>10
  <2> QED
    BY <2>2, <2>3
<1>5. ASSUME NEW i \in Machine, NEW k \in 1 .. Len(topIndex)
      PROVE  Found(i, topIndex[k].label)[1] = topIndex[k].vec
  <2>1. Saved
    BY <1>1, <1>2 DEF NumInv, Reached
  <2>2. PICK pos \in 0 .. PointNum - 1 : /\ pos = topIndex[k].label
                                         /\ maps.p2l[pos] = topIndex[k].vec
    BY <2>1 DEF Saved
  <2>3. Found(i, pos) = <<maps.p2l[pos], maps.p2l[pos]>>
    BY <1>4
  <2> QED
    BY <2>2, <2>3
<1> QED
  BY <1>4, <1>5

(* Every step keeps the labels and places.                                 *)
LEMMA NumKeeps == BuildInv /\ NumInv /\ [Next]_vars => NumInv'
<1> SUFFICES ASSUME BuildInv, NumInv, [Next]_vars PROVE NumInv'
  OBVIOUS
<1>1. ASSUME UNCHANGED vars PROVE NumInv'
  <2>1. UNCHANGED <<jobVars, idmap>> /\ UNCHANGED <<stage, base, maps, b1, pc, net>>
        /\ UNCHANGED <<data, whole, top, scanned, topIndex, loaded>>
    BY <1>1 DEF vars, buildVars, partitionVars, fileVars, scalaVars, topVars
  <2> QED
    BY <2>1, IdleStep DEF IdsKept, LaterKept
<1>2. CASE Step0
  <2>1. PICK i \in Machine : i = 0
    BY Machines
  <2>2. CASE PartitionStep \/ PartitionEnd
    BY <2>2, PartitionLabels
  <2>3. CASE PostPartitionInfo
    BY <2>1, <2>3, FirstLabels
  <2>4. CASE MergeAllB1
    BY <2>1, <2>4, MergeLabels
  <2>5. CASE SaveTopIndex
    BY <2>1, <2>5, SaveLabels
  <2>6. CASE \E t \in 1 .. TopThreads : SampleWorker(t)
    BY <2>6, SampleLabels
  <2>7. CASE \E s \in Point : AddPoint(s + 1)
    BY <2>7, AddLabels
  <2> QED
    BY <1>2, <2>2, <2>3, <2>4, <2>5, <2>6, <2>7 DEF Step0
<1>3. ASSUME NEW i \in Machine, Step(i) PROVE NumInv'
  <2>1. CASE Sync(i)
    <3>1. UNCHANGED <<jobVars, idmap>> /\ UNCHANGED <<stage, base, maps, b1, pc, net>>
          /\ UNCHANGED <<data, whole, top, scanned, topIndex, loaded>>
      BY <2>1 DEF Sync, partitionVars, fileVars, scalaVars, topVars
    <3> QED
      BY <3>1, IdleStep DEF IdsKept, LaterKept
  <2>2. CASE PollPartitionInfo(i)
    BY <2>2, FirstLabels
  <2>3. CASE Build(i)
    BY <2>3, FirstLabels
  <2>4. CASE Checkpoint(i)
    BY <2>4, FirstLabels
  <2>5. CASE \/ CollectReplicaPartition(i)
             \/ StartCollect(i)
             \/ Collected(i)
             \/ MergeReplicaPartition(i)
             \/ SendDispatchMeta(i)
             \/ SendDispatchIds(i)
             \/ SendDispatchNghs(i)
    BY <2>5, ReplicaLabels
  <2>6. CASE \E j \in Machine : PollBuild(i, j) \/ PollScalaMeta(i, j) \/ RecvNgh(i, j)
    <3>1. PICK j \in Machine : PollBuild(i, j) \/ PollScalaMeta(i, j) \/ RecvNgh(i, j)
      BY <2>6
    <3>2. CASE PollBuild(i, j)
      BY <3>2, PollLabels
    <3>3. CASE PollScalaMeta(i, j) \/ RecvNgh(i, j)
      BY <3>3, TakenLabels
    <3> QED
      BY <3>1, <3>2, <3>3
  <2>7. CASE \/ SendScalaMeta(i)
             \/ ReformatIndex(i)
             \/ SendNgh(i)
             \/ NghRoundEnd(i)
    BY <2>7, NeighbourLabels
  <2>8. CASE WritePartitionInfo(i)
    BY <2>8, InfoLabels
  <2>9. CASE TransferToB1(i)
    BY <2>9, TransferLabels
  <2>10. CASE TransToB2(i)
    BY <2>10, SharedLabels
  <2>11. CASE WriteScala(i)
    BY <2>11, DataLabels
  <2>12. CASE LoadIndex(i)
    BY <2>12, LoadLabels
  <2> QED
    BY <1>3, <2>1, <2>2, <2>3, <2>4, <2>5, <2>6, <2>7, <2>8, <2>9, <2>10, <2>11, <2>12
       DEF Step
<1>4. CASE Finished
  BY <1>1, <1>4 DEF Finished
<1> QED
  BY <1>1, <1>2, <1>3, <1>4 DEF Next

(* The labels and places are right in every state.                         *)
THEOREM NumInvariant == Spec => []NumInv
<1>1. Init => NumInv
  BY NumInitialised
<1>2. BuildInv /\ NumInv /\ [Next]_vars => NumInv'
  BY NumKeeps
<1> QED
  BY <1>1, <1>2, BuildInvariant, PTL DEF Spec

(* transfer_to_b1graph_format, trans_to_b2graph, merge_all_b1_index and    *)
(* the top index: in the files of every machine vector, label and position *)
(* belong to one point, for any number of machines, points and threads,    *)
(* any graph that Index::build gives and any order of the messages.        *)
THEOREM LabelsAlwaysRight == Spec => []LabelsRight
<1>1. BuildInv /\ NumInv => LabelsRight
  BY LabelsHold
<1> QED
  BY <1>1, BuildInvariant, NumInvariant, PTL

(* load_index and get_machine_id: whatever machine asks, a position and    *)
(* an element of the top index lead to the machine and the place where the *)
(* vector has been loaded, though the sizes come from the data files, the  *)
(* partition or nowhere, as the type of graph has it.                      *)
THEOREM LoadedAlwaysRight == Spec => []LoadedRight
<1>1. BuildInv /\ NumInv => LoadedRight
  BY LoadedHold
<1> QED
  BY <1>1, BuildInvariant, NumInvariant, PTL

=============================================================================
