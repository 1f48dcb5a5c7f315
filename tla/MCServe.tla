------------------------------- MODULE MCServe -------------------------------
(* The deployments that the runs cover.                                     *)
EXTENDS Serve

(* Six vertices in two clusters for the one-sided reads.                    *)
OwnerB1 == <<0, 1, 0, 1, 0, 1>>
NghB1 == << <<2, 3, 4>>, <<1, 5, 6>>, <<4, 6>>, <<2, 5>>, <<3, 6>>, <<4, 1>> >>

Rank(p) == [v \in 1 .. 6 |-> p[v]]
Rot(r) == [v \in 1 .. 6 |-> ((v + r) % 6) + 1]
Rev(r) == [v \in 1 .. 6 |-> 6 - ((v + r) % 6)]

SingleDep(efs) ==
  [app |-> "SINGLE_MACHINE", machines |-> 1, threads |-> 2, load |-> 3, need |-> <<>>,
   efs |-> efs, owner |-> [v \in 1 .. 6 |-> 0], ngh |-> NghB1, entry |-> [i \in {0} |-> 1],
   vecs |-> <<Rot(0), Rot(3), Rev(1)>>, ties |-> "up"]

B1Dep(app, d, ties) ==
  [app |-> app, machines |-> 2, threads |-> 2, load |-> 2, need |-> <<>>,
   efs |-> <<2>>, owner |-> OwnerB1, ngh |-> NghB1, entry |-> [i \in 0 .. 1 |-> 1],
   vecs |-> <<d, Rot(0), Rot(3), d>>, ties |-> ties]

(* Distances as they are, and with every two of them equal.                 *)
Distinct == {Rot(0), Rot(2), Rev(0), Rev(1), Rev(4)}
Paired(d) == [v \in DOMAIN d |-> (d[v] + 1) \div 2]

(* Three partitions of a path of three vertices, in which a search with     *)
(* ef 1 stops at the first.                                                 *)
OwnerB2 == <<0, 0, 0, 1, 1, 1, 2, 2, 2>>
NghB2 == << <<2>>, <<1, 3>>, <<2>>, <<5>>, <<4, 6>>, <<5>>, <<8>>, <<7, 9>>, <<8>> >>
B2Dep(app) ==
  [app |-> app, machines |-> 3, threads |-> 2, load |-> 3, need |-> <<>>,
   efs |-> <<1, 2>>, owner |-> OwnerB2, ngh |-> NghB2,
   entry |-> [i \in 0 .. 2 |-> 3 * i + 1],
   vecs |-> << <<6, 8, 5, 3, 4, 1, 7, 2, 9>>, <<3, 4, 1, 5, 6, 2, 9, 8, 7>>,
              <<2, 9, 8, 7, 3, 1, 6, 4, 5>> >>, ties |-> "up"]

ScalaDep(n, t, l, efs) ==
  [app |-> "ScalaANN_v3", machines |-> n, threads |-> t, load |-> l,
   need |-> [i \in 0 .. n - 1 |-> (0 .. n - 1) \ {i}], efs |-> efs, owner |-> OwnerB1,
   ngh |-> NghB1, entry |-> [i \in 0 .. n - 1 |-> 1], vecs |-> <<>>, ties |-> "up"]

(* Equal distances for the baseline that keeps vertices in read buffers.    *)
Equal == {B1Dep("B1_ASYNC", Paired(d), o) : d \in Distinct, o \in {"up", "down"}}

AllDeployments ==
  {B1Dep(a, d, "up") : a \in {"B1", "B1_ASYNC"}, d \in Distinct}
    \cup Equal
    \cup {B2Dep(a) : a \in {"B2", "B2KmeansBatch"}}
    \cup {SingleDep(<<1, 2>>), ScalaDep(3, 1, 1, <<1>>), ScalaDep(2, 2, 1, <<1>>),
          ScalaDep(2, 1, 2, <<1, 1>>)}

(* Two threads and a second batch.                                          *)
TwoBatches == {ScalaDep(2, 2, 1, <<1, 1>>)}
=============================================================================
