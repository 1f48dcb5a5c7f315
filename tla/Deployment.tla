----------------------------- MODULE Deployment -----------------------------
(***************************************************************************)
(* What exec_query (exec_query.h) is started with.  The search that is run *)
(* (app), the graph and the queries are fixed when the program starts; a   *)
(* run covers a set of deployments.  One batch is one value of ef.         *)
(***************************************************************************)
EXTENDS Integers, Sequences, FiniteSets

CONSTANTS
  Deployments,  \* records of the fields below
  Knn           \* k, neighbours asked for

Apps == {"SINGLE_MACHINE", "B1", "B1_ASYNC", "B2", "B2KmeansBatch", "ScalaANN_v3"}

ASSUME DeploymentAssumption ==
  /\ Knn \in Nat \ {0}
  /\ \A c \in Deployments :
       /\ DOMAIN c = {"app", "machines", "threads", "load", "need", "efs",
                      "owner", "ngh", "entry", "vecs", "ties"}
       /\ c.app \in Apps
       /\ {c.machines, c.threads, c.load} \subseteq Nat \ {0}
       /\ \A n \in DOMAIN c.efs : c.efs[n] >= Knn

VARIABLE dep    \* the deployment

Machine == 0 .. dep.machines - 1
Thread == 0 .. dep.threads - 1
Vertex == DOMAIN dep.owner
BatchNum == Len(dep.efs)

Owner(v) == dep.owner[v]     \* the machine that holds v
Ngh(v) == dep.ngh[v]         \* its neighbours, in order
Vec(q) == dep.vecs[q + 1]    \* distances of the vertices to query q

(* The queues compare distances only (CompareByFirst, CompareByDist); in   *)
(* which order vertices at the same distance leave them is up to the heap. *)
Sooner(v, w) == IF dep.ties = "up" THEN v < w ELSE w < v

(* ef = max(ef_, k) of a batch.                                            *)
EfOf(b) == dep.efs[b]

=============================================================================
