-------------------------------- MODULE Serve --------------------------------
(***************************************************************************)
(* exec_query: the switch over the search variants.  BatchTerm drives B1,  *)
(* B1_ASYNC and ScalaANN_v3, Baseline2 the two others.                     *)
(***************************************************************************)
EXTENDS BatchTerm, Baseline2

serveVars == <<dep, termVars, b2Vars>>

ServeInit == dep \in Deployments /\ BatchInit /\ B2Init

(* All batches are over.  The members of the baselines B2 and              *)
(* B2KmeansBatch stay in their loops.                                      *)
Served ==
  IF Driven THEN \A i \in Machine, t \in Thread : st[i][t] = "done"
            ELSE round = BatchNum /\ merged = Query

(* No step repeats a state, so that every behaviour ends; a deadlock is an *)
(* end in which a batch is not over.                                       *)
ServeNext ==
  \/ UNCHANGED dep /\ BatchNext /\ UNCHANGED b2Vars
  \/ UNCHANGED dep /\ B2Next /\ UNCHANGED termVars
  \/ Served /\ UNCHANGED serveVars

ServeSpec == ServeInit /\ [][ServeNext]_serveVars

=============================================================================
