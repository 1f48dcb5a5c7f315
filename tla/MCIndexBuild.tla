----------------------------- MODULE MCIndexBuild -----------------------------
(* Small instances of the index build for TLC. *)
EXTENDS IndexBuild

(* Vectors on a line, two for every machine.                               *)
Line6 == 0 :> 0 @@ 1 :> 60 @@ 2 :> 120 @@ 3 :> 0 @@ 4 :> 60 @@ 5 :> 120

(* A graph of n points: a ring, and one point knows both its neighbours.   *)
Ring(n) == [k \in 1 .. n |-> <<(k % n) + 1>>]
Hub(n) == {IF n <= 2 THEN Ring(n) ELSE [Ring(n) EXCEPT ![1] = <<2, n>>]}
=============================================================================
