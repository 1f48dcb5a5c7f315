------------------------------ MODULE MCSubQuery ------------------------------
(***************************************************************************)
(* Small graphs for SubQuery.  A vertex is named after its distance.       *)
(***************************************************************************)
EXTENDS SubQuery, TLC

Table(pairs) == [v \in {p[1] : p \in pairs} |->
                   (CHOOSE p \in pairs : p[1] = v)[2]]

(* Two core machines, 0 and 1; 5 is on machine 2, which is not.            *)
PairOwner == Table({<<1, 0>>, <<2, 1>>, <<3, 0>>, <<4, 1>>, <<5, 2>>})
PairNgh == Table({<<1, {2, 5}>>, <<2, {1}>>, <<3, {1, 4}>>, <<4, {2, 3}>>,
                  <<5, {}>>})
PairPre == {3, 4}

(* Vertex 2 is reached through the non-core vertex 5 only.                 *)
ViaNgh == Table({<<1, {5}>>, <<2, {1}>>, <<3, {1, 4}>>, <<4, {3}>>,
                 <<5, {2}>>})

(* Core machines 0 and 1, vertices of two others: every kind of request.   *)
(* The nearest vertex is on machine 1 and known only there.                *)
FourOwner == Table({<<1, 1>>, <<2, 0>>, <<3, 1>>, <<4, 2>>, <<5, 2>>, <<6, 3>>})
FourNgh == Table({<<1, {3}>>, <<2, {3, 4, 5}>>, <<3, {1, 2, 6}>>, <<4, {2, 6}>>,
                  <<5, {3}>>, <<6, {5}>>})
FourPre == {2, 3}

(* Three core machines of four, with one vertex each.                      *)
RingOwner == Table({<<1, 0>>, <<2, 1>>, <<3, 2>>})
RingNgh == Table({<<1, {2}>>, <<2, {3}>>, <<3, {1}>>})

=============================================================================
