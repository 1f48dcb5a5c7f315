------------------------------ MODULE VisitHash ------------------------------
(***************************************************************************)
(* OptHashPosVector (anns/hash_table.h): the visited set of a query, two   *)
(* blocks of open addressing that double when both have no place left.     *)
(* A table is [pool, cell, second]: m_poolSize, m_hashTable with 0 for an  *)
(* empty cell, and m_secondHash.                                           *)
(***************************************************************************)
EXTENDS Integers, SequencesExt

CONSTANTS
  MaxLoop,     \* m_maxLoop, probes in a block
  InitPool,    \* m_poolSize of a new table, 2^n - 1
  MaxDoubling  \* bound: doublings for one element

ASSUME VisitHashAssumption ==
  /\ {MaxLoop, InitPool} \subseteq Nat \ {0} /\ MaxDoubling \in Nat
  /\ \E n \in 1 .. 14 : InitPool = 2^n - 1

Empty(pool) ==
  [pool |-> pool, cell |-> [c \in 0 .. 2 * pool + 1 |-> 0], second |-> FALSE]

NewTable == Empty(InitPool)

(* The elements of a table grew without end: see DoubleSize.               *)
Stuck == [NewTable EXCEPT !.cell = [c \in DOMAIN @ |-> -1]]

(* hash_func: pool + 1 divides 2^32, so that the overflow of the unsigned  *)
(* sum does not show.  The loop adds 0, 1, 2, ... (hash_func2).            *)
HashFunc(idx, pool) ==
  (idx * 99991 + idx * 4 + idx \div 2^30 + 101) % (pool + 1)

Probes(idx, pool, block) ==
  [l \in 1 .. MaxLoop |-> block * (pool + 1)
     + ((HashFunc(idx, pool) + ((l - 1) * (l - 2)) \div 2) % (pool + 1))]

FirstStop(stops) == IF stops = <<>> THEN -1 ELSE Head(stops)

(* The probe at which the loops stop, empty or with idx: in the first      *)
(* block, else in the second; -1 if there is none.                         *)
Place(t, idx) ==
  FirstStop(SelectSeq(Probes(idx, t.pool, 0) \o Probes(idx, t.pool, 1),
                      LAMBDA c : t.cell[c] \in {0, idx}))

(* _CheckAndSet at that place.                                             *)
PutAt(t, c, idx) ==
  IF c = -1 THEN Stuck
  ELSE [t EXCEPT !.cell[c] = idx, !.second = @ \/ c > t.pool]

(* Faulty variant: only the first block is copied.                         *)
OldCellsOfFirst(t) == SubSeq([c \in 1 .. 2 * t.pool + 2 |-> t.cell[c - 1]], 1, t.pool + 1)

(* The elements of the old table, in the order of DoubleSize's loop.       *)
OldCells(t) == [c \in 1 .. 2 * t.pool + 2 |-> t.cell[c - 1]]

(* An element without a place in the new table starts DoubleSize again     *)
(* from the unchanged old one, and so for ever.                            *)
DoubleSize(t) ==
  FoldLeft(LAMBDA new, idx : IF new = Stuck \/ idx = 0 THEN new
                             ELSE PutAt(new, Place(new, idx), idx),
           Empty(2 * t.pool + 1), OldCells(t))

(* The table in which idx has a place.                                     *)
Grow(t, idx) == IF t = Stuck \/ Place(t, idx) # -1 THEN t ELSE DoubleSize(t)

Roomy(t, idx) ==
  FoldLeft(LAMBDA old, n : Grow(old, idx), t, [n \in 1 .. MaxDoubling |-> n])

(* CheckAndSet: whether v was there, and the table afterwards.             *)
SetAt(t, c, idx) ==
  [hit |-> c # -1 /\ t.cell[c] = idx, table |-> PutAt(t, c, idx)]

SetIn(t, idx) == SetAt(t, Place(t, idx), idx)

CheckAndSet(t, v) == SetIn(Roomy(t, v + 1), v + 1)

(* clear: the second block is left alone if it has not been used.          *)
Clear(t) ==
  [t EXCEPT !.cell = [c \in DOMAIN @ |-> IF c <= t.pool \/ t.second THEN 0 ELSE @[c]],
            !.second = FALSE]

(* The table holds the elements of S, each once and where it is looked     *)
(* for, and clear() would empty it.                                        *)
Holds(t, S) ==
  /\ {t.cell[c] : c \in DOMAIN t.cell} \ {0} = {v + 1 : v \in S}
  /\ \A c, d \in DOMAIN t.cell : t.cell[c] = t.cell[d] /\ t.cell[c] # 0 => c = d
  /\ \A v \in S : t.cell[Place(t, v + 1)] = v + 1
  /\ Clear(t) = Empty(t.pool)

=============================================================================
