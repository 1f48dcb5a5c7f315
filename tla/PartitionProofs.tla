--------------------------- MODULE PartitionProofs ----------------------------
(***************************************************************************)
(* Proofs about the partition of the points, for every number of machines, *)
(* points, blocks and threads and every outcome of k-means: the files of   *)
(* ids and vectors are right (PartInv).                                    *)
(*                                                                         *)
(* What the folds of the community modules compute is derived from the     *)
(* induction and recursion of SumProofs: the sum over a set, the ascending *)
(* list of a set (SortedList) and the pass over the base file (Walked).    *)
(***************************************************************************)
EXTENDS Partition, SumProofs

-----------------------------------------------------------------------------
(* Induction, folds over sets and sorted sequences.                        *)

(* The elements of a set in ascending order.                               *)
SortedList(a, S) ==
  /\ a \in Seq(S) /\ Range(a) = S
  /\ \A m, n \in 1 .. Len(a) : m < n => a[m] < a[n]

(* Ascending lists a finite set of integers in order, each once.           *)
LEMMA AscendingList ==
  ASSUME NEW S \in SUBSET Int, IsFiniteSet(S)
  PROVE  SortedList(Ascending(S), S)
<1> DEFINE below(x) == {y \in S : y < x}
           rank == [x \in S |-> Cardinality(below(x)) + 1]
           c == Cardinality(S)
           a == [k \in 1 .. c |-> CHOOSE x \in S : Cardinality(below(x)) = k - 1]
<1>0. c \in Nat
  BY FS_CardinalityType
<1>1. ASSUME NEW x \in S
      PROVE  IsFiniteSet(below(x)) /\ Cardinality(below(x)) \in 0 .. c - 1
  <2>1. IsFiniteSet(S \ {x}) /\ Cardinality(S \ {x}) = c - 1
    BY FS_RemoveElement
  <2>2. below(x) \in SUBSET (S \ {x})
    OBVIOUS
  <2>3. IsFiniteSet(below(x)) /\ Cardinality(below(x)) <= c - 1
    <3> HIDE DEF below, c
    <3> QED
      BY <2>1, <2>2, FS_Subset
  <2>4. Cardinality(below(x)) \in Nat
    BY <2>3, FS_CardinalityType
  <2> QED
    BY <1>0, <2>3, <2>4
<1>2. ASSUME NEW x \in S, NEW y \in S, x < y
      PROVE  Cardinality(below(x)) < Cardinality(below(y))
  <2>1. IsFiniteSet(below(x) \cup {x})
        /\ Cardinality(below(x) \cup {x}) = Cardinality(below(x)) + 1
    <3>1. x \notin below(x)
      OBVIOUS
    <3> HIDE DEF below
    <3> QED
      BY <1>1, <3>1, FS_AddElement
  <2>2. below(x) \cup {x} \in SUBSET below(y)
    <3>1. \A z \in S : z < x => z < y
      BY <1>2
    <3> QED
      BY <1>2, <3>1
  <2>3. Cardinality(below(x) \cup {x}) <= Cardinality(below(y))
    <3> HIDE DEF below
    <3> QED
      BY <1>1, <2>2, FS_Subset
  <2>4. Cardinality(below(x)) \in Nat /\ Cardinality(below(y)) \in Nat
    BY <1>0, <1>1
  <2> QED
    BY <2>1, <2>3, <2>4
<1>3. rank \in [S -> 1 .. c]
  <2>1. \A x \in S : Cardinality(below(x)) + 1 \in 1 .. c
    BY <1>0, <1>1
  <2> QED
    BY <2>1
<1>4. ASSUME NEW x \in S, NEW y \in S, rank[x] = rank[y] PROVE x = y
  <2>1. Cardinality(below(x)) = Cardinality(below(y))
    <3>1. Cardinality(below(x)) \in Nat /\ Cardinality(below(y)) \in Nat
      BY <1>0, <1>1
    <3>2. rank[x] = Cardinality(below(x)) + 1 /\ rank[y] = Cardinality(below(y)) + 1
      OBVIOUS
    <3> QED
      BY <1>4, <3>1, <3>2
  <2>2. Cardinality(below(x)) \in Nat
    BY <1>0, <1>1
  <2>3. ~(x < y)
    BY <1>2, <2>1, <2>2
  <2>4. ~(y < x)
    BY <1>2, <2>1, <2>2
  <2> QED
    BY <2>3, <2>4
<1>5. rank \in Injection(S, 1 .. c)
  <2> HIDE DEF rank
  <2> QED
    BY <1>3, <1>4 DEF Injection, IsInjective
<1>6. rank \in Surjection(S, 1 .. c)
  <2>1. IsFiniteSet(1 .. c) /\ Cardinality(1 .. c) = c
    BY <1>0, FS_Interval, 1 \in Int
  <2> HIDE DEF rank, c
  <2>2. Cardinality(S) = Cardinality(1 .. c)
    BY <2>1 DEF c
  <2> QED
    BY <1>5, <2>1, <2>2, FS_Injection
<1>7. ASSUME NEW k \in 1 .. c
      PROVE  a[k] \in S /\ Cardinality(below(a[k])) = k - 1
  <2>1. PICK x \in S : rank[x] = k
    <3> HIDE DEF rank
    <3> QED
      BY <1>6 DEF Surjection
  <2>2. Cardinality(below(x)) = k - 1
    <3>1. rank[x] = Cardinality(below(x)) + 1 /\ Cardinality(below(x)) \in Nat
      BY <1>0, <1>1
    <3> QED
      BY <2>1, <3>1
  <2>3. a[k] = CHOOSE y \in S : Cardinality(below(y)) = k - 1
    OBVIOUS
  <2> HIDE DEF a, below
  <2> QED
    BY <2>2, <2>3
<1>8. a \in Seq(S) /\ Len(a) = c /\ DOMAIN a = 1 .. c
  <2>1. \A k \in 1 .. c : a[k] \in S
    BY <1>7
  <2>2. a \in [1 .. c -> S]
    BY <2>1
  <2> HIDE DEF a, c
  <2> QED
    BY <1>0, <2>2
<1>9. Range(a) = S
  <2>1. Range(a) \subseteq S
    BY <1>7, <1>8 DEF Range
  <2>2. ASSUME NEW x \in S PROVE x \in Range(a)
    <3> DEFINE k == rank[x]
    <3>1. k \in 1 .. c /\ k - 1 = Cardinality(below(x))
      <4>1. rank[x] = Cardinality(below(x)) + 1 /\ Cardinality(below(x)) \in Nat
        BY <1>0, <1>1
      <4> HIDE DEF rank
      <4> QED
        BY <1>3, <4>1
    <3>2. a[k] \in S /\ Cardinality(below(a[k])) = k - 1
      BY <1>7, <3>1
    <3>3. rank[a[k]] = rank[x]
      <4>1. rank[x] = Cardinality(below(x)) + 1
        OBVIOUS
      <4>2. rank[a[k]] = Cardinality(below(a[k])) + 1
        BY <3>2
      <4> HIDE DEF rank, a, below
      <4> QED
        BY <3>1, <3>2, <4>1, <4>2
    <3>4. a[k] = x
      <4> HIDE DEF rank, a
      <4> QED
        BY <1>4, <3>2, <3>3
    <3> QED
      BY <1>8, <3>1, <3>4 DEF Range
  <2> QED
    BY <2>1, <2>2
<1>10. ASSUME NEW m \in 1 .. c, NEW n \in 1 .. c, m < n PROVE a[m] < a[n]
  <2> HIDE DEF a, below
  <2>1. /\ a[m] \in S /\ a[n] \in S
        /\ Cardinality(below(a[m])) = m - 1 /\ Cardinality(below(a[n])) = n - 1
    BY <1>7
  <2>2. a[m] \in Int /\ a[n] \in Int
    BY <2>1
  <2>3. a[m] # a[n]
    BY <2>1, <1>10, <1>0
  <2>4. ~(a[n] < a[m])
    <3> SUFFICES ASSUME a[n] < a[m] PROVE FALSE
      OBVIOUS
    <3>1. Cardinality(below(a[n])) < Cardinality(below(a[m]))
      BY <1>2, <2>1
    <3> QED
      BY <1>0, <1>10, <2>1, <3>1
  <2> QED
    BY <2>2, <2>3, <2>4
<1>11. a = Ascending(S)
  BY DEF Ascending, Sorted
<1> HIDE DEF a, c
<1> QED
  BY <1>8, <1>9, <1>10, <1>11 DEF SortedList

(* Two ascending lists, one behind the other, when all of the second are   *)
(* greater.                                                                *)
LEMMA SortedAppend ==
  ASSUME NEW S \in SUBSET Int, NEW T \in SUBSET Int, NEW a, NEW b,
         SortedList(a, S), SortedList(b, T), \A x \in S, y \in T : x < y
  PROVE  SortedList(a \o b, S \cup T)
<1> DEFINE ab == a \o b
<1>1. /\ a \in Seq(S) /\ b \in Seq(T) /\ Len(a) \in Nat /\ Len(b) \in Nat
      /\ \A k \in 1 .. Len(a) : a[k] \in S
      /\ \A k \in 1 .. Len(b) : b[k] \in T
  BY DEF SortedList
<1>2. /\ ab \in Seq(S \cup T) /\ Len(ab) = Len(a) + Len(b)
      /\ \A k \in 1 .. Len(ab) : ab[k] = IF k <= Len(a) THEN a[k] ELSE b[k - Len(a)]
  BY <1>1
<1>3. Range(ab) = S \cup T
  <2>1. \A x \in Range(ab) : x \in S \cup T
    BY <1>2 DEF Range
  <2>2. ASSUME NEW x \in S PROVE x \in Range(ab)
    <3>1. PICK k \in DOMAIN a : a[k] = x
      BY DEF SortedList, Range
    <3>2. k \in 1 .. Len(ab) /\ ab[k] = x
      BY <1>1, <1>2, <3>1
    <3> QED
      BY <1>2, <3>2 DEF Range
  <2>3. ASSUME NEW x \in T PROVE x \in Range(ab)
    <3>1. PICK k \in DOMAIN b : b[k] = x
      BY DEF SortedList, Range
    <3>2. Len(a) + k \in 1 .. Len(ab) /\ ab[Len(a) + k] = x
      BY <1>1, <1>2, <3>1
    <3> QED
      BY <1>2, <3>2 DEF Range
  <2> QED
    BY <2>1, <2>2, <2>3
<1>4. ASSUME NEW m \in 1 .. Len(ab), NEW n \in 1 .. Len(ab), m < n
      PROVE  ab[m] < ab[n]
  <2>1. CASE n <= Len(a)
    BY <1>1, <1>2, <1>4, <2>1 DEF SortedList
  <2>2. CASE m <= Len(a) /\ ~(n <= Len(a))
    <3>1. n - Len(a) \in 1 .. Len(b) /\ m \in 1 .. Len(a)
      BY <1>1, <1>2, <1>4, <2>2
    <3>2. ab[m] = a[m] /\ ab[n] = b[n - Len(a)]
      BY <1>2, <2>2
    <3>3. a[m] \in S /\ b[n - Len(a)] \in T
      BY <1>1, <3>1
    <3> QED
      BY <3>2, <3>3
  <2>3. CASE ~(m <= Len(a))
    <3>1. /\ m - Len(a) \in 1 .. Len(b) /\ n - Len(a) \in 1 .. Len(b)
          /\ m - Len(a) < n - Len(a) /\ ~(n <= Len(a))
      BY <1>1, <1>2, <1>4, <2>3
    <3> QED
      BY <1>2, <2>3, <3>1 DEF SortedList
  <2> HIDE DEF ab
  <2> QED
    BY <2>1, <2>2, <2>3
<1> HIDE DEF ab
<1>5. SortedList(ab, S \cup T)
  BY <1>2, <1>3, <1>4 DEF SortedList
<1> QED
  BY <1>5 DEF ab

(* One point of a pass over the base file.                                 *)
WalkStep(done, v, ids, behind) ==
  IF \/ Len(done) < Len(ids) /\ ids[Len(done) + 1] = v
     \/ Len(done) = Len(ids) /\ behind = v
  THEN Append(done, v) ELSE done

(* w[k] is what has been written when the first k points have been read.   *)
Walked(w, ids, behind) ==
  /\ w \in [0 .. PointNum -> Seq(Point)] /\ w[0] = <<>>
  /\ \A k \in 0 .. PointNum - 1 : w[k + 1] = WalkStep(w[k], k, ids, behind)
  /\ w[PointNum] = Walk(ids, behind)

(* The points are numbered from 0, and there is one.                       *)
LEMMA Points ==
  /\ PointNum \in Nat \ {0} /\ PointNum - 1 \in Nat /\ IsFiniteSet(Point)
  /\ Point \subseteq Nat /\ Point \subseteq Int
<1>1. PointNum \in Nat \ {0} /\ PointNum - 1 \in Nat /\ PointNum - 1 \in Int /\ 0 \in Int
  BY PartitionAssumption
<1> QED
  BY <1>1, FS_Interval DEF Point

(* Walk goes over the points one by one: the fold is WalkStep, repeated.   *)
LEMMA WalkByPoint ==
  ASSUME NEW ids, NEW behind PROVE \E w : Walked(w, ids, behind)
<1> DEFINE N == PointNum
           S == 1 .. N
           Y == Seq(Point)
           seq == [k \in 1 .. N |-> k - 1]
           pick == [s \in SUBSET S |-> Max(s)]
           step == [p \in S \X Y |-> WalkStep(p[2], p[1] - 1, ids, behind)]
           R(f) == [s \in SUBSET S |->
                      IF s = {} THEN <<>>
                      ELSE WalkStep(f[s \ {Max(s)}], seq[Max(s)], ids, behind)]
           iter == CHOOSE f : f = R(f)
           w == [k \in 0 .. N |-> iter[1 .. k]]
<1>0. N \in Nat \ {0} /\ \A k \in S : k - 1 \in Point
  BY Points DEF Point
<1>1. IsFiniteSet(S)
  BY <1>0, FS_Interval, 1 \in Int
<1>2. ASSUME NEW s \in SUBSET S, s # {} PROVE Max(s) \in s /\ \A y \in s : y <= Max(s)
  <2>1. s \in SUBSET Int
    OBVIOUS
  <2>3. IsFiniteSet(s)
    <3> HIDE DEF S, R, iter, w, step, pick, seq
    <3> QED
      BY <1>1, FS_Subset
  <2> HIDE DEF S, R, iter, w, step, pick, seq
  <2> QED
    BY <1>2, <2>1, <2>3, Extremes
<1>3. ASSUME NEW d \in Y, NEW v \in Point PROVE WalkStep(d, v, ids, behind) \in Y
  BY DEF WalkStep
<1>4. step \in [S \X Y -> Y]
  <2> SUFFICES ASSUME NEW p \in S \X Y
               PROVE  WalkStep(p[2], p[1] - 1, ids, behind) \in Y
    OBVIOUS
  <2>1. p[2] \in Y /\ p[1] - 1 \in Point
    BY <1>0
  <2> QED
    BY <1>3, <2>1
<1>5. \A s \in SUBSET S : s # {} => pick[s] \in s /\ pick[s] = Max(s)
  BY <1>2
<1> HIDE DEF pick, step
<1>6. CanRecurse(S, Y, <<>>, pick, step)
  <2>1. <<>> \in Y
    OBVIOUS
  <2> HIDE DEF Y, S
  <2> QED
    BY <1>1, <1>4, <1>5, <2>1 DEF CanRecurse
<1>7. Recurses(S, Y, <<>>, pick, step)
  BY <1>6, RecursionExists
<1>8. PICK f \in [SUBSET S -> Y] : f = Recursion(S, <<>>, pick, step, f)
  BY <1>7 DEF Recurses
<1>9. f = R(f)
  <2>1. ASSUME NEW s \in SUBSET S, s # {}
        PROVE  step[<<pick[s], f[s \ {pick[s]}]>>]
                 = WalkStep(f[s \ {Max(s)}], seq[Max(s)], ids, behind)
    <3>1. pick[s] = Max(s) /\ Max(s) \in S /\ s \ {Max(s)} \in SUBSET S
      BY <1>2, <1>5, <2>1
    <3>2. f[s \ {Max(s)}] \in Y /\ seq[Max(s)] = Max(s) - 1
      BY <3>1
    <3>3. step[<<Max(s), f[s \ {Max(s)}]>>]
            = WalkStep(f[s \ {Max(s)}], Max(s) - 1, ids, behind)
      BY <3>1, <3>2 DEF step
    <3> QED
      BY <3>1, <3>2, <3>3
  <2> HIDE DEF S, seq
  <2> QED
    BY <1>8, <2>1 DEF Recursion
<1>10. iter = R(iter)
  BY <1>9
<1>11. w[0] = <<>>
  <2>1. w[0] = iter[1 .. 0] /\ 1 .. 0 = {}
    BY <1>0
  <2>2. iter[{}] = R(iter)[{}]
    BY <1>10
  <2>3. R(iter)[{}] = <<>>
    OBVIOUS
  <2> HIDE DEF iter, R
  <2> QED
    BY <2>1, <2>2, <2>3
<1>12. ASSUME NEW k \in 0 .. N - 1 PROVE w[k + 1] = WalkStep(w[k], k, ids, behind)
  <2> DEFINE s == 1 .. k + 1
  <2>1. k \in Nat /\ s \in SUBSET S /\ s # {} /\ k + 1 \in s /\ k + 1 \in S
    <3>1. k \in Nat /\ k + 1 \in Nat /\ k + 1 <= N /\ 1 <= k + 1
      BY <1>0
    <3> QED
      BY <1>0, <3>1
  <2>2. Max(s) = k + 1
    <3>1. Max(s) \in s /\ k + 1 <= Max(s)
      BY <1>2, <2>1
    <3> QED
      BY <1>0, <3>1
  <2>3. s \ {k + 1} = 1 .. k
    BY <1>0
  <2>4. seq[k + 1] = k
    BY <1>0, <2>1
  <2>5. R(iter)[s] = WalkStep(iter[s \ {Max(s)}], seq[Max(s)], ids, behind)
    BY <2>1
  <2>6. iter[s] = R(iter)[s]
    BY <1>10
  <2>7. w[k + 1] = iter[s] /\ w[k] = iter[1 .. k]
    BY <1>0
  <2> HIDE DEF iter, R, s, seq, w
  <2> QED
    BY <2>2, <2>3, <2>4, <2>5, <2>6, <2>7
<1>13. \A k \in 0 .. N : w[k] \in Y
  <2> DEFINE Good == {k \in Nat : k \in 0 .. N => w[k] \in Y}
  <2> HIDE DEF w, Y
  <2>1. 0 \in Good
    <3>1. <<>> \in Y
      BY DEF Y
    <3> QED
      BY <1>11, <3>1
  <2>2. \A k \in Nat : k \in Good => k + 1 \in Good
    <3> SUFFICES ASSUME NEW k \in Nat, k \in Good, k + 1 \in 0 .. N
                 PROVE  w[k + 1] \in Y
      OBVIOUS
    <3>2. k \in 0 .. N => w[k] \in Y
      OBVIOUS
    <3> HIDE DEF Good
    <3>1. k \in 0 .. N - 1 /\ k \in 0 .. N /\ k \in Point
      BY <1>0, Points DEF Point
    <3> QED
      BY <1>3, <1>12, <3>1, <3>2
  <2> HIDE DEF Good
  <2>3. Nat \subseteq Good
    BY <2>1, <2>2, AllNaturals
  <2> QED
    BY <1>0, <2>3 DEF Good
<1>14. w[N] = Walk(ids, behind)
  <2>1. w[N] = iter[1 .. N] /\ DOMAIN seq = 1 .. N
    BY <1>0
  <2>2. Walk(ids, behind) = iter[1 .. N]
    BY <2>1 DEF Walk, FoldLeft, MapThenFoldSet, WalkStep
  <2> QED
    BY <2>1, <2>2
<1>15. Walked(w, ids, behind)
  <2>1. w \in [0 .. N -> Y]
    BY <1>13
  <2> HIDE DEF w
  <2> QED
    BY <1>11, <1>12, <1>14, <2>1 DEF Walked
<1> QED
  BY <1>15

(* Where the pass writes as many points as there are ids, they are the     *)
(* ids, whatever lies behind the list.                                     *)
LEMMA WalkRight ==
  ASSUME NEW ids \in Seq(Point), NEW behind, Len(Walk(ids, behind)) = Len(ids)
  PROVE  Walk(ids, behind) = ids
<1>1. PICK w : Walked(w, ids, behind)
  BY WalkByPoint
<1> DEFINE Agree(d) == \A n \in 1 .. Len(d) : n <= Len(ids) => d[n] = ids[n]
           Good == {k \in Nat : k \in 0 .. PointNum => Agree(w[k])}
<1>2. 0 \in Good
  BY <1>1 DEF Walked
<1>3. ASSUME NEW k \in Nat, k \in Good PROVE k + 1 \in Good
  <2> SUFFICES ASSUME k + 1 \in 0 .. PointNum PROVE Agree(w[k + 1])
    OBVIOUS
  <2>1. k \in 0 .. PointNum - 1 /\ k \in 0 .. PointNum
    BY Points
  <2>2. Agree(w[k])
    BY <1>3, <2>1
  <2>3. w[k + 1] = WalkStep(w[k], k, ids, behind) /\ w[k] \in Seq(Point)
    BY <1>1, <2>1 DEF Walked
  <2>4. PICK d \in Seq(Point) : d = w[k]
    BY <2>3
  <2>5. CASE w[k + 1] = d
    BY <2>2, <2>4, <2>5
  <2>6. CASE w[k + 1] = Append(d, k)
               /\ (Len(d) < Len(ids) => ids[Len(d) + 1] = k)
    <3>1. \A n \in 1 .. Len(d) + 1 :
            Append(d, k)[n] = IF n = Len(d) + 1 THEN k ELSE d[n]
      BY <2>4
    <3>2. Len(Append(d, k)) = Len(d) + 1 /\ Len(d) \in Nat /\ Len(ids) \in Nat
      BY <2>4
    <3>3. Agree(Append(d, k))
      BY <2>2, <2>4, <2>6, <3>1, <3>2
    <3> QED
      BY <2>6, <3>3
  <2> QED
    BY <2>3, <2>4, <2>5, <2>6 DEF WalkStep
<1> HIDE DEF Good
<1>4. PointNum \in Good
  BY <1>2, <1>3, AllNaturals, Points
<1>5. Agree(Walk(ids, behind)) /\ Walk(ids, behind) \in Seq(Point)
  BY <1>1, <1>4, Points DEF Walked, Good
<1> QED
  BY <1>5

(* A list that ascends is found whole when nothing lies behind it.         *)
LEMMA WalkWhole ==
  ASSUME NEW ids \in Seq(Point),
         \A m, n \in 1 .. Len(ids) : m < n => ids[m] < ids[n]
  PROVE  Walk(ids, -1) = ids
<1>1. PICK w : Walked(w, ids, -1)
  BY WalkByPoint
<1> DEFINE Done(k) == /\ Len(w[k]) <= Len(ids)
                      /\ \A n \in 1 .. Len(ids) : ids[n] < k <=> n <= Len(w[k])
           Good == {k \in Nat : k \in 0 .. PointNum => Done(k)}
<1>0. /\ Len(ids) \in Nat /\ \A n \in 1 .. Len(ids) : ids[n] \in Point /\ ids[n] \in Nat
  <2>1. Len(ids) \in Nat /\ \A n \in 1 .. Len(ids) : ids[n] \in Point
    OBVIOUS
  <2> QED
    BY <2>1, Points
<1>2. 0 \in Good
  BY <1>0, <1>1 DEF Walked
<1>3. ASSUME NEW k \in Nat, k \in Good PROVE k + 1 \in Good
  <2> SUFFICES ASSUME k + 1 \in 0 .. PointNum PROVE Done(k + 1)
    OBVIOUS
  <2>1. k \in 0 .. PointNum - 1 /\ k \in 0 .. PointNum
    BY Points
  <2>2. Done(k)
    BY <1>3, <2>1
  <2>3. w[k + 1] = WalkStep(w[k], k, ids, -1) /\ w[k] \in Seq(Point)
    BY <1>1, <2>1 DEF Walked
  <2>4. PICK L \in Nat : L = Len(w[k])
    BY <2>3
  <2>5. L <= Len(ids) /\ \A n \in 1 .. Len(ids) : ids[n] < k <=> n <= L
    BY <2>2, <2>4
  <2>6. CASE L < Len(ids) /\ ids[L + 1] = k
    <3>1. Len(w[k + 1]) = L + 1
      BY <2>3, <2>4, <2>6 DEF WalkStep
    <3>2. ASSUME NEW n \in 1 .. Len(ids) PROVE ids[n] < k + 1 <=> n <= L + 1
      <4>1. L + 1 \in 1 .. Len(ids) /\ ids[n] \in Nat
        BY <1>0, <2>6
      <4>2. CASE n <= L
        BY <2>5, <4>1, <4>2
      <4>3. CASE n = L + 1
        BY <2>6, <4>3
      <4>4. CASE n > L + 1
        <5>1. ids[L + 1] < ids[n]
          BY <4>1, <4>4
        <5> QED
          BY <2>6, <4>1, <4>4, <5>1
      <4> QED
        BY <4>2, <4>3, <4>4
    <3> QED
      BY <1>0, <2>6, <3>1, <3>2
  <2>7. CASE ~(L < Len(ids) /\ ids[L + 1] = k)
    <3>1. Len(w[k + 1]) = L
      <4>1. -1 # k
        OBVIOUS
      <4> QED
        BY <2>3, <2>4, <2>7, <4>1 DEF WalkStep
    <3>2. ASSUME NEW n \in 1 .. Len(ids) PROVE ids[n] < k + 1 <=> n <= L
      <4>1. ids[n] \in Nat /\ (ids[n] < k <=> n <= L)
        BY <1>0, <2>5
      <4>2. CASE n <= L
        BY <4>1, <4>2
      <4>3. CASE n = L + 1
        BY <1>0, <2>7, <4>1, <4>3
      <4>4. CASE n > L + 1
        <5>1. L + 1 \in 1 .. Len(ids)
          BY <1>0, <4>4
        <5>2. ids[L + 1] < ids[n] /\ ids[L + 1] \in Nat /\ ~(ids[L + 1] < k)
          BY <1>0, <2>5, <4>4, <5>1
        <5> QED
          BY <4>1, <4>4, <5>2
      <4> QED
        BY <4>2, <4>3, <4>4
    <3> QED
      BY <2>5, <3>1, <3>2
  <2> QED
    BY <2>6, <2>7
<1> HIDE DEF Good
<1>4. PointNum \in Good
  BY <1>2, <1>3, AllNaturals, Points
<1>5. Done(PointNum) /\ w[PointNum] = Walk(ids, -1) /\ Walk(ids, -1) \in Seq(Point)
  BY <1>1, <1>4, Points DEF Walked, Good
<1>6. Len(Walk(ids, -1)) = Len(ids)
  <2>1. PICK L \in Nat : L = Len(Walk(ids, -1))
    BY <1>5
  <2>2. L <= Len(ids) /\ \A n \in 1 .. Len(ids) : ids[n] < PointNum <=> n <= L
    BY <1>5, <2>1
  <2>3. \A n \in 1 .. Len(ids) : ids[n] < PointNum
    BY <1>0, Points DEF Point
  <2>4. Len(ids) # 0 => Len(ids) <= L
    BY <1>0, <2>2, <2>3
  <2> QED
    BY <1>0, <2>1, <2>2, <2>4
<1> QED
  BY <1>6, WalkRight

-----------------------------------------------------------------------------
(* The choice of a cluster.                                                *)

Fraction == [num : Int, den : Nat \ {0}]

(* A product is less when a factor is.                                     *)
LEMMA TimesLess ==
  ASSUME NEW x \in Int, NEW y \in Int, NEW z \in Nat \ {0}
  PROVE  x < y <=> x * z < y * z
OBVIOUS

(* Lighter is transitive, also where one side may be equal.                *)
LEMMA LighterThan ==
  ASSUME NEW a \in Fraction, NEW b \in Fraction, NEW c \in Fraction,
         Lighter(a, b), ~Lighter(c, b)
  PROVE  Lighter(a, c) /\ ~Lighter(c, a)
<1>1. PICK an \in Int, bn \in Int, cn \in Int,
           ad \in Nat \ {0}, bd \in Nat \ {0}, cd \in Nat \ {0} :
        /\ an = a.num /\ bn = b.num /\ cn = c.num
        /\ ad = a.den /\ bd = b.den /\ cd = c.den
  BY DEF Fraction
<1>2. an * bd < bn * ad /\ bn * cd <= cn * bd
  <2>1. an * bd < bn * ad /\ ~(cn * bd < bn * cd)
    BY <1>1 DEF Lighter
  <2> QED
    BY <2>1
<1>3. (an * bd) * cd < (bn * ad) * cd
  <2>1. PICK x \in Int, y \in Int : x = an * bd /\ y = bn * ad
    OBVIOUS
  <2> QED
    BY <1>2, <2>1, TimesLess
<1>4. (bn * cd) * ad <= (cn * bd) * ad
  <2>1. PICK x \in Int, y \in Int : x = bn * cd /\ y = cn * bd
    OBVIOUS
  <2>2. ~(y * ad < x * ad)
    BY <1>2, <2>1, TimesLess
  <2>3. x * ad \in Int /\ y * ad \in Int
    OBVIOUS
  <2> QED
    BY <2>1, <2>2, <2>3
<1>5. (an * cd) * bd < (cn * ad) * bd
  <2>1. /\ (an * bd) * cd = (an * cd) * bd /\ (bn * ad) * cd = (bn * cd) * ad
        /\ (cn * bd) * ad = (cn * ad) * bd
    OBVIOUS
  <2>2. PICK p \in Int, q \in Int, r \in Int :
          p = (an * cd) * bd /\ q = (bn * cd) * ad /\ r = (cn * ad) * bd
    OBVIOUS
  <2>3. p < q /\ q <= r
    BY <1>3, <1>4, <2>1, <2>2
  <2> QED
    BY <2>2, <2>3
<1>6. an * cd < cn * ad
  <2>1. PICK x \in Int, y \in Int : x = an * cd /\ y = cn * ad
    OBVIOUS
  <2> QED
    BY <1>5, <2>1, TimesLess
<1>7. ~(cn * ad < an * cd)
  BY <1>6
<1> QED
  BY <1>1, <1>6, <1>7 DEF Lighter

(* Nothing is lighter than itself.                                         *)
LEMMA LighterSelf == ASSUME NEW a \in Fraction PROVE ~Lighter(a, a)
<1>1. a.num * a.den \in Int
  BY DEF Fraction
<1> QED
  BY <1>1 DEF Lighter

(* The partitions are finitely many, numbered from 0.                      *)
LEMMA Parts == MachineNum \in Nat \ {0} /\ Part \subseteq Nat /\ 0 \in Part /\ IsFiniteSet(Part)
<1>1. MachineNum \in Nat \ {0} /\ MachineNum - 1 \in Int /\ 0 \in Int
  BY PartitionAssumption
<1> QED
  BY <1>1, FS_Interval DEF Part

(* Among finitely many weights there is a first lightest one.              *)
LEMMA FirstLightest ==
  ASSUME NEW h \in [Part -> Fraction]
  PROVE  \E m \in Part : /\ \A o \in Part : ~Lighter(h[o], h[m])
                         /\ \A o \in 0 .. m - 1 : Lighter(h[m], h[o])
<1> DEFINE First(m, n) == /\ \A o \in 0 .. n : ~Lighter(h[o], h[m])
                          /\ \A o \in 0 .. m - 1 : Lighter(h[m], h[o])
           Good == {n \in Nat : n \in Part => \E m \in 0 .. n : First(m, n)}
<1>0. \A n \in Part : h[n] \in Fraction /\ n \in Nat
  BY Parts
<1>1. 0 \in Good
  <2>1. ~Lighter(h[0], h[0])
    BY <1>0, Parts, LighterSelf
  <2>2. First(0, 0)
    BY <2>1
  <2> QED
    BY <2>2
<1>2. ASSUME NEW n \in Nat, n \in Good PROVE n + 1 \in Good
  <2> SUFFICES ASSUME n + 1 \in Part PROVE \E m \in 0 .. n + 1 : First(m, n + 1)
    OBVIOUS
  <2>1. n \in Part /\ 0 .. n + 1 \subseteq Part
    BY Parts DEF Part
  <2>2. PICK m \in 0 .. n : First(m, n)
    BY <1>2, <2>1
  <2>3. h[m] \in Fraction /\ h[n + 1] \in Fraction /\ m \in 0 .. n + 1
        /\ \A o \in 0 .. n + 1 : o = n + 1 \/ o \in 0 .. n
    BY <1>0, <2>1
  <2>4. CASE Lighter(h[n + 1], h[m])
    <3>1. ASSUME NEW o \in 0 .. n
          PROVE  Lighter(h[n + 1], h[o]) /\ ~Lighter(h[o], h[n + 1])
      <4>1. h[o] \in Fraction /\ ~Lighter(h[o], h[m])
        BY <1>0, <2>1, <2>2
      <4> QED
        BY <2>3, <2>4, <4>1, LighterThan
    <3>2. ~Lighter(h[n + 1], h[n + 1])
      BY <2>3, LighterSelf
    <3>3. 0 .. n + 1 - 1 = 0 .. n
      OBVIOUS
    <3>4. First(n + 1, n + 1)
      BY <2>3, <3>1, <3>2, <3>3
    <3> QED
      BY <3>4
  <2>5. CASE ~Lighter(h[n + 1], h[m])
    BY <2>2, <2>3, <2>5
  <2> QED
    BY <2>4, <2>5
<1> HIDE DEF Good
<1>3. MachineNum - 1 \in Good
  BY <1>1, <1>2, AllNaturals, Parts
<1>4. PICK m \in 0 .. MachineNum - 1 : First(m, MachineNum - 1)
  BY <1>3, Parts DEF Good, Part
<1> QED
  BY <1>4 DEF Part

(* What assigning a point reads.                                           *)
WeightsKnown ==
  /\ pivots \in Seq(Int) /\ Len(pivots) = MachineNum
  /\ lambda \in [Kind -> Nat] /\ stats \in [Kind -> [Part -> Nat]]

(* A weighted distance is a fraction with a positive denominator.          *)
LEMMA WeightType ==
  ASSUME WeightsKnown, NEW v \in Point, NEW kind \in Kind, NEW m \in Part
  PROVE  Weighted(v, m, kind) \in Fraction
<1>1. Coord[v] \in Int /\ pivots[m + 1] \in Int
  BY SMTT(40), PartitionAssumption, Parts DEF WeightsKnown, Part
<1>2. Dist(Coord[v], pivots[m + 1]) \in Int
  BY <1>1 DEF Dist
<1>3. PICK d \in Int : d = Dist(Coord[v], pivots[m + 1])
  BY <1>2
<1>4. lambda[kind] \in Nat /\ stats[kind][m] \in Nat
  BY DEF WeightsKnown
<1>5. PICK n \in Nat : n = lambda[kind] * stats[kind][m]
  BY <1>4
<1>6. d * n \in Int /\ d + n \in Int /\ n + 1 \in Nat \ {0} /\ 1 \in Nat \ {0}
  OBVIOUS
<1> QED
  BY <1>3, <1>5, <1>6 DEF Weighted, Fraction

(* A point has an owner.                                                   *)
LEMMA OwnerIsPart ==
  ASSUME WeightsKnown, NEW v \in Point PROVE Owner(v) \in Part
<1> DEFINE h == [m \in Part |-> Weighted(v, m, "norp")]
<1>1. h \in [Part -> Fraction]
  BY WeightType DEF Kind
<1>2. \A m \in Part : h[m] = Weighted(v, m, "norp")
  OBVIOUS
<1>3. \A m \in Part : 0 .. m - 1 \subseteq Part
  BY Parts DEF Part
<1> HIDE DEF h
<1>4. PICK m \in Part : /\ \A o \in Part : ~Lighter(h[o], h[m])
                        /\ \A o \in 0 .. m - 1 : Lighter(h[m], h[o])
  BY <1>1, FirstLightest
<1>5. /\ \A o \in Part : ~Lighter(Weighted(v, o, "norp"), Weighted(v, m, "norp"))
      /\ \A o \in 0 .. m - 1 : Lighter(Weighted(v, m, "norp"), Weighted(v, o, "norp"))
  BY <1>2, <1>3, <1>4
<1> QED
  BY <1>5 DEF Owner

-----------------------------------------------------------------------------
(* The partition of the points.                                            *)

Assigning == {"sample", "pivots", "lloyd", "lambda", "assign"}

(* A point is assigned to its owner, with replicas also to another shard.  *)
IsCenter(c) ==
  c # <<>> => IF ReplicaNum = 1 THEN \E m \in Part : c = <<m>>
              ELSE \E m \in Part : \E n \in Part \ {m} : c = <<m, n>>

Belongs(v, k, m) ==
  /\ center[v] # <<>>
  /\ IF k = "norp" THEN center[v][1] = m ELSE ReplicaNum # 1 /\ m \in Range(center[v])

(* The points of the blocks that have been written.                        *)
Home(k, m) == {v \in Point : v < block * BlockSize /\ Belongs(v, k, m)}

PartTypes ==
  /\ sample \subseteq Point /\ pivots \in Seq(Int) /\ block \in Nat
  /\ lambda \in [Kind -> Nat] /\ stats \in [Kind -> [Part -> Nat]]
  /\ DOMAIN center = Point /\ \A v \in Point : IsCenter(center[v])
  /\ idmap \in [Kind -> [Part -> Seq(Point)]]

Stages ==
  /\ stage = "sample" => pivots = <<>>
  /\ stage = "pivots" => Len(pivots) < MachineNum /\ sample # {}
  /\ stage \in {"lloyd", "lambda", "assign"} => Len(pivots) = MachineNum
  /\ stage \in Assigning => graphType # "SharedNothing"
  /\ stage = "random" => graphType = "SharedNothing" /\ idmap = NoFile
  /\ stage \in Assigning \cup {"random", "retrieve"} => base = NoFile

BlocksWritten ==
  stage \in Assigning =>
    /\ \A k \in Kind, m \in Part : SortedList(idmap[k][m], Home(k, m))
    /\ \A v \in Point : v < block * BlockSize => center[v] # <<>>

ChunkMerged ==
  stage = "assign" =>
    /\ merging \in [Chunks -> 0 .. MachineNum]
    /\ \A c \in Chunks : merging[c] > 0 => \A v \in ChunkPoints(c) : center[v] # <<>>

(* The files of ids: every point has one owner and the shards it is to     *)
(* have, and the ids ascend.                                               *)
Filed(v) ==
  \E o \in Part :
    /\ \A m \in Part : v \in Range(idmap["norp"][m]) <=> m = o
    /\ ReplicaNum # 1 =>
         \E n \in Part \ {o} : \A m \in Part : v \in Range(idmap["rp"][m]) <=> m \in {o, n}

Increasing(a) == \A m, n \in 1 .. Len(a) : m < n => a[m] < a[n]

FilesRight ==
  /\ \A k \in Kind, m \in Part : Increasing(idmap[k][m])
  /\ \A v \in Point : Filed(v)
  /\ ReplicaNum = 1 => \A m \in Part : idmap["rp"][m] = <<>>

PartInv ==
  /\ PartTypes /\ Stages /\ BlocksWritten /\ ChunkMerged
  /\ stage \in {"retrieve", "partitioned"} => FilesRight
  /\ stage = "partitioned" => \A k \in Kind, m \in Part : base[k][m] = idmap[k][m]

(* A point is indexed by one shard or by two.                              *)
LEMMA Replications == ReplicaNum \in {1, 2}
BY DEF ReplicaNum

(* The files say what partition() promises.                                *)
LEMMA FilesGood ==
  ASSUME FilesRight, \A k \in Kind, m \in Part : base[k][m] = idmap[k][m]
  PROVE  ShardsRight
<1>1. ASSUME NEW v \in Point
      PROVE  /\ Cardinality({m \in Part : v \in Range(idmap["norp"][m])}) = 1
             /\ ReplicaNum > 1 =>
                  /\ Cardinality({m \in Part : v \in Range(idmap["rp"][m])}) = ReplicaNum
                  /\ \A m \in Part : v \in Range(idmap["norp"][m])
                                       => v \in Range(idmap["rp"][m])
  <2>1. Filed(v)
    BY DEF FilesRight
  <2>2. PICK o \in Part :
          /\ \A m \in Part : v \in Range(idmap["norp"][m]) <=> m = o
          /\ ReplicaNum # 1 =>
               \E n \in Part \ {o} :
                 \A m \in Part : v \in Range(idmap["rp"][m]) <=> m \in {o, n}
    BY <2>1 DEF Filed
  <2>3. {m \in Part : v \in Range(idmap["norp"][m])} = {o}
    BY <2>2
  <2>4. Cardinality({m \in Part : v \in Range(idmap["norp"][m])}) = 1
    BY <2>3, FS_Singleton
  <2>5. ASSUME ReplicaNum > 1
        PROVE  /\ Cardinality({m \in Part : v \in Range(idmap["rp"][m])}) = ReplicaNum
               /\ \A m \in Part : v \in Range(idmap["norp"][m])
                                    => v \in Range(idmap["rp"][m])
    <3>1. ReplicaNum = 2
      BY <2>5, Replications
    <3>2. PICK n \in Part \ {o} :
            \A m \in Part : v \in Range(idmap["rp"][m]) <=> m \in {o, n}
      BY <2>2, <3>1
    <3>3. {m \in Part : v \in Range(idmap["rp"][m])} = {o} \cup {n}
      BY <3>2
    <3>4. Cardinality({o} \cup {n}) = 2
      <4>1. IsFiniteSet({o}) /\ Cardinality({o}) = 1 /\ n \notin {o}
        BY <3>2, FS_Singleton
      <4> QED
        BY <4>1, FS_AddElement
    <3> QED
      BY <2>2, <3>1, <3>2, <3>3, <3>4
  <2> QED
    BY <2>4, <2>5
<1>2. \A k \in Kind, m \in Part :
        /\ base[k][m] = idmap[k][m]
        /\ \A a, b \in 1 .. Len(idmap[k][m]) : a < b => idmap[k][m][a] < idmap[k][m][b]
  BY DEF FilesRight, Increasing
<1> QED
  BY <1>1, <1>2 DEF ShardsRight

(* The empty file.                                                         *)
LEMMA EmptyList == /\ SortedList(<<>>, {}) /\ <<>> \in Seq(Point)
                   /\ Increasing(<<>>) /\ Range(<<>>) = {}
BY DEF SortedList, Range, Increasing

(* The invariant of the partition holds before it starts.                  *)
LEMMA PartInitialised == PartitionInit => PartInv
<1> SUFFICES ASSUME PartitionInit PROVE PartInv
  OBVIOUS
<1> USE DEF PartitionInit
<1>1. PartTypes
  <2>1. idmap \in [Kind -> [Part -> Seq(Point)]]
    BY EmptyList DEF NoFile
  <2> QED
    BY <2>1 DEF PartTypes, IsCenter
<1>2. Stages
  <2>1. GraphTypes \subseteq {"SCALA_V3", "SharedNothing", "KmeansSharedNothing"}
    BY PartitionAssumption
  <2> QED
    BY <2>1 DEF Stages, Assigning
<1>3. BlocksWritten
  <2>1. \A k \in Kind, m \in Part : Home(k, m) = {} /\ idmap[k][m] = <<>>
    BY DEF Home, Belongs, NoFile
  <2>2. \A v \in Point : ~(v < block * BlockSize)
    BY Points, PartitionAssumption
  <2> QED
    BY <2>1, <2>2, EmptyList DEF BlocksWritten
<1>4. stage \in {"sample", "random"}
  OBVIOUS
<1> QED
  BY <1>1, <1>2, <1>3, <1>4 DEF PartInv, ChunkMerged

(* Steps that write no file and assign no point.                           *)
LEMMA FilesKept ==
  ASSUME PartInv, stage \in Assigning, UNCHANGED <<graphType, block, center, idmap, base>>
  PROVE  /\ BlocksWritten' /\ base' = NoFile
         /\ DOMAIN center' = Point /\ (\A v \in Point : IsCenter(center[v]))'
         /\ idmap' \in [Kind -> [Part -> Seq(Point)]] /\ block' \in Nat
         /\ graphType' # "SharedNothing"
<1>1. PartTypes /\ Stages /\ BlocksWritten
  BY DEF PartInv
<1>2. ReplicaNum' = ReplicaNum
  BY DEF ReplicaNum
<1>3. \A k \in Kind, m \in Part : Home(k, m)' = Home(k, m)
  BY <1>2 DEF Home, Belongs
<1>4. BlocksWritten'
  BY <1>1, <1>3 DEF BlocksWritten
<1>5. \A v \in Point : IsCenter(center[v])'
  BY <1>1, <1>2 DEF PartTypes, IsCenter
<1> QED
  BY <1>1, <1>4, <1>5 DEF PartTypes, Stages

(* gen_random_slice: the sample is not empty.                              *)
LEMMA SliceKeeps == PartInv /\ GenRandomSlice => PartInv'
<1> SUFFICES ASSUME PartInv, GenRandomSlice PROVE PartInv'
  OBVIOUS
<1> USE DEF GenRandomSlice, Goto, jobVars, assignVars, fileVars
<1>1. PartTypes /\ stage \in Assigning /\ stage' = "pivots"
  BY DEF PartInv, Assigning
<1>2. /\ BlocksWritten' /\ base' = NoFile
      /\ DOMAIN center' = Point /\ (\A v \in Point : IsCenter(center[v]))'
      /\ idmap' \in [Kind -> [Part -> Seq(Point)]] /\ block' \in Nat
      /\ graphType' # "SharedNothing"
  BY <1>1, FilesKept
<1>3. sample' \subseteq Point /\ sample' # {}
  <2>1. PICK s \in SUBSET Point : Cardinality(s) >= SampleMin /\ sample' = s
    OBVIOUS
  <2>2. SampleMin \in Nat \ {0}
    BY PartitionAssumption
  <2>3. s # {}
    BY <2>1, <2>2, FS_EmptySet
  <2> QED
    BY <2>1, <2>3
<1>4. PartTypes'
  BY <1>1, <1>2, <1>3 DEF PartTypes
<1>5. Len(pivots') < MachineNum
  <2>1. pivots' = <<>> /\ Len(<<>>) = 0
    BY DEF PartInv, Stages
  <2> QED
    BY <2>1, Parts
<1> QED
  BY <1>1, <1>2, <1>3, <1>4, <1>5 DEF PartInv, Stages, ChunkMerged

(* kmeanspp_selecting_pivots: the next pivot is the coordinate of a point. *)
LEMMA PivotKeeps == PartInv /\ SelectPivot => PartInv'
<1> SUFFICES ASSUME PartInv, SelectPivot PROVE PartInv'
  OBVIOUS
<1> USE DEF SelectPivot, Goto, jobVars, assignVars, fileVars
<1>1. /\ PartTypes /\ stage \in Assigning /\ sample \subseteq Point /\ sample # {}
      /\ pivots \in Seq(Int) /\ Len(pivots) < MachineNum
      /\ stage' = IF Len(pivots) + 1 = MachineNum THEN "lloyd" ELSE "pivots"
  BY DEF PartInv, PartTypes, Stages, Assigning
<1>2. /\ BlocksWritten' /\ base' = NoFile
      /\ DOMAIN center' = Point /\ (\A v \in Point : IsCenter(center[v]))'
      /\ idmap' \in [Kind -> [Part -> Seq(Point)]] /\ block' \in Nat
      /\ graphType' # "SharedNothing"
  BY <1>1, FilesKept
<1>3. PICK v \in sample : pivots' = Append(pivots, Coord[v])
  <2> DEFINE far == {v \in sample : \A k \in 1 .. Len(pivots) :
                                      Dist(Coord[v], pivots[k]) > 0}
  <2>1. PICK v \in IF far # {} THEN far ELSE {Max(sample)} :
          pivots' = Append(pivots, Coord[v])
    OBVIOUS
  <2>2. IsFiniteSet(sample) /\ sample \in SUBSET Int
    BY <1>1, Points, FS_Subset
  <2>3. Max(sample) \in sample
    BY <1>1, <2>2, Extremes
  <2>4. far \subseteq sample
    OBVIOUS
  <2> HIDE DEF far
  <2> QED
    BY <2>1, <2>3, <2>4
<1>4. Coord[v] \in Int
  BY <1>1, PartitionAssumption
<1>5. pivots' \in Seq(Int) /\ Len(pivots') = Len(pivots) + 1
  BY <1>1, <1>3, <1>4
<1>6. PartTypes'
  BY <1>1, <1>2, <1>5 DEF PartTypes
<1>7. Stages'
  <2>1. Len(pivots) \in Nat /\ MachineNum \in Nat
    BY <1>1, Parts
  <2>2. CASE Len(pivots) + 1 = MachineNum
    BY <1>1, <1>2, <1>5, <2>2 DEF Stages
  <2>3. CASE Len(pivots) + 1 # MachineNum
    BY <1>1, <1>2, <1>5, <2>1, <2>3 DEF Stages
  <2> QED
    BY <2>2, <2>3
<1> QED
  BY <1>1, <1>2, <1>6, <1>7 DEF PartInv, ChunkMerged

(* The mean of a cluster is an integer (Unit is chosen so that it is exact).*)
LEMMA MeanInteger == ASSUME NEW docs \in SUBSET Point PROVE Mean(docs) \in Int
<1>1. IsFiniteSet(docs)
  BY Points, FS_Subset
<1>2. \A v \in docs : Coord[v] \in Int
  BY PartitionAssumption
<1>3. MapThenSumSet(LAMBDA v : Coord[v], docs) \in Int
  <2>1. SumOf(Coord, docs) \in Int
    BY <1>1, <1>2, SumInteger
  <2> QED
    BY <2>1 DEF SumOf
<1>4. docs # {} => Cardinality(docs) \in Nat \ {0}
  BY <1>1, FS_EmptySet, FS_CardinalityType
<1>5. \A x \in Int, n \in Nat \ {0} : x \div n \in Int
  OBVIOUS
<1>6. CASE docs = {}
  BY <1>6 DEF Mean
<1>7. CASE docs # {}
  <2>1. PICK x \in Int : x = MapThenSumSet(LAMBDA v : Coord[v], docs)
    BY <1>3
  <2>2. x \div Cardinality(docs) \in Int
    BY <1>4, <1>5, <1>7
  <2> QED
    BY <1>7, <2>1, <2>2 DEF Mean
<1> QED
  BY <1>6, <1>7

(* run_lloyds: there are as many centers as before, and they are numbers.  *)
LEMMA LloydKeeps == PartInv /\ RunLloyds => PartInv'
<1> SUFFICES ASSUME PartInv, RunLloyds PROVE PartInv'
  OBVIOUS
<1>1. /\ PartTypes /\ stage \in Assigning /\ sample \subseteq Point
      /\ pivots \in Seq(Int) /\ Len(pivots) = MachineNum
      /\ stage' \in {"lambda", "lloyd"} /\ pivots' = LloydsIter
      /\ UNCHANGED <<graphType, sample, lambda, stats, block, center, idmap, base>>
  BY DEF PartInv, PartTypes, Stages, Assigning, RunLloyds, Goto, jobVars,
         assignVars, fileVars
<1>2. /\ BlocksWritten' /\ base' = NoFile
      /\ DOMAIN center' = Point /\ (\A v \in Point : IsCenter(center[v]))'
      /\ idmap' \in [Kind -> [Part -> Seq(Point)]] /\ block' \in Nat
      /\ graphType' # "SharedNothing"
  BY <1>1, FilesKept
<1>3. pivots' \in Seq(Int) /\ Len(pivots') = MachineNum
  <2>1. \A k : {v \in sample : Closest(v) = k} \in SUBSET Point
    BY <1>1
  <2>2. \A k : Mean({v \in sample : Closest(v) = k}) \in Int
    BY <2>1, MeanInteger
  <2>3. MachineNum \in Nat /\ pivots' \in [1 .. MachineNum -> Int]
    BY <1>1, <2>2, Parts DEF LloydsIter
  <2> QED
    BY <2>3
<1>4. PartTypes'
  BY <1>1, <1>2, <1>3 DEF PartTypes
<1> QED
  BY <1>1, <1>2, <1>3, <1>4 DEF PartInv, Stages, ChunkMerged

(* ComputeLambda: a new block begins with no chunk merged, or partition()  *)
(* has failed.                                                             *)
LEMMA LambdaKeeps == PartInv /\ ComputeLambda => PartInv'
<1> SUFFICES ASSUME PartInv, ComputeLambda PROVE PartInv'
  OBVIOUS
<1>1. /\ PartTypes /\ stage \in Assigning /\ Len(pivots) = MachineNum
      /\ stage' \in {"assign", "failed"} /\ merging' = [c \in Chunks |-> 0]
      /\ UNCHANGED <<graphType, sample, pivots, stats, block, center, idmap, base>>
  BY DEF PartInv, PartTypes, Stages, Assigning, ComputeLambda, Goto, jobVars,
         kmeansVars, fileVars
<1>2. /\ BlocksWritten' /\ base' = NoFile
      /\ DOMAIN center' = Point /\ (\A v \in Point : IsCenter(center[v]))'
      /\ idmap' \in [Kind -> [Part -> Seq(Point)]] /\ block' \in Nat
      /\ graphType' # "SharedNothing"
  BY <1>1, FilesKept
<1>3. lambda' \in [Kind -> Nat]
  <2>1. \A k : LambdaOf(k) \subseteq Nat
    BY PartitionAssumption DEF LambdaOf
  <2> QED
    BY <2>1 DEF ComputeLambda
<1>4. PartTypes'
  BY <1>1, <1>2, <1>3 DEF PartTypes
<1>5. ChunkMerged'
  <2>1. Chunks' = Chunks
    BY <1>1 DEF Chunks, ChunkPoints, BlockPoints
  <2>2. 0 \in 0 .. MachineNum /\ ~(0 > 0)
    BY Parts
  <2> QED
    BY <1>1, <2>1, <2>2 DEF ChunkMerged
<1> QED
  BY <1>1, <1>2, <1>4, <1>5 DEF PartInv, Stages

(* Blocks and chunks of the points.                                        *)
LEMMA Divided ==
  ASSUME NEW B \in Nat \ {0}, NEW v \in Nat, NEW b \in Nat
  PROVE  /\ v \div B \in Nat /\ v % B \in Nat /\ v % B <= v /\ v \div B <= v
         /\ v \div B = b <=> b * B <= v /\ v < (b + 1) * B
<1>1. PICK q \in Int, r \in Int : q = v \div B /\ r = v % B
  OBVIOUS
<1>2. v = q * B + r /\ 0 <= r /\ r < B
  BY <1>1
<1>3. q \in Nat
  BY <1>2
<1>4. q <= v /\ r <= v
  BY <1>2, <1>3
<1>5. q = b => b * B <= v /\ v < (b + 1) * B
  BY <1>2
<1>6. b * B <= v /\ v < (b + 1) * B => q = b
  BY <1>2, <1>3
<1> QED
  BY <1>1, <1>2, <1>3, <1>4, <1>5, <1>6

(* The sizes of blocks and chunks are positive.                            *)
LEMMA BlockSizes == BlockSize \in Nat \ {0} /\ ChunkSize \in Nat \ {0}
BY PartitionAssumption

(* A block is an interval of points.                                       *)
LEMMA BlockBounds ==
  ASSUME block \in Nat, NEW v \in Point
  PROVE  v \in BlockPoints <=> block * BlockSize <= v /\ v < (block + 1) * BlockSize
<1>1. v \in Nat
  BY Points
<1>2. v \div BlockSize = block <=> block * BlockSize <= v /\ v < (block + 1) * BlockSize
  BY <1>1, BlockSizes, Divided
<1> QED
  BY <1>2 DEF BlockPoints

(* Every point of the block lies in a chunk.                               *)
LEMMA InChunk ==
  ASSUME NEW v \in BlockPoints PROVE \E c \in Chunks : v \in ChunkPoints(c)
<1> DEFINE r == v % BlockSize
           c == r \div ChunkSize
<1>1. v \in Point /\ v \in Nat
  BY Points DEF BlockPoints
<1>2. r \in Nat /\ r <= v
  BY <1>1, BlockSizes, Divided
<1>3. c \in Nat /\ c <= r
  <2> HIDE DEF r
  <2> QED
    BY <1>2, BlockSizes, Divided
<1>4. c \in Point
  <2> HIDE DEF c, r
  <2> QED
    BY <1>1, <1>2, <1>3, Points DEF Point
<1>5. v \in ChunkPoints(c)
  BY DEF ChunkPoints
<1> HIDE DEF c
<1> QED
  BY <1>4, <1>5 DEF Chunks

(* The next point of a chunk gets its centers; those before it keep theirs.*)
LEMMA AssignKeeps ==
  ASSUME PartInv, NEW c \in Chunks, AssignPoint(c) PROVE PartInv'
<1> DEFINE todo == {v \in ChunkPoints(c) : center[v] = <<>>}
           u == Min(todo)
<1>1. /\ PartTypes /\ Stages /\ BlocksWritten /\ ChunkMerged
      /\ stage = "assign" /\ stage' = "assign" /\ stage \in Assigning
      /\ UNCHANGED <<graphType, sample, pivots, lambda, stats, block, merging, idmap, base>>
  BY DEF PartInv, AssignPoint, Assigning, jobVars, kmeansVars, fileVars
<1>2. u \in todo
  <2>1. todo # {} /\ todo \subseteq Point
    BY DEF AssignPoint, ChunkPoints, BlockPoints
  <2>2. todo \in SUBSET Int /\ IsFiniteSet(todo)
    <3> HIDE DEF todo
    <3> QED
      BY <2>1, Points, FS_Subset
  <2> HIDE DEF todo
  <2> QED
    BY <2>1, <2>2, Extremes
<1>3. u \in BlockPoints /\ u \in Point /\ center[u] = <<>>
  <2>1. todo \subseteq BlockPoints /\ \A v \in todo : center[v] = <<>>
    BY DEF ChunkPoints
  <2> HIDE DEF todo
  <2> QED
    BY <1>2, <2>1 DEF BlockPoints
<1>4. Owner(u) \in Part
  <2>1. WeightsKnown
    BY <1>1 DEF PartTypes, Stages, WeightsKnown
  <2> HIDE DEF u
  <2> QED
    BY <1>3, <2>1, OwnerIsPart
<1>5. ReplicaNum' = ReplicaNum
  BY <1>1 DEF ReplicaNum
<1>6. PICK new : /\ center' = [center EXCEPT ![u] = new]
                 /\ new # <<>> /\ IsCenter(new)
  <2>1. CASE ReplicaNum = 1
    <3>1. center' = [center EXCEPT ![u] = <<Owner(u)>>]
      BY <2>1 DEF AssignPoint
    <3>2. IsCenter(<<Owner(u)>>) /\ <<Owner(u)>> # <<>>
      BY <1>4, <2>1 DEF IsCenter
    <3> HIDE DEF u
    <3> QED
      BY <3>1, <3>2
  <2>2. CASE ReplicaNum # 1
    <3>1. PICK m \in Replicas(u) : center' = [center EXCEPT ![u] = <<Owner(u), m>>]
      BY <2>2 DEF AssignPoint
    <3>2. m \in Part \ {Owner(u)}
      BY DEF Replicas
    <3>3. IsCenter(<<Owner(u), m>>) /\ <<Owner(u), m>> # <<>>
      BY <1>4, <2>2, <3>2 DEF IsCenter
    <3> HIDE DEF u
    <3> QED
      BY <3>1, <3>3
  <2> QED
    BY <2>1, <2>2
<1> HIDE DEF u, todo
<1>7. DOMAIN center = Point /\ \A v \in Point : IsCenter(center[v])
  BY <1>1 DEF PartTypes
<1>8. /\ DOMAIN center' = Point /\ center'[u] = new
      /\ \A v \in Point \ {u} : center'[v] = center[v]
  BY <1>3, <1>6, <1>7
<1>9. PartTypes'
  <2>1. \A v \in Point : IsCenter(center[v])'
    <3> SUFFICES ASSUME NEW v \in Point PROVE IsCenter(center[v])'
      OBVIOUS
    <3>1. IsCenter(center'[v])
      BY <1>6, <1>7, <1>8
    <3> QED
      BY <1>5, <3>1 DEF IsCenter
  <2> QED
    BY <1>1, <1>8, <2>1 DEF PartTypes
<1>10. Stages'
  BY <1>1 DEF Stages
<1>11. \A v \in Point : v < block * BlockSize => v # u /\ center'[v] = center[v]
  <2>1. block * BlockSize <= u /\ block * BlockSize \in Nat /\ u \in Nat
    BY <1>1, <1>3, BlockBounds, BlockSizes, Points DEF PartTypes
  <2> QED
    BY <1>8, <2>1, Points
<1>12. BlocksWritten'
  <2>1. \A k \in Kind, m \in Part : Home(k, m)' = Home(k, m)
    BY <1>1, <1>5, <1>11 DEF Home, Belongs
  <2> QED
    BY <1>1, <1>11, <2>1 DEF BlocksWritten
<1>13. ChunkMerged'
  <2>1. Chunks' = Chunks /\ \A d : ChunkPoints(d)' = ChunkPoints(d)
    BY <1>1 DEF Chunks, ChunkPoints, BlockPoints
  <2>2. \A v \in Point : center[v] # <<>> => center'[v] # <<>>
    BY <1>6, <1>8
  <2>3. \A d : ChunkPoints(d) \subseteq Point
    BY DEF ChunkPoints, BlockPoints
  <2> QED
    BY <1>1, <2>1, <2>2, <2>3 DEF ChunkMerged
<1> QED
  BY <1>1, <1>9, <1>10, <1>12, <1>13 DEF PartInv

(* The counts of a chunk are added when all its points have centers.       *)
LEMMA MergeKeeps ==
  ASSUME PartInv, NEW c \in Chunks, MergeStats(c) PROVE PartInv'
<1>1. /\ PartTypes /\ Stages /\ BlocksWritten /\ ChunkMerged
      /\ stage = "assign" /\ stage' = "assign" /\ stage \in Assigning
      /\ UNCHANGED <<graphType, sample, pivots, lambda, block, center, idmap, base>>
      /\ merging' = [merging EXCEPT ![c] = merging[c] + 1] /\ merging[c] < MachineNum
      /\ \A v \in ChunkPoints(c) : center[v] # <<>>
  BY DEF PartInv, MergeStats, Assigning, jobVars, kmeansVars, fileVars
<1>2. /\ BlocksWritten' /\ base' = NoFile
      /\ DOMAIN center' = Point /\ (\A v \in Point : IsCenter(center[v]))'
      /\ idmap' \in [Kind -> [Part -> Seq(Point)]] /\ block' \in Nat
      /\ graphType' # "SharedNothing"
  BY <1>1, FilesKept
<1>3. stats' \in [Kind -> [Part -> Nat]]
  <2>1. \A k \in Kind, m \in Part : LocalCount(c, k, m) \in Nat
    <3> SUFFICES ASSUME NEW k \in Kind, NEW m \in Part PROVE LocalCount(c, k, m) \in Nat
      OBVIOUS
    <3> DEFINE S == {v \in ChunkPoints(c) :
                       IF k = "norp" THEN center[v][1] = m ELSE m \in Range(center[v])}
    <3>1. S \in SUBSET Point
      BY DEF ChunkPoints, BlockPoints
    <3>2. IsFiniteSet(S)
      <4> HIDE DEF S
      <4> QED
        BY <3>1, Points, FS_Subset
    <3>3. Cardinality(S) \in Nat
      BY <3>2, FS_CardinalityType
    <3> QED
      BY <3>3 DEF LocalCount
  <2>2. merging[c] \in Part
    BY <1>1, Parts DEF ChunkMerged, Part
  <2>3. stats \in [Kind -> [Part -> Nat]]
    BY <1>1 DEF PartTypes
  <2>4. stats' = [k \in Kind |-> [stats[k] EXCEPT ![merging[c]] =
                                    @ + LocalCount(c, k, merging[c])]]
    BY DEF MergeStats
  <2>5. \A k \in Kind : [stats[k] EXCEPT ![merging[c]] = @ + LocalCount(c, k, merging[c])]
                          \in [Part -> Nat]
    BY <2>1, <2>2, <2>3
  <2> QED
    BY <2>4, <2>5
<1>4. PartTypes'
  BY <1>1, <1>2, <1>3 DEF PartTypes
<1>5. ChunkMerged'
  <2>1. Chunks' = Chunks /\ \A d : ChunkPoints(d)' = ChunkPoints(d)
    BY <1>1 DEF Chunks, ChunkPoints, BlockPoints
  <2>2. merging \in [Chunks -> 0 .. MachineNum]
    BY <1>1 DEF ChunkMerged
  <2>3. merging[c] + 1 \in 0 .. MachineNum
    BY <1>1, <2>2, Parts
  <2>4. merging' \in [Chunks -> 0 .. MachineNum]
    BY <1>1, <2>2, <2>3
  <2>5. \A d \in Chunks \ {c} : merging'[d] = merging[d]
    BY <1>1, <2>2
  <2> QED
    BY <1>1, <2>1, <2>4, <2>5 DEF ChunkMerged
<1>6. Stages'
  BY <1>1 DEF Stages
<1> QED
  BY <1>1, <1>2, <1>4, <1>5, <1>6 DEF PartInv

(* The points of the current block that a shard gets.                      *)
ListedSet(k, m) ==
  {v \in BlockPoints : IF k = "norp" THEN center[v][1] = m ELSE m \in Range(center[v])}

(* The points of a block that go to a file, in order.                      *)
LEMMA ListedSorted == \A k, m : SortedList(Listed(k, m), ListedSet(k, m))
<1> SUFFICES ASSUME NEW k, NEW m PROVE SortedList(Listed(k, m), ListedSet(k, m))
  OBVIOUS
<1>1. ListedSet(k, m) \subseteq Point
  BY DEF ListedSet, BlockPoints
<1>2. ListedSet(k, m) \in SUBSET Int /\ IsFiniteSet(ListedSet(k, m))
  BY <1>1, Points, FS_Subset
<1>3. SortedList(Ascending(ListedSet(k, m)), ListedSet(k, m))
  BY <1>2, AscendingList
<1> QED
  BY <1>3 DEF Listed, ListedSet

(* The block is appended: its points are larger than all written before,   *)
(* so the files stay sorted, and after the last block they are complete.   *)
LEMMA WriteKeeps == PartInv /\ WriteBlock => PartInv'
<1> SUFFICES ASSUME PartInv, WriteBlock PROVE PartInv'
  OBVIOUS
<1>1. /\ PartTypes /\ Stages /\ BlocksWritten /\ ChunkMerged
      /\ stage = "assign" /\ stage \in Assigning
      /\ UNCHANGED <<graphType, sample, pivots, lambda, stats, center, base>>
      /\ block' = block + 1
      /\ stage' = IF (block + 1) * BlockSize >= PointNum THEN "retrieve" ELSE "lambda"
      /\ block \in Nat /\ base = NoFile /\ graphType # "SharedNothing"
      /\ \A k \in Kind, m \in Part : SortedList(idmap[k][m], Home(k, m))
      /\ \A v \in Point : v < block * BlockSize => center[v] # <<>>
      /\ \A v \in Point : IsCenter(center[v])
  BY DEF PartInv, WriteBlock, Goto, Assigning, jobVars, kmeansVars, PartTypes, Stages,
         BlocksWritten
<1>2. ReplicaNum' = ReplicaNum
  BY <1>1 DEF ReplicaNum
<1>3. \A v \in BlockPoints : center[v] # <<>>
  <2> SUFFICES ASSUME NEW v \in BlockPoints PROVE center[v] # <<>>
    OBVIOUS
  <2>1. PICK c \in Chunks : v \in ChunkPoints(c)
    BY InChunk
  <2>2. merging[c] = MachineNum /\ merging[c] > 0
    BY Parts DEF WriteBlock
  <2> QED
    BY <1>1, <2>1, <2>2 DEF ChunkMerged
<1>4. \A v \in Point : v < (block + 1) * BlockSize <=> v < block * BlockSize \/ v \in BlockPoints
  <2> SUFFICES ASSUME NEW v \in Point
               PROVE  v < (block + 1) * BlockSize <=> v < block * BlockSize \/ v \in BlockPoints
    OBVIOUS
  <2>1. v \in BlockPoints <=> block * BlockSize <= v /\ v < (block + 1) * BlockSize
    BY <1>1, BlockBounds
  <2>2. PICK x \in Nat, y \in Nat :
          x = block * BlockSize /\ y = (block + 1) * BlockSize /\ x <= y
    BY <1>1, BlockSizes
  <2>3. v \in Nat
    BY Points
  <2> QED
    BY <2>1, <2>2, <2>3
<1>5. \A v \in Point : v < (block + 1) * BlockSize => center[v] # <<>>
  BY <1>1, <1>3, <1>4
<1>6. ASSUME NEW k \in Kind, NEW m \in Part
      PROVE  SortedList(idmap'[k][m],
               {v \in Point : v < (block + 1) * BlockSize /\ Belongs(v, k, m)})
  <2> DEFINE H == {v \in Point : v < (block + 1) * BlockSize /\ Belongs(v, k, m)}
  <2>1. CASE k = "rp" /\ ReplicaNum = 1
    <3>1. H = {}
      BY <2>1 DEF Belongs
    <3>2. idmap'[k][m] = <<>>
      BY <2>1 DEF WriteBlock
    <3> QED
      BY <3>1, <3>2, EmptyList
  <2>2. CASE ~(k = "rp" /\ ReplicaNum = 1)
    <3>1. idmap'[k][m] = idmap[k][m] \o Listed(k, m)
      BY <2>2 DEF WriteBlock
    <3>2. \A v \in Point : v \in BlockPoints =>
            (v \in ListedSet(k, m) <=> Belongs(v, k, m))
      BY <1>3, <2>2 DEF ListedSet, Belongs, Kind
    <3>3. H = Home(k, m) \cup ListedSet(k, m)
      <4>1. ListedSet(k, m) \subseteq BlockPoints /\ BlockPoints \subseteq Point
        BY DEF ListedSet, BlockPoints
      <4> QED
        BY <1>4, <3>2, <4>1 DEF Home
    <3>4. \A x \in Home(k, m), y \in ListedSet(k, m) : x < y
      <4> SUFFICES ASSUME NEW x \in Home(k, m), NEW y \in ListedSet(k, m) PROVE x < y
        OBVIOUS
      <4>1. y \in BlockPoints /\ y \in Point /\ x \in Point /\ x < block * BlockSize
        BY DEF Home, ListedSet, BlockPoints
      <4>2. block * BlockSize <= y
        BY <1>1, <4>1, BlockBounds
      <4>3. block * BlockSize \in Nat /\ x \in Nat /\ y \in Nat
        BY <1>1, <4>1, BlockSizes, Points
      <4> QED
        BY <4>1, <4>2, <4>3
    <3>5. Home(k, m) \in SUBSET Int /\ ListedSet(k, m) \in SUBSET Int
      BY Points DEF Home, ListedSet, BlockPoints
    <3>6. SortedList(idmap[k][m] \o Listed(k, m), Home(k, m) \cup ListedSet(k, m))
      BY <1>1, <3>4, <3>5, ListedSorted, SortedAppend
    <3> QED
      BY <3>1, <3>3, <3>6
  <2> QED
    BY <2>1, <2>2
<1>7. idmap' \in [Kind -> [Part -> Seq(Point)]]
  <2>1. \A k \in Kind, m \in Part : idmap'[k][m] \in Seq(Point)
    <3> SUFFICES ASSUME NEW k \in Kind, NEW m \in Part PROVE idmap'[k][m] \in Seq(Point)
      OBVIOUS
    <3> DEFINE H == {v \in Point : v < (block + 1) * BlockSize /\ Belongs(v, k, m)}
    <3>1. idmap'[k][m] \in Seq(H) /\ H \subseteq Point
      BY <1>6 DEF SortedList
    <3> HIDE DEF H
    <3> QED
      BY <3>1
  <2>2. idmap' = [k \in Kind |-> [m \in Part |-> idmap'[k][m]]]
    BY DEF WriteBlock
  <2> QED
    BY <2>1, <2>2
<1>8. PartTypes'
  <2>1. \A v \in Point : IsCenter(center[v])'
    BY <1>1, <1>2 DEF IsCenter
  <2> QED
    BY <1>1, <1>7, <2>1 DEF PartTypes
<1>9. CASE stage' = "lambda"
  <2>1. \A k \in Kind, m \in Part :
          Home(k, m)' = {v \in Point : v < (block + 1) * BlockSize /\ Belongs(v, k, m)}
    BY <1>1, <1>2 DEF Home, Belongs
  <2>2. BlocksWritten'
    BY <1>1, <1>5, <1>6, <2>1 DEF BlocksWritten
  <2>3. Stages'
    BY <1>1, <1>9 DEF Stages
  <2> QED
    BY <1>8, <1>9, <2>2, <2>3 DEF PartInv, ChunkMerged
<1>10. CASE stage' = "retrieve"
  <2>1. \A v \in Point : v < (block + 1) * BlockSize
    <3>1. PICK x \in Nat : x = (block + 1) * BlockSize
      BY <1>1, BlockSizes
    <3> QED
      BY <1>1, <1>10, <3>1, Points DEF Point
  <2>2. ASSUME NEW k \in Kind, NEW m \in Part
        PROVE  /\ Increasing(idmap'[k][m])
               /\ \A v \in Point : v \in Range(idmap'[k][m]) <=> Belongs(v, k, m)
    <3> DEFINE H == {v \in Point : v < (block + 1) * BlockSize /\ Belongs(v, k, m)}
    <3>1. Increasing(idmap'[k][m]) /\ Range(idmap'[k][m]) = H
      BY <1>6 DEF SortedList, Increasing
    <3> QED
      BY <2>1, <3>1
  <2>3. ASSUME NEW v \in Point PROVE Filed(v)'
    <3>1. center[v] # <<>> /\ IsCenter(center[v])
      BY <1>1, <1>5, <2>1
    <3>2. \A m \in Part : v \in Range(idmap'["norp"][m]) <=> center[v][1] = m
      BY <2>2, <3>1 DEF Belongs, Kind
    <3>3. CASE ReplicaNum = 1
      <4>1. PICK o \in Part : center[v] = <<o>>
        BY <3>1, <3>3 DEF IsCenter
      <4> QED
        BY <1>2, <3>2, <3>3, <4>1 DEF Filed
    <3>4. CASE ReplicaNum # 1
      <4>1. PICK o \in Part : \E n \in Part \ {o} : center[v] = <<o, n>>
        BY <3>1, <3>4 DEF IsCenter
      <4>2. PICK n \in Part \ {o} : center[v] = <<o, n>>
        BY <4>1
      <4>3. Range(center[v]) = {o, n} /\ center[v][1] = o
        BY <4>2 DEF Range
      <4>4. \A m \in Part : v \in Range(idmap'["rp"][m]) <=> m \in {o, n}
        BY <2>2, <3>1, <3>4, <4>3 DEF Belongs, Kind
      <4>5. \A m \in Part : v \in Range(idmap'["norp"][m]) <=> m = o
        BY <3>2, <4>3
      <4> QED
        BY <4>2, <4>4, <4>5 DEF Filed
    <3> QED
      BY <3>3, <3>4
  <2>4. ReplicaNum = 1 => \A m \in Part : idmap'["rp"][m] = <<>>
    BY DEF WriteBlock, Kind
  <2>5. FilesRight'
    BY <1>2, <2>2, <2>3, <2>4 DEF FilesRight
  <2>6. Stages'
    BY <1>1, <1>10 DEF Stages, Assigning
  <2> QED
    BY <1>8, <1>10, <2>5, <2>6 DEF PartInv, BlocksWritten, ChunkMerged, Assigning
<1> QED
  BY <1>1, <1>9, <1>10

(* Ranges of equal size.                                                   *)
LEMMA RangeOf ==
  ASSUME NEW size \in Nat \ {0}, NEW v \in Point,
         (PointNum - 1) \div size < MachineNum
  PROVE  v \div size \in Part
<1>1. /\ v \in Nat /\ PointNum - 1 \in Nat /\ v <= PointNum - 1 /\ MachineNum \in Nat
      /\ \A x \in Nat : x \in Part <=> x < MachineNum
  BY Points, Parts DEF Point, Part
<1>2. PICK q \in Nat, p \in Nat : q = v \div size /\ p = (PointNum - 1) \div size
  BY <1>1, Divided
<1>3. q * size <= v /\ PointNum - 1 < (p + 1) * size
  BY <1>1, <1>2, Divided
<1>4. q * size < (p + 1) * size
  <2>1. PICK x \in Nat, y \in Nat : x = q * size /\ y = (p + 1) * size
    OBVIOUS
  <2> QED
    BY <1>1, <1>3, <2>1
<1>5. q <= p
  <2>1. q \in Int /\ p + 1 \in Int
    OBVIOUS
  <2>2. q < p + 1
    BY <1>4, <2>1, TimesLess
  <2> QED
    BY <2>2
<1> QED
  BY <1>1, <1>2, <1>5

(* shard_data_into_random: the ranges are disjoint and cover all points,   *)
(* or the step fails.                                                      *)
LEMMA RandomKeeps == PartInv /\ ShardIntoRandom => PartInv'
<1> SUFFICES ASSUME PartInv, ShardIntoRandom PROVE PartInv'
  OBVIOUS
<1> DEFINE size == PointNum \div MachineNum
           bad == size = 0 \/ (PointNum - 1) \div size >= MachineNum
<1>1. /\ PartTypes /\ graphType = "SharedNothing" /\ idmap = NoFile /\ base = NoFile
      /\ UNCHANGED <<graphType, sample, pivots, lambda, stats, block, center, base>>
  BY DEF PartInv, Stages, ShardIntoRandom, Goto, jobVars, kmeansVars, assignVars,
         Assigning
<1>2. ReplicaNum' = ReplicaNum /\ ReplicaNum = 1
  BY <1>1 DEF ReplicaNum
<1>3. \A v \in Point : IsCenter(center[v])'
  BY <1>1, <1>2 DEF PartTypes, IsCenter
<1>4. CASE bad
  <2>1. stage' = "failed" /\ idmap' = idmap
    BY <1>4 DEF ShardIntoRandom, Goto
  <2>2. PartTypes'
    BY <1>1, <1>3, <2>1 DEF PartTypes
  <2> QED
    BY <2>1, <2>2 DEF PartInv, Stages, BlocksWritten, ChunkMerged, Assigning
<1>5. CASE ~bad
  <2> DEFINE Shard(m) == {v \in Point : v \div size = m}
  <2>1. /\ stage' = "retrieve"
        /\ idmap' = [idmap EXCEPT !["norp"] = [m \in Part |-> Ascending(Shard(m))]]
    BY <1>5 DEF ShardIntoRandom, Goto
  <2>2. size \in Nat \ {0} /\ (PointNum - 1) \div size < MachineNum
    <3>1. size \in Nat
      BY Points, Parts, Divided
    <3>2. PointNum - 1 \in Nat /\ size # 0
      BY <1>5, Points
    <3> HIDE DEF size
    <3>3. (PointNum - 1) \div size \in Nat
      BY <3>1, <3>2, Divided
    <3> QED
      BY <1>5, <3>1, <3>2, <3>3, Parts
  <2> HIDE DEF size
  <2>3. ASSUME NEW m \in Part
        PROVE  SortedList(idmap'["norp"][m], Shard(m)) /\ idmap'["rp"][m] = <<>>
    <3>1. Shard(m) \in SUBSET Int /\ IsFiniteSet(Shard(m))
      <4>1. Shard(m) \in SUBSET Point
        OBVIOUS
      <4> HIDE DEF Shard
      <4> QED
        BY <4>1, Points, FS_Subset
    <3>2. idmap'["norp"][m] = Ascending(Shard(m)) /\ idmap'["rp"][m] = <<>>
      BY <1>1, <2>1 DEF NoFile, Kind
    <3> HIDE DEF Shard
    <3> QED
      BY <3>1, <3>2, AscendingList
  <2>4. idmap' \in [Kind -> [Part -> Seq(Point)]]
    <3>1. \A m \in Part : Ascending(Shard(m)) \in Seq(Point)
      <4> SUFFICES ASSUME NEW m \in Part PROVE Ascending(Shard(m)) \in Seq(Point)
        OBVIOUS
      <4>1. idmap'["norp"][m] = Ascending(Shard(m)) /\ Shard(m) \subseteq Point
        BY <1>1, <2>1 DEF NoFile, Kind
      <4>2. idmap'["norp"][m] \in Seq(Shard(m))
        BY <2>3 DEF SortedList
      <4> HIDE DEF Shard
      <4> QED
        BY <4>1, <4>2
    <3>2. [m \in Part |-> Ascending(Shard(m))] \in [Part -> Seq(Point)]
      BY <3>1
    <3>3. idmap \in [Kind -> [Part -> Seq(Point)]]
      BY <1>1 DEF PartTypes
    <3> QED
      BY <2>1, <3>2, <3>3
  <2>5. ASSUME NEW v \in Point PROVE Filed(v)'
    <3>1. v \div size \in Part
      BY <2>2, RangeOf
    <3>2. \A m \in Part : v \in Range(idmap'["norp"][m]) <=> v \in Shard(m)
      BY <2>3 DEF SortedList
    <3>3. \A m \in Part : v \in Range(idmap'["norp"][m]) <=> m = v \div size
      BY <3>2
    <3> QED
      BY <1>2, <3>1, <3>3 DEF Filed
  <2>6. \A k \in Kind, m \in Part : Increasing(idmap'[k][m])
    <3>1. \A m \in Part : Increasing(idmap'["norp"][m]) /\ Increasing(idmap'["rp"][m])
      BY <2>3, EmptyList DEF SortedList, Increasing
    <3> QED
      BY <3>1 DEF Kind
  <2>7. FilesRight'
    BY <1>2, <2>3, <2>5, <2>6 DEF FilesRight
  <2>8. PartTypes'
    BY <1>1, <1>3, <2>4 DEF PartTypes
  <2> QED
    BY <1>1, <2>1, <2>7, <2>8 DEF PartInv, Stages, BlocksWritten, ChunkMerged, Assigning
<1> QED
  BY <1>4, <1>5

(* retrieve_shard_data_from_ids for all shards: a walk that is not the     *)
(* list of ids has another length, and fails.                              *)
LEMMA RetrieveAllKeeps == PartInv /\ RetrieveAllShards => PartInv'
<1> SUFFICES ASSUME PartInv, RetrieveAllShards PROVE PartInv'
  OBVIOUS
<1>1. /\ PartTypes /\ FilesRight
      /\ UNCHANGED <<graphType, sample, pivots, lambda, stats, block, center, idmap>>
  BY DEF PartInv, Stages, RetrieveAllShards, Goto, jobVars, kmeansVars, assignVars
<1>2. ReplicaNum' = ReplicaNum
  BY <1>1 DEF ReplicaNum
<1>3. PartTypes' /\ FilesRight'
  BY <1>1, <1>2 DEF PartTypes, IsCenter, FilesRight, Filed
<1>4. CASE stage' = "failed"
  BY <1>3, <1>4 DEF PartInv, Stages, BlocksWritten, ChunkMerged, Assigning
<1>5. CASE stage' # "failed"
  <2>1. PICK g \in Garbage :
          /\ base' = [k \in Kind |-> [m \in Part |->
                        IF k = "rp" /\ ReplicaNum = 1 THEN <<>> ELSE Walk(idmap[k][m], g)]]
          /\ stage' = IF \E k \in Kind, m \in Part : Len(base'[k][m]) # Len(idmap[k][m])
                      THEN "failed" ELSE "partitioned"
    BY DEF RetrieveAllShards, Goto
  <2>2. \A k \in Kind, m \in Part : Len(base'[k][m]) = Len(idmap[k][m])
    BY <1>5, <2>1
  <2>3. ASSUME NEW k \in Kind, NEW m \in Part PROVE base'[k][m] = idmap'[k][m]
    <3>1. CASE k = "rp" /\ ReplicaNum = 1
      BY <1>1, <2>1, <3>1 DEF FilesRight
    <3>2. CASE ~(k = "rp" /\ ReplicaNum = 1)
      <4>1. base'[k][m] = Walk(idmap[k][m], g)
        BY <2>1, <3>2
      <4>2. idmap[k][m] \in Seq(Point) /\ Len(Walk(idmap[k][m], g)) = Len(idmap[k][m])
        BY <1>1, <2>2, <4>1 DEF PartTypes
      <4> QED
        BY <1>1, <4>1, <4>2, WalkRight
    <3> QED
      BY <3>1, <3>2
  <2>4. stage' = "partitioned"
    BY <1>5, <2>1
  <2> QED
    BY <1>3, <2>3, <2>4 DEF PartInv, Stages, BlocksWritten, ChunkMerged, Assigning
<1> QED
  BY <1>4, <1>5

(* The version for one shard: no point is the word behind the list.        *)
LEMMA RetrieveKeeps == PartInv /\ RetrieveShard => PartInv'
<1> SUFFICES ASSUME PartInv, RetrieveShard PROVE PartInv'
  OBVIOUS
<1>1. /\ PartTypes /\ FilesRight /\ base = NoFile /\ graphType = "SharedNothing"
      /\ UNCHANGED <<graphType, sample, pivots, lambda, stats, block, center, idmap>>
      /\ stage' = "partitioned"
  BY DEF PartInv, Stages, RetrieveShard, Goto, jobVars, kmeansVars, assignVars
<1>2. ReplicaNum' = ReplicaNum /\ ReplicaNum = 1
  BY <1>1 DEF ReplicaNum
<1>3. PartTypes' /\ FilesRight'
  BY <1>1, <1>2 DEF PartTypes, IsCenter, FilesRight, Filed
<1>4. ASSUME NEW k \in Kind, NEW m \in Part PROVE base'[k][m] = idmap'[k][m]
  <2>1. base' = [base EXCEPT !["norp"] = [o \in Part |-> Walk(idmap["norp"][o], -1)]]
    BY DEF RetrieveShard
  <2>2. CASE k = "norp"
    <3>1. base'[k][m] = Walk(idmap["norp"][m], -1)
      BY <1>1, <2>1, <2>2 DEF NoFile
    <3>2. idmap["norp"][m] \in Seq(Point) /\ Increasing(idmap["norp"][m])
      BY <1>1 DEF PartTypes, FilesRight, Kind
    <3>3. Walk(idmap["norp"][m], -1) = idmap["norp"][m]
      BY <3>2, WalkWhole DEF Increasing
    <3> QED
      BY <1>1, <2>2, <3>1, <3>3
  <2>3. CASE k = "rp"
    <3>1. base'[k][m] = <<>>
      BY <1>1, <2>1, <2>3 DEF NoFile
    <3> QED
      BY <1>1, <1>2, <2>3, <3>1 DEF FilesRight
  <2> QED
    BY <2>2, <2>3 DEF Kind
<1> QED
  BY <1>1, <1>3, <1>4 DEF PartInv, Stages, BlocksWritten, ChunkMerged, Assigning

(* Every step of the partition.                                            *)
LEMMA PartitionKeeps == PartInv /\ PartitionNext => PartInv'
BY SliceKeeps, PivotKeeps, LloydKeeps, LambdaKeeps, AssignKeeps, MergeKeeps, WriteKeeps,
   RetrieveAllKeeps, RandomKeeps, RetrieveKeeps
   DEF PartitionNext, KmeansPartition, RandomPartition

=============================================================================
