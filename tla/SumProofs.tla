------------------------------ MODULE SumProofs -------------------------------
(***************************************************************************)
(* Induction, recursion over finite sets and sums, for the other proofs.   *)
(*                                                                         *)
(* The library's induction theorems take an operator, which the provers    *)
(* cannot instantiate.  AllNaturals and AllSubsets say the same of a set   *)
(* and RecursionExists of a function.  What the sums of the community      *)
(* modules yield, and how a sum changes with its terms, is derived from    *)
(* these.                                                                  *)
(***************************************************************************)
EXTENDS Integers, Sequences, FiniteSets, SequencesExt, FiniteSetTheorems,
        NaturalsInduction, TLAPS

-----------------------------------------------------------------------------
(* Induction and recursion.                                                *)

(* A set of natural numbers that is closed under the successor and holds 0 *)
(* is all of them.                                                         *)
LEMMA AllNaturals ==
  ASSUME NEW S, 0 \in S, \A n \in Nat : n \in S => n + 1 \in S
  PROVE  Nat \subseteq S
<1> DEFINE Bad == {n \in Nat : n \notin S}
<1> SUFFICES ASSUME Bad # {} PROVE FALSE
  OBVIOUS
<1>1. PICK n \in Bad : \A l \in Bad : ~(<<l, n>> \in OpToRel(<, Nat))
  BY NatLessThanWellFounded, WFMin
<1>2. n # 0 /\ n \in Nat /\ n \notin S
  BY <1>1
<1>3. n - 1 \in Nat /\ n - 1 < n /\ n - 1 + 1 = n
  BY <1>2
<1>4. n - 1 \in S
  BY <1>1, <1>3 DEF OpToRel
<1> QED
  BY <1>2, <1>3, <1>4

(* A finite set of integers that is not empty has a least and a greatest   *)
(* element.                                                                *)
LEMMA Extremes ==
  ASSUME NEW S \in SUBSET Int, IsFiniteSet(S), S # {}
  PROVE  /\ Min(S) \in S /\ \A y \in S : Min(S) <= y
         /\ Max(S) \in S /\ \A y \in S : y <= Max(S)
<1> DEFINE Good == {n \in Nat : \A T \in SUBSET Int :
                      IsFiniteSet(T) /\ Cardinality(T) = n /\ T # {} =>
                        /\ \E x \in T : \A y \in T : x <= y
                        /\ \E x \in T : \A y \in T : y <= x}
<1>1. 0 \in Good
  BY FS_EmptySet
<1>2. \A n \in Nat : n \in Good => n + 1 \in Good
  <2> SUFFICES ASSUME NEW n \in Nat, n \in Good,
                      NEW T \in SUBSET Int, IsFiniteSet(T), Cardinality(T) = n + 1,
                      T # {}
               PROVE  /\ \E x \in T : \A y \in T : x <= y
                      /\ \E x \in T : \A y \in T : y <= x
    OBVIOUS
  <2>1. PICK z \in T : TRUE
    OBVIOUS
  <2> DEFINE U == T \ {z}
  <2>2. IsFiniteSet(U) /\ Cardinality(U) = n /\ U \in SUBSET Int /\ z \in Int
    <3>1. IsFiniteSet(T \ {z}) /\ Cardinality(T \ {z}) = Cardinality(T) - 1
      BY <2>1, FS_RemoveElement
    <3>2. Cardinality(T \ {z}) = n
      BY <3>1
    <3> QED
      BY <2>1, <3>1, <3>2
  <2>3. CASE U = {}
    BY <2>1, <2>2, <2>3
  <2>4. CASE U # {}
    <3>1. /\ \E x \in U : \A y \in U : x <= y
          /\ \E x \in U : \A y \in U : y <= x
      BY <2>2, <2>4
    <3>2. PICK x \in U : \A y \in U : x <= y
      BY <3>1
    <3>3. PICK w \in U : \A y \in U : y <= w
      BY <3>1
    <3>4. \A y \in T : y = z \/ y \in U
      OBVIOUS
    <3>5. x \in Int /\ w \in Int /\ x \in T /\ w \in T
      BY <2>2
    <3>6. \E v \in T : \A y \in T : v <= y
      <4>1. CASE x <= z
        BY <3>2, <3>4, <3>5, <4>1
      <4>2. CASE ~(x <= z)
        <5>1. \A y \in T : z <= y
          BY <2>2, <3>2, <3>4, <3>5, <4>2
        <5> QED BY <5>1, <2>1
      <4> QED BY <4>1, <4>2
    <3>7. \E v \in T : \A y \in T : y <= v
      <4>1. CASE z <= w
        BY <3>3, <3>4, <3>5, <4>1
      <4>2. CASE ~(z <= w)
        <5>1. \A y \in T : y <= z
          BY <2>2, <3>3, <3>4, <3>5, <4>2
        <5> QED BY <5>1, <2>1
      <4> QED BY <4>1, <4>2
    <3> QED
      BY <3>6, <3>7
  <2> QED
    BY <2>3, <2>4
<1> HIDE DEF Good
<1>3. Nat \subseteq Good
  BY <1>1, <1>2, AllNaturals
<1>4. Cardinality(S) \in Good
  BY <1>3, FS_CardinalityType
<1>5. /\ \E x \in S : \A y \in S : x <= y
      /\ \E x \in S : \A y \in S : y <= x
  BY <1>4 DEF Good
<1>6. \E x \in S : \A y \in S : x >= y
  BY <1>5
<1> QED
  BY <1>5, <1>6 DEF Min, Max

(* Recursion over the subsets of a finite set: base for the empty set, and *)
(* step combines the element that is picked with the value of the rest.    *)
Recursion(S, base0, pick, step, f) ==
  [s \in SUBSET S |-> IF s = {} THEN base0 ELSE step[<<pick[s], f[s \ {pick[s]}]>>]]

CanRecurse(S, Y, base0, pick, step) ==
  /\ IsFiniteSet(S) /\ base0 \in Y /\ step \in [S \X Y -> Y]
  /\ \A s \in SUBSET S : s # {} => pick[s] \in s

Recurses(S, Y, base0, pick, step) ==
  \E f \in [SUBSET S -> Y] : f = Recursion(S, base0, pick, step, f)

(* Such a recursion over a finite set has a solution.                      *)
LEMMA RecursionExists ==
  ASSUME NEW S, NEW Y, NEW base0, NEW pick, NEW step,
         CanRecurse(S, Y, base0, pick, step)
  PROVE  Recurses(S, Y, base0, pick, step)
<1> USE DEF CanRecurse
<1> DEFINE R(f) == Recursion(S, base0, pick, step, f)
           Good == {n \in Nat : \E f \in [SUBSET S -> Y] :
                      \A s \in SUBSET S : Cardinality(s) <= n => f[s] = R(f)[s]}
<1>0. \A f \in [SUBSET S -> Y] : R(f) \in [SUBSET S -> Y]
  <2> TAKE f \in [SUBSET S -> Y]
  <2> SUFFICES ASSUME NEW s \in SUBSET S, s # {}
               PROVE step[<<pick[s], f[s \ {pick[s]}]>>] \in Y
    BY DEF Recursion
  <2>1. pick[s] \in S /\ s \ {pick[s]} \in SUBSET S
    OBVIOUS
  <2> QED
    BY <2>1
<1>1. 0 \in Good
  <2>1. [s \in SUBSET S |-> base0] \in [SUBSET S -> Y]
    OBVIOUS
  <2>2. \A s \in SUBSET S : Cardinality(s) <= 0 => s = {}
    <3> SUFFICES ASSUME NEW s \in SUBSET S, Cardinality(s) <= 0 PROVE s = {}
      OBVIOUS
    <3>1. IsFiniteSet(s)
      BY FS_Subset
    <3>2. Cardinality(s) = 0
      BY <3>1, FS_CardinalityType
    <3> QED
      BY <3>1, <3>2, FS_EmptySet
  <2> QED
    BY <2>1, <2>2 DEF Recursion
<1>2. \A n \in Nat : n \in Good => n + 1 \in Good
  <2> SUFFICES ASSUME NEW n \in Nat, n \in Good PROVE n + 1 \in Good
    OBVIOUS
  <2>1. PICK f \in [SUBSET S -> Y] : \A s \in SUBSET S : Cardinality(s) <= n => f[s] = R(f)[s]
    OBVIOUS
  <2>2. R(f) \in [SUBSET S -> Y]
    BY <1>0
  <2>3. ASSUME NEW s \in SUBSET S, Cardinality(s) <= n + 1
        PROVE  R(f)[s] = R(R(f))[s]
    <3>1. CASE s = {}
      BY <3>1 DEF Recursion
    <3>2. CASE s # {}
      <4> DEFINE r == s \ {pick[s]}
      <4>1. IsFiniteSet(s) /\ pick[s] \in s
        BY <3>2, FS_Subset
      <4>2. Cardinality(r) = Cardinality(s) - 1 /\ Cardinality(s) \in Nat
        BY ZenonT(40), <4>1, FS_RemoveElement, FS_CardinalityType
      <4>3. r \in SUBSET S /\ Cardinality(r) <= n
        BY <2>3, <4>2
      <4>4. f[r] = R(f)[r]
        BY <2>1, <4>3
      <4>5. R(f)[s] = step[<<pick[s], f[r]>>]
        BY <3>2 DEF Recursion
      <4>6. R(R(f))[s] = step[<<pick[s], R(f)[r]>>]
        BY <3>2 DEF Recursion
      <4> QED
        BY <4>4, <4>5, <4>6
    <3> QED
      BY <3>1, <3>2
  <2> QED
    BY <2>2, <2>3
<1> HIDE DEF Good
<1>3. Cardinality(S) \in Good
  BY <1>1, <1>2, AllNaturals, FS_CardinalityType
<1>4. PICK f \in [SUBSET S -> Y] :
        \A s \in SUBSET S : Cardinality(s) <= Cardinality(S) => f[s] = R(f)[s]
  BY <1>3 DEF Good
<1>5. \A s \in SUBSET S : f[s] = R(f)[s]
  BY <1>4, FS_Subset
<1>6. R(f) \in [SUBSET S -> Y]
  BY <1>0
<1> HIDE DEF R
<1>7. f = R(f)
  BY <1>5, <1>6
<1> QED
  BY <1>7 DEF R, Recurses

(* MapThenSumSet for a function.                                           *)
SumOf(F, S) == MapThenSumSet(LAMBDA x : F[x], S)

Pick(s) == CHOOSE x \in s : TRUE

(* f adds up F over every subset of S, an element that is picked first.    *)
AddsUp(f, F, S) ==
  /\ f \in [SUBSET S -> Int] /\ f[{}] = 0
  /\ \A s \in SUBSET S : s # {} => f[s] = F[Pick(s)] + f[s \ {Pick(s)}]

Summable(F, S) == IsFiniteSet(S) /\ \A x \in S : F[x] \in Int

(* The recursion behind a sum.                                             *)
LEMMA SumRecurses ==
  ASSUME NEW S, NEW F, Summable(F, S)
  PROVE  \E f : AddsUp(f, F, S) /\ SumOf(F, S) = f[S]
<1> USE DEF Summable, Pick
<1> DEFINE pick == [s \in SUBSET S |-> Pick(s)]
           step == [p \in S \X Int |-> F[p[1]] + p[2]]
           R(f) == [s \in SUBSET S |-> IF s = {} THEN 0 ELSE F[Pick(s)] + f[s \ {Pick(s)}]]
           iter == CHOOSE f : f = R(f)
<1>1. \A s \in SUBSET S : s # {} => pick[s] \in s /\ pick[s] = Pick(s)
  OBVIOUS
<1>2. step \in [S \X Int -> Int]
  OBVIOUS
<1> HIDE DEF pick, step
<1>3. PICK f \in [SUBSET S -> Int] : f = Recursion(S, 0, pick, step, f)
  <2>1. CanRecurse(S, Int, 0, pick, step)
    BY <1>1, <1>2 DEF CanRecurse
  <2>2. Recurses(S, Int, 0, pick, step)
    BY <2>1, RecursionExists
  <2> QED
    BY <2>2 DEF Recurses
<1>4. f = R(f)
  <2>1. ASSUME NEW s \in SUBSET S, s # {}
        PROVE  step[<<pick[s], f[s \ {pick[s]}]>>] = F[Pick(s)] + f[s \ {Pick(s)}]
    <3>1. pick[s] = Pick(s) /\ pick[s] \in S /\ s \ {pick[s]} \in SUBSET S
      BY <1>1, <2>1
    <3> QED
      BY <3>1 DEF step
  <2> QED
    BY <1>3, <2>1 DEF Recursion
<1>5. iter = R(iter)
  BY <1>4
<1> HIDE DEF iter
<1>6. iter[{}] = 0 /\ \A s \in SUBSET S : s # {} => iter[s] = F[Pick(s)] + iter[s \ {Pick(s)}]
  <2>1. \A s \in SUBSET S : iter[s] = R(iter)[s]
    BY <1>5
  <2> QED
    BY <2>1
<1>7. \A s \in SUBSET S : iter[s] \in Int
  <2> DEFINE Good == {n \in Nat : \A s \in SUBSET S : Cardinality(s) = n => iter[s] \in Int}
  <2>1. 0 \in Good
    BY <1>6, FS_Subset, FS_EmptySet
  <2>2. \A n \in Nat : n \in Good => n + 1 \in Good
    <3> SUFFICES ASSUME NEW n \in Nat, n \in Good,
                        NEW s \in SUBSET S, Cardinality(s) = n + 1
                 PROVE  iter[s] \in Int
      OBVIOUS
    <3>1. IsFiniteSet(s) /\ s # {}
      BY FS_Subset, FS_EmptySet
    <3>2. PICK x \in s : x = Pick(s)
      BY <3>1
    <3>3. Cardinality(s \ {x}) = Cardinality(s) - 1
      BY <3>1, FS_RemoveElement
    <3>4. iter[s \ {x}] \in Int /\ F[x] \in Int
      <4>1. Cardinality(s \ {x}) = n /\ s \ {x} \in SUBSET S
        BY <3>3
      <4> QED
        BY <4>1
    <3> QED
      BY <1>6, <3>1, <3>2, <3>4
  <2> HIDE DEF Good
  <2>3. Nat \subseteq Good
    BY <2>1, <2>2, AllNaturals
  <2> QED
    BY <2>3, FS_Subset, FS_CardinalityType DEF Good
<1>8. iter \in [SUBSET S -> Int]
  <2>1. iter = [s \in SUBSET S |-> iter[s]]
    BY <1>5
  <2> QED
    BY <1>7, <2>1
<1>9. AddsUp(iter, F, S)
  BY <1>6, <1>8 DEF AddsUp
<1>10. SumOf(F, S) = iter[S]
  BY DEF SumOf, MapThenSumSet, MapThenFoldSet, iter
<1> QED
  BY <1>9, <1>10

(* A sum of finitely many integers is an integer.                          *)
LEMMA SumInteger ==
  ASSUME NEW S, IsFiniteSet(S), NEW F, \A x \in S : F[x] \in Int
  PROVE  SumOf(F, S) \in Int
<1>1. PICK f : AddsUp(f, F, S) /\ SumOf(F, S) = f[S]
  BY SumRecurses DEF Summable
<1> QED
  BY <1>1 DEF AddsUp

(* Sums of equal terms are equal.                                          *)
LEMMA SameSum ==
  ASSUME NEW S, NEW F, NEW G, \A x \in S : F[x] = G[x]
  PROVE  SumOf(F, S) = SumOf(G, S)
<1> USE DEF Pick
<1> DEFINE R(h, f) == [s \in SUBSET S |->
                         IF s = {} THEN 0 ELSE h[Pick(s)] + f[s \ {Pick(s)}]]
<1>1. \A f : R(F, f) = R(G, f)
  <2> TAKE f
  <2>1. \A s \in SUBSET S : s # {} => Pick(s) \in S
    OBVIOUS
  <2> QED
    BY <2>1
<1> HIDE DEF R
<1>2. (CHOOSE f : f = R(F, f)) = (CHOOSE f : f = R(G, f))
  BY <1>1
<1> QED
  BY <1>2 DEF SumOf, MapThenSumSet, MapThenFoldSet, R

(* It adds up the subsets, too.                                            *)
LEMMA SumsOfSubsets ==
  ASSUME NEW S, NEW F, Summable(F, S), NEW f, AddsUp(f, F, S)
  PROVE  \A s \in SUBSET S : SumOf(F, s) = f[s]
<1> SUFFICES ASSUME NEW T \in SUBSET S PROVE SumOf(F, T) = f[T]
  OBVIOUS
<1>1. Summable(F, T)
  BY FS_Subset DEF Summable
<1>2. PICK g : AddsUp(g, F, T) /\ SumOf(F, T) = g[T]
  BY <1>1, SumRecurses
<1> DEFINE Good == {n \in Nat : \A s \in SUBSET T : Cardinality(s) = n => g[s] = f[s]}
<1>3. 0 \in Good
  <2> SUFFICES ASSUME NEW s \in SUBSET T, Cardinality(s) = 0 PROVE g[s] = f[s]
    OBVIOUS
  <2>1. s = {}
    BY <1>1, FS_Subset, FS_EmptySet DEF Summable
  <2> QED
    BY <1>2, <2>1 DEF AddsUp
<1>4. \A n \in Nat : n \in Good => n + 1 \in Good
  <2> SUFFICES ASSUME NEW n \in Nat, n \in Good,
                      NEW s \in SUBSET T, Cardinality(s) = n + 1
               PROVE  g[s] = f[s]
    OBVIOUS
  <2>1. IsFiniteSet(s) /\ s # {}
    BY <1>1, FS_Subset, FS_EmptySet DEF Summable
  <2>2. PICK x \in s : x = Pick(s)
    BY <2>1 DEF Pick
  <2>3. Cardinality(s \ {x}) = Cardinality(s) - 1
    BY <2>1, FS_RemoveElement
  <2>4. g[s \ {x}] = f[s \ {x}]
    <3>1. Cardinality(s \ {x}) = n /\ s \ {x} \in SUBSET T
      BY <2>3
    <3> QED
      BY <3>1
  <2>5. g[s] = F[x] + g[s \ {x}] /\ f[s] = F[x] + f[s \ {x}]
    BY <1>2, <2>1, <2>2 DEF AddsUp
  <2> QED
    BY <2>4, <2>5
<1> HIDE DEF Good
<1>5. Cardinality(T) \in Good
  BY <1>1, <1>3, <1>4, AllNaturals, FS_CardinalityType DEF Summable
<1> QED
  BY <1>2, <1>5 DEF Good

(* Any element can be taken out of a sum.                                  *)
LEMMA SumTake ==
  ASSUME NEW S, NEW F, Summable(F, S), NEW y \in S
  PROVE  SumOf(F, S) = F[y] + SumOf(F, S \ {y})
<1>1. PICK f : AddsUp(f, F, S)
  BY SumRecurses
<1>2. \A s \in SUBSET S : SumOf(F, s) = f[s]
  BY <1>1, SumsOfSubsets
<1> DEFINE Takes(s) == \A x \in s : f[s] = F[x] + f[s \ {x}]
           Good == {n \in Nat : \A s \in SUBSET S : Cardinality(s) = n => Takes(s)}
<1>3. 0 \in Good
  BY FS_Subset, FS_EmptySet DEF Summable
<1> HIDE DEF Takes
<1>4. \A n \in Nat : n \in Good => n + 1 \in Good
  <2> SUFFICES ASSUME NEW n \in Nat, n \in Good,
                      NEW s \in SUBSET S, Cardinality(s) = n + 1
               PROVE  Takes(s)
    OBVIOUS
  <2> SUFFICES ASSUME NEW x \in s PROVE f[s] = F[x] + f[s \ {x}]
    BY DEF Takes
  <2>1. IsFiniteSet(s) /\ s # {}
    BY FS_Subset, FS_EmptySet DEF Summable
  <2>2. PICK z \in s : z = Pick(s)
    BY <2>1 DEF Pick
  <2>3. f[s] = F[z] + f[s \ {z}]
    BY <1>1, <2>1, <2>2 DEF AddsUp
  <2>4. CASE z = x
    BY <2>3, <2>4
  <2>5. CASE z # x
    <3>1. /\ Cardinality(s \ {z}) = Cardinality(s) - 1
          /\ Cardinality(s \ {x}) = Cardinality(s) - 1
      BY <2>1, FS_RemoveElement
    <3>2. f[s \ {z}] = F[x] + f[(s \ {z}) \ {x}] /\ f[s \ {x}] = F[z] + f[(s \ {x}) \ {z}]
      <4>1. /\ Cardinality(s \ {z}) = n /\ s \ {z} \in SUBSET S
            /\ Cardinality(s \ {x}) = n /\ s \ {x} \in SUBSET S
        BY <3>1
      <4>2. Takes(s \ {z}) /\ Takes(s \ {x})
        BY <4>1
      <4> QED
        BY <2>5, <4>2 DEF Takes
    <3>3. PICK r \in SUBSET S : r = (s \ {z}) \ {x}
      OBVIOUS
    <3>4. (s \ {x}) \ {z} = r
      BY <3>3
    <3>5. f[r] \in Int /\ F[x] \in Int /\ F[z] \in Int
      BY <1>1 DEF AddsUp, Summable
    <3>6. PICK u \in Int, v \in Int, w \in Int : u = f[r] /\ v = F[x] /\ w = F[z]
      BY <3>5
    <3>7. f[s] = w + (v + u) /\ f[s \ {x}] = w + u
      BY <2>3, <3>2, <3>3, <3>4, <3>6
    <3> QED
      BY <3>6, <3>7
  <2> QED
    BY <2>4, <2>5
<1> HIDE DEF Good
<1>5. Cardinality(S) \in Good
  BY <1>3, <1>4, AllNaturals, FS_CardinalityType DEF Summable
<1>6. f[S] = F[y] + f[S \ {y}]
  BY <1>5 DEF Good, Takes
<1> QED
  BY <1>2, <1>6

(* A property of the empty set that a set keeps when an element joins it   *)
(* holds for every finite set.                                             *)
LEMMA AllSubsets ==
  ASSUME NEW S, IsFiniteSet(S), NEW P, {} \in P,
         \A T \in SUBSET S : \A x \in S \ T : T \in P => T \cup {x} \in P
  PROVE  S \in P
<1> DEFINE Good == {n \in Nat : \A T \in SUBSET S : Cardinality(T) = n => T \in P}
<1>1. 0 \in Good
  BY FS_Subset, FS_EmptySet
<1>2. \A n \in Nat : n \in Good => n + 1 \in Good
  <2> SUFFICES ASSUME NEW n \in Nat, n \in Good,
                      NEW T \in SUBSET S, Cardinality(T) = n + 1
               PROVE  T \in P
    OBVIOUS
  <2>1. IsFiniteSet(T) /\ T # {}
    BY FS_Subset, FS_EmptySet
  <2>2. PICK x \in T : TRUE
    BY <2>1
  <2>3. Cardinality(T \ {x}) = Cardinality(T) - 1
    BY <2>1, FS_RemoveElement
  <2>4. T \ {x} \in P
    BY <2>3
  <2>5. (T \ {x}) \cup {x} = T /\ x \in S \ (T \ {x})
    OBVIOUS
  <2> QED
    BY <2>4, <2>5
<1> HIDE DEF Good
<1>3. Cardinality(S) \in Good
  BY <1>1, <1>2, AllNaturals, FS_CardinalityType
<1> QED
  BY <1>3 DEF Good

(* Nothing adds up to 0.                                                   *)
LEMMA SumEmpty == ASSUME NEW F PROVE SumOf(F, {}) = 0
<1>1. Summable(F, {})
  BY FS_EmptySet DEF Summable
<1>2. PICK f : AddsUp(f, F, {}) /\ SumOf(F, {}) = f[{}]
  BY <1>1, SumRecurses
<1> QED
  BY <1>2 DEF AddsUp

(* The sum with one element more.                                          *)
LEMMA SumJoin ==
  ASSUME NEW S, NEW F, Summable(F, S), NEW T \in SUBSET S, NEW x \in S \ T
  PROVE  /\ SumOf(F, T \cup {x}) = F[x] + SumOf(F, T)
         /\ F[x] \in Int /\ SumOf(F, T) \in Int
<1>1. Summable(F, T \cup {x}) /\ Summable(F, T) /\ x \in T \cup {x}
  <2>1. T \cup {x} \subseteq S
    OBVIOUS
  <2>2. IsFiniteSet(T \cup {x}) /\ IsFiniteSet(T)
    BY <2>1, FS_Subset DEF Summable
  <2> QED
    BY <2>1, <2>2 DEF Summable
<1>2. (T \cup {x}) \ {x} = T
  OBVIOUS
<1>3. SumOf(F, T \cup {x}) = F[x] + SumOf(F, (T \cup {x}) \ {x})
  BY <1>1, SumTake
<1>4. SumOf(F, T) \in Int
  BY <1>1, SumInteger DEF Summable
<1> QED
  BY <1>2, <1>3, <1>4 DEF Summable

(* A sum of natural numbers is one.                                        *)
LEMMA SumNatural ==
  ASSUME NEW S, IsFiniteSet(S), NEW F, \A x \in S : F[x] \in Nat
  PROVE  SumOf(F, S) \in Nat
<1> DEFINE P == {T \in SUBSET S : SumOf(F, T) \in Nat}
<1>1. Summable(F, S)
  BY DEF Summable
<1>2. {} \in P
  BY SumEmpty
<1>3. ASSUME NEW T \in SUBSET S, NEW x \in S \ T, T \in P PROVE T \cup {x} \in P
  <2>1. SumOf(F, T \cup {x}) = F[x] + SumOf(F, T)
    BY <1>1, SumJoin
  <2>2. F[x] \in Nat /\ SumOf(F, T) \in Nat
    BY <1>3
  <2> QED
    BY <2>1, <2>2
<1> HIDE DEF P
<1>4. S \in P
  BY <1>2, <1>3, AllSubsets
<1> QED
  BY <1>4 DEF P

(* Zeroes add up to 0.                                                     *)
LEMMA SumZero ==
  ASSUME NEW S, IsFiniteSet(S), NEW F, \A x \in S : F[x] = 0
  PROVE  SumOf(F, S) = 0
<1> DEFINE P == {T \in SUBSET S : SumOf(F, T) = 0}
<1>1. Summable(F, S)
  BY DEF Summable
<1>2. {} \in P
  BY SumEmpty
<1>3. ASSUME NEW T \in SUBSET S, NEW x \in S \ T, T \in P PROVE T \cup {x} \in P
  <2>1. SumOf(F, T \cup {x}) = F[x] + SumOf(F, T)
    BY <1>1, SumJoin
  <2>2. F[x] = 0 /\ SumOf(F, T) = 0
    BY <1>3
  <2> QED
    BY <2>1, <2>2
<1> HIDE DEF P
<1>4. S \in P
  BY <1>2, <1>3, AllSubsets
<1> QED
  BY <1>4 DEF P

(* The sum of sums.                                                        *)
LEMMA SumAdd ==
  ASSUME NEW S, NEW F, NEW G, NEW H, Summable(F, S), Summable(G, S),
         \A x \in S : H[x] = F[x] + G[x]
  PROVE  SumOf(H, S) = SumOf(F, S) + SumOf(G, S)
<1> DEFINE P == {T \in SUBSET S : SumOf(H, T) = SumOf(F, T) + SumOf(G, T)}
<1>1. Summable(H, S) /\ IsFiniteSet(S)
  BY DEF Summable
<1>2. {} \in P
  BY SumEmpty
<1>3. ASSUME NEW T \in SUBSET S, NEW x \in S \ T, T \in P PROVE T \cup {x} \in P
  <2>1. /\ SumOf(F, T \cup {x}) = F[x] + SumOf(F, T) /\ F[x] \in Int /\ SumOf(F, T) \in Int
        /\ SumOf(G, T \cup {x}) = G[x] + SumOf(G, T) /\ G[x] \in Int /\ SumOf(G, T) \in Int
        /\ SumOf(H, T \cup {x}) = H[x] + SumOf(H, T) /\ H[x] \in Int /\ SumOf(H, T) \in Int
    BY <1>1, SumJoin
  <2>2. H[x] = F[x] + G[x] /\ SumOf(H, T) = SumOf(F, T) + SumOf(G, T)
    BY <1>3
  <2> QED
    BY <2>1, <2>2
<1> HIDE DEF P
<1>4. S \in P
  BY <1>1, <1>2, <1>3, AllSubsets
<1> QED
  BY <1>4 DEF P

(* One term changes.                                                       *)
SameBut(F, G, S, y) == \A x \in S \ {y} : G[x] = F[x]

(* A sum of which one term changes.                                        *)
LEMMA SumChange ==
  ASSUME NEW S, NEW F, NEW G, NEW y \in S, Summable(F, S), G[y] \in Int,
         SameBut(F, G, S, y)
  PROVE  /\ SumOf(G, S) = SumOf(F, S) + G[y] - F[y]
         /\ SumOf(F, S) \in Int /\ SumOf(G, S) \in Int /\ F[y] \in Int
<1>0. \A x \in S \ {y} : G[x] = F[x]
  BY DEF SameBut
<1>1. Summable(G, S)
  BY <1>0 DEF Summable
<1>2. SumOf(F, S) = F[y] + SumOf(F, S \ {y})
  BY SumTake
<1>3. SumOf(G, S) = G[y] + SumOf(G, S \ {y})
  BY <1>1, SumTake
<1>4. SumOf(G, S \ {y}) = SumOf(F, S \ {y})
  BY <1>0, SameSum
<1>5. SumOf(F, S \ {y}) \in Int
  <2>1. IsFiniteSet(S \ {y})
    BY FS_Subset DEF Summable
  <2> QED
    BY <2>1, SumInteger DEF Summable
<1> QED
  BY <1>2, <1>3, <1>4, <1>5 DEF Summable

(* Sums along a list: its last term, its first term, and two lists one     *)
(* behind the other.                                                       *)
LEMMA SumLast ==
  ASSUME NEW n \in Nat, NEW F, \A k \in 1 .. n + 1 : F[k] \in Int
  PROVE  /\ SumOf(F, 1 .. n + 1) = SumOf(F, 1 .. n) + F[n + 1]
         /\ SumOf(F, 1 .. n) \in Int
<1>1. IsFiniteSet(1 .. n + 1)
  BY FS_Interval
<1>2. Summable(F, 1 .. n + 1) /\ 1 .. n \in SUBSET (1 .. n + 1)
  BY <1>1 DEF Summable
<1>3. n + 1 \in (1 .. n + 1) \ (1 .. n) /\ 1 .. n + 1 = (1 .. n) \cup {n + 1}
  OBVIOUS
<1>4. /\ SumOf(F, (1 .. n) \cup {n + 1}) = F[n + 1] + SumOf(F, 1 .. n)
      /\ F[n + 1] \in Int /\ SumOf(F, 1 .. n) \in Int
  BY <1>2, <1>3, SumJoin
<1>5. SumOf(F, 1 .. n + 1) = SumOf(F, (1 .. n) \cup {n + 1})
  BY <1>3
<1> DEFINE x == SumOf(F, 1 .. n + 1)
           y == SumOf(F, 1 .. n)
           z == F[n + 1]
<1>6. x = z + y /\ z \in Int /\ y \in Int
  BY <1>4, <1>5
<1> HIDE DEF x, y, z
<1>7. x = y + z /\ y \in Int
  BY <1>6
<1> QED
  BY <1>7 DEF x, y, z

(* F is the list G of length a followed by the list H of length b.        *)
Appended(F, G, a, H, b) ==
  /\ \A k \in 1 .. a : G[k] \in Int /\ F[k] = G[k]
  /\ \A k \in 1 .. b : H[k] \in Int /\ F[a + k] = H[k]

(* The sum of two lists, one after the other.                              *)
LEMMA SumAppended ==
  ASSUME NEW F, NEW G, NEW H, NEW a \in Nat, NEW b \in Nat, Appended(F, G, a, H, b)
  PROVE  SumOf(F, 1 .. a + b) = SumOf(G, 1 .. a) + SumOf(H, 1 .. b)
<1>0. /\ \A k \in 1 .. a : G[k] \in Int /\ F[k] = G[k]
      /\ \A k \in 1 .. b : H[k] \in Int /\ F[a + k] = H[k]
  BY DEF Appended
<1> DEFINE Good == {n \in Nat : n <= b =>
                      SumOf(F, 1 .. a + n) = SumOf(G, 1 .. a) + SumOf(H, 1 .. n)}
<1>1. SumOf(G, 1 .. a) \in Int /\ SumOf(F, 1 .. a) = SumOf(G, 1 .. a)
  <2>1. IsFiniteSet(1 .. a)
    BY FS_Interval
  <2> QED
    BY <1>0, <2>1, SumInteger, SameSum
<1>2. 0 \in Good
  <2>1. 1 .. 0 = {} /\ a + 0 = a
    OBVIOUS
  <2>2. SumOf(H, 1 .. 0) = 0
    BY <2>1, SumEmpty
  <2>3. SumOf(F, 1 .. a + 0) = SumOf(F, 1 .. a)
    BY <2>1
  <2> QED
    BY <1>1, <2>2, <2>3
<1>3. \A n \in Nat : n \in Good => n + 1 \in Good
  <2> SUFFICES ASSUME NEW n \in Nat, n \in Good, n + 1 <= b
               PROVE  SumOf(F, 1 .. a + (n + 1)) = SumOf(G, 1 .. a) + SumOf(H, 1 .. n + 1)
    OBVIOUS
  <2>1. SumOf(F, 1 .. a + n) = SumOf(G, 1 .. a) + SumOf(H, 1 .. n)
    OBVIOUS
  <2>2. SumOf(H, 1 .. n + 1) = SumOf(H, 1 .. n) + H[n + 1] /\ SumOf(H, 1 .. n) \in Int
    <3>1. \A k \in 1 .. n + 1 : H[k] \in Int
      BY <1>0
    <3> QED
      BY <3>1, SumLast
  <2>3. a + n \in Nat /\ a + (n + 1) = a + n + 1
    OBVIOUS
  <2>4. \A k \in 1 .. a + n + 1 : F[k] \in Int
    <3> SUFFICES ASSUME NEW k \in 1 .. a + n + 1 PROVE F[k] \in Int
      OBVIOUS
    <3>1. CASE k <= a
      <4>1. k \in 1 .. a
        BY <3>1
      <4> QED
        BY <1>0, <4>1
    <3>2. CASE ~(k <= a)
      <4>1. k - a \in 1 .. b /\ a + (k - a) = k
        BY <3>2
      <4> QED
        BY <1>0, <4>1
    <3> QED
      BY <3>1, <3>2
  <2>5. SumOf(F, 1 .. a + n + 1) = SumOf(F, 1 .. a + n) + F[a + n + 1]
    BY <2>3, <2>4, SumLast
  <2>6. n + 1 \in 1 .. b
    OBVIOUS
  <2>7. F[a + (n + 1)] = H[n + 1] /\ H[n + 1] \in Int
    BY <1>0, <2>6
  <2>8. F[a + n + 1] = F[a + (n + 1)] /\ SumOf(F, 1 .. a + n + 1) = SumOf(F, 1 .. a + (n + 1))
    BY <2>3
  <2> DEFINE x == SumOf(F, 1 .. a + (n + 1))
             y == SumOf(F, 1 .. a + n)
             z == SumOf(G, 1 .. a)
             v == SumOf(H, 1 .. n)
             w == SumOf(H, 1 .. n + 1)
             h == H[n + 1]
  <2>9. y = z + v /\ w = v + h /\ x = y + h /\ z \in Int /\ v \in Int /\ h \in Int
    BY <1>1, <2>1, <2>2, <2>5, <2>7, <2>8
  <2> HIDE DEF x, y, z, v, w, h
  <2>10. x = z + w
    BY <2>9
  <2> QED
    BY <2>10 DEF x, z, w
<1> HIDE DEF Good
<1>4. b \in Good
  BY <1>2, <1>3, AllNaturals
<1> QED
  BY <1>4 DEF Good

(* The sum of a list by its first term.                                    *)
LEMMA SumFirst ==
  ASSUME NEW n \in Nat, NEW F, NEW G, F[1] \in Int,
         \A k \in 1 .. n : G[k] \in Int /\ F[k + 1] = G[k]
  PROVE  SumOf(F, 1 .. n + 1) = F[1] + SumOf(G, 1 .. n)
<1>1. 1 .. 0 = {} /\ 0 \in Nat /\ 0 + 1 = 1
  OBVIOUS
<1>2. SumOf(F, 1 .. 1) = F[1]
  <2>1. \A k \in 1 .. 0 + 1 : F[k] \in Int
    OBVIOUS
  <2>2. SumOf(F, 1 .. 0 + 1) = SumOf(F, 1 .. 0) + F[0 + 1]
    BY <1>1, <2>1, SumLast
  <2>3. SumOf(F, 1 .. 0) = 0
    BY <1>1, SumEmpty
  <2> QED
    BY <1>1, <2>2, <2>3
<1>3. PICK E : E = F
  OBVIOUS
<1>4. PICK a \in Nat : a = 1
  OBVIOUS
<1>6. SumOf(F, 1 .. a + n) = SumOf(E, 1 .. a) + SumOf(G, 1 .. n)
  <2>1. \A k \in 1 .. a : E[k] \in Int /\ F[k] = E[k]
    BY <1>3, <1>4
  <2>2. \A k \in 1 .. n : G[k] \in Int /\ F[a + k] = G[k]
    BY <1>4
  <2>3. Appended(F, E, a, G, n)
    BY <2>1, <2>2 DEF Appended
  <2> QED
    BY <2>3, SumAppended
<1>5. a + n = n + 1
  BY <1>4
<1> QED
  BY <1>2, <1>3, <1>4, <1>5, <1>6

(* The sum that the community modules define for functions.                *)
LEMMA SumFunctions ==
  ASSUME NEW F, NEW S
  PROVE  SumFunctionOnSet(F, S) = SumOf(F, S) /\ SumFunction(F) = SumOf(F, DOMAIN F)
BY DEF SumFunction, SumFunctionOnSet, FoldFunctionOnSet, SumOf, MapThenSumSet, MapThenFoldSet
=============================================================================
