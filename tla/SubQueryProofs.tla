---------------------------- MODULE SubQueryProofs ----------------------------
(***************************************************************************)
(* The scheduling of sub-queries, their token and their counts, for every  *)
(* graph, every partition of it, any number of machines, any origin and    *)
(* any sizes: a coroutine is queued exactly once while it searches         *)
(* (QueuedOnce), there is exactly one token from the start of the leader   *)
(* on (OneToken), and the answers a sub-query waits for are those that are *)
(* still to come (AnswersDue).                                             *)
(*                                                                         *)
(* That the token is never lost needs more than its own handover: a        *)
(* message to a deleted query is dropped, so the query may be deleted only *)
(* when the leader holds the token for good (Ended), hence a query is told *)
(* to be over by the leader alone (Mail), hence a fork starts a machine    *)
(* once and an END finds the origin started (Mail, Begun).                 *)
(*                                                                         *)
(* The counts are a conservation law.  Every message weighs, for every     *)
(* machine, the answers it is or asks for (CW, NW); what is under way is   *)
(* the sum of the weights (Flight).  A request that is answered leaves the *)
(* sums alone, also when the answer announces further ones; an answer that *)
(* is taken moves its weight into the query (Bal).  A query that has not   *)
(* started has nothing due (Due), so the reset at its start loses nothing. *)
(***************************************************************************)
EXTENDS SubQuery, SumProofs, SequenceTheorems

Control == {"state", "isNew", "coro", "queued", "ret", "freed", "token"}

(* The fields that drive a query exist and have their types.               *)
Records(qq) ==
  /\ DOMAIN qq = Machine
  /\ \A m \in Machine :
       /\ Control \subseteq DOMAIN qq[m]
       /\ qq[m].isNew \in BOOLEAN /\ qq[m].token \in BOOLEAN
       /\ qq[m].isNew => qq[m].coro = "none"

Channels(ch) == \E S : ch \in [Machine -> [Machine -> Seq(S)]]

(* The query starts at its origin.                                         *)
Begun(qq) == qq[Origin].isNew => \A m \in Machine : qq[m].isNew

(* Only the leader ends a query, and keeps the token then.                 *)
Ended(qq) ==
  \A m \in Machine :
    /\ qq[m].coro = "over" => m = Leader /\ m \in Core /\ qq[m].token
    /\ qq[m].ret = TRUE \/ qq[m].freed = TRUE => qq[Leader].coro = "over"

IsFork(msg) == msg.type = "QUERY" /\ msg.state = "PRE_STAGE"
IsEnd(msg) == msg.type = "QUERY" /\ msg.state = "END"

(* A core machine that has not started has at most one fork to receive, an *)
(* END goes from the leader to the origin, and there are no other queries. *)
Mail(qq, ch) ==
  \A j, m \in Machine : \A k \in DOMAIN ch[j][m] :
    /\ ch[j][m][k].type = "QUERY" =>
         ~qq[Origin].isNew /\ (IsFork(ch[j][m][k]) \/ IsEnd(ch[j][m][k]))
    /\ IsFork(ch[j][m][k]) =>
         /\ j = Origin /\ m \in Core /\ qq[m].isNew
         /\ \A l \in DOMAIN ch[j][m] : IsFork(ch[j][m][l]) => l = k
    /\ IsEnd(ch[j][m][k]) => m = Origin /\ qq[Leader].coro = "over"

NoneSent(ch) ==
  \A j, m \in Machine : \A k \in DOMAIN ch[j][m] : ~IsToken(ch[j][m][k])

OnlySent(ch, j, m, k) ==
  /\ k \in DOMAIN ch[j][m] /\ IsToken(ch[j][m][k])
  /\ \A a, b \in Machine : \A c \in DOMAIN ch[a][b] :
       IsToken(ch[a][b][c]) => a = j /\ b = m /\ c = k

NoHolder(qq) == \A m \in Machine : ~qq[m].token
OnlyHolder(qq, h) == \A m \in Machine : qq[m].token <=> m = h

(* There is no token before the leader starts, then one, at a core machine *)
(* or on its way from one to another.                                      *)
Token(qq, ch) ==
  \/ /\ Core = {} \/ qq[Leader].isNew
     /\ NoHolder(qq) /\ NoneSent(ch)
  \/ /\ Core # {} /\ ~qq[Leader].isNew
     /\ \E h \in Core : OnlyHolder(qq, h)
     /\ NoneSent(ch)
  \/ /\ Core # {} /\ ~qq[Leader].isNew
     /\ NoHolder(qq)
     /\ \E j, m \in Core : j # m /\ \E k \in DOMAIN ch[j][m] : OnlySent(ch, j, m, k)

Global(qq, ch) ==
  Records(qq) /\ Channels(ch) /\ Begun(qq) /\ Ended(qq) /\ Mail(qq, ch) /\ Token(qq, ch)

(* Where a coroutine is between two steps, and while it runs.              *)
Local(m, s) ==
  /\ s.isNew => s.state = "START"
  /\ s.coro \in {"none", "wait"} =>
       s.queued = 0 /\ s.state \notin {"POST_STAGE", "PAUSE"}
  /\ s.coro = "loop" =>
       /\ m \in Core /\ s.queued \in {0, 1}
       /\ s.state = "POST_STAGE" => s.queued = 1
       /\ s.state = "PAUSE" => s.queued = 0
  /\ s.coro = "over" => s.queued = 0 /\ s.state \notin {"POST_STAGE", "PAUSE"}
  /\ s.coro \in {"none", "wait", "loop", "over"}

Running(m, s) ==
  /\ m \in Core /\ s.coro = "loop" /\ s.queued = 0
  /\ s.state # "PAUSE"

TokenInv == Global(q, chan) /\ \A m \in Machine : Local(m, q[m])

-----------------------------------------------------------------------------
(* Machines, leader and ring of core machines.                             *)

(* A set of natural numbers that is not empty has a least element.         *)
LEMMA LeastNumber ==
  ASSUME NEW S \in SUBSET Nat, S # {}
  PROVE  Min(S) \in S /\ \A y \in S : Min(S) <= y
<1>1. IsWellFoundedOn(OpToRel(<, Nat), Nat)
  BY NatLessThanWellFounded
<1>2. PICK n \in S : \A y \in S : ~(<<y, n>> \in OpToRel(<, Nat))
  BY <1>1, WFMin
<1>3. \A y \in S : ~(y < n)
  BY <1>2 DEF OpToRel
<1>4. \E x \in S : \A y \in S : x <= y
  BY <1>3
<1> QED BY <1>4 DEF Min

(* Machines are numbers, and finitely many.                                *)
LEMMA Machines ==
  /\ MachineNum \in Nat \ {0} /\ Machine \subseteq Nat /\ IsFiniteSet(Machine)
  /\ Origin \in Machine /\ Core \subseteq Machine /\ IsFiniteSet(Core)
<1>1. MachineNum \in Nat \ {0} /\ Machine \subseteq Nat /\ Origin \in Machine
      /\ Core \subseteq Machine
  BY GraphAssumption DEF Machine, Core
<1>2. 0 \in Int /\ MachineNum - 1 \in Int
  BY <1>1
<1>3. IsFiniteSet(Machine)
  BY <1>2, FS_Interval DEF Machine
<1> QED BY <1>1, <1>3, FS_Subset

(* The shares of the candidates are numbers.                               *)
LEMMA Shares ==
  /\ Cardinality(PreTop) \in Nat
  /\ \A m \in Machine : FilterNum(m) \in Nat /\ FilterNum(m) <= Cardinality(PreTop)
<1>1. IsFiniteSet(PreTop)
  BY GraphAssumption, FS_Subset
<1>2. Cardinality(PreTop) \in Nat
  BY <1>1, FS_CardinalityType
<1>3. ASSUME NEW m \in Machine
      PROVE  FilterNum(m) \in Nat /\ FilterNum(m) <= Cardinality(PreTop)
  <2>1. PreTop \cap Owned(m) \subseteq PreTop
    OBVIOUS
  <2>2. /\ IsFiniteSet(PreTop \cap Owned(m))
        /\ Cardinality(PreTop \cap Owned(m)) <= Cardinality(PreTop)
    BY <1>1, <2>1, FS_Subset
  <2>3. Cardinality(PreTop \cap Owned(m)) \in Nat
    BY <2>2, FS_CardinalityType
  <2> QED BY <2>2, <2>3 DEF FilterNum
<1> QED BY <1>2, <1>3

(* Multiplying by a number keeps the order.                                *)
LEMMA MoreTimes ==
  ASSUME NEW a \in Nat, NEW b \in Nat, NEW n \in Nat, a <= b
  PROVE  a * n <= b * n /\ a * n \in Nat /\ b * n \in Nat
  OBVIOUS

(* A largest share exists, and belongs to a core machine if any does.      *)
LEMMA LeaderCore == Leader \in Machine /\ (Core # {} => Leader \in Core)
<1> DEFINE Gap(m) == Cardinality(PreTop) - FilterNum(m)
           Gaps == {Gap(m) : m \in Machine}
           Most == {m \in Machine : \A k \in Machine : FilterNum(k) <= FilterNum(m)}
<1>1. Gaps \in SUBSET Nat /\ Gaps # {}
  <2>1. \A m \in Machine : Gap(m) \in Nat
    BY Shares
  <2> QED BY <2>1, Machines
<1>2. Min(Gaps) \in Gaps /\ \A y \in Gaps : Min(Gaps) <= y
  BY <1>1, LeastNumber
<1>3. PICK m \in Machine : Min(Gaps) = Gap(m)
  BY <1>2
<1>4. \A k \in Machine : Gap(m) <= Gap(k)
  BY <1>2, <1>3
<1>5. \A k \in Machine : FilterNum(k) <= FilterNum(m)
  BY <1>4, Shares
<1>6. Most \in SUBSET Nat /\ Most # {}
  BY <1>5, Machines
<1>7. Leader \in Most
  BY <1>6, LeastNumber DEF Leader
<1>8. ASSUME NEW k \in Core PROVE Leader \in Core
  <2>1. k \in Machine /\ FilterNum(k) <= FilterNum(Leader) /\ Leader \in Machine
    BY <1>7 DEF Core
  <2>2. /\ FilterNum(k) * MachineNum <= FilterNum(Leader) * MachineNum
        /\ FilterNum(k) * MachineNum \in Nat /\ FilterNum(Leader) * MachineNum \in Nat
    BY <2>1, Shares, Machines, MoreTimes
  <2>3. IsCore(k)
    BY DEF Core
  <2>4. \/ FilterNum(k) * MachineNum > Cardinality(PreTop)
        \/ RoundsUp /\ FilterNum(k) * MachineNum = Cardinality(PreTop)
    BY <2>3 DEF IsCore
  <2>5. \/ FilterNum(Leader) * MachineNum > Cardinality(PreTop)
        \/ RoundsUp /\ FilterNum(Leader) * MachineNum = Cardinality(PreTop)
    <3> DEFINE a == FilterNum(k) * MachineNum
               b == FilterNum(Leader) * MachineNum
               c == Cardinality(PreTop)
    <3>1. a \in Nat /\ b \in Nat /\ c \in Nat /\ a <= b
          /\ (a > c \/ (RoundsUp /\ a = c))
      BY <2>2, <2>4, Shares
    <3> HIDE DEF a, b, c
    <3>2. b > c \/ (RoundsUp /\ b = c)
      BY <3>1
    <3> QED BY <3>2 DEF b, c
  <2> QED BY <2>1, <2>5 DEF Core, IsCore
<1> QED BY <1>7, <1>8

(* A ring of several machines leads from each to another.                  *)
LEMMA NextOther ==
  ASSUME NEW m \in Core, Cardinality(Core) > 1
  PROVE  NextCore(m) \in Core /\ NextCore(m) # m
<1> DEFINE above == {k \in Core : k > m}
<1>1. m \in Nat /\ Core \in SUBSET Nat /\ above \in SUBSET Nat
  BY Machines
<1>2. CASE above # {}
  <2>1. Min(above) \in above
    BY <1>1, <1>2, LeastNumber
  <2> QED BY <2>1, <1>2, <1>1 DEF NextCore
<1>3. CASE above = {}
  <2>1. Core # {m}
    <3>1. Cardinality({m}) = 1
      BY FS_Singleton
    <3> QED BY <3>1
  <2>2. PICK k \in Core : k # m
    BY <2>1
  <2>3. ~(k > m)
    BY <1>3
  <2>4. k < m
    BY <1>1, <2>2, <2>3
  <2>5. Min(Core) \in Core /\ Min(Core) <= k
    BY <1>1, LeastNumber
  <2>6. NextCore(m) = Min(Core)
    BY <1>3 DEF NextCore
  <2> QED BY <1>1, <2>4, <2>5, <2>6
<1> QED BY <1>2, <1>3

(* A single core machine is the leader.                                    *)
LEMMA CoreAlone ==
  ASSUME Cardinality(Core) = 1
  PROVE  Core = {Leader}
<1>1. PICK x : Core = {x}
  BY Machines, FS_Singleton
<1> QED BY <1>1, LeaderCore
-----------------------------------------------------------------------------
(* Posting and reading.                                                    *)

Outs(out) == \E S : out \in [Machine -> Seq(S)]

(* What is in the channels after m has posted out.                         *)
LEMMA PostedSeq ==
  ASSUME NEW ch, Channels(ch), NEW out, Outs(out), NEW m \in Machine
  PROVE  LET P == Posted(ch, m, out) IN
         /\ Channels(P)
         /\ \A a, b \in Machine : \A k \in DOMAIN ch[a][b] :
              k \in DOMAIN P[a][b] /\ P[a][b][k] = ch[a][b][k]
         /\ \A b \in Machine : \A l \in DOMAIN out[b] :
              /\ Len(ch[m][b]) + l \in DOMAIN P[m][b]
              /\ P[m][b][Len(ch[m][b]) + l] = out[b][l]
              /\ Len(ch[m][b]) + l \notin DOMAIN ch[m][b]
         /\ \A a, b \in Machine : \A k \in DOMAIN P[a][b] :
              \/ k \in DOMAIN ch[a][b]
              \/ a = m /\ \E l \in DOMAIN out[b] : k = Len(ch[m][b]) + l
<1> DEFINE P == Posted(ch, m, out)
<1>1. PICK S : ch \in [Machine -> [Machine -> Seq(S)]]
  BY DEF Channels
<1>2. PICK T : out \in [Machine -> Seq(T)]
  BY DEF Outs
<1> DEFINE U == S \cup T
<1>3. ASSUME NEW a \in Machine, NEW b \in Machine
      PROVE  /\ ch[a][b] \in Seq(U) /\ out[b] \in Seq(U)
             /\ Len(ch[a][b]) \in Nat /\ DOMAIN ch[a][b] = 1 .. Len(ch[a][b])
             /\ Len(out[b]) \in Nat /\ DOMAIN out[b] = 1 .. Len(out[b])
             /\ ch[a][b] \o out[b] \in Seq(U)
             /\ Len(ch[a][b] \o out[b]) = Len(ch[a][b]) + Len(out[b])
             /\ DOMAIN (ch[a][b] \o out[b]) = 1 .. Len(ch[a][b]) + Len(out[b])
             /\ \A i \in 1 .. Len(ch[a][b]) + Len(out[b]) :
                  (ch[a][b] \o out[b])[i] =
                    IF i <= Len(ch[a][b]) THEN ch[a][b][i]
                    ELSE out[b][i - Len(ch[a][b])]
  <2>1. ch[a][b] \in Seq(S) /\ out[b] \in Seq(T) /\ S \subseteq U /\ T \subseteq U
    BY <1>1, <1>2
  <2> HIDE DEF U
  <2>2. ch[a][b] \in Seq(U) /\ out[b] \in Seq(U)
    BY <2>1, SeqMonotonic
  <2>3. /\ Len(ch[a][b]) \in Nat /\ DOMAIN ch[a][b] = 1 .. Len(ch[a][b])
        /\ Len(out[b]) \in Nat /\ DOMAIN out[b] = 1 .. Len(out[b])
    BY <2>2, LenProperties
  <2>4. /\ ch[a][b] \o out[b] \in Seq(U)
        /\ Len(ch[a][b] \o out[b]) = Len(ch[a][b]) + Len(out[b])
        /\ \A i \in 1 .. Len(ch[a][b]) + Len(out[b]) :
             (ch[a][b] \o out[b])[i] =
               IF i <= Len(ch[a][b]) THEN ch[a][b][i]
               ELSE out[b][i - Len(ch[a][b])]
    BY <2>2, ConcatProperties
  <2>5. DOMAIN (ch[a][b] \o out[b]) = 1 .. Len(ch[a][b] \o out[b])
    BY <2>4, LenProperties
  <2> QED BY <2>2, <2>3, <2>4, <2>5
<1>4. DOMAIN ch = Machine /\ \A a \in Machine : DOMAIN ch[a] = Machine
  BY <1>1
<1>5. /\ DOMAIN P = Machine
      /\ \A a \in Machine : a # m => P[a] = ch[a]
      /\ P[m] = And(ch[m], out)
  BY <1>4 DEF Posted
<1>6. \A b \in Machine : P[m][b] = ch[m][b] \o out[b]
  BY <1>5 DEF And
<1> HIDE DEF P, U
<1>7. Channels(P)
  <2>1. ASSUME NEW a \in Machine, NEW b \in Machine PROVE P[a][b] \in Seq(U)
    <3>1. ch[a][b] \in Seq(U) /\ ch[a][b] \o out[b] \in Seq(U)
      BY <1>3
    <3> QED BY <3>1, <1>5, <1>6
  <2>2. \A a \in Machine : P[a] = [b \in Machine |-> P[a][b]]
    BY <1>1, <1>5 DEF And
  <2>3. \A a \in Machine : P[a] \in [Machine -> Seq(U)]
    BY <2>1, <2>2
  <2>4. P = [a \in Machine |-> P[a]]
    BY <1>1 DEF P, Posted
  <2>5. P \in [Machine -> [Machine -> Seq(U)]]
    BY <2>3, <2>4
  <2> QED BY <2>5 DEF Channels
<1>8. ASSUME NEW a \in Machine, NEW b \in Machine, NEW k \in DOMAIN ch[a][b]
      PROVE  k \in DOMAIN P[a][b] /\ P[a][b][k] = ch[a][b][k]
  <2>1. CASE a # m
    BY <2>1, <1>5
  <2>2. CASE a = m
    <3> DEFINE n == Len(ch[m][b])
               d == Len(out[b])
    <3>1. /\ n \in Nat /\ d \in Nat /\ k \in 1 .. n
          /\ DOMAIN (ch[m][b] \o out[b]) = 1 .. n + d
          /\ \A i \in 1 .. n + d : (ch[m][b] \o out[b])[i] =
               IF i <= n THEN ch[m][b][i] ELSE out[b][i - n]
      BY <1>3, <2>2
    <3>2. P[m][b] = ch[m][b] \o out[b]
      BY <1>6
    <3> HIDE DEF n, d
    <3>3. k \in 1 .. n + d /\ k <= n
      BY <3>1
    <3>4. P[m][b][k] = ch[m][b][k] /\ k \in DOMAIN P[m][b]
      BY <3>1, <3>2, <3>3
    <3> QED BY <3>4, <2>2
  <2> QED BY <2>1, <2>2
<1>9. ASSUME NEW b \in Machine, NEW l \in DOMAIN out[b]
      PROVE  /\ Len(ch[m][b]) + l \in DOMAIN P[m][b]
             /\ P[m][b][Len(ch[m][b]) + l] = out[b][l]
             /\ Len(ch[m][b]) + l \notin DOMAIN ch[m][b]
  <2> DEFINE n == Len(ch[m][b])
             i == n + l
             d == Len(out[b])
  <2>1. n \in Nat /\ d \in Nat /\ l \in 1 .. d /\ DOMAIN ch[m][b] = 1 .. n
    BY <1>3
  <2>0. /\ P[m][b] = ch[m][b] \o out[b]
        /\ DOMAIN (ch[m][b] \o out[b]) = 1 .. n + d
        /\ \A k \in 1 .. n + d : (ch[m][b] \o out[b])[k] =
             IF k <= n THEN ch[m][b][k] ELSE out[b][k - n]
    BY <1>3, <1>6
  <2>2. DOMAIN P[m][b] = 1 .. n + d
    BY <2>0
  <2>3. \A k \in 1 .. n + d :
          P[m][b][k] = IF k <= n THEN ch[m][b][k] ELSE out[b][k - n]
    BY <2>0
  <2> HIDE DEF n, d
  <2>4. i \in 1 .. n + d /\ ~(i <= n) /\ i - n = l /\ i \notin 1 .. n
    BY <2>1
  <2>5. P[m][b][i] = out[b][i - n]
    BY <2>3, <2>4
  <2>6. i \in DOMAIN P[m][b] /\ P[m][b][i] = out[b][l] /\ i \notin DOMAIN ch[m][b]
    BY <2>1, <2>2, <2>4, <2>5
  <2> QED BY <2>6 DEF n
<1>10. ASSUME NEW a \in Machine, NEW b \in Machine, NEW k \in DOMAIN P[a][b]
       PROVE  \/ k \in DOMAIN ch[a][b]
              \/ a = m /\ \E l \in DOMAIN out[b] : k = Len(ch[m][b]) + l
  <2>1. CASE a # m
    BY <2>1, <1>5
  <2>2. CASE a = m
    <3> DEFINE n == Len(ch[m][b])
               d == Len(out[b])
    <3>1. n \in Nat /\ d \in Nat /\ DOMAIN out[b] = 1 .. d /\ DOMAIN ch[m][b] = 1 .. n
          /\ k \in 1 .. n + d
      BY <1>3, <1>6, <2>2
    <3> HIDE DEF n, d
    <3>2. CASE k <= n
      BY <3>1, <3>2, <2>2
    <3>3. CASE ~(k <= n)
      <4>1. k - n \in DOMAIN out[b] /\ k = n + (k - n)
        BY <3>1, <3>3
      <4> QED BY <4>1, <2>2 DEF n
    <3> QED BY <3>2, <3>3
  <2> QED BY <2>1, <2>2
<1> QED BY <1>7, <1>8, <1>9, <1>10 DEF P

(* What is in the channels after m has read a message of j.                *)
LEMMA PoppedSeq ==
  ASSUME Channels(chan), NEW m \in Machine, NEW j \in Machine, chan[j][m] # <<>>
  PROVE  LET P == Popped(m, j) IN
         /\ Channels(P)
         /\ 1 \in DOMAIN chan[j][m] /\ Head(chan[j][m]) = chan[j][m][1]
         /\ \A k \in DOMAIN chan[j][m] : k \in Nat \ {0}
         /\ \A a, b \in Machine : ~(a = j /\ b = m) => P[a][b] = chan[a][b]
         /\ \A k \in DOMAIN P[j][m] :
              k + 1 \in DOMAIN chan[j][m] /\ P[j][m][k] = chan[j][m][k + 1] /\ k \in Nat \ {0}
         /\ \A k \in DOMAIN chan[j][m] : k # 1 =>
              k - 1 \in DOMAIN P[j][m] /\ P[j][m][k - 1] = chan[j][m][k]
<1> DEFINE P == Popped(m, j)
           c == chan[j][m]
<1>1. PICK S : chan \in [Machine -> [Machine -> Seq(S)]]
  BY DEF Channels
<1>2. c \in Seq(S) /\ c # <<>>
  BY <1>1
<1>3. P[j][m] = Tail(c) /\ \A a, b \in Machine : ~(a = j /\ b = m) => P[a][b] = chan[a][b]
  BY <1>1 DEF Popped
<1>4. P \in [Machine -> [Machine -> Seq(S)]]
  <2>1. Tail(c) \in Seq(S)
    BY <1>2, HeadTailProperties
  <2> QED BY <1>1, <2>1 DEF Popped
<1> HIDE DEF P, c
<1>5. Len(c) \in Nat \ {0} /\ DOMAIN c = 1 .. Len(c)
  BY <1>2, EmptySeq, LenProperties
<1>6. /\ Tail(c) \in Seq(S) /\ Len(Tail(c)) = Len(c) - 1
      /\ \A i \in 1 .. Len(Tail(c)) : Tail(c)[i] = c[i + 1]
  BY <1>2, HeadTailProperties
<1>7. DOMAIN Tail(c) = 1 .. Len(Tail(c))
  BY <1>6, LenProperties
<1>8. Head(c) = c[1]
  BY <1>2, <1>5
<1>9. \A k \in DOMAIN Tail(c) : k + 1 \in DOMAIN c /\ Tail(c)[k] = c[k + 1] /\ k \in Nat \ {0}
  BY <1>5, <1>6, <1>7
<1>10. \A k \in DOMAIN c : k # 1 => k - 1 \in DOMAIN Tail(c) /\ Tail(c)[k - 1] = c[k]
  <2> TAKE k \in DOMAIN c
  <2> HAVE k # 1
  <2>1. k - 1 \in 1 .. Len(Tail(c)) /\ (k - 1) + 1 = k
    BY <1>5, <1>6
  <2> QED BY <2>1, <1>6, <1>7
<1>11. 1 \in DOMAIN c /\ \A k \in DOMAIN c : k \in Nat \ {0}
  BY <1>5
<1>12. Channels(P)
  BY <1>4 DEF Channels
<1> QED BY <1>3, <1>8, <1>9, <1>10, <1>11, <1>12 DEF P, c
(* Messages that are neither a query nor the token.                        *)
Quiet(msg) == msg.type # "QUERY" /\ ~IsToken(msg)
QuietOut(out) == Outs(out) /\ \A p \in Machine : \A k \in DOMAIN out[p] : Quiet(out[p][k])

(* Messages after m has posted out: the old ones and those of out.         *)
LEMMA PostedCases ==
  ASSUME NEW ch, Channels(ch), NEW out, Outs(out), NEW m \in Machine
  PROVE  LET P == Posted(ch, m, out) IN
         \A a, b \in Machine : \A k \in DOMAIN P[a][b] :
           \/ k \in DOMAIN ch[a][b] /\ P[a][b][k] = ch[a][b][k]
           \/ \E l \in DOMAIN out[b] :
                a = m /\ k = Len(ch[m][b]) + l /\ P[a][b][k] = out[b][l]
<1> DEFINE P == Posted(ch, m, out)
<1>1. /\ \A a, b \in Machine : \A k \in DOMAIN ch[a][b] : P[a][b][k] = ch[a][b][k]
      /\ \A b \in Machine : \A l \in DOMAIN out[b] :
           P[m][b][Len(ch[m][b]) + l] = out[b][l]
      /\ \A a, b \in Machine : \A k \in DOMAIN P[a][b] :
           \/ k \in DOMAIN ch[a][b]
           \/ a = m /\ \E l \in DOMAIN out[b] : k = Len(ch[m][b]) + l
  BY PostedSeq
<1> HIDE DEF P
<1>2. ASSUME NEW a \in Machine, NEW b \in Machine, NEW k \in DOMAIN P[a][b]
      PROVE  \/ k \in DOMAIN ch[a][b] /\ P[a][b][k] = ch[a][b][k]
             \/ \E l \in DOMAIN out[b] :
                  a = m /\ k = Len(ch[m][b]) + l /\ P[a][b][k] = out[b][l]
  BY <1>1
<1> QED BY <1>2 DEF P

(* Queries on their way, after no other than an END has been posted.       *)
LEMMA MailPosted ==
  ASSUME NEW qq, NEW ch, Channels(ch), Mail(qq, ch), NEW m \in Machine,
         NEW out, Outs(out),
         \A p \in Machine : \A k \in DOMAIN out[p] : out[p][k].type = "QUERY" =>
           /\ IsEnd(out[p][k]) /\ p = Origin
           /\ qq[Leader].coro = "over" /\ ~qq[Origin].isNew
  PROVE  Mail(qq, Posted(ch, m, out))
<1> DEFINE P == Posted(ch, m, out)
           Home(x) == IsEnd(x) /\ qq[Leader].coro = "over" /\ ~qq[Origin].isNew
<1>1. ASSUME NEW a \in Machine, NEW b \in Machine, NEW k \in DOMAIN P[a][b]
      PROVE  \/ k \in DOMAIN ch[a][b] /\ P[a][b][k] = ch[a][b][k]
             \/ P[a][b][k].type # "QUERY"
             \/ Home(P[a][b][k]) /\ b = Origin
  <2> HIDE DEF P
  <2>1. \/ k \in DOMAIN ch[a][b] /\ P[a][b][k] = ch[a][b][k]
        \/ \E l \in DOMAIN out[b] : P[a][b][k] = out[b][l]
    BY PostedCases DEF P
  <2> QED BY <2>1
<1> HIDE DEF P
<1> SUFFICES ASSUME NEW a \in Machine, NEW b \in Machine,
                    NEW k \in DOMAIN P[a][b], P[a][b][k].type = "QUERY"
             PROVE  /\ ~qq[Origin].isNew
                    /\ IsFork(P[a][b][k]) \/ IsEnd(P[a][b][k])
                    /\ IsFork(P[a][b][k]) =>
                         /\ a = Origin /\ b \in Core /\ qq[b].isNew
                         /\ \A l \in DOMAIN P[a][b] : IsFork(P[a][b][l]) => l = k
                    /\ IsEnd(P[a][b][k]) => b = Origin /\ qq[Leader].coro = "over"
  BY DEF Mail, IsFork, IsEnd, P
<1>2. \A l \in DOMAIN P[a][b] : IsFork(P[a][b][l]) =>
        l \in DOMAIN ch[a][b] /\ IsFork(ch[a][b][l])
  BY <1>1 DEF IsFork, IsEnd
<1>3. CASE k \in DOMAIN ch[a][b] /\ P[a][b][k] = ch[a][b][k]
  BY <1>2, <1>3 DEF Mail
<1>4. CASE Home(P[a][b][k]) /\ b = Origin
  BY <1>4 DEF IsFork, IsEnd
<1> QED BY <1>1, <1>3, <1>4

(* The token, after other messages have been posted.                       *)
LEMMA TokenPosted ==
  ASSUME NEW qq, NEW ch, Channels(ch), Token(qq, ch), NEW m \in Machine,
         NEW out, Outs(out),
         \A p \in Machine : \A k \in DOMAIN out[p] : ~IsToken(out[p][k])
  PROVE  Token(qq, Posted(ch, m, out))
<1> DEFINE P == Posted(ch, m, out)
<1>1. \A a, b \in Machine : \A k \in DOMAIN ch[a][b] :
        k \in DOMAIN P[a][b] /\ P[a][b][k] = ch[a][b][k]
  BY PostedSeq
<1>2. ASSUME NEW a \in Machine, NEW b \in Machine, NEW k \in DOMAIN P[a][b], IsToken(P[a][b][k])
      PROVE  k \in DOMAIN ch[a][b] /\ IsToken(ch[a][b][k])
  <2> HIDE DEF P
  <2>1. \/ k \in DOMAIN ch[a][b] /\ P[a][b][k] = ch[a][b][k]
        \/ \E l \in DOMAIN out[b] : P[a][b][k] = out[b][l]
    BY PostedCases DEF P
  <2> QED BY <1>2, <2>1
<1> HIDE DEF P
<1>3. NoneSent(ch) => NoneSent(P)
  BY <1>2 DEF NoneSent
<1>4. ASSUME NEW a \in Core, NEW b \in Core, NEW k \in DOMAIN ch[a][b], OnlySent(ch, a, b, k)
      PROVE  k \in DOMAIN P[a][b] /\ OnlySent(P, a, b, k)
  <2>1. a \in Machine /\ b \in Machine
    BY Machines
  <2>2. k \in DOMAIN P[a][b] /\ P[a][b][k] = ch[a][b][k]
    BY <2>1, <1>1
  <2> QED BY <1>2, <1>4, <2>2 DEF OnlySent
<1>5. Token(qq, P)
  BY <1>3, <1>4 DEF Token
<1> QED BY <1>5 DEF P

(* Messages that are no queries and carry no token disturb nothing global. *)
LEMMA QuietPosted ==
  ASSUME NEW qq, NEW ch, Global(qq, ch), NEW m \in Machine, NEW out, QuietOut(out)
  PROVE  Global(qq, Posted(ch, m, out))
<1>1. /\ Channels(ch) /\ Mail(qq, ch) /\ Token(qq, ch)
      /\ Outs(out)
      /\ \A p \in Machine : \A k \in DOMAIN out[p] :
           out[p][k].type # "QUERY" /\ ~IsToken(out[p][k])
  BY DEF Global, QuietOut, Quiet
<1>2. Channels(Posted(ch, m, out))
  BY <1>1, PostedSeq
<1>3. Mail(qq, Posted(ch, m, out))
  BY <1>1, MailPosted
<1>4. Token(qq, Posted(ch, m, out))
  BY <1>1, TokenPosted
<1> QED BY <1>2, <1>3, <1>4 DEF Global

(* A step of m that leaves what the others depend on.                      *)
Same(s, t) ==
  /\ Control \subseteq DOMAIN t
  /\ t.isNew = s.isNew /\ t.coro = s.coro /\ t.token = s.token
  /\ t.ret = s.ret /\ t.freed = s.freed

(* A step inside one machine that keeps its control fields keeps what      *)
(* holds globally.                                                         *)
LEMMA SameGlobal ==
  ASSUME NEW qq, NEW ch, Global(qq, ch), NEW m \in Machine, NEW t, Same(qq[m], t)
  PROVE  Global([qq EXCEPT ![m] = t], ch)
<1> DEFINE r == [qq EXCEPT ![m] = t]
<1>1. /\ DOMAIN qq = Machine /\ DOMAIN r = Machine
      /\ r[m] = t /\ \A n \in Machine : n # m => r[n] = qq[n]
  BY DEF Global, Records
<1> HIDE DEF r
<1>2. /\ Control \subseteq DOMAIN t /\ t.isNew = qq[m].isNew
      /\ t.coro = qq[m].coro /\ t.token = qq[m].token
      /\ t.ret = qq[m].ret /\ t.freed = qq[m].freed
  BY DEF Same
<1>3. \A n \in Machine :
        /\ r[n].isNew = qq[n].isNew /\ r[n].coro = qq[n].coro
        /\ r[n].token = qq[n].token
        /\ r[n].ret = qq[n].ret /\ r[n].freed = qq[n].freed
  BY <1>1, <1>2
<1>4. Origin \in Machine /\ Leader \in Machine
  BY Machines, LeaderCore
<1>5. Records(r)
  BY <1>1, <1>2, <1>3 DEF Global, Records
<1>6. Begun(r) /\ Ended(r)
  BY <1>3, <1>4 DEF Global, Begun, Ended
<1>7. Mail(r, ch)
  BY <1>3, <1>4 DEF Global, Mail
<1>8. Token(r, ch)
  <2>1. NoHolder(qq) => NoHolder(r)
    BY <1>3 DEF NoHolder
  <2>2. \A h \in Core : OnlyHolder(qq, h) => OnlyHolder(r, h)
    BY <1>3 DEF OnlyHolder
  <2>3. r[Leader].isNew = qq[Leader].isNew
    BY <1>3, <1>4
  <2> QED BY <2>1, <2>2, <2>3 DEF Global, Token
<1> QED BY <1>5, <1>6, <1>7, <1>8 DEF Global, r

(* Reading a message changes nothing about the queries behind it.          *)
LEMMA MailPopped ==
  ASSUME NEW qq, Channels(chan), Mail(qq, chan), NEW m \in Machine, NEW j \in Machine,
         chan[j][m] # <<>>
  PROVE  Mail(qq, Popped(m, j))
<1> DEFINE P == Popped(m, j)
<1>0. /\ \A a, b \in Machine : ~(a = j /\ b = m) => P[a][b] = chan[a][b]
      /\ \A k \in DOMAIN P[j][m] :
           k + 1 \in DOMAIN chan[j][m] /\ P[j][m][k] = chan[j][m][k + 1] /\ k \in Nat \ {0}
  BY PoppedSeq
<1> HIDE DEF P
<1> SUFFICES ASSUME NEW a \in Machine, NEW b \in Machine,
                    NEW k \in DOMAIN P[a][b], P[a][b][k].type = "QUERY"
             PROVE  /\ ~qq[Origin].isNew
                    /\ IsFork(P[a][b][k]) \/ IsEnd(P[a][b][k])
                    /\ IsFork(P[a][b][k]) =>
                         /\ a = Origin /\ b \in Core /\ qq[b].isNew
                         /\ \A l \in DOMAIN P[a][b] : IsFork(P[a][b][l]) => l = k
                    /\ IsEnd(P[a][b][k]) => b = Origin /\ qq[Leader].coro = "over"
  BY DEF Mail, IsFork, IsEnd, P
<1>1. CASE ~(a = j /\ b = m)
  <2>1. P[a][b] = chan[a][b]
    BY <1>0, <1>1
  <2> QED BY <2>1 DEF Mail
<1>2. CASE a = j /\ b = m
  <2>1. k + 1 \in DOMAIN chan[a][b] /\ P[a][b][k] = chan[a][b][k + 1]
    BY <1>0, <1>2
  <2>2. /\ ~qq[Origin].isNew
        /\ IsFork(P[a][b][k]) \/ IsEnd(P[a][b][k])
        /\ IsFork(P[a][b][k]) =>
             /\ a = Origin /\ b \in Core /\ qq[b].isNew
             /\ \A l \in DOMAIN chan[a][b] : IsFork(chan[a][b][l]) => l = k + 1
        /\ IsEnd(P[a][b][k]) => b = Origin /\ qq[Leader].coro = "over"
    BY <2>1 DEF Mail
  <2>3. ASSUME IsFork(P[a][b][k]), NEW l \in DOMAIN P[a][b], IsFork(P[a][b][l])
        PROVE  l = k
    <3>1. l + 1 \in DOMAIN chan[a][b] /\ P[a][b][l] = chan[a][b][l + 1]
          /\ l \in Nat /\ k \in Nat
      BY <1>0, <1>2
    <3>2. l + 1 = k + 1
      BY <2>2, <2>3, <3>1
    <3> QED BY <3>1, <3>2
  <2> QED BY <2>2, <2>3
<1> QED BY <1>1, <1>2

(* Reading a message that is not the token.                                *)
LEMMA OtherPopped ==
  ASSUME NEW qq, Global(qq, chan), NEW m \in Machine, NEW j \in Machine,
         chan[j][m] # <<>>,
         ~IsToken(Head(chan[j][m])) \/ \E h \in Core : OnlyHolder(qq, h)
  PROVE  Global(qq, Popped(m, j))
<1> DEFINE P == Popped(m, j)
<1>1. Channels(chan)
  BY DEF Global
<1>2. /\ Channels(P)
      /\ 1 \in DOMAIN chan[j][m] /\ Head(chan[j][m]) = chan[j][m][1]
      /\ \A k \in DOMAIN chan[j][m] : k \in Nat \ {0}
      /\ \A a, b \in Machine : ~(a = j /\ b = m) => P[a][b] = chan[a][b]
      /\ \A k \in DOMAIN P[j][m] :
           k + 1 \in DOMAIN chan[j][m] /\ P[j][m][k] = chan[j][m][k + 1] /\ k \in Nat \ {0}
      /\ \A k \in DOMAIN chan[j][m] : k # 1 =>
           k - 1 \in DOMAIN P[j][m] /\ P[j][m][k - 1] = chan[j][m][k]
  BY <1>1, PoppedSeq
<1> HIDE DEF P
<1>3. Mail(qq, P)
  BY MailPopped DEF Global, P
<1>4. Token(qq, chan) => Token(qq, P)
  <2> HAVE Token(qq, chan)
  <2>1. NoneSent(chan) => NoneSent(P)
    <3> SUFFICES ASSUME NoneSent(chan), NEW a \in Machine, NEW b \in Machine,
                        NEW k \in DOMAIN P[a][b]
                 PROVE  ~IsToken(P[a][b][k])
      BY DEF NoneSent
    <3>1. CASE ~(a = j /\ b = m)
      <4>1. P[a][b] = chan[a][b]
        BY <3>1, <1>2
      <4> QED BY <4>1 DEF NoneSent
    <3>2. CASE a = j /\ b = m
      <4>1. k + 1 \in DOMAIN chan[a][b] /\ P[a][b][k] = chan[a][b][k + 1]
        BY <3>2, <1>2
      <4> QED BY <4>1 DEF NoneSent
    <3> QED BY <3>1, <3>2
  <2>2. ASSUME NEW c \in Core, NEW d \in Core, NEW k \in DOMAIN chan[c][d],
               OnlySent(chan, c, d, k), NoHolder(qq)
        PROVE  \E i \in DOMAIN P[c][d] : OnlySent(P, c, d, i)
    <3>1. c \in Machine /\ d \in Machine
      BY Machines
    <3>2. ~IsToken(chan[j][m][1])
      <4>1. ~\E h \in Core : OnlyHolder(qq, h)
        BY <2>2, Machines DEF NoHolder, OnlyHolder
      <4> QED BY <4>1, <1>2
    <3>3. CASE c = j /\ d = m
      <4>1. k # 1
        BY <2>2, <3>2, <3>3 DEF OnlySent
      <4>2. k - 1 \in DOMAIN P[c][d] /\ P[c][d][k - 1] = chan[c][d][k] /\ k \in Nat
        BY <4>1, <3>3, <1>2, <3>1
      <4>3. IsToken(P[c][d][k - 1])
        BY <4>2, <2>2 DEF OnlySent
      <4>4. ASSUME NEW a \in Machine, NEW b \in Machine, NEW i \in DOMAIN P[a][b],
                   IsToken(P[a][b][i])
            PROVE  a = c /\ b = d /\ i = k - 1
        <5>1. CASE ~(a = j /\ b = m)
          <6>1. P[a][b] = chan[a][b]
            BY <5>1, <1>2
          <6> QED BY <6>1, <4>4, <2>2, <5>1, <3>3 DEF OnlySent
        <5>2. CASE a = j /\ b = m
          <6>1. i + 1 \in DOMAIN chan[a][b] /\ P[a][b][i] = chan[a][b][i + 1] /\ i \in Nat
            BY <5>2, <1>2
          <6>2. i + 1 = k
            BY <6>1, <4>4, <2>2 DEF OnlySent
          <6> QED BY <6>1, <6>2, <4>2, <5>2, <3>3
        <5> QED BY <5>1, <5>2
      <4> QED BY <4>2, <4>3, <4>4 DEF OnlySent
    <3>4. CASE ~(c = j /\ d = m)
      <4>1. P[c][d] = chan[c][d]
        BY <3>1, <3>4, <1>2
      <4>2. ASSUME NEW a \in Machine, NEW b \in Machine, NEW i \in DOMAIN P[a][b],
                   IsToken(P[a][b][i])
            PROVE  a = c /\ b = d /\ i = k
        <5>1. CASE ~(a = j /\ b = m)
          <6>1. P[a][b] = chan[a][b]
            BY <5>1, <1>2
          <6> QED BY <6>1, <4>2, <2>2 DEF OnlySent
        <5>2. CASE a = j /\ b = m
          <6>1. i + 1 \in DOMAIN chan[a][b] /\ P[a][b][i] = chan[a][b][i + 1]
            BY <5>2, <1>2
          <6> QED BY <6>1, <4>2, <2>2, <5>2, <3>4 DEF OnlySent
        <5> QED BY <5>1, <5>2
      <4> QED BY <4>1, <4>2, <2>2 DEF OnlySent
    <3> QED BY <3>3, <3>4
  <2> QED BY <2>1, <2>2 DEF Token
<1> QED BY <1>2, <1>3, <1>4 DEF Global, P
-----------------------------------------------------------------------------
(* What the routines post.                                                 *)

(* At most one message per machine.                                        *)
LEMMA SingleOuts ==
  ASSUME NEW out, out = [p \in Machine |-> out[p]],
         \A p \in Machine : out[p] = <<>> \/ \E x : out[p] = <<x>>
  PROVE  /\ Outs(out)
         /\ \A p \in Machine : \A k \in DOMAIN out[p] : k = 1 /\ out[p] # <<>>
<1> DEFINE S == {out[p][1] : p \in Machine}
<1>1. ASSUME NEW p \in Machine
      PROVE  out[p] \in Seq(S) /\ \A k \in DOMAIN out[p] : k = 1 /\ out[p] # <<>>
  <2>1. CASE out[p] = <<>>
    BY <2>1
  <2>2. CASE \E x : out[p] = <<x>>
    <3>1. PICK x : out[p] = <<x>>
      BY <2>2
    <3>2. out[p][1] = x /\ x \in S /\ DOMAIN out[p] = {1}
      BY <3>1
    <3> HIDE DEF S
    <3>3. <<x>> \in Seq(S)
      BY <3>2
    <3>4. out[p] # <<>>
      BY <3>1, EmptySeq
    <3> QED BY <3>1, <3>2, <3>3, <3>4
  <2> QED BY <2>1, <2>2
<1> HIDE DEF S
<1>2. out \in [Machine -> Seq(S)]
  BY <1>1
<1> QED BY <1>1, <1>2 DEF Outs

QuietSeq(r) == r = <<>> \/ \E x : r = <<x>> /\ Quiet(x)

(* At most one quiet message to each machine is quiet.                     *)
LEMMA QuietSingles ==
  ASSUME NEW out, out = [p \in Machine |-> out[p]],
         \A p \in Machine : QuietSeq(out[p])
  PROVE  QuietOut(out)
<1>0. \A p \in Machine : out[p] = <<>> \/ \E x : out[p] = <<x>> /\ Quiet(x)
  BY DEF QuietSeq
<1>1. /\ Outs(out)
      /\ \A p \in Machine : \A k \in DOMAIN out[p] : k = 1 /\ out[p] # <<>>
  BY <1>0, SingleOuts
<1>2. ASSUME NEW p \in Machine, NEW k \in DOMAIN out[p] PROVE Quiet(out[p][k])
  <2>1. k = 1 /\ out[p] # <<>>
    BY <1>1
  <2>2. PICK x : out[p] = <<x>> /\ Quiet(x)
    BY <1>0, <2>1
  <2> QED BY <2>1, <2>2
<1> QED BY <1>1, <1>2 DEF QuietOut

(* Quiet messages after quiet messages are quiet.                          *)
LEMMA QuietAnd ==
  ASSUME NEW a, QuietOut(a), NEW b, QuietOut(b)
  PROVE  QuietOut(And(a, b))
<1>1. PICK S : a \in [Machine -> Seq(S)]
  BY DEF QuietOut, Outs
<1>2. PICK T : b \in [Machine -> Seq(T)]
  BY DEF QuietOut, Outs
<1> DEFINE U == S \cup T
           c == And(a, b)
<1>3. ASSUME NEW p \in Machine
      PROVE  c[p] \in Seq(U) /\ \A k \in DOMAIN c[p] : Quiet(c[p][k])
  <2>1. a[p] \in Seq(S) /\ b[p] \in Seq(T) /\ S \subseteq U /\ T \subseteq U
    BY <1>1, <1>2
  <2> HIDE DEF U
  <2>2. a[p] \in Seq(U) /\ b[p] \in Seq(U)
    BY <2>1, SeqMonotonic
  <2>3. /\ a[p] \o b[p] \in Seq(U)
        /\ Len(a[p] \o b[p]) = Len(a[p]) + Len(b[p])
        /\ \A i \in 1 .. Len(a[p]) + Len(b[p]) :
             (a[p] \o b[p])[i] = IF i <= Len(a[p]) THEN a[p][i] ELSE b[p][i - Len(a[p])]
    BY <2>2, ConcatProperties
  <2>4. /\ DOMAIN (a[p] \o b[p]) = 1 .. Len(a[p] \o b[p])
        /\ DOMAIN a[p] = 1 .. Len(a[p]) /\ DOMAIN b[p] = 1 .. Len(b[p])
        /\ Len(a[p]) \in Nat /\ Len(b[p]) \in Nat
    BY <2>2, <2>3, LenProperties
  <2>5. c[p] = a[p] \o b[p]
    BY DEF And
  <2>6. ASSUME NEW k \in DOMAIN c[p] PROVE Quiet(c[p][k])
    <3>1. k \in 1 .. Len(a[p]) + Len(b[p])
      BY <2>3, <2>4, <2>5
    <3>2. CASE k <= Len(a[p])
      <4>1. c[p][k] = a[p][k] /\ k \in DOMAIN a[p]
        BY <2>3, <2>4, <2>5, <3>1, <3>2
      <4> QED BY <4>1 DEF QuietOut
    <3>3. CASE ~(k <= Len(a[p]))
      <4>1. k - Len(a[p]) \in DOMAIN b[p]
        <5> DEFINE n == Len(a[p])
                   d == Len(b[p])
        <5>1. n \in Nat /\ d \in Nat /\ k \in 1 .. n + d /\ ~(k <= n) /\ DOMAIN b[p] = 1 .. d
          BY <2>4, <3>1, <3>3
        <5> HIDE DEF n, d
        <5>2. k - n \in 1 .. d
          BY <5>1
        <5> QED BY <5>1, <5>2 DEF n
      <4>2. c[p][k] = b[p][k - Len(a[p])]
        BY <2>3, <2>5, <3>1, <3>3
      <4> QED BY <4>1, <4>2 DEF QuietOut
    <3> QED BY <3>2, <3>3
  <2> QED BY <2>3, <2>5, <2>6
<1>4. c = [p \in Machine |-> c[p]]
  BY DEF And
<1> HIDE DEF c, U
<1>5. c \in [Machine -> Seq(U)]
  BY <1>3, <1>4
<1> QED BY <1>3, <1>5 DEF c, QuietOut, Outs

(* Nothing to send is quiet.                                               *)
LEMMA QuietNothing == QuietOut(Nothing)
<1>1. Nothing = [p \in Machine |-> Nothing[p]] /\ \A p \in Machine : Nothing[p] = <<>>
  BY DEF Nothing
<1> QED BY <1>1, QuietSingles DEF QuietSeq

(* Tasks for the owners of expanded vertices are quiet.                    *)
LEMMA QuietTasks ==
  ASSUME NEW m, NEW s, NEW g
  PROVE  QuietOut(Tasks(m, s, g))
<1> DEFINE out == Tasks(m, s, g)
<1>1. out = [p \in Machine |-> out[p]]
  BY DEF Tasks
<1>2. ASSUME NEW p \in Machine
      PROVE  QuietSeq(out[p])
  <2>1. out[p] = <<>> \/ \E a, b, c, d, e, f : out[p] = TaskTo(a, b, c, d, e, f)
    BY DEF Tasks
  <2>2. ASSUME NEW a, NEW b, NEW c, NEW d, NEW e, NEW f
        PROVE  QuietSeq(TaskTo(a, b, c, d, e, f))
    BY DEF TaskTo, Quiet, IsToken, QuietSeq
  <2> HIDE DEF out
  <2> QED BY <2>1, <2>2 DEF QuietSeq
<1> HIDE DEF out
<1>3. QuietOut(out)
  BY <1>1, <1>2, QuietSingles
<1> QED BY <1>3 DEF out

(* A SYNC without the token.                                               *)
LEMMA QuietSyncs ==
  ASSUME NEW m, NEW s
  PROVE  QuietOut(Syncs(m, s, FALSE, FALSE))
<1> DEFINE out == Syncs(m, s, FALSE, FALSE)
<1>1. out = [p \in Machine |-> out[p]]
  BY DEF Syncs
<1>2. ASSUME NEW p \in Machine
      PROVE  QuietSeq(out[p])
  <2>1. CASE p \in Core \ {m}
    <3> DEFINE x == [type |-> "SYNC", token |-> FALSE /\ p = NextCore(m), black |-> FALSE,
                     add |-> Only(s.add, {v \in Vertex : v <= s.bound}), ngh |-> s.ngh[p]]
    <3>1. out[p] = <<x>>
      BY <2>1 DEF Syncs
    <3>2. x.type = "SYNC" /\ x.token = FALSE
      OBVIOUS
    <3> HIDE DEF x, out
    <3>3. Quiet(x)
      BY <3>2 DEF Quiet, IsToken
    <3> QED BY <3>1, <3>3 DEF QuietSeq
  <2>2. CASE p \notin Core \ {m}
    BY <2>2 DEF Syncs, QuietSeq
  <2> QED BY <2>1, <2>2
<1> HIDE DEF out
<1>3. QuietOut(out)
  BY <1>1, <1>2, QuietSingles
<1> QED BY <1>3 DEF out
-----------------------------------------------------------------------------
(* A coroutine that runs on m from state s, with channels ch, keeps the    *)
(* invariant: one lemma per way to the next yield.                         *)

Others(m, qq) == \A n \in Machine : n # m => Local(n, qq[n])

(* The next state of q in terms of the state s the coroutine works on.     *)
LEMMA Replaced ==
  ASSUME NEW f, NEW m, NEW s, NEW t
  PROVE  [[f EXCEPT ![m] = s] EXCEPT ![m] = t] = [f EXCEPT ![m] = t]
  OBVIOUS

(* One machine's record is replaced by a good one.                         *)
LEMMA LocalAll ==
  ASSUME NEW qq, DOMAIN qq = Machine, NEW m \in Machine, Others(m, qq), NEW t, Local(m, t)
  PROVE  \A n \in Machine : Local(n, [qq EXCEPT ![m] = t][n])
  BY DEF Others

(* A round of the loop that expands a group of candidates.                 *)
LEMMA ExpandKeeps ==
  ASSUME NEW m \in Machine, NEW qq, NEW ch, NEW s, s = qq[m], DOMAIN q = Machine,
         qq = [q EXCEPT ![m] = s],
         Global(qq, ch), Others(m, qq), Running(m, s), Expand(m, s, ch)
  PROVE  TokenInv'
<1>1. PICK g : ExpandGroup(m, s, ch, g)
  BY DEF Expand
<1>2. /\ DOMAIN qq = Machine /\ Control \subseteq DOMAIN s
      /\ s.isNew \in BOOLEAN
  BY DEF Global, Records
<1>3. s.coro = "loop" /\ s.queued = 0 /\ m \in Core /\ s.state # "PAUSE" /\ s.isNew = FALSE
  BY <1>2 DEF Running, Global, Records
<1>4. PICK t, out :
        /\ q' = [q EXCEPT ![m] = t] /\ chan' = Posted(ch, m, out)
        /\ QuietOut(out)
        /\ Same(s, t) /\ t.state = s.state
        /\ t.queued = IF s.state = "POST_STAGE" THEN 1 ELSE 0
  <2> DEFINE x == q'[m]
  <2>1. /\ q' = [q EXCEPT ![m] = x]
        /\ Same(s, x) /\ x.state = s.state
        /\ x.queued = s.queued + (IF s.state = "POST_STAGE" THEN 1 ELSE 0)
    BY ZenonT(40), <1>1, <1>2 DEF ExpandGroup, SyncCleared, Control, Same
  <2>2. x.queued = IF s.state = "POST_STAGE" THEN 1 ELSE 0
    BY <2>1, <1>3
  <2>3. \E t : \/ chan' = Posted(ch, m, And(Tasks(m, s, g), Syncs(m, t, FALSE, FALSE)))
               \/ chan' = Posted(ch, m, And(Tasks(m, s, g), Nothing))
    BY <1>1 DEF ExpandGroup
  <2>4. \E out : chan' = Posted(ch, m, out) /\ QuietOut(out)
    BY <2>3, QuietTasks, QuietSyncs, QuietNothing, QuietAnd
  <2> HIDE DEF x
  <2> QED BY <2>1, <2>2, <2>4
<1>5. q' = [qq EXCEPT ![m] = t]
  BY <1>4, Replaced
<1>6. Global([qq EXCEPT ![m] = t], ch)
  BY <1>4, SameGlobal
<1>7. Global(q', chan')
  <2>1. Global([qq EXCEPT ![m] = t], Posted(ch, m, out))
    BY <1>4, <1>6, QuietPosted
  <2> QED BY <1>4, <1>5, <2>1
<1>8. Local(m, t)
  BY <1>3, <1>4 DEF Local, Same
<1>9. \A n \in Machine : Local(n, q'[n])
  BY <1>2, <1>5, <1>8, LocalAll
<1> QED BY <1>7, <1>9 DEF TokenInv

(* Requeue, Yield and a pause without the token.                           *)
LEMMA StayKeeps ==
  ASSUME NEW m \in Machine, NEW qq, NEW ch, NEW s, s = qq[m], DOMAIN q = Machine,
         qq = [q EXCEPT ![m] = s],
         Global(qq, ch), Others(m, qq), NEW t, Same(s, t), Local(m, t),
         q' = [q EXCEPT ![m] = t], chan' = ch
  PROVE  TokenInv'
<1>1. q' = [qq EXCEPT ![m] = t] /\ DOMAIN qq = Machine
  BY Replaced DEF Global, Records
<1>2. Global(q', chan')
  <2>1. Global([qq EXCEPT ![m] = t], ch)
    BY SameGlobal
  <2> QED BY <1>1, <2>1
<1>3. \A n \in Machine : Local(n, q'[n])
  BY <1>1, LocalAll
<1> QED BY <1>2, <1>3 DEF TokenInv

(* A round that puts the sub-query back into the queue or only yields.     *)
LEMMA RequeueKeeps ==
  ASSUME NEW m \in Machine, NEW qq, NEW ch, NEW s, s = qq[m], DOMAIN q = Machine,
         qq = [q EXCEPT ![m] = s],
         Global(qq, ch), Others(m, qq), Running(m, s),
         Requeue(m, s, ch) \/ Yield(m, s, ch)
  PROVE  TokenInv'
<1>1. /\ Control \subseteq DOMAIN s
      /\ s.coro = "loop" /\ s.queued = 0 /\ m \in Core /\ s.state # "PAUSE" /\ s.isNew = FALSE
  BY DEF Running, Global, Records
<1>2. CASE Requeue(m, s, ch)
  <2> DEFINE t == [s EXCEPT !.queued = @ + 1]
  <2>1. q' = [q EXCEPT ![m] = t] /\ chan' = ch
    BY <1>2 DEF Requeue
  <2>2. Same(s, t) /\ t.state = s.state /\ t.queued = 1
    BY <1>1 DEF Same, Control
  <2> HIDE DEF t
  <2>3. Local(m, t)
    BY <1>1, <2>2 DEF Local, Same
  <2> QED BY <2>1, <2>2, <2>3, StayKeeps
<1>3. CASE Yield(m, s, ch)
  <2>1. q' = [q EXCEPT ![m] = s] /\ chan' = ch /\ s.state # "POST_STAGE"
    BY <1>3 DEF Yield
  <2>2. Same(s, s)
    BY <1>1 DEF Same
  <2>3. Local(m, s)
    BY <1>1, <2>1 DEF Local
  <2> QED BY <2>1, <2>2, <2>3, StayKeeps
<1> QED BY <1>2, <1>3
(* The machine that holds the token is the only one, and none is sent.     *)
LEMMA HolderAlone ==
  ASSUME NEW qq, NEW ch, Token(qq, ch), NEW m \in Machine, qq[m].token
  PROVE  /\ m \in Core /\ OnlyHolder(qq, m) /\ NoneSent(ch)
         /\ ~qq[Leader].isNew
  BY Machines DEF Token, NoHolder, OnlyHolder

(* Posting the token with a SYNC to n.                                     *)
TokenOut(out, n) ==
  /\ Outs(out)
  /\ \A p \in Machine : \A k \in DOMAIN out[p] : out[p][k].type # "QUERY" /\ k = 1
  /\ 1 \in DOMAIN out[n] /\ IsToken(out[n][1])
  /\ \A p \in Machine : \A k \in DOMAIN out[p] : IsToken(out[p][k]) => p = n

(* The SYNCs of a holder that pauses carry the token once, to the next     *)
(* core machine.                                                           *)
LEMMA TokenSyncs ==
  ASSUME NEW m \in Core, Cardinality(Core) > 1, NEW s, NEW taint
  PROVE  TokenOut(Syncs(m, s, TRUE, taint), NextCore(m))
<1> DEFINE out == Syncs(m, s, TRUE, taint)
           x(p) == [type |-> "SYNC", token |-> TRUE /\ p = NextCore(m), black |-> taint,
                    add |-> Only(s.add, {v \in Vertex : v <= s.bound}), ngh |-> s.ngh[p]]
<1>1. NextCore(m) \in Core /\ NextCore(m) # m /\ NextCore(m) \in Machine
  BY NextOther, Machines
<1>2. out = [p \in Machine |-> out[p]]
  BY DEF Syncs
<1>3. \A p \in Machine : IF p \in Core \ {m} THEN out[p] = <<x(p)>> ELSE out[p] = <<>>
  BY DEF Syncs
<1>4. \A p : x(p).type = "SYNC" /\ x(p).token = (p = NextCore(m))
  OBVIOUS
<1> HIDE DEF out, x
<1>5. \A p \in Machine : out[p] = <<>> \/ \E y : out[p] = <<y>>
  BY <1>3
<1>6. /\ Outs(out)
      /\ \A p \in Machine : \A k \in DOMAIN out[p] : k = 1 /\ out[p] # <<>>
  BY <1>2, <1>5, SingleOuts
<1>7. ASSUME NEW p \in Machine, NEW k \in DOMAIN out[p]
      PROVE  k = 1 /\ out[p][k] = x(p)
  <2>1. k = 1 /\ out[p] # <<>>
    BY <1>6
  <2>2. out[p] = <<x(p)>>
    BY <2>1, <1>3
  <2> QED BY <2>1, <2>2
<1>8. ASSUME NEW p \in Machine, NEW k \in DOMAIN out[p]
      PROVE  out[p][k].type # "QUERY" /\ k = 1 /\ (IsToken(out[p][k]) => p = NextCore(m))
  BY <1>4, <1>7 DEF IsToken
<1>9. out[NextCore(m)] = <<x(NextCore(m))>>
  BY <1>1, <1>3
<1>10. 1 \in DOMAIN out[NextCore(m)] /\ IsToken(out[NextCore(m)][1])
  <2>1. 1 \in DOMAIN out[NextCore(m)] /\ out[NextCore(m)][1] = x(NextCore(m))
    BY <1>9
  <2> QED BY <2>1, <1>4 DEF IsToken
<1>11. TokenOut(out, NextCore(m))
  BY <1>6, <1>8, <1>10 DEF TokenOut
<1> QED BY <1>11 DEF out

(* Hand over the token and pause.                                          *)
LEMMA HandoverKeeps ==
  ASSUME NEW m \in Machine, NEW qq, NEW ch, NEW s, s = qq[m], DOMAIN q = Machine,
         qq = [q EXCEPT ![m] = s],
         Global(qq, ch), Others(m, qq), Running(m, s), s.token, Pause(m, s, ch)
  PROVE  TokenInv'
<1> DEFINE t == q'[m]
           r == [qq EXCEPT ![m] = t]
           P == chan'
           n == NextCore(m)
<1>1. PICK taint : Cardinality(Core) > 1 /\ P = Posted(ch, m, Syncs(m, s, TRUE, taint))
  BY DEF Pause
<1>2. /\ DOMAIN qq = Machine /\ Control \subseteq DOMAIN s
      /\ s.coro = "loop" /\ s.queued = 0 /\ m \in Core /\ s.isNew = FALSE
  BY DEF Running, Global, Records
<1>3. /\ q' = [q EXCEPT ![m] = t] /\ Control \subseteq DOMAIN t
      /\ t.isNew = s.isNew /\ t.coro = s.coro /\ t.token = FALSE
      /\ t.ret = s.ret /\ t.freed = s.freed
      /\ t.queued = s.queued /\ t.state = "PAUSE"
  <2> DEFINE w == [s EXCEPT !.state = "PAUSE", !.token = FALSE,
                            !.tokenBlack = FALSE, !.procBlack = FALSE,
                            !.lastWhite = IF m = Leader THEN ~Failed(s) ELSE @]
             u == SyncCleared(w)
  <2>1. q' = [q EXCEPT ![m] = u]
    BY DEF Pause
  <2>2. t = u
    BY <2>1
  <2>3. /\ Control \subseteq DOMAIN w
        /\ w.isNew = s.isNew /\ w.coro = s.coro /\ w.token = FALSE
        /\ w.ret = s.ret /\ w.freed = s.freed
        /\ w.queued = s.queued /\ w.state = "PAUSE"
    BY <1>2 DEF Control
  <2> HIDE DEF w
  <2>4. /\ Control \subseteq DOMAIN u
        /\ u.isNew = w.isNew /\ u.coro = w.coro /\ u.token = w.token
        /\ u.ret = w.ret /\ u.freed = w.freed
        /\ u.queued = w.queued /\ u.state = w.state
    BY <2>3 DEF Control, SyncCleared
  <2> HIDE DEF u, t
  <2> QED BY <2>1, <2>2, <2>3, <2>4
<1>4. q' = r
  BY <1>3, Replaced
<1> HIDE DEF t, P
<1>5. /\ DOMAIN r = Machine /\ r[m] = t
      /\ \A k \in Machine : k # m => r[k] = qq[k]
  BY <1>2
<1> HIDE DEF r, n
<1>6. \A k \in Machine :
        /\ r[k].isNew = qq[k].isNew /\ r[k].coro = qq[k].coro
        /\ r[k].ret = qq[k].ret /\ r[k].freed = qq[k].freed
  BY <1>3, <1>5
<1>7. Origin \in Machine /\ Leader \in Machine
  BY Machines, LeaderCore
<1>8. OnlyHolder(qq, m) /\ NoneSent(ch) /\ ~qq[Leader].isNew
  BY HolderAlone DEF Global
<1>9. NoHolder(r)
  BY <1>3, <1>5, <1>8 DEF NoHolder, OnlyHolder
<1>10. Records(r)
  <2>1. Records(qq)
    BY DEF Global
  <2>2. ASSUME NEW k \in Machine
        PROVE  /\ Control \subseteq DOMAIN r[k]
               /\ r[k].isNew \in BOOLEAN /\ r[k].token \in BOOLEAN
               /\ r[k].isNew => r[k].coro = "none"
    <3>1. r[k].isNew \in BOOLEAN /\ (r[k].isNew => r[k].coro = "none")
      BY <1>6, <2>1 DEF Records
    <3>2. CASE k = m
      BY <1>3, <1>5, <3>1, <3>2
    <3>3. CASE k # m
      BY <1>5, <2>1, <3>1, <3>3 DEF Records
    <3> QED BY <3>2, <3>3
  <2> QED BY <1>5, <2>2 DEF Records
<1>11. Begun(r)
  BY <1>6, <1>7 DEF Global, Begun
<1>12. Ended(r)
  <2>1. \A k \in Machine : qq[k].coro # "over"
    BY <1>2, <1>8 DEF Global, Ended, OnlyHolder
  <2> QED BY <1>6, <1>7, <2>1 DEF Global, Ended
<1>13. Mail(r, ch)
  BY <1>6, <1>7 DEF Global, Mail
<1> DEFINE out == Syncs(m, s, TRUE, taint)
<1>0. TokenOut(out, n)
  BY <1>1, <1>2, TokenSyncs DEF n
<1> HIDE DEF out
<1>14. /\ Outs(out)
       /\ \A p \in Machine : \A k \in DOMAIN out[p] : out[p][k].type # "QUERY" /\ k = 1
       /\ 1 \in DOMAIN out[n] /\ IsToken(out[n][1])
       /\ \A p \in Machine : \A k \in DOMAIN out[p] : IsToken(out[p][k]) => p = n
  BY <1>0 DEF TokenOut
<1>15. Channels(ch)
  BY DEF Global
<1>16. P = Posted(ch, m, out)
  BY <1>1 DEF out
<1>17. Mail(r, P)
  BY <1>13, <1>14, <1>15, <1>16, MailPosted
<1>18. Channels(P)
  BY <1>14, <1>15, <1>16, PostedSeq
<1>19. n \in Core /\ n # m /\ n \in Machine
  BY <1>1, <1>2, NextOther, Machines DEF n
<1>20. \E k \in DOMAIN P[m][n] : OnlySent(P, m, n, k)
  <2> DEFINE k == Len(ch[m][n]) + 1
  <2>1. k \in DOMAIN P[m][n] /\ P[m][n][k] = out[n][1]
    BY <1>14, <1>15, <1>16, <1>19, PostedSeq
  <2>2. ASSUME NEW a \in Machine, NEW b \in Machine, NEW c \in DOMAIN P[a][b],
               IsToken(P[a][b][c])
        PROVE  a = m /\ b = n /\ c = k
    <3>1. \/ c \in DOMAIN ch[a][b] /\ P[a][b][c] = ch[a][b][c]
          \/ \E l \in DOMAIN out[b] :
               a = m /\ c = Len(ch[m][b]) + l /\ P[a][b][c] = out[b][l]
      BY <1>14, <1>15, <1>16, PostedCases
    <3>2. ~(c \in DOMAIN ch[a][b] /\ P[a][b][c] = ch[a][b][c])
      BY <1>8, <2>2 DEF NoneSent
    <3>3. PICK l \in DOMAIN out[b] :
            a = m /\ c = Len(ch[m][b]) + l /\ P[a][b][c] = out[b][l]
      BY <3>1, <3>2
    <3>4. l = 1 /\ b = n
      BY <1>14, <2>2, <3>3
    <3> QED BY <3>3, <3>4
  <2> HIDE DEF k
  <2>3. IsToken(P[m][n][k])
    BY <1>14, <2>1
  <2>4. OnlySent(P, m, n, k)
    BY <2>1, <2>2, <2>3 DEF OnlySent
  <2> QED BY <2>1, <2>4
<1>21. Token(r, P)
  <2>1. Core # {} /\ ~r[Leader].isNew
    BY <1>2, <1>6, <1>7, <1>8
  <2> QED BY <2>1, <1>2, <1>9, <1>19, <1>20 DEF Token
<1>22. Global(r, P)
  BY <1>10, <1>11, <1>12, <1>17, <1>18, <1>21 DEF Global
<1>23. Local(m, t)
  BY <1>2, <1>3 DEF Local
<1>24. \A k \in Machine : Local(k, r[k])
  BY <1>2, <1>23, LocalAll DEF r
<1> QED BY <1>4, <1>22, <1>24 DEF TokenInv, P

(* A round without candidates: the sub-query pauses, and passes the token  *)
(* if it holds it.                                                         *)
LEMMA PauseKeeps ==
  ASSUME NEW m \in Machine, NEW qq, NEW ch, NEW s, s = qq[m], DOMAIN q = Machine,
         qq = [q EXCEPT ![m] = s],
         Global(qq, ch), Others(m, qq), Running(m, s), Pause(m, s, ch)
  PROVE  TokenInv'
<1>1. CASE s.token
  BY <1>1, HandoverKeeps
<1>2. CASE ~s.token
  <2> DEFINE t == [s EXCEPT !.state = "PAUSE"]
  <2>1. /\ Control \subseteq DOMAIN s
        /\ s.coro = "loop" /\ s.queued = 0 /\ m \in Core /\ s.isNew = FALSE
    BY DEF Running, Global, Records
  <2>2. q' = [q EXCEPT ![m] = t] /\ chan' = ch
    BY <1>2 DEF Pause
  <2>3. Same(s, t) /\ t.state = "PAUSE" /\ t.queued = 0
    BY <2>1 DEF Same, Control
  <2> HIDE DEF t
  <2>4. Local(m, t)
    BY <2>1, <2>3 DEF Local, Same
  <2> QED BY <2>2, <2>3, <2>4, StayKeeps
<1> QED BY <1>1, <1>2
(* Only the leader comes to the end, with the token.                       *)
LEMMA ConcludeKeeps ==
  ASSUME NEW m \in Machine, NEW qq, NEW ch, NEW s, s = qq[m], DOMAIN q = Machine,
         qq = [q EXCEPT ![m] = s],
         Global(qq, ch), Others(m, qq), Running(m, s), Conclude(m, s, ch)
  PROVE  TokenInv'
<1> DEFINE t == q'[m]
           r == [qq EXCEPT ![m] = t]
<1>1. /\ DOMAIN qq = Machine /\ Control \subseteq DOMAIN s
      /\ s.coro = "loop" /\ s.queued = 0 /\ m \in Core /\ s.isNew = FALSE
  BY DEF Running, Global, Records
<1>2. /\ q' = [q EXCEPT ![m] = t] /\ Control \subseteq DOMAIN t
      /\ t.isNew = s.isNew /\ t.coro = "over" /\ t.token = s.token
      /\ t.freed = s.freed /\ t.queued = s.queued /\ t.state = "END"
  BY <1>1 DEF Conclude, Control
<1>3. Cardinality(Core) = 1 \/ (s.token /\ m = Leader)
  BY DEF Conclude, SecondSuccess
<1>4. q' = r
  BY <1>2, Replaced
<1> HIDE DEF t
<1>5. /\ DOMAIN r = Machine /\ r[m] = t
      /\ \A k \in Machine : k # m => r[k] = qq[k]
  BY <1>1
<1> HIDE DEF r
<1>6. Origin \in Machine /\ Leader \in Machine
  BY Machines, LeaderCore
<1>7. m = Leader
  BY <1>1, <1>3, CoreAlone
<1>8. OnlyHolder(qq, m) /\ NoneSent(ch)
  <2>1. CASE s.token
    BY <2>1, HolderAlone DEF Global
  <2>2. CASE Core = {m}
    BY <1>1, <1>7, <2>2 DEF Global, Token
  <2> QED BY <2>1, <2>2, <1>3, <1>7, CoreAlone
<1>9. \A k \in Machine :
        /\ r[k].isNew = qq[k].isNew /\ r[k].token = qq[k].token
        /\ k # m => r[k].coro = qq[k].coro
  BY <1>2, <1>5
<1>10. Records(r)
  BY <1>1, <1>2, <1>5, <1>9 DEF Global, Records
<1>11. Begun(r)
  BY <1>6, <1>9 DEF Global, Begun
<1>12. Ended(r)
  <2>1. \A k \in Machine : k # m => qq[k].coro # "over"
    BY <1>7 DEF Global, Ended
  <2>2. r[m].coro = "over" /\ r[m].token
    BY <1>2, <1>5, <1>8 DEF OnlyHolder
  <2> QED BY <1>1, <1>7, <1>9, <2>1, <2>2 DEF Ended
<1>13. ~r[Origin].isNew /\ r[Leader].coro = "over"
  BY <1>1, <1>2, <1>5, <1>6, <1>7, <1>11, <1>9 DEF Begun
<1>14. Mail(r, ch)
  BY <1>6, <1>9, <1>13 DEF Global, Mail
<1>15. Token(r, ch)
  <2>1. OnlyHolder(r, m)
    BY <1>8, <1>9 DEF OnlyHolder
  <2>2. ~r[Leader].isNew
    BY <1>1, <1>6, <1>7, <1>9
  <2> QED BY <1>1, <1>8, <2>1, <2>2 DEF Token
<1>16. Channels(ch)
  BY DEF Global
<1>17. Local(m, t)
  BY <1>1, <1>2 DEF Local
<1>18. \A k \in Machine : Local(k, r[k])
  BY <1>1, <1>17, LocalAll DEF r
<1>19. Global(r, chan')
  <2>1. CASE chan' = ch
    <3>1. Global(r, ch)
      BY <1>10, <1>11, <1>12, <1>14, <1>15, <1>16 DEF Global
    <3> QED BY <2>1, <3>1
  <2>2. CASE \E cand, best : chan' = Posted(ch, m, Migrate(cand, best))
    <3>1. PICK cand, best : chan' = Posted(ch, m, Migrate(cand, best))
      BY <2>2
    <3> DEFINE out == Migrate(cand, best)
               x == [type |-> "QUERY", state |-> "END", cand |-> cand, top |-> Nil,
                     result |-> best]
    <3>2. /\ out = [p \in Machine |-> out[p]]
          /\ \A p \in Machine : IF p = Origin THEN out[p] = <<x>> ELSE out[p] = <<>>
      BY DEF Migrate, Nothing
    <3>3. IsEnd(x) /\ ~IsToken(x)
      BY DEF IsEnd, IsToken
    <3> HIDE DEF x, out
    <3>4. /\ Outs(out)
          /\ \A p \in Machine : \A k \in DOMAIN out[p] : k = 1 /\ out[p] # <<>>
      <4>1. \A p \in Machine : out[p] = <<>> \/ \E y : out[p] = <<y>>
        BY <3>2
      <4> QED BY <3>2, <4>1, SingleOuts
    <3>5. ASSUME NEW p \in Machine, NEW k \in DOMAIN out[p]
          PROVE  p = Origin /\ out[p][k] = x
      <4>1. k = 1 /\ out[p] # <<>>
        BY <3>4
      <4>2. p = Origin /\ out[p] = <<x>>
        BY <3>2, <4>1
      <4> QED BY <4>1, <4>2
    <3>6. Mail(r, Posted(ch, m, out))
      <4>1. \A p \in Machine : \A k \in DOMAIN out[p] : out[p][k].type = "QUERY" =>
              /\ IsEnd(out[p][k]) /\ p = Origin
              /\ r[Leader].coro = "over" /\ ~r[Origin].isNew
        BY <1>13, <3>3, <3>5
      <4> QED BY <4>1, <1>14, <1>16, <3>4, MailPosted
    <3>7. Token(r, Posted(ch, m, out))
      <4>1. \A p \in Machine : \A k \in DOMAIN out[p] : ~IsToken(out[p][k])
        BY <3>3, <3>5
      <4> QED BY <4>1, <1>15, <1>16, <3>4, TokenPosted
    <3>8. Channels(Posted(ch, m, out))
      BY <1>16, <3>4, PostedSeq
    <3>9. Global(r, Posted(ch, m, out))
      BY <1>10, <1>11, <1>12, <3>6, <3>7, <3>8 DEF Global
    <3> QED BY <3>1, <3>9 DEF out
  <2>3. \/ chan' = ch
        \/ \E cand, best : chan' = Posted(ch, m, Migrate(cand, best))
    BY DEF Conclude
  <2> QED BY <2>1, <2>2, <2>3
<1> QED BY <1>4, <1>18, <1>19 DEF TokenInv

(* Every way through the loop of scala_sub_proc_v5.                        *)
LEMMA LoopKeeps ==
  ASSUME NEW m \in Machine, NEW ch, NEW s, DOMAIN q = Machine,
         NEW qq, qq = [q EXCEPT ![m] = s],
         Global(qq, ch), Others(m, qq), Running(m, s), Loop(m, s, ch)
  PROVE  TokenInv'
<1>1. s = qq[m]
  OBVIOUS
<1>2. CASE Expand(m, s, ch)
  BY <1>1, <1>2, ExpandKeeps
<1>3. CASE Requeue(m, s, ch) \/ Yield(m, s, ch)
  BY <1>1, <1>3, RequeueKeeps
<1>4. CASE Pause(m, s, ch)
  BY <1>1, <1>4, PauseKeeps
<1>5. CASE Conclude(m, s, ch)
  BY <1>1, <1>5, ConcludeKeeps
<1> QED BY <1>2, <1>3, <1>4, <1>5 DEF Loop

-----------------------------------------------------------------------------
(* The actions.                                                            *)

(* The coroutine takes in what arrived and goes through its loop.          *)
LEMMA ResumeKeeps ==
  ASSUME TokenInv, NEW m \in Machine, Resume(m)
  PROVE  TokenInv'
<1> DEFINE s == q[m]
<1>1. PICK passing : s.queued > 0 /\ s.coro = "loop" /\ Loop(m, TakeIn(m, s, passing), chan)
  BY DEF Resume
<1> DEFINE t == TakeIn(m, s, passing)
           qq == [q EXCEPT ![m] = t]
<1>2. DOMAIN q = Machine /\ Control \subseteq DOMAIN s /\ Local(m, s)
  BY DEF TokenInv, Global, Records
<1>3. s.state # "PAUSE" /\ s.queued = 1 /\ m \in Core
  BY <1>1, <1>2 DEF Local
<1>4. Same(s, t) /\ t.state = s.state /\ t.queued = s.queued - 1
  BY <1>2 DEF TakeIn, Same, Control
<1>5. Loop(m, t, chan)
  BY <1>1
<1> HIDE DEF t
<1>6. Running(m, t)
  BY <1>1, <1>3, <1>4 DEF Running, Same
<1>7. Global(qq, chan)
  BY <1>4, SameGlobal DEF TokenInv
<1>8. Others(m, qq)
  BY <1>2 DEF Others, TokenInv
<1> QED BY <1>2, <1>5, <1>6, <1>7, <1>8, LoopKeeps
(* A step of m that only works on what it has, with other channels.        *)
LEMMA PlainStep ==
  ASSUME TokenInv, NEW m \in Machine, NEW t, q' = [q EXCEPT ![m] = t],
         Same(q[m], t), Local(m, t), Global(q, chan')
  PROVE  TokenInv'
<1>1. DOMAIN q = Machine /\ Others(m, q)
  BY DEF TokenInv, Global, Records, Others
<1>2. Global([q EXCEPT ![m] = t], chan')
  BY SameGlobal
<1>3. \A n \in Machine : Local(n, [q EXCEPT ![m] = t][n])
  BY <1>1, LocalAll
<1>4. Global(q', chan') /\ \A n \in Machine : Local(n, q'[n])
  BY <1>2, <1>3
<1> QED BY <1>4 DEF TokenInv

(* A handler may wake a query, and queues it then.                         *)
LEMMA WokenSame ==
  ASSUME NEW m, NEW s, NEW u, Control \subseteq DOMAIN s, Local(m, s),
         Same(s, u), u.state = s.state, u.queued = s.queued
  PROVE  Same(s, Woken(u)) /\ Local(m, Woken(u))
<1>1. CASE u.state = "PAUSE"
  <2> DEFINE t == [u EXCEPT !.state = "POST_STAGE", !.queued = @ + 1]
  <2>1. Woken(u) = t
    BY <1>1 DEF Woken
  <2>2. s.coro = "loop" /\ s.queued = 0 /\ m \in Core /\ ~s.isNew
    BY <1>1 DEF Local
  <2>3. Same(s, t) /\ t.state = "POST_STAGE" /\ t.queued = 1
    BY <2>2 DEF Same, Control
  <2> HIDE DEF t
  <2>4. Local(m, t)
    BY <2>2, <2>3 DEF Local, Same
  <2> QED BY <2>1, <2>3, <2>4
<1>2. CASE u.state # "PAUSE"
  <2>1. Woken(u) = u
    BY <1>2 DEF Woken
  <2>2. Local(m, u)
    BY DEF Local, Same
  <2> QED BY <2>1, <2>2
<1> QED BY <1>1, <1>2

(* A handler that changes no control field and may wake the sub-query.     *)
LEMMA WokenStep ==
  ASSUME TokenInv, NEW m \in Machine, NEW u, q' = [q EXCEPT ![m] = Woken(u)],
         Same(q[m], u), u.state = q[m].state, u.queued = q[m].queued, Global(q, chan')
  PROVE  TokenInv'
<1>1. Control \subseteq DOMAIN q[m] /\ Local(m, q[m])
  BY DEF TokenInv, Global, Records
<1>2. Same(q[m], Woken(u)) /\ Local(m, Woken(u))
  BY <1>1, WokenSame
<1> QED BY <1>2, PlainStep

(* Stealing a task and returning what it found.                            *)
LEMMA StealKeeps ==
  ASSUME TokenInv, NEW m \in Machine,
         (\E n \in Vertex : Steal(m, n)) \/ (\E k \in 1 .. Thieves : StolenDone(m, k))
  PROVE  TokenInv'
<1> DEFINE s == q[m]
           t == q'[m]
<1>1. DOMAIN q = Machine /\ Control \subseteq DOMAIN s /\ Local(m, s) /\ Global(q, chan)
  BY DEF TokenInv, Global, Records
<1>2. /\ q' = [q EXCEPT ![m] = t] /\ chan' = chan
      /\ Same(s, t) /\ t.state = s.state /\ t.queued = s.queued
  <2>1. ASSUME NEW n \in Vertex, Steal(m, n)
        PROVE  /\ q' = [q EXCEPT ![m] = t] /\ chan' = chan
               /\ Same(s, t) /\ t.state = s.state /\ t.queued = s.queued
    BY <1>1, <2>1 DEF Steal, PopTask, Same, Control
  <2>2. ASSUME NEW k \in 1 .. Thieves, StolenDone(m, k)
        PROVE  /\ q' = [q EXCEPT ![m] = t] /\ chan' = chan
               /\ Same(s, t) /\ t.state = s.state /\ t.queued = s.queued
    BY <1>1, <2>2 DEF StolenDone, Same, Control
  <2> QED BY <2>1, <2>2
<1> HIDE DEF t
<1>3. Local(m, t)
  BY <1>1, <1>2 DEF Local, Same
<1>4. Global(q, chan')
  BY <1>1, <1>2
<1> QED BY <1>2, <1>3, <1>4, PlainStep

(* A remote vertex has been read.                                          *)
LEMMA ReadKeeps ==
  ASSUME TokenInv, NEW m \in Machine, NEW v \in Vertex, ReadDone(m, v)
  PROVE  TokenInv'
<1> DEFINE u == [q[m] EXCEPT !.arrived = @ \cup {v}, !.core = @ + 1]
<1>1. Control \subseteq DOMAIN q[m] /\ Global(q, chan)
  BY DEF TokenInv, Global, Records
<1>2. q' = [q EXCEPT ![m] = Woken(u)] /\ chan' = chan
  BY DEF ReadDone
<1>3. Same(q[m], u) /\ u.state = q[m].state /\ u.queued = q[m].queued
  BY <1>1 DEF Same, Control
<1> HIDE DEF u
<1>4. Global(q, chan')
  BY <1>1, <1>2
<1> QED BY <1>2, <1>3, <1>4, WokenStep

(* The query is marked as returned or deleted, once the leader is over.    *)
LEMMA EndGlobal ==
  ASSUME NEW qq, NEW ch, Global(qq, ch), NEW m \in Machine, NEW t,
         Control \subseteq DOMAIN t, qq[Leader].coro = "over",
         t.isNew = qq[m].isNew, t.coro = qq[m].coro, t.token = qq[m].token
  PROVE  Global([qq EXCEPT ![m] = t], ch)
<1> DEFINE r == [qq EXCEPT ![m] = t]
<1>1. Origin \in Machine /\ Leader \in Machine
  BY Machines, LeaderCore
<1>2. /\ DOMAIN r = Machine /\ r[m] = t
      /\ \A n \in Machine : n # m => r[n] = qq[n]
  BY DEF Global, Records
<1> HIDE DEF r
<1>3. \A n \in Machine :
        r[n].isNew = qq[n].isNew /\ r[n].coro = qq[n].coro /\ r[n].token = qq[n].token
  BY <1>2
<1>4. Records(r)
  BY <1>2, <1>3 DEF Global, Records
<1>5. Begun(r) /\ Ended(r)
  BY <1>1, <1>3 DEF Global, Begun, Ended
<1>6. Mail(r, ch)
  BY <1>1, <1>3 DEF Global, Mail
<1>7. Token(r, ch)
  <2>1. NoHolder(qq) => NoHolder(r)
    BY <1>3 DEF NoHolder
  <2>2. \A h \in Core : OnlyHolder(qq, h) => OnlyHolder(r, h)
    BY <1>3 DEF OnlyHolder
  <2> QED BY <1>1, <1>3, <2>1, <2>2 DEF Global, Token
<1> QED BY <1>4, <1>5, <1>6, <1>7 DEF Global, r

(* The caller deletes the query, which the leader has ended.               *)
LEMMA ProcResKeeps ==
  ASSUME TokenInv, ProcRes
  PROVE  TokenInv'
<1> DEFINE s == q[Origin]
           t == q'[Origin]
<1>1. DOMAIN q = Machine /\ Origin \in Machine /\ Control \subseteq DOMAIN s
  BY Machines DEF TokenInv, Global, Records
<1>2. /\ q' = [q EXCEPT ![Origin] = t] /\ chan' = chan /\ s.ret = TRUE
      /\ Control \subseteq DOMAIN t
      /\ t.isNew = s.isNew /\ t.coro = s.coro /\ t.token = s.token
      /\ t.state = s.state /\ t.queued = s.queued
  BY <1>1 DEF ProcRes, Control
<1> HIDE DEF t
<1>3. q[Leader].coro = "over"
  BY <1>1, <1>2 DEF TokenInv, Global, Ended
<1>4. Global([q EXCEPT ![Origin] = t], chan)
  BY <1>1, <1>2, <1>3, EndGlobal DEF TokenInv
<1>5. Local(Origin, t) /\ Others(Origin, q)
  BY <1>1, <1>2 DEF TokenInv, Local, Others
<1>6. \A n \in Machine : Local(n, [q EXCEPT ![Origin] = t][n])
  BY <1>1, <1>5, LocalAll
<1>7. Global(q', chan') /\ \A n \in Machine : Local(n, q'[n])
  BY <1>2, <1>4, <1>6
<1> QED BY <1>7 DEF TokenInv

(* Messages that carry neither a query nor the token.                      *)
LEMMA AnswerKeeps ==
  ASSUME TokenInv, NEW m \in Machine, NEW j \in Machine, chan[j][m] # <<>>,
         NEW msg, msg = Head(chan[j][m]),
         \/ RecvNodeSync(m, j, msg) \/ RecvResult(m, j, msg) \/ RecvNodeResult(m, j, msg)
  PROVE  TokenInv'
<1>1. Control \subseteq DOMAIN q[m] /\ DOMAIN q = Machine /\ Global(q, chan)
  BY DEF TokenInv, Global, Records
<1>2. msg.type \in {"NODE_SYNC", "RESULT", "NODE_RESULT"} /\ chan' = Popped(m, j)
  BY DEF RecvNodeSync, RecvResult, RecvNodeResult, Abort
<1>3. ~IsToken(Head(chan[j][m]))
  BY <1>2 DEF IsToken
<1>4. Global(q, Popped(m, j))
  BY <1>1, <1>3, OtherPopped
<1>5. Global(q, chan')
  BY <1>2, <1>4
<1>6. CASE q' = q
  BY <1>5, <1>6 DEF TokenInv
<1>7. CASE \E u : /\ q' = [q EXCEPT ![m] = Woken(u)]
                  /\ Same(q[m], u) /\ u.state = q[m].state /\ u.queued = q[m].queued
  BY <1>5, <1>7, WokenStep
<1>8. \/ q' = q
      \/ \E u : /\ q' = [q EXCEPT ![m] = Woken(u)]
                /\ Same(q[m], u) /\ u.state = q[m].state /\ u.queued = q[m].queued
  <2>1. CASE RecvNodeSync(m, j, msg)
    <3> DEFINE u == [q[m] EXCEPT !.micro = @ \cup msg.ngh]
    <3>1. q' = [q EXCEPT ![m] = Woken(u)]
      BY <2>1 DEF RecvNodeSync
    <3>2. Same(q[m], u) /\ u.state = q[m].state /\ u.queued = q[m].queued
      BY <1>1 DEF Same, Control
    <3> HIDE DEF u
    <3> QED BY <3>1, <3>2
  <2>2. CASE RecvResult(m, j, msg)
    <3> DEFINE u == [q[m] EXCEPT !.found = Plus(@, Ones(msg.found)),
                                 !.core = @ + msg.core, !.nocore = @ + msg.nocore]
    <3>1. q' = q \/ q' = [q EXCEPT ![m] = Woken(u)]
      BY <2>2 DEF RecvResult, Abort
    <3>2. Same(q[m], u) /\ u.state = q[m].state /\ u.queued = q[m].queued
      BY <1>1 DEF Same, Control
    <3> HIDE DEF u
    <3> QED BY <3>1, <3>2
  <2>3. CASE RecvNodeResult(m, j, msg)
    <3> DEFINE u == [q[m] EXCEPT !.found = Plus(@, Ones(msg.found)),
                                 !.core = @ + msg.core, !.nodue = @ + msg.post]
    <3>1. q' = q \/ q' = [q EXCEPT ![m] = Woken(u)]
      BY <2>3 DEF RecvNodeResult, Abort
    <3>2. Same(q[m], u) /\ u.state = q[m].state /\ u.queued = q[m].queued
      BY <1>1 DEF Same, Control
    <3> HIDE DEF u
    <3> QED BY <3>1, <3>2
  <2> QED BY <2>1, <2>2, <2>3
<1> QED BY <1>6, <1>7, <1>8

(* The answers to a request.                                               *)
LEMMA QuietAnswers ==
  ASSUME NEW m, NEW msg
  PROVE  QuietOut(And(NodeAnswers(m, msg), ListAnswers(m, msg)))
<1>1. ASSUME NEW a, NEW b, NEW c
      PROVE  /\ QuietSeq(NodeResultTo(a, b, c)) /\ QuietSeq(ResultTo(a, b, c))
             /\ QuietSeq(NodeSyncTo(a))
  BY DEF NodeResultTo, ResultTo, NodeSyncTo, Quiet, IsToken, QuietSeq
<1>2. ASSUME NEW a, NEW b, NEW c, NEW d, NEW e, NEW f
      PROVE  QuietSeq(TaskTo(a, b, c, d, e, f))
  BY DEF TaskTo, Quiet, IsToken, QuietSeq
<1>3. ASSUME NEW r, NEW w, QuietSeq(r)
      PROVE  QuietOut([Nothing EXCEPT ![w] = r])
  <2> DEFINE out == [Nothing EXCEPT ![w] = r]
  <2>1. /\ out = [p \in Machine |-> out[p]]
        /\ \A p \in Machine : out[p] = <<>> \/ out[p] = r
    BY DEF Nothing
  <2> HIDE DEF out
  <2>2. \A p \in Machine : QuietSeq(out[p])
    BY <1>3, <2>1 DEF QuietSeq
  <2>3. QuietOut(out)
    BY <2>1, <2>2, QuietSingles
  <2> QED BY <2>3 DEF out
<1>4. QuietOut(ListAnswers(m, msg))
  <2>1. \E a, b, c : ListAnswers(m, msg) = [Nothing EXCEPT ![msg.for] = ResultTo(a, b, c)]
    BY DEF ListAnswers, PostRemoteResult
  <2>2. PICK a, b, c : ListAnswers(m, msg) = [Nothing EXCEPT ![msg.for] = ResultTo(a, b, c)]
    BY <2>1
  <2>3. QuietOut([Nothing EXCEPT ![msg.for] = ResultTo(a, b, c)])
    BY <1>1, <1>3
  <2> QED BY <2>2, <2>3
<1>5. QuietOut(NodeAnswers(m, msg))
  <2> DEFINE sync(p) == IF p \in Core
                          THEN UNION {NghOn(n, p) : n \in Support(msg.nodes)} ELSE {}
             post == SumFunction([k \in Machine |-> Size(Further(m, msg, k))])
             A == [Nothing EXCEPT ![msg.for] =
                     NodeResultTo(InNode(m, msg) \ q[m].visited, Size(msg.nodes), post)]
             B == [p \in Machine |-> NodeSyncTo(sync(p))]
             C == [p \in Machine |-> TaskTo(msg.for, Nil, Further(m, msg, p), 0, FALSE, 0)]
  <2>1. NodeAnswers(m, msg) = And(A, And(B, C))
    BY DEF NodeAnswers, ResTaskSync
  <2> HIDE DEF sync, post
  <2>2. QuietOut(A)
    BY <1>1, <1>3
  <2>3. QuietOut(B)
    <3>1. B = [p \in Machine |-> B[p]] /\ \A p \in Machine : B[p] = NodeSyncTo(sync(p))
      OBVIOUS
    <3> HIDE DEF B
    <3> QED BY <1>1, <3>1, QuietSingles
  <2>4. QuietOut(C)
    <3>1. /\ C = [p \in Machine |-> C[p]]
          /\ \A p \in Machine : C[p] = TaskTo(msg.for, Nil, Further(m, msg, p), 0, FALSE, 0)
      OBVIOUS
    <3> HIDE DEF C
    <3>2. \A p \in Machine : QuietSeq(C[p])
      BY <1>2, <3>1
    <3> QED BY <3>1, <3>2, QuietSingles
  <2> HIDE DEF A, B, C
  <2>5. QuietOut(And(B, C))
    BY <2>3, <2>4, QuietAnd
  <2>6. QuietOut(And(A, And(B, C)))
    BY <2>2, <2>5, QuietAnd
  <2> QED BY <2>1, <2>6
<1> QED BY <1>4, <1>5, QuietAnd

(* A task is expanded and answered at the owner of its vertices.           *)
LEMMA TaskKeeps ==
  ASSUME TokenInv, NEW m \in Machine, NEW j \in Machine, chan[j][m] # <<>>,
         NEW msg, msg = Head(chan[j][m]), RecvTask(m, j, msg)
  PROVE  TokenInv'
<1> DEFINE t == q'[m]
           out == And(NodeAnswers(m, msg), ListAnswers(m, msg))
<1>1. /\ Control \subseteq DOMAIN q[m] /\ DOMAIN q = Machine /\ Global(q, chan)
      /\ Local(m, q[m])
  BY DEF TokenInv, Global, Records
<1>2. ~IsToken(Head(chan[j][m]))
  BY DEF RecvTask, IsToken
<1>3. Global(q, Popped(m, j))
  BY <1>1, <1>2, OtherPopped
<1>4. chan' = Posted(Popped(m, j), m, out)
  BY DEF RecvTask
<1>5. QuietOut(out)
  BY QuietAnswers
<1>6. /\ q' = [q EXCEPT ![m] = t]
      /\ Same(q[m], t) /\ t.state = q[m].state /\ t.queued = q[m].queued
  BY <1>1 DEF RecvTask, Same, Control
<1> HIDE DEF t, out
<1>7. Global(q, chan')
  <2>1. Global(q, Posted(Popped(m, j), m, out))
    BY <1>3, <1>5, QuietPosted
  <2> QED BY <1>4, <2>1
<1>8. Local(m, t)
  BY <1>1, <1>6 DEF Local, Same
<1> QED BY <1>6, <1>7, <1>8, PlainStep

(* A message to a deleted query is dropped: it is not the token, which the *)
(* leader has kept.                                                        *)
LEMMA LateKeeps ==
  ASSUME TokenInv, NEW m \in Machine, NEW j \in Machine, chan[j][m] # <<>>, RecvLate(m, j)
  PROVE  TokenInv'
<1>1. q[m].freed = TRUE /\ chan' = Popped(m, j) /\ q' = q
  BY DEF RecvLate
<1>2. Leader \in Machine /\ q[Leader].coro = "over"
  BY <1>1, LeaderCore DEF TokenInv, Global, Ended
<1>3. Leader \in Core /\ q[Leader].token
  BY <1>2 DEF TokenInv, Global, Ended
<1>4. OnlyHolder(q, Leader)
  BY <1>2, <1>3, HolderAlone DEF TokenInv, Global
<1>5. Global(q, Popped(m, j))
  BY <1>3, <1>4, OtherPopped DEF TokenInv
<1>6. Global(q, chan')
  BY <1>1, <1>5
<1> QED BY <1>1, <1>6 DEF TokenInv
(* A SYNC: with the token, m becomes its only holder.                      *)
LEMMA SyncKeeps ==
  ASSUME TokenInv, NEW m \in Machine, NEW j \in Machine, chan[j][m] # <<>>,
         NEW msg, msg = Head(chan[j][m]), RecvSync(m, j, msg)
  PROVE  TokenInv'
<1>1. /\ Control \subseteq DOMAIN q[m] /\ DOMAIN q = Machine /\ Global(q, chan)
      /\ Local(m, q[m]) /\ q[m].token \in BOOLEAN
  BY DEF TokenInv, Global, Records
<1>2. PICK top : q' = [q EXCEPT ![m] = Woken([q[m] EXCEPT
                   !.token = @ \/ msg.token,
                   !.tokenBlack = IF msg.token THEN msg.black ELSE @,
                   !.top = top, !.micro = @ \cup msg.ngh])]
  BY DEF RecvSync
<1>3. msg.type = "SYNC" /\ chan' = Popped(m, j)
  BY DEF RecvSync
<1> DEFINE u == [q[m] EXCEPT
                   !.token = @ \/ msg.token,
                   !.tokenBlack = IF msg.token THEN msg.black ELSE @,
                   !.top = top, !.micro = @ \cup msg.ngh]
<1>4. /\ Control \subseteq DOMAIN u
      /\ u.isNew = q[m].isNew /\ u.coro = q[m].coro
      /\ u.ret = q[m].ret /\ u.freed = q[m].freed
      /\ u.state = q[m].state /\ u.queued = q[m].queued
      /\ u.token = (q[m].token \/ msg.token)
  BY <1>1 DEF Control
<1>5. q' = [q EXCEPT ![m] = Woken(u)]
  BY <1>2
<1> HIDE DEF u
<1>6. CASE ~msg.token
  <2>1. ~IsToken(Head(chan[j][m]))
    BY <1>6 DEF IsToken
  <2>2. Global(q, Popped(m, j))
    BY <1>1, <2>1, OtherPopped
  <2>3. u.token = q[m].token
    BY <1>1, <1>4, <1>6
  <2>4. Same(q[m], u)
    BY <1>4, <2>3 DEF Same
  <2>5. Global(q, chan')
    BY <1>3, <2>2
  <2> QED BY <1>4, <1>5, <2>4, <2>5, WokenStep
<1>7. CASE msg.token
  <2> DEFINE P == Popped(m, j)
             w == [q EXCEPT ![m] = u]
  <2>1. u.token = TRUE
    BY <1>1, <1>4, <1>7
  <2>2. /\ Channels(P)
        /\ 1 \in DOMAIN chan[j][m] /\ Head(chan[j][m]) = chan[j][m][1]
        /\ \A a, b \in Machine : ~(a = j /\ b = m) => P[a][b] = chan[a][b]
        /\ \A k \in DOMAIN P[j][m] :
             k + 1 \in DOMAIN chan[j][m] /\ P[j][m][k] = chan[j][m][k + 1] /\ k \in Nat \ {0}
    BY <1>1, PoppedSeq DEF Global
  <2> HIDE DEF P
  <2>3. IsToken(chan[j][m][1])
    BY <1>3, <1>7, <2>2 DEF IsToken
  <2>4. /\ Core # {} /\ ~q[Leader].isNew /\ NoHolder(q)
        /\ \E a, b \in Core : a # b /\ \E k \in DOMAIN chan[a][b] : OnlySent(chan, a, b, k)
    BY <1>1, <2>2, <2>3 DEF Global, Token, NoneSent
  <2>5. PICK a, b \in Core : \E k \in DOMAIN chan[a][b] : OnlySent(chan, a, b, k)
    BY <2>4
  <2>6. PICK k \in DOMAIN chan[a][b] : OnlySent(chan, a, b, k)
    BY <2>5
  <2>7. j = a /\ m = b /\ k = 1
    BY <2>2, <2>3, <2>6 DEF OnlySent
  <2>8. NoneSent(P)
    <3> SUFFICES ASSUME NEW c \in Machine, NEW d \in Machine, NEW i \in DOMAIN P[c][d],
                        IsToken(P[c][d][i])
                 PROVE  FALSE
      BY DEF NoneSent
    <3>1. CASE ~(c = j /\ d = m)
      <4>1. P[c][d] = chan[c][d]
        BY <3>1, <2>2
      <4> QED BY <3>1, <4>1, <2>6, <2>7 DEF OnlySent
    <3>2. CASE c = j /\ d = m
      <4>1. i + 1 \in DOMAIN chan[c][d] /\ P[c][d][i] = chan[c][d][i + 1] /\ i \in Nat \ {0}
        BY <3>2, <2>2
      <4>2. i + 1 = 1
        BY <4>1, <2>6, <2>7 DEF OnlySent
      <4> QED BY <4>1, <4>2
    <3> QED BY <3>1, <3>2
  <2>9. /\ DOMAIN w = Machine /\ w[m] = u
        /\ \A n \in Machine : n # m => w[n] = q[n]
    BY <1>1
  <2> HIDE DEF w
  <2>10. \A n \in Machine :
           /\ w[n].isNew = q[n].isNew /\ w[n].coro = q[n].coro
           /\ w[n].ret = q[n].ret /\ w[n].freed = q[n].freed
    BY <1>4, <2>9
  <2>11. Origin \in Machine /\ Leader \in Machine
    BY Machines, LeaderCore
  <2>12. Records(w)
    BY <1>1, <1>4, <2>1, <2>9, <2>10 DEF Global, Records
  <2>13. Begun(w)
    BY <1>1, <2>10, <2>11 DEF Global, Begun
  <2>14. Ended(w)
    <3>1. \A n \in Machine : q[n].coro # "over"
      BY <1>1, <2>4 DEF Global, Ended, NoHolder
    <3> QED BY <1>1, <2>10, <2>11, <3>1 DEF Global, Ended
  <2>15. Mail(w, P)
    <3>1. Mail(q, P)
      BY <1>1, MailPopped DEF Global, P
    <3> QED BY <2>10, <2>11, <3>1 DEF Mail
  <2>16. Token(w, P)
    <3>1. OnlyHolder(w, m) /\ m \in Core
      BY <2>1, <2>4, <2>7, <2>9 DEF OnlyHolder, NoHolder
    <3> QED BY <2>4, <2>8, <2>10, <2>11, <3>1 DEF Token
  <2>17. Global(w, P)
    BY <2>2, <2>12, <2>13, <2>14, <2>15, <2>16 DEF Global
  <2>18. Same(u, u) /\ Local(m, u)
    BY <1>1, <1>4 DEF Same, Local
  <2>19. Same(w[m], Woken(u)) /\ Local(m, Woken(u))
    <3>1. Same(u, Woken(u)) /\ Local(m, Woken(u))
      BY <1>4, <2>18, WokenSame
    <3> QED BY <2>9, <3>1
  <2>20. Global([w EXCEPT ![m] = Woken(u)], P)
    BY <2>17, <2>19, SameGlobal
  <2>21. [w EXCEPT ![m] = Woken(u)] = [q EXCEPT ![m] = Woken(u)]
    BY Replaced DEF w
  <2>22. Others(m, q)
    BY DEF Others, TokenInv
  <2>23. \A n \in Machine : Local(n, [q EXCEPT ![m] = Woken(u)][n])
    BY <1>1, <2>19, <2>22, LocalAll
  <2>24. Global(q', chan') /\ \A n \in Machine : Local(n, q'[n])
    BY <1>3, <1>5, <2>20, <2>21, <2>23 DEF P
  <2> QED BY <2>24 DEF TokenInv
<1> QED BY <1>6, <1>7
(* The end of the query at its origin.                                     *)
LEMMA EndKeeps ==
  ASSUME TokenInv, NEW m \in Machine, NEW j \in Machine, chan[j][m] # <<>>,
         NEW msg, msg = Head(chan[j][m]), msg.type = "QUERY", ~q[m].isNew,
         RecvQuery(m, j, msg)
  PROVE  TokenInv'
<1>1. /\ Control \subseteq DOMAIN q[m] /\ DOMAIN q = Machine /\ Global(q, chan)
      /\ Local(m, q[m]) /\ q[m].isNew \in BOOLEAN
  BY DEF TokenInv, Global, Records
<1>2. 1 \in DOMAIN chan[j][m] /\ msg = chan[j][m][1]
  BY <1>1, PoppedSeq DEF Global
<1>3. msg.state = "END" /\ q[Leader].coro = "over"
  BY <1>1, <1>2 DEF Global, Mail, IsFork, IsEnd
<1> DEFINE s == Deserialized(q[m], msg)
           t == [s EXCEPT !.ret = TRUE]
<1>4. /\ Control \subseteq DOMAIN s
      /\ s.isNew = q[m].isNew /\ s.coro = q[m].coro /\ s.token = q[m].token
      /\ s.queued = q[m].queued /\ s.state = "END"
  BY <1>1, <1>3 DEF Deserialized, Control
<1>5. q' = [q EXCEPT ![m] = t] /\ chan' = Popped(m, j)
  <2>1. ~s.isNew
    BY <1>1, <1>4
  <2> HIDE DEF s
  <2> QED BY <2>1 DEF RecvQuery, s
<1> HIDE DEF s
<1>6. /\ Control \subseteq DOMAIN t
      /\ t.isNew = q[m].isNew /\ t.coro = q[m].coro /\ t.token = q[m].token
      /\ t.queued = q[m].queued /\ t.state = "END"
  BY <1>4 DEF Control
<1> HIDE DEF t
<1>7. ~IsToken(Head(chan[j][m]))
  BY DEF IsToken
<1>8. Global(q, Popped(m, j))
  BY <1>1, <1>7, OtherPopped
<1>9. Global([q EXCEPT ![m] = t], Popped(m, j))
  BY <1>3, <1>6, <1>8, EndGlobal
<1>10. Local(m, t) /\ Others(m, q)
  BY <1>1, <1>6 DEF TokenInv, Local, Others
<1>11. \A n \in Machine : Local(n, [q EXCEPT ![m] = t][n])
  BY <1>1, <1>10, LocalAll
<1>12. Global(q', chan') /\ \A n \in Machine : Local(n, q'[n])
  BY <1>5, <1>9, <1>11
<1> QED BY <1>12 DEF TokenInv

(* The start of a forked sub-query; the leader gets the token.             *)
LEMMA ForkedKeeps ==
  ASSUME TokenInv, NEW m \in Machine, NEW j \in Machine, chan[j][m] # <<>>,
         NEW msg, msg = Head(chan[j][m]), msg.type = "QUERY", q[m].isNew,
         RecvQuery(m, j, msg)
  PROVE  TokenInv'
<1>1. /\ Control \subseteq DOMAIN q[m] /\ DOMAIN q = Machine /\ Global(q, chan)
      /\ Local(m, q[m]) /\ q[m].isNew = TRUE /\ q[m].token \in BOOLEAN
      /\ q[m].coro = "none" /\ q[m].queued = 0
  BY DEF TokenInv, Global, Records, Local
<1> DEFINE P == Popped(m, j)
<1>2. /\ Channels(P)
      /\ 1 \in DOMAIN chan[j][m] /\ msg = chan[j][m][1]
      /\ \A a, b \in Machine : ~(a = j /\ b = m) => P[a][b] = chan[a][b]
      /\ \A k \in DOMAIN P[j][m] :
           k + 1 \in DOMAIN chan[j][m] /\ P[j][m][k] = chan[j][m][k + 1] /\ k \in Nat \ {0}
  BY <1>1, PoppedSeq DEF Global
<1>3. ~q[Origin].isNew /\ (IsFork(msg) \/ IsEnd(msg))
  BY <1>1, <1>2 DEF Global, Mail
<1>4. IsEnd(msg) => m = Origin
  BY <1>1, <1>2 DEF Global, Mail
<1>5. /\ m # Origin /\ j = Origin /\ m \in Core
      /\ \A l \in DOMAIN chan[j][m] : IsFork(chan[j][m][l]) => l = 1
  <2>1. m # Origin
    BY <1>1, <1>3
  <2>2. IsFork(msg)
    BY <1>3, <1>4, <2>1
  <2> QED BY <1>1, <1>2, <2>1, <2>2 DEF Global, Mail
<1> DEFINE s == Deserialized(q[m], msg)
           u == [s EXCEPT !.isNew = FALSE, !.token = @ \/ m = Leader]
           t == [u EXCEPT !.state = "POST_STAGE", !.coro = "loop", !.due = 0, !.nodue = 0]
<1>6. /\ Control \subseteq DOMAIN s /\ s.isNew = TRUE /\ s.token = q[m].token
      /\ s.queued = 0 /\ s.ret = q[m].ret /\ s.freed = q[m].freed
  BY <1>1 DEF Deserialized, Control
<1>7. Loop(m, t, P)
  <2>1. s.isNew
    BY <1>6
  <2>2. PostStage(m, u, P)
    <3> HIDE DEF s
    <3> QED BY <2>1 DEF RecvQuery, s
  <2> HIDE DEF u, P
  <2> QED BY <2>2 DEF PostStage
<1> HIDE DEF s
<1>8. /\ Control \subseteq DOMAIN u /\ u.isNew = FALSE /\ u.queued = 0
      /\ u.token = (q[m].token \/ m = Leader)
      /\ u.ret = q[m].ret /\ u.freed = q[m].freed
  BY <1>6 DEF Control
<1> HIDE DEF u
<1>9. /\ Control \subseteq DOMAIN t /\ t.isNew = FALSE /\ t.queued = 0
      /\ t.token = (q[m].token \/ m = Leader) /\ t.coro = "loop"
      /\ t.ret = q[m].ret /\ t.freed = q[m].freed /\ t.state = "POST_STAGE"
  BY <1>8 DEF Control
<1> DEFINE r == [q EXCEPT ![m] = t]
<1> HIDE DEF t, P
<1>10. /\ DOMAIN r = Machine /\ r[m] = t
       /\ \A n \in Machine : n # m => r[n] = q[n]
  BY <1>1
<1>11. Running(m, t)
  BY <1>5, <1>9 DEF Running
<1>12. Others(m, r)
  BY <1>10 DEF Others, TokenInv
<1> HIDE DEF r
<1>13. Origin \in Machine /\ Leader \in Machine /\ Leader \in Core
  BY <1>5, Machines, LeaderCore
<1>14. Records(r)
  <2>1. t.token \in BOOLEAN
    BY <1>9
  <2> QED BY <1>1, <1>9, <1>10, <2>1 DEF Global, Records
<1>15. Begun(r)
  BY <1>3, <1>5, <1>10, <1>13 DEF Begun
<1>16. Ended(r)
  <2>1. \A n \in Machine : r[n].ret = q[n].ret /\ r[n].freed = q[n].freed
    BY <1>9, <1>10
  <2>2. q[Leader].coro = "over" => Leader # m
    BY <1>1
  <2>3. \A n \in Machine : r[n].coro = "over" => n # m /\ q[n].coro = "over" /\ r[n] = q[n]
    BY <1>9, <1>10
  <2> QED BY <1>1, <1>10, <1>13, <2>1, <2>2, <2>3 DEF Global, Ended
<1>17. Mail(r, P)
  <2>1. Mail(q, P)
    BY <1>1, MailPopped DEF Global, P
  <2>2. ASSUME NEW a \in Machine, NEW k \in DOMAIN P[a][m], IsFork(P[a][m][k]) PROVE FALSE
    <3>1. a = j
      BY <1>5, <2>1, <2>2 DEF Mail
    <3>2. k + 1 \in DOMAIN chan[j][m] /\ P[j][m][k] = chan[j][m][k + 1] /\ k \in Nat \ {0}
      BY <1>2, <3>1
    <3>3. k + 1 = 1
      BY <1>5, <2>2, <3>1, <3>2
    <3> QED BY <3>2, <3>3
  <2>3. q[Leader].coro = "over" => r[Leader].coro = "over"
    BY <1>1, <1>10, <1>13
  <2>4. r[Origin] = q[Origin]
    BY <1>5, <1>10, <1>13
  <2> QED BY <1>10, <2>1, <2>2, <2>3, <2>4 DEF Mail
<1>18. Token(r, P)
  <2>1. ~IsToken(Head(chan[j][m]))
    BY DEF IsToken
  <2>2. Token(q, P)
    BY <1>1, <2>1, OtherPopped DEF Global, P
  <2>3. CASE m = Leader
    <3>1. NoHolder(q) /\ NoneSent(P)
      BY <1>1, <2>2, <2>3 DEF Token
    <3>2. OnlyHolder(r, Leader)
      BY <1>9, <1>10, <2>3, <3>1 DEF NoHolder, OnlyHolder
    <3>3. ~r[Leader].isNew
      BY <1>9, <1>10, <2>3
    <3> QED BY <1>13, <3>1, <3>2, <3>3 DEF Token
  <2>4. CASE m # Leader
    <3>1. t.token = q[m].token
      BY <1>1, <1>9, <2>4
    <3>2. r[Leader] = q[Leader] /\ \A n \in Machine : r[n].token = q[n].token
      BY <1>10, <1>13, <2>4, <3>1
    <3>3. NoHolder(q) => NoHolder(r)
      BY <3>2 DEF NoHolder
    <3>4. \A h \in Core : OnlyHolder(q, h) => OnlyHolder(r, h)
      BY <3>2 DEF OnlyHolder
    <3> QED BY <2>2, <3>2, <3>3, <3>4 DEF Token
  <2> QED BY <2>3, <2>4
<1>19. Global(r, P)
  BY <1>2, <1>14, <1>15, <1>16, <1>17, <1>18 DEF Global
<1> QED BY <1>1, <1>7, <1>11, <1>12, <1>19, LoopKeeps DEF r
(* The forks of the origin.                                                *)
LEMMA StartGlobal ==
  ASSUME TokenInv, q[Origin].isNew, NEW top, NEW t, Control \subseteq DOMAIN t,
         t.isNew = FALSE, t.coro \in {"loop", "wait"},
         t.token = (Origin \in Core /\ Origin = Leader),
         t.ret = q[Origin].ret, t.freed = q[Origin].freed
  PROVE  Global([q EXCEPT ![Origin] = t], Posted(chan, Origin, Forks(Origin, top)))
<1> DEFINE out == Forks(Origin, top)
           P == Posted(chan, Origin, out)
           r == [q EXCEPT ![Origin] = t]
           x(p) == [type |-> "QUERY", state |-> "PRE_STAGE", cand |-> Ones(Filtered(p)),
                    top |-> top, result |-> Nil]
<1>1. /\ Origin \in Machine /\ Leader \in Machine /\ Core \subseteq Machine
      /\ Core # {} => Leader \in Core
  BY Machines, LeaderCore
<1>2. DOMAIN q = Machine /\ Channels(chan) /\ Mail(q, chan) /\ Token(q, chan) /\ Ended(q)
  BY DEF TokenInv, Global, Records
<1>3. \A n \in Machine : q[n].isNew = TRUE /\ q[n].coro = "none"
  BY DEF TokenInv, Global, Records, Begun
<1>4. NoHolder(q) /\ NoneSent(chan)
  BY <1>1, <1>2, <1>3 DEF Token
<1>5. /\ DOMAIN r = Machine /\ r[Origin] = t
      /\ \A n \in Machine : n # Origin => r[n] = q[n]
  BY <1>1, <1>2
<1>6. /\ out = [p \in Machine |-> out[p]]
      /\ \A p \in Machine : IF p \in Core \ {Origin} THEN out[p] = <<x(p)>> ELSE out[p] = <<>>
  BY DEF Forks, ForkQuery
<1>7. \A p : IsFork(x(p)) /\ ~IsEnd(x(p)) /\ ~IsToken(x(p))
  BY DEF IsFork, IsEnd, IsToken
<1> HIDE DEF out, r, x
<1>8. /\ Outs(out)
      /\ \A p \in Machine : \A k \in DOMAIN out[p] : k = 1 /\ out[p] # <<>>
  <2>1. \A p \in Machine : out[p] = <<>> \/ \E y : out[p] = <<y>>
    BY <1>6
  <2> QED BY <1>6, <2>1, SingleOuts
<1>9. ASSUME NEW p \in Machine, NEW k \in DOMAIN out[p]
      PROVE  k = 1 /\ p \in Core \ {Origin} /\ out[p][k] = x(p)
  <2>1. k = 1 /\ out[p] # <<>>
    BY <1>8
  <2>2. p \in Core \ {Origin} /\ out[p] = <<x(p)>>
    BY <1>6, <2>1
  <2> QED BY <2>1, <2>2
<1>10. Channels(P)
  BY <1>1, <1>2, <1>8, PostedSeq
<1>11. ASSUME NEW a \in Machine, NEW b \in Machine, NEW k \in DOMAIN P[a][b]
       PROVE  \/ k \in DOMAIN chan[a][b] /\ P[a][b][k] = chan[a][b][k]
              \/ /\ a = Origin /\ b \in Core \ {Origin} /\ k = Len(chan[Origin][b]) + 1
                 /\ P[a][b][k] = x(b)
  <2> HIDE DEF P
  <2>1. \/ k \in DOMAIN chan[a][b] /\ P[a][b][k] = chan[a][b][k]
        \/ \E l \in DOMAIN out[b] :
             a = Origin /\ k = Len(chan[Origin][b]) + l /\ P[a][b][k] = out[b][l]
    BY <1>1, <1>2, <1>8, PostedCases DEF P
  <2> QED BY <1>9, <2>1
<1> HIDE DEF P
<1>12. \A a, b \in Machine : \A k \in DOMAIN chan[a][b] : chan[a][b][k].type # "QUERY"
  BY <1>2 DEF Mail
<1>13. Records(r)
  <2>1. t.token \in BOOLEAN
    OBVIOUS
  <2> QED BY <1>5, <2>1 DEF TokenInv, Global, Records
<1>14. Begun(r)
  BY <1>1, <1>5 DEF Begun
<1>15. Ended(r)
  <2>1. \A n \in Machine : r[n].coro # "over"
    BY <1>3, <1>5
  <2>2. \A n \in Machine : r[n].ret = q[n].ret /\ r[n].freed = q[n].freed
    BY <1>5
  <2>3. \A n \in Machine : ~(q[n].ret = TRUE \/ q[n].freed = TRUE)
    BY <1>1, <1>2, <1>3 DEF Ended
  <2> QED BY <2>1, <2>2, <2>3 DEF Ended
<1>16. Mail(r, P)
  <2>1. ASSUME NEW a \in Machine, NEW b \in Machine, NEW k \in DOMAIN P[a][b],
               P[a][b][k].type = "QUERY"
        PROVE  /\ a = Origin /\ b \in Core \ {Origin} /\ k = Len(chan[Origin][b]) + 1
               /\ P[a][b][k] = x(b)
    BY <1>11, <1>12, <2>1
  <2>2. \A b \in Core \ {Origin} : r[b].isNew
    BY <1>1, <1>3, <1>5
  <2>3. ~r[Origin].isNew
    BY <1>5
  <2> SUFFICES ASSUME NEW a \in Machine, NEW b \in Machine,
                      NEW k \in DOMAIN P[a][b], P[a][b][k].type = "QUERY"
               PROVE  /\ ~r[Origin].isNew
                      /\ IsFork(P[a][b][k]) \/ IsEnd(P[a][b][k])
                      /\ IsFork(P[a][b][k]) =>
                           /\ a = Origin /\ b \in Core /\ r[b].isNew
                           /\ \A l \in DOMAIN P[a][b] : IsFork(P[a][b][l]) => l = k
                      /\ IsEnd(P[a][b][k]) => b = Origin /\ r[Leader].coro = "over"
    BY DEF Mail, IsFork, IsEnd
  <2>4. /\ a = Origin /\ b \in Core \ {Origin} /\ k = Len(chan[Origin][b]) + 1
        /\ P[a][b][k] = x(b)
    BY <2>1
  <2>5. \A l \in DOMAIN P[a][b] : IsFork(P[a][b][l]) => l = k
    BY <2>1, <2>4 DEF IsFork
  <2> QED BY <1>7, <2>2, <2>3, <2>4, <2>5
<1>17. Token(r, P)
  <2>1. NoneSent(P)
    BY <1>4, <1>7, <1>11 DEF NoneSent
  <2>2. CASE Core # {} /\ Origin = Leader
    <3>1. OnlyHolder(r, Leader)
      BY <1>1, <1>4, <1>5, <2>2 DEF NoHolder, OnlyHolder
    <3>2. ~r[Leader].isNew
      BY <1>5, <2>2
    <3> QED BY <1>1, <2>1, <2>2, <3>1, <3>2 DEF Token
  <2>3. CASE ~(Core # {} /\ Origin = Leader)
    <3>1. NoHolder(r)
      BY <1>1, <1>4, <1>5, <2>3 DEF NoHolder
    <3>2. Core = {} \/ r[Leader].isNew
      BY <1>1, <1>3, <1>5, <2>3
    <3> QED BY <2>1, <3>1, <3>2 DEF Token
  <2> QED BY <2>2, <2>3
<1>18. Global(r, P)
  BY <1>10, <1>13, <1>14, <1>15, <1>16, <1>17 DEF Global
<1> QED BY <1>18 DEF r, P, out

(* The origin starts its query and forks the core machines.                *)
LEMMA StartKeeps ==
  ASSUME TokenInv, Start
  PROVE  TokenInv'
<1> DEFINE m == Origin
           s == [q[m] EXCEPT !.isNew = FALSE, !.state = "PRE_STAGE",
                             !.top = Ones(PreTop), !.visited = {}]
           ch == Posted(chan, m, Forks(m, s.top))
<1>1. /\ q[m].isNew /\ m \in Machine /\ DOMAIN q = Machine
      /\ Control \subseteq DOMAIN q[m] /\ Local(m, q[m]) /\ Others(m, q)
  BY Machines DEF TokenInv, Global, Records, Others, Start
<1>2. q[m].token = FALSE /\ q[m].queued = 0
  <2>1. q[m].coro = "none" /\ q[m].token \in BOOLEAN
    BY <1>1 DEF TokenInv, Global, Records
  <2>2. q[Leader].isNew
    BY <1>1, LeaderCore DEF TokenInv, Global, Begun
  <2>3. NoHolder(q)
    BY <2>2 DEF TokenInv, Global, Token
  <2> QED BY <1>1, <2>1, <2>3 DEF NoHolder, Local
<1>3. /\ Control \subseteq DOMAIN s /\ s.isNew = FALSE /\ s.state = "PRE_STAGE"
      /\ s.token = FALSE /\ s.queued = 0
      /\ s.ret = q[m].ret /\ s.freed = q[m].freed
  BY <1>1, <1>2 DEF Control
<1>4. \/ /\ m \in Core
         /\ PostStage(m, [s EXCEPT !.cand = Ones(Filtered(m)), !.token = (m = Leader)], ch)
      \/ /\ m \notin Core
         /\ q' = [q EXCEPT ![m] = [s EXCEPT !.coro = "wait"]]
         /\ chan' = ch
  BY DEF Start
<1> HIDE DEF s
<1>5. CASE /\ m \in Core
           /\ PostStage(m, [s EXCEPT !.cand = Ones(Filtered(m)), !.token = (m = Leader)], ch)
  <2> DEFINE u == [s EXCEPT !.cand = Ones(Filtered(m)), !.token = (m = Leader)]
             t == [u EXCEPT !.state = "POST_STAGE", !.coro = "loop", !.due = 0, !.nodue = 0]
             r == [q EXCEPT ![m] = t]
  <2>1. Loop(m, t, ch)
    <3> HIDE DEF u, ch
    <3>1. PostStage(m, u, ch)
      BY <1>5 DEF u
    <3> QED BY <3>1 DEF PostStage
  <2>2. /\ Control \subseteq DOMAIN u /\ u.isNew = FALSE
        /\ u.token = (m = Leader) /\ u.queued = 0
        /\ u.ret = q[m].ret /\ u.freed = q[m].freed
    BY <1>3 DEF Control
  <2> HIDE DEF u
  <2>3. /\ Control \subseteq DOMAIN t /\ t.isNew = FALSE /\ t.coro = "loop"
        /\ t.token = (m = Leader) /\ t.queued = 0 /\ t.state = "POST_STAGE"
        /\ t.ret = q[m].ret /\ t.freed = q[m].freed
    BY <2>2 DEF Control
  <2> HIDE DEF t
  <2>4. t.token = (Origin \in Core /\ Origin = Leader) /\ t.coro \in {"loop", "wait"}
    BY <1>5, <2>3
  <2>5. Global(r, ch)
    BY <1>1, <2>3, <2>4, StartGlobal
  <2>6. Running(m, t) /\ Others(m, r)
    BY <1>1, <1>5, <2>3 DEF Running, Others
  <2> QED BY <1>1, <2>1, <2>5, <2>6, LoopKeeps
<1>6. CASE /\ m \notin Core
           /\ q' = [q EXCEPT ![m] = [s EXCEPT !.coro = "wait"]]
           /\ chan' = ch
  <2> DEFINE t == [s EXCEPT !.coro = "wait"]
  <2>1. /\ Control \subseteq DOMAIN t /\ t.isNew = FALSE /\ t.coro = "wait"
        /\ t.token = FALSE /\ t.queued = 0 /\ t.state = "PRE_STAGE"
        /\ t.ret = q[m].ret /\ t.freed = q[m].freed
    BY <1>3 DEF Control
  <2> HIDE DEF t
  <2>2. t.token = (Origin \in Core /\ Origin = Leader) /\ t.coro \in {"loop", "wait"}
    BY <1>6, <2>1
  <2>3. Global([q EXCEPT ![m] = t], ch)
    BY <1>1, <2>1, <2>2, StartGlobal
  <2>4. Local(m, t)
    BY <2>1 DEF Local
  <2>5. \A n \in Machine : Local(n, [q EXCEPT ![m] = t][n])
    BY <1>1, <2>4, LocalAll
  <2>6. Global(q', chan') /\ \A n \in Machine : Local(n, q'[n])
    BY <1>6, <2>3, <2>5 DEF t
  <2> QED BY <2>6 DEF TokenInv
<1> QED BY <1>4, <1>5, <1>6
-----------------------------------------------------------------------------
(* Nothing has started: no token, no messages.                             *)
LEMMA InitToken == Init => TokenInv
<1> SUFFICES ASSUME Init PROVE TokenInv
  OBVIOUS
<1>1. PICK g : q = [m \in Machine |-> NewQuery(g[m])]
  BY DEF Init
<1>2. ASSUME NEW x
      PROVE  /\ Control \subseteq DOMAIN NewQuery(x)
             /\ NewQuery(x).state = "START" /\ NewQuery(x).isNew = TRUE
             /\ NewQuery(x).coro = "none" /\ NewQuery(x).queued = 0
             /\ NewQuery(x).ret = FALSE /\ NewQuery(x).freed = FALSE
             /\ NewQuery(x).token = FALSE
  BY DEF NewQuery, Control
<1>3. /\ DOMAIN q = Machine
      /\ \A m \in Machine :
           /\ Control \subseteq DOMAIN q[m]
           /\ q[m].state = "START" /\ q[m].isNew = TRUE /\ q[m].coro = "none"
           /\ q[m].queued = 0 /\ q[m].ret = FALSE /\ q[m].freed = FALSE
           /\ q[m].token = FALSE
  BY <1>1, <1>2
<1>4. chan = [i \in Machine |-> [j \in Machine |-> <<>>]]
  BY DEF Init
<1>5. Channels(chan)
  <2>1. chan \in [Machine -> [Machine -> Seq({})]]
    BY <1>4
  <2> QED BY <2>1 DEF Channels
<1>6. \A i, j \in Machine : \A k \in DOMAIN chan[i][j] : FALSE
  BY <1>4
<1>7. Mail(q, chan) /\ NoneSent(chan)
  BY <1>6 DEF Mail, NoneSent
<1>8. Records(q) /\ Begun(q) /\ Ended(q) /\ NoHolder(q)
  BY <1>3 DEF Records, Begun, Ended, NoHolder
<1>9. Token(q, chan)
  BY <1>3, <1>7, <1>8, LeaderCore DEF Token
<1>10. \A m \in Machine : Local(m, q[m])
  BY <1>3 DEF Local
<1> QED BY <1>5, <1>7, <1>8, <1>9, <1>10 DEF TokenInv, Global

(* Every action keeps the token invariant.                                 *)
LEMMA NextToken == TokenInv /\ [Next]_vars => TokenInv'
<1> SUFFICES ASSUME TokenInv, [Next]_vars PROVE TokenInv'
  OBVIOUS
<1>1. CASE Start
  BY <1>1, StartKeeps
<1>2. CASE ProcRes
  BY <1>2, ProcResKeeps
<1>3. ASSUME NEW m \in Machine, Resume(m) PROVE TokenInv'
  BY <1>3, ResumeKeeps
<1>4. ASSUME NEW m \in Machine, NEW v \in Vertex, Steal(m, v) PROVE TokenInv'
  BY <1>4, StealKeeps
<1>5. ASSUME NEW m \in Machine, NEW k \in 1 .. Thieves, StolenDone(m, k) PROVE TokenInv'
  BY <1>5, StealKeeps
<1>6. ASSUME NEW m \in Machine, NEW v \in Vertex, ReadDone(m, v) PROVE TokenInv'
  BY <1>6, ReadKeeps
<1>7. ASSUME NEW m \in Machine, NEW j \in Machine, Recv(m, j) PROVE TokenInv'
  <2> DEFINE msg == Head(chan[j][m])
  <2>1. chan[j][m] # <<>>
    BY <1>7 DEF Recv
  <2>2. CASE RecvLate(m, j)
    BY <2>1, <2>2, LateKeeps
  <2>3. CASE RecvQuery(m, j, msg)
    <3>1. msg.type = "QUERY"
      BY <2>3 DEF RecvQuery
    <3>2. CASE q[m].isNew
      BY <2>1, <2>3, <3>1, <3>2, ForkedKeeps
    <3>3. CASE ~q[m].isNew
      BY <2>1, <2>3, <3>1, <3>3, EndKeeps
    <3> QED BY <3>2, <3>3
  <2>4. CASE RecvSync(m, j, msg)
    BY <2>1, <2>4, SyncKeeps
  <2>5. CASE RecvTask(m, j, msg)
    BY <2>1, <2>5, TaskKeeps
  <2>6. CASE RecvNodeSync(m, j, msg) \/ RecvResult(m, j, msg) \/ RecvNodeResult(m, j, msg)
    BY <2>1, <2>6, AnswerKeeps
  <2> QED BY <1>7, <2>2, <2>3, <2>4, <2>5, <2>6 DEF Recv
<1>8. CASE UNCHANGED vars
  <2>1. q' = q /\ chan' = chan
    BY <1>8 DEF vars
  <2> QED BY <2>1 DEF TokenInv
<1> QED BY <1>1, <1>2, <1>3, <1>4, <1>5, <1>6, <1>7, <1>8 DEF Next

(* In every reachable state: control fields, channels and mail are as      *)
(* above, a query is deleted only after its leader ended it, there is one  *)
(* token from the leader's start on, and every coroutine is queued as its  *)
(* state says (scala_sub_proc_v5 and its handlers).                        *)
THEOREM TokenInvariant == Spec => []TokenInv
  BY InitToken, NextToken, PTL DEF Spec

(* However many handlers wake a sub-query while its coroutine pauses or    *)
(* runs, it has one entry in the queues of its thread while it searches    *)
(* and none while it pauses or after its last yield (scala_sub_proc_v5).   *)
THEOREM CoroutineQueuedOnce == Spec => []QueuedOnce
<1>1. TokenInv => QueuedOnce
  BY DEF TokenInv, Local, QueuedOnce
<1> QED BY <1>1, TokenInvariant, PTL

(* Once the leader of a query has started there is exactly one token of    *)
(* it: has_token of one core machine or a SYNC from one to another, also   *)
(* when late messages are dropped (scala_sub_proc_v5, post_subquery_sync). *)
THEOREM TokenUnique == Spec => []OneToken
<1>1. TokenInv => OneToken
  <2> SUFFICES ASSUME TokenInv PROVE OneToken
    OBVIOUS
  <2>1. Token(q, chan) /\ Core \subseteq Machine
    BY Machines DEF TokenInv, Global
  <2>2. NoHolder(q) => Holders = {}
    BY DEF NoHolder, Holders
  <2>3. \A h \in Core : OnlyHolder(q, h) => Holders = {h}
    BY <2>1 DEF OnlyHolder, Holders
  <2>4. NoneSent(chan) => InFlight = {}
    BY DEF NoneSent, InFlight
  <2>5. ASSUME NEW j \in Core, NEW m \in Core, NEW k \in DOMAIN chan[j][m],
               OnlySent(chan, j, m, k)
        PROVE  InFlight = {<<j, m, k>>}
    <3>1. ASSUME NEW x \in InFlight PROVE x = <<j, m, k>>
      <4>1. PICK a \in Machine, b \in Machine :
              x \in {<<a, b, c>> : c \in {c \in DOMAIN chan[a][b] : IsToken(chan[a][b][c])}}
        BY DEF InFlight
      <4>2. PICK c \in DOMAIN chan[a][b] : IsToken(chan[a][b][c]) /\ x = <<a, b, c>>
        BY <4>1
      <4> QED BY <2>5, <4>2 DEF OnlySent
    <3>2. <<j, m, k>> \in InFlight
      <4> DEFINE T(a, b) == {<<a, b, c>> : c \in {c \in DOMAIN chan[a][b] : IsToken(chan[a][b][c])}}
      <4>1. <<j, m, k>> \in T(j, m)
        BY <2>5 DEF OnlySent
      <4>2. InFlight = UNION {T(a, b) : a \in Machine, b \in Machine}
        BY DEF InFlight
      <4>3. j \in Machine /\ m \in Machine
        BY <2>1
      <4> HIDE DEF T
      <4> QED BY <4>1, <4>2, <4>3
    <3> QED BY <3>1, <3>2
  <2>6. /\ Cardinality({}) = 0
        /\ \A x : Cardinality({x}) = 1
    BY FS_EmptySet, FS_Singleton
  <2>7. CASE /\ Core = {} \/ q[Leader].isNew
             /\ NoHolder(q) /\ NoneSent(chan)
    BY <2>2, <2>4, <2>6, <2>7 DEF OneToken
  <2>8. CASE \E h \in Core : OnlyHolder(q, h) /\ NoneSent(chan)
    <3>1. PICK h \in Core : Holders = {h} /\ InFlight = {}
      BY <2>3, <2>4, <2>8
    <3>2. Cardinality(Holders) = 1 /\ Cardinality(InFlight) = 0
      BY <2>6, <3>1
    <3> QED BY <3>2 DEF OneToken
  <2>9. CASE /\ NoHolder(q)
             /\ \E j, m \in Core : \E k \in DOMAIN chan[j][m] : OnlySent(chan, j, m, k)
    <3>1. PICK j, m \in Core : \E k \in DOMAIN chan[j][m] : OnlySent(chan, j, m, k)
      BY <2>9
    <3>2. PICK k \in DOMAIN chan[j][m] : InFlight = {<<j, m, k>>}
      BY <2>5, <3>1
    <3>3. Cardinality(Holders) = 0 /\ Cardinality(InFlight) = 1
      BY <2>2, <2>6, <2>9, <3>2
    <3> QED BY <3>3 DEF OneToken
  <2> QED BY <2>1, <2>7, <2>8, <2>9 DEF Token
<1> QED BY <1>1, TokenInvariant, PTL

-----------------------------------------------------------------------------
(* Bags of vertices.                                                       *)

(* The size of a bag is a number, 0 only for the empty one.                *)
LEMMA BagSize ==
  ASSUME NEW b \in Bag
  PROVE  /\ Size(b) = SumOf(b, Vertex) /\ Size(b) \in Nat
         /\ Summable(b, Vertex) /\ \A v \in Vertex : b[v] \in Nat
         /\ Size(b) = 0 => b = Nil
<1>1. IsFiniteSet(Vertex) /\ \A v \in Vertex : b[v] \in Nat
  BY GraphAssumption DEF Bag
<1>2. Summable(b, Vertex)
  BY <1>1 DEF Summable
<1>3. Size(b) = SumOf(b, Vertex)
  BY SumFunctions DEF Size
<1>4. SumOf(b, Vertex) \in Nat
  BY <1>1, SumNatural
<1>5. ASSUME Size(b) = 0, NEW v \in Vertex PROVE b[v] = 0
  <2>1. SumOf(b, Vertex) = b[v] + SumOf(b, Vertex \ {v})
    BY <1>2, SumTake
  <2>2. IsFiniteSet(Vertex \ {v})
    BY <1>1, FS_Subset
  <2>3. SumOf(b, Vertex \ {v}) \in Nat
    BY <1>1, <2>2, SumNatural
  <2>4. PICK x \in Nat, y \in Nat : x = b[v] /\ y = SumOf(b, Vertex \ {v})
    BY <1>1, <2>3
  <2>5. x + y = 0
    BY <1>3, <1>5, <2>1, <2>4
  <2> QED
    BY <2>4, <2>5
<1>6. Size(b) = 0 => b = Nil
  BY <1>5 DEF Bag, Nil
<1> QED
  BY <1>1, <1>2, <1>3, <1>4, <1>6

(* The empty bag.                                                          *)
LEMMA NilBag == Nil \in Bag /\ Size(Nil) = 0
<1>1. Nil \in Bag /\ \A v \in Vertex : Nil[v] = 0
  BY DEF Nil, Bag
<1>2. SumOf(Nil, Vertex) = 0
  BY <1>1, GraphAssumption, SumZero
<1> QED
  BY <1>1, <1>2, BagSize

(* A set as a bag.                                                         *)
LEMMA OnesBag == ASSUME NEW S PROVE Ones(S) \in Bag
BY DEF Ones, Bag

(* Some entries of a bag.                                                  *)
LEMMA OnlyBag == ASSUME NEW b \in Bag, NEW S PROVE Only(b, S) \in Bag
BY DEF Only, Bag

(* A bag without some entries.                                             *)
LEMMA MinusBag == ASSUME NEW b \in Bag, NEW c \in Bag PROVE Minus(b, c) \in Bag
<1>1. ASSUME NEW v \in Vertex
      PROVE  (IF b[v] > c[v] THEN b[v] - c[v] ELSE 0) \in Nat
  <2>1. b[v] \in Nat /\ c[v] \in Nat
    BY DEF Bag
  <2> QED
    BY <2>1
<1> QED
  BY <1>1 DEF Minus, Bag

(* The entries of two bags.                                                *)
LEMMA PlusBag ==
  ASSUME NEW b \in Bag, NEW c \in Bag
  PROVE  Plus(b, c) \in Bag /\ Size(Plus(b, c)) = Size(b) + Size(c)
<1>1. ASSUME NEW v \in Vertex PROVE Plus(b, c)[v] = b[v] + c[v] /\ b[v] + c[v] \in Nat
  <2>1. b[v] \in Nat /\ c[v] \in Nat
    BY DEF Bag
  <2> QED
    BY <2>1 DEF Plus
<1>2. Plus(b, c) \in Bag
  BY <1>1 DEF Plus, Bag
<1>3. Summable(b, Vertex) /\ Summable(c, Vertex)
  BY BagSize
<1>4. SumOf(Plus(b, c), Vertex) = SumOf(b, Vertex) + SumOf(c, Vertex)
  BY <1>1, <1>3, SumAdd
<1> QED
  BY <1>2, <1>4, BagSize

(* A vertex leaves a bag.                                                  *)
LEMMA LessOne ==
  ASSUME NEW b \in Bag, NEW v \in Vertex, b[v] > 0
  PROVE  Minus(b, Ones({v})) \in Bag /\ Size(Minus(b, Ones({v}))) = Size(b) - 1
<1> DEFINE c == Minus(b, Ones({v}))
<1>1. c \in Bag
  BY MinusBag, OnesBag
<1>2. \A u \in Vertex : b[u] \in Nat
  BY DEF Bag
<1>3. c[v] = b[v] - 1 /\ c[v] \in Int
  BY <1>2 DEF Minus, Ones
<1>4. SameBut(b, c, Vertex, v)
  BY <1>2 DEF Minus, Ones, SameBut
<1>5. Summable(b, Vertex) /\ Size(b) = SumOf(b, Vertex) /\ Size(c) = SumOf(c, Vertex)
  BY <1>1, BagSize
<1> HIDE DEF c
<1>6. /\ SumOf(c, Vertex) = SumOf(b, Vertex) + c[v] - b[v]
      /\ SumOf(b, Vertex) \in Int /\ b[v] \in Int
  BY <1>3, <1>4, <1>5, SumChange
<1>7. Size(c) = Size(b) - 1
  <2> DEFINE x == SumOf(c, Vertex)
             y == SumOf(b, Vertex)
             z == b[v]
  <2>1. x = y + (z - 1) - z /\ y \in Int /\ z \in Int
    BY <1>3, <1>6
  <2> HIDE DEF x, y, z
  <2>2. x = y - 1
    BY <2>1
  <2> QED
    BY <1>5, <2>2 DEF x, y
<1> QED
  BY <1>1, <1>7 DEF c

(* The nearest entries of a bag, and the farthest.                         *)
LEMMA BestBag == ASSUME NEW b \in Bag, NEW k \in Int PROVE Best(b, k) \in Bag
<1>1. ASSUME NEW v \in Vertex, NEW room \in Int, ~(room <= 0)
      PROVE  Min({room, b[v]}) \in Nat
  <2>1. b[v] \in Nat /\ {room, b[v]} \in SUBSET Nat /\ {room, b[v]} # {}
    BY <1>1 DEF Bag
  <2>2. Min({room, b[v]}) \in {room, b[v]}
    BY <2>1, LeastNumber
  <2> QED
    BY <2>1, <2>2
<1>2. ASSUME NEW v \in Vertex
      PROVE  k - Size(Only(b, {u \in Vertex : u < v})) \in Int
  BY OnlyBag, BagSize
<1>3. ASSUME NEW v \in Vertex
      PROVE  (LET room == k - Size(Only(b, {u \in Vertex : u < v}))
              IN IF room <= 0 THEN 0 ELSE Min({room, b[v]})) \in Nat
  <2>1. PICK room \in Int : room = k - Size(Only(b, {u \in Vertex : u < v}))
    BY <1>2
  <2>2. (IF room <= 0 THEN 0 ELSE Min({room, b[v]})) \in Nat
    BY <1>1
  <2> QED
    BY <2>1, <2>2
<1> QED
  BY <1>3 DEF Best, Bag

(* The distance of the farthest entry of a pool.                           *)
LEMMA BoundNumber == ASSUME NEW b \in Bag PROVE LowerBound(b) \in Nat
<1>1. CASE b = Nil
  BY <1>1 DEF LowerBound
<1>2. CASE b # Nil
  <2>1. Support(b) # {}
    BY <1>2 DEF Support, Nil, Bag
  <2>2. Support(b) \in SUBSET Int /\ IsFiniteSet(Support(b)) /\ Support(b) \subseteq Nat
    <3>1. Support(b) \subseteq Vertex
      BY DEF Support
    <3>2. IsFiniteSet(Support(b))
      BY <3>1, GraphAssumption, FS_Subset
    <3>3. Support(b) \subseteq Nat
      BY <3>1, GraphAssumption
    <3> QED
      BY <3>2, <3>3
  <2>3. Max(Support(b)) \in Support(b)
    BY <2>1, <2>2, Extremes
  <2> QED
    BY <1>2, <2>2, <2>3 DEF LowerBound
<1> QED
  BY <1>1, <1>2

-----------------------------------------------------------------------------
(* What messages weigh: w[p][msg] is the weight of msg on its way to p.    *)

Rows == [Machine -> Seq(Message)]
Nets == [Machine -> Rows]
Weights == [Machine -> [Message -> Int]]

Wt(w, p, c) == SumOf([k \in DOMAIN c |-> w[p][c[k]]], DOMAIN c)
Row(w, out) == SumOf([p \in Machine |-> Wt(w, p, out[p])], Machine)
Flight(w, ch) == SumOf([j \in Machine |-> Row(w, ch[j])], Machine)

(* The weight of a list is an integer.                                     *)
LEMMA WtInteger ==
  ASSUME NEW w \in Weights, NEW p \in Machine, NEW c \in Seq(Message)
  PROVE  /\ Wt(w, p, c) \in Int /\ Len(c) \in Nat /\ DOMAIN c = 1 .. Len(c)
         /\ \A k \in 1 .. Len(c) : w[p][c[k]] \in Int /\ c[k] \in Message
         /\ Wt(w, p, c) = SumOf([k \in 1 .. Len(c) |-> w[p][c[k]]], 1 .. Len(c))
<1>1. Len(c) \in Nat /\ DOMAIN c = 1 .. Len(c) /\ \A k \in 1 .. Len(c) : c[k] \in Message
  OBVIOUS
<1>2. \A k \in 1 .. Len(c) : w[p][c[k]] \in Int
  BY <1>1 DEF Weights
<1>3. IsFiniteSet(1 .. Len(c))
  BY <1>1, FS_Interval
<1> DEFINE F == [k \in 1 .. Len(c) |-> w[p][c[k]]]
<1>4. \A k \in 1 .. Len(c) : F[k] \in Int
  BY <1>2
<1>5. Wt(w, p, c) = SumOf(F, 1 .. Len(c))
  BY <1>1 DEF Wt
<1> HIDE DEF F
<1>6. SumOf(F, 1 .. Len(c)) \in Int
  BY <1>3, <1>4, SumInteger
<1> QED
  BY <1>1, <1>2, <1>5, <1>6 DEF F

(* No messages weigh nothing.                                              *)
LEMMA WtEmpty == ASSUME NEW w, NEW p PROVE Wt(w, p, <<>>) = 0
<1>1. DOMAIN <<>> = {}
  OBVIOUS
<1> QED
  BY <1>1, SumEmpty DEF Wt

(* The weight of one message.                                              *)
LEMMA WtOne ==
  ASSUME NEW w \in Weights, NEW p \in Machine, NEW x \in Message
  PROVE  Wt(w, p, <<x>>) = w[p][x]
<1> DEFINE F == [k \in 1 .. 1 |-> w[p][<<x>>[k]]]
           G == [k \in 1 .. 0 |-> 0]
<1>1. DOMAIN <<x>> = 1 .. 1 /\ <<x>>[1] = x
  OBVIOUS
<1>2. Wt(w, p, <<x>>) = SumOf(F, 1 .. 1)
  BY <1>1 DEF Wt
<1>3. F[1] = w[p][x] /\ w[p][x] \in Int
  BY <1>1 DEF Weights
<1> HIDE DEF F
<1>4. PICK n \in Nat : n = 0
  OBVIOUS
<1>5. /\ F[1] \in Int /\ \A k \in 1 .. n : G[k] \in Int /\ F[k + 1] = G[k]
  BY <1>3, <1>4
<1> HIDE DEF G
<1>6. SumOf(F, 1 .. n + 1) = F[1] + SumOf(G, 1 .. n)
  BY <1>5, SumFirst
<1>7. n + 1 = 1 /\ 1 .. n = {}
  BY <1>4
<1>8. SumOf(G, {}) = 0
  BY SumEmpty
<1>9. SumOf(F, 1 .. n + 1) = SumOf(F, 1 .. 1) /\ SumOf(G, 1 .. n) = 0
  BY <1>7, <1>8
<1>10. F[1] + 0 = F[1]
  BY <1>5
<1> QED
  BY <1>2, <1>3, <1>6, <1>9, <1>10

(* The weight of two lists.                                                *)
LEMMA WtJoin ==
  ASSUME NEW w \in Weights, NEW p \in Machine,
         NEW c \in Seq(Message), NEW d \in Seq(Message)
  PROVE  c \o d \in Seq(Message) /\ Wt(w, p, c \o d) = Wt(w, p, c) + Wt(w, p, d)
<1>1. /\ c \o d \in Seq(Message) /\ Len(c \o d) = Len(c) + Len(d)
      /\ \A i \in 1 .. Len(c) + Len(d) :
           (c \o d)[i] = IF i <= Len(c) THEN c[i] ELSE d[i - Len(c)]
  BY ConcatProperties
<1>2. PICK a \in Nat, b \in Nat : a = Len(c) /\ b = Len(d)
  OBVIOUS
<1> DEFINE e == c \o d
           F == [k \in 1 .. a + b |-> w[p][e[k]]]
           G == [k \in 1 .. a |-> w[p][c[k]]]
           H == [k \in 1 .. b |-> w[p][d[k]]]
<1>3. /\ Wt(w, p, e) = SumOf(F, 1 .. a + b) /\ Wt(w, p, c) = SumOf(G, 1 .. a)
      /\ Wt(w, p, d) = SumOf(H, 1 .. b)
      /\ \A k \in 1 .. a : w[p][c[k]] \in Int
      /\ \A k \in 1 .. b : w[p][d[k]] \in Int
  BY <1>1, <1>2, WtInteger
<1>4. /\ \A k \in 1 .. a : k \in 1 .. a + b /\ e[k] = c[k]
      /\ \A k \in 1 .. b : a + k \in 1 .. a + b /\ e[a + k] = d[k]
  <2>1. ASSUME NEW k \in 1 .. a PROVE k \in 1 .. a + b /\ e[k] = c[k]
    BY <1>1, <1>2
  <2>2. ASSUME NEW k \in 1 .. b PROVE a + k \in 1 .. a + b /\ e[a + k] = d[k]
    <3>1. a + k \in 1 .. a + b /\ ~(a + k <= a) /\ a + k - a = k
      OBVIOUS
    <3> QED
      BY <1>1, <1>2, <3>1
  <2> QED
    BY <2>1, <2>2
<1> HIDE DEF e
<1>5. Appended(F, G, a, H, b)
  BY <1>3, <1>4 DEF Appended
<1> HIDE DEF F, G, H
<1>6. SumOf(F, 1 .. a + b) = SumOf(G, 1 .. a) + SumOf(H, 1 .. b)
  BY <1>5, SumAppended
<1> QED
  BY <1>1, <1>3, <1>6 DEF e

(* The weight of a list without its first message.                         *)
LEMMA WtTail ==
  ASSUME NEW w \in Weights, NEW p \in Machine, NEW c \in Seq(Message), c # <<>>
  PROVE  /\ Head(c) \in Message /\ Tail(c) \in Seq(Message)
         /\ Wt(w, p, Tail(c)) = Wt(w, p, c) - w[p][Head(c)]
         /\ Wt(w, p, c) \in Int /\ w[p][Head(c)] \in Int
<1>1. Head(c) \in Message /\ Tail(c) \in Seq(Message) /\ c = <<Head(c)>> \o Tail(c)
  BY HeadTailProperties, ConcatProperties
<1>2. PICK h \in Message, t \in Seq(Message) : h = Head(c) /\ t = Tail(c) /\ c = <<h>> \o t
  BY <1>1
<1>3. Wt(w, p, <<h>> \o t) = Wt(w, p, <<h>>) + Wt(w, p, t)
  <2>1. <<h>> \in Seq(Message)
    OBVIOUS
  <2> QED
    BY <2>1, WtJoin
<1>4. Wt(w, p, <<h>>) = w[p][h] /\ w[p][h] \in Int
  BY WtOne DEF Weights
<1>5. Wt(w, p, t) \in Int /\ Wt(w, p, c) \in Int /\ Wt(w, p, c) = Wt(w, p, <<h>> \o t)
  BY <1>2, WtInteger
<1>6. PICK a \in Int, b \in Int, d \in Int : a = Wt(w, p, t) /\ b = Wt(w, p, c) /\ d = w[p][h]
  BY <1>4, <1>5
<1>7. b = d + a
  BY <1>3, <1>4, <1>5, <1>6
<1>8. a = b - d
  BY <1>7
<1> QED
  BY <1>2, <1>6, <1>8

(* Messages that weigh nothing.                                            *)
LEMMA WtNothing ==
  ASSUME NEW w \in Weights, NEW p \in Machine, NEW c \in Seq(Message),
         \A k \in DOMAIN c : w[p][c[k]] = 0
  PROVE  Wt(w, p, c) = 0
<1>1. Len(c) \in Nat /\ DOMAIN c = 1 .. Len(c)
  OBVIOUS
<1>2. IsFiniteSet(DOMAIN c)
  BY <1>1, FS_Interval
<1> DEFINE F == [k \in DOMAIN c |-> w[p][c[k]]]
<1>3. \A k \in DOMAIN c : F[k] = 0
  OBVIOUS
<1> HIDE DEF F
<1>4. SumOf(F, DOMAIN c) = 0
  BY <1>2, <1>3, SumZero
<1> QED
  BY <1>4 DEF F, Wt

(* What a machine posts weighs an integer.                                 *)
LEMMA RowInteger ==
  ASSUME NEW w \in Weights, NEW out \in Rows
  PROVE  /\ Row(w, out) \in Int
         /\ Summable([p \in Machine |-> Wt(w, p, out[p])], Machine)
<1> DEFINE F == [p \in Machine |-> Wt(w, p, out[p])]
<1>1. \A p \in Machine : F[p] \in Int
  BY WtInteger DEF Rows
<1> HIDE DEF F
<1>2. Summable(F, Machine)
  BY <1>1, Machines DEF Summable
<1>3. SumOf(F, Machine) \in Int
  BY <1>1, Machines, SumInteger
<1> QED
  BY <1>2, <1>3 DEF F, Row

(* The weight of two rows.                                                 *)
LEMMA RowAnd ==
  ASSUME NEW w \in Weights, NEW out1 \in Rows, NEW out2 \in Rows
  PROVE  And(out1, out2) \in Rows /\ Row(w, And(out1, out2)) = Row(w, out1) + Row(w, out2)
<1> DEFINE F == [p \in Machine |-> Wt(w, p, out1[p])]
           G == [p \in Machine |-> Wt(w, p, out2[p])]
           H == [p \in Machine |-> Wt(w, p, And(out1, out2)[p])]
<1>1. ASSUME NEW p \in Machine
      PROVE  /\ And(out1, out2)[p] \in Seq(Message)
             /\ Wt(w, p, And(out1, out2)[p]) = Wt(w, p, out1[p]) + Wt(w, p, out2[p])
  <2>1. out1[p] \in Seq(Message) /\ out2[p] \in Seq(Message)
    BY DEF Rows
  <2>2. And(out1, out2)[p] = out1[p] \o out2[p]
    BY DEF And
  <2> QED
    BY <2>1, <2>2, WtJoin
<1>2. And(out1, out2) \in Rows
  BY <1>1 DEF And, Rows
<1>3. \A p \in Machine : H[p] = F[p] + G[p]
  BY <1>1
<1>4. Summable(F, Machine) /\ Summable(G, Machine)
  BY RowInteger
<1> HIDE DEF F, G, H
<1>5. SumOf(H, Machine) = SumOf(F, Machine) + SumOf(G, Machine)
  BY <1>3, <1>4, SumAdd
<1> QED
  BY <1>2, <1>5 DEF F, G, H, Row

(* A row of messages that weigh nothing.                                   *)
LEMMA RowNothing ==
  ASSUME NEW w \in Weights, NEW out \in Rows,
         \A p \in Machine : \A k \in DOMAIN out[p] : w[p][out[p][k]] = 0
  PROVE  Row(w, out) = 0
<1> DEFINE F == [p \in Machine |-> Wt(w, p, out[p])]
<1>1. \A p \in Machine : F[p] = 0
  BY WtNothing DEF Rows
<1> HIDE DEF F
<1>2. SumOf(F, Machine) = 0
  BY <1>1, Machines, SumZero
<1> QED
  BY <1>2 DEF F, Row

(* Nothing is a row of messages.                                           *)
LEMMA NothingRow == Nothing \in Rows
<1>1. <<>> \in Seq(Message)
  OBVIOUS
<1> QED
  BY <1>1 DEF Nothing, Rows

(* A list for one machine.                                                 *)
LEMMA RowOne ==
  ASSUME NEW w \in Weights, NEW x \in Machine, NEW c \in Seq(Message)
  PROVE  /\ [Nothing EXCEPT ![x] = c] \in Rows
         /\ Row(w, [Nothing EXCEPT ![x] = c]) = Wt(w, x, c)
<1> DEFINE out == [Nothing EXCEPT ![x] = c]
           F == [p \in Machine |-> Wt(w, p, out[p])]
           G == [p \in Machine |-> 0]
<1>1. out \in Rows /\ out[x] = c /\ \A p \in Machine \ {x} : out[p] = <<>>
  BY NothingRow DEF Rows, Nothing
<1> HIDE DEF out
<1>2. F[x] = Wt(w, x, c) /\ F[x] \in Int /\ SameBut(G, F, Machine, x)
  <2>1. \A p \in Machine \ {x} : F[p] = G[p]
    BY <1>1, WtEmpty
  <2>2. F[x] = Wt(w, x, c)
    BY <1>1
  <2> HIDE DEF F, G
  <2> QED
    BY <2>1, <2>2, WtInteger DEF SameBut
<1>3. Summable(G, Machine) /\ \A p \in Machine : G[p] = 0
  BY Machines DEF Summable
<1> HIDE DEF F
<1>4. SumOf(G, Machine) = 0
  BY <1>3, Machines, SumZero
<1>5. G[x] = 0
  BY <1>3
<1> HIDE DEF G
<1>6. SumOf(F, Machine) = SumOf(G, Machine) + F[x] - G[x]
  BY <1>2, <1>3, SumChange
<1>7. SumOf(F, Machine) = F[x]
  BY <1>2, <1>4, <1>5, <1>6
<1> QED
  BY <1>1, <1>2, <1>7 DEF F, Row, out

(* All that is under way.                                                  *)
LEMMA FlightInteger ==
  ASSUME NEW w \in Weights, NEW ch \in Nets
  PROVE  /\ Flight(w, ch) \in Int
         /\ Summable([j \in Machine |-> Row(w, ch[j])], Machine)
<1> DEFINE F == [j \in Machine |-> Row(w, ch[j])]
<1>1. \A j \in Machine : F[j] \in Int
  BY RowInteger DEF Nets
<1> HIDE DEF F
<1>2. Summable(F, Machine)
  BY <1>1, Machines DEF Summable
<1>3. SumOf(F, Machine) \in Int
  BY <1>1, Machines, SumInteger
<1> QED
  BY <1>2, <1>3 DEF F, Flight

(* The weight of a channel with another row.                               *)
NewRow(d, ch, m, out) == d = [ch EXCEPT ![m] = out]

(* The weight of all channels with another row.                            *)
LEMMA FlightRow ==
  ASSUME NEW w \in Weights, NEW ch \in Nets, NEW m \in Machine, NEW out \in Rows,
         NEW d, NewRow(d, ch, m, out)
  PROVE  d \in Nets /\ Flight(w, d) = Flight(w, ch) + Row(w, out) - Row(w, ch[m])
<1> DEFINE F == [j \in Machine |-> Row(w, ch[j])]
           G == [j \in Machine |-> Row(w, d[j])]
<1>1. d \in Nets /\ d[m] = out /\ \A j \in Machine \ {m} : d[j] = ch[j]
  BY DEF Nets, NewRow
<1>2. G[m] = Row(w, out) /\ G[m] \in Int /\ F[m] = Row(w, ch[m]) /\ SameBut(F, G, Machine, m)
  <2>1. G[m] = Row(w, out) /\ F[m] = Row(w, ch[m]) /\ \A j \in Machine \ {m} : G[j] = F[j]
    BY <1>1
  <2> HIDE DEF F, G
  <2> QED
    BY <2>1, RowInteger DEF SameBut
<1>3. Summable(F, Machine)
  BY FlightInteger
<1> HIDE DEF F, G
<1>4. SumOf(G, Machine) = SumOf(F, Machine) + G[m] - F[m]
  BY <1>2, <1>3, SumChange
<1> QED
  BY <1>1, <1>2, <1>4 DEF F, G, Flight

(* What is posted is added to what is under way.                           *)
LEMMA FlightPosted ==
  ASSUME NEW w \in Weights, NEW ch \in Nets, NEW m \in Machine, NEW out \in Rows
  PROVE  /\ Posted(ch, m, out) \in Nets
         /\ Flight(w, Posted(ch, m, out)) = Flight(w, ch) + Row(w, out)
<1>1. ch[m] \in Rows
  BY DEF Nets
<1>2. PICK r \in Rows : r = And(ch[m], out)
  BY <1>1, RowAnd
<1>3. Row(w, r) = Row(w, ch[m]) + Row(w, out)
  BY <1>1, <1>2, RowAnd
<1>4. PICK d : NewRow(d, ch, m, r) /\ d = Posted(ch, m, out)
  BY <1>2 DEF Posted, NewRow
<1>5. d \in Nets /\ Flight(w, d) = Flight(w, ch) + Row(w, r) - Row(w, ch[m])
  BY <1>4, FlightRow
<1>6. PICK a \in Int, b \in Int, c \in Int :
        a = Flight(w, ch) /\ b = Row(w, ch[m]) /\ c = Row(w, out)
  BY <1>1, FlightInteger, RowInteger
<1>7. Flight(w, d) = a + (b + c) - b
  BY <1>3, <1>5, <1>6
<1>8. a + (b + c) - b = a + c
  OBVIOUS
<1> QED
  BY <1>4, <1>5, <1>6, <1>7, <1>8

(* What is taken is no longer under way.                                   *)
LEMMA FlightPopped ==
  ASSUME NEW w \in Weights, chan \in Nets, NEW m \in Machine, NEW j \in Machine,
         chan[j][m] # <<>>
  PROVE  /\ Popped(m, j) \in Nets /\ Head(chan[j][m]) \in Message
         /\ w[m][Head(chan[j][m])] \in Int
         /\ Flight(w, Popped(m, j)) = Flight(w, chan) - w[m][Head(chan[j][m])]
<1> DEFINE c == chan[j][m]
           row == [chan[j] EXCEPT ![m] = Tail(c)]
           F == [p \in Machine |-> Wt(w, p, chan[j][p])]
           G == [p \in Machine |-> Wt(w, p, row[p])]
<1>1. c \in Seq(Message) /\ chan[j] \in Rows /\ chan[j] \in [Machine -> Seq(Message)]
  BY DEF Nets, Rows
<1>2. /\ Head(c) \in Message /\ Tail(c) \in Seq(Message)
      /\ Wt(w, m, Tail(c)) = Wt(w, m, c) - w[m][Head(c)]
      /\ Wt(w, m, c) \in Int /\ w[m][Head(c)] \in Int
  BY <1>1, WtTail
<1>3. row \in Rows /\ row[m] = Tail(c) /\ \A p \in Machine \ {m} : row[p] = chan[j][p]
  BY <1>1, <1>2 DEF Rows
<1>4. PICK d : d = Popped(m, j) /\ NewRow(d, chan, j, row)
  BY DEF Popped, NewRow
<1> HIDE DEF c, row
<1>5. /\ F[m] = Wt(w, m, c) /\ G[m] = Wt(w, m, Tail(c)) /\ G[m] \in Int
      /\ SameBut(F, G, Machine, m)
  BY <1>2, <1>3 DEF c, SameBut
<1>6. Summable(F, Machine)
  BY <1>1, RowInteger
<1> HIDE DEF F, G
<1>7. SumOf(G, Machine) = SumOf(F, Machine) + G[m] - F[m] /\ SumOf(F, Machine) \in Int
  BY <1>5, <1>6, SumChange
<1>8. d \in Nets /\ Flight(w, d) = Flight(w, chan) + Row(w, row) - Row(w, chan[j])
  BY <1>3, <1>4, FlightRow
<1>9. Row(w, row) = SumOf(G, Machine) /\ Row(w, chan[j]) = SumOf(F, Machine)
  BY DEF F, G, Row
<1>10. PICK a \in Int, b \in Int, e \in Int, h \in Int :
         a = Flight(w, chan) /\ b = SumOf(F, Machine) /\ e = Wt(w, m, c) /\ h = w[m][Head(c)]
  BY <1>2, <1>7, FlightInteger
<1>11. Flight(w, d) = a + (b + (e - h) - e) - b
  BY <1>2, <1>5, <1>7, <1>8, <1>9, <1>10
<1>12. a + (b + (e - h) - e) - b = a - h
  OBVIOUS
<1> QED
  BY <1>2, <1>4, <1>8, <1>10, <1>11, <1>12 DEF c

-----------------------------------------------------------------------------
(* Answers to x.                                                           *)

CW(x) == [p \in Machine |-> [msg \in Message |-> CoreAnswers(x, p, msg)]]
NW(x) == [p \in Machine |-> [msg \in Message |-> NoCoreAnswers(x, p, msg)]]

(* The kinds of messages.                                                  *)
LEMMA MessageKinds ==
  ASSUME NEW msg \in Message
  PROVE  /\ msg.type = "QUERY" => msg \in QueryMessage
         /\ msg.type = "SYNC" => msg \in SyncMessage
         /\ msg.type = "NODE_SYNC" => msg \in NodeSyncMessage
         /\ msg.type = "TASK" => msg \in TaskMessage
         /\ msg.type = "RESULT" => msg \in ResultMessage
         /\ msg.type = "NODE_RESULT" => msg \in NodeResultMessage
BY DEF Message, QueryMessage, SyncMessage, NodeSyncMessage, TaskMessage, ResultMessage,
       NodeResultMessage

(* The fields of the messages that count.                                  *)
LEMMA CountFields ==
  /\ \A msg \in TaskMessage :
       /\ msg.type = "TASK" /\ msg.for \in Machine /\ msg.nodes \in Bag /\ msg.lists \in Bag
       /\ msg.core \in {0, 1} /\ msg.bound \in Nat /\ msg.fill \in BOOLEAN
  /\ \A msg \in ResultMessage :
       /\ msg.type = "RESULT" /\ msg.core \in Nat /\ msg.nocore \in Nat
       /\ msg.found \in SUBSET Vertex
  /\ \A msg \in NodeResultMessage :
       /\ msg.type = "NODE_RESULT" /\ msg.core \in Nat \ {0} /\ msg.post \in Nat
       /\ msg.found \in SUBSET Vertex
BY DEF TaskMessage, ResultMessage, NodeResultMessage

(* The weight of a request, as sums of integers.                           *)
LEMMA TaskWeight ==
  ASSUME NEW msg \in TaskMessage, NEW x \in Machine, NEW p \in Machine
  PROVE  /\ Size(msg.nodes) \in Nat /\ Size(msg.lists) \in Nat
         /\ msg.core = 1 =>
              /\ CoreAnswers(x, p, msg) =
                   IF msg.for = x THEN Size(msg.nodes) + Size(msg.lists) ELSE 0
              /\ NoCoreAnswers(x, p, msg) = 0
         /\ msg.core = 0 =>
              /\ CoreAnswers(x, p, msg) = IF msg.for = x THEN Size(msg.nodes) ELSE 0
              /\ NoCoreAnswers(x, p, msg) = IF msg.for = x THEN Size(msg.lists) ELSE 0
<1>1. msg.type = "TASK" /\ msg.nodes \in Bag /\ msg.lists \in Bag /\ msg.core \in {0, 1}
  BY CountFields
<1>2. PICK a \in Nat, b \in Nat : a = Size(msg.nodes) /\ b = Size(msg.lists)
  BY <1>1, BagSize
<1>3. /\ CoreAnswers(x, p, msg) = IF msg.for = x THEN a + msg.core * b ELSE 0
      /\ NoCoreAnswers(x, p, msg) = IF msg.for = x THEN (1 - msg.core) * b ELSE 0
  BY <1>1, <1>2 DEF CoreAnswers, NoCoreAnswers
<1>4. /\ a + 1 * b = a + b /\ (1 - 1) * b = 0
      /\ a + 0 * b = a /\ (1 - 0) * b = b
  OBVIOUS
<1> QED
  BY <1>2, <1>3, <1>4

(* Messages without answers.                                               *)
LEMMA Silent ==
  ASSUME NEW msg, msg.type \notin {"TASK", "RESULT", "NODE_RESULT"}, NEW x, NEW p
  PROVE  CoreAnswers(x, p, msg) = 0 /\ NoCoreAnswers(x, p, msg) = 0
BY DEF CoreAnswers, NoCoreAnswers

(* The weight of an answer about neighbours.                               *)
LEMMA ResultWeight ==
  ASSUME NEW msg \in ResultMessage, NEW x, NEW p
  PROVE  /\ CoreAnswers(x, p, msg) = IF p = x THEN msg.core ELSE 0
         /\ NoCoreAnswers(x, p, msg) = IF p = x THEN msg.nocore ELSE 0
BY CountFields DEF CoreAnswers, NoCoreAnswers

(* The weight of an answer about whole vertices.                           *)
LEMMA NodeResultWeight ==
  ASSUME NEW msg \in NodeResultMessage, NEW x, NEW p
  PROVE  /\ CoreAnswers(x, p, msg) = IF p = x THEN msg.core ELSE 0
         /\ NoCoreAnswers(x, p, msg) = IF p = x THEN 0 - msg.post ELSE 0
BY CountFields DEF CoreAnswers, NoCoreAnswers

(* Both weights are integers.                                              *)
LEMMA WeightsRight ==
  ASSUME NEW x \in Machine
  PROVE  /\ CW(x) \in Weights /\ NW(x) \in Weights
         /\ \A p \in Machine, msg \in Message :
              /\ CW(x)[p][msg] = CoreAnswers(x, p, msg)
              /\ NW(x)[p][msg] = NoCoreAnswers(x, p, msg)
<1>1. ASSUME NEW p \in Machine, NEW msg \in Message
      PROVE  CoreAnswers(x, p, msg) \in Int /\ NoCoreAnswers(x, p, msg) \in Int
  <2>1. CASE msg.type = "TASK"
    <3>1. msg \in TaskMessage /\ msg.core \in {0, 1}
      BY <2>1, MessageKinds, CountFields
    <3>2. CASE msg.core = 0
      BY <3>1, <3>2, TaskWeight
    <3>3. CASE msg.core = 1
      BY <3>1, <3>3, TaskWeight
    <3> QED
      BY <3>1, <3>2, <3>3
  <2>2. CASE msg.type = "RESULT"
    <3>1. msg \in ResultMessage /\ msg.core \in Nat /\ msg.nocore \in Nat
      BY <2>2, MessageKinds, CountFields
    <3> QED
      BY <3>1, ResultWeight
  <2>3. CASE msg.type = "NODE_RESULT"
    <3>1. msg \in NodeResultMessage /\ msg.core \in Nat /\ msg.post \in Nat
      BY <2>3, MessageKinds, CountFields
    <3>2. 0 - msg.post \in Int
      BY <3>1
    <3> QED
      BY <3>1, <3>2, NodeResultWeight
  <2>4. CASE msg.type \notin {"TASK", "RESULT", "NODE_RESULT"}
    BY <2>4, Silent
  <2> QED
    BY <2>1, <2>2, <2>3, <2>4
<1>2. \A p \in Machine, msg \in Message : /\ CW(x)[p][msg] = CoreAnswers(x, p, msg)
                                          /\ NW(x)[p][msg] = NoCoreAnswers(x, p, msg)
  BY DEF CW, NW
<1> QED
  BY <1>1, <1>2 DEF CW, NW, Weights

(* The sums of AnswersDue.                                                 *)
LEMMA UnderWay ==
  ASSUME chan \in Nets, NEW x \in Machine
  PROVE  /\ CoreUnderWay(x) = Flight(CW(x), chan)
         /\ NoCoreUnderWay(x) = Flight(NW(x), chan)
<1>1. \A j, p \in Machine : \A k \in DOMAIN chan[j][p] : chan[j][p][k] \in Message
  <2> SUFFICES ASSUME NEW j \in Machine, NEW p \in Machine, NEW k \in DOMAIN chan[j][p]
               PROVE  chan[j][p][k] \in Message
    OBVIOUS
  <2>1. chan[j][p] \in Seq(Message)
    BY DEF Nets, Rows
  <2> QED
    BY <2>1
<1> DEFINE c(j, p) == [k \in DOMAIN chan[j][p] |-> CoreAnswers(x, p, chan[j][p][k])]
           n(j, p) == [k \in DOMAIN chan[j][p] |-> NoCoreAnswers(x, p, chan[j][p][k])]
<1>2. ASSUME NEW j \in Machine, NEW p \in Machine
      PROVE  SumFunction(c(j, p)) = Wt(CW(x), p, chan[j][p])
             /\ SumFunction(n(j, p)) = Wt(NW(x), p, chan[j][p])
  <2>1. /\ c(j, p) = [k \in DOMAIN chan[j][p] |-> CW(x)[p][chan[j][p][k]]]
        /\ n(j, p) = [k \in DOMAIN chan[j][p] |-> NW(x)[p][chan[j][p][k]]]
    BY <1>1, WeightsRight
  <2>2. DOMAIN c(j, p) = DOMAIN chan[j][p] /\ DOMAIN n(j, p) = DOMAIN chan[j][p]
    OBVIOUS
  <2>3. /\ SumFunction(c(j, p)) = SumOf(c(j, p), DOMAIN c(j, p))
        /\ SumFunction(n(j, p)) = SumOf(n(j, p), DOMAIN n(j, p))
    BY SumFunctions
  <2> HIDE DEF c, n
  <2> QED
    BY <2>1, <2>2, <2>3 DEF Wt
<1> DEFINE C == [j \in Machine |-> [p \in Machine |-> c(j, p)]]
           N == [j \in Machine |-> [p \in Machine |-> n(j, p)]]
<1>3. CoreUnderWay(x) = Total(C) /\ NoCoreUnderWay(x) = Total(N)
  BY DEF CoreUnderWay, NoCoreUnderWay
<1> HIDE DEF c, n
<1>4. ASSUME NEW j \in Machine
      PROVE  /\ SumFunction([p \in Machine |-> SumFunction(C[j][p])]) = Row(CW(x), chan[j])
             /\ SumFunction([p \in Machine |-> SumFunction(N[j][p])]) = Row(NW(x), chan[j])
  <2> DEFINE F == [p \in Machine |-> SumFunction(C[j][p])]
             G == [p \in Machine |-> SumFunction(N[j][p])]
  <2>1. /\ F = [p \in Machine |-> Wt(CW(x), p, chan[j][p])]
        /\ G = [p \in Machine |-> Wt(NW(x), p, chan[j][p])]
    BY <1>2
  <2>2. DOMAIN F = Machine /\ DOMAIN G = Machine
    OBVIOUS
  <2> HIDE DEF F, G
  <2>3. SumFunction(F) = SumOf(F, Machine) /\ SumFunction(G) = SumOf(G, Machine)
    BY <2>2, SumFunctions
  <2>4. SumFunction(F) = Row(CW(x), chan[j]) /\ SumFunction(G) = Row(NW(x), chan[j])
    BY <2>1, <2>3 DEF Row
  <2> QED
    BY <2>4 DEF F, G
<1> HIDE DEF C, N
<1>5. Total(C) = Flight(CW(x), chan) /\ Total(N) = Flight(NW(x), chan)
  <2> DEFINE F == [j \in Machine |-> SumFunction([p \in Machine |-> SumFunction(C[j][p])])]
             G == [j \in Machine |-> SumFunction([p \in Machine |-> SumFunction(N[j][p])])]
  <2>1. F = [j \in Machine |-> Row(CW(x), chan[j])] /\ G = [j \in Machine |-> Row(NW(x), chan[j])]
    BY <1>4
  <2>2. DOMAIN F = Machine /\ DOMAIN G = Machine
    OBVIOUS
  <2>3. Total(C) = SumFunction(F) /\ Total(N) = SumFunction(G)
    BY DEF Total
  <2> HIDE DEF F, G
  <2>4. SumFunction(F) = SumOf(F, Machine) /\ SumFunction(G) = SumOf(G, Machine)
    BY <2>2, SumFunctions
  <2> QED
    BY <2>1, <2>3, <2>4 DEF Flight
<1> QED
  BY <1>3, <1>5

-----------------------------------------------------------------------------
(* What the rows of messages of the model carry.                           *)

(* A row of messages with c answers for recv_cnt and n for nocore_recv.    *)
Carries(out, x, c, n) ==
  out \in Rows /\ Row(CW(x), out) = c /\ Row(NW(x), out) = n

(* The messages of two rows.                                               *)
LEMMA CarriesAnd ==
  ASSUME NEW x \in Machine, NEW a, NEW b, NEW c1, NEW n1, NEW c2, NEW n2,
         Carries(a, x, c1, n1), Carries(b, x, c2, n2)
  PROVE  Carries(And(a, b), x, c1 + c2, n1 + n2)
<1>1. a \in Rows /\ b \in Rows /\ CW(x) \in Weights /\ NW(x) \in Weights
  BY WeightsRight DEF Carries
<1>2. /\ And(a, b) \in Rows
      /\ Row(CW(x), And(a, b)) = Row(CW(x), a) + Row(CW(x), b)
      /\ Row(NW(x), And(a, b)) = Row(NW(x), a) + Row(NW(x), b)
  BY <1>1, RowAnd
<1> QED
  BY <1>2 DEF Carries

(* A row of messages that neither ask nor answer.                          *)
Mute(out) ==
  /\ out \in Rows
  /\ \A p \in Machine : \A k \in DOMAIN out[p] :
       out[p][k].type \notin {"TASK", "RESULT", "NODE_RESULT"}

(* Such a row carries nothing.                                             *)
LEMMA MuteCarries ==
  ASSUME NEW x \in Machine, NEW out, Mute(out)
  PROVE  Carries(out, x, 0, 0)
<1>1. out \in Rows /\ CW(x) \in Weights /\ NW(x) \in Weights
  BY WeightsRight DEF Mute
<1>2. ASSUME NEW p \in Machine, NEW k \in DOMAIN out[p]
      PROVE  CW(x)[p][out[p][k]] = 0 /\ NW(x)[p][out[p][k]] = 0
  <2>1. out[p] \in Seq(Message)
    BY <1>1 DEF Rows
  <2>2. out[p][k] \in Message
    BY <2>1
  <2>3. out[p][k].type \notin {"TASK", "RESULT", "NODE_RESULT"}
    BY DEF Mute
  <2>4. PICK msg \in Message : msg = out[p][k]
    BY <2>2
  <2>5. CoreAnswers(x, p, msg) = 0 /\ NoCoreAnswers(x, p, msg) = 0
    BY <2>3, <2>4, Silent
  <2> QED
    BY <2>4, <2>5, WeightsRight
<1>3. Row(CW(x), out) = 0 /\ Row(NW(x), out) = 0
  BY <1>1, <1>2, RowNothing
<1> QED
  BY <1>1, <1>3 DEF Carries

(* At most one message to each machine.                                    *)
Alone(out, T) ==
  /\ DOMAIN out = Machine /\ out = [p \in Machine |-> out[p]]
  /\ \A p \in Machine : out[p] = <<>> \/ \E msg \in T : out[p] = <<msg>>

(* A row of single messages.                                               *)
LEMMA AloneMute ==
  ASSUME NEW out, NEW T \in SUBSET Message, Alone(out, T),
         \A msg \in T : msg.type \notin {"TASK", "RESULT", "NODE_RESULT"}
  PROVE  Mute(out)
<1>1. ASSUME NEW p \in Machine
      PROVE  /\ out[p] \in Seq(Message)
             /\ \A k \in DOMAIN out[p] :
                  out[p][k].type \notin {"TASK", "RESULT", "NODE_RESULT"}
  <2>1. CASE out[p] = <<>>
    BY <2>1
  <2>2. CASE \E msg \in T : out[p] = <<msg>>
    <3>1. PICK msg \in T : out[p] = <<msg>>
      BY <2>2
    <3>2. msg \in Message /\ msg.type \notin {"TASK", "RESULT", "NODE_RESULT"}
      OBVIOUS
    <3>3. <<msg>> \in Seq(Message) /\ DOMAIN <<msg>> = {1} /\ <<msg>>[1] = msg
      BY <3>2
    <3> QED
      BY <3>1, <3>2, <3>3
  <2> QED
    BY <2>1, <2>2 DEF Alone
<1>2. out \in Rows
  BY <1>1 DEF Alone, Rows
<1> QED
  BY <1>1, <1>2 DEF Mute

(* Kinds of messages are sets of messages.                                 *)
LEMMA KindsMessages ==
  /\ QueryMessage \in SUBSET Message /\ SyncMessage \in SUBSET Message
  /\ NodeSyncMessage \in SUBSET Message /\ TaskMessage \in SUBSET Message
  /\ ResultMessage \in SUBSET Message /\ NodeResultMessage \in SUBSET Message
  /\ \A msg \in QueryMessage \cup SyncMessage \cup NodeSyncMessage :
       msg.type \notin {"TASK", "RESULT", "NODE_RESULT"}
BY DEF Message, QueryMessage, SyncMessage, NodeSyncMessage

(* Nothing is posted.                                                      *)
LEMMA NothingMute == Mute(Nothing)
<1>1. Alone(Nothing, QueryMessage)
  BY DEF Alone, Nothing
<1> QED
  BY <1>1, KindsMessages, AloneMute

(* Synchronisation.                                                        *)
LEMMA SyncsMute ==
  ASSUME NEW m \in Machine, NEW s, s.add \in Bag, s.ngh \in [Machine -> SUBSET Vertex],
         NEW prop \in BOOLEAN, NEW taint \in BOOLEAN
  PROVE  Mute(Syncs(m, s, prop, taint))
<1> DEFINE add == Only(s.add, {v \in Vertex : v <= s.bound})
           msg(p) == [type |-> "SYNC", token |-> prop /\ p = NextCore(m), black |-> taint,
                      add |-> add, ngh |-> s.ngh[p]]
<1>1. add \in Bag
  BY OnlyBag
<1>2. Syncs(m, s, prop, taint) =
        [p \in Machine |-> IF p \in Core \ {m} THEN <<msg(p)>> ELSE <<>>]
  BY DEF Syncs
<1> HIDE DEF add
<1>3. ASSUME NEW p \in Machine PROVE msg(p) \in SyncMessage
  <2>1. PICK t \in BOOLEAN : t = (prop /\ p = NextCore(m))
    OBVIOUS
  <2>2. s.ngh[p] \in SUBSET Vertex
    OBVIOUS
  <2>3. msg(p) = [type |-> "SYNC", token |-> t, black |-> taint, add |-> add,
                  ngh |-> s.ngh[p]]
    BY <2>1
  <2> HIDE DEF msg
  <2> QED
    BY <1>1, <2>2, <2>3 DEF SyncMessage
<1> HIDE DEF msg
<1>4. Alone(Syncs(m, s, prop, taint), SyncMessage)
  BY <1>2, <1>3 DEF Alone
<1> QED
  BY <1>4, KindsMessages, AloneMute

(* The forks of a query.                                                   *)
LEMMA ForksMute ==
  ASSUME NEW m \in Machine, NEW top \in Bag
  PROVE  Mute(Forks(m, top))
<1> DEFINE msg(p) == [type |-> "QUERY", state |-> "PRE_STAGE",
                      cand |-> Ones(Filtered(p)), top |-> top, result |-> Nil]
<1>1. ASSUME NEW p \in Machine PROVE msg(p) \in QueryMessage
  BY OnesBag, NilBag DEF QueryMessage, State
<1>2. Forks(m, top) = [p \in Machine |-> IF p \in Core \ {m} THEN <<msg(p)>> ELSE <<>>]
  BY DEF Forks, ForkQuery
<1> HIDE DEF msg
<1>3. Alone(Forks(m, top), QueryMessage)
  BY <1>1, <1>2 DEF Alone
<1> QED
  BY <1>3, KindsMessages, AloneMute

(* The query that goes home.                                               *)
LEMMA MigrateMute ==
  ASSUME NEW cand \in Bag, NEW best \in Bag
  PROVE  Mute(Migrate(cand, best))
<1> DEFINE msg == [type |-> "QUERY", state |-> "END", cand |-> cand, top |-> Nil,
                   result |-> best]
<1>1. msg \in QueryMessage
  BY NilBag DEF QueryMessage, State
<1>2. Migrate(cand, best) = [Nothing EXCEPT ![Origin] = <<msg>>]
  BY DEF Migrate
<1> HIDE DEF msg
<1>3. Alone(Migrate(cand, best), QueryMessage)
  BY <1>1, <1>2 DEF Alone, Nothing
<1> QED
  BY <1>3, KindsMessages, AloneMute

(* Named, since the provers do not instantiate lemmas with Boolean terms.  *)
Flag(b) == b \in BOOLEAN

(* What a request for one machine asks.                                    *)
LEMMA TaskToCarries ==
  ASSUME NEW caller \in Machine, NEW nodes \in Bag, NEW lists \in Bag, NEW bound \in Nat,
         NEW fill, Flag(fill), NEW core \in {0, 1}, NEW x \in Machine, NEW p \in Machine
  PROVE  /\ TaskTo(caller, nodes, lists, bound, fill, core) \in Seq(Message)
         /\ Size(nodes) \in Nat /\ Size(lists) \in Nat
         /\ core = 1 =>
              /\ Wt(CW(x), p, TaskTo(caller, nodes, lists, bound, fill, core)) =
                   IF caller = x THEN Size(nodes) + Size(lists) ELSE 0
              /\ Wt(NW(x), p, TaskTo(caller, nodes, lists, bound, fill, core)) = 0
         /\ core = 0 =>
              /\ Wt(CW(x), p, TaskTo(caller, nodes, lists, bound, fill, core)) =
                   IF caller = x THEN Size(nodes) ELSE 0
              /\ Wt(NW(x), p, TaskTo(caller, nodes, lists, bound, fill, core)) =
                   IF caller = x THEN Size(lists) ELSE 0
<1> DEFINE c == TaskTo(caller, nodes, lists, bound, fill, core)
<1>1. Size(nodes) \in Nat /\ Size(lists) \in Nat
  BY BagSize
<1>2. CASE nodes = Nil /\ lists = Nil
  <2>1. c = <<>>
    BY <1>2 DEF TaskTo
  <2> HIDE DEF c
  <2>2. c \in Seq(Message) /\ Wt(CW(x), p, c) = 0 /\ Wt(NW(x), p, c) = 0
    BY <2>1, WtEmpty
  <2>3. Size(nodes) = 0 /\ Size(lists) = 0
    BY <1>2, NilBag
  <2> QED
    BY <2>2, <2>3 DEF c
<1>3. CASE ~(nodes = Nil /\ lists = Nil)
  <2> DEFINE msg == [type |-> "TASK", for |-> caller, nodes |-> nodes, lists |-> lists,
                     bound |-> bound, fill |-> fill, core |-> core]
  <2>1. c = <<msg>>
    BY <1>3 DEF TaskTo
  <2>2. msg \in TaskMessage /\ msg.for = caller /\ msg.nodes = nodes /\ msg.lists = lists
        /\ msg.core = core
    BY DEF TaskMessage, Flag
  <2> HIDE DEF msg, c
  <2>3. msg \in Message
    BY <2>2, KindsMessages
  <2>4. c \in Seq(Message) /\ Wt(CW(x), p, c) = CoreAnswers(x, p, msg)
        /\ Wt(NW(x), p, c) = NoCoreAnswers(x, p, msg)
    BY <2>1, <2>3, WtOne, WeightsRight
  <2>5. CASE core = 1
    BY <1>1, <2>2, <2>4, <2>5, TaskWeight DEF c
  <2>6. CASE core = 0
    BY <1>1, <2>2, <2>4, <2>6, TaskWeight DEF c
  <2> QED
    BY <2>5, <2>6
<1> QED
  BY <1>2, <1>3

(* The parts of the vertices a machine expands are bags.                   *)
LEMMA PartsBags ==
  ASSUME NEW m, NEW g \in Bag, NEW p
  PROVE  Far(m, g, p) \in Bag /\ Lists(g, p) \in Bag
BY OnlyBag, NilBag DEF Far, Lists

Away(m, g) ==
  [p \in Machine \ {m} |-> Size(Far(m, g, p)) + Size(Lists(Only(g, Owned(m)), p))]

(* The requests of one round are as many as they are counted.              *)
LEMMA TasksCarry ==
  ASSUME NEW m \in Machine, NEW s, s.top \in Bag, NEW g \in Bag, NEW x \in Machine
  PROVE  /\ SumFunction(Away(m, g)) \in Int
         /\ Carries(Tasks(m, s, g), x, IF x = m THEN SumFunction(Away(m, g)) ELSE 0, 0)
<1> DEFINE own == Only(g, Owned(m))
           out == Tasks(m, s, g)
           bound == LowerBound(s.top)
           fill == Size(s.top) < Ef
           A == Away(m, g)
           F == [p \in Machine |-> Wt(CW(x), p, out[p])]
           G == [p \in Machine |-> Wt(NW(x), p, out[p])]
<1>1. own \in Bag /\ bound \in Nat /\ Flag(fill)
  <2>1. own \in Bag /\ bound \in Nat
    BY OnlyBag, BoundNumber
  <2>2. Flag(fill)
    BY DEF Flag
  <2> QED
    BY <2>1, <2>2
<1>2. ASSUME NEW p \in Machine
      PROVE  out[p] = IF p = m THEN <<>>
                      ELSE TaskTo(m, Far(m, g, p), Lists(own, p), bound, fill, 1)
  BY DEF Tasks
<1>3. out = [p \in Machine |-> out[p]]
  BY DEF Tasks
<1>4. out[m] = <<>>
  BY <1>2
<1> HIDE DEF own, out, bound, fill
<1>5. ASSUME NEW p \in Machine \ {m}
      PROVE  /\ out[p] \in Seq(Message) /\ A[p] \in Int
             /\ Wt(CW(x), p, out[p]) = IF m = x THEN A[p] ELSE 0
             /\ Wt(NW(x), p, out[p]) = 0
  <2>1. Far(m, g, p) \in Bag /\ Lists(own, p) \in Bag
    BY <1>1, PartsBags
  <2>2. PICK n \in Bag, l \in Bag : n = Far(m, g, p) /\ l = Lists(own, p)
    BY <2>1
  <2>3. out[p] = TaskTo(m, n, l, bound, fill, 1)
    BY <1>2, <2>2
  <2>4. PICK one \in {0, 1} : one = 1
    OBVIOUS
  <2>5. /\ out[p] \in Seq(Message) /\ Size(n) \in Nat /\ Size(l) \in Nat
        /\ Wt(CW(x), p, out[p]) = IF m = x THEN Size(n) + Size(l) ELSE 0
        /\ Wt(NW(x), p, out[p]) = 0
    BY <1>1, <2>3, <2>4, TaskToCarries
  <2>6. A[p] = Size(n) + Size(l)
    BY <2>2 DEF Away, own
  <2>7. A[p] \in Int
    BY <2>5, <2>6
  <2> QED
    BY <2>5, <2>6, <2>7
<1>6. out \in Rows
  <2>1. <<>> \in Seq(Message)
    OBVIOUS
  <2>2. \A p \in Machine : out[p] \in Seq(Message)
    BY <1>4, <1>5, <2>1
  <2> QED
    BY <1>3, <2>2 DEF Rows
<1>7. DOMAIN A = Machine \ {m} /\ IsFiniteSet(Machine \ {m})
  BY Machines, FS_Subset DEF Away
<1> HIDE DEF A
<1>8. SumFunction(A) = SumOf(A, Machine \ {m}) /\ SumOf(A, Machine \ {m}) \in Int
  BY <1>5, <1>7, SumFunctions, SumInteger
<1>9. /\ Row(CW(x), out) = SumOf(F, Machine) /\ Row(NW(x), out) = SumOf(G, Machine)
      /\ F[m] = 0 /\ G[m] = 0
      /\ \A p \in Machine \ {m} : F[p] = (IF m = x THEN A[p] ELSE 0) /\ G[p] = 0
  BY <1>4, <1>5, WtEmpty DEF Row
<1>10. Summable(F, Machine)
  BY <1>6, WeightsRight, RowInteger
<1> HIDE DEF F, G
<1>11. SumOf(F, Machine) = SumOf(F, Machine \ {m})
  <2>1. SumOf(F, Machine) = F[m] + SumOf(F, Machine \ {m})
    BY <1>10, SumTake
  <2>2. SumOf(F, Machine \ {m}) \in Int
    BY <1>7, <1>10, SumInteger DEF Summable
  <2> QED
    BY <1>9, <2>1, <2>2
<1>12. SumOf(F, Machine) = IF x = m THEN SumOf(A, Machine \ {m}) ELSE 0
  <2>1. CASE x = m
    <3>1. \A p \in Machine \ {m} : F[p] = A[p]
      BY <1>9, <2>1
    <3> QED
      BY <1>11, <2>1, <3>1, SameSum
  <2>2. CASE x # m
    <3>1. \A p \in Machine \ {m} : F[p] = 0
      BY <1>9, <2>2
    <3> QED
      BY <1>7, <1>11, <2>2, <3>1, SumZero
  <2> QED
    BY <2>1, <2>2
<1>13. SumOf(G, Machine) = 0
  BY <1>9, Machines, SumZero
<1>14. Carries(out, x, IF x = m THEN SumFunction(A) ELSE 0, 0)
  BY <1>6, <1>8, <1>9, <1>12, <1>13 DEF Carries
<1> QED
  BY <1>8, <1>14 DEF A, out

(* What a machine announces for the vertices it was asked to expand.       *)
Announced(m, msg) == [p \in Machine |-> Size(Further(m, msg, p))]
PassedOn(m, msg) ==
  [p \in Machine |-> TaskTo(msg.for, Nil, Further(m, msg, p), 0, FALSE, 0)]

(* The requests a machine passes on are as many as it announces, and there *)
(* are none if it was asked for nothing.                                   *)
LEMMA FurtherCarries ==
  ASSUME NEW m \in Machine, NEW msg \in TaskMessage, NEW x \in Machine
  PROVE  /\ SumFunction(Announced(m, msg)) \in Nat
         /\ msg.nodes = Nil => SumFunction(Announced(m, msg)) = 0
         /\ Carries(PassedOn(m, msg), x, 0,
                    IF msg.for = x THEN SumFunction(Announced(m, msg)) ELSE 0)
<1> DEFINE out == PassedOn(m, msg)
           A == Announced(m, msg)
           F == [p \in Machine |-> Wt(CW(x), p, out[p])]
           G == [p \in Machine |-> Wt(NW(x), p, out[p])]
<1>1. msg.nodes \in Bag /\ msg.for \in Machine
  BY CountFields
<1>2. ASSUME NEW p \in Machine PROVE Further(m, msg, p) \in Bag
  BY <1>1, OnlyBag, NilBag DEF Further
<1> HIDE DEF out
<1>3. ASSUME NEW p \in Machine
      PROVE  /\ out[p] \in Seq(Message) /\ A[p] \in Nat
             /\ Wt(CW(x), p, out[p]) = 0
             /\ Wt(NW(x), p, out[p]) = IF msg.for = x THEN A[p] ELSE 0
  <2>1. PICK f \in Bag, caller \in Machine, none \in Bag :
          f = Further(m, msg, p) /\ caller = msg.for /\ none = Nil
    BY <1>1, <1>2, NilBag
  <2> DEFINE zero == 0
             no == FALSE
  <2>2. zero \in {0, 1} /\ zero \in Nat /\ Flag(no)
    BY DEF Flag
  <2>3. out[p] = TaskTo(caller, none, f, zero, no, zero)
    BY <2>1, <2>2 DEF out, PassedOn
  <2>4. /\ out[p] \in Seq(Message) /\ Size(f) \in Nat
        /\ Wt(CW(x), p, out[p]) = IF caller = x THEN Size(none) ELSE 0
        /\ Wt(NW(x), p, out[p]) = IF caller = x THEN Size(f) ELSE 0
    <3> HIDE DEF zero, no
    <3>1. zero = 0
      BY DEF zero
    <3> QED
      BY <2>2, <2>3, <3>1, TaskToCarries
  <2>5. Size(none) = 0 /\ A[p] = Size(f)
    BY <2>1, NilBag DEF Announced
  <2> QED
    BY <2>1, <2>4, <2>5
<1>4. out \in Rows
  <2>1. out = [p \in Machine |-> out[p]]
    BY DEF out, PassedOn
  <2> QED
    BY <1>3, <2>1 DEF Rows
<1>5. DOMAIN A = Machine
  BY DEF Announced
<1>6. ASSUME msg.nodes = Nil, NEW p \in Machine PROVE A[p] = 0
  <2>1. Further(m, msg, p) = Nil
    BY <1>6 DEF Further, Only, Nil
  <2> QED
    BY <2>1, NilBag DEF Announced
<1> HIDE DEF A
<1>7. SumFunction(A) = SumOf(A, Machine) /\ SumOf(A, Machine) \in Nat
  BY <1>3, <1>5, Machines, SumFunctions, SumNatural
<1>8. msg.nodes = Nil => SumFunction(A) = 0
  BY <1>6, <1>7, Machines, SumZero
<1>9. /\ Row(CW(x), out) = SumOf(F, Machine) /\ Row(NW(x), out) = SumOf(G, Machine)
      /\ \A p \in Machine : F[p] = 0 /\ G[p] = IF msg.for = x THEN A[p] ELSE 0
  BY <1>3 DEF Row
<1> HIDE DEF F, G
<1>10. SumOf(F, Machine) = 0
  BY <1>9, Machines, SumZero
<1>11. SumOf(G, Machine) = IF msg.for = x THEN SumOf(A, Machine) ELSE 0
  <2>1. CASE msg.for = x
    <3>1. \A p \in Machine : G[p] = A[p]
      BY <1>9, <2>1
    <3> QED
      BY <2>1, <3>1, SameSum
  <2>2. CASE msg.for # x
    <3>1. \A p \in Machine : G[p] = 0
      BY <1>9, <2>2
    <3> QED
      BY <2>2, <3>1, Machines, SumZero
  <2> QED
    BY <2>1, <2>2
<1>12. Carries(out, x, 0, IF msg.for = x THEN SumFunction(A) ELSE 0)
  BY <1>4, <1>7, <1>9, <1>10, <1>11 DEF Carries
<1> QED
  BY <1>7, <1>8, <1>12 DEF A, out

(* A list for one machine carries what the list does.                      *)
LEMMA OneCarries ==
  ASSUME NEW x \in Machine, NEW to \in Machine, NEW c \in Seq(Message)
  PROVE  Carries([Nothing EXCEPT ![to] = c], x, Wt(CW(x), to, c), Wt(NW(x), to, c))
BY RowOne, WeightsRight DEF Carries

(* The answer about whole vertices.                                        *)
LEMMA NodeResultCarries ==
  ASSUME NEW found \in SUBSET Vertex, NEW core \in Nat, NEW post \in Nat,
         core = 0 => post = 0, NEW x \in Machine, NEW to \in Machine
  PROVE  Carries([Nothing EXCEPT ![to] = NodeResultTo(found, core, post)], x,
                 IF to = x THEN core ELSE 0, IF to = x THEN 0 - post ELSE 0)
<1> DEFINE c == NodeResultTo(found, core, post)
<1>1. c \in Seq(Message) /\ Wt(CW(x), to, c) = (IF to = x THEN core ELSE 0)
      /\ Wt(NW(x), to, c) = IF to = x THEN 0 - post ELSE 0
  <2>1. CASE core = 0
    <3>1. c = <<>>
      BY <2>1 DEF NodeResultTo
    <3>2. c \in Seq(Message) /\ Wt(CW(x), to, c) = 0 /\ Wt(NW(x), to, c) = 0
      BY <3>1, WtEmpty
    <3>3. post = 0
      BY <2>1
    <3>4. 0 - post = 0
      BY <3>3
    <3> HIDE DEF c
    <3> QED
      BY <2>1, <3>2, <3>4
  <2>2. CASE core # 0
    <3> DEFINE msg == [type |-> "NODE_RESULT", found |-> found, core |-> core, post |-> post]
    <3>1. c = <<msg>>
      BY <2>2 DEF NodeResultTo
    <3>2. msg \in NodeResultMessage /\ msg.core = core /\ msg.post = post
      BY <2>2 DEF NodeResultMessage
    <3> HIDE DEF msg, c
    <3>3. msg \in Message
      BY <3>2, KindsMessages
    <3>4. c \in Seq(Message) /\ Wt(CW(x), to, c) = CoreAnswers(x, to, msg)
          /\ Wt(NW(x), to, c) = NoCoreAnswers(x, to, msg)
      BY <3>1, <3>3, WtOne, WeightsRight
    <3> QED
      BY <3>2, <3>4, NodeResultWeight
  <2> QED
    BY <2>1, <2>2
<1> HIDE DEF c
<1>2. Carries([Nothing EXCEPT ![to] = c], x, IF to = x THEN core ELSE 0,
              IF to = x THEN 0 - post ELSE 0)
  <2>1. Carries([Nothing EXCEPT ![to] = c], x, Wt(CW(x), to, c), Wt(NW(x), to, c))
    BY <1>1, OneCarries
  <2> QED
    BY <1>1, <2>1 DEF Carries
<1> QED
  BY <1>2 DEF c

(* The answer about neighbours.                                            *)
LEMMA ResultCarries ==
  ASSUME NEW found \in SUBSET Vertex, NEW core \in Nat, NEW nocore \in Nat,
         NEW x \in Machine, NEW to \in Machine
  PROVE  Carries(PostRemoteResult(to, ResultTo(found, core, nocore)), x,
                 IF to = x THEN core ELSE 0, IF to = x THEN nocore ELSE 0)
<1> DEFINE c == ResultTo(found, core, nocore)
<1>1. c \in Seq(Message) /\ Wt(CW(x), to, c) = (IF to = x THEN core ELSE 0)
      /\ Wt(NW(x), to, c) = IF to = x THEN nocore ELSE 0
  <2>1. CASE core + nocore = 0
    <3>1. c = <<>>
      BY <2>1 DEF ResultTo
    <3>2. c \in Seq(Message) /\ Wt(CW(x), to, c) = 0 /\ Wt(NW(x), to, c) = 0
      BY <3>1, WtEmpty
    <3>3. core = 0 /\ nocore = 0
      BY <2>1
    <3> HIDE DEF c
    <3> QED
      BY <3>2, <3>3
  <2>2. CASE core + nocore # 0
    <3> DEFINE msg == [type |-> "RESULT", found |-> found, core |-> core, nocore |-> nocore]
    <3>1. c = <<msg>>
      BY <2>2 DEF ResultTo
    <3>2. msg \in ResultMessage /\ msg.core = core /\ msg.nocore = nocore
      BY DEF ResultMessage
    <3> HIDE DEF msg, c
    <3>3. msg \in Message
      BY <3>2, KindsMessages
    <3>4. c \in Seq(Message) /\ Wt(CW(x), to, c) = CoreAnswers(x, to, msg)
          /\ Wt(NW(x), to, c) = NoCoreAnswers(x, to, msg)
      BY <3>1, <3>3, WtOne, WeightsRight
    <3> QED
      BY <3>2, <3>4, ResultWeight
  <2> QED
    BY <2>1, <2>2
<1> HIDE DEF c
<1>2. Carries([Nothing EXCEPT ![to] = c], x, IF to = x THEN core ELSE 0,
              IF to = x THEN nocore ELSE 0)
  <2>1. Carries([Nothing EXCEPT ![to] = c], x, Wt(CW(x), to, c), Wt(NW(x), to, c))
    BY <1>1, OneCarries
  <2> QED
    BY <1>1, <2>1 DEF Carries
<1> QED
  BY <1>2 DEF c, PostRemoteResult

(* Neighbours are vertices.                                                *)
LEMMA NeighboursOf ==
  ASSUME NEW b, NEW p
  PROVE  UNION {NghOn(n, p) : n \in Support(b)} \in SUBSET Vertex
<1>1. \A n \in Vertex : NghOn(n, p) \subseteq Vertex
  BY GraphAssumption DEF NghOn, Owned
<1>2. Support(b) \subseteq Vertex
  BY DEF Support
<1> QED
  BY <1>1, <1>2

(* What a machine answers to a request of whole vertices.                  *)
LEMMA NodeAnswersCarry ==
  ASSUME NEW m \in Machine, NEW msg \in TaskMessage, NEW x \in Machine
  PROVE  /\ Size(msg.nodes) \in Nat
         /\ Carries(NodeAnswers(m, msg), x, IF msg.for = x THEN Size(msg.nodes) ELSE 0, 0)
<1> DEFINE sync(p) == IF p \in Core
                        THEN UNION {NghOn(n, p) : n \in Support(msg.nodes)} ELSE {}
           post == SumFunction([k \in Machine |-> Size(Further(m, msg, k))])
           found == InNode(m, msg) \ q[m].visited
           size == Size(msg.nodes)
           results == [Nothing EXCEPT ![msg.for] = NodeResultTo(found, size, post)]
           syncs == [p \in Machine |-> NodeSyncTo(sync(p))]
           tasks == [p \in Machine |-> TaskTo(msg.for, Nil, Further(m, msg, p), 0, FALSE, 0)]
<1>1. NodeAnswers(m, msg) = And(results, And(syncs, tasks))
  BY DEF NodeAnswers, ResTaskSync
<1>2. msg.for \in Machine /\ msg.nodes \in Bag
  BY CountFields
<1>3. size \in Nat /\ (size = 0 => msg.nodes = Nil)
  BY <1>2, BagSize
<1>4. found \in SUBSET Vertex
  BY NeighboursOf DEF InNode
<1>5. /\ post \in Nat /\ (msg.nodes = Nil => post = 0)
      /\ Carries(tasks, x, 0, IF msg.for = x THEN post ELSE 0)
  <2>1. post = SumFunction(Announced(m, msg))
    BY DEF Announced
  <2>2. tasks = PassedOn(m, msg)
    BY DEF PassedOn
  <2> HIDE DEF post, tasks
  <2> QED
    BY <2>1, <2>2, FurtherCarries
<1>6. Mute(syncs)
  <2>1. ASSUME NEW p \in Machine
        PROVE  syncs[p] = <<>> \/ \E y \in NodeSyncMessage : syncs[p] = <<y>>
    <3>1. sync(p) \in SUBSET Vertex
      BY NeighboursOf
    <3> HIDE DEF sync
    <3>2. [type |-> "NODE_SYNC", ngh |-> sync(p)] \in NodeSyncMessage
      BY <3>1 DEF NodeSyncMessage
    <3> QED
      BY <3>2 DEF NodeSyncTo
  <2>2. Alone(syncs, NodeSyncMessage)
    BY <2>1 DEF Alone
  <2> HIDE DEF syncs
  <2> QED
    BY <2>2, KindsMessages, AloneMute
<1> HIDE DEF post, found, size, syncs, tasks
<1>7. Carries(results, x, IF msg.for = x THEN size ELSE 0, IF msg.for = x THEN 0 - post ELSE 0)
  BY <1>2, <1>3, <1>4, <1>5, NodeResultCarries
<1>8. Carries(syncs, x, 0, 0)
  BY <1>6, MuteCarries
<1> HIDE DEF results
<1>9. Carries(And(syncs, tasks), x, 0 + 0, 0 + (IF msg.for = x THEN post ELSE 0))
  BY <1>5, <1>8, CarriesAnd
<1>10. Carries(And(results, And(syncs, tasks)), x,
               (IF msg.for = x THEN size ELSE 0) + (0 + 0),
               (IF msg.for = x THEN 0 - post ELSE 0) + (0 + (IF msg.for = x THEN post ELSE 0)))
  BY <1>7, <1>9, CarriesAnd
<1>11. /\ (IF msg.for = x THEN size ELSE 0) + (0 + 0) = IF msg.for = x THEN size ELSE 0
       /\ (IF msg.for = x THEN 0 - post ELSE 0) + (0 + (IF msg.for = x THEN post ELSE 0)) = 0
  BY <1>3, <1>5
<1>12. Carries(And(results, And(syncs, tasks)), x, IF msg.for = x THEN size ELSE 0, 0)
  BY <1>10, <1>11 DEF Carries
<1> QED
  BY <1>1, <1>3, <1>12 DEF size

(* A product with 0 or 1.                                                  *)
LEMMA Times ==
  ASSUME NEW c \in {0, 1}, NEW n \in Nat
  PROVE  /\ c * n = (IF c = 1 THEN n ELSE 0) /\ c * n \in Nat
         /\ (1 - c) * n = (IF c = 1 THEN 0 ELSE n) /\ (1 - c) * n \in Nat
<1>1. 1 * n = n /\ 0 * n = 0 /\ (1 - 1) * n = 0 /\ (1 - 0) * n = n
  OBVIOUS
<1> QED
  BY <1>1

(* What a machine answers to a request of neighbours.                      *)
LEMMA ListAnswersCarry ==
  ASSUME NEW m \in Machine, NEW msg \in TaskMessage, NEW x \in Machine
  PROVE  /\ Size(msg.lists) \in Nat
         /\ Carries(ListAnswers(m, msg), x,
                    IF msg.for = x /\ msg.core = 1 THEN Size(msg.lists) ELSE 0,
                    IF msg.for = x /\ msg.core = 0 THEN Size(msg.lists) ELSE 0)
<1> DEFINE count == Size(msg.lists)
           kept == {v \in InList(m, msg) \ q[m].visited : ~msg.fill \/ v < msg.bound}
           a == msg.core * count
           b == (1 - msg.core) * count
<1>1. msg.for \in Machine /\ msg.lists \in Bag /\ msg.core \in {0, 1}
  BY CountFields
<1>2. count \in Nat
  BY <1>1, BagSize
<1>3. kept \in SUBSET Vertex
  BY NeighboursOf DEF InList
<1>4. ListAnswers(m, msg) = PostRemoteResult(msg.for, ResultTo(kept, a, b))
  BY DEF ListAnswers
<1> HIDE DEF count, kept
<1>5. /\ a = (IF msg.core = 1 THEN count ELSE 0) /\ a \in Nat
      /\ b = (IF msg.core = 1 THEN 0 ELSE count) /\ b \in Nat
  BY <1>1, <1>2, Times
<1> HIDE DEF a, b
<1>6. Carries(ListAnswers(m, msg), x, IF msg.for = x THEN a ELSE 0, IF msg.for = x THEN b ELSE 0)
  BY <1>1, <1>3, <1>4, <1>5, ResultCarries
<1>7. /\ (IF msg.for = x THEN a ELSE 0) = (IF msg.for = x /\ msg.core = 1 THEN count ELSE 0)
      /\ (IF msg.for = x THEN b ELSE 0) = (IF msg.for = x /\ msg.core = 0 THEN count ELSE 0)
  BY <1>1, <1>5
<1>8. Carries(ListAnswers(m, msg), x, IF msg.for = x /\ msg.core = 1 THEN count ELSE 0,
              IF msg.for = x /\ msg.core = 0 THEN count ELSE 0)
  BY <1>6, <1>7 DEF Carries
<1> QED
  BY <1>2, <1>8 DEF count
-----------------------------------------------------------------------------
(* Types and counts of one machine.                                        *)

(* The fields of a query.                                                  *)
LEMMA QueryFields ==
  ASSUME NEW s \in QueryMsg
  PROVE  /\ s.state \in State /\ s.isNew \in BOOLEAN
         /\ s.queued \in Nat /\ s.ret \in BOOLEAN /\ s.freed \in BOOLEAN
         /\ s.cand \in Bag /\ s.top \in Bag /\ s.result \in Bag
         /\ s.visited \in SUBSET Vertex /\ s.local \in Bag
         /\ s.stolen \in Seq(SUBSET Vertex) /\ s.micro \in SUBSET Vertex
         /\ s.found \in Bag /\ s.arrived \in SUBSET Vertex
         /\ s.core \in Nat /\ s.nocore \in Nat /\ s.due \in Int /\ s.nodue \in Int
         /\ s.token \in BOOLEAN /\ s.tokenBlack \in BOOLEAN /\ s.procBlack \in BOOLEAN
         /\ s.lastWhite \in BOOLEAN /\ s.step \in Nat /\ s.bound \in Nat
         /\ s.add \in Bag /\ s.ngh \in [Machine -> SUBSET Vertex]
BY DEF QueryMsg

(* What a sub-query waits for is what is still to come.                    *)
Bal(x, s, rd, ch) ==
  /\ s.due = s.core + Size(s.local) + Len(s.stolen) + Size(rd) + Flight(CW(x), ch)
  /\ s.nodue = s.nocore + Flight(NW(x), ch)

Due(x, s, rd, ch) ==
  /\ s.isNew => s.due = 0 /\ s.nodue = 0
  /\ s.state # "END" => Bal(x, s, rd, ch)

DueInv ==
  fault # "late" => \A m \in Machine : Due(m, q[m], read[m], chan)

(* Nothing under way to or for another machine than m has changed.         *)
SameElsewhere(m, ch) ==
  \A x \in Machine \ {m} : /\ Flight(CW(x), ch) = Flight(CW(x), chan)
                           /\ Flight(NW(x), ch) = Flight(NW(x), chan)

(* A step of machine m that keeps types and counts.                        *)
Counted(m, t, r, d) ==
  /\ q' = [q EXCEPT ![m] = t] /\ read' = [read EXCEPT ![m] = r] /\ chan' = d
  /\ fault' \in {"none", "abort", "late"}
  /\ fault' # "late" => fault # "late" /\ SameElsewhere(m, d) /\ Due(m, t, r, d)
Stepped(m) == \E t \in QueryMsg, r \in Bag, d \in Nets : Counted(m, t, r, d)

(* Channels have their type.                                               *)
LEMMA NetsTyped == Nets = [Machine -> [Machine -> Seq(Message)]]
BY DEF Nets, Rows

(* Such a step keeps the invariant.                                        *)
LEMMA SteppedKeeps ==
  ASSUME TypeOK, DueInv, NEW m \in Machine, Stepped(m)
  PROVE  TypeOK' /\ DueInv'
<1>1. PICK t \in QueryMsg, r \in Bag, d \in Nets : Counted(m, t, r, d)
  BY DEF Stepped
<1>2. q \in [Machine -> QueryMsg] /\ read \in [Machine -> Bag]
  BY DEF TypeOK
<1>3. /\ q' = [q EXCEPT ![m] = t] /\ read' = [read EXCEPT ![m] = r] /\ chan' = d
      /\ fault' \in {"none", "abort", "late"}
  BY <1>1 DEF Counted
<1>4. q' \in [Machine -> QueryMsg] /\ read' \in [Machine -> Bag]
  BY <1>2, <1>3
<1>5. TypeOK'
  BY <1>3, <1>4, NetsTyped DEF TypeOK
<1>6. ASSUME fault' # "late", NEW x \in Machine PROVE Due(x, q'[x], read'[x], chan')
  <2>1. fault # "late" /\ SameElsewhere(m, d) /\ Due(m, t, r, d)
    BY <1>1, <1>6 DEF Counted
  <2>2. CASE x = m
    <3>1. q'[x] = t /\ read'[x] = r
      BY <1>2, <1>3, <2>2
    <3> QED
      BY <1>3, <2>1, <2>2, <3>1
  <2>3. CASE x # m
    <3>1. q'[x] = q[x] /\ read'[x] = read[x]
      BY <1>2, <1>3, <2>3
    <3>2. Due(x, q[x], read[x], chan)
      BY <2>1 DEF DueInv
    <3>3. /\ Flight(CW(x), d) = Flight(CW(x), chan)
          /\ Flight(NW(x), d) = Flight(NW(x), chan)
      BY <2>1, <2>3 DEF SameElsewhere
    <3>4. Due(x, q[x], read[x], d)
      BY <3>2, <3>3 DEF Due, Bal
    <3> QED
      BY <1>3, <3>1, <3>4
  <2> QED
    BY <2>2, <2>3
<1>7. DueInv'
  BY <1>6 DEF DueInv
<1> QED
  BY <1>5, <1>7

(* The channel after a row of messages has been posted.                    *)
LEMMA CarriesPosted ==
  ASSUME NEW ch \in Nets, NEW m \in Machine, NEW x \in Machine, NEW out, NEW c, NEW n,
         Carries(out, x, c, n)
  PROVE  /\ Posted(ch, m, out) \in Nets
         /\ Flight(CW(x), Posted(ch, m, out)) = Flight(CW(x), ch) + c
         /\ Flight(NW(x), Posted(ch, m, out)) = Flight(NW(x), ch) + n
<1>1. out \in Rows /\ Row(CW(x), out) = c /\ Row(NW(x), out) = n
  BY DEF Carries
<1> QED
  BY <1>1, FlightPosted, WeightsRight

(* What is under way is counted in integers.                               *)
LEMMA FlightNumbers ==
  ASSUME NEW ch \in Nets, NEW x \in Machine
  PROVE  Flight(CW(x), ch) \in Int /\ Flight(NW(x), ch) \in Int
BY FlightInteger, WeightsRight

(* Messages that neither ask nor answer change no count.                   *)
LEMMA MutePosted ==
  ASSUME NEW ch \in Nets, NEW m \in Machine, NEW out, Mute(out)
  PROVE  /\ Posted(ch, m, out) \in Nets
         /\ \A x \in Machine :
              /\ Flight(CW(x), Posted(ch, m, out)) = Flight(CW(x), ch)
              /\ Flight(NW(x), Posted(ch, m, out)) = Flight(NW(x), ch)
<1>1. Posted(ch, m, out) \in Nets
  BY MuteCarries, CarriesPosted, Machines
<1>2. ASSUME NEW x \in Machine
      PROVE  /\ Flight(CW(x), Posted(ch, m, out)) = Flight(CW(x), ch)
             /\ Flight(NW(x), Posted(ch, m, out)) = Flight(NW(x), ch)
  <2>1. Carries(out, x, 0, 0)
    BY MuteCarries
  <2>2. /\ Flight(CW(x), Posted(ch, m, out)) = Flight(CW(x), ch) + 0
        /\ Flight(NW(x), Posted(ch, m, out)) = Flight(NW(x), ch) + 0
    BY <2>1, CarriesPosted
  <2>3. Flight(CW(x), ch) + 0 = Flight(CW(x), ch) /\ Flight(NW(x), ch) + 0 = Flight(NW(x), ch)
    BY FlightNumbers
  <2> QED
    BY <2>2, <2>3
<1> QED
  BY <1>1, <1>2

-----------------------------------------------------------------------------
(* The loop of the coroutine.                                              *)

(* A query as the loop of its coroutine finds it, with the channels ch.    *)
Ready(m, s, ch) ==
  /\ s \in QueryMsg /\ ch \in Nets /\ ~s.isNew
  /\ fault # "late" => SameElsewhere(m, ch) /\ (s.state # "END" => Bal(m, s, read[m], ch))

SameCounts(s, t) ==
  /\ t.due = s.due /\ t.nodue = s.nodue /\ t.core = s.core /\ t.nocore = s.nocore
  /\ t.local = s.local /\ t.stolen = s.stolen /\ t.isNew = s.isNew
  /\ t.state # "END" => s.state # "END"

SameFlight(ch, d) ==
  /\ d \in Nets
  /\ \A x \in Machine : /\ Flight(CW(x), d) = Flight(CW(x), ch)
                        /\ Flight(NW(x), d) = Flight(NW(x), ch)

(* A step of the loop that asks for nothing.                               *)
LEMMA StayCounted ==
  ASSUME TypeOK, NEW m \in Machine, NEW s, NEW ch, Ready(m, s, ch),
         NEW t \in QueryMsg, SameCounts(s, t), NEW d, SameFlight(ch, d),
         q' = [q EXCEPT ![m] = t], chan' = d, UNCHANGED <<read, fault>>
  PROVE  Stepped(m)
<1>1. read[m] \in Bag /\ read' = [read EXCEPT ![m] = read[m]]
  BY DEF TypeOK
<1>2. fault' = fault /\ fault' \in {"none", "abort", "late"}
  BY DEF TypeOK
<1>3. ASSUME fault # "late" PROVE SameElsewhere(m, d) /\ Due(m, t, read[m], d)
  <2>1. SameElsewhere(m, ch) /\ (s.state # "END" => Bal(m, s, read[m], ch)) /\ ~s.isNew
    BY <1>3 DEF Ready
  <2>2. SameElsewhere(m, d)
    BY <2>1 DEF SameElsewhere, SameFlight
  <2>3. t.state # "END" => Bal(m, t, read[m], d)
    BY <2>1 DEF Bal, SameFlight, SameCounts
  <2>4. ~t.isNew
    BY <2>1 DEF SameCounts
  <2> QED
    BY <2>2, <2>3, <2>4 DEF Due
<1>4. Counted(m, t, read[m], d)
  BY <1>1, <1>2, <1>3 DEF Counted
<1> QED
  BY <1>1, <1>4 DEF Stepped, SameFlight

(* The channels as they are.                                               *)
LEMMA SameChannels == ASSUME NEW ch \in Nets PROVE SameFlight(ch, ch)
BY DEF SameFlight

(* The coroutine looks again in the next round.                            *)
LEMMA RequeueCounted ==
  ASSUME TypeOK, NEW m \in Machine, NEW s, NEW ch, Ready(m, s, ch), Requeue(m, s, ch)
  PROVE  Stepped(m)
<1> DEFINE t == [s EXCEPT !.queued = @ + 1]
<1>1. s \in QueryMsg /\ ch \in Nets
  BY DEF Ready
<1>2. s.queued + 1 \in Nat
  BY <1>1, QueryFields
<1>3. t \in QueryMsg /\ SameCounts(s, t)
  BY <1>1, <1>2 DEF QueryMsg, SameCounts
<1>4. q' = [q EXCEPT ![m] = t] /\ chan' = ch /\ UNCHANGED <<read, fault>>
  BY DEF Requeue
<1> HIDE DEF t
<1> QED
  BY <1>1, <1>3, <1>4, SameChannels, StayCounted

(* The coroutine only yields.                                              *)
LEMMA YieldCounted ==
  ASSUME TypeOK, NEW m \in Machine, NEW s, NEW ch, Ready(m, s, ch), Yield(m, s, ch)
  PROVE  Stepped(m)
<1>1. s \in QueryMsg /\ ch \in Nets /\ SameCounts(s, s)
  BY DEF Ready, SameCounts
<1>2. q' = [q EXCEPT ![m] = s] /\ chan' = ch /\ UNCHANGED <<read, fault>>
  BY DEF Yield
<1> QED
  BY <1>1, <1>2, SameChannels, StayCounted

(* The synchronisation is cleared.                                         *)
LEMMA ClearedTyped ==
  ASSUME NEW s \in QueryMsg
  PROVE  SyncCleared(s) \in QueryMsg /\ SameCounts(s, SyncCleared(s))
<1> DEFINE none == [p \in Machine |-> {}]
           t == [s EXCEPT !.add = Nil, !.ngh = none, !.step = 0]
<1>1. none \in [Machine -> SUBSET Vertex] /\ Nil \in Bag
  BY NilBag
<1>2. SyncCleared(s) = t
  BY DEF SyncCleared
<1> HIDE DEF none
<1>3. t \in QueryMsg
  BY <1>1 DEF QueryMsg
<1>4. SameCounts(s, t)
  BY DEF QueryMsg, SameCounts
<1> QED
  BY <1>2, <1>3, <1>4

(* One change of counts after another.                                     *)
LEMMA SameTwice ==
  ASSUME NEW s, NEW t, NEW u, SameCounts(s, t), SameCounts(t, u)
  PROVE  SameCounts(s, u)
BY DEF SameCounts

(* The token is handed on, or there is none: the coroutine pauses.         *)
LEMMA PauseCounted ==
  ASSUME TypeOK, NEW m \in Machine, NEW s, NEW ch, Ready(m, s, ch), Pause(m, s, ch)
  PROVE  Stepped(m)
<1>1. s \in QueryMsg /\ ch \in Nets
  BY DEF Ready
<1>2. s.state = "POST_STAGE" /\ UNCHANGED <<read, fault>>
  BY DEF Pause
<1>3. CASE s.token
  <2> DEFINE white == IF m = Leader THEN ~Failed(s) ELSE s.lastWhite
             t == [s EXCEPT !.state = "PAUSE", !.token = FALSE, !.tokenBlack = FALSE,
                            !.procBlack = FALSE, !.lastWhite = white]
             taint == m # Leader /\ Failed(s)
             out == Syncs(m, s, TRUE, taint)
  <2>1. white \in BOOLEAN /\ taint \in BOOLEAN
    BY <1>1, QueryFields DEF Failed
  <2>2. q' = [q EXCEPT ![m] = SyncCleared(t)] /\ chan' = Posted(ch, m, out)
    BY <1>3 DEF Pause
  <2> HIDE DEF white, taint
  <2>3. t \in QueryMsg /\ SameCounts(s, t)
    BY <1>1, <1>2, <2>1, ZenonT(60) DEF QueryMsg, State, SameCounts
  <2>4. Mute(out)
    BY <1>1, <2>1, QueryFields, SyncsMute
  <2> HIDE DEF t, out
  <2>5. SyncCleared(t) \in QueryMsg /\ SameCounts(s, SyncCleared(t))
    BY <2>3, ClearedTyped, SameTwice
  <2>6. SameFlight(ch, Posted(ch, m, out))
    BY <1>1, <2>4, MutePosted DEF SameFlight
  <2> QED
    BY <1>2, <2>2, <2>5, <2>6, StayCounted
<1>4. CASE ~s.token
  <2> DEFINE t == [s EXCEPT !.state = "PAUSE"]
  <2>1. t \in QueryMsg /\ SameCounts(s, t)
    BY <1>1, <1>2 DEF QueryMsg, State, SameCounts
  <2>2. q' = [q EXCEPT ![m] = t] /\ chan' = ch
    BY <1>4 DEF Pause
  <2> HIDE DEF t
  <2> QED
    BY <1>1, <1>2, <2>1, <2>2, SameChannels, StayCounted
<1> QED
  BY <1>3, <1>4

(* The end of the search.                                                  *)
LEMMA ConcludeCounted ==
  ASSUME TypeOK, NEW m \in Machine, NEW s, NEW ch, Ready(m, s, ch), Conclude(m, s, ch)
  PROVE  Stepped(m)
<1> DEFINE best == Best(s.top, Knn)
           home == (m = Origin)
           near == Only(s.cand, {v \in Vertex : v < LowerBound(s.top)})
           Kept(b) == IF m = Origin THEN b ELSE Nil
           left == Kept(s.cand)
           res == Kept(best)
           t == [s EXCEPT !.state = "END", !.coro = "over", !.cand = left, !.top = Nil,
                          !.result = res, !.ret = home]
           d == IF m = Origin THEN ch ELSE Posted(ch, m, Migrate(near, best))
<1>1. s \in QueryMsg /\ ch \in Nets /\ Knn \in Int
  BY SizeAssumption DEF Ready
<1>2. best \in Bag /\ Nil \in Bag /\ s.cand \in Bag /\ near \in Bag
  BY <1>1, QueryFields, BestBag, NilBag, OnlyBag
<1>3. home \in BOOLEAN /\ left \in Bag /\ res \in Bag
  BY <1>2
<1>4. q' = [q EXCEPT ![m] = t] /\ chan' = d /\ UNCHANGED <<read, fault>>
  BY DEF Conclude
<1> HIDE DEF best, home, near, left, res
<1>5. t \in QueryMsg /\ SameCounts(s, t)
  BY <1>1, <1>2, <1>3 DEF QueryMsg, State, SameCounts
<1>6. SameFlight(ch, d)
  <2>1. CASE m = Origin
    BY <1>1, <2>1, SameChannels
  <2>2. CASE m # Origin
    BY <1>1, <1>2, <2>2, MigrateMute, MutePosted DEF SameFlight
  <2> QED
    BY <2>1, <2>2
<1> HIDE DEF t, d
<1> QED
  BY <1>4, <1>5, <1>6, StayCounted

(* A group of candidates is a bag.                                         *)
LEMMA GroupBag == ASSUME NEW s \in QueryMsg PROVE Group(s) \in Bag
<1>1. s.cand \in Bag /\ CandGroup \in Int
  BY QueryFields, SizeAssumption
<1>2. Only(s.cand, {v \in Vertex : v <= LowerBound(s.top)}) \in Bag
  BY <1>1, OnlyBag
<1> QED
  BY <1>1, <1>2, BestBag DEF Group

(* The vertices read for a group are a bag.                                *)
LEMMA ReadsBag ==
  ASSUME NEW own \in Bag
  PROVE  [v \in Vertex |-> Size(Only(own, {n \in Vertex : v \in Inline(n)}))] \in Bag
<1>1. \A v \in Vertex : Size(Only(own, {n \in Vertex : v \in Inline(n)})) \in Nat
  BY OnlyBag, BagSize
<1> QED
  BY <1>1 DEF Bag

(* One round of the search: as many answers are due as are asked for.      *)
LEMMA ExpandCounted ==
  ASSUME TypeOK, NEW m \in Machine, NEW s, NEW ch, Ready(m, s, ch), Expand(m, s, ch)
  PROVE  Stepped(m)
<1>1. PICK g \in {Group(s)} \ {Nil} : ExpandGroup(m, s, ch, g)
  BY DEF Expand
<1>2. s \in QueryMsg /\ ch \in Nets /\ g \in Bag /\ ~s.isNew
  BY <1>1, GroupBag DEF Ready
<1> DEFINE own == Only(g, Owned(m))
           local == Only(own, {n \in Vertex : NghOn(n, m) # {}})
           reads == [v \in Vertex |-> Size(Only(own, {n \in Vertex : v \in Inline(n)}))]
           away == SumFunction(Away(m, g))
           posted == Size(local) + Size(reads) + away
           full == s.step + 1 >= SyncBar
           ngh == [p \in Machine |->
                     IF p \in Core \ {m}
                       THEN s.ngh[p] \cup UNION {NghOn(n, p) : n \in Support(own)}
                       ELSE {}]
           cand == Minus(s.cand, g)
           locals == Plus(s.local, local)
           due == s.due + posted
           step == s.step + 1
           queued == s.queued + (IF s.state = "POST_STAGE" THEN 1 ELSE 0)
           bound == IF full THEN LowerBound(s.top) ELSE s.bound
           t == [s EXCEPT !.cand = cand, !.local = locals, !.due = due, !.step = step,
                          !.queued = queued, !.bound = bound, !.ngh = ngh]
           tt == IF full THEN SyncCleared(t) ELSE t
           rd == Plus(read[m], reads)
           syncs == IF full THEN Syncs(m, t, FALSE, FALSE) ELSE Nothing
           out == And(Tasks(m, s, g), syncs)
<1>3. /\ q' = [q EXCEPT ![m] = tt] /\ read' = [read EXCEPT ![m] = rd]
      /\ chan' = Posted(ch, m, out) /\ UNCHANGED fault
  BY <1>1 DEF ExpandGroup, Away
<1>4. own \in Bag
  BY <1>2, OnlyBag
<1>5. local \in Bag
  BY <1>4, OnlyBag
<1>6. reads \in Bag
  BY <1>4, ReadsBag
<1>7. away \in Int /\ \A x \in Machine :
        Carries(Tasks(m, s, g), x, IF x = m THEN away ELSE 0, 0)
  BY <1>2, QueryFields, TasksCarry
<1>8. ngh \in [Machine -> SUBSET Vertex]
  <2>1. \A p \in Machine : s.ngh[p] \in SUBSET Vertex
    BY <1>2, QueryFields
  <2>2. \A p \in Machine : UNION {NghOn(n, p) : n \in Support(own)} \in SUBSET Vertex
    BY NeighboursOf
  <2> HIDE DEF own
  <2> QED
    BY <2>1, <2>2
<1>9. queued \in Nat /\ bound \in Nat /\ step \in Nat
  <2>1. s.queued \in Nat /\ s.bound \in Nat /\ s.step \in Nat /\ LowerBound(s.top) \in Nat
    BY <1>2, QueryFields, BoundNumber
  <2> QED
    BY <2>1
<1>10. cand \in Bag /\ read[m] \in Bag
  BY <1>2, QueryFields, MinusBag DEF TypeOK
<1> HIDE DEF own, local, reads, away, ngh, queued, bound, step, full, cand
<1>11. /\ locals \in Bag /\ Size(locals) = Size(s.local) + Size(local)
       /\ rd \in Bag /\ Size(rd) = Size(read[m]) + Size(reads)
  BY <1>2, <1>5, <1>6, <1>10, QueryFields, PlusBag
<1>12. /\ Size(local) \in Nat /\ Size(reads) \in Nat /\ Size(s.local) \in Nat
       /\ Size(read[m]) \in Nat /\ Len(s.stolen) \in Nat /\ s.core \in Nat /\ s.due \in Int
  BY <1>2, <1>5, <1>6, <1>10, QueryFields, BagSize
<1>13. due \in Int
  BY <1>7, <1>12
<1> HIDE DEF locals, rd, due, posted
<1>14. t \in QueryMsg
  BY <1>2, <1>8, <1>9, <1>10, <1>11, <1>13 DEF QueryMsg
<1>15. /\ t.due = due /\ t.nodue = s.nodue /\ t.core = s.core /\ t.nocore = s.nocore
       /\ t.local = locals /\ t.stolen = s.stolen /\ t.isNew = s.isNew /\ t.state = s.state
  BY <1>2 DEF QueryMsg
<1>16. Mute(syncs)
  <2>1. Mute(Syncs(m, t, FALSE, FALSE))
    <3>1. t.add \in Bag /\ t.ngh \in [Machine -> SUBSET Vertex]
      BY <1>14, QueryFields
    <3> HIDE DEF t
    <3> QED
      BY <3>1, SyncsMute
  <2> QED
    BY <2>1, NothingMute
<1> HIDE DEF t, syncs
<1>17. tt \in QueryMsg /\ SameCounts(t, tt)
  BY <1>14, ClearedTyped DEF SameCounts
<1> HIDE DEF tt
<1>18. ASSUME NEW x \in Machine
       PROVE  /\ Posted(ch, m, out) \in Nets
              /\ Flight(CW(x), Posted(ch, m, out)) =
                   Flight(CW(x), ch) + (IF x = m THEN away ELSE 0)
              /\ Flight(NW(x), Posted(ch, m, out)) = Flight(NW(x), ch)
  <2>1. Carries(out, x, (IF x = m THEN away ELSE 0) + 0, 0 + 0)
    BY <1>7, <1>16, MuteCarries, CarriesAnd
  <2>2. PICK n \in Int : n = (IF x = m THEN away ELSE 0) /\ Carries(out, x, n + 0, 0 + 0)
    BY <1>7, <2>1
  <2> HIDE DEF out
  <2>3. /\ Posted(ch, m, out) \in Nets
        /\ Flight(CW(x), Posted(ch, m, out)) = Flight(CW(x), ch) + (n + 0)
        /\ Flight(NW(x), Posted(ch, m, out)) = Flight(NW(x), ch) + (0 + 0)
    BY <1>2, <2>2, CarriesPosted
  <2>4. PICK a \in Int, b \in Int : a = Flight(CW(x), ch) /\ b = Flight(NW(x), ch)
    BY <1>2, FlightNumbers
  <2>5. a + (n + 0) = a + n /\ b + (0 + 0) = b
    OBVIOUS
  <2> QED
    BY <2>2, <2>3, <2>4, <2>5
<1> DEFINE d == Posted(ch, m, out)
<1> HIDE DEF out, d
<1>19. d \in Nets /\ \A x \in Machine :
         /\ Flight(CW(x), d) = Flight(CW(x), ch) + (IF x = m THEN away ELSE 0)
         /\ Flight(NW(x), d) = Flight(NW(x), ch)
  BY <1>18 DEF d
<1>20. ASSUME fault # "late" PROVE SameElsewhere(m, d) /\ Due(m, tt, rd, d)
  <2>1. SameElsewhere(m, ch) /\ (s.state # "END" => Bal(m, s, read[m], ch))
    BY <1>20 DEF Ready
  <2>2. SameElsewhere(m, d)
    <3> SUFFICES ASSUME NEW x \in Machine \ {m}
                 PROVE  /\ Flight(CW(x), d) = Flight(CW(x), chan)
                        /\ Flight(NW(x), d) = Flight(NW(x), chan)
      BY DEF SameElsewhere
    <3>1. Flight(CW(x), ch) = Flight(CW(x), chan) /\ Flight(NW(x), ch) = Flight(NW(x), chan)
      BY <2>1 DEF SameElsewhere
    <3>2. Flight(CW(x), d) = Flight(CW(x), ch) + 0 /\ Flight(NW(x), d) = Flight(NW(x), ch)
      BY <1>19
    <3>3. Flight(CW(x), ch) \in Int
      BY <1>2, FlightNumbers
    <3> QED
      BY <3>1, <3>2, <3>3
  <2>3. ASSUME s.state # "END" PROVE Bal(m, tt, rd, d)
    <3>1. /\ s.due = s.core + Size(s.local) + Len(s.stolen) + Size(read[m]) + Flight(CW(m), ch)
          /\ s.nodue = s.nocore + Flight(NW(m), ch)
      BY <2>1, <2>3 DEF Bal
    <3>2. Flight(CW(m), ch) \in Int
      BY <1>2, FlightNumbers
    <3>3. s.due + (Size(local) + Size(reads) + away) =
            s.core + (Size(s.local) + Size(local)) + Len(s.stolen)
              + (Size(read[m]) + Size(reads)) + (Flight(CW(m), ch) + away)
      <4>1. PICK c \in Nat, l \in Nat, n \in Nat, r \in Nat, f \in Int, a \in Nat, b \in Nat,
                 w \in Int :
              /\ c = s.core /\ l = Size(s.local) /\ n = Len(s.stolen) /\ r = Size(read[m])
              /\ f = Flight(CW(m), ch) /\ a = Size(local) /\ b = Size(reads) /\ w = away
        BY <1>7, <1>12, <3>2
      <4>2. (c + l + n + r + f) + (a + b + w) = c + (l + a) + n + (r + b) + (f + w)
        OBVIOUS
      <4> QED
        BY <3>1, <4>1, <4>2
    <3>4. tt.due = s.due + (Size(local) + Size(reads) + away)
      BY <1>15, <1>17 DEF SameCounts, due, posted
    <3>5. /\ tt.core = s.core /\ tt.local = locals /\ tt.stolen = s.stolen
          /\ tt.nodue = s.nodue /\ tt.nocore = s.nocore
      BY <1>15, <1>17 DEF SameCounts
    <3>6. Flight(CW(m), d) = Flight(CW(m), ch) + away /\ Flight(NW(m), d) = Flight(NW(m), ch)
      BY <1>19
    <3>7. tt.due = tt.core + Size(tt.local) + Len(tt.stolen) + Size(rd) + Flight(CW(m), d)
      BY <1>11, <3>3, <3>4, <3>5, <3>6
    <3> QED
      BY <3>1, <3>5, <3>6, <3>7 DEF Bal
  <2>4. ~tt.isNew /\ (tt.state # "END" => s.state # "END")
    BY <1>2, <1>15, <1>17 DEF SameCounts
  <2> QED
    BY <2>2, <2>3, <2>4 DEF Due
<1>21. fault' = fault /\ fault' \in {"none", "abort", "late"}
  BY <1>3 DEF TypeOK
<1>22. Counted(m, tt, rd, d)
  BY <1>3, <1>20, <1>21 DEF Counted, d
<1> QED
  BY <1>11, <1>17, <1>19, <1>22 DEF Stepped

(* The coroutine runs until it yields.                                     *)
LEMMA LoopCounted ==
  ASSUME TypeOK, NEW m \in Machine, NEW s, NEW ch, Ready(m, s, ch), Loop(m, s, ch)
  PROVE  Stepped(m)
BY ExpandCounted, RequeueCounted, YieldCounted, PauseCounted, ConcludeCounted DEF Loop

-----------------------------------------------------------------------------
(* Steps of the threads of a machine.                                      *)

(* What arrives at a query and what enters its pool are bags.              *)
LEMMA ArrivalBags ==
  ASSUME NEW m, NEW s \in QueryMsg
  PROVE  /\ Arrivals(m, s) \in Bag
         /\ \A items \in Bag : Pool(s.top, items) \in Bag /\ Accepted(s.top, items) \in Bag
<1>1. s.top \in Bag /\ s.found \in Bag /\ Ef \in Int
  BY QueryFields, SizeAssumption
<1>2. Arrivals(m, s) \in Bag
  BY <1>1, OnesBag, PlusBag DEF Arrivals
<1>3. ASSUME NEW items \in Bag
      PROVE  Pool(s.top, items) \in Bag /\ Accepted(s.top, items) \in Bag
  <2>1. Pool(s.top, items) \in Bag
    BY <1>1, PlusBag, BestBag DEF Pool
  <2> QED
    BY <1>1, <2>1, MinusBag DEF Accepted
<1> QED
  BY <1>2, <1>3

(* What a resumed coroutine takes in is no longer to come.                 *)
LEMMA TakeInCounted ==
  ASSUME NEW m \in Machine, NEW s \in QueryMsg, s.queued > 0, NEW passing
  PROVE  /\ TakeIn(m, s, passing) \in QueryMsg
         /\ TakeIn(m, s, passing).isNew = s.isNew
         /\ TakeIn(m, s, passing).state = s.state
         /\ \A rd \in Bag, ch \in Nets :
              Bal(m, s, rd, ch) => Bal(m, TakeIn(m, s, passing), rd, ch)
<1> DEFINE items == Arrivals(m, s)
           new == Plus(Accepted(s.top, items), Ones(passing))
           seen == s.visited \cup s.micro \cup s.arrived \cup
                     UNION {NghOn(n, m) : n \in Support(s.local)}
           queued == s.queued - 1
           due == s.due - s.core - Size(s.local)
           nodue == s.nodue - s.nocore
           top == Pool(s.top, items)
           cand == Plus(s.cand, new)
           add == Plus(s.add, new)
           black == s.procBlack \/ new # Nil
           none == 0
           t == [s EXCEPT !.queued = queued, !.visited = seen,
                          !.micro = {}, !.arrived = {}, !.found = Nil, !.local = Nil,
                          !.core = none, !.nocore = none, !.due = due, !.nodue = nodue,
                          !.top = top, !.cand = cand, !.add = add, !.procBlack = black]
<1>1. TakeIn(m, s, passing) = t
  BY DEF TakeIn
<1>2. items \in Bag /\ top \in Bag /\ new \in Bag
  <2>1. items \in Bag
    BY ArrivalBags
  <2>2. top \in Bag /\ Accepted(s.top, items) \in Bag
    BY <2>1, ArrivalBags
  <2> QED
    BY <2>1, <2>2, OnesBag, PlusBag
<1> HIDE DEF items, new
<1>3. cand \in Bag /\ add \in Bag /\ Nil \in Bag
  BY <1>2, QueryFields, PlusBag, NilBag
<1>4. seen \in SUBSET Vertex /\ {} \in SUBSET Vertex
  BY QueryFields, NeighboursOf
<1>5. /\ s.core \in Nat /\ s.nocore \in Nat /\ s.due \in Int /\ s.nodue \in Int
      /\ Size(s.local) \in Nat /\ Len(s.stolen) \in Nat /\ s.queued \in Nat
  BY QueryFields, BagSize
<1>6. queued \in Nat /\ due \in Int /\ nodue \in Int /\ none \in Nat
  BY <1>5
<1>7. black \in BOOLEAN
  BY QueryFields
<1> HIDE DEF queued, seen, due, nodue, top, cand, add, black, none
<1>8. t \in QueryMsg
  BY <1>2, <1>3, <1>4, <1>6, <1>7, ZenonT(60) DEF QueryMsg
<1>9. /\ t.isNew = s.isNew /\ t.state = s.state /\ t.due = due /\ t.nodue = nodue
      /\ t.core = none /\ t.nocore = none /\ t.local = Nil /\ t.stolen = s.stolen
  BY DEF QueryMsg
<1> HIDE DEF t
<1>10. ASSUME NEW rd \in Bag, NEW ch \in Nets, Bal(m, s, rd, ch) PROVE Bal(m, t, rd, ch)
  <2>1. PICK c \in Nat, l \in Nat, n \in Nat, r \in Nat, f \in Int, k \in Nat, g \in Int :
          /\ c = s.core /\ l = Size(s.local) /\ n = Len(s.stolen) /\ r = Size(rd)
          /\ f = Flight(CW(m), ch) /\ k = s.nocore /\ g = Flight(NW(m), ch)
    BY <1>5, BagSize, FlightNumbers
  <2>2. s.due = c + l + n + r + f /\ s.nodue = k + g
    BY <1>10, <2>1 DEF Bal
  <2>3. due = 0 + 0 + n + r + f /\ nodue = 0 + g
    <3>1. due = (c + l + n + r + f) - c - l /\ nodue = (k + g) - k
      BY <2>1, <2>2 DEF due, nodue
    <3>2. (c + l + n + r + f) - c - l = 0 + 0 + n + r + f /\ (k + g) - k = 0 + g
      OBVIOUS
    <3> QED
      BY <3>1, <3>2
  <2>4. t.core = 0 /\ t.nocore = 0 /\ Size(t.local) = 0 /\ Len(t.stolen) = n
    BY <1>9, <2>1, NilBag DEF none
  <2> QED
    BY <1>9, <2>1, <2>3, <2>4 DEF Bal
<1> QED
  BY <1>1, <1>8, <1>9, <1>10

(* A query that runs is not new.                                           *)
LEMMA Started ==
  ASSUME TokenInv, NEW m \in Machine, q[m].coro # "none"
  PROVE  ~q[m].isNew
BY DEF TokenInv, Global, Records

(* The coroutine is resumed.                                               *)
LEMMA ResumeCounted ==
  ASSUME TypeOK, TokenInv, DueInv, NEW m \in Machine, Resume(m)
  PROVE  Stepped(m)
<1> DEFINE s == q[m]
<1>1. /\ s.queued > 0 /\ s.coro = "loop" /\ s \in QueryMsg /\ chan \in Nets /\ read[m] \in Bag
  BY NetsTyped DEF Resume, TypeOK
<1>2. PICK passing : Loop(m, TakeIn(m, s, passing), chan)
  BY DEF Resume
<1>3. ~s.isNew
  BY <1>1, Started
<1>4. fault # "late" => Due(m, s, read[m], chan)
  BY DEF DueInv
<1> HIDE DEF s
<1>5. PICK t : t = TakeIn(m, s, passing)
  OBVIOUS
<1>6. /\ t \in QueryMsg /\ t.isNew = s.isNew /\ t.state = s.state
      /\ Bal(m, s, read[m], chan) => Bal(m, t, read[m], chan)
  BY <1>1, <1>5, TakeInCounted
<1>7. SameElsewhere(m, chan)
  BY DEF SameElsewhere
<1>8. Ready(m, t, chan)
  BY <1>1, <1>3, <1>4, <1>6, <1>7 DEF Ready, Due
<1> QED
  BY <1>2, <1>5, <1>8, LoopCounted

(* A step that leaves the channels alone.                                  *)
LEMMA OwnStep ==
  ASSUME TypeOK, NEW m \in Machine, NEW t \in QueryMsg, NEW r \in Bag,
         q' = [q EXCEPT ![m] = t], read' = [read EXCEPT ![m] = r], chan' = chan,
         fault # "late", fault' \in {"none", "abort", "late"},
         fault' # "late" => Due(m, t, r, chan)
  PROVE  Stepped(m)
<1>1. chan \in Nets /\ SameElsewhere(m, chan)
  BY NetsTyped DEF TypeOK, SameElsewhere
<1>2. Counted(m, t, r, chan)
  BY <1>1 DEF Counted
<1> QED
  BY <1>1, <1>2 DEF Stepped

(* The same counts are due.                                                *)
LEMMA DueSame ==
  ASSUME NEW x, NEW s, NEW t, NEW rd, NEW ch, SameCounts(s, t), Due(x, s, rd, ch)
  PROVE  Due(x, t, rd, ch)
BY DEF SameCounts, Due, Bal

(* A paused coroutine is woken.                                            *)
LEMMA WokenCounted ==
  ASSUME NEW s \in QueryMsg
  PROVE  Woken(s) \in QueryMsg /\ SameCounts(s, Woken(s))
<1>1. CASE s.state = "PAUSE"
  <2> DEFINE t == [s EXCEPT !.state = "POST_STAGE", !.queued = @ + 1]
  <2>1. s.queued + 1 \in Nat
    BY QueryFields
  <2>2. t \in QueryMsg /\ SameCounts(s, t)
    BY <1>1, <2>1 DEF QueryMsg, State, SameCounts
  <2>3. Woken(s) = t
    BY <1>1 DEF Woken
  <2> QED
    BY <2>2, <2>3
<1>2. CASE s.state # "PAUSE"
  BY <1>2 DEF Woken, SameCounts
<1> QED
  BY <1>1, <1>2

(* A task moves from the queue to a thief.                                 *)
LEMMA StealCounted ==
  ASSUME TypeOK, DueInv, NEW m \in Machine, NEW n \in Vertex, Steal(m, n)
  PROVE  Stepped(m)
<1> DEFINE s == q[m]
           mine == NghOn(n, m) \ s.visited
           local == Minus(s.local, Ones({n}))
           stolen == Append(s.stolen, mine)
           t == [s EXCEPT !.local = local, !.stolen = stolen]
<1>1. /\ s \in QueryMsg /\ fault = "none" /\ s.local[n] > 0 /\ read[m] \in Bag
      /\ read' = [read EXCEPT ![m] = read[m]] /\ chan' = chan
      /\ fault' \in {"none", "abort", "late"}
  BY DEF Steal, TypeOK
<1>2. q' = [q EXCEPT ![m] = t]
  BY DEF Steal, PopTask
<1>3. Due(m, s, read[m], chan)
  BY <1>1 DEF DueInv
<1>4. s.local \in Bag /\ s.stolen \in Seq(SUBSET Vertex) /\ s.core \in Nat
  BY <1>1, QueryFields
<1>5. mine \in SUBSET Vertex
  BY GraphAssumption DEF NghOn, Owned
<1> HIDE DEF s, mine
<1>6. local \in Bag /\ Size(local) = Size(s.local) - 1 /\ Size(s.local) \in Nat
  BY <1>1, <1>4, LessOne, BagSize
<1>7. stolen \in Seq(SUBSET Vertex) /\ Len(stolen) = Len(s.stolen) + 1 /\ Len(s.stolen) \in Nat
  BY <1>4, <1>5
<1> HIDE DEF local, stolen
<1>8. t \in QueryMsg
  BY <1>1, <1>6, <1>7 DEF QueryMsg
<1>9. /\ t.isNew = s.isNew /\ t.state = s.state /\ t.due = s.due /\ t.nodue = s.nodue
      /\ t.core = s.core /\ t.nocore = s.nocore /\ t.local = local /\ t.stolen = stolen
  BY <1>1 DEF QueryMsg
<1> HIDE DEF t
<1>10. Bal(m, s, read[m], chan) => Bal(m, t, read[m], chan)
  <2>1. PICK c \in Nat, l \in Nat, k \in Nat :
          c = s.core /\ l = Size(s.local) /\ k = Len(s.stolen)
    BY <1>4, <1>6, <1>7
  <2>2. c + l + k = c + (l - 1) + (k + 1)
    OBVIOUS
  <2>3. s.core + Size(s.local) + Len(s.stolen) = t.core + Size(t.local) + Len(t.stolen)
    BY <1>6, <1>7, <1>9, <2>1, <2>2
  <2> QED
    BY <1>9, <2>3 DEF Bal
<1>11. Due(m, t, read[m], chan)
  BY <1>3, <1>9, <1>10 DEF Due
<1> QED
  BY <1>1, <1>2, <1>8, <1>11, OwnStep

(* A list without one entry.                                               *)
LEMMA RemoveOne ==
  ASSUME NEW T, NEW z \in Seq(T), NEW k \in DOMAIN z
  PROVE  RemoveAt(z, k) \in Seq(T) /\ Len(RemoveAt(z, k)) = Len(z) - 1 /\ z[k] \in T
<1>1. Len(z) \in Nat /\ k \in 1 .. Len(z) /\ z[k] \in T
  OBVIOUS
<1>2. SubSeq(z, 1, k - 1) \in Seq(T) /\ Len(SubSeq(z, 1, k - 1)) = k - 1
  BY <1>1, SubSeqProperties
<1>3. SubSeq(z, k + 1, Len(z)) \in Seq(T) /\ Len(SubSeq(z, k + 1, Len(z))) = Len(z) - k
  BY <1>1, SubSeqProperties
<1>4. PICK a \in Seq(T), b \in Seq(T) :
        /\ a = SubSeq(z, 1, k - 1) /\ b = SubSeq(z, k + 1, Len(z))
        /\ Len(a) = k - 1 /\ Len(b) = Len(z) - k
  BY <1>2, <1>3
<1>5. a \o b \in Seq(T) /\ Len(a \o b) = Len(a) + Len(b)
  BY ConcatProperties
<1>6. Len(a) + Len(b) = Len(z) - 1
  <2>1. PICK n \in Nat, i \in Int : n = Len(z) /\ i = k
    BY <1>1
  <2>2. (i - 1) + (n - i) = n - 1
    OBVIOUS
  <2> QED
    BY <1>4, <2>1, <2>2
<1> QED
  BY <1>1, <1>4, <1>5, <1>6 DEF RemoveAt

(* A thief is done: its chunk is counted.                                  *)
LEMMA StolenCounted ==
  ASSUME TypeOK, DueInv, NEW m \in Machine, NEW k, StolenDone(m, k)
  PROVE  Stepped(m)
<1> DEFINE s == q[m]
           stolen == RemoveAt(s.stolen, k)
           core == s.core + 1
           seen == s.visited \cup s.stolen[k]
           found == Plus(s.found, Ones(s.stolen[k]))
           t == [s EXCEPT !.stolen = stolen, !.core = core, !.visited = seen, !.found = found]
<1>1. /\ s \in QueryMsg /\ fault = "none" /\ k \in DOMAIN s.stolen /\ read[m] \in Bag
      /\ read' = [read EXCEPT ![m] = read[m]] /\ chan' = chan
      /\ fault' \in {"none", "abort", "late"}
  BY DEF StolenDone, TypeOK
<1>2. q' = [q EXCEPT ![m] = t]
  BY DEF StolenDone
<1>3. Due(m, s, read[m], chan)
  BY <1>1 DEF DueInv
<1> HIDE DEF s
<1>4. s.stolen \in Seq(SUBSET Vertex) /\ s.core \in Nat /\ s.visited \in SUBSET Vertex
      /\ s.found \in Bag /\ s.local \in Bag
  BY <1>1, QueryFields
<1>5. stolen \in Seq(SUBSET Vertex) /\ Len(stolen) = Len(s.stolen) - 1
      /\ s.stolen[k] \in SUBSET Vertex /\ Len(s.stolen) \in Nat
  BY <1>1, <1>4, RemoveOne, SMTT(40)
<1>6. core \in Nat /\ seen \in SUBSET Vertex
  BY <1>4, <1>5
<1>7. found \in Bag /\ Size(s.local) \in Nat
  BY <1>4, OnesBag, PlusBag, BagSize
<1> HIDE DEF stolen, core, seen, found
<1>8. t \in QueryMsg
  BY <1>1, <1>5, <1>6, <1>7 DEF QueryMsg
<1>9. /\ t.isNew = s.isNew /\ t.state = s.state /\ t.due = s.due /\ t.nodue = s.nodue
      /\ t.core = core /\ t.nocore = s.nocore /\ t.local = s.local /\ t.stolen = stolen
  BY <1>1 DEF QueryMsg
<1> HIDE DEF t
<1>10. Bal(m, s, read[m], chan) => Bal(m, t, read[m], chan)
  <2>1. PICK c \in Nat, l \in Nat, n \in Nat :
          c = s.core /\ l = Size(s.local) /\ n = Len(s.stolen)
    BY <1>4, <1>5, <1>7
  <2>2. c + l + n = (c + 1) + l + (n - 1)
    OBVIOUS
  <2>3. s.core + Size(s.local) + Len(s.stolen) = t.core + Size(t.local) + Len(t.stolen)
    BY <1>5, <1>9, <2>1, <2>2 DEF core
  <2> QED
    BY <1>9, <2>3 DEF Bal
<1>11. Due(m, t, read[m], chan)
  BY <1>3, <1>9, <1>10 DEF Due
<1> QED
  BY <1>1, <1>2, <1>8, <1>11, OwnStep

(* A read completes.                                                       *)
LEMMA ReadCounted ==
  ASSUME TypeOK, DueInv, NEW m \in Machine, NEW v \in Vertex, ReadDone(m, v)
  PROVE  Stepped(m)
<1> DEFINE s == q[m]
           rd == Minus(read[m], Ones({v}))
           arrived == s.arrived \cup {v}
           core == s.core + 1
           t == [s EXCEPT !.arrived = arrived, !.core = core]
<1>1. /\ s \in QueryMsg /\ fault = "none" /\ read[m][v] > 0 /\ read[m] \in Bag
      /\ read' = [read EXCEPT ![m] = rd] /\ chan' = chan
      /\ fault' \in {"none", "abort", "late"} /\ q' = [q EXCEPT ![m] = Woken(t)]
  BY DEF ReadDone, TypeOK
<1>2. Due(m, s, read[m], chan)
  BY <1>1 DEF DueInv
<1> HIDE DEF s
<1>3. s.arrived \in SUBSET Vertex /\ s.core \in Nat /\ s.local \in Bag
      /\ s.stolen \in Seq(SUBSET Vertex)
  BY <1>1, QueryFields
<1>4. rd \in Bag /\ Size(rd) = Size(read[m]) - 1 /\ Size(read[m]) \in Nat
      /\ Size(s.local) \in Nat /\ Len(s.stolen) \in Nat
  BY <1>1, <1>3, LessOne, BagSize
<1>5. arrived \in SUBSET Vertex /\ core \in Nat
  BY <1>3
<1> HIDE DEF rd, arrived, core
<1>6. t \in QueryMsg
  BY <1>1, <1>5 DEF QueryMsg
<1>7. /\ t.isNew = s.isNew /\ t.state = s.state /\ t.due = s.due /\ t.nodue = s.nodue
      /\ t.core = core /\ t.nocore = s.nocore /\ t.local = s.local /\ t.stolen = s.stolen
  BY <1>1 DEF QueryMsg
<1> HIDE DEF t
<1>8. Bal(m, s, read[m], chan) => Bal(m, t, rd, chan)
  <2>1. PICK c \in Nat, l \in Nat, n \in Nat, r \in Nat :
          c = s.core /\ l = Size(s.local) /\ n = Len(s.stolen) /\ r = Size(read[m])
    BY <1>3, <1>4
  <2>2. c + l + n + r = (c + 1) + l + n + (r - 1)
    OBVIOUS
  <2>3. s.core + Size(s.local) + Len(s.stolen) + Size(read[m]) =
          t.core + Size(t.local) + Len(t.stolen) + Size(rd)
    BY <1>4, <1>7, <2>1, <2>2 DEF core
  <2> QED
    BY <1>7, <2>3 DEF Bal
<1>9. Due(m, t, rd, chan)
  BY <1>2, <1>7, <1>8 DEF Due
<1>10. Woken(t) \in QueryMsg /\ Due(m, Woken(t), rd, chan)
  BY <1>6, <1>9, WokenCounted, DueSame
<1> QED
  BY <1>1, <1>4, <1>10, OwnStep

(* The caller deletes the query.                                           *)
LEMMA ProcResCounted ==
  ASSUME TypeOK, DueInv, ProcRes
  PROVE  Stepped(Origin)
<1> DEFINE s == q[Origin]
           t == [s EXCEPT !.freed = TRUE]
<1>1. /\ s \in QueryMsg /\ fault = "none" /\ read[Origin] \in Bag /\ Origin \in Machine
      /\ read' = [read EXCEPT ![Origin] = read[Origin]] /\ chan' = chan
      /\ fault' \in {"none", "abort", "late"} /\ q' = [q EXCEPT ![Origin] = t]
  BY Machines DEF ProcRes, TypeOK
<1>2. Due(Origin, s, read[Origin], chan)
  BY <1>1 DEF DueInv
<1> HIDE DEF s
<1>3. t \in QueryMsg /\ SameCounts(s, t)
  BY <1>1 DEF QueryMsg, SameCounts
<1>4. Due(Origin, t, read[Origin], chan)
  BY <1>2, <1>3, DueSame
<1> HIDE DEF t
<1> QED
  BY <1>1, <1>3, <1>4, OwnStep

-----------------------------------------------------------------------------
(* The handlers of messages.                                               *)

(* The message msg is the next one of j to m.                              *)
First(m, j, msg) == chan[j][m] # <<>> /\ msg = Head(chan[j][m])

(* What is under way without it.                                           *)
LEMMA PoppedWeight ==
  ASSUME TypeOK, NEW m \in Machine, NEW j \in Machine, NEW msg, First(m, j, msg)
  PROVE  /\ Popped(m, j) \in Nets /\ msg \in Message /\ chan \in Nets
         /\ \A x \in Machine :
              /\ CoreAnswers(x, m, msg) \in Int /\ NoCoreAnswers(x, m, msg) \in Int
              /\ Flight(CW(x), Popped(m, j)) = Flight(CW(x), chan) - CoreAnswers(x, m, msg)
              /\ Flight(NW(x), Popped(m, j)) = Flight(NW(x), chan) - NoCoreAnswers(x, m, msg)
<1>1. chan \in Nets /\ chan[j][m] # <<>> /\ msg = Head(chan[j][m])
  BY NetsTyped DEF TypeOK, First
<1>2. ASSUME NEW x \in Machine
      PROVE  /\ Popped(m, j) \in Nets /\ msg \in Message
             /\ CW(x)[m][msg] \in Int /\ NW(x)[m][msg] \in Int
             /\ Flight(CW(x), Popped(m, j)) = Flight(CW(x), chan) - CW(x)[m][msg]
             /\ Flight(NW(x), Popped(m, j)) = Flight(NW(x), chan) - NW(x)[m][msg]
  <2>1. CW(x) \in Weights /\ NW(x) \in Weights
    BY WeightsRight
  <2> QED
    BY <1>1, <2>1, FlightPopped
<1>3. Popped(m, j) \in Nets /\ msg \in Message
  BY <1>2
<1>4. ASSUME NEW x \in Machine
      PROVE  /\ CoreAnswers(x, m, msg) \in Int /\ NoCoreAnswers(x, m, msg) \in Int
             /\ Flight(CW(x), Popped(m, j)) = Flight(CW(x), chan) - CoreAnswers(x, m, msg)
             /\ Flight(NW(x), Popped(m, j)) = Flight(NW(x), chan) - NoCoreAnswers(x, m, msg)
  <2>1. CW(x)[m][msg] = CoreAnswers(x, m, msg) /\ NW(x)[m][msg] = NoCoreAnswers(x, m, msg)
    BY <1>3, WeightsRight
  <2> QED
    BY <1>2, <2>1
<1> QED
  BY <1>1, <1>3, <1>4

(* A message that neither asks nor answers is taken.                       *)
LEMMA MutePopped ==
  ASSUME TypeOK, NEW m \in Machine, NEW j \in Machine, NEW msg, First(m, j, msg),
         msg.type \notin {"TASK", "RESULT", "NODE_RESULT"}
  PROVE  SameFlight(chan, Popped(m, j)) /\ SameElsewhere(m, Popped(m, j))
<1>1. Popped(m, j) \in Nets /\ chan \in Nets
  BY PoppedWeight
<1>2. ASSUME NEW x \in Machine
      PROVE  /\ Flight(CW(x), Popped(m, j)) = Flight(CW(x), chan)
             /\ Flight(NW(x), Popped(m, j)) = Flight(NW(x), chan)
  <2>1. CoreAnswers(x, m, msg) = 0 /\ NoCoreAnswers(x, m, msg) = 0
    BY Silent
  <2>2. /\ Flight(CW(x), Popped(m, j)) = Flight(CW(x), chan) - 0
        /\ Flight(NW(x), Popped(m, j)) = Flight(NW(x), chan) - 0
    BY <2>1, PoppedWeight
  <2>3. Flight(CW(x), chan) \in Int /\ Flight(NW(x), chan) \in Int
    BY <1>1, FlightNumbers
  <2> QED
    BY <2>2, <2>3
<1> QED
  BY <1>1, <1>2 DEF SameFlight, SameElsewhere

(* The counts of m without such a message.                                 *)
LEMMA DuePopped ==
  ASSUME NEW m \in Machine, NEW s, NEW rd, NEW d, SameFlight(chan, d), Due(m, s, rd, chan)
  PROVE  Due(m, s, rd, d)
BY DEF SameFlight, Due, Bal

(* A handler that changes neither counts nor what is under way.            *)
LEMMA MuteStep ==
  ASSUME TypeOK, DueInv, NEW m \in Machine, NEW t \in QueryMsg, SameCounts(q[m], t),
         NEW d, SameFlight(chan, d), SameElsewhere(m, d),
         q' = [q EXCEPT ![m] = t], chan' = d, UNCHANGED <<read, fault>>
  PROVE  Stepped(m)
<1>1. /\ read[m] \in Bag /\ read' = [read EXCEPT ![m] = read[m]] /\ d \in Nets
      /\ fault' = fault /\ fault' \in {"none", "abort", "late"}
  BY DEF TypeOK, SameFlight
<1>2. ASSUME fault # "late" PROVE Due(m, t, read[m], d)
  <2>1. Due(m, q[m], read[m], chan)
    BY <1>2 DEF DueInv
  <2>2. Due(m, q[m], read[m], d)
    BY <2>1, DuePopped
  <2> QED
    BY <2>2, DueSame
<1>3. Counted(m, t, read[m], d)
  BY <1>1, <1>2 DEF Counted
<1> QED
  BY <1>1, <1>3 DEF Stepped

(* What a merged pool may be is a bag.                                     *)
LEMMA MergeBags ==
  ASSUME NEW top \in Bag, NEW add \in Bag
  PROVE  Merges(top, add) \subseteq Bag
<1> DEFINE near == Only(add, {v \in Vertex : v < LowerBound(top)})
           far == Minus(add, near)
<1>1. near \in Bag
  BY OnlyBag
<1>2. far \in Bag
  BY <1>1, MinusBag
<1>3. \A T : Plus(top, Plus(near, Only(far, T))) \in Bag
  BY <1>1, <1>2, OnlyBag, PlusBag
<1>4. Ef \in Int
  BY SizeAssumption
<1>5. \A T : Best(Plus(top, Plus(near, Only(far, T))), Ef) \in Bag
  BY <1>3, <1>4, BestBag
<1> HIDE DEF near, far
<1>6. ASSUME NEW b \in Merges(top, add)
      PROVE  \E T : b = Best(Plus(top, Plus(near, Only(far, T))), Ef)
  BY DEF Merges, near, far
<1> QED
  BY <1>5, <1>6

(* A SYNC changes no count.                                                *)
LEMMA SyncCounted ==
  ASSUME TypeOK, DueInv, NEW m \in Machine, NEW j \in Machine, NEW msg, First(m, j, msg),
         RecvSync(m, j, msg)
  PROVE  Stepped(m)
<1> DEFINE s == q[m]
<1>1. PICK top \in Merges(s.top, msg.add) :
        q' = [q EXCEPT ![m] = Woken([s EXCEPT
                !.token = @ \/ msg.token,
                !.tokenBlack = IF msg.token THEN msg.black ELSE @,
                !.top = top, !.micro = @ \cup msg.ngh])]
  BY DEF RecvSync
<1>2. msg.type = "SYNC" /\ chan' = Popped(m, j) /\ UNCHANGED <<read, fault>>
  BY DEF RecvSync
<1>3. s \in QueryMsg
  BY DEF TypeOK
<1>4. msg \in SyncMessage
  BY <1>2, PoppedWeight, MessageKinds
<1>5. msg.token \in BOOLEAN /\ msg.black \in BOOLEAN /\ msg.add \in Bag
      /\ msg.ngh \in SUBSET Vertex
  BY <1>4 DEF SyncMessage
<1>6. top \in Bag
  BY <1>3, <1>5, QueryFields, MergeBags
<1> DEFINE token == s.token \/ msg.token
           black == IF msg.token THEN msg.black ELSE s.tokenBlack
           micro == s.micro \cup msg.ngh
           t == [s EXCEPT !.token = token, !.tokenBlack = black, !.top = top, !.micro = micro]
<1>7. token \in BOOLEAN /\ black \in BOOLEAN /\ micro \in SUBSET Vertex
  BY <1>3, <1>5, QueryFields
<1>8. q' = [q EXCEPT ![m] = Woken(t)]
  BY <1>1
<1> HIDE DEF token, black, micro
<1>9. t \in QueryMsg /\ SameCounts(s, t)
  BY <1>3, <1>6, <1>7, ZenonT(60) DEF QueryMsg, SameCounts
<1> HIDE DEF t
<1>10. Woken(t) \in QueryMsg /\ SameCounts(s, Woken(t))
  BY <1>9, WokenCounted, SameTwice
<1>11. SameFlight(chan, Popped(m, j)) /\ SameElsewhere(m, Popped(m, j))
  BY <1>2, MutePopped
<1> QED
  BY <1>2, <1>8, <1>10, <1>11, MuteStep

(* A NODE_SYNC changes no count.                                           *)
LEMMA NodeSyncCounted ==
  ASSUME TypeOK, DueInv, NEW m \in Machine, NEW j \in Machine, NEW msg, First(m, j, msg),
         RecvNodeSync(m, j, msg)
  PROVE  Stepped(m)
<1> DEFINE s == q[m]
           micro == s.micro \cup msg.ngh
           t == [s EXCEPT !.micro = micro]
<1>1. q' = [q EXCEPT ![m] = Woken(t)]
  BY DEF RecvNodeSync
<1>2. msg.type = "NODE_SYNC" /\ chan' = Popped(m, j) /\ UNCHANGED <<read, fault>>
  BY DEF RecvNodeSync
<1>3. s \in QueryMsg
  BY DEF TypeOK
<1>4. msg \in NodeSyncMessage
  BY <1>2, PoppedWeight, MessageKinds
<1>5. msg.ngh \in SUBSET Vertex
  BY <1>4 DEF NodeSyncMessage
<1>6. micro \in SUBSET Vertex
  BY <1>3, <1>5, QueryFields
<1> HIDE DEF micro
<1>7. t \in QueryMsg /\ SameCounts(s, t)
  BY <1>3, <1>6 DEF QueryMsg, SameCounts
<1> HIDE DEF t
<1>8. Woken(t) \in QueryMsg /\ SameCounts(s, Woken(t))
  BY <1>7, WokenCounted, SameTwice
<1>9. SameFlight(chan, Popped(m, j)) /\ SameElsewhere(m, Popped(m, j))
  BY <1>2, MutePopped
<1> QED
  BY <1>1, <1>2, <1>8, <1>9, MuteStep

(* A request is answered: what it asks for is what the answers carry.      *)
LEMMA TaskCounted ==
  ASSUME TypeOK, DueInv, NEW m \in Machine, NEW j \in Machine, NEW msg, First(m, j, msg),
         RecvTask(m, j, msg)
  PROVE  Stepped(m)
<1> DEFINE s == q[m]
           seen == s.visited \cup InNode(m, msg) \cup InList(m, msg)
           t == [s EXCEPT !.visited = seen]
           out == And(NodeAnswers(m, msg), ListAnswers(m, msg))
           d == Posted(Popped(m, j), m, out)
<1>1. /\ msg.type = "TASK" /\ chan' = d /\ UNCHANGED <<read, fault>>
  BY DEF RecvTask
<1>2. s \in QueryMsg /\ q \in [Machine -> QueryMsg]
  BY DEF TypeOK
<1>3. q' = [q EXCEPT ![m] = t]
  BY <1>2 DEF RecvTask
<1>4. msg \in TaskMessage /\ Popped(m, j) \in Nets /\ chan \in Nets
  BY <1>1, PoppedWeight, MessageKinds
<1>5. seen \in SUBSET Vertex
  BY <1>2, QueryFields, NeighboursOf DEF InNode, InList
<1> HIDE DEF seen
<1>6. t \in QueryMsg /\ SameCounts(s, t)
  BY <1>2, <1>5 DEF QueryMsg, SameCounts
<1> HIDE DEF t
<1>7. ASSUME NEW x \in Machine
      PROVE  /\ d \in Nets
             /\ Flight(CW(x), d) = Flight(CW(x), chan) /\ Flight(NW(x), d) = Flight(NW(x), chan)
  <2> DEFINE a == IF msg.for = x THEN Size(msg.nodes) ELSE 0
             b == IF msg.for = x /\ msg.core = 1 THEN Size(msg.lists) ELSE 0
             c == IF msg.for = x /\ msg.core = 0 THEN Size(msg.lists) ELSE 0
  <2>1. /\ Carries(NodeAnswers(m, msg), x, a, 0) /\ Carries(ListAnswers(m, msg), x, b, c)
        /\ Size(msg.nodes) \in Nat /\ Size(msg.lists) \in Nat /\ msg.core \in {0, 1}
    BY <1>4, NodeAnswersCarry, ListAnswersCarry, CountFields
  <2>2. a \in Int /\ b \in Int /\ c \in Int
    BY <2>1
  <2>3. CoreAnswers(x, m, msg) = a + b /\ NoCoreAnswers(x, m, msg) = c
    <3>1. CASE msg.core = 1
      <4>1. /\ CoreAnswers(x, m, msg) =
                 IF msg.for = x THEN Size(msg.nodes) + Size(msg.lists) ELSE 0
            /\ NoCoreAnswers(x, m, msg) = 0
        BY <1>4, <3>1, TaskWeight
      <4>2. a + b = (IF msg.for = x THEN Size(msg.nodes) + Size(msg.lists) ELSE 0) /\ c = 0
        BY <2>1, <3>1
      <4> QED
        BY <4>1, <4>2
    <3>2. CASE msg.core = 0
      <4>1. /\ CoreAnswers(x, m, msg) = IF msg.for = x THEN Size(msg.nodes) ELSE 0
            /\ NoCoreAnswers(x, m, msg) = IF msg.for = x THEN Size(msg.lists) ELSE 0
        BY <1>4, <3>2, TaskWeight
      <4>2. /\ a + b = (IF msg.for = x THEN Size(msg.nodes) ELSE 0)
            /\ c = (IF msg.for = x THEN Size(msg.lists) ELSE 0)
        BY <2>1, <3>2
      <4> QED
        BY <4>1, <4>2
    <3> QED
      BY <2>1, <3>1, <3>2
  <2> HIDE DEF a, b, c
  <2>4. Carries(out, x, a + b, 0 + c)
    BY <2>1, CarriesAnd
  <2> HIDE DEF out
  <2>5. /\ d \in Nets
        /\ Flight(CW(x), d) = Flight(CW(x), Popped(m, j)) + (a + b)
        /\ Flight(NW(x), d) = Flight(NW(x), Popped(m, j)) + (0 + c)
    BY <1>4, <2>4, CarriesPosted
  <2>6. /\ Flight(CW(x), Popped(m, j)) = Flight(CW(x), chan) - (a + b)
        /\ Flight(NW(x), Popped(m, j)) = Flight(NW(x), chan) - c
    BY <2>3, PoppedWeight
  <2>7. PICK f \in Int, g \in Int : f = Flight(CW(x), chan) /\ g = Flight(NW(x), chan)
    BY <1>4, FlightNumbers
  <2>8. (f - (a + b)) + (a + b) = f /\ (g - c) + (0 + c) = g
    BY <2>2
  <2> HIDE DEF d
  <2>9. Flight(CW(x), d) = (f - (a + b)) + (a + b) /\ Flight(NW(x), d) = (g - c) + (0 + c)
    BY <2>5, <2>6, <2>7
  <2> QED
    BY <2>5, <2>7, <2>8, <2>9
<1> HIDE DEF out, d
<1>8. SameFlight(chan, d) /\ SameElsewhere(m, d)
  BY <1>7 DEF SameFlight, SameElsewhere
<1> QED
  BY <1>1, <1>3, <1>6, <1>8, MuteStep

(* An answer to m is taken: it counts for m and for no other machine.      *)
LEMMA AnswerPopped ==
  ASSUME TypeOK, NEW m \in Machine, NEW j \in Machine, NEW msg, First(m, j, msg),
         msg.type \in {"RESULT", "NODE_RESULT"}
  PROVE  SameElsewhere(m, Popped(m, j))
<1> SUFFICES ASSUME NEW x \in Machine \ {m}
             PROVE  /\ Flight(CW(x), Popped(m, j)) = Flight(CW(x), chan)
                    /\ Flight(NW(x), Popped(m, j)) = Flight(NW(x), chan)
  BY DEF SameElsewhere
<1>1. CoreAnswers(x, m, msg) = 0 /\ NoCoreAnswers(x, m, msg) = 0
  BY DEF CoreAnswers, NoCoreAnswers
<1>2. /\ Flight(CW(x), Popped(m, j)) = Flight(CW(x), chan) - 0
      /\ Flight(NW(x), Popped(m, j)) = Flight(NW(x), chan) - 0
  BY <1>1, PoppedWeight
<1>3. Flight(CW(x), chan) \in Int /\ Flight(NW(x), chan) \in Int
  BY PoppedWeight, FlightNumbers
<1> QED
  BY <1>2, <1>3

(* A step of a handler that keeps the counts of m.                         *)
LEMMA PoppedStep ==
  ASSUME TypeOK, NEW m \in Machine, NEW j \in Machine, NEW msg, First(m, j, msg),
         NEW t \in QueryMsg, q' = [q EXCEPT ![m] = t], chan' = Popped(m, j), read' = read,
         fault' \in {"none", "abort", "late"},
         fault' # "late" => /\ fault # "late" /\ SameElsewhere(m, Popped(m, j))
                            /\ Due(m, t, read[m], Popped(m, j))
  PROVE  Stepped(m)
<1>1. read[m] \in Bag /\ read' = [read EXCEPT ![m] = read[m]] /\ Popped(m, j) \in Nets
  BY PoppedWeight DEF TypeOK
<1>2. Counted(m, t, read[m], Popped(m, j))
  BY <1>1 DEF Counted
<1> QED
  BY <1>1, <1>2 DEF Stepped

(* An answer for a query that is over.                                     *)
LEMMA AbortCounted ==
  ASSUME TypeOK, DueInv, NEW m \in Machine, NEW j \in Machine, NEW msg, First(m, j, msg),
         msg.type \in {"RESULT", "NODE_RESULT"}, fault # "late", Abort(m, j)
  PROVE  Stepped(m)
<1> DEFINE s == q[m]
<1>1. /\ s \in QueryMsg /\ s.state = "END" /\ q' = [q EXCEPT ![m] = s] /\ chan' = Popped(m, j)
      /\ read' = read /\ fault' \in {"none", "abort", "late"}
  BY DEF Abort, TypeOK
<1>2. Due(m, s, read[m], chan)
  BY DEF DueInv
<1> HIDE DEF s
<1>3. Due(m, s, read[m], Popped(m, j))
  BY <1>1, <1>2 DEF Due
<1>4. SameElsewhere(m, Popped(m, j))
  BY AnswerPopped
<1> QED
  BY <1>1, <1>3, <1>4, PoppedStep

(* An answer is counted.                                                   *)
LEMMA ResultCounted ==
  ASSUME TypeOK, TokenInv, DueInv, NEW m \in Machine, NEW j \in Machine, NEW msg,
         First(m, j, msg), fault # "late", RecvResult(m, j, msg), ~Abort(m, j)
  PROVE  Stepped(m)
<1> DEFINE s == q[m]
           found == Plus(s.found, Ones(msg.found))
           core == s.core + msg.core
           nocore == s.nocore + msg.nocore
           t == [s EXCEPT !.found = found, !.core = core, !.nocore = nocore]
<1>1. /\ msg.type = "RESULT" /\ q' = [q EXCEPT ![m] = Woken(t)] /\ chan' = Popped(m, j)
      /\ read' = read /\ fault' = fault /\ s.state # "END"
  BY DEF RecvResult
<1>2. s \in QueryMsg /\ read[m] \in Bag /\ fault' \in {"none", "abort", "late"}
  BY <1>1 DEF TypeOK
<1>3. Due(m, s, read[m], chan)
  BY DEF DueInv
<1> HIDE DEF s
<1>4. msg \in ResultMessage /\ Popped(m, j) \in Nets /\ chan \in Nets
  BY <1>1, PoppedWeight, MessageKinds
<1>5. /\ msg.core \in Nat /\ msg.nocore \in Nat
      /\ CoreAnswers(m, m, msg) = msg.core /\ NoCoreAnswers(m, m, msg) = msg.nocore
  BY <1>4, CountFields, ResultWeight
<1>6. /\ s.found \in Bag /\ s.core \in Nat /\ s.nocore \in Nat
      /\ Size(s.local) \in Nat /\ Len(s.stolen) \in Nat /\ Size(read[m]) \in Nat
  BY <1>2, QueryFields, BagSize
<1>7. found \in Bag /\ core \in Nat /\ nocore \in Nat
  <2>1. found \in Bag
    BY <1>6, OnesBag, PlusBag
  <2>2. core \in Nat /\ nocore \in Nat
    BY <1>5, <1>6
  <2> QED
    BY <2>1, <2>2
<1> HIDE DEF found, core, nocore
<1>8. t \in QueryMsg
  BY <1>2, <1>7 DEF QueryMsg
<1>9. /\ t.isNew = s.isNew /\ t.state = s.state /\ t.due = s.due /\ t.nodue = s.nodue
      /\ t.core = core /\ t.nocore = nocore /\ t.local = s.local /\ t.stolen = s.stolen
  BY <1>2 DEF QueryMsg
<1> HIDE DEF t
<1>10. Bal(m, t, read[m], Popped(m, j))
  <2>1. PICK c \in Nat, l \in Nat, n \in Nat, r \in Nat, f \in Int, k \in Nat, g \in Int,
             a \in Nat, b \in Nat :
          /\ c = s.core /\ l = Size(s.local) /\ n = Len(s.stolen) /\ r = Size(read[m])
          /\ f = Flight(CW(m), chan) /\ k = s.nocore /\ g = Flight(NW(m), chan)
          /\ a = msg.core /\ b = msg.nocore
    BY <1>4, <1>5, <1>6, FlightNumbers
  <2>2. s.due = c + l + n + r + f /\ s.nodue = k + g
    BY <1>1, <1>3, <2>1 DEF Due, Bal
  <2>3. Flight(CW(m), Popped(m, j)) = f - a /\ Flight(NW(m), Popped(m, j)) = g - b
    BY <1>5, <2>1, PoppedWeight
  <2>4. c + l + n + r + f = (c + a) + l + n + r + (f - a) /\ k + g = (k + b) + (g - b)
    OBVIOUS
  <2>5. core = c + a /\ nocore = k + b
    BY <2>1 DEF core, nocore
  <2>6. t.due = t.core + Size(t.local) + Len(t.stolen) + Size(read[m])
                  + Flight(CW(m), Popped(m, j))
    BY <1>9, <2>1, <2>2, <2>3, <2>4, <2>5
  <2>7. t.nodue = t.nocore + Flight(NW(m), Popped(m, j))
    BY <1>9, <2>2, <2>3, <2>4, <2>5
  <2> QED
    BY <2>6, <2>7 DEF Bal
<1>11. Due(m, t, read[m], Popped(m, j))
  BY <1>3, <1>9, <1>10 DEF Due
<1>12. Woken(t) \in QueryMsg /\ Due(m, Woken(t), read[m], Popped(m, j))
  BY <1>8, <1>11, WokenCounted, DueSame
<1>13. SameElsewhere(m, Popped(m, j))
  BY <1>1, AnswerPopped
<1> QED
  BY <1>1, <1>2, <1>12, <1>13, PoppedStep

(* The answers for recv_cnt under way are never fewer than none.           *)
LEMMA FlightNatural ==
  ASSUME NEW ch \in Nets, NEW x \in Machine
  PROVE  Flight(CW(x), ch) \in Nat
<1>1. ASSUME NEW p \in Machine, NEW msg \in Message PROVE CW(x)[p][msg] \in Nat
  <2>1. CASE msg.type = "TASK"
    <3>1. msg \in TaskMessage /\ msg.core \in {0, 1}
      BY <2>1, MessageKinds, CountFields
    <3>2. CoreAnswers(x, p, msg) \in Nat
      BY <3>1, TaskWeight
    <3> QED
      BY <3>2, WeightsRight
  <2>2. CASE msg.type # "TASK"
    <3>1. msg.type \in {"RESULT", "NODE_RESULT"} => msg.core \in Nat
      BY MessageKinds, CountFields
    <3>2. CoreAnswers(x, p, msg) \in Nat
      BY <2>2, <3>1 DEF CoreAnswers
    <3> QED
      BY <3>2, WeightsRight
  <2> QED
    BY <2>1, <2>2
<1>2. ASSUME NEW j \in Machine, NEW p \in Machine
      PROVE  Wt(CW(x), p, ch[j][p]) \in Nat
  <2> DEFINE c == ch[j][p]
             F == [k \in 1 .. Len(c) |-> CW(x)[p][c[k]]]
  <2>1. c \in Seq(Message)
    BY DEF Nets, Rows
  <2> HIDE DEF c
  <2>2. Len(c) \in Nat /\ \A k \in 1 .. Len(c) : c[k] \in Message
    BY <2>1
  <2>3. \A k \in 1 .. Len(c) : F[k] \in Nat
    BY <1>1, <2>2
  <2>4. IsFiniteSet(1 .. Len(c))
    BY <2>2, FS_Interval
  <2>5. Wt(CW(x), p, c) = SumOf(F, 1 .. Len(c))
    BY <2>1, WeightsRight, WtInteger
  <2> HIDE DEF F
  <2> QED
    BY <2>3, <2>4, <2>5, SumNatural DEF c
<1>3. ASSUME NEW j \in Machine PROVE Row(CW(x), ch[j]) \in Nat
  <2> DEFINE F == [p \in Machine |-> Wt(CW(x), p, ch[j][p])]
  <2>1. \A p \in Machine : F[p] \in Nat
    BY <1>2
  <2> HIDE DEF F
  <2>2. SumOf(F, Machine) \in Nat
    BY <2>1, Machines, SumNatural
  <2> QED
    BY <2>2 DEF F, Row
<1> DEFINE F == [j \in Machine |-> Row(CW(x), ch[j])]
<1>4. \A j \in Machine : F[j] \in Nat
  BY <1>3
<1> HIDE DEF F
<1>5. SumOf(F, Machine) \in Nat
  BY <1>4, Machines, SumNatural
<1> QED
  BY <1>5 DEF F, Flight

(* An answer that announces others is counted.                             *)
LEMMA NodeResultCounted ==
  ASSUME TypeOK, TokenInv, DueInv, NEW m \in Machine, NEW j \in Machine, NEW msg,
         First(m, j, msg), fault # "late", RecvNodeResult(m, j, msg), ~Abort(m, j)
  PROVE  Stepped(m)
<1> DEFINE s == q[m]
           found == Plus(s.found, Ones(msg.found))
           core == s.core + msg.core
           nodue == s.nodue + msg.post
           t == [s EXCEPT !.found = found, !.core = core, !.nodue = nodue]
<1>1. /\ msg.type = "NODE_RESULT" /\ q' = [q EXCEPT ![m] = Woken(t)] /\ chan' = Popped(m, j)
      /\ read' = read /\ fault' = fault /\ s.state # "END"
  BY DEF RecvNodeResult
<1>2. s \in QueryMsg /\ read[m] \in Bag /\ fault' \in {"none", "abort", "late"}
  BY <1>1 DEF TypeOK
<1>3. Due(m, s, read[m], chan)
  BY DEF DueInv
<1> HIDE DEF s
<1>4. msg \in NodeResultMessage /\ Popped(m, j) \in Nets /\ chan \in Nets
  BY <1>1, PoppedWeight, MessageKinds
<1>5. /\ msg.core \in Nat \ {0} /\ msg.post \in Nat
      /\ CoreAnswers(m, m, msg) = msg.core /\ NoCoreAnswers(m, m, msg) = 0 - msg.post
  BY <1>4, CountFields, NodeResultWeight
<1>6. /\ s.found \in Bag /\ s.core \in Nat /\ s.nocore \in Nat /\ s.nodue \in Int
      /\ Size(s.local) \in Nat /\ Len(s.stolen) \in Nat /\ Size(read[m]) \in Nat
  BY <1>2, QueryFields, BagSize
<1>7. found \in Bag /\ core \in Nat /\ nodue \in Int
  <2>1. found \in Bag
    BY <1>6, OnesBag, PlusBag
  <2>2. core \in Nat /\ nodue \in Int
    BY <1>5, <1>6
  <2> QED
    BY <2>1, <2>2
<1> HIDE DEF found, core, nodue
<1>8. t \in QueryMsg
  BY <1>2, <1>7 DEF QueryMsg
<1>9. /\ t.isNew = s.isNew /\ t.state = s.state /\ t.due = s.due /\ t.nodue = nodue
      /\ t.core = core /\ t.nocore = s.nocore /\ t.local = s.local /\ t.stolen = s.stolen
  BY <1>2 DEF QueryMsg
<1> HIDE DEF t
<1>10. PICK c \in Nat, l \in Nat, n \in Nat, r \in Nat, f \in Nat, k \in Nat, g \in Int,
            a \in Nat \ {0}, b \in Nat :
         /\ c = s.core /\ l = Size(s.local) /\ n = Len(s.stolen) /\ r = Size(read[m])
         /\ f = Flight(CW(m), chan) /\ k = s.nocore /\ g = Flight(NW(m), chan)
         /\ a = msg.core /\ b = msg.post
  BY <1>4, <1>5, <1>6, FlightNumbers, FlightNatural
<1>11. s.due = c + l + n + r + f /\ s.nodue = k + g
  BY <1>1, <1>3, <1>10 DEF Due, Bal
<1>12. Flight(CW(m), Popped(m, j)) = f - a /\ Flight(NW(m), Popped(m, j)) = g - (0 - b)
  BY <1>5, <1>10, PoppedWeight
<1>13. ~s.isNew
  <2>1. f - a \in Nat
    BY <1>4, <1>12, FlightNatural
  <2>2. c + l + n + r + f # 0
    BY <2>1
  <2> QED
    BY <1>3, <1>11, <2>2 DEF Due
<1>14. Bal(m, t, read[m], Popped(m, j))
  <2>1. /\ c + l + n + r + f = (c + a) + l + n + r + (f - a)
        /\ (k + g) + b = k + (g - (0 - b))
    OBVIOUS
  <2>2. core = c + a /\ nodue = (k + g) + b
    BY <1>10, <1>11 DEF core, nodue
  <2>3. t.due = t.core + Size(t.local) + Len(t.stolen) + Size(read[m])
                  + Flight(CW(m), Popped(m, j))
    BY <1>9, <1>10, <1>11, <1>12, <2>1, <2>2
  <2>4. t.nodue = t.nocore + Flight(NW(m), Popped(m, j))
    BY <1>9, <1>10, <1>12, <2>1, <2>2
  <2> QED
    BY <2>3, <2>4 DEF Bal
<1>15. Due(m, t, read[m], Popped(m, j))
  BY <1>9, <1>13, <1>14 DEF Due
<1>16. Woken(t) \in QueryMsg /\ Due(m, Woken(t), read[m], Popped(m, j))
  BY <1>8, <1>15, WokenCounted, DueSame
<1>17. SameElsewhere(m, Popped(m, j))
  BY <1>1, AnswerPopped
<1> QED
  BY <1>1, <1>2, <1>16, <1>17, PoppedStep

(* A message for a deleted query.                                          *)
LEMMA LateCounted ==
  ASSUME TypeOK, NEW m \in Machine, NEW j \in Machine, chan[j][m] # <<>>, RecvLate(m, j)
  PROVE  Stepped(m)
<1>1. PICK msg : First(m, j, msg)
  BY DEF First
<1>2. /\ q[m] \in QueryMsg /\ q' = [q EXCEPT ![m] = q[m]] /\ chan' = Popped(m, j)
      /\ read' = read /\ fault' = "late"
  BY DEF RecvLate, TypeOK
<1> QED
  BY <1>1, <1>2, PoppedStep

(* A coroutine starts: its counts are reset, and nothing was due.          *)
LEMMA PostStageCounted ==
  ASSUME TypeOK, TokenInv, DueInv, NEW m \in Machine, q[m].isNew,
         NEW s \in QueryMsg, ~s.isNew, s.due = q[m].due, s.nodue = q[m].nodue,
         s.core = q[m].core, s.nocore = q[m].nocore, s.local = q[m].local,
         s.stolen = q[m].stolen, NEW ch, SameFlight(chan, ch), SameElsewhere(m, ch),
         PostStage(m, s, ch)
  PROVE  Stepped(m)
<1> DEFINE t == [s EXCEPT !.state = "POST_STAGE", !.coro = "loop", !.due = 0, !.nodue = 0]
<1>1. Loop(m, t, ch)
  BY DEF PostStage
<1>2. PICK zero \in Int : zero = 0
  OBVIOUS
<1>3. t = [s EXCEPT !.state = "POST_STAGE", !.coro = "loop", !.due = zero, !.nodue = zero]
  BY <1>2
<1>4. t \in QueryMsg
  BY <1>3, ZenonT(60) DEF QueryMsg, State
<1>5. /\ t.isNew = s.isNew /\ t.due = 0 /\ t.nodue = 0 /\ t.core = s.core
      /\ t.nocore = s.nocore /\ t.local = s.local /\ t.stolen = s.stolen
  BY DEF QueryMsg
<1> HIDE DEF t
<1>6. ASSUME fault # "late" PROVE Bal(m, t, read[m], ch)
  <2>1. Due(m, q[m], read[m], chan)
    BY <1>6 DEF DueInv
  <2>2. q[m].state # "END"
    BY DEF TokenInv, Local
  <2>3. q[m].due = 0 /\ q[m].nodue = 0 /\ Bal(m, q[m], read[m], chan)
    BY <2>1, <2>2 DEF Due
  <2>4. Flight(CW(m), ch) = Flight(CW(m), chan) /\ Flight(NW(m), ch) = Flight(NW(m), chan)
    BY DEF SameFlight
  <2> QED
    BY <1>5, <2>3, <2>4 DEF Bal
<1>7. Ready(m, t, ch)
  BY <1>4, <1>5, <1>6 DEF Ready, SameFlight
<1> QED
  BY <1>1, <1>7, LoopCounted

(* A query arrives: it starts here or has ended.                           *)
LEMMA QueryCounted ==
  ASSUME TypeOK, TokenInv, DueInv, NEW m \in Machine, NEW j \in Machine, NEW msg,
         First(m, j, msg), RecvQuery(m, j, msg)
  PROVE  Stepped(m)
<1> DEFINE o == q[m]
           seen == o.visited \cup Support(msg.cand)
           s == [o EXCEPT !.state = msg.state, !.cand = msg.cand, !.top = msg.top,
                          !.result = msg.result, !.visited = seen]
<1>1. /\ msg.type = "QUERY" /\ o \in QueryMsg
      /\ \/ /\ s.isNew
            /\ PostStage(m, [s EXCEPT !.isNew = FALSE, !.token = @ \/ m = Leader],
                         Popped(m, j))
         \/ /\ ~s.isNew
            /\ q' = [q EXCEPT ![m] = [s EXCEPT !.ret = TRUE]]
            /\ chan' = Popped(m, j)
            /\ UNCHANGED <<read, fault>>
  BY DEF RecvQuery, Deserialized, TypeOK
<1>2. msg \in QueryMessage
  BY <1>1, PoppedWeight, MessageKinds
<1>3. msg.state \in State /\ msg.cand \in Bag /\ msg.top \in Bag /\ msg.result \in Bag
  BY <1>2 DEF QueryMessage
<1>4. seen \in SUBSET Vertex
  BY <1>1, QueryFields DEF Support
<1>5. SameFlight(chan, Popped(m, j)) /\ SameElsewhere(m, Popped(m, j))
  BY <1>1, MutePopped
<1> HIDE DEF seen
<1>6. s \in QueryMsg
  BY <1>1, <1>3, <1>4 DEF QueryMsg
<1>7. /\ s.isNew = o.isNew /\ s.due = o.due /\ s.nodue = o.nodue /\ s.core = o.core
      /\ s.nocore = o.nocore /\ s.local = o.local /\ s.stolen = o.stolen
      /\ s.state = msg.state
  BY <1>1 DEF QueryMsg
<1> HIDE DEF s
<1>8. CASE s.isNew
  <2> DEFINE token == s.token \/ m = Leader
             t == [s EXCEPT !.isNew = FALSE, !.token = token]
  <2>1. token \in BOOLEAN
    BY <1>6, QueryFields
  <2>2. PostStage(m, t, Popped(m, j))
    BY <1>1, <1>8
  <2> HIDE DEF token
  <2>3. t \in QueryMsg
    BY <1>6, <2>1 DEF QueryMsg
  <2>4. /\ ~t.isNew /\ t.due = s.due /\ t.nodue = s.nodue /\ t.core = s.core
        /\ t.nocore = s.nocore /\ t.local = s.local /\ t.stolen = s.stolen
    BY <1>6 DEF QueryMsg
  <2> HIDE DEF t
  <2> QED
    BY <1>5, <1>7, <1>8, <2>2, <2>3, <2>4, PostStageCounted
<1>9. CASE ~s.isNew
  <2> DEFINE t == [s EXCEPT !.ret = TRUE]
  <2>1. /\ q' = [q EXCEPT ![m] = t] /\ chan' = Popped(m, j) /\ read' = read /\ fault' = fault
    BY <1>1, <1>9
  <2>2. t \in QueryMsg /\ t.isNew = s.isNew /\ t.state = s.state
    BY <1>6 DEF QueryMsg
  <2>3. msg.state = "END"
    <3>1. chan[j][m] \in Seq(Message) /\ chan[j][m] # <<>> /\ msg = Head(chan[j][m])
      BY DEF TypeOK, First
    <3>2. 1 \in DOMAIN chan[j][m] /\ msg = chan[j][m][1]
      BY <3>1
    <3>3. (IsFork(msg) \/ IsEnd(msg)) /\ (IsFork(msg) => q[m].isNew)
      BY <1>1, <3>2 DEF TokenInv, Global, Mail
    <3> QED
      BY <1>7, <1>9, <3>3 DEF IsEnd
  <2> HIDE DEF t
  <2>4. Due(m, t, read[m], Popped(m, j))
    BY <1>7, <1>9, <2>2, <2>3 DEF Due
  <2>5. fault' \in {"none", "abort", "late"}
    BY <2>1 DEF TypeOK
  <2> QED
    BY <1>5, <2>1, <2>2, <2>4, <2>5, PoppedStep
<1> QED
  BY <1>8, <1>9

(* The query starts at its origin.                                         *)
LEMMA StartCounted ==
  ASSUME TypeOK, TokenInv, DueInv, Start
  PROVE  Stepped(Origin)
<1> DEFINE m == Origin
           o == q[m]
           top == Ones(PreTop)
           s == [o EXCEPT !.isNew = FALSE, !.state = "PRE_STAGE", !.top = top, !.visited = {}]
           ch == Posted(chan, m, Forks(m, top))
<1>1. /\ o.isNew /\ o \in QueryMsg /\ m \in Machine /\ chan \in Nets /\ read[m] \in Bag
  BY Machines, NetsTyped DEF Start, TypeOK
<1>2. top \in Bag
  BY OnesBag
<1>3. s \in QueryMsg
  BY <1>1, <1>2 DEF QueryMsg, State
<1>4. /\ ~s.isNew /\ s.due = o.due /\ s.nodue = o.nodue /\ s.core = o.core
      /\ s.nocore = o.nocore /\ s.local = o.local /\ s.stolen = o.stolen /\ s.top = top
      /\ s.state = "PRE_STAGE"
  BY <1>1 DEF QueryMsg
<1>5. \/ /\ m \in Core
         /\ PostStage(m, [s EXCEPT !.cand = Ones(Filtered(m)), !.token = (m = Leader)], ch)
      \/ /\ m \notin Core
         /\ q' = [q EXCEPT ![m] = [s EXCEPT !.coro = "wait"]]
         /\ chan' = ch
         /\ UNCHANGED <<read, fault>>
  BY <1>4 DEF Start
<1> HIDE DEF s, top
<1>6. SameFlight(chan, ch) /\ SameElsewhere(m, ch)
  BY <1>1, <1>2, ForksMute, MutePosted DEF SameFlight, SameElsewhere
<1> HIDE DEF ch, m
<1>7. CASE m \in Core
  <2> DEFINE cand == Ones(Filtered(m))
             token == (m = Leader)
             t == [s EXCEPT !.cand = cand, !.token = token]
  <2>1. cand \in Bag /\ token \in BOOLEAN
    BY OnesBag
  <2>2. PostStage(m, t, ch)
    BY <1>5, <1>7
  <2> HIDE DEF cand, token
  <2>3. t \in QueryMsg
    BY <1>3, <2>1 DEF QueryMsg
  <2>4. /\ t.isNew = s.isNew /\ t.due = s.due /\ t.nodue = s.nodue /\ t.core = s.core
        /\ t.nocore = s.nocore /\ t.local = s.local /\ t.stolen = s.stolen
    BY <1>3 DEF QueryMsg
  <2> HIDE DEF t
  <2>5. Stepped(m)
    BY <1>1, <1>4, <1>6, <2>2, <2>3, <2>4, PostStageCounted
  <2> QED
    BY <2>5 DEF m
<1>8. CASE m \notin Core
  <2> DEFINE t == [s EXCEPT !.coro = "wait"]
  <2>1. /\ q' = [q EXCEPT ![m] = t] /\ chan' = ch /\ UNCHANGED <<read, fault>>
    BY <1>5, <1>8
  <2>2. t \in QueryMsg
    BY <1>3 DEF QueryMsg
  <2>3. /\ t.isNew = s.isNew /\ t.due = s.due /\ t.nodue = s.nodue /\ t.core = s.core
        /\ t.nocore = s.nocore /\ t.local = s.local /\ t.stolen = s.stolen
    BY <1>3 DEF QueryMsg
  <2> HIDE DEF t
  <2>4. ASSUME fault # "late" PROVE Due(m, t, read[m], ch)
    <3>1. Due(m, o, read[m], chan)
      BY <1>1, <2>4 DEF DueInv
    <3>2. o.state # "END"
      BY <1>1 DEF TokenInv, Local
    <3>3. Bal(m, o, read[m], chan)
      BY <3>1, <3>2 DEF Due
    <3>4. Flight(CW(m), ch) = Flight(CW(m), chan) /\ Flight(NW(m), ch) = Flight(NW(m), chan)
      BY <1>1, <1>6 DEF SameFlight
    <3>5. Bal(m, t, read[m], ch)
      BY <1>4, <2>3, <3>3, <3>4 DEF Bal
    <3> QED
      BY <1>4, <2>3, <3>5 DEF Due
  <2>5. /\ read' = [read EXCEPT ![m] = read[m]] /\ ch \in Nets
        /\ fault' = fault /\ fault' \in {"none", "abort", "late"}
    BY <1>6, <2>1 DEF SameFlight, TypeOK
  <2>6. Counted(m, t, read[m], ch)
    BY <1>6, <2>1, <2>4, <2>5 DEF Counted
  <2>7. Stepped(m)
    BY <1>1, <2>2, <2>5, <2>6 DEF Stepped
  <2> QED
    BY <2>7 DEF m
<1> QED
  BY <1>7, <1>8

-----------------------------------------------------------------------------
(* The initial states.                                                     *)

(* A new query has its type and nothing due.                               *)
LEMMA NewTyped ==
  ASSUME NEW g \in Garbage
  PROVE  /\ NewQuery(g) \in QueryMsg
         /\ NewQuery(g).due = 0 /\ NewQuery(g).nodue = 0 /\ NewQuery(g).core = 0
         /\ NewQuery(g).nocore = 0 /\ NewQuery(g).local = Nil /\ NewQuery(g).stolen = <<>>
<1> DEFINE none == [m \in Machine |-> {}]
<1>1. none \in [Machine -> SUBSET Vertex] /\ Nil \in Bag /\ g \in Nat
  BY NilBag, SizeAssumption
<1>2. <<>> \in Seq(SUBSET Vertex)
  OBVIOUS
<1>3. NewQuery(g) = [
        state |-> "START", isNew |-> TRUE, coro |-> "none", queued |-> 0,
        ret |-> FALSE, freed |-> FALSE,
        cand |-> Nil, top |-> Nil, result |-> Nil, visited |-> {}, local |-> Nil,
        stolen |-> <<>>, micro |-> {}, found |-> Nil, arrived |-> {}, core |-> 0,
        nocore |-> 0, due |-> 0, nodue |-> 0,
        token |-> FALSE, tokenBlack |-> FALSE, procBlack |-> TRUE, lastWhite |-> TRUE,
        step |-> 0, bound |-> g, add |-> Nil, ngh |-> none]
  BY DEF NewQuery
<1> HIDE DEF none
<1>4. NewQuery(g) \in QueryMsg
  BY <1>1, <1>2, <1>3 DEF QueryMsg, State
<1>5. /\ NewQuery(g).due = 0 /\ NewQuery(g).nodue = 0 /\ NewQuery(g).core = 0
      /\ NewQuery(g).nocore = 0 /\ NewQuery(g).local = Nil /\ NewQuery(g).stolen = <<>>
  BY <1>3
<1> QED
  BY <1>4, <1>5

(* Nothing is under way at first.                                          *)
LEMMA EmptyFlight ==
  ASSUME NEW ch, ch = [i \in Machine |-> [j \in Machine |-> <<>>]], NEW x \in Machine
  PROVE  ch \in Nets /\ Flight(CW(x), ch) = 0 /\ Flight(NW(x), ch) = 0
<1>1. ch \in Nets /\ \A j \in Machine : ch[j] \in Rows /\ ch[j] = Nothing
  BY NothingRow DEF Nets, Nothing
<1>2. Carries(Nothing, x, 0, 0)
  BY NothingMute, MuteCarries
<1> DEFINE F == [j \in Machine |-> Row(CW(x), ch[j])]
           G == [j \in Machine |-> Row(NW(x), ch[j])]
<1>3. \A j \in Machine : F[j] = 0 /\ G[j] = 0
  BY <1>1, <1>2 DEF Carries
<1> HIDE DEF F, G
<1>4. SumOf(F, Machine) = 0 /\ SumOf(G, Machine) = 0
  BY <1>3, Machines, SumZero
<1> QED
  BY <1>1, <1>4 DEF F, G, Flight

(* Types and counts hold at first.                                         *)
LEMMA InitCounted == Init => TypeOK /\ DueInv
<1> SUFFICES ASSUME Init PROVE TypeOK /\ DueInv
  OBVIOUS
<1>1. PICK g \in [Machine -> Garbage] : q = [m \in Machine |-> NewQuery(g[m])]
  BY DEF Init
<1>2. /\ chan = [i \in Machine |-> [j \in Machine |-> <<>>]]
      /\ read = [m \in Machine |-> Nil] /\ fault = "none"
  BY DEF Init
<1>3. ASSUME NEW m \in Machine
      PROVE  /\ q[m] \in QueryMsg /\ q[m].due = 0 /\ q[m].nodue = 0 /\ q[m].core = 0
             /\ q[m].nocore = 0 /\ q[m].local = Nil /\ q[m].stolen = <<>> /\ read[m] = Nil
  <2>1. g[m] \in Garbage /\ q[m] = NewQuery(g[m]) /\ read[m] = Nil
    BY <1>1, <1>2
  <2> QED
    BY <2>1, NewTyped
<1>4. chan \in Nets /\ \A m \in Machine : Flight(CW(m), chan) = 0 /\ Flight(NW(m), chan) = 0
  BY <1>2, EmptyFlight, Machines
<1>5. TypeOK
  BY <1>1, <1>2, <1>3, <1>4, NilBag, NetsTyped DEF TypeOK
<1>6. ASSUME NEW m \in Machine PROVE Due(m, q[m], read[m], chan)
  <2>1. Size(q[m].local) = 0 /\ Size(read[m]) = 0 /\ Len(q[m].stolen) = 0
    BY <1>3, NilBag
  <2>2. Bal(m, q[m], read[m], chan)
    BY <1>3, <1>4, <2>1 DEF Bal
  <2> QED
    BY <1>3, <2>2 DEF Due
<1> QED
  BY <1>5, <1>6 DEF DueInv

(* Every step keeps types and counts.                                      *)
LEMMA NextCounted ==
  ASSUME TypeOK, TokenInv, DueInv, [Next]_vars
  PROVE  TypeOK' /\ DueInv'
<1>1. CASE UNCHANGED vars
  BY <1>1, ZenonT(60) DEF vars, TypeOK, DueInv, Due, Bal, Flight, Row, Wt
<1>2. CASE \E m \in Machine : Stepped(m)
  BY <1>2, SteppedKeeps
<1>3. CASE Start
  BY <1>2, <1>3, StartCounted, Machines
<1>4. CASE ProcRes
  BY <1>2, <1>4, ProcResCounted, Machines
<1>5. CASE \E m \in Machine : Resume(m)
  BY <1>2, <1>5, ResumeCounted
<1>6. CASE \E m \in Machine, v \in Vertex : Steal(m, v)
  BY <1>2, <1>6, StealCounted
<1>7. CASE \E m \in Machine, k \in 1 .. Thieves : StolenDone(m, k)
  BY <1>2, <1>7, StolenCounted
<1>8. CASE \E m \in Machine, v \in Vertex : ReadDone(m, v)
  BY <1>2, <1>8, ReadCounted
<1>9. ASSUME NEW m \in Machine, NEW j \in Machine, Recv(m, j) PROVE Stepped(m)
  <2>1. fault = "none" /\ chan[j][m] # <<>>
    BY <1>9 DEF Recv
  <2>2. PICK msg : msg = Head(chan[j][m])
    OBVIOUS
  <2>3. First(m, j, msg)
    BY <2>1, <2>2 DEF First
  <2>4. \/ RecvQuery(m, j, msg) \/ RecvSync(m, j, msg) \/ RecvNodeSync(m, j, msg)
        \/ RecvTask(m, j, msg) \/ RecvResult(m, j, msg) \/ RecvNodeResult(m, j, msg)
        \/ RecvLate(m, j)
    BY <1>9, <2>2 DEF Recv
  <2>5. CASE RecvQuery(m, j, msg)
    BY <2>3, <2>5, QueryCounted
  <2>6. CASE RecvSync(m, j, msg)
    BY <2>3, <2>6, SyncCounted
  <2>7. CASE RecvNodeSync(m, j, msg)
    BY <2>3, <2>7, NodeSyncCounted
  <2>8. CASE RecvTask(m, j, msg)
    BY <2>3, <2>8, TaskCounted
  <2>9. CASE RecvResult(m, j, msg)
    <3>1. msg.type = "RESULT"
      BY <2>9 DEF RecvResult
    <3> QED
      BY <2>1, <2>3, <2>9, <3>1, ResultCounted, AbortCounted
  <2>10. CASE RecvNodeResult(m, j, msg)
    <3>1. msg.type = "NODE_RESULT"
      BY <2>10 DEF RecvNodeResult
    <3> QED
      BY <2>1, <2>3, <2>10, <3>1, NodeResultCounted, AbortCounted
  <2>11. CASE RecvLate(m, j)
    BY <2>1, <2>11, LateCounted
  <2> QED
    BY <2>4, <2>5, <2>6, <2>7, <2>8, <2>9, <2>10, <2>11
<1>10. CASE \E m, j \in Machine : Recv(m, j)
  BY <1>2, <1>9, <1>10
<1> QED
  BY <1>1, <1>3, <1>4, <1>5, <1>6, <1>7, <1>8, <1>10 DEF Next

(* Types and counts hold in every state, whatever the order of messages,   *)
(* reads and stolen tasks.                                                 *)
THEOREM CountsInvariant == Spec => [](TypeOK /\ DueInv)
<1>1. TokenInv /\ (TypeOK /\ DueInv) /\ [Next]_vars => (TypeOK /\ DueInv)'
  BY NextCounted
<1> QED
  BY <1>1, InitCounted, TokenInvariant, PTL DEF Spec

(* Queries, messages and reads have their types in every state.            *)
THEOREM TypeCorrect == Spec => []TypeOK
BY CountsInvariant, PTL

(* post_cnt, recv_cnt, nocore_post and nocore_recv agree with the local    *)
(* tasks, the reads, the requests and the answers that are still to come.  *)
THEOREM AnswersCounted == Spec => []AnswersDue
<1>1. TypeOK /\ DueInv => AnswersDue
  <2> SUFFICES ASSUME TypeOK, DueInv, fault # "late", NEW m \in Core, Searching(m)
               PROVE  Balanced(m)
    BY DEF AnswersDue
  <2>1. m \in Machine /\ chan \in Nets
    BY Machines, NetsTyped DEF TypeOK
  <2>2. Due(m, q[m], read[m], chan) /\ q[m].state # "END"
    BY <2>1 DEF DueInv, Searching
  <2>3. Bal(m, q[m], read[m], chan)
    BY <2>2 DEF Due
  <2> QED
    BY <2>1, <2>3, UnderWay DEF Bal, Balanced
<1> QED
  BY <1>1, CountsInvariant, PTL
=============================================================================
