---------------------------- MODULE RuntimeProofs -----------------------------
(***************************************************************************)
(* The thread pool and its loops, for any number of threads, items, loops  *)
(* and restarts, any chunk size and any order of thefts: while the main    *)
(* thread is outside of run, no worker is in a job (AllBack); threads of a *)
(* socket share a region (SocketShared); nobody is behind the barrier      *)
(* before every active thread has set up its context (BehindBarrier); and  *)
(* every item of a range is executed exactly once (ItemsOnce).             *)
(*                                                                         *)
(* The pool: the threads a busy thread has still to wake (Pend) are asleep *)
(* and nobody else's (Reserved); every worker that is busy has been woken  *)
(* by a busy thread with a smaller number that has it as a child (Woken)   *)
(* and that waits for it in decascade.  So the smallest busy worker has    *)
(* been woken by the main thread, which is inside of run.                  *)
(*                                                                         *)
(* The barrier: a thread that has arrived has children that have arrived,  *)
(* so when the root has arrived all have; only the root's arrival can turn *)
(* a parentsense into the sense of the episode.  The items: every item     *)
(* that has not been executed belongs to one thread, in its part of the    *)
(* range, its context or its hands, and a thread leaves empty-handed.      *)
(***************************************************************************)
EXTENDS Runtime, WellFoundedInduction, FiniteSetTheorems, TLAPS

MainOut == {"await", "idle", "next", "over", "exit"}
JobPc == {"job", "join", "arrive", "sense", "signal", "signal2"} \cup Working
Pc == MainOut \cup JobPc \cup
        {"start", "socket", "sleep", "left", "right", "collect", "gone"}

PoolTypeOK ==
  /\ pc \in [Thread -> Pc]
  /\ wbegin \in [Thread -> Nat] /\ wend \in [Thread -> Nat]
  /\ done \in [Thread -> BOOLEAN]
  /\ active \in 1 .. MaxThreads

(* The thread is inside of run, or has been woken and has not finished.    *)
Busy(t) ==
  IF t = 0 THEN pc[0] \notin MainOut
  ELSE ~done[t] /\ pc[t] \notin {"start", "socket"}

Phases ==
  /\ pc[0] \notin {"start", "socket", "sleep", "gone"}
  /\ \A t \in Thread \ {0} :
       /\ pc[t] \notin MainOut /\ pc[t] # "collect"
       /\ pc[t] \in {"start", "socket"} => pc[0] = "await" /\ ~done[t]
       /\ pc[0] = "await" => pc[t] \in {"start", "socket"} \/ done[t]
       /\ done[t] => pc[t] = "sleep"

Ranges ==
  \A t \in Thread : Busy(t) =>
    t < wbegin[t] /\ wbegin[t] <= wend[t] /\ wend[t] <= MaxThreads

(* The threads t has still to wake, or to have woken by those it wakes.    *)
Pend(t) ==
  IF Busy(t) /\ pc[t] \in {"sleep", "left"} THEN wbegin[t] .. wend[t] - 1
  ELSE IF Busy(t) /\ pc[t] = "right" THEN Midpoint(t) .. wend[t] - 1
  ELSE {}

Reserved ==
  /\ \A p \in Thread : \A c \in Pend(p) : c \in Thread \ {0} /\ done[c]
  /\ \A p, q \in Thread : \A c \in Pend(p) : c \in Pend(q) => p = q

WokenBy(p, t) ==
  /\ p < t /\ Busy(p) /\ wbegin[p] # wend[p]
  /\ \/ t = wbegin[p] /\ pc[p] \notin {"sleep", "left"}
     \/ /\ t = Midpoint(p) /\ Midpoint(p) < wend[p]
        /\ pc[p] \notin {"sleep", "left", "right"}

Woken == \A t \in Thread \ {0} : Busy(t) => \E p \in Thread : WokenBy(p, t)

PoolInv == PoolTypeOK /\ Phases /\ Ranges /\ Reserved /\ Woken

(* The thread has not begun with the job of the pool.                      *)
Fresh(t) ==
  \/ \E p \in Thread : t \in Pend(p)
  \/ Busy(t) /\ pc[t] \in {"sleep", "left", "right", "job"}

(* Only the first n threads are busy or will be woken.                     *)
Inside(n) == \A t \in Thread : Busy(t) => t < n /\ wend[t] <= n

(* A step that begins no job.                                              *)
Steady ==
  /\ \A u \in Thread : Fresh(u)' <=> Fresh(u)
  /\ \A n \in Nat : Inside(n) => Inside(n)'

-----------------------------------------------------------------------------
(* A set of naturals that is not empty has a least element.                *)
LEMMA LeastNat ==
  ASSUME NEW S \in SUBSET Nat, S # {}
  PROVE  \E n \in S : \A m \in S : n <= m
<1>1. IsWellFoundedOn(OpToRel(<, Nat), Nat)
  BY NatLessThanWellFounded
<1>2. PICK n \in S : \A y \in S : ~(<<y, n>> \in OpToRel(<, Nat))
  BY <1>1, WFMin
<1>3. \A m \in S : ~(m < n)
  BY <1>2 DEF OpToRel
<1> QED BY <1>3

(* There is a main thread, and threads are numbers.                        *)
LEMMA Threads ==
  /\ MaxThreads \in Nat /\ MaxThreads > 0 /\ 0 \in Thread
  /\ \A t \in Thread : t \in Nat /\ t < MaxThreads
  BY RuntimeAssumption DEF Thread

(* Outside of run nobody is busy.                                          *)
LEMMA NobodyBusy ==
  ASSUME PoolInv, pc[0] \in MainOut PROVE \A t \in Thread : ~Busy(t)
<1> SUFFICES ASSUME NEW b \in Thread, Busy(b) PROVE FALSE
  OBVIOUS
<1> DEFINE S == {t \in Thread : Busy(t)}
<1>1. S \in SUBSET Nat /\ S # {}
  BY Threads
<1>2. PICK n \in S : \A m \in S : n <= m
  BY <1>1, LeastNat
<1>3. n \in Thread \ {0} /\ Busy(n)
  BY <1>2 DEF Busy
<1>4. PICK p \in Thread : WokenBy(p, n)
  BY <1>3 DEF PoolInv, Woken
<1>5. p < n /\ p \in S
  BY <1>4 DEF WokenBy
<1> QED BY <1>2, <1>3, <1>5, Threads

(* The middle of a range that is not empty.                                *)
LEMMA Middle ==
  ASSUME PoolTypeOK, NEW t \in Thread, wbegin[t] <= wend[t], wbegin[t] # wend[t]
  PROVE  /\ Midpoint(t) \in Nat
         /\ wbegin[t] + 1 <= Midpoint(t) /\ Midpoint(t) <= wend[t]
<1> DEFINE d == wend[t] - wbegin[t]
<1>1. wbegin[t] \in Nat /\ wend[t] \in Nat
  BY DEF PoolTypeOK
<1>2. d \in Nat /\ d >= 1 /\ wend[t] = wbegin[t] + d
  BY <1>1
<1> HIDE DEF d
<1>3. (1 + d) \div 2 \in Nat /\ 1 <= (1 + d) \div 2 /\ (1 + d) \div 2 <= d
  BY <1>2
<1>4. Midpoint(t) = wbegin[t] + (1 + d) \div 2
  BY <1>1, <1>2 DEF Midpoint
<1> QED BY <1>1, <1>2, <1>3, <1>4

(* The pool as it is created.                                              *)
LEMMA PoolInitialised == Init => PoolInv
<1> SUFFICES ASSUME Init PROVE PoolInv
  OBVIOUS
<1>1. PoolTypeOK
  BY Threads DEF Init, PoolTypeOK, Pc, MainOut, Each
<1>2. \A t \in Thread : ~Busy(t) /\ Pend(t) = {}
  BY Threads DEF Init, Busy, Pend, MainOut
<1>3. Phases
  BY Threads DEF Init, Phases, MainOut
<1> QED BY <1>1, <1>2, <1>3 DEF PoolInv, Ranges, Reserved, Woken

(* A thread goes on inside of its job, or leaves it for good.              *)
LEMMA JobMove ==
  ASSUME PoolInv, NEW t \in Thread, NEW s, pc' = [pc EXCEPT ![t] = s],
         pc[t] \in JobPc,
         s \in JobPc \/ s = (IF t = 0 THEN "collect" ELSE "gone"),
         UNCHANGED <<wbegin, wend, done, active>>
  PROVE  /\ PoolInv'
         /\ \A u \in Thread : Busy(u)' = Busy(u) /\ Pend(u)' = Pend(u)
<1> USE DEF PoolInv
<1>1. pc'[t] = s /\ \A u \in Thread \ {t} : pc'[u] = pc[u]
  BY DEF PoolTypeOK
<1>2. s \in Pc
  BY DEF Pc
<1>3. PoolTypeOK'
  BY <1>2 DEF PoolTypeOK
<1>4. \A u \in Thread : Busy(u)' = Busy(u)
  BY <1>1, Threads DEF Busy, JobPc, MainOut, Working
<1>5. \A u \in Thread : Pend(u)' = Pend(u)
  BY <1>1, <1>4 DEF Pend, Midpoint, JobPc, Working
<1>6. Phases'
  BY <1>1, Threads DEF Phases, JobPc, MainOut, Working
<1>7. Ranges' /\ Reserved'
  BY <1>4, <1>5 DEF Ranges, Reserved
<1>8. Woken'
  <2>1. \A p, u \in Thread : WokenBy(p, u) => WokenBy(p, u)'
    BY <1>1, <1>4 DEF WokenBy, Midpoint, JobPc, Working
  <2> QED BY <1>4, <2>1 DEF Woken
<1> QED BY <1>3, <1>4, <1>5, <1>6, <1>7, <1>8

(* The main thread goes on outside of run.                                 *)
LEMMA OutMove ==
  ASSUME PoolInv, NEW s, pc' = [pc EXCEPT ![0] = s],
         pc[0] \in MainOut, s \in MainOut \ {"await"},
         UNCHANGED <<wbegin, wend, done, active>>,
         pc[0] = "await" => \A t \in Thread : done[t]
  PROVE  PoolInv'
<1> USE DEF PoolInv
<1>1. pc'[0] = s /\ \A u \in Thread \ {0} : pc'[u] = pc[u]
  BY Threads DEF PoolTypeOK
<1>2. PoolTypeOK'
  BY DEF PoolTypeOK, Pc
<1>3. \A u \in Thread : ~Busy(u)
  BY NobodyBusy
<1>4. \A u \in Thread : ~Busy(u)' /\ Pend(u)' = {}
  BY <1>1, <1>3 DEF Busy, Pend
<1>5. Phases'
  BY <1>1, Threads DEF Phases, MainOut
<1> QED BY <1>2, <1>4, <1>5 DEF Ranges, Reserved, Woken

(* The main thread calls run.                                              *)
LEMMA RunMove ==
  ASSUME PoolInv, NEW job, NEW n \in 1 .. MaxThreads, Run(job, n),
         pc[0] \in {"idle", "next"}, done' = done, active' \in 1 .. MaxThreads
  PROVE  PoolInv'
<1> USE DEF PoolInv
<1>1. pc'[0] = "left" /\ \A u \in Thread \ {0} : pc'[u] = pc[u]
  BY Threads DEF PoolTypeOK, Run, Goto
<1>2. wbegin'[0] = 1 /\ wend'[0] = n
  BY Threads DEF PoolTypeOK, Run
<1>3. PoolTypeOK'
  BY Threads DEF PoolTypeOK, Run, Goto, Pc
<1>4. \A u \in Thread : ~Busy(u)
  BY NobodyBusy DEF MainOut
<1>5. \A u \in Thread \ {0} : ~Busy(u)' /\ done[u] /\ Pend(u)' = {}
  BY <1>1, <1>4 DEF Busy, Pend, Phases
<1>6. Busy(0)' /\ Pend(0)' = 1 .. n - 1
  BY <1>1, <1>2 DEF Busy, Pend, MainOut
<1>7. Phases'
  BY <1>1, Threads DEF Phases, MainOut
<1>8. Ranges'
  BY <1>2, <1>5, <1>6, Threads DEF Ranges
<1>9. Reserved'
  <2>1. \A c \in 1 .. n - 1 : c \in Thread \ {0}
    BY Threads DEF Thread
  <2> QED BY <1>5, <1>6, <2>1 DEF Reserved
<1>10. Woken'
  BY <1>5 DEF Woken
<1> QED BY <1>3, <1>7, <1>8, <1>9, <1>10

(* A thread that has not been told to sleep is busy.                       *)
LEMMA AwakeBusy ==
  ASSUME PoolInv, NEW t \in Thread, pc[t] \in {"left", "right"} \cup JobPc
  PROVE  Busy(t)
<1>1. pc[t] \notin MainOut \cup {"start", "socket", "sleep"}
  BY DEF MainOut, JobPc, Working
<1>2. CASE t = 0
  BY <1>1, <1>2 DEF Busy
<1>3. CASE t # 0
  BY <1>1, <1>3 DEF Busy, PoolInv, Phases
<1> QED BY <1>2, <1>3

(* A busy thread has been woken: it is nobody's to wake.                   *)
LEMMA BusyTaken ==
  ASSUME PoolInv, NEW t \in Thread, Busy(t) PROVE ~\E p \in Thread : t \in Pend(p)
  BY DEF PoolInv, Reserved, Busy

(* Someone else's wakeup reaches a sleeping thread.                        *)
LEMMA WaitMove ==
  ASSUME PoolInv, NEW t \in Thread, Wait(t) PROVE PoolInv' /\ Steady
<1> USE DEF PoolInv
<1>1. pc[t] = "sleep" /\ ~done[t] /\ t # 0
  BY DEF Wait, Phases
<1>2. pc'[t] = "left" /\ \A u \in Thread \ {t} : pc'[u] = pc[u]
  BY DEF PoolTypeOK, Wait, Goto
<1>3. UNCHANGED <<wbegin, wend, done, active>>
  BY DEF Wait, poolVars
<1>4. PoolTypeOK'
  BY <1>3 DEF PoolTypeOK, Wait, Goto, Pc
<1>5. \A u \in Thread : Busy(u)' = Busy(u)
  BY <1>1, <1>2, <1>3, Threads DEF Busy
<1>6. \A u \in Thread : Pend(u)' = Pend(u)
  BY <1>1, <1>2, <1>3, <1>5 DEF Pend, Midpoint
<1>7. Phases'
  BY <1>1, <1>2, <1>3, Threads DEF Phases, MainOut
<1>8. Ranges' /\ Reserved'
  BY <1>3, <1>5, <1>6 DEF Ranges, Reserved
<1>9. Woken'
  <2>1. \A p, u \in Thread : WokenBy(p, u) => WokenBy(p, u)'
    BY <1>1, <1>2, <1>3, <1>5 DEF WokenBy, Midpoint
  <2> QED BY <1>5, <2>1 DEF Woken
<1>10. Steady
  BY <1>1, <1>2, <1>3, <1>5, <1>6 DEF Steady, Fresh, Inside
<1> QED BY <1>4, <1>7, <1>8, <1>9, <1>10

(* A thread wakes c, the first of those it has still to wake, and gives it *)
(* the ones up to e; it keeps the ones from e on.                          *)
LEMMA WakeMove ==
  ASSUME PoolInv, NEW t \in Thread, NEW c \in Nat, NEW e \in Nat, NEW s,
         pc[t] \in {"left", "right"}, Pend(t) = c .. wend[t] - 1,
         t < c, c + 1 <= e, e <= wend[t], wbegin[t] # wend[t],
         Wakeup(c, c + 1, e), Goto(t, s), active' = active,
         \/ pc[t] = "left" /\ s = "right" /\ c = wbegin[t] /\ e = Midpoint(t)
         \/ pc[t] = "right" /\ s = "job" /\ c = Midpoint(t) /\ e = wend[t]
  PROVE  PoolInv' /\ Steady
<1> USE DEF PoolInv
<1>1. Busy(t) /\ wbegin[t] \in Nat /\ wend[t] \in Nat /\ wend[t] <= MaxThreads
  BY AwakeBusy DEF Ranges, PoolTypeOK
<1>2. c \in Pend(t)
  <2>1. c <= wend[t] - 1
    BY <1>1
  <2> QED BY <1>1, <2>1
<1>3. c \in Thread \ {0} /\ done[c] /\ c # t
  <2>1. t \in Nat
    BY Threads
  <2>2. c # t
    BY <2>1
  <2> QED BY <1>2, <2>2 DEF Reserved
<1>4. pc[c] = "sleep" /\ ~Busy(c)
  BY <1>3 DEF Phases, Busy
<1>5. /\ pc'[t] = s /\ \A u \in Thread \ {t} : pc'[u] = pc[u]
      /\ ~done'[c] /\ \A u \in Thread \ {c} : done'[u] = done[u]
      /\ wbegin'[c] = c + 1 /\ \A u \in Thread \ {c} : wbegin'[u] = wbegin[u]
      /\ wend'[c] = e /\ \A u \in Thread \ {c} : wend'[u] = wend[u]
  BY <1>3 DEF PoolTypeOK, Wakeup, Goto
<1>6. PoolTypeOK'
  <2>1. s \in Pc
    BY DEF Pc, JobPc
  <2> QED BY <1>3, <2>1, Threads DEF PoolTypeOK, Wakeup, Goto
<1>7. Busy(c)' /\ Busy(t)' /\ \A u \in Thread \ {c, t} : Busy(u)' = Busy(u)
  BY <1>1, <1>3, <1>4, <1>5, Threads DEF Busy, MainOut
<1>8. Midpoint(t)' = Midpoint(t) /\ \A u \in Thread \ {c} : Midpoint(u)' = Midpoint(u)
  BY <1>3, <1>5 DEF Midpoint
<1>9. Pend(c)' = c + 1 .. e - 1
  BY <1>3, <1>4, <1>5, <1>7 DEF Pend
<1>10. Pend(t)' = e .. wend[t] - 1
  <2>1. CASE s = "right"
    BY <1>3, <1>5, <1>7, <1>8, <2>1 DEF Pend
  <2>2. CASE s = "job"
    <3>1. Pend(t)' = {} /\ e = wend[t]
      BY <1>5, <2>2 DEF Pend
    <3> QED BY <1>1, <3>1
  <2> QED BY <2>1, <2>2
<1>11. \A u \in Thread \ {c, t} : Pend(u)' = Pend(u)
  BY <1>3, <1>5, <1>7, <1>8 DEF Pend
<1>12. Phases'
  <2>1. pc[0] # "await"
    <3>1. CASE t = 0
      BY <3>1
    <3>2. CASE t # 0
      BY <3>2 DEF Phases
    <3> QED BY <3>1, <3>2
  <2>2. pc'[0] # "await"
    BY <1>5, <2>1, Threads
  <2> QED BY <1>3, <1>4, <1>5, <2>2, Threads DEF Phases, MainOut
<1>13. Ranges'
  BY <1>1, <1>3, <1>5, <1>7, Threads DEF Ranges
<1>14. Reserved'
  <2>1. /\ Pend(c)' \subseteq Pend(t) \ {c} /\ Pend(t)' \subseteq Pend(t) \ {c}
        /\ Pend(c)' \cap Pend(t)' = {}
    BY <1>1, <1>9, <1>10
  <2>2. \A p \in Thread \ {c, t} : Pend(p)' \cap Pend(t) = {} /\ c \notin Pend(p)'
    BY <1>2, <1>11 DEF Reserved
  <2>3. \A p \in Thread : \A x \in Pend(p)' : x \in Thread \ {0} /\ done'[x]
    <3> SUFFICES ASSUME NEW p \in Thread, NEW x \in Pend(p)'
                 PROVE  x \in Thread \ {0} /\ done'[x]
      OBVIOUS
    <3>1. x # c /\ \E q \in Thread : x \in Pend(q)
      BY <1>11, <2>1, <2>2
    <3> QED BY <1>5, <3>1 DEF Reserved
  <2>4. \A p, q \in Thread : \A x \in Pend(p)' : x \in Pend(q)' => p = q
    BY <1>3, <1>11, <2>1, <2>2 DEF Reserved
  <2> QED BY <2>3, <2>4 DEF Reserved
<1>15. Woken'
  <2>1. WokenBy(t, c)'
    <3>1. wbegin'[t] = wbegin[t] /\ wend'[t] = wend[t]
      BY <1>3, <1>5
    <3>2. c < wend[t]
      BY <1>1
    <3> QED BY <1>3, <1>5, <1>7, <1>8, <3>1, <3>2 DEF WokenBy
  <2>2. \A p, u \in Thread : WokenBy(p, u) => WokenBy(p, u)'
    BY <1>3, <1>4, <1>5, <1>7, <1>8 DEF WokenBy
  <2> QED BY <1>1, <1>7, <2>1, <2>2 DEF Woken
<1>16. \A u \in Thread : Fresh(u)' <=> Fresh(u)
  <2>1. \A x : x \in Pend(c)' \cup Pend(t)' \cup {c} <=> x \in Pend(t)
    BY <1>1, <1>9, <1>10
  <2>2. Fresh(c) /\ Fresh(c)'
    BY <1>2, <1>3, <1>4, <1>5, <1>7 DEF Fresh
  <2>3. Fresh(t) /\ Fresh(t)'
    BY <1>1, <1>5, <1>7 DEF Fresh
  <2>4. ASSUME NEW u \in Thread \ {c, t} PROVE Fresh(u)' <=> Fresh(u)
    <3>1. (\E p \in Thread : u \in Pend(p)') <=> \E p \in Thread : u \in Pend(p)
      <4>1. ASSUME NEW p \in Thread, u \in Pend(p)' PROVE \E q \in Thread : u \in Pend(q)
        BY <1>11, <2>1, <4>1
      <4>2. ASSUME NEW p \in Thread, u \in Pend(p) PROVE \E q \in Thread : u \in Pend(q)'
        <5>1. CASE p = t
          BY <1>3, <2>1, <4>2, <5>1
        <5>2. CASE p = c
          BY <1>4, <4>2, <5>2 DEF Pend
        <5>3. CASE p \notin {c, t}
          BY <1>11, <4>2, <5>3
        <5> QED BY <5>1, <5>2, <5>3
      <4> QED BY <4>1, <4>2
    <3> QED BY <1>5, <1>7, <3>1 DEF Fresh
  <2> QED BY <2>2, <2>3, <2>4
<1>17. ASSUME NEW n \in Nat, Inside(n) PROVE Inside(n)'
  <2>1. wend[t] <= n
    BY <1>1, <1>17 DEF Inside
  <2>2. c < n /\ e <= n
    BY <1>1, <2>1
  <2> QED BY <1>1, <1>3, <1>5, <1>7, <1>17, <2>2 DEF Inside
<1> QED BY <1>6, <1>12, <1>13, <1>14, <1>15, <1>16, <1>17 DEF Steady

(* cascade.                                                                *)
LEMMA CascadeMove ==
  ASSUME PoolInv, NEW t \in Thread, Cascade(t) PROVE PoolInv' /\ Steady
<1>1. pc[t] \in {"left", "right"} /\ active' = active
  BY DEF Cascade
<1>2. Busy(t)
  BY <1>1, AwakeBusy
<1>3. t < wbegin[t] /\ wbegin[t] <= wend[t] /\ wend[t] <= MaxThreads
  BY <1>2 DEF PoolInv, Ranges
<1>4. wbegin[t] \in Nat /\ wend[t] \in Nat /\ t \in Nat
  BY Threads DEF PoolInv, PoolTypeOK
<1>5. CASE /\ pc[t] = "left" /\ wbegin[t] # wend[t]
           /\ Wakeup(wbegin[t], wbegin[t] + 1, Midpoint(t)) /\ Goto(t, "right")
  <2>1. /\ Midpoint(t) \in Nat
        /\ wbegin[t] + 1 <= Midpoint(t) /\ Midpoint(t) <= wend[t]
    BY <1>3, <1>5, Middle DEF PoolInv
  <2>2. Pend(t) = wbegin[t] .. wend[t] - 1
    BY <1>2, <1>5 DEF Pend
  <2> QED BY <1>1, <1>3, <1>4, <1>5, <2>1, <2>2, WakeMove
<1>6. CASE /\ pc[t] = "right" /\ Midpoint(t) < wend[t]
           /\ Wakeup(Midpoint(t), Midpoint(t) + 1, wend[t]) /\ Goto(t, "job")
  <2>1. wbegin[t] # wend[t]
    <3>1. SUFFICES ASSUME wbegin[t] = wend[t] PROVE FALSE
      OBVIOUS
    <3>2. Midpoint(t) = wend[t]
      BY <1>4, <3>1 DEF Midpoint
    <3> QED BY <1>4, <1>6, <3>2
  <2>2. /\ Midpoint(t) \in Nat
        /\ wbegin[t] + 1 <= Midpoint(t) /\ Midpoint(t) <= wend[t]
    BY <1>3, <2>1, Middle DEF PoolInv
  <2>3. Pend(t) = Midpoint(t) .. wend[t] - 1
    BY <1>2, <1>6 DEF Pend
  <2>4. t < Midpoint(t) /\ Midpoint(t) + 1 <= wend[t] /\ wend[t] <= wend[t]
    BY <1>3, <1>4, <1>6, <2>2
  <2> QED BY <1>1, <1>4, <1>6, <2>1, <2>2, <2>3, <2>4, WakeMove
<1>7. CASE /\ \/ pc[t] = "left" /\ wbegin[t] = wend[t]
              \/ pc[t] = "right" /\ Midpoint(t) >= wend[t]
           /\ Goto(t, "job") /\ UNCHANGED <<wbegin, wend, done>>
  <2> USE DEF PoolInv
  <2>1. pc'[t] = "job" /\ \A u \in Thread \ {t} : pc'[u] = pc[u]
    BY <1>7 DEF PoolTypeOK, Goto
  <2>2. UNCHANGED <<wbegin, wend, done, active>>
    BY <1>1, <1>7
  <2>3. PoolTypeOK'
    BY <1>7, <2>2 DEF PoolTypeOK, Goto, Pc, JobPc
  <2>4. \A u \in Thread : Busy(u)' = Busy(u)
    BY <1>1, <2>1, <2>2, Threads DEF Busy, MainOut
  <2>5. Pend(t) = {} /\ Pend(t)' = {}
    <3>1. Pend(t)' = {}
      BY <2>1 DEF Pend
    <3>2. CASE pc[t] = "left" /\ wbegin[t] = wend[t]
      BY <1>4, <3>1, <3>2 DEF Pend
    <3>3. CASE pc[t] = "right" /\ Midpoint(t) >= wend[t]
      <4>1. Midpoint(t) \in Int
        BY <1>4 DEF Midpoint
      <4>2. Pend(t) = Midpoint(t) .. wend[t] - 1
        BY <1>2, <3>3 DEF Pend
      <4> QED BY <1>4, <3>1, <3>3, <4>1, <4>2
    <3> QED BY <1>7, <3>2, <3>3
  <2>6. \A u \in Thread : Pend(u)' = Pend(u)
    BY <2>1, <2>2, <2>4, <2>5 DEF Pend, Midpoint
  <2>7. Phases'
    BY <1>1, <2>1, <2>2, Threads DEF Phases, MainOut
  <2>8. Ranges' /\ Reserved'
    BY <2>2, <2>4, <2>6 DEF Ranges, Reserved
  <2>9. Woken'
    <3>1. \A p, u \in Thread : WokenBy(p, u) => WokenBy(p, u)'
      BY <1>7, <2>1, <2>2, <2>4 DEF WokenBy, Midpoint
    <3> QED BY <2>4, <3>1 DEF Woken
  <2>10. Steady
    BY <1>1, <2>1, <2>2, <2>4, <2>6 DEF Steady, Fresh, Inside
  <2> QED BY <2>3, <2>7, <2>8, <2>9, <2>10
<1> QED BY <1>5, <1>6, <1>7 DEF Cascade

(* decascade: the thread's children have finished, so nobody it has woken  *)
(* is busy.                                                                *)
LEMMA DecascadeMove ==
  ASSUME PoolInv, NEW t \in Thread, Decascade(t) PROVE PoolInv' /\ Steady
<1> USE DEF PoolInv
<1> DEFINE s == CASE t # 0 -> "sleep"
                  [] t = 0 /\ work = "range" -> "next"
                  [] OTHER -> "over"
<1>1. /\ pc[t] = "join" /\ ChildrenDone(t)
      /\ done' = [done EXCEPT ![t] = TRUE] /\ pc' = [pc EXCEPT ![t] = s]
  BY DEF Decascade, Goto
<1>2. UNCHANGED <<wbegin, wend, active>>
  BY DEF Decascade
<1>3. (t # 0 => s = "sleep") /\ (t = 0 => s \in {"next", "over"})
  BY Zenon
<1> HIDE DEF s
<1>4. s \in Pc
  BY <1>3 DEF Pc, MainOut
<1>5. /\ pc'[t] = s /\ \A u \in Thread \ {t} : pc'[u] = pc[u]
      /\ done'[t] /\ \A u \in Thread \ {t} : done'[u] = done[u]
  BY <1>1 DEF PoolTypeOK
<1>6. PoolTypeOK'
  BY <1>1, <1>2, <1>4 DEF PoolTypeOK
<1>7. ~Busy(t)' /\ Busy(t)
  <2>1. Busy(t)
    BY <1>1, AwakeBusy DEF JobPc
  <2>2. CASE t = 0
    BY <1>3, <1>5, <2>1, <2>2 DEF Busy, MainOut
  <2>3. CASE t # 0
    BY <1>5, <2>1, <2>3 DEF Busy
  <2> QED BY <2>2, <2>3
<1>8. \A u \in Thread \ {t} : Busy(u)' = Busy(u)
  BY <1>5, Threads DEF Busy
<1>9. \A u \in Thread : Pend(u)' \subseteq Pend(u)
  BY <1>2, <1>5, <1>7, <1>8 DEF Pend, Midpoint
<1>10. Phases'
  BY <1>1, <1>3, <1>5, Threads DEF Phases, MainOut
<1>11. Ranges'
  BY <1>2, <1>7, <1>8 DEF Ranges
<1>12. Reserved'
  BY <1>5, <1>9 DEF Reserved
<1>13. Woken'
  <2> SUFFICES ASSUME NEW u \in Thread \ {0}, Busy(u)'
               PROVE  \E p \in Thread : WokenBy(p, u)'
    BY DEF Woken
  <2>1. u # t /\ Busy(u)
    BY <1>7, <1>8
  <2>2. PICK p \in Thread : WokenBy(p, u)
    BY <2>1 DEF Woken
  <2>3. p # t
    <3> SUFFICES ASSUME p = t PROVE FALSE
      OBVIOUS
    <3>1. ~done[u]
      BY <2>1 DEF Busy
    <3> QED BY <1>1, <2>2, <3>1 DEF WokenBy, ChildrenDone
  <2>4. WokenBy(p, u)'
    BY <1>2, <1>5, <1>8, <2>2, <2>3 DEF WokenBy, Midpoint
  <2> QED BY <2>4
<1>14. \A u \in Thread : Fresh(u)' <=> Fresh(u)
  <2>1. \A u \in Thread : Pend(u)' = Pend(u)
    BY <1>1, <1>2, <1>5, <1>7, <1>8 DEF Pend, Midpoint
  <2>2. ~\E p \in Thread : t \in Pend(p)
    BY <1>7, BusyTaken
  <2>3. ~Fresh(t) /\ ~Fresh(t)'
    BY <1>1, <1>7, <2>1, <2>2 DEF Fresh
  <2>4. \A u \in Thread \ {t} : Fresh(u)' <=> Fresh(u)
    BY <1>5, <1>8, <2>1 DEF Fresh
  <2> QED BY <2>3, <2>4
<1>15. \A n \in Nat : Inside(n) => Inside(n)'
  BY <1>2, <1>7, <1>8 DEF Inside
<1> QED BY <1>6, <1>10, <1>11, <1>12, <1>13, <1>14, <1>15 DEF Steady

(* A thread comes up while the main thread awaits it.                      *)
LEMMA InitMove ==
  ASSUME PoolInv, NEW t \in Thread, InitThread(t) PROVE PoolInv'
<1> USE DEF PoolInv
<1>1. pc[t] \in {"start", "socket"} /\ t # 0 /\ pc[0] = "await"
  BY DEF InitThread, Phases
<1>2. UNCHANGED <<wbegin, wend, active>>
  BY DEF InitThread
<1>3. \A u \in Thread : ~Busy(u)
  BY <1>1, NobodyBusy DEF MainOut
<1>4. CASE pc[t] = "start" /\ Goto(t, "socket") /\ UNCHANGED done
  <2>1. pc'[t] = "socket" /\ \A u \in Thread \ {t} : pc'[u] = pc[u]
    BY <1>4 DEF PoolTypeOK, Goto
  <2>2. PoolTypeOK'
    BY <1>2, <1>4 DEF PoolTypeOK, Goto, Pc
  <2>3. \A u \in Thread : ~Busy(u)' /\ Pend(u)' = {}
    BY <1>1, <1>3, <1>4, <2>1, Threads DEF Busy, Pend
  <2>4. Phases'
    BY <1>1, <1>4, <2>1, Threads DEF Phases, MainOut
  <2> QED BY <2>2, <2>3, <2>4 DEF Ranges, Reserved, Woken
<1>5. CASE /\ pc[t] = "socket" /\ Goto(t, "sleep")
           /\ done' = [done EXCEPT ![t] = TRUE]
  <2>1. /\ pc'[t] = "sleep" /\ \A u \in Thread \ {t} : pc'[u] = pc[u]
        /\ done'[t] /\ \A u \in Thread \ {t} : done'[u] = done[u]
    BY <1>5 DEF PoolTypeOK, Goto
  <2>2. PoolTypeOK'
    BY <1>2, <1>5 DEF PoolTypeOK, Goto, Pc
  <2>3. \A u \in Thread : ~Busy(u)' /\ Pend(u)' = {}
    BY <1>1, <1>3, <1>5, <2>1, Threads DEF Busy, Pend
  <2>4. Phases'
    BY <1>1, <2>1, Threads DEF Phases, MainOut
  <2> QED BY <2>2, <2>3, <2>4 DEF Ranges, Reserved, Woken
<1> QED BY <1>4, <1>5 DEF InitThread

(* The threads have been joined, new ones are started.                     *)
LEMMA ContinueMove ==
  ASSUME PoolInv, PoolContinue PROVE PoolInv'
<1> USE DEF PoolInv
<1>1. \A u \in Thread : pc'[u] = (IF u = 0 THEN "await" ELSE "start") /\ done'[u] = (u = 0)
  BY DEF PoolContinue
<1>2. PoolTypeOK'
  BY DEF PoolTypeOK, PoolContinue, Pc, MainOut
<1>3. \A u \in Thread : ~Busy(u)' /\ Pend(u)' = {}
  BY <1>1, Threads DEF Busy, Pend, MainOut
<1>4. Phases'
  BY <1>1, Threads DEF Phases, MainOut
<1> QED BY <1>2, <1>3, <1>4 DEF Ranges, Reserved, Woken

(* A step of a loop stays inside of the job.                               *)
LEMMA LoopGoto ==
  ASSUME NEW t \in Thread, LoopStep(t) PROVE \E s \in JobPc : Goto(t, s)
<1>1. CASE LoopInit(t) \/ BarrierSense(t) \/ BarrierSignal(t)
  BY <1>1 DEF LoopInit, BarrierSense, BarrierSignal, JobPc, Working
<1>2. CASE BarrierArrive(t)
  <2>1. Goto(t, "signal") \/ Goto(t, "sense")
    BY <1>2 DEF BarrierArrive
  <2> QED BY <2>1 DEF JobPc
<1>3. CASE GetWork(t)
  <2>1. Goto(t, "exec") \/ Goto(t, "steal")
    BY <1>3 DEF GetWork
  <2> QED BY <2>1 DEF JobPc, Working
<1>4. CASE Execute(t)
  <2>1. Goto(t, "work") \/ Goto(t, "exec")
    BY <1>4 DEF Execute
  <2> QED BY <2>1 DEF JobPc, Working
<1>5. CASE StealWork(t)
  <2>1. Goto(t, "assign") \/ Goto(t, "steal")
    BY <1>5 DEF StealWork
  <2> QED BY <2>1 DEF JobPc, Working
<1>6. CASE AssignWork(t)
  BY <1>6 DEF AssignWork, JobPc, Working
<1>7. CASE Look(t)
  <2> DEFINE n == scan[t]
             far == CASE n.saw -> "work"
                      [] ~n.saw /\ n.phase = 3 -> "join"
                      [] OTHER -> "steal"
  <2>1. far \in {"work", "join", "steal"}
    BY Zenon
  <2>2. Goto(t, "take") \/ Goto(t, "steal") \/ Goto(t, far)
    BY <1>7, Zenon DEF Look
  <2> HIDE DEF far
  <2> QED BY <2>1, <2>2 DEF JobPc, Working
<1> QED BY <1>1, <1>2, <1>3, <1>4, <1>5, <1>6, <1>7 DEF LoopStep

-----------------------------------------------------------------------------
(* Every step keeps the invariant of the pool.                             *)
THEOREM PoolInductive == PoolInv /\ [Next]_vars => PoolInv'
<1> SUFFICES ASSUME PoolInv, [Next]_vars PROVE PoolInv'
  OBVIOUS
<1>1. CASE UNCHANGED vars
  BY <1>1 DEF vars, poolVars, PoolInv, PoolTypeOK, Phases, Ranges, Reserved, Woken, WokenBy,
     Pend, Busy, Midpoint
<1>2. CASE PoolReady
  <2>1. pc[0] = "await" /\ \A t \in Thread : done[t]
    BY <1>2 DEF PoolReady
  <2>2. pc' = [pc EXCEPT ![0] = "idle"] /\ UNCHANGED <<wbegin, wend, done, active>>
    BY <1>2 DEF PoolReady, Goto, poolVars
  <2> QED BY <2>1, <2>2, OutMove DEF MainOut
<1>3. CASE OnEach
  <2>1. PICK n \in 1 .. MaxThreads : active' = n /\ Run("range", n)
    BY <1>3 DEF OnEach
  <2> QED BY <1>3, <2>1, RunMove DEF OnEach
<1>4. CASE DoAll
  <2>1. active \in 1 .. MaxThreads
    BY DEF PoolInv, PoolTypeOK
  <2> QED BY <1>4, <2>1, RunMove DEF DoAll
<1>5. CASE PoolPause
  <2>1. MaxThreads \in 1 .. MaxThreads /\ active \in 1 .. MaxThreads
    BY Threads DEF PoolInv, PoolTypeOK
  <2> QED BY <1>5, <2>1, RunMove DEF PoolPause
<1>6. CASE EndLoop
  <2> DEFINE s == IF Cardinality(storages) = 1 THEN "idle" ELSE "over"
  <2>1. /\ pc[0] = "over" /\ pc' = [pc EXCEPT ![0] = s]
        /\ UNCHANGED <<wbegin, wend, done, active>>
    BY <1>6 DEF EndLoop, Goto, poolVars
  <2>2. s \in {"idle", "over"}
    OBVIOUS
  <2> HIDE DEF s
  <2> QED BY <2>1, <2>2, OutMove DEF MainOut
<1>7. CASE ConstructStorage
  <2>1. /\ pc[0] = "idle"
        /\ pc' = pc \/ pc' = [pc EXCEPT ![0] = "exit"]
        /\ UNCHANGED <<wbegin, wend, done, active>>
    BY <1>7 DEF ConstructStorage, Goto, poolVars
  <2>2. CASE pc' = pc
    BY <2>1, <2>2 DEF PoolInv, PoolTypeOK, Phases, Ranges, Reserved, Woken, WokenBy,
       Pend, Busy, Midpoint
  <2>3. CASE pc' = [pc EXCEPT ![0] = "exit"]
    BY <2>1, <2>3, OutMove DEF MainOut
  <2> QED BY <2>1, <2>2, <2>3
<1>8. CASE DestructStorage
  <2>1. UNCHANGED <<pc, wbegin, wend, done, active>>
    BY <1>8 DEF DestructStorage, poolVars
  <2> QED BY <2>1 DEF PoolInv, PoolTypeOK, Phases, Ranges, Reserved, Woken, WokenBy,
       Pend, Busy, Midpoint
<1>9. CASE PoolContinue
  BY <1>9, ContinueMove
<1>10. ASSUME NEW t \in Thread, PoolStep(t) PROVE PoolInv'
  <2>1. CASE InitThread(t)
    BY <2>1, InitMove
  <2>2. CASE Wait(t)
    BY <2>2, WaitMove
  <2>3. CASE Cascade(t)
    BY <2>3, CascadeMove
  <2>4. CASE Decascade(t)
    BY <2>4, DecascadeMove
  <2>5. CASE Shutdown(t)
    <3> DEFINE s == IF t = 0 THEN "collect" ELSE "gone"
    <3>1. /\ pc[t] = "job" /\ pc' = [pc EXCEPT ![t] = s]
          /\ UNCHANGED <<wbegin, wend, done, active>>
      BY <2>5 DEF Shutdown, Goto, poolVars
    <3> QED BY <3>1, JobMove DEF JobPc
  <2>6. CASE SetRange(t)
    <3>1. /\ pc[t] = "job" /\ pc' = [pc EXCEPT ![t] = "join"]
          /\ UNCHANGED <<wbegin, wend, done, active>>
      BY <2>6 DEF SetRange, Goto, poolVars
    <3> QED BY <3>1, JobMove DEF JobPc
  <2> QED BY <1>10, <2>1, <2>2, <2>3, <2>4, <2>5, <2>6 DEF PoolStep
<1>11. ASSUME NEW t \in Thread, LoopStep(t) PROVE PoolInv'
  <2>1. UNCHANGED <<wbegin, wend, done, active>>
    BY <1>11 DEF LoopStep, LoopInit, BarrierArrive, BarrierSense, BarrierSignal, GetWork,
       Execute, Look, StealWork, AssignWork, poolVars
  <2>2. pc[t] \in JobPc
    BY <1>11 DEF LoopStep, LoopInit, BarrierArrive, BarrierSense, BarrierSignal, GetWork,
       Execute, Look, StealWork, AssignWork, JobPc, Working
  <2>5. PICK s \in JobPc : Goto(t, s)
    BY <1>11, LoopGoto
  <2>6. pc' = [pc EXCEPT ![t] = s]
    BY <2>5 DEF Goto
  <2> QED BY <2>1, <2>2, <2>6, JobMove
<1> QED BY <1>1, <1>2, <1>3, <1>4, <1>5, <1>6, <1>7, <1>8, <1>9, <1>10, <1>11 DEF Next

(* The invariant of the pool holds in every state of every run.            *)
THEOREM PoolInvariance == Spec => []PoolInv
<1>1. PoolInv /\ [Next]_vars => PoolInv'
  BY PoolInductive
<1> QED BY <1>1, PoolInitialised, PTL DEF Spec

(* On any number of threads, with any sequence of loops and restarts: while *)
(* the main thread is outside of run, every worker has come back from the  *)
(* last job and sleeps.                                                    *)
THEOREM AllReturned == Spec => []AllBack
<1>1. PoolInv => AllBack
  <2> SUFFICES ASSUME PoolInv, pc[0] \in {"idle", "next", "over"}, NEW t \in Thread \ {0}
               PROVE  pc[t] = "sleep" /\ done[t]
    BY DEF AllBack
  <2>1. ~Busy(t)
    BY NobodyBusy DEF MainOut
  <2>2. pc[t] \notin {"start", "socket"}
    BY DEF PoolInv, Phases
  <2> QED BY <2>1, <2>2 DEF Busy, PoolInv, Phases
<1> QED BY <1>1, PoolInvariance, PTL

-----------------------------------------------------------------------------
(* The leader of a socket is a thread, is its own leader, and comes first. *)
Leaders(top) ==
  \A t \in Thread : LET l == top[t].socketLeader IN
    l \in Thread /\ l <= t /\ top[l].socketLeader = l

(* Sockets are numbered.                                                   *)
Numbered(top) == \A t \in Thread : top[t].socket \in Nat

(* The CPUs in use are a sequence, in whatever order they are sorted.      *)
LEMMA Usable ==
  ASSUME NEW h \in Hosts
  PROVE  DOMAIN UsableCPUs(h) = 1 .. MaxThreads /\ Len(UsableCPUs(h)) = MaxThreads
<1>1. \A x : MarkSMT(x) = [k \in DOMAIN MarkSMT(x) |-> MarkSMT(x)[k]]
  BY DEF MarkSMT
<1>2. UsableCPUs(h) = [k \in DOMAIN UsableCPUs(h) |-> UsableCPUs(h)[k]]
  BY <1>1, Zenon DEF UsableCPUs
<1> DEFINE info == UsableCPUs(h)
           S == {info[k] : k \in DOMAIN info}
<1>3. DOMAIN info = 1 .. MaxThreads /\ MaxThreads \in Nat
  BY RuntimeAssumption
<1>4. info \in [1 .. MaxThreads -> S]
  BY <1>2, <1>3
<1> HIDE DEF info, S
<1>5. info \in Seq(S) /\ Len(info) = MaxThreads
  BY <1>3, <1>4
<1> QED BY <1>3, <1>5 DEF info

(* The first entry of a socket.                                            *)
LEMMA FirstOfSocket ==
  ASSUME NEW info, DOMAIN info = 1 .. MaxThreads, NEW k \in 1 .. MaxThreads
  PROVE  /\ LeaderOf(info, k) \in 1 .. MaxThreads /\ LeaderOf(info, k) <= k
         /\ LeaderOf(info, LeaderOf(info, k)) = LeaderOf(info, k)
<1> DEFINE First(l) == /\ info[l].physid = info[k].physid
                       /\ \A m \in 1 .. l - 1 : info[m].physid # info[k].physid
           S == {l \in 1 .. MaxThreads : info[l].physid = info[k].physid}
           L == LeaderOf(info, k)
<1>1. S \in SUBSET Nat /\ S # {}
  OBVIOUS
<1>2. PICK n \in S : \A m \in S : n <= m
  BY <1>1, LeastNat
<1>3. n \in 1 .. MaxThreads /\ First(n)
  <2>1. n \in 1 .. MaxThreads /\ MaxThreads \in Nat
    BY Threads
  <2>2. \A m \in 1 .. n - 1 : m \in 1 .. MaxThreads /\ ~(n <= m)
    BY <2>1
  <2> QED BY <1>2, <2>1, <2>2
<1>4. L = CHOOSE l \in DOMAIN info : First(l)
  BY DEF LeaderOf
<1>5. L \in 1 .. MaxThreads /\ First(L)
  BY <1>3, <1>4
<1> HIDE DEF L
<1>6. L <= k
  <2>1. ~(k \in 1 .. L - 1)
    BY <1>5
  <2> QED BY <1>5, <2>1, Threads
<1>7. LeaderOf(info, L) = LeaderOf(info, k)
  BY <1>5 DEF LeaderOf
<1> QED BY <1>5, <1>6, <1>7 DEF L

(* makeHWTopo gives every thread a socket and a leader.                    *)
LEMMA Topologies ==
  ASSUME NEW h \in Hosts
  PROVE  /\ DOMAIN MakeHWTopo(h) = Thread
         /\ Leaders(MakeHWTopo(h)) /\ Numbered(MakeHWTopo(h))
<1> DEFINE info == UsableCPUs(h)
           top == MakeHWTopo(h)
<1>1. DOMAIN info = 1 .. MaxThreads /\ Len(info) = MaxThreads
  BY Usable
<1>2. top = [t \in 0 .. Len(info) - 1 |->
               [socket |-> Renumbered(info, info[t + 1].physid),
                socketLeader |-> LeaderOf(info, t + 1) - 1,
                osContext |-> info[t + 1].proc]]
  BY DEF MakeHWTopo
<1> HIDE DEF info, top
<1>3. /\ DOMAIN top = Thread
      /\ \A t \in Thread : /\ top[t].socketLeader = LeaderOf(info, t + 1) - 1
                           /\ top[t].socket = Renumbered(info, info[t + 1].physid)
  BY <1>1, <1>2 DEF Thread
<1>4. \A t \in Thread : t \in Nat /\ t + 1 \in 1 .. MaxThreads
  BY Threads
<1>5. Leaders(top)
  <2> SUFFICES ASSUME NEW t \in Thread
               PROVE  LET l == top[t].socketLeader IN
                        l \in Thread /\ l <= t /\ top[l].socketLeader = l
    BY DEF Leaders
  <2> DEFINE L == LeaderOf(info, t + 1)
  <2>1. L \in 1 .. MaxThreads /\ L <= t + 1 /\ LeaderOf(info, L) = L
    BY <1>1, <1>4, FirstOfSocket
  <2>2. top[t].socketLeader = L - 1
    BY <1>3
  <2> HIDE DEF L
  <2>3. L - 1 \in Thread /\ L - 1 <= t /\ (L - 1) + 1 = L
    BY <1>4, <2>1, Threads DEF Thread
  <2>4. top[L - 1].socketLeader = L - 1
    BY <1>3, <2>1, <2>3
  <2> QED BY <2>2, <2>3, <2>4
<1>6. ASSUME NEW p PROVE Renumbered(info, p) \in Nat
  <2> DEFINE D == {k \in 1 .. MaxThreads : info[k].physid < p}
             P == {info[k].physid : k \in D}
             f == [k \in D |-> info[k].physid]
  <2>1. IsFiniteSet(1 .. MaxThreads)
    BY Threads, FS_Interval
  <2>2. IsFiniteSet(D)
    BY <2>1, FS_Subset
  <2>3. f \in Surjection(D, P)
    BY DEF Surjection
  <2> HIDE DEF D
  <2>4. IsFiniteSet(P)
    BY <2>2, <2>3, FS_Surjection
  <2>5. Cardinality(P) \in Nat
    BY <2>4, FS_CardinalityType
  <2> QED BY <1>1, <2>5 DEF Renumbered, D
<1>7. Numbered(top)
  BY <1>3, <1>6 DEF Numbered
<1> QED BY <1>3, <1>5, <1>7 DEF top

-----------------------------------------------------------------------------
(* A region, once made, stays; a socket's first one is its leader's.       *)
SocketInv ==
  /\ Leaders(topo)
  /\ pssHeads \in [Thread -> {NoRegion} \cup (Thread \X Nat)] /\ pssBase = pssHeads
  /\ pauses \in Nat
  /\ \A t \in Thread :
       /\ pc[t] \notin {"start", "socket"} => pssHeads[t] # NoRegion
       /\ pssHeads[t] # NoRegion => pssHeads[topo[t].socketLeader] # NoRegion
       /\ pauses = 0 =>
            pssHeads[t] \in {NoRegion, NewRegion(topo[t].socketLeader, 0)}

(* A new region is a region.                                               *)
LEMMA RegionsDiffer == \A t, n : NewRegion(t, n) # NoRegion
  BY DEF NewRegion, NoRegion

(* A thread comes up: it has made the region of its socket or waited for   *)
(* the leader's.                                                           *)
LEMMA SocketInit ==
  ASSUME PoolInv, SocketInv, ~WeakFails, NEW t \in Thread, InitThread(t)
  PROVE  SocketInv'
<1> USE DEF SocketInv
<1>1. UNCHANGED <<topo, pauses>>
  BY DEF InitThread, hostVars
<1>2. pc \in [Thread -> Pc]
  BY DEF PoolInv, PoolTypeOK
<1>3. CASE pc[t] = "start" /\ InitPerThread(t, pauses) /\ Goto(t, "socket")
  <2>1. UNCHANGED <<pssHeads, pssBase>>
    BY <1>3 DEF InitPerThread
  <2>2. pc'[t] = "socket" /\ \A u \in Thread \ {t} : pc'[u] = pc[u]
    BY <1>2, <1>3 DEF Goto
  <2> QED BY <1>1, <2>1, <2>2 DEF Leaders
<1>4. CASE /\ pc[t] = "socket" /\ Goto(t, "sleep")
           /\ InitPerSocket(t, topo[t].socketLeader, pauses)
  <2> DEFINE l == topo[t].socketLeader
             r == IF t = l THEN NewRegion(t, pauses) ELSE pssHeads[l]
  <2>1. /\ t = l \/ pssHeads[l] # NoRegion
        /\ pssHeads' = [pssHeads EXCEPT ![t] = r] /\ pssBase' = [pssBase EXCEPT ![t] = r]
    BY <1>4 DEF InitPerSocket
  <2>2. l \in Thread /\ topo[l].socketLeader = l
    BY DEF Leaders
  <2>3. r # NoRegion /\ r \in Thread \X Nat /\ (pauses = 0 => r = NewRegion(l, 0))
    <3>1. CASE t = l
      BY <3>1, <2>2, RegionsDiffer DEF NewRegion
    <3>2. CASE t # l
      BY <2>1, <2>2, <3>2
    <3> QED BY <3>1, <3>2
  <2> HIDE DEF r
  <2>4. pssHeads'[t] = r /\ \A u \in Thread \ {t} : pssHeads'[u] = pssHeads[u]
    BY <2>1
  <2>5. pssHeads' \in [Thread -> {NoRegion} \cup (Thread \X Nat)] /\ pssBase' = pssHeads'
    BY <2>1, <2>3
  <2>6. \A u \in Thread \ {t} : pc'[u] = pc[u]
    BY <1>2, <1>4 DEF Goto
  <2>7. ASSUME NEW u \in Thread
        PROVE  /\ pc'[u] \notin {"start", "socket"} => pssHeads'[u] # NoRegion
               /\ pssHeads'[u] # NoRegion => pssHeads'[topo[u].socketLeader] # NoRegion
               /\ pauses = 0 =>
                    pssHeads'[u] \in {NoRegion, NewRegion(topo[u].socketLeader, 0)}
    <3>1. topo[u].socketLeader \in Thread
      BY DEF Leaders
    <3>2. CASE u = t
      <4>1. pssHeads'[l] # NoRegion
        BY <2>1, <2>2, <2>3, <2>4
      <4> QED BY <2>3, <2>4, <3>2, <4>1
    <3>3. CASE u # t
      BY <2>3, <2>4, <2>6, <3>1, <3>3
    <3> QED BY <3>2, <3>3
  <2> QED BY <1>1, <2>5, <2>7 DEF Leaders
<1> QED BY <1>3, <1>4 DEF InitThread

(* A step of another kind makes no region.                                 *)
LEMMA SocketKept ==
  ASSUME SocketInv, UNCHANGED <<topo, pssHeads, pssBase>>,
         pauses' = pauses \/ pauses' = pauses + 1,
         \A t \in Thread : pc[t] \in {"start", "socket"} => pc'[t] \in {"start", "socket"}
  PROVE  SocketInv'
  BY DEF SocketInv, Leaders

(* Every step keeps it.                                                    *)
LEMMA SocketInductive ==
  ASSUME ~WeakFails PROVE PoolInv /\ SocketInv /\ [Next]_vars => SocketInv'
<1> SUFFICES ASSUME PoolInv, SocketInv, [Next]_vars PROVE SocketInv'
  OBVIOUS
<1> DEFINE Up(t) == pc[t] \notin {"start", "socket"}
<1>0. Up(0)
  BY DEF PoolInv, Phases
<1>1. pc \in [Thread -> Pc]
  BY DEF PoolInv, PoolTypeOK
<1>2. ASSUME NEW t \in Thread, NEW s, Goto(t, s), Up(t)
      PROVE  \A u \in Thread : ~Up(u) => ~Up(u)'
  BY <1>1, <1>2 DEF Goto
<1>3. CASE UNCHANGED vars
  BY <1>3, SocketKept DEF vars, hostVars, ptVars, regionVars
<1>4. CASE PoolReady \/ OnEach \/ DoAll \/ EndLoop \/ PoolPause
  <2>1. UNCHANGED <<topo, pssHeads, pssBase>>
    BY <1>4 DEF PoolReady, OnEach, DoAll, EndLoop, PoolPause, hostVars, ptVars, regionVars
  <2>2. pauses' = pauses \/ pauses' = pauses + 1
    BY <1>4 DEF PoolReady, OnEach, DoAll, EndLoop, PoolPause
  <2>3. \E s : Goto(0, s)
    <3>1. CASE PoolReady \/ EndLoop
      BY <3>1 DEF PoolReady, EndLoop
    <3>2. CASE OnEach \/ DoAll \/ PoolPause
      BY <3>2 DEF OnEach, DoAll, PoolPause, Run
    <3> QED BY <1>4, <3>1, <3>2
  <2> QED BY <1>0, <1>2, <2>1, <2>2, <2>3, SocketKept, Threads
<1>5. CASE ConstructStorage
  <2>1. UNCHANGED <<topo, pssHeads, pssBase, pauses>> /\ (pc' = pc \/ Goto(0, "exit"))
    BY <1>5 DEF ConstructStorage, hostVars, regionVars
  <2> QED BY <1>0, <1>2, <2>1, SocketKept, Threads
<1>6. CASE DestructStorage
  BY <1>6, SocketKept DEF DestructStorage, hostVars, regionVars
<1>7. CASE PoolContinue
  <2>1. UNCHANGED <<topo, pssHeads, pssBase, pauses>>
    BY <1>7 DEF PoolContinue, hostVars, ptVars, regionVars
  <2>2. \A u \in Thread : ~Up(u) => ~Up(u)'
    BY <1>0, <1>7 DEF PoolContinue
  <2> QED BY <2>1, <2>2, SocketKept
<1>8. ASSUME NEW t \in Thread, PoolStep(t) PROVE SocketInv'
  <2>1. CASE InitThread(t)
    BY <2>1, SocketInit
  <2>2. CASE Wait(t) \/ Cascade(t) \/ Decascade(t) \/ Shutdown(t) \/ SetRange(t)
    <3>1. UNCHANGED <<topo, pssHeads, pssBase, pauses>>
      BY <2>2 DEF Wait, Cascade, Decascade, Shutdown, SetRange, hostVars, ptVars, regionVars
    <3>2. Up(t)
      BY <2>2 DEF Wait, Cascade, Decascade, Shutdown, SetRange
    <3>3. \E s : Goto(t, s)
      <4>1. CASE Wait(t) \/ Cascade(t) \/ Shutdown(t) \/ SetRange(t)
        BY <4>1 DEF Wait, Cascade, Shutdown, SetRange
      <4>2. CASE Decascade(t)
        BY <4>2, Zenon DEF Decascade
      <4> QED BY <2>2, <4>1, <4>2
    <3> QED BY <1>2, <3>1, <3>2, <3>3, SocketKept
  <2> QED BY <1>8, <2>1, <2>2 DEF PoolStep
<1>9. ASSUME NEW t \in Thread, LoopStep(t) PROVE SocketInv'
  <2>1. UNCHANGED <<topo, pssHeads, pssBase, pauses>>
    BY <1>9 DEF LoopStep, LoopInit, BarrierArrive, BarrierSense, BarrierSignal, GetWork,
       Execute, Look, StealWork, AssignWork, hostVars, ptVars, regionVars
  <2>2. Up(t)
    BY <1>9 DEF LoopStep, LoopInit, BarrierArrive, BarrierSense, BarrierSignal, GetWork,
       Execute, Look, StealWork, AssignWork
  <2>3. \E s \in JobPc : Goto(t, s)
    BY <1>9, LoopGoto
  <2> QED BY <1>2, <2>1, <2>2, <2>3, SocketKept
<1> QED BY <1>3, <1>4, <1>5, <1>6, <1>7, <1>8, <1>9 DEF Next

(* On any host and any number of threads, where compare_exchange_weak      *)
(* fails only for a reason: a thread that is up has the region of its      *)
(* socket, before a restart the leader's.                                  *)
THEOREM RegionsShared ==
  ASSUME ~WeakFails PROVE Spec => []SocketShared
<1>1. Init => SocketInv
  <2> SUFFICES ASSUME Init PROVE SocketInv
    OBVIOUS
  <2>1. Leaders(topo)
    BY Topologies DEF Init
  <2>2. topo[0].socketLeader = 0
    <3>1. topo[0].socketLeader \in Nat /\ topo[0].socketLeader <= 0
      BY <2>1, Threads DEF Leaders
    <3> QED BY <3>1
  <2>3. /\ pauses = 0 /\ pssBase = pssHeads
        /\ pssHeads = [t \in Thread |-> IF t = 0 THEN NewRegion(0, 0) ELSE NoRegion]
    BY DEF Init, PerThreadInit
  <2>4. NewRegion(0, 0) \in Thread \X Nat
    BY Threads DEF NewRegion
  <2>5. \A t \in Thread : t # 0 => pc[t] = "start"
    BY DEF Init
  <2> QED BY <2>1, <2>2, <2>3, <2>4, <2>5, RegionsDiffer, Threads DEF SocketInv
<1>2. PoolInv /\ SocketInv /\ [Next]_vars => SocketInv'
  BY SocketInductive
<1>3. SocketInv => SocketShared
  <2> SUFFICES ASSUME SocketInv, NEW t \in Thread, pc[t] \notin {"start", "socket"}
               PROVE  /\ pssBase[t] # NoRegion
                      /\ pauses = 0 => pssBase[t] = pssBase[topo[t].socketLeader]
    BY DEF SocketShared
  <2>1. LET l == topo[t].socketLeader IN l \in Thread /\ topo[l].socketLeader = l
    BY DEF SocketInv, Leaders
  <2> QED BY <2>1 DEF SocketInv
<1> QED BY <1>1, <1>2, <1>3, PoolInvariance, PTL DEF Spec

-----------------------------------------------------------------------------
(* The loops on the pool.                                                  *)

BarrierPc == {"arrive", "sense", "signal", "signal2"}
Team == 0 .. active - 1

LoopTypeOK ==
  /\ work \in {"none", "range", "loop", "shutdown"}
  /\ barrierN \in 1 .. MaxThreads
  /\ node \in [Thread -> [sense : BOOLEAN, parentsense : BOOLEAN, notready : SUBSET Thread]]
  /\ ctx \in [Thread -> [id : Nat, beg : Nat, end : Nat]]
  /\ num \in 0 .. MaxItems /\ loops \in Nat
  /\ range \in [Thread -> [beg : Nat, end : Nat]]
  /\ mine \in [Thread -> [beg : Nat, end : Nat]]
  /\ scan \in [Thread -> [phase : 1 .. 3, n : Nat, saw : BOOLEAN]]
  /\ cnt \in [0 .. MaxItems - 1 -> Nat]
  /\ Numbered(topo)

(* A thread is in a loop only while the pool's job is one; its team are    *)
(* the active threads, and those of them that have begun have contexts.    *)
Stages ==
  /\ \A t \in Thread : pc[t] \in BarrierPc \cup Working => work = "loop"
  /\ pc[0] \in MainOut \cup {"collect"} => work # "loop"
  /\ work = "loop" =>
       /\ barrierN = active
       /\ Inside(active)
       /\ \A t \in Team : Fresh(t) <=> ctx[t].id # t

Arrived(t) == ctx[t].id = t /\ pc[t] # "arrive"
Passed(t) == ctx[t].id = t /\ pc[t] \notin BarrierPc

(* Between loops: the barrier waits for an episode with sense g ...        *)
Resting(g) ==
  \A t \in 0 .. barrierN - 1 :
    /\ node[t].sense = g
    /\ node[t].notready = Children(t, barrierN)
    /\ t # 0 => node[t].parentsense # g

(* ... and in it.                                                          *)
Episode(g) ==
  \A t \in 0 .. barrierN - 1 :
    /\ node[t].sense = g <=> ~Passed(t)
    /\ ~Arrived(t) => node[t].notready = {c \in Children(t, barrierN) : ~Arrived(c)}
    /\ Arrived(t) => /\ node[t].notready = Children(t, barrierN)
                     /\ \A c \in Children(t, barrierN) : Arrived(c)
    /\ t # 0 => /\ node[t].parentsense = g => Arrived(0)
                /\ pc[t] \in {"signal", "signal2"} \/ Passed(t) => node[t].parentsense = g

Sensed == \E g \in BOOLEAN : IF work = "loop" THEN Episode(g) ELSE Resting(g)

BarrierInv == LoopTypeOK /\ Stages /\ Sensed

-----------------------------------------------------------------------------
Interval(c) == c.beg .. c.end - 1

(* The part of the range that RangeIterator gives to a thread.             *)
Part(t) ==
  LET len == num \div active + 1 IN
  [beg |-> len * t, end |-> IF num < len * (t + 1) THEN num ELSE len * (t + 1)]

(* The parts are given out before the loop starts.                         *)
Parts ==
  /\ pc[0] \in MainOut \cup {"collect"} => work # "range"
  /\ work = "range" => \A t \in Team : ~Fresh(t) => range[t] = Part(t)
  /\ work = "loop" \/ pc[0] = "next" => \A t \in Team : range[t] = Part(t)

(* A thread has items in its hands only between taking and executing, or   *)
(* between stealing and assigning; it looks for work without any.          *)
Hands ==
  /\ \A t \in Thread :
       /\ pc[t] \notin {"exec", "assign"} => mine[t] = Empty
       /\ pc[t] = "exec" => mine[t].beg < mine[t].end
       /\ pc[t] = "take" =>
            scan[t].n \in DOMAIN Victims(t) /\ Victims(t)[scan[t].n] \in Team
  /\ work = "loop" =>
       \A t \in Team : Passed(t) /\ pc[t] \notin {"work", "exec"} => ctx[t].beg >= ctx[t].end

(* The items of a thread.                                                  *)
Todo(t) == IF ctx[t].id = t THEN Interval(ctx[t]) ELSE Interval(Part(t))
Own(t) == Todo(t) \cup Interval(mine[t])

(* What has not been executed belongs to one thread.                       *)
Shared ==
  work = "loop" =>
    /\ \A t \in Team : Own(t) \subseteq 0 .. num - 1 /\ Todo(t) \cap Interval(mine[t]) = {}
    /\ \A t, u \in Team : t # u => Own(t) \cap Own(u) = {}
    /\ \A x \in 0 .. num - 1 : cnt[x] = 0 <=> \E t \in Team : x \in Own(t)

(* Before and after a loop.                                                *)
Tally ==
  /\ \A x \in DOMAIN cnt : cnt[x] <= 1
  /\ work = "range" \/ pc[0] = "next" => \A x \in 0 .. num - 1 : cnt[x] = 0
  /\ loops > 0 /\ work \notin {"range", "loop"} /\ pc[0] # "next" =>
       \A x \in 0 .. num - 1 : cnt[x] = 1

ItemsInv == Parts /\ Hands /\ Shared /\ Tally

-----------------------------------------------------------------------------
(* The threads are shared evenly among the sockets: one at least for each. *)
LEMMA PackSize == PerPack \in Nat /\ PerPack > 0
<1> DEFINE f == [t \in Thread |-> topo[t].socket]
           S == {topo[t].socket : t \in Thread}
<1>1. IsFiniteSet(Thread) /\ Cardinality(Thread) = MaxThreads
  <2>1. 0 \in Int /\ MaxThreads - 1 \in Int
    BY Threads
  <2>2. IsFiniteSet(0 .. MaxThreads - 1)
        /\ Cardinality(0 .. MaxThreads - 1)
             = IF 0 > MaxThreads - 1 THEN 0 ELSE MaxThreads - 1 - 0 + 1
    BY <2>1, FS_Interval
  <2> QED BY <2>2, Threads DEF Thread
<1>2. f \in Surjection(Thread, S)
  BY DEF Surjection
<1>3. IsFiniteSet(S) /\ Cardinality(S) <= Cardinality(Thread)
  BY <1>1, <1>2, FS_Surjection
<1>4. S # {}
  BY Threads
<1>5. Cardinality(S) \in Nat /\ Cardinality(S) # 0
  BY <1>3, <1>4, FS_CardinalityType, FS_EmptySet
<1> HIDE DEF S
<1>6. MaxThreads \div Cardinality(S) \in Nat /\ MaxThreads \div Cardinality(S) > 0
  <2> DEFINE c == Cardinality(S)
  <2>1. c \in Nat /\ c >= 1 /\ c <= MaxThreads /\ MaxThreads \in Nat
    BY <1>1, <1>3, <1>5, Threads
  <2> HIDE DEF c
  <2>2. MaxThreads \div c \in Nat /\ MaxThreads \div c >= 1
    BY <2>1
  <2> QED BY <2>2 DEF c
<1> QED BY <1>6 DEF PerPack, S

(* The lists of victims.                                                   *)
LEMMA Lists ==
  ASSUME PoolInv, LoopTypeOK, NEW t \in Thread, NEW k \in DOMAIN Victims(t)
  PROVE  /\ k \in Nat /\ k > 0 /\ Victims(t)[k] \in Nat
         /\ scan[t].phase # 1 => Victims(t)[k] \in Team
<1>1. topo[t].socket \in Nat /\ t \in Nat /\ active \in Nat /\ active > 0
  BY Threads DEF PoolInv, PoolTypeOK, LoopTypeOK, Numbered
<1>2. PerPack \in Nat /\ PerPack > 0
  BY PackSize
<1>3. CASE scan[t].phase = 1
  <2> DEFINE b == topo[t].socket * PerPack
  <2>1. b \in Nat
    BY <1>1, <1>2
  <2>2. Victims(t) = [i \in 1 .. b + PerPack - 1 |-> b + ((t + i) % PerPack)]
    BY <1>3 DEF Victims, Within
  <2> HIDE DEF b
  <2>3. k \in 1 .. b + PerPack - 1 /\ Victims(t)[k] = b + ((t + k) % PerPack)
    BY <2>2
  <2>4. k \in Nat /\ k > 0 /\ t + k \in Nat
    BY <1>1, <1>2, <2>1, <2>3
  <2>5. (t + k) % PerPack \in Nat
    BY <1>2, <2>4
  <2> QED BY <1>3, <2>1, <2>3, <2>4, <2>5
<1>4. CASE scan[t].phase # 1 /\ ~(scan[t].phase = 2 /\ ~Leader(t))
  <2>1. Victims(t) = [i \in 1 .. active |-> (t + i - 1) % active]
    BY <1>4 DEF Victims, Outside
  <2>2. k \in 1 .. active /\ Victims(t)[k] = (t + k - 1) % active
    BY <2>1
  <2>3. k \in Nat /\ k > 0 /\ t + k - 1 \in Nat
    BY <1>1, <2>2
  <2>4. (t + k - 1) % active \in 0 .. active - 1
    BY <1>1, <2>3
  <2> QED BY <1>1, <2>2, <2>3, <2>4 DEF Team
<1>5. CASE scan[t].phase = 2 /\ ~Leader(t)
  BY <1>5 DEF Victims
<1> QED BY <1>3, <1>4, <1>5

(* The next victim is one of the team.                                     *)
LEMMA NextVictim ==
  ASSUME PoolInv, LoopTypeOK, NEW t \in Thread, Ahead(t) # {},
         NEW n, n = CHOOSE k \in Ahead(t) : \A l \in Ahead(t) : k <= l
  PROVE  n \in DOMAIN Victims(t) /\ n \in Nat /\ Victims(t)[n] \in Team
<1>1. Ahead(t) \in SUBSET Nat
  BY Lists DEF Ahead
<1>2. n \in Ahead(t)
  <2>1. \E k \in Ahead(t) : \A l \in Ahead(t) : k <= l
    BY <1>1, LeastNat
  <2>2. (CHOOSE k \in Ahead(t) : \A l \in Ahead(t) : k <= l) \in Ahead(t)
    BY <2>1
  <2> QED BY <2>2
<1>3. n \in DOMAIN Victims(t)
  BY <1>2 DEF Ahead
<1>4. n \in Nat /\ Victims(t)[n] \in Nat /\ (scan[t].phase # 1 => Victims(t)[n] \in Team)
  BY <1>3, Lists
<1>5. CASE scan[t].phase = 1
  <2>1. Victims(t)[n] < active /\ active \in Nat
    BY <1>2, <1>5 DEF Ahead, PoolInv, PoolTypeOK
  <2> QED BY <1>3, <1>4, <2>1 DEF Team
<1> QED BY <1>3, <1>4, <1>5

-----------------------------------------------------------------------------
(* The active threads, and those of the barrier, are threads.              *)
LEMMA Teams ==
  ASSUME PoolInv, BarrierInv
  PROVE  /\ Team \subseteq Thread /\ 0 .. barrierN - 1 \subseteq Thread
         /\ 0 \in Team /\ 0 \in 0 .. barrierN - 1
         /\ work = "loop" => Team = 0 .. barrierN - 1
         /\ barrierN \in Nat /\ active \in Nat
<1>1. active \in 1 .. MaxThreads /\ barrierN \in 1 .. MaxThreads
  BY DEF PoolInv, PoolTypeOK, BarrierInv, LoopTypeOK
<1>2. work = "loop" => barrierN = active
  BY DEF BarrierInv, Stages
<1> QED BY <1>1, <1>2, Threads DEF Team, Thread

(* In a loop, a busy thread is in the team, and has its context unless it  *)
(* is fresh.                                                               *)
LEMMA InTeam ==
  ASSUME PoolInv, BarrierInv, work = "loop", NEW t \in Thread, Busy(t)
  PROVE  t \in Team /\ (pc[t] \notin {"sleep", "left", "right", "job"} <=> ctx[t].id = t)
<1>1. t \in Team
  BY Threads DEF PoolInv, PoolTypeOK, BarrierInv, Stages, Inside, Team
<1>2. Fresh(t) <=> pc[t] \in {"sleep", "left", "right", "job"}
  BY BusyTaken DEF Fresh
<1> QED BY <1>1, <1>2 DEF BarrierInv, Stages

(* Two that are not the same, and a third: there are two truth values.     *)
LEMMA Flip == \A x, g \in BOOLEAN : (~x) \in BOOLEAN /\ ((~x) = g <=> x # g)
  OBVIOUS

(* Outside of a loop the barrier rests.                                    *)
LEMMA AtRest ==
  ASSUME BarrierInv, work # "loop", work' \in {"none", "range", "shutdown"},
         UNCHANGED <<barrierN, node>>, LoopTypeOK',
         \A t \in Thread : pc'[t] \notin BarrierPc \cup Working
  PROVE  BarrierInv'
<1>1. Stages'
  BY DEF Stages
<1>2. Sensed'
  BY DEF BarrierInv, Sensed, Resting
<1> QED BY <1>1, <1>2 DEF BarrierInv

(* In a loop, a step that moves nobody through the barrier.                *)
LEMMA Quiet ==
  ASSUME PoolInv, BarrierInv, work = "loop", Steady,
         UNCHANGED <<work, barrierN, node, active>>,
         LoopTypeOK',
         \A u \in Thread : ctx'[u].id = ctx[u].id,
         pc'[0] \notin MainOut \cup {"collect"},
         \A u \in Team : /\ Arrived(u)' <=> Arrived(u)
                         /\ Passed(u)' <=> Passed(u)
                         /\ pc'[u] \in {"signal", "signal2"}
                              <=> pc[u] \in {"signal", "signal2"}
  PROVE  BarrierInv'
<1>2. active \in Nat /\ Team' = Team /\ Team \subseteq Thread
  BY Teams DEF PoolInv, PoolTypeOK, Team
<1>3. Stages'
  BY <1>2 DEF BarrierInv, Stages, Steady
<1>4. PICK g \in BOOLEAN : Episode(g)
  BY DEF BarrierInv, Sensed
<1>5. 0 \in Team /\ Team = 0 .. barrierN - 1
  BY Teams
<1>6. \A t \in Team : Children(t, barrierN) \subseteq Team
  <2>1. barrierN \in Nat
    BY DEF BarrierInv, LoopTypeOK
  <2> QED BY <1>5, <2>1, Threads DEF Children
<1>7. Episode(g)'
  <2> SUFFICES ASSUME NEW t \in Team
               PROVE  /\ node[t].sense = g <=> ~Passed(t)'
                      /\ ~Arrived(t)' =>
                           node[t].notready = {c \in Children(t, barrierN) : ~Arrived(c)'}
                      /\ Arrived(t)' => /\ node[t].notready = Children(t, barrierN)
                                        /\ \A c \in Children(t, barrierN) : Arrived(c)'
                      /\ t # 0 =>
                           /\ node[t].parentsense = g => Arrived(0)'
                           /\ pc'[t] \in {"signal", "signal2"} \/ Passed(t)' =>
                                node[t].parentsense = g
    BY <1>5 DEF Episode
  <2>1. {c \in Children(t, barrierN) : ~Arrived(c)'}
          = {c \in Children(t, barrierN) : ~Arrived(c)}
    BY <1>6
  <2> QED BY <1>4, <1>5, <1>6, <2>1 DEF Episode
<1>8. Sensed'
  BY <1>7 DEF Sensed
<1> QED BY <1>3, <1>8 DEF BarrierInv

(* When a thread has arrived, so has everyone below it: when the root has, *)
(* all have.                                                               *)
LEMMA RootLast ==
  ASSUME PoolInv, BarrierInv, work = "loop", NEW g \in BOOLEAN, Episode(g), Arrived(0)
  PROVE  \A u \in Team : Arrived(u)
<1> SUFFICES ASSUME NEW v \in Team, ~Arrived(v) PROVE FALSE
  OBVIOUS
<1> DEFINE S == {u \in Team : ~Arrived(u)}
<1>1. active \in Nat /\ Team = 0 .. barrierN - 1 /\ barrierN = active
  BY Teams DEF PoolInv, PoolTypeOK, BarrierInv, Stages
<1>2. S \in SUBSET Nat /\ S # {}
  BY <1>1 DEF Team
<1>3. PICK n \in S : \A m \in S : n <= m
  BY <1>2, LeastNat
<1>4. n \in Nat /\ n # 0 /\ n < active /\ n \in Thread
  BY <1>1, <1>3, Teams DEF Team
<1> DEFINE p == (n - 1) \div 4
<1>5. p \in Nat /\ p < n
  BY <1>4
<1>6. p \in Team /\ n \in Children(p, barrierN)
  BY <1>1, <1>4, <1>5 DEF Team, Children
<1>7. p \notin S
  BY <1>3, <1>4, <1>5
<1> QED BY <1>1, <1>3, <1>6, <1>7 DEF Episode

(* Behind the barrier: the root has arrived.                               *)
LEMMA RootCame ==
  ASSUME PoolInv, BarrierInv, work = "loop", NEW g \in BOOLEAN, Episode(g),
         NEW t \in Team, Passed(t) \/ (ctx[t].id = t /\ pc[t] \in {"signal", "signal2"})
  PROVE  Arrived(0)
<1>1. CASE t = 0
  BY <1>1 DEF Passed, Arrived, BarrierPc
<1>2. CASE t # 0
  BY <1>2, Teams DEF Episode
<1> QED BY <1>1, <1>2

-----------------------------------------------------------------------------
(* Items, chunks and their bounds are natural numbers.                     *)
LEMMA Numbers ==
  ASSUME LoopTypeOK
  PROVE  MaxItems \in Nat /\ num \in Nat /\ num <= MaxItems /\ ChunkSize \in Nat /\ ChunkSize > 0
<1>1. MaxItems \in Nat /\ ChunkSize \in Nat \ {0}
  BY RuntimeAssumption
<1>2. num \in 0 .. MaxItems
  BY DEF LoopTypeOK
<1> QED BY <1>1, <1>2

(* Types are kept.  A step that leaves the data of the loops alone ...     *)
LEMMA TypeSame ==
  ASSUME LoopTypeOK, work' \in {"none", "range", "loop", "shutdown"},
         UNCHANGED <<barrierN, node, ctx, num, loops, range, mine, scan, cnt, topo>>
  PROVE  LoopTypeOK'
  BY DEF LoopTypeOK, Numbered

(* ... and the others.                                                     *)
LEMMA TypeOfLoops ==
  ASSUME PoolInv, LoopTypeOK, OnEach \/ DoAll PROVE LoopTypeOK'
<1>1. CASE OnEach
  <2>1. PICK n \in 1 .. MaxThreads, items \in Lengths : num' = items /\ work' = "range"
    BY <1>1 DEF OnEach, Run
  <2>5. num' \in 0 .. MaxItems
    BY <2>1, RuntimeAssumption
  <2>2. range' \in [Thread -> [beg : Nat, end : Nat]]
    BY <1>1 DEF OnEach, Each, Empty
  <2>3. cnt' \in [0 .. MaxItems - 1 -> Nat] /\ loops' \in Nat
    BY <1>1 DEF OnEach, LoopTypeOK
  <2>4. UNCHANGED <<barrierN, node, ctx, mine, scan, topo>>
    BY <1>1 DEF OnEach, hostVars
  <2> QED BY <2>1, <2>2, <2>3, <2>4, <2>5 DEF LoopTypeOK, Numbered
<1>2. CASE DoAll
  <2>1. ctx' \in [Thread -> [id : Nat, beg : Nat, end : Nat]]
    BY <1>2, Threads DEF DoAll, Each, NoContext
  <2>2. node' \in [Thread -> [sense : BOOLEAN, parentsense : BOOLEAN, notready : SUBSET Thread]]
    BY <1>2 DEF DoAll, NewNodes, Children, LoopTypeOK
  <2>3. barrierN' \in 1 .. MaxThreads /\ work' = "loop"
    BY <1>2 DEF DoAll, Run, PoolInv, PoolTypeOK
  <2>4. UNCHANGED <<num, range, mine, scan, cnt, loops, topo>>
    BY <1>2 DEF DoAll, hostVars
  <2> QED BY <2>1, <2>2, <2>3, <2>4 DEF LoopTypeOK, Numbered
<1> QED BY <1>1, <1>2

(* A thread computes its part of the range.                                *)
LEMMA TypeOfParts ==
  ASSUME PoolInv, LoopTypeOK, NEW t \in Thread, SetRange(t)
  PROVE  LoopTypeOK' /\ range' = [range EXCEPT ![t] = Part(t)]
<1>1. /\ range' = [range EXCEPT ![t] = Part(t)]
      /\ UNCHANGED <<work, barrierN, node, ctx, num, loops, mine, scan, cnt, topo>>
  BY DEF SetRange, Part, poolVars, loopVars, hostVars
<1>2. Part(t) \in [beg : Nat, end : Nat]
  <2> DEFINE len == num \div active + 1
  <2>1. num \in Nat /\ active \in Nat /\ active > 0 /\ t \in Nat
    BY RuntimeAssumption, Threads DEF PoolInv, PoolTypeOK, LoopTypeOK
  <2>2. len \in Nat
    BY <2>1
  <2> HIDE DEF len
  <2>3. len * t \in Nat /\ len * (t + 1) \in Nat
    BY <2>1, <2>2
  <2>4. Part(t) = [beg |-> len * t, end |-> IF num < len * (t + 1) THEN num ELSE len * (t + 1)]
    BY DEF Part, len
  <2> QED BY <2>1, <2>3, <2>4
<1>3. range' \in [Thread -> [beg : Nat, end : Nat]]
  BY <1>1, <1>2 DEF LoopTypeOK
<1> QED BY <1>1, <1>3 DEF LoopTypeOK, Numbered

(* The types after the steps of the barrier.                               *)
LEMMA TypeOfBarrier ==
  ASSUME LoopTypeOK, NEW t \in Thread, BarrierArrive(t) \/ BarrierSignal(t)
  PROVE  LoopTypeOK'
<1> DEFINE Node == [sense : BOOLEAN, parentsense : BOOLEAN, notready : SUBSET Thread]
<1>1. node \in [Thread -> Node]
  BY DEF LoopTypeOK
<1>2. node' \in [Thread -> Node]
  <2>1. CASE BarrierArrive(t)
    <3>1. node' = [u \in Thread |-> [node[u] EXCEPT !.notready =
                     IF u = t THEN Children(t, barrierN) ELSE @ \ {t}]]
      BY <2>1 DEF BarrierArrive
    <3> QED BY <1>1, <3>1 DEF Children
  <2>2. CASE BarrierSignal(t)
    <3> DEFINE wake(k) == [u \in Thread |->
                 IF u \in Wakes(t, k, barrierN)
                   THEN [node[u] EXCEPT !.parentsense = node[t].sense] ELSE node[u]]
    <3>1. wake(1) \in [Thread -> Node] /\ wake(2) \in [Thread -> Node]
      BY <1>1
    <3>2. node' = wake(1) \/ node' = [wake(2) EXCEPT ![t].sense = ~@]
      BY <2>2 DEF BarrierSignal
    <3> HIDE DEF wake
    <3>3. ASSUME NEW f \in [Thread -> Node] PROVE [f EXCEPT ![t].sense = ~@] \in [Thread -> Node]
      <4>1. [f[t] EXCEPT !.sense = ~@] \in Node
        BY ZenonT(40), <3>3
      <4>2. [f EXCEPT ![t].sense = ~@] = [f EXCEPT ![t] = [f[t] EXCEPT !.sense = ~@]]
        BY <3>3
      <4> HIDE DEF Node
      <4> QED BY <3>3, <4>1, <4>2
    <3>4. [wake(2) EXCEPT ![t].sense = ~@] \in [Thread -> Node]
      BY <3>1, <3>3, Zenon
    <3> QED BY <3>1, <3>2, <3>4, Zenon
  <2> QED BY <2>1, <2>2
<1>3. UNCHANGED <<work, barrierN, ctx, num, loops, range, mine, scan, cnt, topo>>
  BY DEF BarrierArrive, BarrierSignal, poolVars, loopVars, hostVars
<1> QED BY <1>2, <1>3 DEF LoopTypeOK, Numbered

(* initThread of the executor: the context is the part of the thread.      *)
LEMMA TypeOfInit ==
  ASSUME LoopTypeOK, NEW t \in Thread, LoopInit(t)
  PROVE  /\ LoopTypeOK'
         /\ ctx'[t].id = t /\ \A u \in Thread \ {t} : ctx'[u] = ctx[u]
         /\ range[t].beg < num => ctx'[t].beg = range[t].beg
         /\ range[t].beg >= num => ctx'[t].beg = num
         /\ range[t].end < num => ctx'[t].end = range[t].end
         /\ range[t].end >= num => ctx'[t].end = num
<1> DEFINE up(x) == IF x < num THEN x ELSE num
<1>1. ctx' = [ctx EXCEPT ![t] =
                [id |-> t, beg |-> up(range[t].beg), end |-> up(range[t].end)]]
  BY DEF LoopInit
<1>2. num \in Nat /\ t \in Nat /\ range[t].beg \in Nat /\ range[t].end \in Nat
  <2>1. range[t] \in [beg : Nat, end : Nat]
    BY DEF LoopTypeOK
  <2>2. num \in Nat /\ t \in Nat
    BY Numbers, Threads
  <2> QED BY <2>1, <2>2
<1>3. up(range[t].beg) \in Nat /\ up(range[t].end) \in Nat
  BY <1>2
<1>4. /\ range[t].beg < num => up(range[t].beg) = range[t].beg
      /\ range[t].beg >= num => up(range[t].beg) = num
      /\ range[t].end < num => up(range[t].end) = range[t].end
      /\ range[t].end >= num => up(range[t].end) = num
  BY <1>2
<1> HIDE DEF up
<1>5. ctx' \in [Thread -> [id : Nat, beg : Nat, end : Nat]]
  BY <1>1, <1>2, <1>3 DEF LoopTypeOK
<1>6. UNCHANGED <<work, barrierN, node, num, loops, range, mine, scan, cnt, topo>>
  BY DEF LoopInit, poolVars, hostVars
<1>7. LoopTypeOK'
  BY <1>5, <1>6 DEF LoopTypeOK, Numbered
<1>8. /\ ctx'[t] = [id |-> t, beg |-> up(range[t].beg), end |-> up(range[t].end)]
      /\ \A u \in Thread \ {t} : ctx'[u] = ctx[u]
  BY <1>1 DEF LoopTypeOK
<1> QED BY <1>4, <1>7, <1>8

(* What the steps of a loop do to contexts and hands.                      *)
LEMMA ContextType ==
  ASSUME LoopTypeOK, NEW t \in Thread
  PROVE  /\ ctx[t] \in [id : Nat, beg : Nat, end : Nat]
         /\ ctx[t].id \in Nat /\ ctx[t].beg \in Nat /\ ctx[t].end \in Nat
         /\ mine[t] \in [beg : Nat, end : Nat] /\ mine[t].beg \in Nat /\ mine[t].end \in Nat
         /\ scan[t] \in [phase : 1 .. 3, n : Nat, saw : BOOLEAN]
         /\ scan[t].phase \in 1 .. 3 /\ scan[t].n \in Nat /\ scan[t].saw \in BOOLEAN
<1>1. ctx[t] \in [id : Nat, beg : Nat, end : Nat]
  BY DEF LoopTypeOK
<1>2. mine[t] \in [beg : Nat, end : Nat]
  BY DEF LoopTypeOK
<1>3. scan[t] \in [phase : 1 .. 3, n : Nat, saw : BOOLEAN]
  BY DEF LoopTypeOK
<1> QED BY <1>1, <1>2, <1>3

(* The context of a thread, with new bounds.                               *)
Bounds(c, b, e) == [id |-> c.id, beg |-> b, end |-> e]

(* A thread takes a chunk of its own range.                                *)
LEMMA GetWorkMove ==
  ASSUME LoopTypeOK, NEW t \in Thread, GetWork(t)
  PROVE  /\ LoopTypeOK' /\ UNCHANGED <<work, active, num, barrierN, node, cnt, range>>
         /\ \/ /\ ctx[t].beg < ctx[t].end
               /\ \E to \in Nat :
                    /\ ctx[t].beg < to /\ to <= ctx[t].end
                    /\ mine' = [mine EXCEPT ![t] = [beg |-> ctx[t].beg, end |-> to]]
                    /\ ctx' = [ctx EXCEPT ![t] = Bounds(ctx[t], to, ctx[t].end)]
               /\ Goto(t, "exec")
            \/ /\ ctx[t].beg >= ctx[t].end /\ UNCHANGED <<mine, ctx>> /\ Goto(t, "steal")
<1> DEFINE c == ctx[t]
           to == IF Size(c) <= ChunkSize THEN c.end ELSE c.beg + ChunkSize
<1>1. c \in [id : Nat, beg : Nat, end : Nat] /\ c.beg \in Nat /\ c.end \in Nat
  BY ContextType
<1>2. to \in Nat /\ (Size(c) > 0 => c.beg < to /\ to <= c.end)
  BY <1>1, Numbers DEF Size
<1>3. Size(c) > 0 <=> c.beg < c.end
  BY <1>1 DEF Size
<1>4. UNCHANGED <<work, active, num, barrierN, node, cnt, range, loops, topo>>
  BY DEF GetWork, poolVars, hostVars
<1>5. CASE Size(c) > 0
  <2>1. /\ mine' = [mine EXCEPT ![t] = [beg |-> c.beg, end |-> to]]
        /\ ctx' = [ctx EXCEPT ![t].beg = to] /\ Goto(t, "exec") /\ scan' = scan
    BY <1>5 DEF GetWork
  <2> HIDE DEF to
  <2>2. [c EXCEPT !.beg = to] = Bounds(c, to, c.end)
    BY <1>1 DEF Bounds
  <2>3. ctx' = [ctx EXCEPT ![t] = Bounds(c, to, c.end)]
    BY <2>1, <2>2
  <2>4. Bounds(c, to, c.end) \in [id : Nat, beg : Nat, end : Nat]
    BY <1>1, <1>2 DEF Bounds
  <2>5. ctx' \in [Thread -> [id : Nat, beg : Nat, end : Nat]]
    BY <2>3, <2>4 DEF LoopTypeOK
  <2>6. mine' \in [Thread -> [beg : Nat, end : Nat]]
    BY <1>1, <1>2, <2>1 DEF LoopTypeOK
  <2>7. LoopTypeOK'
    BY <1>4, <2>1, <2>5, <2>6 DEF LoopTypeOK, Numbered
  <2> QED BY <1>2, <1>3, <1>4, <1>5, <2>1, <2>3, <2>7
<1>6. CASE ~(Size(c) > 0)
  <2>1. /\ scan' = [scan EXCEPT ![t] = NoScan] /\ Goto(t, "steal")
        /\ UNCHANGED <<mine, ctx>>
    BY <1>6 DEF GetWork
  <2>2. scan' \in [Thread -> [phase : 1 .. 3, n : Nat, saw : BOOLEAN]]
    BY <2>1 DEF LoopTypeOK, NoScan
  <2>3. LoopTypeOK'
    BY <1>4, <2>1, <2>2 DEF LoopTypeOK, Numbered
  <2>4. c.beg >= c.end
    BY <1>1, <1>3, <1>6
  <2> QED BY <1>4, <2>1, <2>3, <2>4
<1> QED BY <1>5, <1>6

(* A thread executes an item.                                              *)
LEMMA ExecuteMove ==
  ASSUME LoopTypeOK, NEW t \in Thread, Execute(t)
  PROVE  /\ LoopTypeOK' /\ UNCHANGED <<work, active, num, barrierN, node, ctx, range, scan>>
         /\ cnt' = [cnt EXCEPT ![mine[t].beg] = @ + 1]
         /\ \/ /\ mine[t].beg + 1 = mine[t].end /\ Goto(t, "work")
               /\ mine' = [mine EXCEPT ![t] = Empty]
            \/ /\ mine[t].beg + 1 # mine[t].end /\ Goto(t, "exec")
               /\ mine' = [mine EXCEPT ![t] = [beg |-> mine[t].beg + 1, end |-> mine[t].end]]
<1>1. mine[t] \in [beg : Nat, end : Nat] /\ mine[t].beg \in Nat /\ mine[t].end \in Nat
  BY ContextType
<1>2. UNCHANGED <<work, active, num, barrierN, node, ctx, range, scan, loops, topo>>
  BY DEF Execute, poolVars, hostVars
<1>3. cnt' = [cnt EXCEPT ![mine[t].beg] = @ + 1] /\ cnt' \in [0 .. MaxItems - 1 -> Nat]
  <2>1. cnt' = [cnt EXCEPT ![mine[t].beg] = @ + 1]
    BY DEF Execute
  <2>2. cnt \in [0 .. MaxItems - 1 -> Nat]
    BY DEF LoopTypeOK
  <2>3. ASSUME NEW x PROVE [cnt EXCEPT ![x] = @ + 1] \in [0 .. MaxItems - 1 -> Nat]
    <3> DEFINE f == [cnt EXCEPT ![x] = @ + 1]
    <3>1. \A i \in 0 .. MaxItems - 1 : f[i] = IF i = x THEN cnt[i] + 1 ELSE cnt[i]
      BY <2>2
    <3>2. \A i \in 0 .. MaxItems - 1 : cnt[i] \in Nat
      BY <2>2
    <3>3. \A i \in 0 .. MaxItems - 1 : f[i] \in Nat
      BY <3>1, <3>2
    <3>4. f = [i \in 0 .. MaxItems - 1 |-> f[i]]
      BY <2>2
    <3> HIDE DEF f
    <3>5. f \in [0 .. MaxItems - 1 -> Nat]
      BY <3>3, <3>4
    <3> QED BY <3>5 DEF f
  <2> QED BY <2>1, <2>3
<1>4. CASE mine[t].beg + 1 = mine[t].end
  <2>1. mine' = [mine EXCEPT ![t] = Empty] /\ Goto(t, "work")
    BY <1>4 DEF Execute
  <2>2. mine' \in [Thread -> [beg : Nat, end : Nat]]
    BY <2>1 DEF Empty, LoopTypeOK
  <2> QED BY <1>2, <1>3, <1>4, <2>1, <2>2 DEF LoopTypeOK, Numbered
<1>5. CASE mine[t].beg + 1 # mine[t].end
  <2>1. /\ mine' = [mine EXCEPT ![t] = [beg |-> mine[t].beg + 1, end |-> mine[t].end]]
        /\ Goto(t, "exec")
    BY <1>5 DEF Execute
  <2>4. mine' \in [Thread -> [beg : Nat, end : Nat]]
    BY <1>1, <2>1 DEF LoopTypeOK
  <2> QED BY <1>2, <1>3, <1>5, <2>1, <2>4 DEF LoopTypeOK, Numbered
<1> QED BY <1>4, <1>5

(* A thread looks for a victim.                                            *)
LEMMA LookMove ==
  ASSUME PoolInv, LoopTypeOK, NEW t \in Thread, Look(t)
  PROVE  /\ LoopTypeOK'
         /\ UNCHANGED <<work, active, num, barrierN, node, ctx, range, mine, cnt, topo>>
         /\ \A u \in Thread \ {t} : scan'[u] = scan[u]
         /\ \/ Goto(t, "work") \/ Goto(t, "join") \/ Goto(t, "steal")
            \/ /\ Goto(t, "take") /\ scan'[t].phase = scan[t].phase
               /\ scan'[t].n \in DOMAIN Victims(t) /\ Victims(t)[scan'[t].n] \in Team
<1> DEFINE s == scan[t]
           next == CHOOSE k \in Ahead(t) : \A l \in Ahead(t) : k <= l
<1>1. /\ s \in [phase : 1 .. 3, n : Nat, saw : BOOLEAN]
      /\ s.phase \in 1 .. 3 /\ s.saw \in BOOLEAN
  BY ContextType
<1>2. UNCHANGED <<work, active, num, barrierN, node, ctx, range, mine, cnt, loops, topo>>
  BY DEF Look, poolVars, hostVars
<1>3. ASSUME NEW r \in [phase : 1 .. 3, n : Nat, saw : BOOLEAN],
             scan' = [scan EXCEPT ![t] = r]
      PROVE  LoopTypeOK' /\ scan'[t] = r /\ \A u \in Thread \ {t} : scan'[u] = scan[u]
  BY <1>2, <1>3 DEF LoopTypeOK, Numbered
<1>4. CASE Ahead(t) # {}
  <2>1. next \in DOMAIN Victims(t) /\ next \in Nat /\ Victims(t)[next] \in Team
    BY <1>4, NextVictim
  <2> DEFINE rich == Size(ctx[Victims(t)[next]]) > 0
             n == IF rich THEN next ELSE next + 1
             r == [phase |-> s.phase, saw |-> s.saw \/ rich, n |-> n]
  <2>2. /\ scan' = [scan EXCEPT ![t] = r]
        /\ Goto(t, IF rich THEN "take" ELSE "steal")
    BY <1>4 DEF Look
  <2> HIDE DEF next
  <2>3. n \in Nat /\ (s.saw \/ rich) \in BOOLEAN /\ (rich => n = next)
    BY <1>1, <2>1
  <2>6. r \in [phase : 1 .. 3, n : Nat, saw : BOOLEAN]
    <3> HIDE DEF n, rich
    <3> QED BY <1>1, <2>3
  <2>4. CASE rich
    <3>1. Goto(t, "take") /\ r.n = next /\ r.phase = s.phase
      BY <2>2, <2>4
    <3> QED BY <1>2, <1>3, <2>1, <2>2, <2>6, <3>1
  <2>5. CASE ~rich
    <3>1. Goto(t, "steal")
      BY <2>2, <2>5
    <3> QED BY <1>2, <1>3, <2>2, <2>6, <3>1
  <2> QED BY <2>4, <2>5
<1>5. CASE Ahead(t) = {}
  <2> DEFINE r == IF s.saw \/ s.phase = 3 THEN NoScan ELSE [NoScan EXCEPT !.phase = s.phase + 1]
             far == CASE s.saw -> "work"
                      [] ~s.saw /\ s.phase = 3 -> "join"
                      [] OTHER -> "steal"
  <2>1. far \in {"work", "join", "steal"}
    BY Zenon
  <2>2. scan' = [scan EXCEPT ![t] = r]
    BY <1>5 DEF Look
  <2>3. Goto(t, far)
    BY <1>5, Zenon DEF Look
  <2>4. r \in [phase : 1 .. 3, n : Nat, saw : BOOLEAN]
    <3>1. CASE s.saw \/ s.phase = 3
      BY <3>1 DEF NoScan
    <3>2. CASE ~(s.saw \/ s.phase = 3)
      <4>1. s.phase + 1 \in 1 .. 3
        BY <1>1, <3>2
      <4>2. r = [phase |-> s.phase + 1, n |-> 1, saw |-> FALSE]
        BY <3>2 DEF NoScan
      <4> HIDE DEF r
      <4> QED BY <4>1, <4>2
    <3> QED BY <3>1, <3>2
  <2> HIDE DEF r, far
  <2> QED BY <1>2, <1>3, <2>1, <2>2, <2>3, <2>4
<1> QED BY <1>4, <1>5

(* A thread steals from its victim.                                        *)
LEMMA StealMove ==
  ASSUME PoolInv, LoopTypeOK, Hands, NEW t \in Thread, StealWork(t)
  PROVE  /\ LoopTypeOK' /\ UNCHANGED <<work, active, num, barrierN, node, range, cnt>>
         /\ \/ \E v \in Team, m \in Nat :
                 /\ ctx[v].beg < m /\ m <= ctx[v].end
                 /\ mine' = [mine EXCEPT ![t] = [beg |-> ctx[v].beg, end |-> m]]
                 /\ ctx' = [ctx EXCEPT ![v] = Bounds(ctx[v], m, ctx[v].end)]
                 /\ Goto(t, "assign")
            \/ Goto(t, "steal") /\ UNCHANGED <<mine, ctx>>
<1> DEFINE v == Victims(t)[scan[t].n]
           c == ctx[v]
           size == IF Size(c) > ChunkSize THEN Size(c) \div 2 ELSE Size(c)
<1>1. pc[t] = "take" /\ v \in Team /\ v \in Thread
  <2>1. pc[t] = "take"
    BY DEF StealWork
  <2>2. v \in Team
    BY <2>1 DEF Hands
  <2>3. Team \subseteq Thread
    BY Threads DEF PoolInv, PoolTypeOK, Team, Thread
  <2> QED BY <2>1, <2>2, <2>3
<1>2. UNCHANGED <<work, active, num, barrierN, node, range, cnt, loops, topo>>
  BY DEF StealWork, poolVars, hostVars
<1>3. CASE /\ Size(c) > 0
           /\ mine' = [mine EXCEPT ![t] = [beg |-> c.beg, end |-> c.beg + size]]
           /\ ctx' = [ctx EXCEPT ![v] = AfterSteal(c, size)]
           /\ Goto(t, "assign") /\ UNCHANGED scan
  <2> DEFINE m == c.beg + size
  <2> HIDE DEF v
  <2>1. c \in [id : Nat, beg : Nat, end : Nat] /\ c.id \in Nat /\ c.beg \in Nat /\ c.end \in Nat
    BY <1>1, ContextType
  <2> HIDE DEF c
  <2>2. Size(c) = c.end - c.beg /\ Size(c) \in Nat /\ Size(c) >= 1
    BY <1>3, <2>1 DEF Size
  <2>3. size \in Nat /\ 1 <= size /\ size <= Size(c)
    <3>1. CASE Size(c) > ChunkSize
      <4>1. Size(c) >= 2
        BY <2>2, <3>1, Numbers
      <4>2. Size(c) \div 2 \in Nat /\ 1 <= Size(c) \div 2 /\ Size(c) \div 2 <= Size(c)
        BY <2>2, <4>1
      <4> QED BY <3>1, <4>2
    <3>2. CASE ~(Size(c) > ChunkSize)
      BY <2>2, <3>2
    <3> QED BY <3>1, <3>2
  <2> HIDE DEF size
  <2>4. m \in Nat /\ c.beg < m /\ m <= c.end
    BY <2>1, <2>2, <2>3
  <2>5. AfterSteal(c, size) = Bounds(c, m, c.end)
    <3>1. CASE Size(c) <= size
      <4>1. m = c.end
        BY <2>1, <2>2, <2>3, <3>1
      <4>2. AfterSteal(c, size) = [c EXCEPT !.beg = c.end]
        BY <3>1 DEF AfterSteal
      <4> QED BY <2>1, <4>1, <4>2 DEF Bounds
    <3>2. CASE ~(Size(c) <= size)
      <4>1. AfterSteal(c, size) = [c EXCEPT !.beg = c.beg + size]
        BY <2>1, <3>2 DEF AfterSteal
      <4> QED BY <2>1, <4>1 DEF Bounds
    <3> QED BY <3>1, <3>2
  <2> HIDE DEF m
  <2>6. mine' = [mine EXCEPT ![t] = [beg |-> c.beg, end |-> m]]
    BY <1>3 DEF m
  <2>7. ctx' = [ctx EXCEPT ![v] = Bounds(c, m, c.end)]
    BY <1>3, <2>5
  <2>8. Bounds(c, m, c.end) \in [id : Nat, beg : Nat, end : Nat]
    BY <2>1, <2>4 DEF Bounds
  <2>9. ctx' \in [Thread -> [id : Nat, beg : Nat, end : Nat]]
    BY <2>7, <2>8 DEF LoopTypeOK
  <2>10. mine' \in [Thread -> [beg : Nat, end : Nat]]
    BY <2>1, <2>4, <2>6 DEF LoopTypeOK
  <2>11. LoopTypeOK'
    BY <1>2, <1>3, <2>9, <2>10 DEF LoopTypeOK, Numbered
  <2>12. c = ctx[v]
    BY DEF c
  <2> QED BY <1>1, <1>2, <1>3, <2>4, <2>6, <2>7, <2>11, <2>12
<1>4. CASE /\ scan' = [scan EXCEPT ![t].n = @ + 1]
           /\ Goto(t, "steal") /\ UNCHANGED <<mine, ctx>>
  <2>1. scan' \in [Thread -> [phase : 1 .. 3, n : Nat, saw : BOOLEAN]]
    <3>1. scan \in [Thread -> [phase : 1 .. 3, n : Nat, saw : BOOLEAN]]
      BY DEF LoopTypeOK
    <3>2. [scan[t] EXCEPT !.n = @ + 1] \in [phase : 1 .. 3, n : Nat, saw : BOOLEAN]
      BY <3>1
    <3>3. scan' = [scan EXCEPT ![t] = [scan[t] EXCEPT !.n = @ + 1]]
      BY <1>4, <3>1
    <3> QED BY <3>1, <3>2, <3>3
  <2>2. LoopTypeOK'
    BY <1>2, <1>4, <2>1 DEF LoopTypeOK, Numbered
  <2> QED BY <1>2, <1>4, <2>2
<1> QED BY <1>3, <1>4 DEF StealWork

(* A thread takes what it has stolen.                                      *)
LEMMA AssignMove ==
  ASSUME LoopTypeOK, NEW t \in Thread, AssignWork(t)
  PROVE  /\ LoopTypeOK' /\ UNCHANGED <<work, active, num, barrierN, node, range, cnt>>
         /\ ctx' = [ctx EXCEPT ![t] = Bounds(ctx[t], mine[t].beg, mine[t].end)]
         /\ mine' = [mine EXCEPT ![t] = Empty] /\ Goto(t, "work")
<1>1. /\ ctx[t] \in [id : Nat, beg : Nat, end : Nat] /\ ctx[t].id \in Nat
      /\ mine[t].beg \in Nat /\ mine[t].end \in Nat
  BY ContextType
<1>2. UNCHANGED <<work, active, num, barrierN, node, range, cnt, loops, topo>>
  BY DEF AssignWork, poolVars, hostVars
<1>3. /\ mine' = [mine EXCEPT ![t] = Empty] /\ Goto(t, "work")
      /\ scan' = [scan EXCEPT ![t] = NoScan]
      /\ ctx' = [ctx EXCEPT ![t] = [id |-> @.id, beg |-> mine[t].beg, end |-> mine[t].end]]
  BY DEF AssignWork
<1>4. ctx' = [ctx EXCEPT ![t] = Bounds(ctx[t], mine[t].beg, mine[t].end)]
  BY <1>1, <1>3 DEF LoopTypeOK, Bounds
<1>5. Bounds(ctx[t], mine[t].beg, mine[t].end) \in [id : Nat, beg : Nat, end : Nat]
  BY <1>1 DEF Bounds
<1>6. ctx' \in [Thread -> [id : Nat, beg : Nat, end : Nat]]
  BY <1>4, <1>5 DEF LoopTypeOK
<1>7. mine' \in [Thread -> [beg : Nat, end : Nat]]
  BY <1>3 DEF LoopTypeOK, Empty
<1>8. scan' \in [Thread -> [phase : 1 .. 3, n : Nat, saw : BOOLEAN]]
  BY <1>3 DEF LoopTypeOK, NoScan
<1>9. LoopTypeOK'
  BY <1>2, <1>6, <1>7, <1>8 DEF LoopTypeOK, Numbered
<1> QED BY <1>2, <1>3, <1>4, <1>9

-----------------------------------------------------------------------------
(* The barrier invariant holds at first.                                   *)
LEMMA BarrierInitialised ==
  ASSUME Init, Numbered(topo) PROVE BarrierInv
<1>1. LoopTypeOK
  <2>1. node \in [Thread -> [sense : BOOLEAN, parentsense : BOOLEAN, notready : SUBSET Thread]]
    BY DEF Init, NewNodes, Children
  <2>2. ctx \in [Thread -> [id : Nat, beg : Nat, end : Nat]]
    BY Threads DEF Init, Each, NoContext
  <2>3. /\ range \in [Thread -> [beg : Nat, end : Nat]]
        /\ mine \in [Thread -> [beg : Nat, end : Nat]]
    BY DEF Init, Each, Empty
  <2>4. scan \in [Thread -> [phase : 1 .. 3, n : Nat, saw : BOOLEAN]]
    BY DEF Init, Each, NoScan
  <2>5. cnt \in [0 .. MaxItems - 1 -> Nat] /\ loops \in Nat /\ num \in 0 .. MaxItems
    BY RuntimeAssumption DEF Init
  <2>6. work = "none" /\ barrierN \in 1 .. MaxThreads
    BY Threads DEF Init
  <2> QED BY <2>1, <2>2, <2>3, <2>4, <2>5, <2>6 DEF LoopTypeOK
<1>2. Stages
  BY DEF Init, Stages, BarrierPc, Working
<1>3. Resting(TRUE) /\ work # "loop"
  BY Threads DEF Init, Resting, NewNodes, Thread
<1> QED BY <1>1, <1>2, <1>3 DEF BarrierInv, Sensed

(* A loop starts: the barrier is at rest, or new.                          *)
LEMMA DoAllMove ==
  ASSUME PoolInv, PoolInv', BarrierInv, DoAll PROVE BarrierInv'
<1> USE DEF BarrierInv
<1>1. work' = "loop" /\ active' = active /\ barrierN' = active /\ pc[0] = "next"
  BY DEF DoAll, Run
<1>2. active \in 1 .. MaxThreads /\ Team' = Team /\ Team \subseteq Thread
  BY <1>1, Teams DEF PoolInv, PoolTypeOK, Team
<1>3. \A t \in Thread : ctx'[t] = NoContext /\ NoContext.id = MaxThreads /\ NoContext.id # t
  BY Threads DEF DoAll, Each, NoContext
<1>4. \A t \in Thread : ~Arrived(t)' /\ ~Passed(t)'
  BY <1>3 DEF Arrived, Passed
<1>5. pc'[0] = "left" /\ \A u \in Thread \ {0} : pc'[u] = pc[u]
  BY Threads DEF DoAll, Run, Goto, PoolInv, PoolTypeOK
<1>6. LoopTypeOK'
  BY TypeOfLoops
<1>7. \A t \in Thread : ~Busy(t)
  BY <1>1, NobodyBusy DEF MainOut
<1>8. \A t \in Thread \ {0} : done'[t] /\ ~Busy(t)' /\ Pend(t)' = {}
  <2>1. done' = done
    BY DEF DoAll
  <2> QED BY <1>1, <1>5, <1>7, <2>1 DEF Busy, Pend, PoolInv, Phases
<1>9. wend'[0] = active /\ wbegin'[0] = 1
  BY Threads DEF DoAll, Run, PoolInv, PoolTypeOK
<1>10. Busy(0)' /\ Pend(0)' = 1 .. active - 1
  BY <1>5, <1>9 DEF Busy, Pend, MainOut
<1>11. Inside(active)'
  BY <1>1, <1>2, <1>8, <1>9 DEF Inside
<1>12. \A t \in Team : Fresh(t)'
  <2>1. Fresh(0)'
    BY <1>5, <1>10 DEF Fresh
  <2>2. \A t \in Team \ {0} : t \in 1 .. active - 1
    BY <1>2 DEF Team
  <2>3. \A t \in Team \ {0} : Fresh(t)'
    BY <1>10, <2>2, Threads DEF Fresh
  <2> QED BY <2>1, <2>3
<1>13. Stages'
  <2>2. pc'[0] \notin MainOut \cup {"collect"}
    BY <1>5 DEF MainOut
  <2> QED BY <1>1, <1>2, <1>3, <1>11, <1>12, <2>2 DEF Stages
<1>14. Sensed'
  <2>1. PICK g \in BOOLEAN : Resting(g)
    BY <1>1 DEF Sensed, Stages, MainOut
  <2>2. 0 .. active - 1 \subseteq Thread
    BY <1>2 DEF Team
  <2>3. \E h \in BOOLEAN : \A t \in 0 .. active - 1 :
           /\ node'[t].sense = h /\ node'[t].notready = Children(t, active)
           /\ t # 0 => node'[t].parentsense # h
    <3>1. CASE barrierN = active
      BY <2>1, <3>1 DEF DoAll, Resting
    <3>2. CASE barrierN # active
      <4>1. node' = NewNodes(active)
        BY <3>2 DEF DoAll
      <4>2. \A t \in 0 .. active - 1 :
              /\ node'[t].sense = TRUE /\ node'[t].notready = Children(t, active)
              /\ node'[t].parentsense # TRUE
        BY <2>2, <4>1 DEF NewNodes
      <4> QED BY <4>2
    <3> QED BY <3>1, <3>2
  <2>4. PICK h \in BOOLEAN : \A t \in 0 .. active - 1 :
           /\ node'[t].sense = h /\ node'[t].notready = Children(t, active)
           /\ t # 0 => node'[t].parentsense # h
    BY <2>3
  <2>5. Episode(h)'
    <3> SUFFICES ASSUME NEW t \in 0 .. active - 1
                 PROVE  /\ node'[t].sense = h <=> ~Passed(t)'
                        /\ ~Arrived(t)' =>
                             node'[t].notready = {c \in Children(t, active) : ~Arrived(c)'}
                        /\ Arrived(t)' => /\ node'[t].notready = Children(t, active)
                                          /\ \A c \in Children(t, active) : Arrived(c)'
                        /\ t # 0 =>
                             /\ node'[t].parentsense = h => Arrived(0)'
                             /\ pc'[t] \in {"signal", "signal2"} \/ Passed(t)' =>
                                  node'[t].parentsense = h
      BY <1>1 DEF Episode
    <3>1. t \in Thread
      BY <2>2
    <3>2. {c \in Children(t, active) : ~Arrived(c)'} = Children(t, active)
      BY <1>4 DEF Children
    <3>3. pc'[t] \notin {"signal", "signal2"}
      <4>1. CASE t = 0
        BY <1>5, <4>1
      <4>2. CASE t # 0
        <5>1. pc[t] = "sleep"
          BY <1>1, <1>8, <3>1, <4>2 DEF PoolInv, Phases, DoAll
        <5> QED BY <1>5, <3>1, <4>2, <5>1
      <4> QED BY <4>1, <4>2
    <3> QED BY <1>4, <2>4, <3>1, <3>2, <3>3
  <2> QED BY <1>1, <2>5 DEF Sensed
<1> QED BY <1>6, <1>13, <1>14

(* A thread goes on in a job it has begun.                                 *)
LEMMA JobSteady ==
  ASSUME PoolInv, NEW t \in Thread, NEW s \in JobPc \ {"job"}, Goto(t, s),
         pc[t] \in JobPc \ {"job"}, UNCHANGED <<wbegin, wend, done, active>>
  PROVE  /\ Steady /\ pc'[t] = s /\ \A u \in Thread \ {t} : pc'[u] = pc[u]
         /\ pc'[0] \in MainOut \cup {"collect"} => pc[0] \in MainOut \cup {"collect"}
<1>1. pc' = [pc EXCEPT ![t] = s]
  BY DEF Goto
<1>2. \A u \in Thread : Busy(u)' = Busy(u) /\ Pend(u)' = Pend(u)
  BY <1>1, JobMove
<1>3. pc'[t] = s /\ \A u \in Thread \ {t} : pc'[u] = pc[u]
  BY <1>1 DEF PoolInv, PoolTypeOK
<1>4. Steady
  BY <1>2, <1>3 DEF Steady, Fresh, Inside, JobPc, Working
<1>5. s \notin MainOut \cup {"collect"}
  BY DEF JobPc, Working, MainOut
<1> QED BY <1>3, <1>4, <1>5, Threads

(* A thread has set up its context and is at the barrier.                  *)
LEMMA LoopInitMove ==
  ASSUME PoolInv, BarrierInv, NEW t \in Thread, LoopInit(t) PROVE BarrierInv'
<1>1. pc[t] = "job" /\ work = "loop" /\ UNCHANGED <<work, barrierN, node, active>>
  BY DEF LoopInit, poolVars
<1>2. pc' = [pc EXCEPT ![t] = "arrive"] /\ UNCHANGED <<wbegin, wend, done>>
  BY DEF LoopInit, Goto, poolVars
<1>3. \A u \in Thread : Busy(u)' = Busy(u) /\ Pend(u)' = Pend(u)
  BY <1>1, <1>2, JobMove DEF JobPc
<1>4. pc'[t] = "arrive" /\ \A u \in Thread \ {t} : pc'[u] = pc[u]
  BY <1>2 DEF PoolInv, PoolTypeOK
<1>5. Busy(t)
  BY <1>1, AwakeBusy DEF JobPc
<1>6. t \in Team /\ ctx[t].id # t
  BY <1>1, <1>5, InTeam
<1>7. LoopTypeOK' /\ ctx'[t].id = t /\ \A u \in Thread \ {t} : ctx'[u] = ctx[u]
  BY TypeOfInit DEF BarrierInv
<1>8. Team' = Team /\ Team \subseteq Thread /\ Team = 0 .. barrierN - 1
  BY <1>1, Teams DEF Team
<1>9. \A u \in Thread : (Arrived(u)' <=> Arrived(u)) /\ (Passed(u)' <=> Passed(u))
  BY <1>4, <1>6, <1>7 DEF Arrived, Passed, BarrierPc
<1>10. Stages'
  <2>1. pc'[0] \notin MainOut \cup {"collect"}
    <3>1. pc[0] \notin MainOut \cup {"collect"}
      BY <1>1 DEF BarrierInv, Stages
    <3> QED BY <1>4, <3>1, Threads DEF MainOut
  <2>2. Inside(active)'
    BY <1>1, <1>2, <1>3 DEF BarrierInv, Stages, Inside
  <2>3. ~Fresh(t)'
    BY <1>3, <1>4, <1>5, BusyTaken DEF Fresh
  <2>4. \A u \in Thread \ {t} : Fresh(u)' <=> Fresh(u)
    BY <1>3, <1>4 DEF Fresh
  <2>5. \A u \in Team : Fresh(u)' <=> ctx'[u].id # u
    BY <1>1, <1>7, <1>8, <2>3, <2>4 DEF BarrierInv, Stages
  <2> QED BY <1>1, <1>8, <2>1, <2>2, <2>5 DEF BarrierInv, Stages
<1>11. Sensed'
  <2>1. PICK g \in BOOLEAN : Episode(g)
    BY <1>1 DEF BarrierInv, Sensed
  <2>2. \A u \in Team : {c \in Children(u, barrierN) : ~Arrived(c)'}
                          = {c \in Children(u, barrierN) : ~Arrived(c)}
    BY <1>9 DEF Children
  <2>3. \A u \in Team : \A c \in Children(u, barrierN) : Arrived(c)' <=> Arrived(c)
    BY <1>9 DEF Children
  <2>4. \A u \in Team : pc'[u] \in {"signal", "signal2"} => pc[u] \in {"signal", "signal2"}
    BY <1>4, <1>8
  <2>5. Episode(g)'
    BY <1>1, <1>8, <1>9, <2>1, <2>2, <2>3, <2>4, Threads DEF Episode
  <2> QED BY <1>1, <2>5 DEF Sensed
<1> QED BY <1>7, <1>10, <1>11 DEF BarrierInv

(* A thread arrives: its children have, and its parent has not.            *)
LEMMA ArriveMove ==
  ASSUME PoolInv, BarrierInv, NEW t \in Thread, BarrierArrive(t) PROVE BarrierInv'
<1> DEFINE s == IF t = 0 THEN "signal" ELSE "sense"
<1>1. /\ pc[t] = "arrive" /\ node[t].notready = {} /\ Goto(t, s)
      /\ UNCHANGED <<work, wbegin, wend, done, active, barrierN, ctx>>
  BY DEF BarrierArrive, poolVars, loopVars
<1>2. work = "loop"
  BY <1>1 DEF BarrierInv, Stages, BarrierPc
<1>3. s \in JobPc \ {"job"}
  BY DEF JobPc
<1>4. /\ Steady /\ pc'[t] = s /\ \A u \in Thread \ {t} : pc'[u] = pc[u]
      /\ pc'[0] \notin MainOut \cup {"collect"}
  BY <1>1, <1>2, <1>3, JobSteady DEF JobPc, BarrierInv, Stages
<1>5. t \in Team /\ ctx[t].id = t
  BY <1>1, <1>2, AwakeBusy, InTeam DEF JobPc
<1>6. /\ Team' = Team /\ Team \subseteq Thread /\ Team = 0 .. barrierN - 1 /\ 0 \in Team
      /\ barrierN \in Nat /\ active \in Nat
  BY <1>1, <1>2, Teams DEF Team
<1>7. LoopTypeOK'
  BY TypeOfBarrier DEF BarrierInv
<1>8. ~Arrived(t) /\ Arrived(t)' /\ \A u \in Thread \ {t} : Arrived(u)' <=> Arrived(u)
  BY <1>1, <1>4, <1>5 DEF Arrived
<1>9. \A u \in Thread : Passed(u)' <=> Passed(u)
  BY <1>1, <1>4 DEF Passed, BarrierPc
<1>10. \A u \in Thread \ {0} : pc'[u] \in {"signal", "signal2"} => pc[u] \in {"signal", "signal2"}
  BY <1>4
<1>11. Stages'
  BY <1>1, <1>2, <1>4, <1>6 DEF BarrierInv, Stages, Steady
<1>12. PICK g \in BOOLEAN : Episode(g)
  BY <1>2 DEF BarrierInv, Sensed
<1>13. \A u \in Team :
         /\ node'[u].sense = node[u].sense /\ node'[u].parentsense = node[u].parentsense
         /\ node'[u].notready = IF u = t THEN Children(t, barrierN) ELSE node[u].notready \ {t}
  <2>1. node' = [u \in Thread |-> [node[u] EXCEPT !.notready =
                   IF u = t THEN Children(t, barrierN) ELSE @ \ {t}]]
    BY DEF BarrierArrive
  <2>2. \A u \in Thread : node[u] \in
          [sense : BOOLEAN, parentsense : BOOLEAN, notready : SUBSET Thread]
    BY DEF BarrierInv, LoopTypeOK
  <2> QED BY <1>6, <2>1, <2>2
<1>14. \A c \in Children(t, barrierN) : Arrived(c) /\ c # t
  <2>1. \A c \in Children(t, barrierN) : Arrived(c)
    BY <1>1, <1>5, <1>6, <1>8, <1>12 DEF Episode
  <2> QED BY <1>8, <2>1
<1>15. ASSUME NEW u \in Team
       PROVE  /\ ~Arrived(u)' =>
                   node'[u].notready = {c \in Children(u, barrierN) : ~Arrived(c)'}
              /\ Arrived(u)' => /\ node'[u].notready = Children(u, barrierN)
                                /\ \A c \in Children(u, barrierN) : Arrived(c)'
  <2>1. Children(u, barrierN) \subseteq Thread
    BY DEF Children
  <2>2. CASE u = t
    BY <1>8, <1>13, <1>14, <2>1, <2>2
  <2>3. CASE u # t /\ ~Arrived(u)
    <3>1. node[u].notready = {c \in Children(u, barrierN) : ~Arrived(c)}
      BY <1>6, <1>12, <2>3 DEF Episode
    <3>2. node'[u].notready = node[u].notready \ {t}
      BY <1>13, <2>3
    <3>3. ~Arrived(u)'
      BY <1>6, <1>8, <2>3
    <3>4. {c \in Children(u, barrierN) : ~Arrived(c)'}
            = {c \in Children(u, barrierN) : ~Arrived(c)} \ {t}
      BY <1>8, <2>1
    <3> QED BY <3>1, <3>2, <3>3, <3>4
  <2>4. CASE u # t /\ Arrived(u)
    <3>1. /\ node[u].notready = Children(u, barrierN)
          /\ \A c \in Children(u, barrierN) : Arrived(c)
      BY <1>6, <1>12, <2>4 DEF Episode
    <3>2. t \notin Children(u, barrierN)
      BY <1>8, <3>1
    <3>3. node'[u].notready = node[u].notready \ {t}
      BY <1>13, <2>4
    <3>4. node'[u].notready = Children(u, barrierN)
      BY <3>1, <3>2, <3>3
    <3>5. Arrived(u)' /\ \A c \in Children(u, barrierN) : Arrived(c)'
      BY <1>6, <1>8, <2>1, <2>4, <3>1
    <3> QED BY <3>4, <3>5
  <2> QED BY <2>2, <2>3, <2>4
<1>16. ASSUME NEW u \in Team
       PROVE  /\ node'[u].sense = g <=> ~Passed(u)'
              /\ u # 0 => /\ node'[u].parentsense = g => Arrived(0)'
                          /\ pc'[u] \in {"signal", "signal2"} \/ Passed(u)' =>
                               node'[u].parentsense = g
  BY <1>6, <1>8, <1>9, <1>10, <1>12, <1>13 DEF Episode
<1>17. Episode(g)'
  BY <1>1, <1>6, <1>15, <1>16 DEF Episode
<1>18. Sensed'
  BY <1>1, <1>2, <1>17 DEF Sensed
<1> QED BY <1>7, <1>11, <1>18 DEF BarrierInv

(* A thread has been told by its parent.                                   *)
LEMMA SenseMove ==
  ASSUME PoolInv, BarrierInv, NEW t \in Thread, BarrierSense(t) PROVE BarrierInv'
<1>1. /\ pc[t] = "sense" /\ node[t].parentsense = node[t].sense /\ Goto(t, "signal")
      /\ UNCHANGED <<work, wbegin, wend, done, active, barrierN, node, ctx, num, loops,
                     range, mine, scan, cnt, topo>>
  BY DEF BarrierSense, poolVars, loopVars, hostVars
<1>2. work = "loop"
  BY <1>1 DEF BarrierInv, Stages, BarrierPc
<1>3. /\ Steady /\ pc'[t] = "signal" /\ \A u \in Thread \ {t} : pc'[u] = pc[u]
      /\ pc'[0] \notin MainOut \cup {"collect"}
  BY <1>1, <1>2, JobSteady DEF JobPc, BarrierInv, Stages
<1>4. t \in Team /\ ctx[t].id = t
  BY <1>1, <1>2, AwakeBusy, InTeam DEF JobPc
<1>5. /\ Team' = Team /\ Team \subseteq Thread /\ Team = 0 .. barrierN - 1 /\ 0 \in Team
      /\ barrierN \in Nat /\ active \in Nat
  BY <1>1, <1>2, Teams DEF Team
<1>6. LoopTypeOK'
  BY <1>1, TypeSame DEF BarrierInv, LoopTypeOK
<1>7. \A u \in Thread : (Arrived(u)' <=> Arrived(u)) /\ (Passed(u)' <=> Passed(u))
  BY <1>1, <1>3 DEF Arrived, Passed, BarrierPc
<1>8. Stages'
  BY <1>1, <1>2, <1>3, <1>5 DEF BarrierInv, Stages, Steady
<1>9. PICK g \in BOOLEAN : Episode(g)
  BY <1>2 DEF BarrierInv, Sensed
<1>10. node[t].parentsense = g
  <2>1. ~Passed(t)
    BY <1>1 DEF Passed, BarrierPc
  <2> QED BY <1>1, <1>4, <1>5, <1>9, <2>1 DEF Episode
<1>11. \A u \in Team : /\ {c \in Children(u, barrierN) : ~Arrived(c)'}
                            = {c \in Children(u, barrierN) : ~Arrived(c)}
                       /\ \A c \in Children(u, barrierN) : Arrived(c)' <=> Arrived(c)
  BY <1>7 DEF Children
<1>12. ASSUME NEW u \in Team
       PROVE  u # 0 => /\ node[u].parentsense = g => Arrived(0)'
                       /\ pc'[u] \in {"signal", "signal2"} \/ Passed(u)' =>
                            node[u].parentsense = g
  BY <1>3, <1>5, <1>7, <1>9, <1>10 DEF Episode
<1>13. Episode(g)'
  BY <1>1, <1>5, <1>7, <1>9, <1>11, <1>12 DEF Episode
<1>14. Sensed'
  BY <1>1, <1>2, <1>13 DEF Sensed
<1> QED BY <1>6, <1>8, <1>14 DEF BarrierInv

(* A thread tells those below it, and is through.                          *)
LEMMA SignalMove ==
  ASSUME PoolInv, BarrierInv, NEW t \in Thread, BarrierSignal(t) PROVE BarrierInv'
<1> DEFINE s == IF pc[t] = "signal" THEN "signal2" ELSE "work"
<1>1. /\ pc[t] \in {"signal", "signal2"} /\ Goto(t, s)
      /\ UNCHANGED <<work, wbegin, wend, done, active, barrierN, ctx>>
  BY DEF BarrierSignal, poolVars, loopVars
<1>2. work = "loop"
  BY <1>1 DEF BarrierInv, Stages, BarrierPc
<1>3. s \in JobPc \ {"job"}
  BY DEF JobPc, Working
<1>4. /\ Steady /\ pc'[t] = s /\ \A u \in Thread \ {t} : pc'[u] = pc[u]
      /\ pc'[0] \notin MainOut \cup {"collect"}
  BY <1>1, <1>2, <1>3, JobSteady DEF JobPc, BarrierInv, Stages
<1>5. t \in Team /\ ctx[t].id = t
  BY <1>1, <1>2, AwakeBusy, InTeam DEF JobPc
<1>6. /\ Team' = Team /\ Team \subseteq Thread /\ Team = 0 .. barrierN - 1 /\ 0 \in Team
      /\ barrierN \in Nat /\ active \in Nat
  BY <1>1, <1>2, Teams DEF Team
<1>7. LoopTypeOK'
  BY TypeOfBarrier DEF BarrierInv
<1>8. \A u \in Thread : Arrived(u)' <=> Arrived(u)
  BY <1>1, <1>4 DEF Arrived
<1>9. /\ ~Passed(t) /\ (Passed(t)' <=> pc[t] = "signal2")
      /\ \A u \in Thread \ {t} : Passed(u)' <=> Passed(u)
  BY <1>1, <1>4, <1>5 DEF Passed, BarrierPc
<1>10. Stages'
  BY <1>1, <1>2, <1>4, <1>6 DEF BarrierInv, Stages, Steady
<1>11. PICK g \in BOOLEAN : Episode(g)
  BY <1>2 DEF BarrierInv, Sensed
<1>12. Arrived(0)
  BY <1>1, <1>2, <1>5, <1>11, RootCame
<1>13. node[t].sense = g
  BY <1>5, <1>6, <1>9, <1>11 DEF Episode
<1>14. \A u \in Thread : node[u] \in
         [sense : BOOLEAN, parentsense : BOOLEAN, notready : SUBSET Thread]
  BY DEF BarrierInv, LoopTypeOK
<1>15. \A u \in Thread :
         /\ node'[u].notready = node[u].notready
         /\ node'[u].parentsense = node[u].parentsense \/ node'[u].parentsense = g
         /\ u # t \/ pc[t] = "signal" => node'[u].sense = node[u].sense
         /\ u = t /\ pc[t] = "signal2" => node'[u].sense = (~node[u].sense)
  <2> DEFINE wake(k) == [u \in Thread |->
               IF u \in Wakes(t, k, barrierN)
                 THEN [node[u] EXCEPT !.parentsense = node[t].sense] ELSE node[u]]
  <2>1. ASSUME NEW k, NEW u \in Thread
        PROVE  /\ wake(k)[u].notready = node[u].notready
               /\ wake(k)[u].parentsense \in {node[u].parentsense, g}
               /\ wake(k)[u].sense = node[u].sense
               /\ wake(k)[u] \in
                    [sense : BOOLEAN, parentsense : BOOLEAN, notready : SUBSET Thread]
    BY <1>13, <1>14
  <2>2. CASE pc[t] = "signal"
    <3>1. node' = wake(1)
      BY <2>2 DEF BarrierSignal
    <3> HIDE DEF wake
    <3> QED BY <2>1, <2>2, <3>1
  <2>3. CASE pc[t] = "signal2"
    <3>1. node' = [wake(2) EXCEPT ![t].sense = ~@]
      BY <2>3 DEF BarrierSignal
    <3>2. wake(2) = [u \in Thread |-> wake(2)[u]]
      OBVIOUS
    <3> HIDE DEF wake
    <3>3. \A u \in Thread \ {t} : node'[u] = wake(2)[u]
      BY <3>1, <3>2
    <3>4. node'[t] = [wake(2)[t] EXCEPT !.sense = ~@]
      BY <3>1, <3>2
    <3>5. /\ node'[t].notready = wake(2)[t].notready
          /\ node'[t].parentsense = wake(2)[t].parentsense
          /\ node'[t].sense = (~wake(2)[t].sense)
      BY <2>1, <3>4
    <3> QED BY <2>1, <2>3, <3>3, <3>5
  <2> QED BY <1>1, <2>2, <2>3
<1>16. \A u \in Team : /\ {c \in Children(u, barrierN) : ~Arrived(c)'}
                            = {c \in Children(u, barrierN) : ~Arrived(c)}
                       /\ \A c \in Children(u, barrierN) : Arrived(c)' <=> Arrived(c)
  BY <1>8 DEF Children
<1>17. ASSUME NEW u \in Team PROVE node'[u].sense = g <=> ~Passed(u)'
  <2>1. u \in Thread /\ node[u].sense \in BOOLEAN /\ (node[u].sense = g <=> ~Passed(u))
    BY <1>6, <1>11, <1>14 DEF Episode
  <2>2. CASE u = t /\ pc[t] = "signal2"
    <3>1. node'[u].sense = (~node[u].sense)
      BY <1>15, <2>1, <2>2
    <3>2. node'[u].sense # g
      BY <1>13, <2>1, <2>2, <3>1, Flip
    <3> QED BY <1>9, <2>2, <3>2
  <2>3. CASE u # t
    <3>1. node'[u].sense = node[u].sense /\ (Passed(u)' <=> Passed(u))
      BY <1>9, <1>15, <2>1, <2>3
    <3> QED BY <2>1, <3>1
  <2>4. CASE u = t /\ pc[t] = "signal"
    <3>1. node'[u].sense = node[u].sense /\ ~Passed(u)'
      BY <1>9, <1>15, <2>1, <2>4
    <3> QED BY <1>13, <2>4, <3>1
  <2> QED BY <1>1, <2>2, <2>3, <2>4
<1>18. ASSUME NEW u \in Team, u # 0
       PROVE  /\ node'[u].parentsense = g => Arrived(0)'
              /\ pc'[u] \in {"signal", "signal2"} \/ Passed(u)' => node'[u].parentsense = g
  <2>1. u \in Thread /\ Arrived(0)'
    BY <1>6, <1>8, <1>12
  <2>2. ASSUME pc'[u] \in {"signal", "signal2"} \/ Passed(u)'
        PROVE  node[u].parentsense = g
    <3>1. pc[u] \in {"signal", "signal2"} \/ Passed(u)
      BY <1>1, <1>4, <1>9, <2>1, <2>2
    <3> QED BY <1>6, <1>11, <1>18, <3>1 DEF Episode
  <2> QED BY <1>15, <2>1, <2>2
<1>19. Episode(g)'
  BY <1>1, <1>6, <1>8, <1>11, <1>15, <1>16, <1>17, <1>18 DEF Episode
<1>20. Sensed'
  BY <1>1, <1>2, <1>19 DEF Sensed
<1> QED BY <1>7, <1>10, <1>20 DEF BarrierInv

(* When the main thread's children have finished, everybody has.           *)
LEMMA JoinAlone ==
  ASSUME PoolInv, pc[0] = "join", ChildrenDone(0)
  PROVE  \A u \in Thread : (u # 0 => ~Busy(u)) /\ ~Fresh(u)
<1>1. ASSUME NEW b \in Thread, b # 0, Busy(b) PROVE FALSE
  <2> DEFINE S == {u \in Thread \ {0} : Busy(u)}
  <2>1. S \in SUBSET Nat /\ S # {}
    BY <1>1, Threads
  <2>2. PICK n \in S : \A m \in S : n <= m
    BY <2>1, LeastNat
  <2>3. PICK p \in Thread : WokenBy(p, n)
    BY <2>2 DEF PoolInv, Woken
  <2>4. p < n /\ Busy(p) /\ n \in Nat /\ p \in Nat
    BY <2>2, <2>3, Threads DEF WokenBy
  <2>5. p = 0
    BY <2>2, <2>4
  <2>6. ~done[n]
    BY <2>2 DEF Busy
  <2> QED BY <2>3, <2>5, <2>6 DEF WokenBy, ChildrenDone
<1>2. \A p \in Thread : Pend(p) = {}
  BY <1>1 DEF Pend
<1> QED BY <1>1, <1>2 DEF Fresh

(* The loop is over: everybody is through the barrier, which rests again.  *)
LEMMA EndMove ==
  ASSUME PoolInv, BarrierInv, Decascade(0), work = "loop" PROVE BarrierInv'
<1>1. /\ pc[0] = "join" /\ ChildrenDone(0) /\ work' = "none"
      /\ UNCHANGED <<barrierN, node, ctx, num, loops, range, mine, scan, cnt, topo>>
  BY DEF Decascade, loopVars, hostVars
<1>2. \A u \in Thread : (u # 0 => ~Busy(u)) /\ ~Fresh(u)
  BY <1>1, JoinAlone
<1>3. LoopTypeOK'
  BY <1>1, TypeSame DEF BarrierInv
<1>4. \A u \in Thread : pc[u] \in {"join", "sleep", "start", "socket"}
  BY <1>1, <1>2, Threads DEF Busy, PoolInv, Phases
<1>5. \A u \in Thread : pc'[u] \notin BarrierPc \cup Working
  <2> DEFINE s == CASE 0 # 0 -> "sleep"
                    [] 0 = 0 /\ work = "range" -> "next"
                    [] OTHER -> "over"
  <2>1. pc' = [pc EXCEPT ![0] = s]
    BY DEF Decascade, Goto
  <2>2. s \in {"next", "over"}
    BY Zenon
  <2> HIDE DEF s
  <2>3. \A u \in Thread : pc'[u] = s \/ pc'[u] = pc[u]
    BY <2>1, Threads DEF PoolInv, PoolTypeOK
  <2> QED BY <1>4, <2>2, <2>3 DEF BarrierPc, Working
<1>6. Stages'
  BY <1>1, <1>5 DEF Stages
<1>7. PICK g \in BOOLEAN : Episode(g)
  BY DEF BarrierInv, Sensed
<1>8. 0 .. barrierN - 1 = Team /\ Team \subseteq Thread
  BY Teams
<1>9. \A u \in Team : Passed(u) /\ Arrived(u)
  <2>1. \A u \in Team : ctx[u].id = u
    BY <1>2, <1>8 DEF BarrierInv, Stages
  <2>2. \A u \in Team : pc[u] \notin BarrierPc
    BY <1>4, <1>8 DEF BarrierPc
  <2> QED BY <2>1, <2>2 DEF Passed, Arrived, BarrierPc
<1>10. ASSUME NEW u \in Team
       PROVE  /\ node[u].sense = (~g) /\ node[u].notready = Children(u, barrierN)
              /\ u # 0 => node[u].parentsense # (~g)
  <2>1. node[u].sense # g /\ node[u].notready = Children(u, barrierN)
    BY <1>7, <1>8, <1>9 DEF Episode
  <2>2. u # 0 => node[u].parentsense = g
    BY <1>7, <1>8, <1>9 DEF Episode
  <2>3. node[u] \in [sense : BOOLEAN, parentsense : BOOLEAN, notready : SUBSET Thread]
    BY <1>8 DEF BarrierInv, LoopTypeOK
  <2>4. node[u].sense \in BOOLEAN
    BY <2>3
  <2>5. node[u].sense = (~g)
    BY <2>1, <2>4, Flip
  <2>6. u # 0 => node[u].parentsense # (~g)
    BY <2>2, Flip
  <2> QED BY <2>1, <2>5, <2>6
<1>11. Resting(~g)'
  BY <1>1, <1>8, <1>10 DEF Resting
<1>12. Sensed'
  BY <1>1, <1>11, Flip DEF Sensed
<1> QED BY <1>3, <1>6, <1>12 DEF BarrierInv

(* The steps behind the barrier.                                           *)
LEMMA WorkingMove ==
  ASSUME PoolInv, BarrierInv, Hands, NEW t \in Thread,
         GetWork(t) \/ Execute(t) \/ Look(t) \/ StealWork(t) \/ AssignWork(t)
  PROVE  BarrierInv'
<1>1. LoopTypeOK
  BY DEF BarrierInv
<1>2. pc[t] \in Working /\ work = "loop"
  <2>1. pc[t] \in Working
    BY DEF GetWork, Execute, Look, StealWork, AssignWork, Working
  <2> QED BY <2>1 DEF BarrierInv, Stages
<1>3. UNCHANGED <<wbegin, wend, done, active, work, barrierN, node>>
  BY DEF GetWork, Execute, Look, StealWork, AssignWork, poolVars
<1>4. PICK s \in Working \cup {"join"} : Goto(t, s)
  <2>1. CASE GetWork(t)
    BY <1>1, <2>1, GetWorkMove DEF Working
  <2>2. CASE Execute(t)
    BY <1>1, <2>2, ExecuteMove DEF Working
  <2>3. CASE Look(t)
    BY <1>1, <2>3, LookMove DEF Working
  <2>4. CASE StealWork(t)
    BY <1>1, <2>4, StealMove DEF Working
  <2>5. CASE AssignWork(t)
    BY <1>1, <2>5, AssignMove DEF Working
  <2> QED BY <2>1, <2>2, <2>3, <2>4, <2>5
<1>5. /\ Steady /\ pc'[t] = s /\ \A u \in Thread \ {t} : pc'[u] = pc[u]
      /\ pc'[0] \notin MainOut \cup {"collect"}
  <2>1. s \in JobPc \ {"job"} /\ pc[t] \in JobPc \ {"job"}
    BY <1>2 DEF JobPc, Working
  <2>2. pc[0] \notin MainOut \cup {"collect"}
    BY <1>2 DEF BarrierInv, Stages
  <2> QED BY <1>3, <1>4, <2>1, <2>2, JobSteady
<1>6. LoopTypeOK' /\ \A u \in Thread : ctx'[u].id = ctx[u].id
  <2>1. CASE Execute(t)
    BY <1>1, <2>1, ExecuteMove
  <2>2. CASE Look(t)
    BY <1>1, <2>2, LookMove
  <2>3. CASE GetWork(t) \/ StealWork(t) \/ AssignWork(t)
    <3>1. /\ LoopTypeOK'
          /\ ctx' = ctx \/ \E v \in Thread, b \in Nat, e \in Nat :
               ctx' = [ctx EXCEPT ![v] = Bounds(ctx[v], b, e)]
      <4>1. CASE GetWork(t)
        BY <1>1, <4>1, GetWorkMove, ContextType
      <4>2. CASE StealWork(t)
        <5>1. Team \subseteq Thread
          BY Teams
        <5>2. /\ LoopTypeOK'
              /\ ctx' = ctx \/ \E v \in Team, m \in Nat :
                   ctx' = [ctx EXCEPT ![v] = Bounds(ctx[v], m, ctx[v].end)]
          BY <1>1, <4>2, StealMove
        <5> QED BY <1>1, <5>1, <5>2, ContextType
      <4>3. CASE AssignWork(t)
        BY <1>1, <4>3, AssignMove, ContextType
      <4> QED BY <2>3, <4>1, <4>2, <4>3
    <3>2. ASSUME NEW v \in Thread, NEW b \in Nat, NEW e \in Nat,
                 ctx' = [ctx EXCEPT ![v] = Bounds(ctx[v], b, e)], NEW u \in Thread
          PROVE  ctx'[u].id = ctx[u].id
      <4>1. ctx \in [Thread -> [id : Nat, beg : Nat, end : Nat]]
        BY <1>1 DEF LoopTypeOK
      <4>2. ctx'[u] = IF u = v THEN Bounds(ctx[v], b, e) ELSE ctx[u]
        BY <3>2, <4>1
      <4> QED BY <4>2 DEF Bounds
    <3> QED BY <3>1, <3>2
  <2> QED BY <2>1, <2>2, <2>3
<1>7. \A u \in Thread : /\ Arrived(u)' <=> Arrived(u)
                        /\ Passed(u)' <=> Passed(u)
                        /\ pc'[u] \in {"signal", "signal2"} <=> pc[u] \in {"signal", "signal2"}
  BY <1>2, <1>5, <1>6 DEF Arrived, Passed, BarrierPc, Working
<1>8. Team \subseteq Thread
  BY Teams
<1> QED BY <1>2, <1>3, <1>5, <1>6, <1>7, <1>8, Quiet

(* The steps of the pool: before the job, after it, and of other jobs.     *)
LEMMA PoolMove ==
  ASSUME PoolInv, BarrierInv, NEW t \in Thread, PoolStep(t) PROVE BarrierInv'
<1>1. CASE InitThread(t) \/ Shutdown(t) \/ SetRange(t)
  <2>1. work # "loop"
    <3>1. CASE InitThread(t)
      BY <3>1 DEF InitThread, PoolInv, Phases, BarrierInv, Stages, MainOut
    <3>2. CASE Shutdown(t) \/ SetRange(t)
      BY <3>2 DEF Shutdown, SetRange
    <3> QED BY <1>1, <3>1, <3>2
  <2>2. UNCHANGED <<work, barrierN, node, ctx, num, loops, mine, scan, cnt, topo>>
    BY <1>1 DEF InitThread, Shutdown, SetRange, poolVars, loopVars, hostVars
  <2>3. LoopTypeOK'
    <3>1. CASE InitThread(t) \/ Shutdown(t)
      <4>1. range' = range
        BY <3>1 DEF InitThread, Shutdown
      <4> QED BY <2>2, <4>1, TypeSame DEF BarrierInv, LoopTypeOK
    <3>2. CASE SetRange(t)
      BY <3>2, TypeOfParts DEF BarrierInv
    <3> QED BY <1>1, <3>1, <3>2
  <2>4. \E s : Goto(t, s) /\ s \notin BarrierPc \cup Working
    BY <1>1 DEF InitThread, Shutdown, SetRange, BarrierPc, Working
  <2>5. \A u \in Thread : pc'[u] \notin BarrierPc \cup Working
    BY <2>1, <2>4 DEF Goto, PoolInv, PoolTypeOK, BarrierInv, Stages
  <2> QED BY <2>1, <2>2, <2>3, <2>5, AtRest DEF BarrierInv, LoopTypeOK
<1>2. CASE Wait(t) \/ Cascade(t)
  <2>1. /\ UNCHANGED <<work, active, barrierN, node, ctx, num, loops, range, mine, scan,
                       cnt, topo>>
        /\ pc[t] \in {"sleep", "left", "right"}
    BY <1>2 DEF Wait, Cascade, poolVars, loopVars, hostVars
  <2>2. LoopTypeOK'
    BY <2>1, TypeSame DEF BarrierInv, LoopTypeOK
  <2>3. PICK s \in {"left", "right", "job"} : Goto(t, s)
    BY <1>2 DEF Wait, Cascade
  <2>4. pc'[t] = s /\ \A u \in Thread \ {t} : pc'[u] = pc[u]
    BY <2>3 DEF Goto, PoolInv, PoolTypeOK
  <2>5. CASE work # "loop"
    <3>1. \A u \in Thread : pc'[u] \notin BarrierPc \cup Working
      BY <2>4, <2>5 DEF BarrierInv, Stages, BarrierPc, Working
    <3> QED BY <2>1, <2>2, <2>5, <3>1, AtRest DEF BarrierInv, LoopTypeOK
  <2>6. CASE work = "loop"
    <3>1. Steady
      BY <1>2, WaitMove, CascadeMove
    <3>2. Busy(t)
      <4>1. CASE Wait(t)
        BY <4>1 DEF Wait, Busy, PoolInv, Phases
      <4>2. CASE Cascade(t)
        <5>1. pc[t] \in {"left", "right"}
          BY <4>2 DEF Cascade
        <5> QED BY <5>1, AwakeBusy
      <4> QED BY <1>2, <4>1, <4>2
    <3>3. ctx[t].id # t
      BY <2>1, <2>6, <3>2, InTeam
    <3>4. \A u \in Thread :
             /\ Arrived(u)' <=> Arrived(u)
             /\ Passed(u)' <=> Passed(u)
             /\ pc'[u] \in {"signal", "signal2"} <=> pc[u] \in {"signal", "signal2"}
      BY <2>1, <2>4, <3>3 DEF Arrived, Passed
    <3>5. pc'[0] \notin MainOut \cup {"collect"}
      BY <2>4, <2>6, Threads DEF BarrierInv, Stages, MainOut
    <3>6. Team \subseteq Thread
      BY Teams
    <3> QED BY <2>1, <2>2, <2>6, <3>1, <3>4, <3>5, <3>6, Quiet
  <2> QED BY <2>5, <2>6
<1>3. CASE Decascade(t)
  <2>1. CASE t = 0 /\ work = "loop"
    BY <1>3, <2>1, EndMove
  <2>2. CASE ~(t = 0 /\ work = "loop")
    <3> DEFINE s == CASE t # 0 -> "sleep"
                      [] t = 0 /\ work = "range" -> "next"
                      [] OTHER -> "over"
    <3>1. /\ pc[t] = "join" /\ Goto(t, s) /\ work' = IF t = 0 THEN "none" ELSE work
          /\ UNCHANGED <<active, barrierN, node, ctx, num, loops, range, mine, scan, cnt, topo>>
      BY <1>3 DEF Decascade, loopVars, hostVars
    <3>2. s \in {"sleep", "next", "over"} /\ (t # 0 => s = "sleep")
      BY Zenon
    <3> HIDE DEF s
    <3>3. pc'[t] = s /\ \A u \in Thread \ {t} : pc'[u] = pc[u]
      BY <3>1 DEF Goto, PoolInv, PoolTypeOK
    <3>4. work' \in {"none", "range", "loop", "shutdown"}
      BY <3>1 DEF BarrierInv, LoopTypeOK
    <3>5. LoopTypeOK'
      BY <3>1, <3>4, TypeSame DEF BarrierInv
    <3>6. CASE work # "loop"
      <4>1. \A u \in Thread : pc'[u] \notin BarrierPc \cup Working
        BY <3>2, <3>3, <3>6 DEF BarrierInv, Stages, BarrierPc, Working
      <4>2. work' \in {"none", "range", "shutdown"}
        BY <3>1, <3>4, <3>6
      <4> QED BY <3>1, <3>5, <3>6, <4>1, <4>2, AtRest
    <3>7. CASE work = "loop"
      <4>1. t # 0 /\ work' = work /\ pc'[t] = "sleep"
        BY <2>2, <3>1, <3>2, <3>3, <3>7
      <4>2. Steady
        BY <1>3, DecascadeMove
      <4>3. \A u \in Thread :
               /\ Arrived(u)' <=> Arrived(u)
               /\ Passed(u)' <=> Passed(u)
               /\ pc'[u] \in {"signal", "signal2"} <=> pc[u] \in {"signal", "signal2"}
        BY <3>1, <3>3, <4>1 DEF Arrived, Passed, BarrierPc
      <4>4. pc'[0] \notin MainOut \cup {"collect"}
        BY <3>3, <3>7, <4>1, Threads DEF BarrierInv, Stages
      <4>5. Team \subseteq Thread
        BY Teams
      <4> QED BY <3>1, <3>5, <3>7, <4>1, <4>2, <4>3, <4>4, <4>5, Quiet
    <3> QED BY <3>6, <3>7
  <2> QED BY <2>1, <2>2
<1> QED BY <1>1, <1>2, <1>3 DEF PoolStep

(* Every step keeps the invariant of the barrier.                          *)
LEMMA BarrierInductive ==
  ASSUME PoolInv, PoolInv', BarrierInv, Hands, [Next]_vars PROVE BarrierInv'
<1>1. CASE UNCHANGED vars
  <2>1. UNCHANGED <<pc, wbegin, wend, done, active, work, barrierN, node, ctx, num, loops,
                    range, mine, scan, cnt, topo>>
    BY <1>1 DEF vars, poolVars, loopVars, hostVars
  <2>2. LoopTypeOK'
    BY <2>1, TypeSame DEF BarrierInv, LoopTypeOK
  <2>3. \A t \in Thread : (Busy(t)' <=> Busy(t)) /\ Pend(t)' = Pend(t)
    BY <2>1 DEF Busy, Pend, Midpoint
  <2>4. Steady
    BY <2>1, <2>3 DEF Steady, Fresh, Inside
  <2>5. Stages' /\ Sensed'
    <3>1. CASE work = "loop"
      BY <2>1, <2>2, <2>4, <3>1, Quiet DEF BarrierInv, Stages, Arrived, Passed
    <3>2. CASE work # "loop"
      BY <2>1, <3>2 DEF BarrierInv, Stages, Sensed, Resting
    <3> QED BY <3>1, <3>2
  <2> QED BY <2>2, <2>5 DEF BarrierInv
<1>2. CASE OnEach \/ PoolReady \/ EndLoop \/ PoolPause \/ PoolContinue
           \/ ConstructStorage \/ DestructStorage
  <2>1. pc[0] \in MainOut \cup {"collect"}
    BY <1>2 DEF OnEach, PoolReady, EndLoop, PoolPause, PoolContinue, ConstructStorage,
       DestructStorage, MainOut
  <2>2. work # "loop" /\ \A u \in Thread : pc[u] \notin BarrierPc \cup Working
    BY <2>1 DEF BarrierInv, Stages
  <2>3. UNCHANGED <<barrierN, node>>
    BY <1>2 DEF OnEach, PoolReady, EndLoop, PoolPause, PoolContinue, ConstructStorage,
       DestructStorage
  <2>4. work' \in {"none", "range", "shutdown"}
    BY <1>2, <2>2 DEF OnEach, PoolReady, EndLoop, PoolPause, PoolContinue, ConstructStorage,
       DestructStorage, Run, poolVars, BarrierInv, LoopTypeOK
  <2>5. LoopTypeOK'
    <3>1. CASE OnEach
      BY <3>1, TypeOfLoops DEF BarrierInv
    <3>2. CASE ~OnEach
      <4>1. UNCHANGED <<ctx, num, loops, range, mine, scan, cnt, topo>>
        BY <1>2, <3>2 DEF PoolReady, EndLoop, PoolPause, PoolContinue, ConstructStorage,
           DestructStorage, loopVars, hostVars
      <4> QED BY <2>3, <2>4, <4>1, TypeSame DEF BarrierInv
    <3> QED BY <3>1, <3>2
  <2>6. \A u \in Thread : pc'[u] \notin BarrierPc \cup Working
    <3>1. CASE DestructStorage
      BY <2>2, <3>1 DEF DestructStorage
    <3>2. CASE PoolContinue
      BY <3>2 DEF PoolContinue, BarrierPc, Working
    <3>3. CASE OnEach \/ PoolReady \/ EndLoop \/ PoolPause \/ ConstructStorage
      <4>1. pc' = pc \/ \E s \in {"left", "idle", "over", "exit"} : Goto(0, s)
        <5>1. CASE OnEach \/ PoolPause
          BY <5>1 DEF OnEach, PoolPause, Run
        <5>2. CASE PoolReady \/ EndLoop
          BY <5>2 DEF PoolReady, EndLoop
        <5>3. CASE ConstructStorage
          BY <5>3 DEF ConstructStorage
        <5> QED BY <3>3, <5>1, <5>2, <5>3
      <4> QED BY <2>2, <4>1 DEF Goto, PoolInv, PoolTypeOK, BarrierPc, Working
    <3> QED BY <1>2, <3>1, <3>2, <3>3
  <2> QED BY <2>2, <2>3, <2>4, <2>5, <2>6, AtRest
<1>3. CASE DoAll
  BY <1>3, DoAllMove
<1>4. ASSUME NEW t \in Thread, PoolStep(t) PROVE BarrierInv'
  BY <1>4, PoolMove
<1>5. ASSUME NEW t \in Thread, LoopStep(t) PROVE BarrierInv'
  BY <1>5, LoopInitMove, ArriveMove, SenseMove, SignalMove, WorkingMove DEF LoopStep
<1> QED BY <1>1, <1>2, <1>3, <1>4, <1>5 DEF Next

-----------------------------------------------------------------------------
(* A product grows with its factor.                                        *)
LEMMA Grows ==
  ASSUME NEW len \in Nat, NEW a \in Nat, NEW b \in Nat, a <= b
  PROVE  len * a \in Nat /\ len * b \in Nat /\ len * a <= len * b
<1>1. PICK d \in Nat : b = a + d
  BY b - a \in Nat
<1>2. len * d \in Nat /\ len * a \in Nat
  OBVIOUS
<1>3. len * (a + d) = len * a + len * d
  OBVIOUS
<1> QED BY <1>1, <1>2, <1>3

(* The parts of a range: nothing is given out twice or forgotten.          *)
LEMMA PartsCover ==
  ASSUME PoolInv, LoopTypeOK
  PROVE  /\ \A t \in Team : /\ Part(t).beg \in Nat /\ Part(t).end \in Nat
                            /\ Part(t).end <= num /\ Interval(Part(t)) \subseteq 0 .. num - 1
         /\ \A t, u \in Team : t # u => Interval(Part(t)) \cap Interval(Part(u)) = {}
         /\ \A x \in 0 .. num - 1 : \E t \in Team : x \in Interval(Part(t))
<1> DEFINE len == num \div active + 1
<1>1. num \in Nat /\ active \in Nat /\ active > 0
  BY Numbers DEF PoolInv, PoolTypeOK
<1>2. len \in Nat /\ len >= 1
  BY <1>1
<1>3. num < len * active
  <2> DEFINE q == num \div active
             r == num % active
  <2>1. q \in Nat /\ r \in Nat /\ r < active /\ num = active * q + r
    BY <1>1
  <2> HIDE DEF q, r
  <2>2. (q + 1) * active = active * q + active
    BY <1>1, <2>1
  <2>3. active * q \in Nat
    BY <1>1, <2>1
  <2>4. num < (q + 1) * active
    BY <1>1, <2>1, <2>2, <2>3
  <2> QED BY <2>4 DEF q
<1>4. \A t : Part(t) = [beg |-> len * t,
                        end |-> IF num < len * (t + 1) THEN num ELSE len * (t + 1)]
  BY DEF Part
<1> HIDE DEF len
<1>5. ASSUME NEW t \in Team
      PROVE  /\ t \in Nat /\ t < active /\ len * t \in Nat /\ len * (t + 1) \in Nat
             /\ Part(t).beg = len * t /\ Part(t).end \in Nat
             /\ Part(t).end <= num /\ Part(t).end <= len * (t + 1)
             /\ \A x \in Nat : x < num /\ len * t <= x /\ x < len * (t + 1) => x < Part(t).end
  <2>1. t \in Nat /\ t < active
    BY <1>1 DEF Team
  <2>2. len * t \in Nat /\ len * (t + 1) \in Nat
    BY <1>2, <2>1
  <2>3. /\ Part(t).beg = len * t
        /\ Part(t).end = IF num < len * (t + 1) THEN num ELSE len * (t + 1)
    BY <1>4
  <2> QED BY <1>1, <2>1, <2>2, <2>3
<1>6. \A t \in Team : Interval(Part(t)) \subseteq 0 .. num - 1
  BY <1>1, <1>5 DEF Interval
<1>7. ASSUME NEW t \in Team, NEW u \in Team, t < u, NEW x \in Interval(Part(t))
      PROVE  x \notin Interval(Part(u))
  <2>1. x \in Int /\ x < len * (t + 1)
    BY <1>5 DEF Interval
  <2>2. t + 1 \in Nat /\ t + 1 <= u /\ u \in Nat
    BY <1>5, <1>7
  <2>3. len * (t + 1) \in Nat /\ len * u \in Nat /\ len * (t + 1) <= len * u
    BY <1>2, <2>2, Grows
  <2> QED BY <1>5, <2>1, <2>3 DEF Interval
<1>8. \A t, u \in Team : t # u => Interval(Part(t)) \cap Interval(Part(u)) = {}
  <2> SUFFICES ASSUME NEW t \in Team, NEW u \in Team, t # u,
                      NEW x \in Interval(Part(t)), x \in Interval(Part(u))
               PROVE  FALSE
    OBVIOUS
  <2>1. t < u \/ u < t
    BY <1>5
  <2> QED BY <1>7, <2>1
<1>9. ASSUME NEW x \in 0 .. num - 1 PROVE \E t \in Team : x \in Interval(Part(t))
  <2> DEFINE S == {k \in Nat : x < len * (k + 1)}
  <2>1. x \in Nat /\ x < num
    BY <1>1
  <2>2. active - 1 \in S
    <3>1. active - 1 \in Nat /\ (active - 1) + 1 = active
      BY <1>1
    <3>2. len * active \in Nat
      BY <1>1, <1>2
    <3>3. x < len * active
      BY <1>1, <1>3, <2>1, <3>2
    <3>4. x < len * ((active - 1) + 1)
      BY <3>1, <3>3
    <3> QED BY <3>1, <3>4
  <2>3. PICK k \in S : \A m \in S : k <= m
    BY <2>2, LeastNat
  <2>4. k \in Nat /\ x < len * (k + 1) /\ k <= active - 1
    BY <2>2, <2>3
  <2>5. k \in Team
    BY <1>1, <2>4 DEF Team
  <2>6. len * k <= x
    <3>1. CASE k = 0
      BY <1>2, <2>1, <3>1
    <3>2. CASE k # 0
      <4>1. k - 1 \in Nat /\ k - 1 \notin S
        BY <2>3, <2>4, <3>2
      <4>2. ~(x < len * ((k - 1) + 1))
        BY <4>1
      <4>3. (k - 1) + 1 = k
        BY <2>4
      <4>4. ~(x < len * k)
        BY <4>2, <4>3
      <4>5. len * k \in Nat
        BY <1>2, <2>4
      <4> QED BY <2>1, <4>4, <4>5
    <3> QED BY <3>1, <3>2
  <2>7. /\ Part(k).beg = len * k /\ Part(k).end \in Nat /\ x < Part(k).end
        /\ len * k \in Nat
    BY <1>5, <2>1, <2>4, <2>5, <2>6
  <2>8. x \in Interval(Part(k))
    BY <2>1, <2>6, <2>7 DEF Interval
  <2> QED BY <2>5, <2>8
<1> QED BY <1>5, <1>6, <1>8, <1>9

(* Intervals.                                                              *)
LEMMA Intervals ==
  ASSUME NEW c, c.beg \in Nat, c.end \in Nat
  PROVE  /\ c.beg >= c.end <=> Interval(c) = {}
         /\ \A x : x \in Interval(c) <=> x \in Nat /\ c.beg <= x /\ x < c.end
<1>1. \A x : x \in Interval(c) <=> x \in Nat /\ c.beg <= x /\ x < c.end
  BY DEF Interval
<1>2. c.beg < c.end => c.beg \in Interval(c)
  BY <1>1
<1> QED BY <1>1, <1>2

(* The empty range has no items.                                           *)
LEMMA NoItems == Interval(Empty) = {}
  BY DEF Interval, Empty

(* The victims of a thread depend on its own search only.                  *)
LEMMA SameVictims ==
  ASSUME UNCHANGED <<topo, active>>, NEW t \in Thread, scan'[t].phase = scan[t].phase
  PROVE  Victims(t)' = Victims(t) /\ Team' = Team
  BY DEF Victims, Within, Outside, PerPack, Leader, Team

(* All ids are set behind the barrier.                                     *)
LEMMA Behind ==
  ASSUME PoolInv, BarrierInv, NEW t \in Thread, pc[t] \in Working
  PROVE  work = "loop" /\ t \in Team /\ Passed(t) /\ \A u \in Team : ctx[u].id = u
<1>1. work = "loop"
  BY DEF BarrierInv, Stages
<1>2. Busy(t)
  BY AwakeBusy DEF JobPc
<1>3. t \in Team /\ ctx[t].id = t
  BY <1>1, <1>2, InTeam DEF Working
<1>4. Passed(t)
  BY <1>3 DEF Passed, BarrierPc, Working
<1>5. PICK g \in BOOLEAN : Episode(g)
  BY <1>1 DEF BarrierInv, Sensed
<1>6. Arrived(0)
  BY <1>1, <1>3, <1>4, <1>5, RootCame
<1>7. \A u \in Team : Arrived(u)
  BY <1>1, <1>5, <1>6, RootLast
<1> QED BY <1>1, <1>3, <1>4, <1>7 DEF Arrived

(* A step that moves no item.                                              *)
LEMMA ItemsStill ==
  ASSUME PoolInv, BarrierInv, ItemsInv, NEW t \in Thread, NEW s, Goto(t, s),
         s \notin {"exec", "take", "assign"}, pc[t] \notin {"exec", "assign"},
         UNCHANGED <<work, num, active, range, ctx, mine, cnt, loops, topo>>,
         \A u \in Thread \ {t} : scan'[u] = scan[u],
         Steady, s \in MainOut \cup {"collect"} => pc[t] \in MainOut \cup {"collect"},
         s = "next" => pc[t] = "next",
         t = 0 /\ pc[0] = "next" => s = "next",
         work = "loop" /\ Passed(t)' => s = "work" \/ ctx[t].beg >= ctx[t].end
  PROVE  ItemsInv'
<1> USE DEF ItemsInv
<1>1. pc'[t] = s /\ \A u \in Thread \ {t} : pc'[u] = pc[u]
  BY DEF Goto, PoolInv, PoolTypeOK
<1>2. Team' = Team /\ Team \subseteq Thread
  BY Teams DEF Team
<1>3. \A u : Part(u)' = Part(u) /\ Todo(u)' = Todo(u) /\ Own(u)' = Own(u)
             /\ Interval(mine[u])' = Interval(mine[u])
  BY DEF Part, Todo, Own, Interval
<1>4. Parts'
  <2>1. pc'[0] \in MainOut \cup {"collect"} => pc[0] \in MainOut \cup {"collect"}
    BY <1>1, Threads
  <2>2. pc'[0] = "next" => pc[0] = "next"
    BY <1>1, Threads
  <2> QED BY <1>2, <1>3, <2>1, <2>2 DEF Parts, Steady
<1>5. Hands'
  <2>1. ASSUME NEW u \in Thread
        PROVE  /\ pc'[u] \notin {"exec", "assign"} => mine[u] = Empty
               /\ pc'[u] = "exec" => mine[u].beg < mine[u].end
               /\ pc'[u] = "take" => /\ scan'[u].n \in DOMAIN Victims(u)'
                                     /\ Victims(u)'[scan'[u].n] \in Team
    <3>1. CASE u = t
      BY <1>1, <3>1 DEF Hands
    <3>2. CASE u # t
      <4>1. Victims(u)' = Victims(u)
        BY <3>2, SameVictims
      <4> QED BY <1>1, <3>2, <4>1 DEF Hands
    <3> QED BY <3>1, <3>2
  <2>2. ASSUME work = "loop", NEW u \in Team, Passed(u)', pc'[u] \notin {"work", "exec"}
        PROVE  ctx[u].beg >= ctx[u].end
    <3>1. CASE u = t
      BY <1>1, <2>2, <3>1
    <3>2. CASE u # t
      <4>1. Passed(u) /\ pc[u] \notin {"work", "exec"}
        BY <1>1, <1>2, <2>2, <3>2 DEF Passed
      <4> QED BY <2>2, <4>1 DEF Hands
    <3> QED BY <3>1, <3>2
  <2> QED BY <1>2, <2>1, <2>2 DEF Hands
<1>6. Shared'
  BY <1>2, <1>3 DEF Shared
<1>7. Tally'
  <2>1. pc'[0] = "next" <=> pc[0] = "next"
    BY <1>1, Threads
  <2> QED BY <2>1 DEF Tally
<1> QED BY <1>4, <1>5, <1>6, <1>7

(* A step outside of the loops, or of another job.                         *)
LEMMA ItemsOutside ==
  ASSUME BarrierInv, BarrierInv', ItemsInv, work \notin {"range", "loop"},
         work' \in {work, "none", "shutdown"}, pc[0] # "next", pc'[0] # "next",
         UNCHANGED <<num, range, mine, cnt, loops>>
  PROVE  ItemsInv'
<1> USE DEF ItemsInv
<1>1. work' \notin {"range", "loop"}
  OBVIOUS
<1>2. Hands'
  <2>1. \A u \in Thread : pc[u] \notin Working /\ pc'[u] \notin Working
    BY <1>1 DEF BarrierInv, Stages
  <2> QED BY <1>1, <2>1 DEF Hands, Working
<1>3. Parts' /\ Shared' /\ Tally'
  BY <1>1 DEF Parts, Shared, Tally
<1> QED BY <1>2, <1>3

(* The items invariant holds at first.                                     *)
LEMMA ItemsInitialised ==
  ASSUME Init PROVE ItemsInv
<1>1. Parts /\ Shared
  BY Threads DEF Init, Parts, Shared
<1>2. Hands
  BY Threads DEF Init, Hands, Each
<1>3. Tally
  BY DEF Init, Tally
<1> QED BY <1>1, <1>2, <1>3 DEF ItemsInv

(* run has been called: everyone of the team has still to begin.           *)
LEMMA RunFresh ==
  ASSUME PoolInv, NEW job, NEW n \in 1 .. MaxThreads, Run(job, n),
         pc[0] \in {"idle", "next"}, done' = done
  PROVE  /\ pc'[0] = "left" /\ \A u \in Thread \ {0} : pc'[u] = pc[u]
         /\ \A t \in 0 .. n - 1 : Fresh(t)'
<1>1. pc'[0] = "left" /\ \A u \in Thread \ {0} : pc'[u] = pc[u]
  BY Threads DEF Run, Goto, PoolInv, PoolTypeOK
<1>2. wbegin'[0] = 1 /\ wend'[0] = n
  BY Threads DEF Run, PoolInv, PoolTypeOK
<1>3. Busy(0)' /\ Pend(0)' = 1 .. n - 1
  BY <1>1, <1>2 DEF Busy, Pend, MainOut
<1>4. Fresh(0)'
  BY <1>1, <1>3 DEF Fresh
<1>5. \A t \in 0 .. n - 1 : t # 0 => t \in 1 .. n - 1
  OBVIOUS
<1>6. \A t \in 1 .. n - 1 : Fresh(t)'
  BY <1>3, Threads DEF Fresh
<1> QED BY <1>1, <1>4, <1>5, <1>6

(* on_each: the parts are to be given out.                                 *)
LEMMA OnEachItems ==
  ASSUME PoolInv, BarrierInv, BarrierInv', ItemsInv, OnEach PROVE ItemsInv'
<1> USE DEF ItemsInv
<1>1. PICK n \in 1 .. MaxThreads : active' = n /\ Run("range", n)
  BY DEF OnEach
<1>2. /\ pc[0] = "idle" /\ done' = done /\ UNCHANGED mine
      /\ cnt' = [x \in 0 .. MaxItems - 1 |-> 0]
  BY DEF OnEach
<1>3. /\ pc'[0] = "left" /\ \A u \in Thread \ {0} : pc'[u] = pc[u]
      /\ \A t \in 0 .. n - 1 : Fresh(t)'
  BY <1>1, <1>2, RunFresh
<1>4. work' = "range"
  BY <1>1 DEF Run
<1>5. Parts'
  BY <1>1, <1>3, <1>4 DEF Parts, Team, MainOut
<1>6. Hands'
  <2>1. work # "loop"
    BY <1>2 DEF BarrierInv, Stages, MainOut
  <2>2. \A u \in Thread : pc[u] \notin Working /\ pc'[u] \notin Working
    BY <1>4, <2>1 DEF BarrierInv, Stages
  <2> QED BY <1>2, <1>4, <2>2 DEF Hands, Working
<1>7. Shared'
  BY <1>4 DEF Shared
<1>8. Tally'
  <2>1. MaxItems \in Nat /\ num' \in 0 .. MaxItems
    BY RuntimeAssumption DEF BarrierInv, LoopTypeOK
  <2>2. ASSUME NEW k \in 0 .. MaxItems PROVE \A x \in 0 .. k - 1 : x \in 0 .. MaxItems - 1
    BY <2>1
  <2>3. \A x \in 0 .. num' - 1 : x \in 0 .. MaxItems - 1
    BY <2>1, <2>2
  <2> QED BY <1>2, <1>3, <1>4, <2>3 DEF Tally
<1> QED BY <1>5, <1>6, <1>7, <1>8

(* The loop starts: everyone owns its part.                                *)
LEMMA DoAllItems ==
  ASSUME PoolInv, BarrierInv, BarrierInv', ItemsInv, DoAll PROVE ItemsInv'
<1> USE DEF ItemsInv
<1>1. /\ pc[0] = "next" /\ work' = "loop"
      /\ UNCHANGED <<done, active, num, range, mine, scan, cnt, loops>>
  BY DEF DoAll, Run
<1>2. active \in 1 .. MaxThreads /\ Team' = Team /\ Team \subseteq Thread
  BY <1>1, Teams DEF PoolInv, PoolTypeOK, Team
<1>3. pc'[0] = "left" /\ \A u \in Thread \ {0} : pc'[u] = pc[u]
  BY <1>1, <1>2, RunFresh DEF DoAll
<1>4. \A u \in Thread : pc[u] \notin Working /\ pc'[u] \notin Working
  <2>1. work # "loop"
    BY <1>1 DEF BarrierInv, Stages, MainOut
  <2>2. \A u \in Thread : pc[u] \notin Working
    BY <2>1 DEF BarrierInv, Stages
  <2> QED BY <1>3, <2>2 DEF Working
<1>5. \A u \in Thread : ctx'[u].id # u /\ mine[u] = Empty
  <2>1. \A u \in Thread : ctx'[u] = NoContext /\ NoContext.id # u
    BY Threads DEF DoAll, Each, NoContext
  <2> QED BY <1>4, <2>1 DEF Hands, Working
<1>6. \A u : Part(u)' = Part(u)
  BY <1>1 DEF Part
<1>7. \A u \in Team : Own(u)' = Interval(Part(u)) /\ Todo(u)' \cap Interval(mine[u])' = {}
  <2> SUFFICES ASSUME NEW u \in Team
               PROVE  Own(u)' = Interval(Part(u)) /\ Todo(u)' \cap Interval(mine[u])' = {}
    OBVIOUS
  <2>1. Interval(mine[u])' = {}
    BY <1>1, <1>2, <1>5, NoItems DEF Interval
  <2>2. Interval(Part(u))' = Interval(Part(u))
    BY <1>6 DEF Interval
  <2>3. Todo(u)' = Interval(Part(u))
    BY <1>2, <1>5, <2>2 DEF Todo
  <2> QED BY <2>1, <2>3 DEF Own
<1>8. Parts'
  BY <1>1, <1>2, <1>3, <1>6 DEF Parts, MainOut
<1>9. Hands'
  BY <1>1, <1>2, <1>4, <1>5 DEF Hands, Passed, Working
<1>10. Shared'
  <2>1. \A x \in 0 .. num - 1 : cnt[x] = 0
    BY <1>1 DEF Tally
  <2>2. LoopTypeOK
    BY DEF BarrierInv
  <2> QED BY <1>1, <1>2, <1>7, <2>1, <2>2, PartsCover DEF Shared
<1>11. Tally'
  BY <1>1, <1>3 DEF Tally
<1> QED BY <1>8, <1>9, <1>10, <1>11

(* A part is given out.                                                    *)
LEMMA SetRangeItems ==
  ASSUME PoolInv, BarrierInv, ItemsInv, NEW t \in Thread, SetRange(t) PROVE ItemsInv'
<1> USE DEF ItemsInv
<1>1. /\ pc[t] = "job" /\ work = "range"
      /\ UNCHANGED <<wbegin, wend, done, work, active, num, mine, scan, cnt, topo, loops>>
  BY DEF SetRange, poolVars, loopVars, hostVars
<1>2. range' = [range EXCEPT ![t] = Part(t)]
  BY TypeOfParts DEF BarrierInv
<1>3. pc' = [pc EXCEPT ![t] = "join"]
  BY DEF SetRange, Goto
<1>4. pc'[t] = "join" /\ \A u \in Thread \ {t} : pc'[u] = pc[u]
  BY <1>3 DEF PoolInv, PoolTypeOK
<1>5. \A u \in Thread : Busy(u)' = Busy(u) /\ Pend(u)' = Pend(u)
  BY <1>1, <1>3, JobMove DEF JobPc
<1>6. \A u \in Thread \ {t} : Fresh(u)' <=> Fresh(u)
  BY <1>4, <1>5 DEF Fresh
<1>7. pc[0] \notin MainOut \cup {"collect"} /\ pc'[0] \notin MainOut \cup {"collect"}
  BY <1>1, <1>4, Threads DEF Parts, MainOut
<1>8. Team' = Team /\ Team \subseteq Thread
  BY <1>1, Teams DEF Team
<1>9. Parts'
  <2>1. \A u \in Team : ~Fresh(u)' => range'[u] = Part(u)
    BY <1>1, <1>2, <1>6, <1>8 DEF Parts, BarrierInv, LoopTypeOK
  <2>2. \A u : Part(u)' = Part(u)
    BY <1>1 DEF Part
  <2> QED BY <1>1, <1>7, <1>8, <2>1, <2>2 DEF Parts, MainOut
<1>10. Hands'
  <2>1. \A u \in Thread : pc[u] \notin Working
    BY <1>1 DEF BarrierInv, Stages
  <2>2. \A u \in Thread : pc'[u] \notin Working
    BY <1>4, <2>1 DEF Working
  <2> QED BY <1>1, <2>1, <2>2 DEF Hands, Working
<1>11. Shared' /\ Tally'
  BY <1>1, <1>7 DEF Shared, Tally, MainOut
<1> QED BY <1>9, <1>10, <1>11

-----------------------------------------------------------------------------
(* In a loop, it is enough to look at hands, owners and counts.            *)
LEMMA LoopItems ==
  ASSUME PoolInv, BarrierInv, ItemsInv, work = "loop",
         UNCHANGED <<work, num, active, range>>,
         pc'[0] \notin MainOut \cup {"collect"},
         Hands', Shared', \A x \in DOMAIN cnt' : cnt'[x] <= 1
  PROVE  ItemsInv'
<1>1. pc'[0] # "next"
  BY DEF MainOut
<1>2. Parts'
  <2>1. Team' = Team /\ \A u : Part(u)' = Part(u)
    BY DEF Team, Part
  <2> QED BY <1>1, <2>1 DEF ItemsInv, Parts
<1>3. Tally'
  BY <1>1 DEF Tally
<1> QED BY <1>2, <1>3 DEF ItemsInv

(* The hands of the others are kept, their contexts at most shortened.     *)
LEMMA HandsMove ==
  ASSUME PoolInv, BarrierInv, ItemsInv, work = "loop",
         UNCHANGED <<work, active, topo>>, NEW t \in Thread,
         \A u \in Thread \ {t} : /\ pc'[u] = pc[u] /\ mine'[u] = mine[u] /\ scan'[u] = scan[u]
                                 /\ ctx'[u].id = ctx[u].id /\ ctx'[u].end = ctx[u].end
                                 /\ ctx[u].beg >= ctx[u].end => ctx'[u].beg >= ctx[u].end,
         pc'[t] \notin {"exec", "assign"} => mine'[t] = Empty,
         pc'[t] = "exec" => mine'[t].beg < mine'[t].end,
         pc'[t] = "take" =>
           scan'[t].n \in DOMAIN Victims(t)' /\ Victims(t)'[scan'[t].n] \in Team,
         Passed(t)' /\ pc'[t] \notin {"work", "exec"} => ctx'[t].beg >= ctx'[t].end
  PROVE  Hands'
<1> USE DEF ItemsInv
<1>1. Team' = Team /\ Team \subseteq Thread
  BY Teams DEF Team
<1>2. ASSUME NEW u \in Thread
      PROVE  /\ pc'[u] \notin {"exec", "assign"} => mine'[u] = Empty
             /\ pc'[u] = "exec" => mine'[u].beg < mine'[u].end
             /\ pc'[u] = "take" => /\ scan'[u].n \in DOMAIN Victims(u)'
                                   /\ Victims(u)'[scan'[u].n] \in Team
  <2>1. CASE u = t
    BY <2>1
  <2>2. CASE u # t
    <3>1. Victims(u)' = Victims(u)
      BY <2>2, SameVictims
    <3> QED BY <2>2, <3>1 DEF Hands
  <2> QED BY <2>1, <2>2
<1>3. ASSUME NEW u \in Team, Passed(u)', pc'[u] \notin {"work", "exec"}
      PROVE  ctx'[u].beg >= ctx'[u].end
  <2>1. CASE u = t
    BY <1>3, <2>1
  <2>2. CASE u # t
    <3>1. u \in Thread \ {t}
      BY <1>1, <2>2
    <3>2. Passed(u) /\ pc[u] \notin {"work", "exec"}
      BY <1>3, <3>1 DEF Passed
    <3> QED BY <3>1, <3>2 DEF Hands
  <2> QED BY <2>1, <2>2
<1> QED BY <1>1, <1>2, <1>3 DEF Hands

(* Nobody owns more or less than before.                                   *)
LEMMA OwnersSame ==
  ASSUME PoolInv, BarrierInv, ItemsInv, work = "loop", UNCHANGED <<work, num, active, cnt>>,
         \A u \in Team : Own(u)' = Own(u) /\ Todo(u)' \cap Interval(mine[u])' = {}
  PROVE  Shared'
<1>1. Team' = Team
  BY DEF Team
<1> QED BY <1>1 DEF ItemsInv, Shared

(* What a thread owns depends on its context and hands.                    *)
LEMMA OwnSame ==
  ASSUME UNCHANGED <<num, active>>, NEW u \in Thread,
         ctx'[u] = ctx[u], mine'[u] = mine[u]
  PROVE  /\ Own(u)' = Own(u) /\ Todo(u)' = Todo(u)
         /\ Interval(mine[u])' = Interval(mine[u])
<1>1. Part(u)' = Part(u)
  BY DEF Part
<1> QED BY <1>1 DEF Own, Todo, Interval

(* A thread takes its part into its context.                               *)
LEMMA LoopInitItems ==
  ASSUME PoolInv, BarrierInv, ItemsInv, NEW t \in Thread, LoopInit(t) PROVE ItemsInv'
<1>1. /\ pc[t] = "job" /\ work = "loop" /\ Goto(t, "arrive")
      /\ UNCHANGED <<work, active, num, range, mine, scan, cnt, topo>>
  BY DEF LoopInit, poolVars, hostVars
<1>2. pc'[t] = "arrive" /\ \A u \in Thread \ {t} : pc'[u] = pc[u]
  BY <1>1 DEF Goto, PoolInv, PoolTypeOK
<1>3. LoopTypeOK
  BY DEF BarrierInv
<1>4. Busy(t)
  BY <1>1, AwakeBusy DEF JobPc
<1>5. t \in Team /\ ctx[t].id # t /\ Team \subseteq Thread
  BY <1>1, <1>4, InTeam, Teams
<1>6. range[t] = Part(t)
  BY <1>1, <1>5 DEF ItemsInv, Parts
<1>7. /\ LoopTypeOK'
      /\ ctx'[t].id = t /\ \A u \in Thread \ {t} : ctx'[u] = ctx[u]
      /\ range[t].beg < num => ctx'[t].beg = range[t].beg
      /\ range[t].beg >= num => ctx'[t].beg = num
      /\ range[t].end < num => ctx'[t].end = range[t].end
      /\ range[t].end >= num => ctx'[t].end = num
  BY <1>3, TypeOfInit
<1>8. num \in Nat /\ Part(t).beg \in Nat /\ Part(t).end \in Nat /\ Part(t).end <= num
  BY <1>3, <1>5, PartsCover, Numbers
<1>9. Interval(ctx[t])' = Interval(Part(t))
  <2>1. ctx'[t].end = Part(t).end
    BY <1>6, <1>7, <1>8
  <2>2. CASE Part(t).beg < num
    <3>1. ctx'[t].beg = Part(t).beg
      BY <1>6, <1>7, <2>2
    <3> QED BY <2>1, <3>1 DEF Interval
  <2>3. CASE ~(Part(t).beg < num)
    <3>1. ctx'[t].beg = num
      BY <1>6, <1>7, <1>8, <2>3
    <3> QED BY <1>8, <2>1, <2>3, <3>1 DEF Interval
  <2> QED BY <2>2, <2>3
<1>10. mine[t] = Empty /\ mine'[t] = Empty
  BY <1>1 DEF ItemsInv, Hands
<1>11. \A u \in Team : Own(u)' = Own(u) /\ Todo(u)' \cap Interval(mine[u])' = {}
  <2>1. Own(t)' = Own(t) /\ Todo(t)' \cap Interval(mine[t])' = {}
    <3>1. Interval(mine[t]) = {} /\ Interval(mine[t])' = {}
      BY <1>1, <1>10, NoItems DEF Interval
    <3>2. Todo(t) = Interval(Part(t)) /\ Todo(t)' = Interval(Part(t))
      BY <1>5, <1>7, <1>9 DEF Todo
    <3> QED BY <3>1, <3>2 DEF Own
  <2>2. ASSUME NEW u \in Team \ {t}
        PROVE  Own(u)' = Own(u) /\ Todo(u)' \cap Interval(mine[u])' = {}
    <3>1. u \in Thread \ {t}
      BY <1>5
    <3>2. Own(u)' = Own(u) /\ Todo(u)' = Todo(u) /\ Interval(mine[u])' = Interval(mine[u])
      BY <1>1, <1>7, <3>1, OwnSame
    <3> QED BY <1>1, <3>2 DEF ItemsInv, Shared
  <2> QED BY <2>1, <2>2
<1>12. Shared'
  BY <1>1, <1>11, OwnersSame
<1>13. Hands'
  BY <1>1, <1>2, <1>7, <1>10, HandsMove DEF Passed, BarrierPc
<1>14. pc'[0] \notin MainOut \cup {"collect"}
  BY <1>1, <1>2, Threads DEF BarrierInv, Stages, MainOut
<1> QED BY <1>1, <1>12, <1>13, <1>14, LoopItems DEF ItemsInv, Tally

(* A worker behind the barrier goes on, or leaves.                         *)
LEMMA WorkerAt ==
  ASSUME PoolInv, BarrierInv, NEW t \in Thread, pc[t] \in Working,
         NEW s \in Working \cup {"join"}, Goto(t, s), UNCHANGED <<wbegin, wend, done, active>>
  PROVE  /\ pc'[t] = s /\ \A u \in Thread \ {t} : pc'[u] = pc[u]
         /\ pc'[0] \notin MainOut \cup {"collect"} /\ Steady
         /\ work = "loop" /\ t \in Team /\ Passed(t) /\ Team \subseteq Thread
         /\ \A u \in Team : ctx[u].id = u
<1>1. work = "loop" /\ t \in Team /\ Passed(t) /\ \A u \in Team : ctx[u].id = u
  BY Behind
<1>2. s \in JobPc \ {"job"} /\ pc[t] \in JobPc \ {"job"}
  BY DEF JobPc, Working
<1>3. pc[0] \notin MainOut \cup {"collect"}
  BY <1>1 DEF BarrierInv, Stages
<1> QED BY <1>1, <1>2, <1>3, JobSteady, Teams

(* A context with other bounds is still that of the same thread.           *)
LEMMA BoundsOf ==
  ASSUME LoopTypeOK, NEW v \in Thread, NEW b \in Nat, NEW e \in Nat,
         ctx' = [ctx EXCEPT ![v] = Bounds(ctx[v], b, e)]
  PROVE  /\ ctx'[v].id = ctx[v].id /\ ctx'[v].beg = b /\ ctx'[v].end = e
         /\ \A u \in Thread \ {v} : ctx'[u] = ctx[u]
<1>1. ctx'[v] = Bounds(ctx[v], b, e) /\ \A u \in Thread \ {v} : ctx'[u] = ctx[u]
  BY DEF LoopTypeOK
<1> QED BY <1>1 DEF Bounds

(* getWork moves a chunk from the context to the hands.                    *)
LEMMA GetWorkItems ==
  ASSUME PoolInv, BarrierInv, ItemsInv, NEW t \in Thread, GetWork(t) PROVE ItemsInv'
<1>1. LoopTypeOK
  BY DEF BarrierInv
<1>2. /\ pc[t] = "work" /\ pc[t] \in Working
      /\ UNCHANGED <<wbegin, wend, done, work, active, num, range, cnt, loops, topo>>
      /\ \A u \in Thread \ {t} : scan'[u] = scan[u]
  BY <1>1 DEF GetWork, poolVars, hostVars, Working, LoopTypeOK
<1>3. CASE /\ ctx[t].beg < ctx[t].end
           /\ \E to \in Nat :
                /\ ctx[t].beg < to /\ to <= ctx[t].end
                /\ mine' = [mine EXCEPT ![t] = [beg |-> ctx[t].beg, end |-> to]]
                /\ ctx' = [ctx EXCEPT ![t] = Bounds(ctx[t], to, ctx[t].end)]
           /\ Goto(t, "exec")
  <2>1. PICK to \in Nat :
          /\ ctx[t].beg < to /\ to <= ctx[t].end
          /\ mine' = [mine EXCEPT ![t] = [beg |-> ctx[t].beg, end |-> to]]
          /\ ctx' = [ctx EXCEPT ![t] = Bounds(ctx[t], to, ctx[t].end)]
    BY <1>3
  <2>2. /\ pc'[t] = "exec" /\ \A u \in Thread \ {t} : pc'[u] = pc[u]
        /\ pc'[0] \notin MainOut \cup {"collect"}
        /\ work = "loop" /\ t \in Team /\ Team \subseteq Thread
        /\ \A u \in Team : ctx[u].id = u
    BY <1>2, <1>3, WorkerAt DEF Working
  <2>3. ctx[t].beg \in Nat /\ ctx[t].end \in Nat
    BY <1>1, ContextType
  <2>4. /\ mine'[t].beg = ctx[t].beg /\ mine'[t].end = to
        /\ \A u \in Thread \ {t} : mine'[u] = mine[u]
    <3>1. mine'[t] = [beg |-> ctx[t].beg, end |-> to]
          /\ \A u \in Thread \ {t} : mine'[u] = mine[u]
      BY <1>1, <2>1 DEF LoopTypeOK
    <3> QED BY <3>1
  <2>5. /\ ctx'[t].id = t /\ ctx'[t].beg = to /\ ctx'[t].end = ctx[t].end
        /\ \A u \in Thread \ {t} : ctx'[u] = ctx[u]
    <3>1. ctx' = [ctx EXCEPT ![t] = Bounds(ctx[t], to, ctx[t].end)]
      BY <2>1
    <3>2. /\ ctx'[t].id = ctx[t].id /\ ctx'[t].beg = to /\ ctx'[t].end = ctx[t].end
          /\ \A u \in Thread \ {t} : ctx'[u] = ctx[u]
      BY <1>1, <2>3, <3>1, BoundsOf
    <3> QED BY <2>2, <3>2
  <2>6. Own(t)' = Own(t) /\ Todo(t)' \cap Interval(mine[t])' = {}
    <3>1. Todo(t) = ctx[t].beg .. ctx[t].end - 1 /\ Interval(mine[t]) = {}
      <4>1. mine[t] = Empty
        BY <1>2 DEF ItemsInv, Hands
      <4> QED BY <2>2, <4>1, NoItems DEF Todo, Interval
    <3>2. /\ Todo(t)' = to .. ctx[t].end - 1
          /\ Interval(mine[t])' = ctx[t].beg .. to - 1
      BY <2>4, <2>5 DEF Todo, Interval
    <3>3. ASSUME NEW b \in Nat, NEW m \in Nat, NEW e \in Nat, b < m, m <= e
          PROVE  (m .. e - 1) \cup (b .. m - 1) = b .. e - 1
                 /\ (m .. e - 1) \cap (b .. m - 1) = {}
      BY <3>3
    <3> QED BY <2>1, <2>3, <3>1, <3>2, <3>3 DEF Own
  <2>7. ASSUME NEW u \in Team \ {t}
        PROVE  Own(u)' = Own(u) /\ Todo(u)' \cap Interval(mine[u])' = {}
    <3>1. u \in Thread \ {t}
      BY <2>2
    <3>2. Own(u)' = Own(u) /\ Todo(u)' = Todo(u) /\ Interval(mine[u])' = Interval(mine[u])
      BY <1>2, <2>4, <2>5, <3>1, OwnSame
    <3> QED BY <2>2, <3>2 DEF ItemsInv, Shared
  <2>8. Shared'
    BY <1>2, <2>2, <2>6, <2>7, OwnersSame
  <2>9. Hands'
    BY <1>2, <2>1, <2>2, <2>4, <2>5, HandsMove
  <2> QED BY <1>2, <2>2, <2>8, <2>9, LoopItems DEF ItemsInv, Tally
<1>4. CASE ctx[t].beg >= ctx[t].end /\ UNCHANGED <<mine, ctx>> /\ Goto(t, "steal")
  <2>1. Steady
    BY <1>2, <1>4, WorkerAt DEF Working
  <2>2. "steal" \notin MainOut \cup {"collect"}
    BY DEF MainOut
  <2> QED BY <1>2, <1>4, <2>1, <2>2, ItemsStill
<1> QED BY <1>1, <1>3, <1>4, GetWorkMove

(* An item is executed: it has been nobody else's, and is nobody's now.    *)
LEMMA ExecuteItems ==
  ASSUME PoolInv, BarrierInv, ItemsInv, NEW t \in Thread, Execute(t) PROVE ItemsInv'
<1> DEFINE x == mine[t].beg
<1>1. LoopTypeOK
  BY DEF BarrierInv
<1>2. /\ pc[t] = "exec" /\ pc[t] \in Working
      /\ UNCHANGED <<wbegin, wend, done, work, active, num, range, ctx, scan, loops, topo>>
      /\ cnt' = [cnt EXCEPT ![x] = @ + 1]
  BY DEF Execute, poolVars, hostVars, Working
<1>3. PICK s \in {"work", "exec"}, r \in [beg : Nat, end : Nat] :
        /\ Goto(t, s) /\ mine' = [mine EXCEPT ![t] = r]
        /\ s = "work" => mine[t].beg + 1 = mine[t].end /\ r = Empty
        /\ s = "exec" => /\ mine[t].beg + 1 # mine[t].end
                         /\ r = [beg |-> mine[t].beg + 1, end |-> mine[t].end]
  <2>1. mine[t].beg \in Nat /\ mine[t].end \in Nat
    BY <1>1, ContextType
  <2>2. Empty \in [beg : Nat, end : Nat]
        /\ [beg |-> mine[t].beg + 1, end |-> mine[t].end] \in [beg : Nat, end : Nat]
    BY <2>1 DEF Empty
  <2> QED BY <1>1, <2>2, ExecuteMove
<1>4. /\ pc'[t] = s /\ \A u \in Thread \ {t} : pc'[u] = pc[u]
      /\ pc'[0] \notin MainOut \cup {"collect"}
      /\ work = "loop" /\ t \in Team /\ Team \subseteq Thread
      /\ \A u \in Team : ctx[u].id = u
  BY <1>2, <1>3, WorkerAt DEF Working
<1>5. x \in Nat /\ mine[t].end \in Nat /\ x < mine[t].end
  BY <1>1, <1>2, ContextType DEF ItemsInv, Hands
<1>6. mine'[t] = r /\ \A u \in Thread \ {t} : mine'[u] = mine[u]
  BY <1>1, <1>3 DEF LoopTypeOK
<1>7. x \in Interval(mine[t]) /\ Interval(mine[t])' = Interval(mine[t]) \ {x}
  <2>1. x \in Interval(mine[t])
    BY <1>5 DEF Interval
  <2>2. CASE s = "work"
    <3>1. Interval(mine[t])' = {}
      BY <1>3, <1>6, <2>2, NoItems DEF Interval
    <3>2. Interval(mine[t]) = {x}
      BY <1>3, <1>5, <2>2 DEF Interval
    <3> QED BY <2>1, <3>1, <3>2
  <2>3. CASE s = "exec"
    <3>1. Interval(mine[t])' = x + 1 .. mine[t].end - 1
      BY <1>3, <1>6, <2>3 DEF Interval
    <3>2. ASSUME NEW b \in Nat, NEW e \in Nat, b < e
          PROVE  b + 1 .. e - 1 = (b .. e - 1) \ {b}
      BY <3>2
    <3>3. x + 1 .. mine[t].end - 1 = (x .. mine[t].end - 1) \ {x}
      <4> HIDE DEF x
      <4> QED BY <1>5, <3>2
    <3>4. Interval(mine[t]) = x .. mine[t].end - 1
      BY DEF Interval
    <3> QED BY <2>1, <3>1, <3>3, <3>4
  <2> QED BY <2>1, <2>2, <2>3
<1>8. Todo(t)' = Todo(t) /\ x \notin Todo(t)
  <2>1. Todo(t)' = Todo(t)
    BY <1>2, <1>4 DEF Todo, Interval
  <2>2. Todo(t) \cap Interval(mine[t]) = {}
    BY <1>4 DEF ItemsInv, Shared
  <2> QED BY <1>7, <2>1, <2>2
<1>9. x \in Own(t) /\ Own(t)' = Own(t) \ {x} /\ Todo(t)' \cap Interval(mine[t])' = {}
  <2>1. Todo(t) \cap Interval(mine[t]) = {}
    BY <1>4 DEF ItemsInv, Shared
  <2> QED BY <1>7, <1>8, <2>1 DEF Own
<1>10. ASSUME NEW u \in Team \ {t}
       PROVE  /\ Own(u)' = Own(u) /\ Todo(u)' \cap Interval(mine[u])' = {}
              /\ x \notin Own(u)
  <2>1. u \in Thread \ {t}
    BY <1>4
  <2>2. Own(u)' = Own(u) /\ Todo(u)' = Todo(u) /\ Interval(mine[u])' = Interval(mine[u])
    BY <1>2, <1>6, <2>1, OwnSame
  <2>3. Own(t) \cap Own(u) = {} /\ Todo(u) \cap Interval(mine[u]) = {}
    BY <1>4 DEF ItemsInv, Shared
  <2> QED BY <1>9, <2>2, <2>3
<1>11. x \in 0 .. num - 1 /\ cnt[x] = 0
  <2>1. Own(t) \subseteq 0 .. num - 1
    BY <1>4 DEF ItemsInv, Shared
  <2>2. x \in 0 .. num - 1
    BY <1>9, <2>1
  <2> QED BY <1>4, <1>9, <2>2 DEF ItemsInv, Shared
<1>12. cnt'[x] = 1 /\ \A y \in 0 .. num - 1 : y # x => cnt'[y] = cnt[y]
  <2>1. cnt \in [0 .. MaxItems - 1 -> Nat] /\ num \in Nat /\ MaxItems \in Nat /\ num <= MaxItems
    BY <1>1, Numbers DEF LoopTypeOK
  <2>2. \A y \in 0 .. num - 1 : y \in 0 .. MaxItems - 1
    BY <2>1
  <2> QED BY <1>2, <1>11, <2>1, <2>2
<1>13. DOMAIN cnt' = DOMAIN cnt /\ \A y \in DOMAIN cnt' : cnt'[y] <= 1
  <2>1. DOMAIN cnt' = DOMAIN cnt
    BY <1>2
  <2>2. \A y \in DOMAIN cnt : y # x => cnt'[y] = cnt[y]
    BY <1>2
  <2> QED BY <1>12, <2>1, <2>2 DEF ItemsInv, Tally
<1> HIDE DEF x
<1>14. Shared'
  <2>1. Team' = Team
    BY <1>2 DEF Team
  <2>2. \A u \in Team : /\ Own(u)' \subseteq Own(u) /\ x \notin Own(u)'
                        /\ Own(u) \subseteq Own(u)' \cup {x}
                        /\ Todo(u)' \cap Interval(mine[u])' = {}
    BY <1>9, <1>10
  <2>3. \A u \in Team : Own(u)' \subseteq 0 .. num - 1
    BY <1>4, <2>2 DEF ItemsInv, Shared
  <2>4. \A u, v \in Team : u # v => Own(u)' \cap Own(v)' = {}
    BY <1>4, <2>2 DEF ItemsInv, Shared
  <2>5. ASSUME NEW y \in 0 .. num - 1 PROVE cnt'[y] = 0 <=> \E u \in Team : y \in Own(u)'
    <3>1. CASE y = x
      BY <1>12, <2>2, <3>1
    <3>2. CASE y # x
      <4>1. cnt'[y] = cnt[y]
        BY <1>12, <3>2
      <4>2. \A u \in Team : y \in Own(u)' <=> y \in Own(u)
        BY <2>2, <3>2
      <4> QED BY <1>4, <4>1, <4>2 DEF ItemsInv, Shared
    <3> QED BY <3>1, <3>2
  <2> QED BY <1>2, <2>1, <2>2, <2>3, <2>4, <2>5 DEF Shared
<1>15. Hands'
  <2>1. s = "exec" => mine'[t].beg < mine'[t].end
    <3>1. CASE s = "exec"
      <4>1. mine'[t].beg = mine[t].beg + 1 /\ mine'[t].end = mine[t].end
        BY <1>3, <1>6, <3>1
      <4> QED BY <1>3, <1>5, <3>1, <4>1 DEF x
    <3> QED BY <3>1
  <2>2. s = "work" => mine'[t] = Empty
    BY <1>3, <1>6
  <2>3. /\ s \notin {"exec", "assign"} => s = "work"
        /\ s # "take" /\ s \in {"work", "exec"}
    OBVIOUS
  <2> QED BY <1>2, <1>4, <1>6, <2>1, <2>2, <2>3, HandsMove
<1> QED BY <1>2, <1>4, <1>13, <1>14, <1>15, LoopItems

(* hasWorkWeak moves nothing.                                              *)
LEMMA LookItems ==
  ASSUME PoolInv, BarrierInv, ItemsInv, NEW t \in Thread, Look(t) PROVE ItemsInv'
<1>1. LoopTypeOK
  BY DEF BarrierInv
<1>2. /\ pc[t] = "steal" /\ pc[t] \in Working
      /\ UNCHANGED <<wbegin, wend, done, work, active, num, range, ctx, mine, cnt, loops, topo>>
  BY DEF Look, poolVars, hostVars, Working
<1>3. /\ \A u \in Thread \ {t} : scan'[u] = scan[u]
      /\ \/ Goto(t, "work") \/ Goto(t, "join") \/ Goto(t, "steal")
         \/ /\ Goto(t, "take") /\ scan'[t].phase = scan[t].phase
            /\ scan'[t].n \in DOMAIN Victims(t) /\ Victims(t)[scan'[t].n] \in Team
  BY <1>1, LookMove
<1>4. work = "loop" /\ t \in Team /\ Passed(t) /\ Team \subseteq Thread
  BY <1>2, Behind, Teams
<1>5. ctx[t].beg >= ctx[t].end /\ mine[t] = Empty
  BY <1>2, <1>4 DEF ItemsInv, Hands
<1>6. CASE Goto(t, "work") \/ Goto(t, "join") \/ Goto(t, "steal")
  <2>1. PICK s \in {"work", "join", "steal"} : Goto(t, s)
    BY <1>6
  <2>2. Steady
    BY <1>2, <2>1, WorkerAt DEF Working
  <2>3. s \notin MainOut \cup {"collect", "next"}
    BY DEF MainOut
  <2> QED BY <1>2, <1>3, <1>5, <2>1, <2>2, <2>3, ItemsStill
<1>7. CASE /\ Goto(t, "take") /\ scan'[t].phase = scan[t].phase
           /\ scan'[t].n \in DOMAIN Victims(t) /\ Victims(t)[scan'[t].n] \in Team
  <2>1. /\ pc'[t] = "take" /\ \A u \in Thread \ {t} : pc'[u] = pc[u]
        /\ pc'[0] \notin MainOut \cup {"collect"}
    BY <1>2, <1>7, WorkerAt DEF Working
  <2>2. Victims(t)' = Victims(t)
    BY <1>2, <1>7, SameVictims
  <2>3. Hands'
    BY <1>2, <1>3, <1>4, <1>5, <1>7, <2>1, <2>2, HandsMove
  <2>4. Shared'
    <3>1. \A u \in Team : Own(u)' = Own(u) /\ Todo(u)' \cap Interval(mine[u])' = {}
      BY <1>2, <1>4, OwnSame DEF ItemsInv, Shared
    <3> QED BY <1>2, <1>4, <3>1, OwnersSame
  <2> QED BY <1>2, <1>4, <2>1, <2>3, <2>4, LoopItems DEF ItemsInv, Tally
<1> QED BY <1>3, <1>6, <1>7

(* transferWork moves items from the victim's context into the hands of    *)
(* the thief, or finds none.                                               *)
LEMMA StealItems ==
  ASSUME PoolInv, BarrierInv, ItemsInv, NEW t \in Thread, StealWork(t) PROVE ItemsInv'
<1>1. LoopTypeOK /\ Hands
  BY DEF BarrierInv, ItemsInv
<1>2. /\ pc[t] = "take" /\ pc[t] \in Working
      /\ UNCHANGED <<wbegin, wend, done, work, active, num, range, cnt, loops, topo>>
      /\ \A u \in Thread \ {t} : scan'[u] = scan[u]
  BY <1>1 DEF StealWork, poolVars, hostVars, Working, LoopTypeOK
<1>3. work = "loop" /\ t \in Team /\ Passed(t) /\ Team \subseteq Thread
  BY <1>2, Behind, Teams
<1>4. ctx[t].beg >= ctx[t].end /\ mine[t] = Empty
  BY <1>2, <1>3 DEF ItemsInv, Hands
<1>5. CASE \E v \in Team, m \in Nat :
             /\ ctx[v].beg < m /\ m <= ctx[v].end
             /\ mine' = [mine EXCEPT ![t] = [beg |-> ctx[v].beg, end |-> m]]
             /\ ctx' = [ctx EXCEPT ![v] = Bounds(ctx[v], m, ctx[v].end)]
             /\ Goto(t, "assign")
  <2>1. PICK v \in Team, m \in Nat :
             /\ ctx[v].beg < m /\ m <= ctx[v].end
             /\ mine' = [mine EXCEPT ![t] = [beg |-> ctx[v].beg, end |-> m]]
             /\ ctx' = [ctx EXCEPT ![v] = Bounds(ctx[v], m, ctx[v].end)]
             /\ Goto(t, "assign")
    BY <1>5
  <2>2. /\ pc'[t] = "assign" /\ \A u \in Thread \ {t} : pc'[u] = pc[u]
        /\ pc'[0] \notin MainOut \cup {"collect"}
        /\ \A u \in Team : ctx[u].id = u
    BY <1>2, <2>1, WorkerAt DEF Working
  <2>3. v \in Thread /\ ctx[v].beg \in Nat /\ ctx[v].end \in Nat
    BY <1>1, <1>3, ContextType
  <2>4. v # t
    BY <1>4, <2>1, <2>3
  <2>5. /\ mine'[t].beg = ctx[v].beg /\ mine'[t].end = m
        /\ \A u \in Thread \ {t} : mine'[u] = mine[u]
    <3>1. /\ mine'[t] = [beg |-> ctx[v].beg, end |-> m]
          /\ \A u \in Thread \ {t} : mine'[u] = mine[u]
      BY <1>1, <2>1 DEF LoopTypeOK
    <3> QED BY <3>1
  <2>6. /\ ctx'[v].id = ctx[v].id /\ ctx'[v].beg = m /\ ctx'[v].end = ctx[v].end
        /\ \A u \in Thread \ {v} : ctx'[u] = ctx[u]
    <3>1. ctx' = [ctx EXCEPT ![v] = Bounds(ctx[v], m, ctx[v].end)]
      BY <2>1
    <3> QED BY <1>1, <2>3, <3>1, BoundsOf
  <2> DEFINE S == ctx[v].beg .. m - 1
  <2>7. S \subseteq Todo(v) /\ Todo(v)' = Todo(v) \ S
    <3>1. Todo(v) = ctx[v].beg .. ctx[v].end - 1
      BY <2>2 DEF Todo, Interval
    <3>2. Todo(v)' = m .. ctx[v].end - 1
      BY <2>2, <2>6 DEF Todo, Interval
    <3>3. ASSUME NEW b \in Nat, NEW k \in Nat, NEW e \in Nat, b < k, k <= e
          PROVE  b .. k - 1 \subseteq b .. e - 1 /\ k .. e - 1 = (b .. e - 1) \ (b .. k - 1)
      BY <3>3
    <3> QED BY <2>1, <2>3, <3>1, <3>2, <3>3
  <2>8. Todo(t) = {} /\ Todo(t)' = {} /\ Own(t) = {} /\ Interval(mine[t])' = S
    <3>1. ctx[t].beg \in Nat /\ ctx[t].end \in Nat /\ t \in Thread \ {v}
      BY <1>1, <2>4, ContextType
    <3>2. Interval(ctx[t]) = {}
      BY <1>4, <3>1, Intervals
    <3>3. Todo(t) = {} /\ Todo(t)' = {}
      <4>1. ctx'[t] = ctx[t]
        BY <2>6, <3>1
      <4> QED BY <1>3, <2>2, <3>2, <4>1 DEF Todo, Interval
    <3>4. Interval(mine[t]) = {}
      BY <1>4, NoItems
    <3> QED BY <2>5, <3>3, <3>4 DEF Own, Interval
  <2>9. Interval(mine[v])' = Interval(mine[v])
    BY <2>3, <2>4, <2>5 DEF Interval
  <2> HIDE DEF S
  <2>10. ASSUME NEW u \in Team \ {t, v}
         PROVE  Own(u)' = Own(u) /\ Todo(u)' = Todo(u) /\ Interval(mine[u])' = Interval(mine[u])
    <3>1. u \in Thread \ {t} /\ u \in Thread \ {v}
      BY <1>3
    <3> QED BY <1>2, <2>5, <2>6, <3>1, OwnSame
  <2>11. /\ \A u \in Team : Own(u) \subseteq 0 .. num - 1 /\ Todo(u) \cap Interval(mine[u]) = {}
         /\ \A u, w \in Team : u # w => Own(u) \cap Own(w) = {}
         /\ \A x \in 0 .. num - 1 : cnt[x] = 0 <=> \E u \in Team : x \in Own(u)
    BY <1>3 DEF ItemsInv, Shared
  <2>12. Own(v)' = Own(v) \ S /\ S \subseteq Own(v) /\ Own(t)' = S
    <3>1. Todo(v) \cap Interval(mine[v]) = {}
      BY <2>11
    <3> QED BY <2>7, <2>8, <2>9, <3>1 DEF Own
  <2>13. Shared'
    <3>1. Team' = Team
      BY <1>2 DEF Team
    <3>2. \A u \in Team : Todo(u)' \cap Interval(mine[u])' = {}
      <4>1. Todo(v)' \cap Interval(mine[v])' = {}
        BY <2>7, <2>9, <2>11
      <4> QED BY <2>8, <2>10, <2>11, <4>1
    <3>3. \A u \in Team : Own(u)' \subseteq 0 .. num - 1
      BY <2>10, <2>11, <2>12
    <3>4. ASSUME NEW u \in Team, NEW w \in Team, u # w PROVE Own(u)' \cap Own(w)' = {}
      <4>1. ASSUME NEW y \in Team, y # t PROVE Own(y)' \cap S = {} /\ Own(y)' \subseteq Own(y)
        <5>1. CASE y = v
          BY <2>12, <5>1
        <5>2. CASE y # v
          BY <2>10, <2>11, <2>12, <4>1, <5>2
        <5> QED BY <5>1, <5>2
      <4>2. CASE u = t
        BY <2>12, <3>4, <4>1, <4>2
      <4>3. CASE w = t
        BY <2>12, <3>4, <4>1, <4>3
      <4>4. CASE u # t /\ w # t
        BY <2>11, <3>4, <4>1, <4>4
      <4> QED BY <4>2, <4>3, <4>4
    <3>5. ASSUME NEW x \in 0 .. num - 1
          PROVE  (\E u \in Team : x \in Own(u)') <=> \E u \in Team : x \in Own(u)
      <4>1. ASSUME NEW u \in Team, x \in Own(u)' PROVE \E w \in Team : x \in Own(w)
        <5>1. CASE u \in {t, v}
          BY <2>12, <4>1, <5>1
        <5>2. CASE u \notin {t, v}
          BY <2>10, <4>1, <5>2
        <5> QED BY <5>1, <5>2
      <4>2. ASSUME NEW u \in Team, x \in Own(u) PROVE \E w \in Team : x \in Own(w)'
        <5>1. CASE u = v
          BY <1>3, <2>12, <4>2, <5>1
        <5>2. CASE u # v
          BY <2>8, <2>10, <4>2, <5>2
        <5> QED BY <5>1, <5>2
      <4> QED BY <4>1, <4>2
    <3> QED BY <1>2, <2>11, <3>1, <3>2, <3>3, <3>4, <3>5 DEF Shared
  <2>14. Hands'
    <3>1. ASSUME NEW u \in Thread \ {t}
          PROVE  /\ ctx'[u].id = ctx[u].id /\ ctx'[u].end = ctx[u].end
                 /\ ctx[u].beg >= ctx[u].end => ctx'[u].beg >= ctx[u].end
      <4>1. CASE u = v
        BY <2>1, <2>3, <2>6, <4>1
      <4>2. CASE u # v
        BY <2>6, <4>2
      <4> QED BY <4>1, <4>2
    <3>2. ctx'[t].beg >= ctx'[t].end
      BY <1>4, <2>4, <2>6
    <3> QED BY <1>2, <1>3, <2>2, <2>5, <3>1, <3>2, HandsMove
  <2> QED BY <1>2, <1>3, <2>2, <2>13, <2>14, LoopItems DEF ItemsInv, Tally
<1>6. CASE Goto(t, "steal") /\ UNCHANGED <<mine, ctx>>
  <2>1. Steady
    BY <1>2, <1>6, WorkerAt DEF Working
  <2>2. "steal" \notin MainOut \cup {"collect"}
    BY DEF MainOut
  <2> QED BY <1>2, <1>4, <1>6, <2>1, <2>2, ItemsStill
<1> QED BY <1>1, <1>5, <1>6, StealMove

(* assignWork: what has been stolen is the thread's own.                   *)
LEMMA AssignItems ==
  ASSUME PoolInv, BarrierInv, ItemsInv, NEW t \in Thread, AssignWork(t) PROVE ItemsInv'
<1>1. LoopTypeOK
  BY DEF BarrierInv
<1>2. /\ pc[t] = "assign" /\ pc[t] \in Working
      /\ UNCHANGED <<wbegin, wend, done, work, active, num, range, cnt, loops, topo>>
      /\ \A u \in Thread \ {t} : scan'[u] = scan[u]
  BY <1>1 DEF AssignWork, poolVars, hostVars, Working, LoopTypeOK
<1>3. /\ ctx' = [ctx EXCEPT ![t] = Bounds(ctx[t], mine[t].beg, mine[t].end)]
      /\ mine' = [mine EXCEPT ![t] = Empty] /\ Goto(t, "work")
  BY <1>1, AssignMove
<1>4. /\ pc'[t] = "work" /\ \A u \in Thread \ {t} : pc'[u] = pc[u]
      /\ pc'[0] \notin MainOut \cup {"collect"} /\ Passed(t)
      /\ work = "loop" /\ t \in Team /\ Team \subseteq Thread
      /\ \A u \in Team : ctx[u].id = u
  BY <1>2, <1>3, WorkerAt DEF Working
<1>5. /\ ctx[t].beg \in Nat /\ ctx[t].end \in Nat
      /\ mine[t].beg \in Nat /\ mine[t].end \in Nat
  BY <1>1, ContextType
<1>6. /\ ctx'[t].id = ctx[t].id /\ ctx'[t].beg = mine[t].beg /\ ctx'[t].end = mine[t].end
      /\ \A u \in Thread \ {t} : ctx'[u] = ctx[u]
  BY <1>1, <1>3, <1>5, BoundsOf
<1>7. mine'[t] = Empty /\ \A u \in Thread \ {t} : mine'[u] = mine[u]
  BY <1>1, <1>3 DEF LoopTypeOK
<1>8. Own(t)' = Own(t) /\ Todo(t)' \cap Interval(mine[t])' = {}
  <2>1. ctx[t].beg >= ctx[t].end
    BY <1>2, <1>4 DEF ItemsInv, Hands
  <2>2. Interval(ctx[t]) = {}
    BY <1>5, <2>1, Intervals
  <2>3. Todo(t) = {}
    BY <1>4, <2>2 DEF Todo
  <2>4. Todo(t)' = Interval(mine[t])
    BY <1>4, <1>6 DEF Todo, Interval
  <2>5. Interval(mine[t])' = {}
    BY <1>7, NoItems DEF Interval
  <2> QED BY <2>3, <2>4, <2>5 DEF Own
<1>9. ASSUME NEW u \in Team \ {t}
      PROVE  Own(u)' = Own(u) /\ Todo(u)' \cap Interval(mine[u])' = {}
  <2>1. u \in Thread \ {t}
    BY <1>4
  <2>2. Own(u)' = Own(u) /\ Todo(u)' = Todo(u) /\ Interval(mine[u])' = Interval(mine[u])
    BY <1>2, <1>6, <1>7, <2>1, OwnSame
  <2> QED BY <1>4, <2>2 DEF ItemsInv, Shared
<1>10. Shared'
  BY <1>2, <1>4, <1>8, <1>9, OwnersSame
<1>11. Hands'
  BY <1>2, <1>4, <1>6, <1>7, HandsMove
<1> QED BY <1>2, <1>4, <1>10, <1>11, LoopItems DEF ItemsInv, Tally

(* A job is over.                                                          *)
LEMMA JoinItems ==
  ASSUME PoolInv, BarrierInv, BarrierInv', ItemsInv, NEW t \in Thread, Decascade(t)
  PROVE  ItemsInv'
<1> DEFINE s == CASE t # 0 -> "sleep"
                  [] t = 0 /\ work = "range" -> "next"
                  [] OTHER -> "over"
<1>1. /\ pc[t] = "join" /\ Goto(t, s) /\ work' = IF t = 0 THEN "none" ELSE work
      /\ UNCHANGED <<active, ctx, num, loops, range, mine, scan, cnt, topo>>
  BY DEF Decascade, loopVars, hostVars
<1>2. /\ t # 0 => s = "sleep"
      /\ t = 0 /\ work = "range" => s = "next"
      /\ t = 0 /\ work # "range" => s = "over"
  BY Zenon
<1> HIDE DEF s
<1>3. pc'[t] = s /\ \A u \in Thread \ {t} : pc'[u] = pc[u]
  BY <1>1 DEF Goto, PoolInv, PoolTypeOK
<1>4. Team' = Team /\ Team \subseteq Thread
  BY <1>1, Teams DEF Team
<1>5. CASE t # 0
  <2>1. Steady /\ work' = work
    BY <1>1, <1>5, DecascadeMove
  <2>2. work = "loop" /\ Passed(t)' => ctx[t].beg >= ctx[t].end
    <3> SUFFICES ASSUME work = "loop", Passed(t)' PROVE ctx[t].beg >= ctx[t].end
      OBVIOUS
    <3>1. Busy(t)
      BY <1>1, AwakeBusy DEF JobPc
    <3>2. t \in Team /\ ctx[t].id = t
      BY <1>1, <3>1, InTeam
    <3>3. Passed(t)
      BY <1>1, <3>2 DEF Passed, BarrierPc
    <3> QED BY <1>1, <3>2, <3>3 DEF ItemsInv, Hands
  <2>3. Goto(t, "sleep") /\ "sleep" \notin MainOut \cup {"collect"}
    BY <1>1, <1>2, <1>5 DEF MainOut
  <2> QED BY <1>1, <1>5, <2>1, <2>2, <2>3, ItemsStill
<1>6. CASE t = 0
  <2>1. work' = "none" /\ pc'[0] = s
    BY <1>1, <1>3, <1>6
  <2>2. CASE work \notin {"range", "loop"}
    <3>1. s = "over"
      BY <1>2, <1>6, <2>2
    <3> QED BY <1>1, <1>6, <2>1, <2>2, <3>1, ItemsOutside
  <2>3. ChildrenDone(0) /\ pc[0] = "join"
    BY <1>6 DEF Decascade
  <2>4. \A u \in Thread : ~Fresh(u)
    BY <2>3, JoinAlone
  <2>5. Hands'
    <3>1. \A u \in Thread : pc'[u] \notin Working
      BY <2>1 DEF BarrierInv, Stages
    <3>2. \A u \in Thread : pc[u] \notin Working
      BY <1>1, <1>3, <1>6, <3>1 DEF Working
    <3> QED BY <1>1, <2>1, <3>1, <3>2 DEF ItemsInv, Hands, Working
  <2>6. Shared'
    BY <2>1 DEF Shared
  <2>7. CASE work = "range"
    <3>1. s = "next"
      BY <1>2, <1>6, <2>7
    <3>2. Parts'
      <4>1. \A u \in Team : range[u] = Part(u)
        BY <1>4, <2>4, <2>7 DEF ItemsInv, Parts
      <4>2. \A u : Part(u)' = Part(u)
        BY <1>1 DEF Part
      <4> QED BY <1>1, <1>4, <2>1, <4>1, <4>2 DEF Parts
    <3>3. Tally'
      BY <1>1, <2>1, <2>7, <3>1 DEF ItemsInv, Tally
    <3> QED BY <2>5, <2>6, <3>2, <3>3 DEF ItemsInv
  <2>8. CASE work = "loop"
    <3>1. s = "over"
      BY <1>2, <1>6, <2>8
    <3>2. Parts'
      BY <2>1, <3>1 DEF Parts
    <3>3. \A u \in Team : Own(u) = {}
      <4> SUFFICES ASSUME NEW u \in Team PROVE Own(u) = {}
        OBVIOUS
      <4>1. u \in Thread /\ ctx[u].id = u
        BY <1>4, <2>4, <2>8 DEF BarrierInv, Stages
      <4>2. pc[u] \notin BarrierPc \cup Working
        BY <1>1, <1>3, <1>6, <2>1, <4>1 DEF BarrierInv, Stages, BarrierPc, Working
      <4>3. Passed(u)
        BY <4>1, <4>2 DEF Passed
      <4>4. ctx[u].beg >= ctx[u].end /\ mine[u] = Empty
        BY <2>8, <4>1, <4>2, <4>3 DEF ItemsInv, Hands, Working
      <4>5. ctx[u].beg \in Nat /\ ctx[u].end \in Nat
        BY <4>1, ContextType DEF BarrierInv
      <4>6. Interval(ctx[u]) = {} /\ Interval(mine[u]) = {}
        BY <4>4, <4>5, Intervals, NoItems
      <4> QED BY <4>1, <4>6 DEF Own, Todo
    <3>4. \A x \in 0 .. num - 1 : cnt[x] = 1
      <4> SUFFICES ASSUME NEW x \in 0 .. num - 1 PROVE cnt[x] = 1
        OBVIOUS
      <4>1. cnt[x] # 0
        BY <2>8, <3>3 DEF ItemsInv, Shared
      <4>2. x \in DOMAIN cnt /\ cnt[x] \in Nat
        <5>1. /\ cnt \in [0 .. MaxItems - 1 -> Nat] /\ num \in Nat /\ MaxItems \in Nat
              /\ num <= MaxItems
          BY Numbers DEF BarrierInv, LoopTypeOK
        <5>2. x \in 0 .. MaxItems - 1
          BY <5>1
        <5> QED BY <5>1, <5>2
      <4> QED BY <4>1, <4>2 DEF ItemsInv, Tally
    <3>5. Tally'
      BY <1>1, <2>1, <3>1, <3>4 DEF ItemsInv, Tally
    <3> QED BY <2>5, <2>6, <3>2, <3>5 DEF ItemsInv
  <2> QED BY <2>2, <2>7, <2>8
<1> QED BY <1>5, <1>6

(* Waking, being woken and the barrier move no items.                      *)
LEMMA WakingItems ==
  ASSUME PoolInv, BarrierInv, ItemsInv, NEW t \in Thread, Wait(t) \/ Cascade(t)
  PROVE  ItemsInv'
<1>1. /\ pc[t] \in {"sleep", "left", "right"}
      /\ UNCHANGED <<work, num, active, range, ctx, mine, scan, cnt, loops, topo>>
  BY DEF Wait, Cascade, poolVars, loopVars, hostVars
<1>2. PICK s \in {"left", "right", "job"} : Goto(t, s)
  BY DEF Wait, Cascade
<1>3. Steady
  BY WaitMove, CascadeMove
<1>4. s \notin MainOut \cup {"collect", "exec", "take", "assign"}
  BY DEF MainOut
<1>5. work = "loop" => ~Passed(t)'
  <2>1. CASE work = "loop"
    <3>1. Busy(t)
      BY <1>1, AwakeBusy DEF Wait, Cascade, Busy, PoolInv, Phases
    <3>2. ctx[t].id # t
      BY <1>1, <2>1, <3>1, InTeam
    <3> QED BY <1>1, <3>2 DEF Passed
  <2> QED BY <2>1
<1> QED BY <1>1, <1>2, <1>3, <1>4, <1>5, ItemsStill

(* The steps of the barrier leave the items alone.                         *)
LEMMA BarrierItems ==
  ASSUME PoolInv, BarrierInv, ItemsInv, NEW t \in Thread,
         BarrierArrive(t) \/ BarrierSense(t) \/ BarrierSignal(t)
  PROVE  ItemsInv'
<1>1. /\ pc[t] \in BarrierPc
      /\ UNCHANGED <<wbegin, wend, done>>
      /\ UNCHANGED <<work, num, active, range, ctx, mine, scan, cnt, loops, topo>>
  BY DEF BarrierArrive, BarrierSense, BarrierSignal, BarrierPc, poolVars, loopVars, hostVars
<1>2. PICK s \in {"sense", "signal", "signal2", "work"} : Goto(t, s)
  <2>1. CASE BarrierArrive(t)
    BY <2>1 DEF BarrierArrive
  <2>2. CASE BarrierSense(t) \/ BarrierSignal(t)
    BY <2>2 DEF BarrierSense, BarrierSignal
  <2> QED BY <2>1, <2>2
<1>3. Steady /\ pc'[t] = s
  <2>1. s \in JobPc \ {"job"} /\ pc[t] \in JobPc \ {"job"}
    BY <1>1 DEF JobPc, Working, BarrierPc
  <2> QED BY <1>1, <1>2, <2>1, JobSteady
<1>4. s \notin MainOut \cup {"collect", "exec", "take", "assign"}
  BY DEF MainOut
<1>5. pc[t] \notin MainOut \cup {"exec", "take", "assign"}
  BY <1>1 DEF MainOut, BarrierPc
<1>6. s # "work" => ~Passed(t)'
  BY <1>3 DEF Passed, BarrierPc
<1> QED BY <1>1, <1>2, <1>3, <1>4, <1>5, <1>6, ItemsStill DEF MainOut

(* Every step keeps the items invariant.                                   *)
LEMMA ItemsInductive ==
  ASSUME PoolInv, BarrierInv, BarrierInv', ItemsInv, [Next]_vars PROVE ItemsInv'
<1>1. CASE UNCHANGED vars
  <2>1. UNCHANGED <<pc, wbegin, wend, done, work, active, num, range, ctx, mine, scan, cnt,
                    loops, topo>>
    BY <1>1 DEF vars, poolVars, loopVars, hostVars
  <2>2. \A u : Fresh(u)' = Fresh(u)
    BY <2>1 DEF Fresh, Pend, Busy, Midpoint
  <2>3. Team' = Team /\ \A u : Part(u)' = Part(u)
    BY <2>1 DEF Team, Part
  <2>4. Parts'
    BY <2>1, <2>2, <2>3 DEF ItemsInv, Parts
  <2>5. Hands'
    BY <2>1, <2>3, SameVictims DEF ItemsInv, Hands, Passed
  <2>6. Shared'
    <3>1. \A u \in Thread : /\ Own(u)' = Own(u) /\ Todo(u)' = Todo(u)
                            /\ Interval(mine[u])' = Interval(mine[u])
      BY <2>1, OwnSame
    <3>2. Team \subseteq Thread
      BY Teams
    <3> QED BY <2>1, <2>3, <3>1, <3>2 DEF ItemsInv, Shared
  <2>7. Tally'
    BY <2>1 DEF ItemsInv, Tally
  <2> QED BY <2>4, <2>5, <2>6, <2>7 DEF ItemsInv
<1>2. CASE PoolReady \/ EndLoop \/ PoolPause \/ PoolContinue
           \/ ConstructStorage \/ DestructStorage
  <2>1. /\ pc[0] \in (MainOut \cup {"collect"}) \ {"next"}
        /\ UNCHANGED <<num, range, mine, cnt, loops>>
    BY <1>2 DEF PoolReady, EndLoop, PoolPause, PoolContinue, ConstructStorage,
       DestructStorage, MainOut, loopVars
  <2>2. work' \in {work, "shutdown"}
    BY <1>2 DEF PoolReady, EndLoop, PoolPause, PoolContinue, ConstructStorage,
       DestructStorage, Run, poolVars
  <2>3. pc'[0] # "next"
    <3>1. CASE PoolContinue
      BY <3>1, Threads DEF PoolContinue
    <3>2. CASE ~PoolContinue
      <4>1. pc' = pc \/ \E s \in {"left", "idle", "over", "exit"} : Goto(0, s)
        <5>1. CASE PoolPause
          BY <5>1 DEF PoolPause, Run
        <5>2. CASE PoolReady \/ EndLoop
          BY <5>2 DEF PoolReady, EndLoop
        <5>3. CASE ConstructStorage \/ DestructStorage
          BY <5>3 DEF ConstructStorage, DestructStorage
        <5> QED BY <1>2, <3>2, <5>1, <5>2, <5>3
      <4> QED BY <2>1, <4>1, Threads DEF Goto, PoolInv, PoolTypeOK
    <3> QED BY <3>1, <3>2
  <2>4. work \notin {"range", "loop"}
    BY <2>1 DEF ItemsInv, Parts, BarrierInv, Stages
  <2> QED BY <2>1, <2>2, <2>3, <2>4, ItemsOutside
<1>3. CASE OnEach \/ DoAll
  BY <1>3, OnEachItems, DoAllItems
<1>4. ASSUME NEW t \in Thread, PoolStep(t) PROVE ItemsInv'
  <2>1. CASE Wait(t) \/ Cascade(t)
    BY <2>1, WakingItems
  <2>2. CASE Decascade(t)
    BY <2>2, JoinItems
  <2>3. CASE SetRange(t)
    BY <2>3, SetRangeItems
  <2>4. CASE InitThread(t) \/ Shutdown(t)
    <3>1. UNCHANGED <<work, num, range, mine, cnt, loops>>
      BY <2>4 DEF InitThread, Shutdown, poolVars, loopVars
    <3>2. work \notin {"range", "loop"} /\ pc[0] # "next" /\ pc'[0] # "next"
      <4>1. CASE InitThread(t)
        <5>1. pc[0] = "await" /\ t # 0
          BY <4>1 DEF InitThread, PoolInv, Phases
        <5>2. pc'[0] = pc[0]
          BY <4>1, <5>1, Threads DEF InitThread, Goto, PoolInv, PoolTypeOK
        <5> QED BY <5>1, <5>2 DEF ItemsInv, Parts, BarrierInv, Stages, MainOut
      <4>2. CASE Shutdown(t)
        <5>1. pc[t] = "job" /\ work = "shutdown"
              /\ Goto(t, IF t = 0 THEN "collect" ELSE "gone")
          BY <4>2 DEF Shutdown
        <5>2. pc[0] # "next"
          <6>1. Busy(t)
            BY <5>1, AwakeBusy DEF JobPc
          <6> QED BY <6>1, NobodyBusy DEF MainOut
        <5> QED BY <5>1, <5>2, Threads DEF Goto, PoolInv, PoolTypeOK
      <4> QED BY <2>4, <4>1, <4>2
    <3> QED BY <3>1, <3>2, ItemsOutside
  <2> QED BY <1>4, <2>1, <2>2, <2>3, <2>4 DEF PoolStep
<1>5. ASSUME NEW t \in Thread, LoopStep(t) PROVE ItemsInv'
  <2>1. CASE LoopInit(t)
    BY <2>1, LoopInitItems
  <2>2. CASE BarrierArrive(t) \/ BarrierSense(t) \/ BarrierSignal(t)
    BY <2>2, BarrierItems
  <2>3. CASE GetWork(t) \/ Execute(t) \/ Look(t)
    BY <2>3, GetWorkItems, ExecuteItems, LookItems
  <2>4. CASE StealWork(t) \/ AssignWork(t)
    BY <2>4, StealItems, AssignItems
  <2> QED BY <1>5, <2>1, <2>2, <2>3, <2>4 DEF LoopStep
<1> QED BY <1>1, <1>2, <1>3, <1>4, <1>5 DEF Next

-----------------------------------------------------------------------------
(* The loops keep the invariant of the barrier and that of the items.      *)
THEOREM LoopInvariance == Spec => [](PoolInv /\ BarrierInv /\ ItemsInv)
<1>1. Init => PoolInv /\ BarrierInv /\ ItemsInv
  <2> SUFFICES ASSUME Init PROVE PoolInv /\ BarrierInv /\ ItemsInv
    OBVIOUS
  <2>1. Numbered(topo)
    BY Topologies DEF Init
  <2> QED BY <2>1, PoolInitialised, BarrierInitialised, ItemsInitialised
<1>2. PoolInv /\ BarrierInv /\ ItemsInv /\ [Next]_vars => (PoolInv /\ BarrierInv /\ ItemsInv)'
  <2> SUFFICES ASSUME PoolInv, BarrierInv, ItemsInv, [Next]_vars
               PROVE  PoolInv' /\ BarrierInv' /\ ItemsInv'
    OBVIOUS
  <2>1. PoolInv'
    BY PoolInductive
  <2>2. BarrierInv'
    BY <2>1, BarrierInductive DEF ItemsInv
  <2>3. ItemsInv'
    BY <2>2, ItemsInductive
  <2> QED BY <2>1, <2>2, <2>3
<1> QED BY <1>1, <1>2, PTL DEF Spec

(* Nobody looks at the work of another thread, or steals it, before the    *)
(* contexts of all active threads are those of this loop: the MCS barrier  *)
(* of the executor does its work, for any number of threads and however    *)
(* often it has been used before.                                          *)
THEOREM BarrierHolds == Spec => []BehindBarrier
<1>1. PoolInv /\ BarrierInv /\ ItemsInv => BehindBarrier
  <2> SUFFICES ASSUME PoolInv, BarrierInv, NEW t \in Thread, pc[t] \in Working
               PROVE  \A u \in 0 .. active - 1 : ctx[u].id = u
    BY DEF BehindBarrier
  <2> QED BY Behind DEF Team
<1> QED BY <1>1, LoopInvariance, PTL

(* Every item of a range is executed exactly once by the time the loop has *)
(* returned, whatever has been stolen from whom, by whom and how often.    *)
THEOREM EachItemOnce == Spec => []ItemsOnce
<1>1. PoolInv /\ BarrierInv /\ ItemsInv => ItemsOnce
  <2> SUFFICES ASSUME PoolInv, BarrierInv, ItemsInv PROVE ItemsOnce
    OBVIOUS
  <2>1. pc[0] = "idle" => work \notin {"range", "loop"}
    BY DEF ItemsInv, Parts, BarrierInv, Stages, MainOut
  <2> QED BY <2>1 DEF ItemsOnce, ItemsInv, Tally
<1> QED BY <1>1, LoopInvariance, PTL
=============================================================================
