--------------------------- MODULE WriteFlowProofs ---------------------------
(***************************************************************************)
(* Proofs about the credit flow control, for every number of machines,     *)
(* slots and release block: TypeOK and SlotOwnership are invariants, and   *)
(* the reserve of the channel suffices.                                    *)
(*                                                                         *)
(* Owned(f, o, n, b) speaks about the four sequences of one ordered pair.  *)
(* The first part shows how it survives each elementary move of a slot;    *)
(* every action is then a composition of such moves on two pairs.          *)
(***************************************************************************)
EXTENDS WriteFlow, SequenceTheorems, TLAPS

-----------------------------------------------------------------------------
(* Elements and duplicates of sequences.                                   *)

(* Appending adds one element. *)
LEMMA ElemsAppend ==
  ASSUME NEW S, NEW s \in Seq(S), NEW x \in S
  PROVE  Elems(Append(s, x)) = Elems(s) \cup {x}
  <1>1. /\ Append(s, x) \in Seq(S)
        /\ Len(Append(s, x)) = Len(s) + 1
        /\ \A k \in 1 .. Len(s) : Append(s, x)[k] = s[k]
        /\ Append(s, x)[Len(s) + 1] = x
    OBVIOUS
  <1>2. DOMAIN s = 1 .. Len(s) /\ DOMAIN Append(s, x) = 1 .. Len(s) + 1 /\ Len(s) \in Nat
    BY <1>1
  <1> QED BY <1>1, <1>2 DEF Elems

(* A nonempty sequence is its head and its tail. *)
LEMMA ElemsHeadTail ==
  ASSUME NEW S, NEW s \in Seq(S), s # <<>>
  PROVE  Elems(s) = {Head(s)} \cup Elems(Tail(s))
  <1>1. /\ Tail(s) \in Seq(S) /\ Len(s) \in Nat /\ Len(s) # 0
        /\ Len(Tail(s)) = Len(s) - 1
        /\ \A k \in 1 .. Len(s) - 1 : Tail(s)[k] = s[k + 1]
        /\ Head(s) = s[1]
        /\ DOMAIN s = 1 .. Len(s) /\ DOMAIN Tail(s) = 1 .. Len(s) - 1
    OBVIOUS
  <1>2. ASSUME NEW y \in Elems(s) PROVE y \in {Head(s)} \cup Elems(Tail(s))
    <2>1. PICK k \in 1 .. Len(s) : y = s[k]
      BY <1>1 DEF Elems
    <2>2. CASE k = 1
      BY <2>1, <2>2, <1>1
    <2>3. CASE k # 1
      <3>1. k - 1 \in 1 .. Len(s) - 1 /\ Tail(s)[k - 1] = s[k]
        BY <1>1, <2>1, <2>3
      <3> QED BY <3>1, <2>1, <1>1 DEF Elems
    <2> QED BY <2>2, <2>3
  <1>3. ASSUME NEW y \in {Head(s)} \cup Elems(Tail(s)) PROVE y \in Elems(s)
    <2>1. CASE y = Head(s)
      BY <2>1, <1>1 DEF Elems
    <2>2. CASE y \in Elems(Tail(s))
      <3>1. PICK k \in 1 .. Len(s) - 1 : y = Tail(s)[k]
        BY <2>2, <1>1 DEF Elems
      <3>2. k + 1 \in 1 .. Len(s) /\ y = s[k + 1]
        BY <3>1, <1>1
      <3> QED BY <3>2, <1>1 DEF Elems
    <2> QED BY <1>3, <2>1, <2>2
  <1> QED BY <1>2, <1>3

(* Concatenation unites the elements. *)
LEMMA ElemsConcat ==
  ASSUME NEW S, NEW s \in Seq(S), NEW t \in Seq(S)
  PROVE  Elems(s \o t) = Elems(s) \cup Elems(t)
  <1>1. /\ s \o t \in Seq(S) /\ Len(s) \in Nat /\ Len(t) \in Nat
        /\ Len(s \o t) = Len(s) + Len(t)
        /\ \A k \in 1 .. Len(s) + Len(t) :
             (s \o t)[k] = IF k <= Len(s) THEN s[k] ELSE t[k - Len(s)]
        /\ DOMAIN s = 1 .. Len(s) /\ DOMAIN t = 1 .. Len(t)
        /\ DOMAIN (s \o t) = 1 .. Len(s) + Len(t)
    OBVIOUS
  <1>2. ASSUME NEW y \in Elems(s \o t) PROVE y \in Elems(s) \cup Elems(t)
    <2>1. PICK k \in 1 .. Len(s) + Len(t) : y = (s \o t)[k]
      BY <1>1 DEF Elems
    <2>2. CASE k <= Len(s)
      <3>1. k \in 1 .. Len(s) /\ y = s[k]
        BY <2>1, <2>2, <1>1
      <3> QED BY <3>1, <1>1 DEF Elems
    <2>3. CASE ~(k <= Len(s))
      <3>1. k - Len(s) \in 1 .. Len(t) /\ y = t[k - Len(s)]
        BY <2>1, <2>3, <1>1
      <3> QED BY <3>1, <1>1 DEF Elems
    <2> QED BY <2>2, <2>3
  <1>3. ASSUME NEW y \in Elems(s) PROVE y \in Elems(s \o t)
    <2>1. PICK k \in 1 .. Len(s) : y = s[k]
      BY <1>1, <1>3 DEF Elems
    <2>2. k \in 1 .. Len(s) + Len(t) /\ y = (s \o t)[k]
      BY <2>1, <1>1
    <2> QED BY <2>2, <1>1 DEF Elems
  <1>4. ASSUME NEW y \in Elems(t) PROVE y \in Elems(s \o t)
    <2>1. PICK k \in 1 .. Len(t) : y = t[k]
      BY <1>1, <1>4 DEF Elems
    <2>2. k + Len(s) \in 1 .. Len(s) + Len(t) /\ y = (s \o t)[k + Len(s)]
      BY <2>1, <1>1
    <2> QED BY <2>2, <1>1 DEF Elems
  <1> QED BY <1>2, <1>3, <1>4

(* The head of a duplicate-free sequence does not occur in its tail. *)
LEMMA NoDupTail ==
  ASSUME NEW S, NEW s \in Seq(S), s # <<>>, NoDup(s)
  PROVE  NoDup(Tail(s)) /\ Head(s) \notin Elems(Tail(s))
  <1>1. /\ Len(s) \in Nat /\ Len(s) # 0
        /\ \A k \in 1 .. Len(s) - 1 : Tail(s)[k] = s[k + 1]
        /\ Head(s) = s[1]
        /\ DOMAIN s = 1 .. Len(s) /\ DOMAIN Tail(s) = 1 .. Len(s) - 1
    OBVIOUS
  <1>2. \A k \in 1 .. Len(s) - 1 : k + 1 \in 1 .. Len(s)
    BY <1>1
  <1>3. NoDup(Tail(s))
    <2> SUFFICES ASSUME NEW k \in 1 .. Len(s) - 1, NEW l \in 1 .. Len(s) - 1,
                        Tail(s)[k] = Tail(s)[l]
                 PROVE  k = l
      BY <1>1 DEF NoDup
    <2>1. s[k + 1] = s[l + 1]
      BY <1>1
    <2>2. k + 1 = l + 1
      BY <2>1, <1>1, <1>2 DEF NoDup
    <2> QED BY <2>2
  <1>4. Head(s) \notin Elems(Tail(s))
    <2> SUFFICES ASSUME NEW k \in 1 .. Len(s) - 1, Tail(s)[k] = Head(s) PROVE FALSE
      BY <1>1 DEF Elems
    <2>1. s[k + 1] = s[1]
      BY <1>1
    <2>2. k + 1 = 1
      BY <2>1, <1>1, <1>2 DEF NoDup
    <2> QED BY <2>2
  <1> QED BY <1>3, <1>4

(* A new element keeps a sequence duplicate-free. *)
LEMMA NoDupAppend ==
  ASSUME NEW S, NEW s \in Seq(S), NEW x \in S, NoDup(s), x \notin Elems(s)
  PROVE  NoDup(Append(s, x))
  <1>1. /\ Len(s) \in Nat /\ DOMAIN s = 1 .. Len(s)
        /\ DOMAIN Append(s, x) = 1 .. Len(s) + 1
        /\ \A k \in 1 .. Len(s) : Append(s, x)[k] = s[k]
        /\ Append(s, x)[Len(s) + 1] = x
    OBVIOUS
  <1>2. \A k \in 1 .. Len(s) : s[k] # x
    BY <1>1 DEF Elems
  <1> SUFFICES ASSUME NEW k \in 1 .. Len(s) + 1, NEW l \in 1 .. Len(s) + 1,
                      Append(s, x)[k] = Append(s, x)[l]
               PROVE  k = l
    BY <1>1 DEF NoDup
  <1>3. CASE k \in 1 .. Len(s) /\ l \in 1 .. Len(s)
    BY <1>1, <1>3 DEF NoDup
  <1>4. CASE k = Len(s) + 1 /\ l \in 1 .. Len(s)
    BY <1>1, <1>2, <1>4
  <1>5. CASE l = Len(s) + 1 /\ k \in 1 .. Len(s)
    BY <1>1, <1>2, <1>5
  <1> QED BY <1>1, <1>3, <1>4, <1>5

(* Duplicate-free sequences without a common element concatenate. *)
LEMMA NoDupConcat ==
  ASSUME NEW S, NEW s \in Seq(S), NEW t \in Seq(S), NoDup(s), NoDup(t),
         Elems(s) \cap Elems(t) = {}
  PROVE  NoDup(s \o t)
  <1>1. /\ Len(s) \in Nat /\ Len(t) \in Nat
        /\ DOMAIN s = 1 .. Len(s) /\ DOMAIN t = 1 .. Len(t)
        /\ DOMAIN (s \o t) = 1 .. Len(s) + Len(t)
        /\ \A k \in 1 .. Len(s) + Len(t) :
             (s \o t)[k] = IF k <= Len(s) THEN s[k] ELSE t[k - Len(s)]
    OBVIOUS
  <1>2. \A k \in 1 .. Len(s), l \in 1 .. Len(t) : s[k] # t[l]
    BY <1>1 DEF Elems
  <1>3. \A k \in 1 .. Len(s) + Len(t) :
          IF k <= Len(s) THEN k \in 1 .. Len(s) ELSE k - Len(s) \in 1 .. Len(t)
    BY <1>1
  <1> SUFFICES ASSUME NEW k \in 1 .. Len(s) + Len(t), NEW l \in 1 .. Len(s) + Len(t),
                      (s \o t)[k] = (s \o t)[l]
               PROVE  k = l
    BY <1>1 DEF NoDup
  <1>4. CASE k <= Len(s) /\ l <= Len(s)
    BY <1>1, <1>3, <1>4 DEF NoDup
  <1>5. CASE ~(k <= Len(s)) /\ ~(l <= Len(s))
    <2>1. t[k - Len(s)] = t[l - Len(s)]
      BY <1>1, <1>5
    <2>2. k - Len(s) = l - Len(s)
      BY <2>1, <1>1, <1>3, <1>5 DEF NoDup
    <2> QED BY <2>2, <1>1
  <1>6. CASE k <= Len(s) /\ ~(l <= Len(s))
    BY <1>1, <1>2, <1>3, <1>6
  <1>7. CASE ~(k <= Len(s)) /\ l <= Len(s)
    BY <1>1, <1>2, <1>3, <1>7
  <1> QED BY <1>4, <1>5, <1>6, <1>7

-----------------------------------------------------------------------------
(* The slots of a channel, seen as writes in flight (o) and as messages    *)
(* that give slots back (b).                                               *)

FlightOnce(o) == \A k, l \in Owning(o) : o[k].buf = o[l].buf => k = l
ReturnedOnce(b) ==
  /\ \A k \in DOMAIN b : NoDup(b[k].ids)
  /\ \A k, l \in DOMAIN b : k # l => Elems(b[k].ids) \cap Elems(b[l].ids) = {}

(* A new write owns its slot unless it is a CLEAR. *)
LEMMA FlightAppend ==
  ASSUME NEW o \in Seq(Message), NEW m \in Message
  PROVE  /\ Flight(Append(o, m)) =
              Flight(o) \cup (IF m.control = "CLEAR" THEN {} ELSE {m.buf})
         /\ FlightOnce(o) /\ (m.control = "CLEAR" \/ m.buf \notin Flight(o))
              => FlightOnce(Append(o, m))
  <1>1. /\ Len(o) \in Nat /\ DOMAIN o = 1 .. Len(o)
        /\ DOMAIN Append(o, m) = 1 .. Len(o) + 1
        /\ \A k \in 1 .. Len(o) : Append(o, m)[k] = o[k]
        /\ Append(o, m)[Len(o) + 1] = m
    OBVIOUS
  <1>2. Owning(Append(o, m)) =
          Owning(o) \cup (IF m.control = "CLEAR" THEN {} ELSE {Len(o) + 1})
    BY <1>1 DEF Owning
  <1>3. \A k \in Owning(o) : k \in 1 .. Len(o) /\ Append(o, m)[k] = o[k]
    BY <1>1 DEF Owning
  <1>4. Flight(Append(o, m)) =
          Flight(o) \cup (IF m.control = "CLEAR" THEN {} ELSE {m.buf})
    BY <1>1, <1>2, <1>3 DEF Flight
  <1>5. \A k \in Owning(o) : o[k].buf \in Flight(o)
    BY DEF Flight
  <1>6. FlightOnce(o) /\ (m.control = "CLEAR" \/ m.buf \notin Flight(o))
              => FlightOnce(Append(o, m))
    BY <1>1, <1>2, <1>3, <1>5 DEF FlightOnce
  <1> QED BY <1>4, <1>6

(* The oldest write gives up its slot, which no other write owns. *)
LEMMA FlightTail ==
  ASSUME NEW o \in Seq(Message), o # <<>>, FlightOnce(o)
  PROVE  /\ FlightOnce(Tail(o))
         /\ Head(o).control = "CLEAR" => Flight(Tail(o)) = Flight(o)
         /\ Head(o).control # "CLEAR" =>
              /\ Head(o).buf \in Flight(o)
              /\ Flight(Tail(o)) = Flight(o) \ {Head(o).buf}
  <1>1. /\ Len(o) \in Nat /\ Len(o) # 0
        /\ \A k \in 1 .. Len(o) - 1 : Tail(o)[k] = o[k + 1]
        /\ Head(o) = o[1]
        /\ DOMAIN o = 1 .. Len(o) /\ DOMAIN Tail(o) = 1 .. Len(o) - 1
    OBVIOUS
  <1>2. \A k \in Owning(Tail(o)) : k \in Nat /\ k + 1 \in Owning(o) /\ k + 1 # 1 /\ Tail(o)[k] = o[k + 1]
    BY <1>1 DEF Owning
  <1>3. \A k \in Owning(o) : k # 1 => k - 1 \in Owning(Tail(o)) /\ Tail(o)[k - 1] = o[k]
    <2> SUFFICES ASSUME NEW k \in Owning(o), k # 1
                 PROVE  k - 1 \in Owning(Tail(o)) /\ Tail(o)[k - 1] = o[k]
      OBVIOUS
    <2>1. k \in 1 .. Len(o) /\ o[k].control # "CLEAR"
      BY <1>1 DEF Owning
    <2>2. k - 1 \in 1 .. Len(o) - 1 /\ Tail(o)[k - 1] = o[k]
      BY <2>1, <1>1
    <2> QED BY <2>1, <2>2, <1>1 DEF Owning
  <1>4. FlightOnce(Tail(o))
    <2> SUFFICES ASSUME NEW k \in Owning(Tail(o)), NEW l \in Owning(Tail(o)),
                        Tail(o)[k].buf = Tail(o)[l].buf
                 PROVE  k = l
      BY DEF FlightOnce
    <2>1. k + 1 = l + 1
      BY ZenonT(40), <1>2 DEF FlightOnce
    <2> QED BY <2>1, <1>2
  <1>5. (1 \in Owning(o)) <=> (Head(o).control # "CLEAR")
    BY <1>1 DEF Owning
  <1>6. ASSUME NEW y \in Flight(Tail(o))
        PROVE  y \in Flight(o) /\ (1 \in Owning(o) => y # o[1].buf)
    <2>1. PICK k \in Owning(Tail(o)) : y = Tail(o)[k].buf
      BY <1>6 DEF Flight
    <2>2. k + 1 \in Owning(o) /\ k + 1 # 1 /\ y = o[k + 1].buf
      BY <2>1, <1>2
    <2> QED BY <2>2 DEF Flight, FlightOnce
  <1>7. ASSUME NEW y \in Flight(o), y \notin Flight(Tail(o))
        PROVE  1 \in Owning(o) /\ y = o[1].buf
    <2>1. PICK k \in Owning(o) : y = o[k].buf
      BY <1>7 DEF Flight
    <2>2. k = 1
      BY <2>1, <1>3, <1>7 DEF Flight
    <2> QED BY <2>1, <2>2
  <1>8. 1 \in Owning(o) => o[1].buf \in Flight(o)
    BY DEF Flight
  <1> QED BY <1>1, <1>4, <1>5, <1>6, <1>7, <1>8

(* A message given back later adds its slots. *)
LEMMA ReturnedAppend ==
  ASSUME NEW b \in Seq(Message), NEW m \in Message, ReturnedOnce(b),
         NoDup(m.ids), Elems(m.ids) \cap Returned(b) = {}
  PROVE  /\ Returned(Append(b, m)) = Returned(b) \cup Elems(m.ids)
         /\ ReturnedOnce(Append(b, m))
  <1>1. /\ Len(b) \in Nat /\ DOMAIN b = 1 .. Len(b)
        /\ DOMAIN Append(b, m) = 1 .. Len(b) + 1
        /\ \A k \in 1 .. Len(b) : Append(b, m)[k] = b[k]
        /\ Append(b, m)[Len(b) + 1] = m
        /\ 1 .. Len(b) + 1 = (1 .. Len(b)) \cup {Len(b) + 1}
    OBVIOUS
  <1>2. Returned(Append(b, m)) = Returned(b) \cup Elems(m.ids)
    BY <1>1 DEF Returned
  <1>3. \A k \in DOMAIN b : Elems(b[k].ids) \cap Elems(m.ids) = {}
    BY DEF Returned
  <1>4. \A k \in 1 .. Len(b) + 1 : NoDup(Append(b, m)[k].ids)
    BY <1>1 DEF ReturnedOnce
  <1>5. ASSUME NEW k \in 1 .. Len(b) + 1, NEW l \in 1 .. Len(b) + 1, k # l
        PROVE  Elems(Append(b, m)[k].ids) \cap Elems(Append(b, m)[l].ids) = {}
    <2>1. CASE k \in 1 .. Len(b) /\ l \in 1 .. Len(b)
      BY <1>1, <1>5, <2>1 DEF ReturnedOnce
    <2>2. CASE k \in 1 .. Len(b) /\ l = Len(b) + 1
      BY <1>1, <1>3, <2>2
    <2>3. CASE k = Len(b) + 1 /\ l \in 1 .. Len(b)
      BY <1>1, <1>3, <2>3
    <2> QED BY <1>1, <1>5, <2>1, <2>2, <2>3
  <1>6. ReturnedOnce(Append(b, m))
    BY <1>1, <1>4, <1>5 DEF ReturnedOnce
  <1> QED BY <1>2, <1>6

(* The oldest message gives its slots back, which no other one carries. *)
LEMMA ReturnedTail ==
  ASSUME NEW b \in Seq(Message), b # <<>>, ReturnedOnce(b)
  PROVE  /\ ReturnedOnce(Tail(b)) /\ NoDup(Head(b).ids)
         /\ Returned(b) = Returned(Tail(b)) \cup Elems(Head(b).ids)
         /\ Returned(Tail(b)) \cap Elems(Head(b).ids) = {}
  <1>1. /\ Len(b) \in Nat /\ Len(b) # 0
        /\ \A k \in 1 .. Len(b) - 1 : Tail(b)[k] = b[k + 1]
        /\ Head(b) = b[1]
        /\ DOMAIN b = 1 .. Len(b) /\ DOMAIN Tail(b) = 1 .. Len(b) - 1
    OBVIOUS
  <1>2. \A k \in DOMAIN Tail(b) : k \in Nat /\ k + 1 \in DOMAIN b /\ k + 1 # 1 /\ Tail(b)[k] = b[k + 1]
    BY <1>1
  <1>3. \A k \in DOMAIN b : k # 1 => k - 1 \in DOMAIN Tail(b) /\ Tail(b)[k - 1] = b[k]
    <2> SUFFICES ASSUME NEW k \in 1 .. Len(b), k # 1
                 PROVE  k - 1 \in 1 .. Len(b) - 1 /\ Tail(b)[k - 1] = b[k]
      BY <1>1
    <2>1. k - 1 \in 1 .. Len(b) - 1
      BY <1>1
    <2> QED BY <2>1, <1>1
  <1>4. 1 \in DOMAIN b
    BY <1>1
  <1>5. ReturnedOnce(Tail(b))
    <2>1. \A k \in DOMAIN Tail(b) : NoDup(Tail(b)[k].ids)
      BY <1>2 DEF ReturnedOnce
    <2>2. ASSUME NEW k \in DOMAIN Tail(b), NEW l \in DOMAIN Tail(b), k # l
          PROVE  Elems(Tail(b)[k].ids) \cap Elems(Tail(b)[l].ids) = {}
      <3>1. k + 1 # l + 1
        BY <1>2, <2>2
      <3> QED BY <3>1, <1>2 DEF ReturnedOnce
    <2> QED BY <2>1, <2>2 DEF ReturnedOnce
  <1>6. NoDup(Head(b).ids)
    BY <1>1, <1>4 DEF ReturnedOnce
  <1>7. ASSUME NEW y \in Returned(Tail(b))
        PROVE  y \in Returned(b) /\ y \notin Elems(Head(b).ids)
    <2>1. PICK k \in DOMAIN Tail(b) : y \in Elems(Tail(b)[k].ids)
      BY <1>7 DEF Returned
    <2>2. k + 1 \in DOMAIN b /\ k + 1 # 1 /\ y \in Elems(b[k + 1].ids)
      BY <2>1, <1>2
    <2>3. Elems(b[k + 1].ids) \cap Elems(b[1].ids) = {}
      BY <2>2, <1>4 DEF ReturnedOnce
    <2> QED BY <2>2, <2>3, <1>1 DEF Returned
  <1>8. ASSUME NEW y \in Returned(b)
        PROVE  y \in Returned(Tail(b)) \cup Elems(Head(b).ids)
    <2>1. PICK k \in DOMAIN b : y \in Elems(b[k].ids)
      BY <1>8 DEF Returned
    <2>2. CASE k = 1
      BY <2>1, <2>2, <1>1
    <2>3. CASE k # 1
      BY <2>1, <2>3, <1>3 DEF Returned
    <2> QED BY <2>2, <2>3
  <1>9. Elems(Head(b).ids) \subseteq Returned(b)
    BY <1>1, <1>4 DEF Returned
  <1> QED BY <1>5, <1>6, <1>7, <1>8, <1>9

-----------------------------------------------------------------------------
(* Moves of a slot within one ordered pair.                                *)

PairType(f, o, n, b) ==
  /\ f \in Seq(Slot) /\ n \in Seq(Slot)
  /\ o \in Seq(Message) /\ b \in Seq(Message)

(* get_write_send_buf and post_write_send: the front slot starts to fly. *)
LEMMA MoveTake ==
  ASSUME NEW f, NEW o, NEW n, NEW b, PairType(f, o, n, b), Owned(f, o, n, b),
         f # <<>>, NEW m \in Message, m.control # "CLEAR", m.buf = Head(f)
  PROVE  Owned(Tail(f), Append(o, m), n, b)
  <1>1. Elems(f) = {Head(f)} \cup Elems(Tail(f))
    BY ElemsHeadTail DEF PairType
  <1>2. NoDup(Tail(f)) /\ Head(f) \notin Elems(Tail(f))
    BY NoDupTail DEF PairType, Owned, OncePerPlace
  <1>3. FlightOnce(o) /\ m.buf \notin Flight(o)
    BY <1>1 DEF Owned, OncePerPlace, OnePlace, FlightOnce
  <1>4. Flight(Append(o, m)) = Flight(o) \cup {m.buf} /\ FlightOnce(Append(o, m))
    BY <1>3, FlightAppend DEF PairType
  <1>5. OncePerPlace(Tail(f), Append(o, m), n, b)
    BY <1>2, <1>4 DEF Owned, OncePerPlace, FlightOnce
  <1>6. OnePlace(Tail(f), Append(o, m), n, b)
    BY <1>1, <1>2, <1>4 DEF Owned, OnePlace
  <1> QED BY <1>5, <1>6 DEF Owned

(* A CLEAR leaves with a slot it does not own. *)
LEMMA MoveClearOut ==
  ASSUME NEW f, NEW o, NEW n, NEW b, PairType(f, o, n, b), Owned(f, o, n, b),
         NEW m \in Message, m.control = "CLEAR"
  PROVE  Owned(f, Append(o, m), n, b)
  <1>1. FlightOnce(o)
    BY DEF Owned, OncePerPlace, FlightOnce
  <1>2. o \in Seq(Message)
    BY DEF PairType
  <1>3. Flight(Append(o, m)) = Flight(o) \cup {}
    BY <1>2, FlightAppend
  <1>4. FlightOnce(Append(o, m))
    BY <1>1, <1>2, FlightAppend
  <1> QED BY <1>3, <1>4 DEF Owned, OncePerPlace, OnePlace, FlightOnce

(* clear_write_release moves the slot it used from the front to the back. *)
LEMMA MoveRotate ==
  ASSUME NEW f, NEW o, NEW n, NEW b, PairType(f, o, n, b), Owned(f, o, n, b),
         f # <<>>
  PROVE  Owned(Rotate(f), o, n, b) /\ Rotate(f) \in Seq(Slot)
  <1>1. f \in Seq(Slot) /\ Tail(f) \in Seq(Slot) /\ Head(f) \in Slot
    BY DEF PairType
  <1>2. Elems(f) = {Head(f)} \cup Elems(Tail(f))
    BY <1>1, ElemsHeadTail
  <1>3. NoDup(Tail(f)) /\ Head(f) \notin Elems(Tail(f))
    BY <1>1, NoDupTail DEF Owned, OncePerPlace
  <1>4. Elems(Append(Tail(f), Head(f))) = Elems(Tail(f)) \cup {Head(f)}
    <2>1. \A s \in Seq(Slot), x \in Slot : Elems(Append(s, x)) = Elems(s) \cup {x}
      BY ElemsAppend
    <2> QED BY <1>1, <2>1, Zenon
  <1>5. NoDup(Append(Tail(f), Head(f)))
    BY <1>1, <1>3, NoDupAppend
  <1>6. Elems(Rotate(f)) = Elems(f) /\ NoDup(Rotate(f)) /\ Rotate(f) \in Seq(Slot)
    BY <1>1, <1>2, <1>4, <1>5 DEF Rotate
  <1> QED BY <1>6 DEF Owned, OncePerPlace, OnePlace

(* poll_recv of anything but CLEAR: the slot is noted by the receiver. *)
LEMMA MoveNote ==
  ASSUME NEW f, NEW o, NEW n, NEW b, PairType(f, o, n, b), Owned(f, o, n, b),
         o # <<>>, Head(o).control # "CLEAR"
  PROVE  Owned(f, Tail(o), Append(n, Head(o).buf), b)
  <1>1. FlightOnce(o)
    BY DEF Owned, OncePerPlace, FlightOnce
  <1>2. /\ FlightOnce(Tail(o)) /\ Head(o).buf \in Flight(o)
        /\ Flight(Tail(o)) = Flight(o) \ {Head(o).buf}
    BY <1>1, FlightTail DEF PairType
  <1>3. n \in Seq(Slot) /\ Head(o).buf \in Slot /\ Head(o).buf \notin Elems(n)
    BY <1>2 DEF PairType, Owned, OnePlace
  <1>4. /\ Elems(Append(n, Head(o).buf)) = Elems(n) \cup {Head(o).buf}
        /\ NoDup(Append(n, Head(o).buf))
    BY <1>3, ElemsAppend, NoDupAppend DEF Owned, OncePerPlace
  <1>5. OncePerPlace(f, Tail(o), Append(n, Head(o).buf), b)
    BY <1>2, <1>4 DEF Owned, OncePerPlace, FlightOnce
  <1>6. OnePlace(f, Tail(o), Append(n, Head(o).buf), b)
    BY <1>2, <1>4 DEF Owned, OnePlace
  <1> QED BY <1>5, <1>6 DEF Owned

(* poll_recv of a CLEAR frees no slot of its sender. *)
LEMMA MoveClearIn ==
  ASSUME NEW f, NEW o, NEW n, NEW b, PairType(f, o, n, b), Owned(f, o, n, b),
         o # <<>>, Head(o).control = "CLEAR"
  PROVE  Owned(f, Tail(o), n, b)
  <1>1. FlightOnce(o)
    BY DEF Owned, OncePerPlace, FlightOnce
  <1>2. FlightOnce(Tail(o)) /\ Flight(Tail(o)) = Flight(o)
    BY <1>1, FlightTail DEF PairType
  <1> QED BY <1>2 DEF Owned, OncePerPlace, OnePlace, FlightOnce

(* All noted slots leave in a RELEASE or CLEAR message. *)
LEMMA MoveAnnounce ==
  ASSUME NEW f, NEW o, NEW n, NEW b, PairType(f, o, n, b), Owned(f, o, n, b),
         NEW m \in Message, m.ids = n
  PROVE  Owned(f, o, <<>>, Append(b, m))
  <1>1. ReturnedOnce(b) /\ NoDup(m.ids) /\ Elems(m.ids) \cap Returned(b) = {}
    BY DEF Owned, OncePerPlace, OnePlace, ReturnedOnce
  <1>2. /\ Returned(Append(b, m)) = Returned(b) \cup Elems(n)
        /\ ReturnedOnce(Append(b, m))
    BY <1>1, ReturnedAppend DEF PairType
  <1>3. Elems(<<>>) = {} /\ NoDup(<<>>)
    BY DEF Elems, NoDup
  <1>4. OncePerPlace(f, o, <<>>, Append(b, m))
    BY <1>2, <1>3 DEF Owned, OncePerPlace, ReturnedOnce
  <1>5. OnePlace(f, o, <<>>, Append(b, m))
    BY <1>2, <1>3 DEF Owned, OnePlace
  <1> QED BY <1>4, <1>5 DEF Owned

(* A message that gives nothing back changes nothing. *)
LEMMA MoveNothing ==
  ASSUME NEW f, NEW o, NEW n, NEW b, PairType(f, o, n, b), Owned(f, o, n, b),
         NEW m \in Message, m.ids = <<>>
  PROVE  Owned(f, o, n, Append(b, m))
  <1>1. Elems(m.ids) = {} /\ NoDup(m.ids)
    BY DEF Elems, NoDup
  <1>2. ReturnedOnce(b)
    BY DEF Owned, OncePerPlace, ReturnedOnce
  <1>3. Returned(Append(b, m)) = Returned(b) /\ ReturnedOnce(Append(b, m))
    BY <1>1, <1>2, ReturnedAppend DEF PairType
  <1> QED BY <1>3 DEF Owned, OncePerPlace, OnePlace, ReturnedOnce

(* poll_recv pushes the slots given back to the end of the free list. *)
LEMMA MoveHome ==
  ASSUME NEW f, NEW o, NEW n, NEW b, PairType(f, o, n, b), Owned(f, o, n, b),
         b # <<>>
  PROVE  Owned(f \o Head(b).ids, o, n, Tail(b))
  <1>1. f \in Seq(Slot) /\ Head(b).ids \in Seq(Slot)
    <2>1. Head(b) \in Message
      BY DEF PairType
    <2> QED BY <2>1 DEF PairType, Message
  <1>2. ReturnedOnce(b)
    BY DEF Owned, OncePerPlace, ReturnedOnce
  <1>3. /\ ReturnedOnce(Tail(b)) /\ NoDup(Head(b).ids)
        /\ Returned(b) = Returned(Tail(b)) \cup Elems(Head(b).ids)
        /\ Returned(Tail(b)) \cap Elems(Head(b).ids) = {}
    BY <1>2, ReturnedTail DEF PairType
  <1>4. Elems(f) \cap Elems(Head(b).ids) = {} /\ NoDup(f)
    BY <1>3 DEF Owned, OncePerPlace, OnePlace
  <1>5. /\ Elems(f \o Head(b).ids) = Elems(f) \cup Elems(Head(b).ids)
        /\ NoDup(f \o Head(b).ids)
    BY <1>1, <1>3, <1>4, ElemsConcat, NoDupConcat
  <1>6. OncePerPlace(f \o Head(b).ids, o, n, Tail(b))
    BY <1>3, <1>5 DEF Owned, OncePerPlace, ReturnedOnce
  <1>7. OnePlace(f \o Head(b).ids, o, n, Tail(b))
    BY <1>3, <1>5 DEF Owned, OnePlace
  <1> QED BY <1>6, <1>7 DEF Owned

-----------------------------------------------------------------------------
(* The specification.                                                      *)

(* Updating one pair of a table keeps its type. *)
LEMMA TableUpdate ==
  ASSUME NEW S, NEW T, NEW f \in [S -> [S -> T]], NEW i \in S, NEW j \in S, NEW v \in T
  PROVE  [f EXCEPT ![i][j] = v] \in [S -> [S -> T]]
  OBVIOUS

(* Replacing one row of a table keeps its type. *)
LEMMA RowUpdate ==
  ASSUME NEW S, NEW T, NEW f \in [S -> [S -> T]], NEW i \in S, NEW g \in [S -> T]
  PROVE  [f EXCEPT ![i] = g] \in [S -> [S -> T]]
  OBVIOUS

(* The four sequences of every pair are well typed. *)
LEMMA PairTyped ==
  ASSUME TypeOK, NEW i \in Machine, NEW j \in Machine
  PROVE  PairType(buffIdList[i][j], chan[i][j], releaseIdList[j][i], chan[j][i])
  BY DEF TypeOK, PairType

(* The message at the head of a channel, and what it gives back. *)
LEMMA HeadTyped ==
  ASSUME TypeOK, NEW i \in Machine, NEW j \in Machine, chan[j][i] # <<>>
  PROVE  /\ Head(chan[j][i]) \in Message
         /\ Head(chan[j][i]).buf \in Slot /\ Head(chan[j][i]).ids \in Seq(Slot)
         /\ Replenished(i, j, Head(chan[j][i])) \in Seq(Slot)
  <1>1. chan[j][i] \in Seq(Message) /\ buffIdList[i][j] \in Seq(Slot)
    BY DEF TypeOK
  <1>2. Head(chan[j][i]) \in Message
    BY <1>1
  <1>3. Head(chan[j][i]).buf \in Slot /\ Head(chan[j][i]).ids \in Seq(Slot)
    BY <1>2 DEF Message
  <1> QED BY <1>1, <1>2, <1>3 DEF Replenished

(* A RELEASE that i can build is a message. *)
LEMMA ReleaseTyped ==
  ASSUME TypeOK, NEW i \in Machine, NEW j \in Machine, chan[j][i] # <<>>,
         Replenished(i, j, Head(chan[j][i])) # <<>>
  PROVE  [control |-> "RELEASE", buf |-> Head(Replenished(i, j, Head(chan[j][i]))),
          ids |-> Append(releaseIdList[i][j], Head(chan[j][i]).buf)] \in Message
  <1>1. Head(Replenished(i, j, Head(chan[j][i]))) \in Slot
    BY HeadTyped
  <1>2. Head(chan[j][i]).buf \in Slot /\ releaseIdList[i][j] \in Seq(Slot)
    BY HeadTyped DEF TypeOK
  <1>3. Append(releaseIdList[i][j], Head(chan[j][i]).buf) \in Seq(Slot)
    BY <1>2
  <1> QED BY <1>1, <1>3 DEF Message, Control

(* A CLEAR that i can build is a message. *)
LEMMA ClearTyped ==
  ASSUME TypeOK, NEW i \in Machine, NEW m \in Machine, buffIdList[i][m] # <<>>
  PROVE  /\ [control |-> "CLEAR", buf |-> Head(buffIdList[i][m]),
             ids |-> releaseIdList[i][m]] \in Message
         /\ Rotate(buffIdList[i][m]) \in Seq(Slot)
  <1>1. buffIdList[i][m] \in Seq(Slot) /\ releaseIdList[i][m] \in Seq(Slot)
    BY DEF TypeOK
  <1>2. Head(buffIdList[i][m]) \in Slot /\ Tail(buffIdList[i][m]) \in Seq(Slot)
    BY <1>1
  <1> QED BY <1>1, <1>2 DEF Message, Control, Rotate

(* A DATA message that i can build is a message. *)
LEMMA DataTyped ==
  ASSUME TypeOK, NEW i \in Machine, NEW m \in Machine,
         Len(buffIdList[i][m]) > ReleaseBlock
  PROVE  /\ buffIdList[i][m] # <<>>
         /\ [control |-> "DATA", buf |-> Head(buffIdList[i][m]),
             ids |-> <<>>] \in Message
  <1>1. buffIdList[i][m] \in Seq(Slot) /\ Len(buffIdList[i][m]) # 0
    BY BlockAssumption DEF TypeOK
  <1>2. buffIdList[i][m] # <<>> /\ Head(buffIdList[i][m]) \in Slot
    BY <1>1
  <1>3. <<>> \in Seq(Slot)
    OBVIOUS
  <1> QED BY <1>2, <1>3 DEF Message, Control

(* Every variable keeps its type: lists hold slots, channels hold messages. *)
THEOREM TypeCorrect == Spec => []TypeOK
  <1>1. Init => TypeOK
    <2> SUFFICES ASSUME Init PROVE TypeOK
      OBVIOUS
    <2>1. AllSlots \in Seq(Slot)
      BY BlockAssumption, IsASeq DEF AllSlots, Slot
    <2>2. 0 \in Machine
      BY MachineAssumption DEF Machine
    <2> QED BY <2>1, <2>2 DEF Init, TypeOK, PC
  <1>2. TypeOK /\ [Next]_vars => TypeOK'
    <2> SUFFICES ASSUME TypeOK, [Next]_vars PROVE TypeOK'
      OBVIOUS
    <2>1. ASSUME NEW i \in Machine, NEW m \in Machine, GetStart(i, m) PROVE TypeOK'
      BY <2>1 DEF GetStart, TypeOK, PC
    <2>2. ASSUME NEW i \in Machine, PostWriteSend(i) PROVE TypeOK'
      <3> DEFINE m == peer[i]
      <3>1. m \in Machine /\ Len(buffIdList[i][m]) > ReleaseBlock
        BY <2>2 DEF PostWriteSend, TypeOK
      <3>2. buffIdList[i][m] # <<>> /\ [control |-> "DATA",
               buf |-> Head(buffIdList[i][m]), ids |-> <<>>] \in Message
        BY <3>1, DataTyped
      <3>3. Tail(buffIdList[i][m]) \in Seq(Slot)
        BY <3>1, <3>2 DEF TypeOK
      <3>4. Append(chan[i][m], [control |-> "DATA",
               buf |-> Head(buffIdList[i][m]), ids |-> <<>>]) \in Seq(Message)
        BY <3>1, <3>2 DEF TypeOK
      <3>5. /\ buffIdList' = [buffIdList EXCEPT ![i][m] = Tail(buffIdList[i][m])]
            /\ chan' = [chan EXCEPT ![i][m] = Append(chan[i][m],
                 [control |-> "DATA", buf |-> Head(buffIdList[i][m]), ids |-> <<>>])]
            /\ sent' = [sent EXCEPT ![i][m] = sent[i][m] + 1]
        BY <2>2, <3>1 DEF PostWriteSend, TypeOK
      <3>6. buffIdList' \in [Machine -> [Machine -> Seq(Slot)]]
        BY ZenonT(40), <3>1, <3>3, <3>5, TableUpdate DEF TypeOK
      <3>7. chan' \in [Machine -> [Machine -> Seq(Message)]]
        BY ZenonT(40), <3>1, <3>4, <3>5, TableUpdate DEF TypeOK
      <3>8. sent' \in [Machine -> [Machine -> Nat]]
        <4>1. sent \in [Machine -> [Machine -> Nat]]
          BY DEF TypeOK
        <4>2. sent[i][m] + 1 \in Nat
          BY <3>1, <4>1
        <4> QED BY <3>1, <3>5, <4>1, <4>2, TableUpdate
      <3>9. /\ pc' = [pc EXCEPT ![i] = "run"]
            /\ UNCHANGED <<releaseIdList, peer, polled, fin, batch>>
        BY <2>2 DEF PostWriteSend
      <3> QED BY <3>6, <3>7, <3>8, <3>9 DEF TypeOK, PC
    <2>3. ASSUME NEW i \in Machine, NEW j \in Machine, PollRecv(i, j) PROVE TypeOK'
      <3> DEFINE msg == Head(chan[j][i])
                 free == Replenished(i, j, msg)
      <3>1. chan[j][i] # <<>> /\ i # j
        BY <2>3 DEF PollRecv
      <3>a. msg \in Message /\ msg.buf \in Slot /\ free \in Seq(Slot)
        BY <3>1, HeadTyped
      <3>b. releaseIdList[i][j] \in Seq(Slot) /\ chan[j][i] \in Seq(Message)
        BY DEF TypeOK
      <3>2. /\ Tail(chan[j][i]) \in Seq(Message) /\ free \in Seq(Slot)
            /\ Append(releaseIdList[i][j], msg.buf) \in Seq(Slot)
        BY <3>1, <3>a, <3>b
      <3>3. /\ peer' \in [Machine -> Machine] /\ polled' \in [Machine -> Nat]
            /\ sent' \in [Machine -> [Machine -> Nat]]
            /\ fin' \in [Machine -> Nat] /\ batch' \in [Machine -> Nat]
        <4>1. \/ UNCHANGED polled
              \/ polled' = [polled EXCEPT ![i] = polled[i] + 1]
          BY <2>3 DEF PollRecv
        <4>2. UNCHANGED <<peer, sent, fin, batch>>
          BY <2>3 DEF PollRecv
        <4>3. polled' \in [Machine -> Nat]
          <5>1. polled \in [Machine -> Nat]
            BY DEF TypeOK
          <5>2. polled[i] + 1 \in Nat
            BY <5>1
          <5> QED BY <4>1, <5>1, <5>2
        <4> QED BY <4>2, <4>3 DEF TypeOK
      <3>4. CASE PollClear(i, j, msg)
        BY <3>2, <3>3, <3>4 DEF PollClear, TypeOK
      <3>5. CASE PollNote(i, j, msg)
        BY <3>2, <3>3, <3>5 DEF PollNote, TypeOK
      <3>6. CASE PollRelease(i, j, msg)
        <4> DEFINE rel == [control |-> "RELEASE", buf |-> Head(free),
                           ids |-> Append(releaseIdList[i][j], msg.buf)]
        <4>1. free # <<>>
          BY <3>6 DEF PollRelease
        <4>2. rel \in Message /\ Tail(free) \in Seq(Slot)
          BY <3>1, <3>2, <4>1, ReleaseTyped
        <4>3. Append(chan[i][j], rel) \in Seq(Message)
          BY <4>2 DEF TypeOK
        <4>4. /\ buffIdList' = [buffIdList EXCEPT ![i][j] = Tail(free)]
              /\ releaseIdList' = [releaseIdList EXCEPT ![i][j] = <<>>]
              /\ chan' = [chan EXCEPT ![j][i] = Tail(@), ![i][j] = Append(@, rel)]
              /\ pc' = pc
          BY <3>6 DEF PollRelease
        <4>5. chan' \in [Machine -> [Machine -> Seq(Message)]]
          BY <3>1, <3>2, <4>3, <4>4 DEF TypeOK
        <4>6. buffIdList' \in [Machine -> [Machine -> Seq(Slot)]]
          BY ZenonT(40), <4>2, <4>4, TableUpdate DEF TypeOK
        <4>7. releaseIdList' \in [Machine -> [Machine -> Seq(Slot)]]
          <5>1. <<>> \in Seq(Slot)
            OBVIOUS
          <5> QED BY <5>1, <4>4, TableUpdate DEF TypeOK
        <4> QED BY <3>3, <4>4, <4>5, <4>6, <4>7 DEF TypeOK
      <3>7. CASE PollExit(i, j, msg)
        BY <3>3, <3>7 DEF PollExit, TypeOK, PC
      <3> QED BY <2>3, <3>4, <3>5, <3>6, <3>7 DEF PollRecv
    <2>4. ASSUME NEW i \in Machine, Finish(i) PROVE TypeOK'
      <3>1. /\ fin' = [fin EXCEPT ![i] = fin[i] + 1]
            /\ UNCHANGED <<buffIdList, releaseIdList, chan, pc, peer, polled, sent, batch>>
        BY <2>4 DEF Finish
      <3> QED BY <3>1 DEF TypeOK
    <2>5. ASSUME NEW i \in Machine, ResetStart(i) PROVE TypeOK'
      <3>1. 0 \in Machine
        BY MachineAssumption DEF Machine
      <3> QED BY <2>5, <3>1 DEF ResetStart, TypeOK, PC
    <2>6. ASSUME NEW i \in Machine, ResetStep(i) PROVE TypeOK'
      <3>1. polled' \in [Machine -> Nat] /\ fin' \in [Machine -> Nat]
        BY <2>6 DEF ResetStep, TypeOK
      <3>2. CASE ClearExit(i)
        BY <3>1, <3>2 DEF ClearExit, TypeOK, PC
      <3>3. CASE ResetLoop(i)
        <4>1. /\ buffIdList' \in [Machine -> [Machine -> Seq(Slot)]]
              /\ releaseIdList' \in [Machine -> [Machine -> Seq(Slot)]]
              /\ chan' \in [Machine -> [Machine -> Seq(Message)]]
          <5>1. ClearWriteRelease(i)
            BY <3>3 DEF ResetLoop
          <5>2. \A m \in Noted(i) :
                  /\ m \in Machine
                  /\ [control |-> "CLEAR", buf |-> Head(buffIdList[i][m]),
                      ids |-> releaseIdList[i][m]] \in Message
                  /\ Rotate(buffIdList[i][m]) \in Seq(Slot)
            BY <5>1, ClearTyped DEF ClearWriteRelease, Noted
          <5> DEFINE post(m) == Append(chan[i][m],
                        [control |-> "CLEAR", buf |-> Head(buffIdList[i][m]),
                         ids |-> releaseIdList[i][m]])
                      cs == [m \in Machine |->
                        IF m \in Noted(i) THEN post(m) ELSE chan[i][m]]
                      bs == [m \in Machine |->
                        IF m \in Noted(i) THEN Rotate(buffIdList[i][m]) ELSE buffIdList[i][m]]
                      rs == [m \in Machine |-> <<>>]
          <5>3. \A m \in Noted(i) : post(m) \in Seq(Message)
            BY <5>2 DEF TypeOK
          <5>4. /\ chan' = [chan EXCEPT ![i] = cs]
                /\ buffIdList' = [buffIdList EXCEPT ![i] = bs]
                /\ releaseIdList' = [releaseIdList EXCEPT ![i] = rs]
            BY <5>1 DEF ClearWriteRelease
          <5>5. cs \in [Machine -> Seq(Message)]
            <6>1. \A m \in Machine : chan[i][m] \in Seq(Message)
              BY DEF TypeOK
            <6> HIDE DEF post
            <6> QED BY <5>3, <6>1
          <5>6. bs \in [Machine -> Seq(Slot)]
            <6>1. \A m \in Machine : buffIdList[i][m] \in Seq(Slot)
              BY DEF TypeOK
            <6>2. \A m \in Noted(i) : Rotate(buffIdList[i][m]) \in Seq(Slot)
              BY <5>2
            <6> QED BY <6>1, <6>2
          <5>7. rs \in [Machine -> Seq(Slot)]
            OBVIOUS
          <5> HIDE DEF cs, bs, rs
          <5> QED BY <5>4, <5>5, <5>6, <5>7, RowUpdate DEF TypeOK
        <4>2. /\ pc' \in [Machine -> PC] /\ peer' \in [Machine -> Machine]
              /\ batch' \in [Machine -> Nat] /\ sent' \in [Machine -> [Machine -> Nat]]
          <5>1. peer[i] \in Machine /\ peer[i] < MachineNum - 1 => peer[i] + 1 \in Machine
            BY MachineAssumption DEF Machine
          <5>2. [k \in Machine |-> 0] \in [Machine -> Nat]
            OBVIOUS
          <5>3. CASE UNCHANGED <<pc, peer, batch, sent>>
            BY <5>3 DEF TypeOK
          <5>4. CASE /\ peer[i] < MachineNum - 1
                     /\ peer' = [peer EXCEPT ![i] = peer[i] + 1]
                     /\ UNCHANGED <<pc, batch, sent>>
            BY <5>1, <5>4 DEF TypeOK
          <5>5. CASE /\ batch' = [batch EXCEPT ![i] = batch[i] + 1]
                     /\ pc' = [pc EXCEPT ![i] = IF batch[i] + 1 < MaxBatch THEN "run" ELSE "done"]
                     /\ sent' = [sent EXCEPT ![i] = [k \in Machine |-> 0]]
                     /\ UNCHANGED peer
            <6>1. sent' \in [Machine -> [Machine -> Nat]]
              BY <5>2, <5>5, RowUpdate DEF TypeOK
            <6>2. pc' \in [Machine -> PC] /\ batch' \in [Machine -> Nat]
              BY <5>5 DEF TypeOK, PC
            <6> QED BY <5>5, <6>1, <6>2 DEF TypeOK
          <5> QED BY <3>3, <5>3, <5>4, <5>5 DEF ResetLoop
        <4> QED BY <3>1, <4>1, <4>2 DEF TypeOK
      <3> QED BY <2>6, <3>2, <3>3 DEF ResetStep
    <2>7. CASE UNCHANGED vars
      BY <2>7 DEF vars, TypeOK
    <2> QED BY <2>1, <2>2, <2>3, <2>4, <2>5, <2>6, <2>7 DEF Next
  <1> QED BY <1>1, <1>2, PTL DEF Spec

-----------------------------------------------------------------------------
(* The effect of one poll on the two directions of a pair. *)

(* The receiver i of j's oldest write takes home what it gives back. *)
LEMMA PollTakesHome ==
  ASSUME TypeOK, SlotOwnership, NEW i \in Machine, NEW j \in Machine, chan[j][i] # <<>>
  PROVE  LET free == Replenished(i, j, Head(chan[j][i])) IN
         /\ Owned(free, chan[i][j], releaseIdList[j][i], Tail(chan[j][i]))
         /\ PairType(free, chan[i][j], releaseIdList[j][i], Tail(chan[j][i]))
  <1>1. PairType(buffIdList[i][j], chan[i][j], releaseIdList[j][i], chan[j][i])
    BY PairTyped
  <1>2. Owned(buffIdList[i][j], chan[i][j], releaseIdList[j][i], chan[j][i])
    BY DEF SlotOwnership
  <1>3. Owned(buffIdList[i][j] \o Head(chan[j][i]).ids, chan[i][j],
              releaseIdList[j][i], Tail(chan[j][i]))
    BY <1>1, <1>2, MoveHome
  <1>4. Replenished(i, j, Head(chan[j][i])) \in Seq(Slot)
    BY HeadTyped
  <1>5. Tail(chan[j][i]) \in Seq(Message)
    BY <1>1 DEF PairType
  <1> QED BY <1>1, <1>3, <1>4, <1>5 DEF Replenished, PairType

(* The sender j's slot is noted by i. *)
LEMMA PollNotes ==
  ASSUME TypeOK, SlotOwnership, NEW i \in Machine, NEW j \in Machine, chan[j][i] # <<>>,
         Head(chan[j][i]).control # "CLEAR"
  PROVE  LET noted == Append(releaseIdList[i][j], Head(chan[j][i]).buf) IN
         /\ Owned(buffIdList[j][i], Tail(chan[j][i]), noted, chan[i][j])
         /\ PairType(buffIdList[j][i], Tail(chan[j][i]), noted, chan[i][j])
  <1>1. PairType(buffIdList[j][i], chan[j][i], releaseIdList[i][j], chan[i][j])
    BY PairTyped
  <1>2. Owned(buffIdList[j][i], chan[j][i], releaseIdList[i][j], chan[i][j])
    BY DEF SlotOwnership
  <1>3. Owned(buffIdList[j][i], Tail(chan[j][i]),
              Append(releaseIdList[i][j], Head(chan[j][i]).buf), chan[i][j])
    BY <1>1, <1>2, MoveNote
  <1>4. Head(chan[j][i]).buf \in Slot
    BY HeadTyped
  <1>5. /\ Append(releaseIdList[i][j], Head(chan[j][i]).buf) \in Seq(Slot)
        /\ Tail(chan[j][i]) \in Seq(Message)
    BY <1>1, <1>4 DEF PairType
  <1> QED BY <1>1, <1>3, <1>5 DEF PairType

(* Every slot is always in exactly one place, whatever the interleaving of *)
(* sends, polls, releases and resets.                                      *)
THEOREM OwnershipCorrect == Spec => []SlotOwnership
  <1>1. Init => SlotOwnership
    <2> SUFFICES ASSUME Init PROVE SlotOwnership
      OBVIOUS
    <2>1. Elems(<<>>) = {} /\ NoDup(<<>>) /\ Owning(<<>>) = {} /\ DOMAIN <<>> = {}
      BY DEF Elems, NoDup, Owning
    <2>2. Flight(<<>>) = {} /\ Returned(<<>>) = {}
      BY <2>1 DEF Flight, Returned
    <2>3. Elems(AllSlots) = Slot
      BY BlockAssumption DEF Elems, AllSlots, Slot
    <2>4. NoDup(AllSlots)
      BY BlockAssumption DEF NoDup, AllSlots
    <2>5. OncePerPlace(AllSlots, <<>>, <<>>, <<>>)
      BY <2>1, <2>4 DEF OncePerPlace
    <2>6. OnePlace(AllSlots, <<>>, <<>>, <<>>)
      BY <2>1, <2>2, <2>3 DEF OnePlace
    <2>7. Owned(AllSlots, <<>>, <<>>, <<>>)
      BY <2>5, <2>6 DEF Owned
    <2> QED BY <2>7 DEF Init, SlotOwnership
  <1>2. TypeOK /\ SlotOwnership /\ [Next]_vars => SlotOwnership'
    <2> SUFFICES ASSUME TypeOK, SlotOwnership, [Next]_vars,
                        NEW p \in Machine, NEW q \in Machine
                 PROVE  Owned(buffIdList[p][q], chan[p][q],
                              releaseIdList[q][p], chan[q][p])'
      BY DEF SlotOwnership
    <2> DEFINE Goal == Owned(buffIdList[p][q], chan[p][q],
                             releaseIdList[q][p], chan[q][p])'
    <2>0. /\ PairType(buffIdList[p][q], chan[p][q], releaseIdList[q][p], chan[q][p])
          /\ Owned(buffIdList[p][q], chan[p][q], releaseIdList[q][p], chan[q][p])
      BY PairTyped DEF SlotOwnership
    <2>2. ASSUME NEW i \in Machine, PostWriteSend(i) PROVE Goal
      <3> DEFINE m == peer[i]
                 d == [control |-> "DATA", buf |-> Head(buffIdList[i][m]), ids |-> <<>>]
      <3>1. m \in Machine /\ Len(buffIdList[i][m]) > ReleaseBlock
        BY <2>2 DEF PostWriteSend, TypeOK
      <3>2. buffIdList[i][m] # <<>> /\ d \in Message
        BY <3>1, DataTyped
      <3>3. /\ releaseIdList' = releaseIdList
            /\ \A a, b \in Machine :
                 /\ buffIdList'[a][b] = IF a = i /\ b = m THEN Tail(buffIdList[i][m])
                                                          ELSE buffIdList[a][b]
                 /\ chan'[a][b] = IF a = i /\ b = m THEN Append(chan[i][m], d)
                                                    ELSE chan[a][b]
        BY <2>2, <3>1 DEF PostWriteSend, TypeOK
      <3>4. d.control # "CLEAR" /\ d.ids = <<>> /\ d.buf = Head(buffIdList[i][m])
        OBVIOUS
      <3> HIDE DEF d, m
      <3>5. CASE p = i /\ q = m
        <4>1. Owned(Tail(buffIdList[p][q]), Append(chan[p][q], d),
                    releaseIdList[q][p], chan[q][p])
          BY <2>0, <3>2, <3>4, <3>5, MoveTake
        <4>2. CASE p # q
          BY <3>3, <3>5, <4>1, <4>2
        <4>3. CASE p = q
          <5>1. PairType(Tail(buffIdList[p][q]), Append(chan[p][q], d),
                         releaseIdList[q][p], chan[q][p])
            BY <2>0, <3>2, <3>5 DEF PairType
          <5>2. Owned(Tail(buffIdList[p][q]), Append(chan[p][q], d),
                      releaseIdList[q][p], Append(chan[q][p], d))
            BY <4>1, <5>1, <3>2, <3>4, MoveNothing
          <5> QED BY <3>3, <3>5, <4>3, <5>2
        <4> QED BY <4>2, <4>3
      <3>6. CASE p = m /\ q = i /\ p # q
        <4>1. Owned(buffIdList[p][q], chan[p][q], releaseIdList[q][p],
                    Append(chan[q][p], d))
          BY <2>0, <3>2, <3>4, MoveNothing
        <4> QED BY <3>3, <3>6, <4>1
      <3>7. CASE ~(p = i /\ q = m) /\ ~(p = m /\ q = i)
        BY <2>0, <3>3, <3>7
      <3> QED BY <3>5, <3>6, <3>7
    <2>3. ASSUME NEW i \in Machine, NEW j \in Machine, PollRecv(i, j) PROVE Goal
      <3> DEFINE msg == Head(chan[j][i])
                 free == Replenished(i, j, msg)
                 noted == Append(releaseIdList[i][j], msg.buf)
      <3>1. chan[j][i] # <<>> /\ i # j
        BY <2>3 DEF PollRecv
      <3>2. /\ Owned(free, chan[i][j], releaseIdList[j][i], Tail(chan[j][i]))
            /\ PairType(free, chan[i][j], releaseIdList[j][i], Tail(chan[j][i]))
        BY <3>1, PollTakesHome
      <3>3. CASE PollClear(i, j, msg)
        <4>1. /\ releaseIdList' = releaseIdList
              /\ \A a, b \in Machine :
                   /\ buffIdList'[a][b] = IF a = i /\ b = j THEN free ELSE buffIdList[a][b]
                   /\ chan'[a][b] = IF a = j /\ b = i THEN Tail(chan[j][i]) ELSE chan[a][b]
          BY <3>3 DEF PollClear, TypeOK
        <4>2. Owned(buffIdList[j][i], Tail(chan[j][i]), releaseIdList[i][j], chan[i][j])
          <5>1. /\ PairType(buffIdList[j][i], chan[j][i], releaseIdList[i][j], chan[i][j])
                /\ Owned(buffIdList[j][i], chan[j][i], releaseIdList[i][j], chan[i][j])
            BY PairTyped DEF SlotOwnership
          <5>2. Head(chan[j][i]).control = "CLEAR"
            BY <3>3 DEF PollClear
          <5> QED BY <5>1, <5>2, <3>1, MoveClearIn
        <4> HIDE DEF free, msg
        <4> QED BY <2>0, <3>1, <3>2, <4>1, <4>2
      <3>4. CASE PollNote(i, j, msg)
        <4>1. \A a, b \in Machine :
                /\ buffIdList'[a][b] = IF a = i /\ b = j THEN free ELSE buffIdList[a][b]
                /\ releaseIdList'[a][b] = IF a = i /\ b = j THEN noted ELSE releaseIdList[a][b]
                /\ chan'[a][b] = IF a = j /\ b = i THEN Tail(chan[j][i]) ELSE chan[a][b]
          BY <3>4 DEF PollNote, TypeOK
        <4>2. Owned(buffIdList[j][i], Tail(chan[j][i]), noted, chan[i][j])
          BY <3>1, <3>4, PollNotes DEF PollNote
        <4> HIDE DEF free, msg, noted
        <4> QED BY <2>0, <3>1, <3>2, <4>1, <4>2
      <3>5. CASE PollRelease(i, j, msg)
        <4> DEFINE r == [control |-> "RELEASE", buf |-> Head(free), ids |-> noted]
        <4>1. free # <<>> /\ msg.control # "CLEAR"
          BY <3>5 DEF PollRelease
        <4>2. r \in Message
          BY <3>1, <4>1, ReleaseTyped
        <4>3. \A a, b \in Machine :
                /\ buffIdList'[a][b] = IF a = i /\ b = j THEN Tail(free) ELSE buffIdList[a][b]
                /\ releaseIdList'[a][b] = IF a = i /\ b = j THEN <<>> ELSE releaseIdList[a][b]
          BY <3>5 DEF PollRelease, TypeOK
        <4>4. \A a, b \in Machine :
                chan'[a][b] = IF a = j /\ b = i THEN Tail(chan[j][i])
                              ELSE IF a = i /\ b = j THEN Append(chan[i][j], r)
                              ELSE chan[a][b]
          BY <3>1, <3>5 DEF PollRelease, TypeOK
        <4>5. r.control # "CLEAR" /\ r.buf = Head(free) /\ r.ids = noted
          OBVIOUS
        <4>6. /\ Owned(buffIdList[j][i], Tail(chan[j][i]), noted, chan[i][j])
              /\ PairType(buffIdList[j][i], Tail(chan[j][i]), noted, chan[i][j])
          BY <3>1, <4>1, PollNotes
        <4> HIDE DEF r, free, msg, noted
        <4>7. Owned(Tail(free), Append(chan[i][j], r), releaseIdList[j][i], Tail(chan[j][i]))
          BY <3>2, <4>1, <4>2, <4>5, MoveTake
        <4>8. Owned(buffIdList[j][i], Tail(chan[j][i]), <<>>, Append(chan[i][j], r))
          BY <4>2, <4>5, <4>6, MoveAnnounce
        <4> QED BY <2>0, <3>1, <4>3, <4>4, <4>7, <4>8
      <3>6. CASE PollExit(i, j, msg)
        BY <2>0, <3>6 DEF PollExit
      <3> QED BY <2>3, <3>3, <3>4, <3>5, <3>6 DEF PollRecv
    <2>4. ASSUME NEW i \in Machine, ClearWriteRelease(i) PROVE Goal
      <3> DEFINE c(m) == [control |-> "CLEAR", buf |-> Head(buffIdList[i][m]),
                          ids |-> releaseIdList[i][m]]
      <3>1. \A a, b \in Machine :
              /\ chan'[a][b] = IF a = i /\ b \in Noted(i) THEN Append(chan[a][b], c(b))
                                                          ELSE chan[a][b]
              /\ buffIdList'[a][b] = IF a = i /\ b \in Noted(i) THEN Rotate(buffIdList[a][b])
                                                                ELSE buffIdList[a][b]
              /\ releaseIdList'[a][b] = IF a = i THEN <<>> ELSE releaseIdList[a][b]
        BY <2>4 DEF ClearWriteRelease, TypeOK
      <3>2. \A m \in Noted(i) : m \in Machine /\ buffIdList[i][m] # <<>>
        BY <2>4 DEF ClearWriteRelease, Noted
      <3>3. \A m \in Noted(i) : c(m) \in Message
        BY <3>2, ClearTyped
      <3>4. \A m \in Machine : c(m).control = "CLEAR" /\ c(m).ids = releaseIdList[i][m]
        OBVIOUS
      <3>5. \A m \in Machine : m \notin Noted(i) => releaseIdList[i][m] = <<>>
        BY DEF Noted
      <3> HIDE DEF c
      <3> DEFINE f == IF p = i /\ q \in Noted(i) THEN Rotate(buffIdList[p][q]) ELSE buffIdList[p][q]
                 o == IF p = i /\ q \in Noted(i) THEN Append(chan[p][q], c(q)) ELSE chan[p][q]
                 n == IF q = i THEN <<>> ELSE releaseIdList[q][p]
                 b == IF q = i /\ p \in Noted(i) THEN Append(chan[q][p], c(p)) ELSE chan[q][p]
      <3>6. /\ Owned(f, o, releaseIdList[q][p], chan[q][p])
            /\ PairType(f, o, releaseIdList[q][p], chan[q][p])
        <4>1. CASE p = i /\ q \in Noted(i)
          <5>1. /\ Owned(Rotate(buffIdList[p][q]), chan[p][q], releaseIdList[q][p], chan[q][p])
                /\ Rotate(buffIdList[p][q]) \in Seq(Slot)
            BY <2>0, <3>2, <4>1, MoveRotate
          <5>2. PairType(Rotate(buffIdList[p][q]), chan[p][q], releaseIdList[q][p], chan[q][p])
            BY <2>0, <5>1 DEF PairType
          <5>3. Owned(Rotate(buffIdList[p][q]), Append(chan[p][q], c(q)),
                      releaseIdList[q][p], chan[q][p])
            BY <3>3, <3>4, <4>1, <5>1, <5>2, MoveClearOut
          <5>4. Append(chan[p][q], c(q)) \in Seq(Message)
            BY <3>3, <4>1, <5>2 DEF PairType
          <5> QED BY <4>1, <5>2, <5>3, <5>4 DEF PairType
        <4>2. CASE ~(p = i /\ q \in Noted(i))
          BY <2>0, <4>2
        <4> QED BY <4>1, <4>2
      <3> HIDE DEF f, o
      <3>7. Owned(f, o, n, b)
        <4>1. CASE q = i /\ p \in Noted(i)
          <5>1. c(p).ids = releaseIdList[q][p] /\ c(p) \in Message
            BY <3>3, <3>4, <4>1
          <5>2. Owned(f, o, <<>>, Append(chan[q][p], c(p)))
            BY <3>6, <5>1, MoveAnnounce
          <5> QED BY <4>1, <5>2
        <4>2. CASE q = i /\ p \notin Noted(i)
          BY <3>5, <3>6, <4>2
        <4>3. CASE q # i
          BY <3>6, <4>3
        <4> QED BY <4>1, <4>2, <4>3
      <3>8. /\ buffIdList'[p][q] = f /\ chan'[p][q] = o
            /\ releaseIdList'[q][p] = n /\ chan'[q][p] = b
        BY <3>1 DEF f, o
      <3> HIDE DEF n, b
      <3> QED BY <3>7, <3>8
    <2>5. ASSUME NEW i \in Machine, ResetStep(i) PROVE Goal
      <3>1. CASE ResetLoop(i)
        BY <2>4, <3>1 DEF ResetLoop
      <3>2. CASE ClearExit(i)
        BY <2>0, <3>2 DEF ClearExit
      <3> QED BY <2>5, <3>1, <3>2 DEF ResetStep
    <2>6. ASSUME NEW i \in Machine, \/ \E m \in Machine : GetStart(i, m)
                                    \/ Finish(i) \/ ResetStart(i)
          PROVE  Goal
      <3>1. UNCHANGED <<buffIdList, releaseIdList, chan>>
        BY <2>6 DEF GetStart, Finish, ResetStart
      <3> QED BY <2>0, <3>1
    <2>7. CASE UNCHANGED vars
      BY <2>0, <2>7 DEF vars
    <2> QED BY <2>2, <2>3, <2>5, <2>6, <2>7 DEF Next
  <1> QED BY <1>1, <1>2, TypeCorrect, PTL DEF Spec

-----------------------------------------------------------------------------
(***************************************************************************)
(* Proof that the reserve of the write channel suffices: get_write_send_buf*)
(* never finds the free list empty when it needs a slot for a RELEASE or a *)
(* CLEAR ("expect sbuf always avaliable"), for every number of machines,   *)
(* messages and batches and for all sizes with                             *)
(*   MAX_WRITE_NUM < RELEASE_BLOCK * (RELEASE_BLOCK + 1),                  *)
(* of which 512 and 128 are an instance.                                   *)
(*                                                                         *)
(* The argument counts what the unread messages of a channel carry.  The   *)
(* sums over a sequence are given by a function g: g[k] is the weight of   *)
(* the messages behind the k oldest ones, and Sums(o, g) are the facts     *)
(* about it that survive when a message is appended or the oldest is read. *)
(***************************************************************************)

(* What messages weigh: RELEASE messages, DATA messages, and the slot      *)
(* numbers in CLEAR messages.                                              *)
Weight == [rel : Nat, dat : Nat, cle : Nat]
NoWeight == [rel |-> 0, dat |-> 0, cle |-> 0]

Weigh(m) ==
  [rel |-> IF m.control = "RELEASE" THEN 1 ELSE 0,
   dat |-> IF m.control = "DATA" THEN 1 ELSE 0,
   cle |-> IF m.control = "CLEAR" THEN Len(m.ids) ELSE 0]

Plus(v, w) == [rel |-> v.rel + w.rel, dat |-> v.dat + w.dat, cle |-> v.cle + w.cle]
AtMost(v, w) == v.rel <= w.rel /\ v.dat <= w.dat /\ v.cle <= w.cle

(* Slots a sequence of messages gives back, and slots it occupies.         *)
Ids(w) == ReleaseBlock * w.rel + w.cle
Own(w) == w.rel + w.dat

(* A RELEASE gives back a whole block, DATA nothing.                       *)
Fits(m) ==
  /\ m.control = "RELEASE" => Len(m.ids) = ReleaseBlock
  /\ m.control = "DATA" => Len(m.ids) = 0

Sums(o, g) ==
  /\ g \in [Nat -> Weight]
  /\ g[Len(o)] = NoWeight
  /\ \A k \in 1 .. Len(o) : Fits(o[k]) /\ g[k - 1] = Plus(g[k], Weigh(o[k]))
  /\ \A a, k \in 0 .. Len(o) : a <= k => AtMost(g[k], g[a])
  /\ \A k \in 0 .. Len(o) :
       (\A p \in 1 .. Len(o) : k < p => o[p].control # "DATA") => g[k].dat = 0

Grow(g, n, m) == [k \in Nat |-> IF k <= n THEN Plus(g[k], Weigh(m)) ELSE NoWeight]
Shift(g) == [k \in Nat |-> g[k + 1]]

-----------------------------------------------------------------------------
(* Weights are added and compared field by field. *)
LEMMA PlusTyped ==
  ASSUME NEW v \in Weight, NEW m \in Message
  PROVE  Weigh(m) \in Weight /\ Plus(v, Weigh(m)) \in Weight
  <1>1. Len(m.ids) \in Nat
    BY DEF Message
  <1> QED BY <1>1 DEF Weight, Weigh, Plus

(* The order in which weights are added does not matter. *)
LEMMA PlusSwap ==
  ASSUME NEW u \in Weight, NEW v \in Weight, NEW w \in Weight
  PROVE  Plus(Plus(u, v), w) = Plus(Plus(u, w), v)
  <1>1. /\ u.rel \in Nat /\ u.dat \in Nat /\ u.cle \in Nat
        /\ v.rel \in Nat /\ v.dat \in Nat /\ v.cle \in Nat
        /\ w.rel \in Nat /\ w.dat \in Nat /\ w.cle \in Nat
    BY DEF Weight
  <1>2. /\ (u.rel + v.rel) + w.rel = (u.rel + w.rel) + v.rel
        /\ (u.dat + v.dat) + w.dat = (u.dat + w.dat) + v.dat
        /\ (u.cle + v.cle) + w.cle = (u.cle + w.cle) + v.cle
    BY <1>1
  <1> QED BY <1>2 DEF Plus

(* A new message is behind all others. *)
LEMMA SumsAppend ==
  ASSUME NEW o \in Seq(Message), NEW g, Sums(o, g), NEW m \in Message, Fits(m)
  PROVE  Sums(Append(o, m), Grow(g, Len(o), m))
  <1> DEFINE L == Len(o)
             e == Grow(g, L, m)
             u == Append(o, m)
  <1>1. /\ L \in Nat /\ Len(u) = L + 1
        /\ \A k \in 1 .. L : u[k] = o[k]
        /\ u[L + 1] = m
    OBVIOUS
  <1>2. /\ \A k \in Nat : g[k] \in Weight
        /\ g[L] = NoWeight
        /\ \A k \in 1 .. L : Fits(o[k]) /\ g[k - 1] = Plus(g[k], Weigh(o[k]))
        /\ \A a, k \in 0 .. L : a <= k => AtMost(g[k], g[a])
        /\ \A k \in 0 .. L :
             (\A p \in 1 .. L : k < p => o[p].control # "DATA") => g[k].dat = 0
    BY DEF Sums
  <1>3. NoWeight \in Weight
    BY DEF NoWeight, Weight
  <1>4. /\ e \in [Nat -> Weight]
        /\ \A k \in 0 .. L : e[k] = Plus(g[k], Weigh(m))
        /\ e[L + 1] = NoWeight
    BY <1>1, <1>2, <1>3, PlusTyped DEF Grow
  <1>5. \A k \in 0 .. L :
          /\ e[k].rel = g[k].rel + Weigh(m).rel
          /\ e[k].dat = g[k].dat + Weigh(m).dat
          /\ e[k].cle = g[k].cle + Weigh(m).cle
    BY <1>4 DEF Plus
  <1>6. /\ Weigh(m).rel \in Nat /\ Weigh(m).dat \in Nat /\ Weigh(m).cle \in Nat
    BY <1>2, PlusTyped DEF Weight
  <1>7. \A k \in Nat : /\ g[k].rel \in Nat /\ g[k].dat \in Nat /\ g[k].cle \in Nat
                       /\ e[k].rel \in Nat /\ e[k].dat \in Nat /\ e[k].cle \in Nat
    BY <1>2, <1>4 DEF Weight
  <1> HIDE DEF e, u, L
  <1>8. ASSUME NEW k \in 1 .. L + 1
        PROVE  Fits(u[k]) /\ e[k - 1] = Plus(e[k], Weigh(u[k]))
    <2>1. CASE k = L + 1
      <3>1. e[k - 1] = Plus(g[L], Weigh(m)) /\ e[k] = NoWeight /\ u[k] = m
        BY <2>1, <1>1, <1>4
      <3> QED BY <3>1, <1>2
    <2>2. CASE k \in 1 .. L
      <3>1. /\ e[k - 1] = Plus(g[k - 1], Weigh(m)) /\ e[k] = Plus(g[k], Weigh(m))
            /\ u[k] = o[k] /\ Fits(o[k]) /\ g[k - 1] = Plus(g[k], Weigh(o[k]))
            /\ k \in Nat
        BY <2>2, <1>1, <1>2, <1>4
      <3>2. o[k] \in Message
        BY <2>2 DEF L
      <3>3. g[k] \in Weight /\ Weigh(o[k]) \in Weight /\ Weigh(m) \in Weight
        BY <3>1, <3>2, <1>2, PlusTyped
      <3>4. Plus(Plus(g[k], Weigh(o[k])), Weigh(m)) = Plus(Plus(g[k], Weigh(m)), Weigh(o[k]))
        BY <3>3, PlusSwap
      <3> QED BY <3>1, <3>4
    <2> QED BY <2>1, <2>2, <1>1
  <1>9. ASSUME NEW a \in 0 .. L + 1, NEW k \in 0 .. L + 1, a <= k
        PROVE  AtMost(e[k], e[a])
    <2>1. CASE k = L + 1
      <3>1. a \in Nat
        BY <1>1
      <3> QED BY <3>1, <2>1, <1>4, <1>7 DEF AtMost, NoWeight
    <2>2. CASE k # L + 1
      <3>1. a \in 0 .. L /\ k \in 0 .. L /\ a \in Nat /\ k \in Nat
        BY <2>2, <1>1, <1>9
      <3>2. AtMost(g[k], g[a])
        BY <3>1, <1>2, <1>9
      <3>3. /\ g[k].rel <= g[a].rel /\ g[k].dat <= g[a].dat /\ g[k].cle <= g[a].cle
        BY <3>2 DEF AtMost
      <3>4. /\ g[k].rel \in Nat /\ g[k].dat \in Nat /\ g[k].cle \in Nat
            /\ g[a].rel \in Nat /\ g[a].dat \in Nat /\ g[a].cle \in Nat
        BY <3>1, <1>7
      <3>5. /\ e[k].rel = g[k].rel + Weigh(m).rel /\ e[a].rel = g[a].rel + Weigh(m).rel
            /\ e[k].dat = g[k].dat + Weigh(m).dat /\ e[a].dat = g[a].dat + Weigh(m).dat
            /\ e[k].cle = g[k].cle + Weigh(m).cle /\ e[a].cle = g[a].cle + Weigh(m).cle
        BY <3>1, <1>5
      <3>6. \A x, y, z \in Nat : x <= y => x + z <= y + z
        OBVIOUS
      <3>7. /\ g[k].rel + Weigh(m).rel <= g[a].rel + Weigh(m).rel
            /\ g[k].dat + Weigh(m).dat <= g[a].dat + Weigh(m).dat
            /\ g[k].cle + Weigh(m).cle <= g[a].cle + Weigh(m).cle
        BY <3>3, <3>4, <3>6, <1>6
      <3> QED BY <3>5, <3>7, Zenon DEF AtMost
    <2> QED BY <2>1, <2>2
  <1>10. ASSUME NEW k \in 0 .. L + 1,
                \A p \in 1 .. L + 1 : k < p => u[p].control # "DATA"
         PROVE  e[k].dat = 0
    <2>1. CASE k = L + 1
      BY <2>1, <1>4 DEF NoWeight
    <2>2. CASE k # L + 1
      <3>1. k \in 0 .. L /\ L + 1 \in 1 .. L + 1 /\ k < L + 1
        BY <2>2, <1>1
      <3>2. m.control # "DATA"
        BY <3>1, <1>1, <1>10
      <3>3. \A p \in 1 .. L : k < p => o[p].control # "DATA"
        BY <1>1, <1>10
      <3>4. g[k].dat = 0
        BY <3>1, <3>3, <1>2
      <3> QED BY <3>1, <3>2, <3>4, <1>5 DEF Weigh
    <2> QED BY <2>1, <2>2
  <1>11. e[L + 1] = NoWeight /\ e \in [Nat -> Weight]
    BY <1>4
  <1>12. Sums(u, e)
    BY <1>1, <1>8, <1>9, <1>10, <1>11 DEF Sums
  <1> QED BY <1>12 DEF u, e, L

(* Reading the oldest message moves all positions. *)
LEMMA SumsTail ==
  ASSUME NEW o \in Seq(Message), o # <<>>, NEW g, Sums(o, g)
  PROVE  /\ Sums(Tail(o), Shift(g))
         /\ Fits(Head(o)) /\ g[0] = Plus(g[1], Weigh(Head(o)))
  <1> DEFINE L == Len(o)
             u == Tail(o)
             e == Shift(g)
  <1>1. /\ L \in Nat /\ L >= 1 /\ Len(u) = L - 1
        /\ \A k \in 1 .. L - 1 : u[k] = o[k + 1]
        /\ Head(o) = o[1]
    OBVIOUS
  <1>2. /\ \A k \in Nat : g[k] \in Weight
        /\ g[L] = NoWeight
        /\ \A k \in 1 .. L : Fits(o[k]) /\ g[k - 1] = Plus(g[k], Weigh(o[k]))
        /\ \A a, k \in 0 .. L : a <= k => AtMost(g[k], g[a])
        /\ \A k \in 0 .. L :
             (\A p \in 1 .. L : k < p => o[p].control # "DATA") => g[k].dat = 0
    BY DEF Sums
  <1>3. e \in [Nat -> Weight] /\ \A k \in Nat : e[k] = g[k + 1]
    BY <1>2 DEF Shift
  <1> HIDE DEF e, u, L
  <1>4. e[L - 1] = NoWeight
    <2>1. L - 1 \in Nat /\ (L - 1) + 1 = L
      BY <1>1
    <2>2. e[L - 1] = g[(L - 1) + 1]
      BY <2>1, <1>3
    <2> QED BY <2>1, <2>2, <1>2
  <1>5. ASSUME NEW k \in 1 .. L - 1
        PROVE  Fits(u[k]) /\ e[k - 1] = Plus(e[k], Weigh(u[k]))
    <2>1. /\ k + 1 \in 1 .. L /\ u[k] = o[k + 1] /\ (k + 1) - 1 = k
          /\ e[k - 1] = g[k] /\ e[k] = g[k + 1]
      <3>1. k \in Nat /\ k - 1 \in Nat /\ (k - 1) + 1 = k /\ k + 1 \in 1 .. L
        BY <1>1
      <3>2. e[k - 1] = g[(k - 1) + 1] /\ e[k] = g[k + 1]
        BY <3>1, <1>3
      <3>3. (k + 1) - 1 = k
        BY <3>1
      <3> QED BY <3>1, <3>2, <3>3, <1>1
    <2>2. Fits(o[k + 1]) /\ g[(k + 1) - 1] = Plus(g[k + 1], Weigh(o[k + 1]))
      BY <2>1, <1>2
    <2> QED BY <2>1, <2>2
  <1>6. ASSUME NEW a \in 0 .. L - 1, NEW k \in 0 .. L - 1, a <= k
        PROVE  AtMost(e[k], e[a])
    <2>1. a + 1 \in 0 .. L /\ k + 1 \in 0 .. L /\ a + 1 <= k + 1 /\ a \in Nat /\ k \in Nat
      BY <1>1, <1>6
    <2>2. AtMost(g[k + 1], g[a + 1])
      BY <2>1, <1>2
    <2> QED BY <2>1, <2>2, <1>3
  <1>7. ASSUME NEW k \in 0 .. L - 1,
               \A p \in 1 .. L - 1 : k < p => u[p].control # "DATA"
        PROVE  e[k].dat = 0
    <2>1. k + 1 \in 0 .. L /\ k \in Nat
      BY <1>1
    <2>2. ASSUME NEW p \in 1 .. L, k + 1 < p PROVE o[p].control # "DATA"
      <3>1. p - 1 \in 1 .. L - 1 /\ k < p - 1 /\ (p - 1) + 1 = p
        BY <2>1, <2>2, <1>1
      <3>2. u[p - 1].control # "DATA" /\ u[p - 1] = o[(p - 1) + 1]
        BY <3>1, <1>1, <1>7
      <3> QED BY <3>1, <3>2
    <2>3. g[k + 1].dat = 0
      BY <2>1, <2>2, <1>2
    <2> QED BY <2>1, <2>3, <1>3
  <1>8. Sums(u, e)
    BY <1>1, <1>3, <1>4, <1>5, <1>6, <1>7 DEF Sums
  <1>9. Fits(o[1]) /\ g[0] = Plus(g[1], Weigh(o[1]))
    <2>1. 1 \in 1 .. L /\ 1 - 1 = 0
      BY <1>1
    <2>2. Fits(o[1]) /\ g[1 - 1] = Plus(g[1], Weigh(o[1]))
      BY <2>1, <1>2
    <2> QED BY <2>1, <2>2
  <1> QED BY <1>1, <1>8, <1>9 DEF u, e

-----------------------------------------------------------------------------
(* Slots that a message occupies and gives back, as numbers. *)

OwnOf(m) == IF m.control = "CLEAR" THEN 0 ELSE 1

(* A message that fits adds to both numbers what it occupies and carries. *)
LEMMA PlusCounts ==
  ASSUME NEW w \in Weight, NEW m \in Message, Fits(m)
  PROVE  /\ Ids(w) \in Nat /\ Own(w) \in Nat
         /\ Len(m.ids) \in Nat /\ OwnOf(m) \in {0, 1}
         /\ Ids(Plus(w, Weigh(m))) = Ids(w) + Len(m.ids)
         /\ Own(Plus(w, Weigh(m))) = Own(w) + OwnOf(m)
  <1>1. /\ Len(m.ids) \in Nat /\ m.control \in {"DATA", "RELEASE", "CLEAR"}
        /\ w.rel \in Nat /\ w.dat \in Nat /\ w.cle \in Nat
        /\ ReleaseBlock \in Nat
    BY BlockAssumption DEF Message, Control, Weight
  <1>2. ReleaseBlock * w.rel \in Nat /\ ReleaseBlock * (w.rel + 1) = ReleaseBlock * w.rel + ReleaseBlock
        /\ ReleaseBlock * (w.rel + 0) = ReleaseBlock * w.rel
    BY <1>1
  <1>3. /\ Plus(w, Weigh(m)).rel = w.rel + (IF m.control = "RELEASE" THEN 1 ELSE 0)
        /\ Plus(w, Weigh(m)).dat = w.dat + (IF m.control = "DATA" THEN 1 ELSE 0)
        /\ Plus(w, Weigh(m)).cle = w.cle + (IF m.control = "CLEAR" THEN Len(m.ids) ELSE 0)
    BY DEF Plus, Weigh
  <1> DEFINE p == Plus(w, Weigh(m))
  <1>a. ASSUME NEW r \in Nat, NEW x \in Nat, NEW y \in Nat, NEW c \in Nat,
               NEW d \in Nat, NEW z \in Nat
        PROVE  /\ r * (x + 1) + y = (r * x + y) + r
               /\ r * (x + 0) + (y + 0) = (r * x + y) + 0
               /\ r * (x + 0) + (y + c) = (r * x + y) + c
               /\ (x + 1) + d = (x + d) + 1 /\ x + (d + 1) = (x + d) + 1
               /\ r * x + y \in Nat /\ x + d \in Nat /\ x + 0 = x
    OBVIOUS
  <1>4. CASE m.control = "RELEASE"
    <2>1. /\ p.rel = w.rel + 1 /\ p.dat = w.dat + 0 /\ p.cle = w.cle + 0
          /\ Len(m.ids) = ReleaseBlock /\ OwnOf(m) = 1
      BY <1>3, <1>4 DEF OwnOf, Fits
    <2>2. p.dat = w.dat /\ p.cle = w.cle
      BY <2>1, <1>1
    <2> HIDE DEF p
    <2>3. ReleaseBlock * p.rel + p.cle = (ReleaseBlock * w.rel + w.cle) + ReleaseBlock
      BY <2>1, <2>2, <1>1, <1>a
    <2>4. p.rel + p.dat = (w.rel + w.dat) + 1
      BY <2>1, <2>2, <1>1, <1>a
    <2>5. ReleaseBlock * w.rel + w.cle \in Nat /\ w.rel + w.dat \in Nat
      BY <1>1, <1>a
    <2> QED BY <2>1, <2>3, <2>4, <2>5, <1>1, Zenon DEF Ids, Own, p
  <1>5. CASE m.control = "DATA"
    <2>1. /\ p.rel = w.rel + 0 /\ p.dat = w.dat + 1 /\ p.cle = w.cle + 0
          /\ Len(m.ids) = 0 /\ OwnOf(m) = 1
      BY <1>3, <1>5 DEF OwnOf, Fits
    <2>2. p.rel = w.rel /\ p.cle = w.cle
      BY <2>1, <1>1
    <2> HIDE DEF p
    <2>3. ReleaseBlock * p.rel + p.cle = (ReleaseBlock * w.rel + w.cle) + 0
      BY <2>2, <1>1
    <2>4. p.rel + p.dat = (w.rel + w.dat) + 1
      BY <2>1, <2>2, <1>1, <1>a
    <2>5. ReleaseBlock * w.rel + w.cle \in Nat /\ w.rel + w.dat \in Nat
      BY <1>1, <1>a
    <2> QED BY <2>1, <2>3, <2>4, <2>5, <1>1, Zenon DEF Ids, Own, p
  <1>6. CASE m.control = "CLEAR"
    <2>1. /\ p.rel = w.rel + 0 /\ p.dat = w.dat + 0 /\ p.cle = w.cle + Len(m.ids)
          /\ OwnOf(m) = 0
      BY <1>3, <1>6 DEF OwnOf
    <2>2. p.rel = w.rel /\ p.dat = w.dat
      BY <2>1, <1>1
    <2> HIDE DEF p
    <2>3. ReleaseBlock * p.rel + p.cle = (ReleaseBlock * w.rel + w.cle) + Len(m.ids)
      BY <2>1, <2>2, <1>1, <1>2
    <2>4. p.rel + p.dat = (w.rel + w.dat) + 0
      BY <2>2, <1>1
    <2>5. ReleaseBlock * w.rel + w.cle \in Nat /\ w.rel + w.dat \in Nat
      BY <1>1, <1>a
    <2> QED BY <2>1, <2>3, <2>4, <2>5, <1>1, Zenon DEF Ids, Own, p
  <1> QED BY <1>1, <1>4, <1>5, <1>6

(* The messages behind k weigh at most as much as all, and those up to k   *)
(* give back a block for each RELEASE among them.                          *)
LEMMA SumsBound ==
  ASSUME NEW o \in Seq(Message), NEW g, Sums(o, g), NEW k \in 0 .. Len(o)
  PROVE  /\ Ids(g[0]) \in Nat /\ Own(g[0]) \in Nat /\ g[0].rel \in Nat
         /\ Ids(g[k]) \in Nat /\ Own(g[k]) \in Nat /\ g[k].rel \in Nat
         /\ Ids(g[k]) <= Ids(g[0]) /\ Own(g[k]) <= Own(g[0])
         /\ g[k].rel <= Own(g[k]) /\ g[k].rel <= g[0].rel
         /\ ReleaseBlock * (g[0].rel - g[k].rel) <= Ids(g[0]) - Ids(g[k])
         /\ Own(g[0]) - Own(g[k]) <= Own(g[0]) - g[k].rel
  <1>1. /\ Len(o) \in Nat /\ k \in Nat /\ 0 \in 0 .. Len(o) /\ 0 <= k
        /\ ReleaseBlock \in Nat
    BY BlockAssumption
  <1>2. AtMost(g[k], g[0]) /\ g[0] \in Weight /\ g[k] \in Weight
    BY <1>1 DEF Sums
  <1>3. /\ g[0].rel \in Nat /\ g[0].dat \in Nat /\ g[0].cle \in Nat
        /\ g[k].rel \in Nat /\ g[k].dat \in Nat /\ g[k].cle \in Nat
        /\ g[k].rel <= g[0].rel /\ g[k].dat <= g[0].dat /\ g[k].cle <= g[0].cle
    BY <1>2 DEF Weight, AtMost
  <1>4. ASSUME NEW r \in Nat, NEW x \in Nat, NEW y \in Nat, x <= y
        PROVE  r * x \in Nat /\ r * y \in Nat /\ r * x <= r * y /\ r * (y - x) = r * y - r * x
    <2>1. r * (y - x) = r * y - r * x /\ r * x \in Nat /\ r * y \in Nat
      OBVIOUS
    <2>2. y - x \in Nat
      BY <1>4
    <2>3. r * (y - x) \in Nat
      BY <2>2
    <2> QED BY <2>1, <2>3
  <1>5. LET R == ReleaseBlock IN
        /\ R * g[k].rel \in Nat /\ R * g[0].rel \in Nat /\ R * g[k].rel <= R * g[0].rel
        /\ R * (g[0].rel - g[k].rel) = R * g[0].rel - R * g[k].rel
    BY <1>1, <1>3, <1>4
  <1> DEFINE r == g[k].rel
             d == g[k].dat
             c == g[k].cle
             rr == g[0].rel
             dd == g[0].dat
             cc == g[0].cle
             U == ReleaseBlock * r
             V == ReleaseBlock * rr
             D == ReleaseBlock * (rr - r)
  <1>6. /\ r \in Nat /\ d \in Nat /\ c \in Nat /\ rr \in Nat /\ dd \in Nat /\ cc \in Nat
        /\ r <= rr /\ d <= dd /\ c <= cc
    BY <1>3
  <1>7. U \in Nat /\ V \in Nat /\ U <= V /\ D = V - U
    BY <1>5
  <1>8. /\ Ids(g[0]) = V + cc /\ Ids(g[k]) = U + c
        /\ Own(g[0]) = rr + dd /\ Own(g[k]) = r + d
    BY DEF Ids, Own
  <1>9. /\ V + cc \in Nat /\ U + c \in Nat /\ rr + dd \in Nat /\ r + d \in Nat
        /\ U + c <= V + cc /\ r + d <= rr + dd /\ r <= r + d
        /\ D <= (V + cc) - (U + c)
        /\ (rr + dd) - (r + d) <= (rr + dd) - r
    <2> HIDE DEF r, d, c, rr, dd, cc, U, V, D
    <2> QED BY <1>6, <1>7
  <1> QED BY <1>6, <1>8, <1>9, Zenon

(* What a message behind all others changes. *)
LEMMA GrowCounts ==
  ASSUME NEW o \in Seq(Message), NEW g, Sums(o, g), NEW m \in Message, Fits(m)
  PROVE  LET e == Grow(g, Len(o), m) IN
         /\ \A k \in 0 .. Len(o) :
              /\ Ids(e[k]) = Ids(g[k]) + Len(m.ids)
              /\ Own(e[k]) = Own(g[k]) + OwnOf(m)
              /\ e[k].rel = g[k].rel + (IF m.control = "RELEASE" THEN 1 ELSE 0)
         /\ Ids(e[Len(o) + 1]) = 0 /\ Own(e[Len(o) + 1]) = 0
         /\ e[Len(o) + 1].rel = 0
         /\ Ids(g[Len(o)]) = 0 /\ Own(g[Len(o)]) = 0
  <1> DEFINE e == Grow(g, Len(o), m)
  <1>1. /\ Len(o) \in Nat /\ g \in [Nat -> Weight] /\ g[Len(o)] = NoWeight
        /\ ReleaseBlock \in Nat
    BY BlockAssumption DEF Sums
  <1>2. /\ \A k \in 0 .. Len(o) : e[k] = Plus(g[k], Weigh(m)) /\ g[k] \in Weight
        /\ e[Len(o) + 1] = NoWeight
    BY <1>1 DEF Grow
  <1>3. \A k \in 0 .. Len(o) :
              /\ Ids(e[k]) = Ids(g[k]) + Len(m.ids)
              /\ Own(e[k]) = Own(g[k]) + OwnOf(m)
    BY <1>2, PlusCounts
  <1>4. Ids(NoWeight) = 0 /\ Own(NoWeight) = 0 /\ NoWeight.rel = 0
    <2>1. NoWeight.rel = 0 /\ NoWeight.dat = 0 /\ NoWeight.cle = 0
      BY DEF NoWeight
    <2>2. ReleaseBlock * 0 + 0 = 0 /\ 0 + 0 = 0
      BY <1>1
    <2> QED BY <2>1, <2>2 DEF Ids, Own
  <1>5. \A k \in 0 .. Len(o) :
          e[k].rel = g[k].rel + (IF m.control = "RELEASE" THEN 1 ELSE 0)
    <2> SUFFICES ASSUME NEW k \in 0 .. Len(o)
                 PROVE  e[k].rel = g[k].rel + (IF m.control = "RELEASE" THEN 1 ELSE 0)
      OBVIOUS
    <2>1. e[k] = Plus(g[k], Weigh(m))
      BY <1>2
    <2> HIDE DEF e
    <2> QED BY <2>1 DEF Plus, Weigh
  <1> HIDE DEF e
  <1>6. Ids(e[Len(o) + 1]) = 0 /\ Own(e[Len(o) + 1]) = 0 /\ e[Len(o) + 1].rel = 0
        /\ Ids(g[Len(o)]) = 0 /\ Own(g[Len(o)]) = 0
    BY <1>1, <1>2, <1>4
  <1> QED BY <1>3, <1>5, <1>6 DEF e

(* What reading the oldest message changes. *)
LEMMA ShiftCounts ==
  ASSUME NEW o \in Seq(Message), o # <<>>, NEW g, Sums(o, g)
  PROVE  LET e == Shift(g) IN
         /\ \A k \in 0 .. Len(o) - 1 : e[k] = g[k + 1] /\ k + 1 \in 0 .. Len(o)
         /\ Ids(g[0]) = Ids(e[0]) + Len(Head(o).ids)
         /\ Own(g[0]) = Own(e[0]) + OwnOf(Head(o))
         /\ Ids(e[0]) \in Nat /\ Own(e[0]) \in Nat
  <1>1. /\ Len(o) \in Nat /\ Len(o) >= 1 /\ g \in [Nat -> Weight]
        /\ Head(o) \in Message
    BY DEF Sums
  <1>2. Fits(Head(o)) /\ g[0] = Plus(g[1], Weigh(Head(o)))
    BY SumsTail
  <1>3. /\ Ids(g[0]) = Ids(g[1]) + Len(Head(o).ids)
        /\ Own(g[0]) = Own(g[1]) + OwnOf(Head(o))
        /\ Ids(g[1]) \in Nat /\ Own(g[1]) \in Nat
    BY <1>1, <1>2, PlusCounts
  <1>4. \A k \in 0 .. Len(o) - 1 : k \in Nat /\ k + 1 \in 0 .. Len(o)
    BY <1>1
  <1>5. \A k \in Nat : Shift(g)[k] = g[k + 1]
    BY DEF Shift
  <1>6. Shift(g)[0] = g[1]
    <2>1. Shift(g)[0] = g[0 + 1] /\ 0 + 1 = 1
      BY <1>5
    <2> QED BY <2>1
  <1> QED BY <1>3, <1>4, <1>5, <1>6
-----------------------------------------------------------------------------
(* The numbers of an ordered pair: F free slots, o the writes in flight    *)
(* and n the slots noted by the receiver; b the messages on the way back   *)
(* and m the slots of the receiver that the sender has noted.              *)

(* Every slot is counted once; S is the number of slots that are free or   *)
(* come back with messages already sent.                                   *)
Counted(S, g, n) == S + Own(g[0]) + n = MaxWriteNum

(* Ordinary sends leave a block; later only RELEASE messages took slots.   *)
Spared(S, o, g) ==
  \A p \in 1 .. Len(o) : o[p].control = "DATA" => ReleaseBlock <= S + g[p].rel

(* For every k, the writes among the k oldest of b ask for fewer RELEASE   *)
(* messages than there are slots free once those k have been read.         *)
Covered(F, b, g, m) ==
  \A k \in 0 .. Len(b) :
    m + Own(g[0]) < ReleaseBlock * (F + Ids(g[0]) - Ids(g[k])) + Own(g[k])

Side(F, o, go, n, b, gb, m) ==
  /\ Counted(F + Ids(gb[0]), go, n)
  /\ Spared(F + Ids(gb[0]), o, go)
  /\ Covered(F, b, gb, m)
  /\ m < ReleaseBlock

Duplex(F, o, go, n, E, b, gb, m) ==
  /\ Sums(o, go) /\ Sums(b, gb)
  /\ Side(F, o, go, n, b, gb, m)
  /\ Side(E, b, gb, m, o, go, n)

(* There is always a free slot. *)
LEMMA SlotFree ==
  ASSUME NEW F \in Nat, NEW m \in Nat, NEW b \in Seq(Message), NEW g, Sums(b, g),
         Covered(F, b, g, m)
  PROVE  F >= 1
  <1>1. Len(b) \in Nat /\ 0 \in 0 .. Len(b) /\ ReleaseBlock \in Nat
    BY BlockAssumption
  <1>2. Ids(g[0]) \in Nat /\ Own(g[0]) \in Nat
    BY <1>1, SumsBound
  <1>3. m + Own(g[0]) < ReleaseBlock * (F + Ids(g[0]) - Ids(g[0])) + Own(g[0])
    BY <1>1 DEF Covered
  <1> DEFINE x == Ids(g[0])
             y == Own(g[0])
  <1>4. x \in Nat /\ y \in Nat /\ m + y < ReleaseBlock * (F + x - x) + y
    BY <1>2, <1>3
  <1> HIDE DEF x, y
  <1>5. F + x - x = F
    BY <1>4
  <1>6. ASSUME F = 0 PROVE FALSE
    <2>1. ReleaseBlock * (F + x - x) = 0
      BY <1>1, <1>5, <1>6
    <2> QED BY <2>1, <1>4
  <1> QED BY <1>6

(* More slots, or the same, and a new message. *)
LEMMA SparedAppend ==
  ASSUME NEW S \in Nat, NEW T \in Nat, NEW o \in Seq(Message), NEW g, Sums(o, g),
         Spared(S, o, g), NEW x \in Message, Fits(x),
         S <= T + (IF x.control = "RELEASE" THEN 1 ELSE 0),
         x.control = "DATA" => ReleaseBlock <= T
  PROVE  Spared(T, Append(o, x), Grow(g, Len(o), x))
  <1> DEFINE L == Len(o)
             e == Grow(g, L, x)
             u == Append(o, x)
             d == IF x.control = "RELEASE" THEN 1 ELSE 0
  <1>1. /\ L \in Nat /\ Len(u) = L + 1 /\ u[L + 1] = x
        /\ \A k \in 1 .. L : u[k] = o[k]
    OBVIOUS
  <1>2. /\ \A k \in 0 .. L : e[k].rel = g[k].rel + d
        /\ e[L + 1].rel = 0
    BY GrowCounts
  <1>3. S <= T + d /\ d \in Nat /\ (x.control = "DATA" => ReleaseBlock <= T) /\ ReleaseBlock \in Nat
    BY BlockAssumption
  <1>4. \A k \in 0 .. L : g[k].rel \in Nat
    BY SumsBound
  <1> HIDE DEF L, e, u, d
  <1> SUFFICES ASSUME NEW p \in 1 .. L + 1, u[p].control = "DATA"
               PROVE  ReleaseBlock <= T + e[p].rel
    BY <1>1 DEF Spared, u, e, L
  <1>5. CASE p = L + 1
    BY <1>1, <1>2, <1>3, <1>5
  <1>6. CASE p # L + 1
    <2>1. p \in 1 .. L /\ p \in 0 .. L
      BY <1>1, <1>6
    <2>2. ReleaseBlock <= S + g[p].rel
      BY <2>1, <1>1 DEF Spared, L
    <2>3. e[p].rel = g[p].rel + d /\ g[p].rel \in Nat
      BY <2>1, <1>2, <1>4
    <2> DEFINE z == g[p].rel
    <2>4. z \in Nat /\ ReleaseBlock <= S + z
      BY <2>2, <2>3
    <2>5. ReleaseBlock <= T + (z + d)
      <3> HIDE DEF z
      <3> QED BY <2>4, <1>3
    <2> QED BY <2>3, <2>5
  <1> QED BY <1>5, <1>6

(* The oldest message is read. *)
LEMMA SparedTail ==
  ASSUME NEW S \in Nat, NEW T \in Nat, NEW o \in Seq(Message), NEW g, Sums(o, g),
         Spared(S, o, g), S <= T, o # <<>>
  PROVE  Spared(T, Tail(o), Shift(g))
  <1>1. /\ Len(o) \in Nat /\ Len(o) >= 1 /\ Len(Tail(o)) = Len(o) - 1
        /\ \A k \in 1 .. Len(o) - 1 : Tail(o)[k] = o[k + 1]
        /\ ReleaseBlock \in Nat
    BY BlockAssumption
  <1> SUFFICES ASSUME NEW p \in 1 .. Len(o) - 1, Tail(o)[p].control = "DATA"
               PROVE  ReleaseBlock <= T + Shift(g)[p].rel
    BY <1>1 DEF Spared
  <1>2. p + 1 \in 1 .. Len(o) /\ p \in 0 .. Len(o) - 1 /\ p + 1 \in 0 .. Len(o)
    BY <1>1
  <1>3. ReleaseBlock <= S + g[p + 1].rel
    BY <1>1, <1>2 DEF Spared
  <1>4. Shift(g)[p] = g[p + 1]
    BY <1>2, ShiftCounts
  <1>5. g[p + 1].rel \in Nat
    BY <1>2, SumsBound
  <1> DEFINE z == g[p + 1].rel
  <1>6. z \in Nat /\ ReleaseBlock <= S + z
    BY <1>3, <1>5
  <1>7. ReleaseBlock <= T + z
    <2> HIDE DEF z
    <2> QED BY <1>6, <1>1
  <1> QED BY <1>4, <1>7

(* Nothing is sent and no slot is taken. *)
LEMMA SparedMore ==
  ASSUME NEW S \in Nat, NEW T \in Nat, NEW o \in Seq(Message), NEW g, Sums(o, g),
         Spared(S, o, g), S <= T
  PROVE  Spared(T, o, g)
  <1>1. Len(o) \in Nat /\ ReleaseBlock \in Nat
    BY BlockAssumption
  <1> SUFFICES ASSUME NEW p \in 1 .. Len(o), o[p].control = "DATA"
               PROVE  ReleaseBlock <= T + g[p].rel
    BY DEF Spared
  <1> DEFINE z == g[p].rel
  <1>2. ReleaseBlock <= S + z
    BY DEF Spared
  <1>3. p \in 0 .. Len(o)
    BY <1>1
  <1>4. z \in Nat
    BY <1>3, SumsBound
  <1> HIDE DEF z
  <1>5. ReleaseBlock <= T + z
    BY <1>1, <1>2, <1>4
  <1> QED BY <1>5 DEF z

(* A message on its way back is covered if what it asks for is. *)
LEMMA CoveredAppend ==
  ASSUME NEW F \in Nat, NEW m \in Nat, NEW b \in Seq(Message), NEW g, Sums(b, g),
         Covered(F, b, g, m), NEW x \in Message, Fits(x),
         m + Own(g[0]) + OwnOf(x) < ReleaseBlock * (F + Ids(g[0]) + Len(x.ids))
  PROVE  Covered(F, Append(b, x), Grow(g, Len(b), x), m)
  <1> DEFINE L == Len(b)
             e == Grow(g, L, x)
             u == Append(b, x)
             c == Len(x.ids)
             w == OwnOf(x)
             a == Ids(g[0])
             s == Own(g[0])
  <1>1. L \in Nat /\ Len(u) = L + 1 /\ ReleaseBlock \in Nat /\ 0 \in 0 .. L
    BY BlockAssumption
  <1>2. /\ \A k \in 0 .. L : Ids(e[k]) = Ids(g[k]) + c /\ Own(e[k]) = Own(g[k]) + w
        /\ Ids(e[L + 1]) = 0 /\ Own(e[L + 1]) = 0
    BY GrowCounts
  <1>3. /\ \A k \in 0 .. L : Ids(g[k]) \in Nat /\ Own(g[k]) \in Nat
        /\ a \in Nat /\ s \in Nat
    BY <1>1, SumsBound
  <1>4. c \in Nat /\ w \in Nat
    BY DEF OwnOf, Message
  <1>5. \A k \in 0 .. L : m + s < ReleaseBlock * (F + a - Ids(g[k])) + Own(g[k])
    BY DEF Covered
  <1>6. m + s + w < ReleaseBlock * (F + a + c)
    OBVIOUS
  <1>7. Ids(e[0]) = a + c /\ Own(e[0]) = s + w
    BY <1>1, <1>2
  <1> HIDE DEF L, e, u, c, w, a, s
  <1> SUFFICES ASSUME NEW k \in 0 .. L + 1
               PROVE  m + Own(e[0]) < ReleaseBlock * (F + Ids(e[0]) - Ids(e[k])) + Own(e[k])
    BY <1>1 DEF Covered, u, e, L
  <1>8. CASE k = L + 1
    <2>1. Ids(e[k]) = 0 /\ Own(e[k]) = 0
      BY <1>2, <1>8
    <2>2. F + (a + c) - 0 = F + a + c /\ m + (s + w) = m + s + w
      BY <1>3, <1>4
    <2>3. m + (s + w) < ReleaseBlock * (F + (a + c) - 0) + 0
      BY <2>2, <1>1, <1>3, <1>4, <1>6
    <2> QED BY <2>1, <2>3, <1>7
  <1>9. CASE k # L + 1
    <2>1. k \in 0 .. L
      BY <1>1, <1>9
    <2> DEFINE y == Ids(g[k])
               z == Own(g[k])
    <2>2. /\ y \in Nat /\ z \in Nat /\ Ids(e[k]) = y + c /\ Own(e[k]) = z + w
          /\ m + s < ReleaseBlock * (F + a - y) + z
      BY <2>1, <1>2, <1>3, <1>5
    <2> HIDE DEF y, z
    <2>3. F + (a + c) - (y + c) = F + a - y
      BY <2>2, <1>3, <1>4
    <2>4. ReleaseBlock * (F + a - y) \in Int
      BY <2>2, <1>1, <1>3
    <2>5. m + (s + w) < ReleaseBlock * (F + (a + c) - (y + c)) + (z + w)
      BY <2>2, <2>3, <2>4, <1>3, <1>4
    <2> QED BY <2>2, <2>5, <1>7
  <1> QED BY <1>8, <1>9

(* The oldest message is read: of its slots and those of the free list E   *)
(* are left, and l noted slots after it.                                   *)
LEMMA CoveredTail ==
  ASSUME NEW F \in Nat, NEW E \in Nat, NEW m \in Nat, NEW l \in Nat,
         NEW b \in Seq(Message), b # <<>>, NEW g, Sums(b, g), Covered(F, b, g, m),
         NEW D \in Nat, F + Len(Head(b).ids) = E + D,
         l + ReleaseBlock * D <= m + OwnOf(Head(b))
  PROVE  Covered(E, Tail(b), Shift(g), l)
  <1> DEFINE L == Len(b)
             e == Shift(g)
             c == Len(Head(b).ids)
             w == OwnOf(Head(b))
             a == Ids(e[0])
             s == Own(e[0])
  <1>1. L \in Nat /\ L >= 1 /\ Len(Tail(b)) = L - 1 /\ ReleaseBlock \in Nat /\ Head(b) \in Message
    BY BlockAssumption
  <1>2. /\ \A k \in 0 .. L - 1 : e[k] = g[k + 1] /\ k + 1 \in 0 .. L
        /\ Ids(g[0]) = a + c /\ Own(g[0]) = s + w /\ a \in Nat /\ s \in Nat
    BY ShiftCounts
  <1>3. \A k \in 0 .. L : /\ Ids(g[k]) \in Nat /\ Own(g[k]) \in Nat
                          /\ m + Own(g[0]) < ReleaseBlock * (F + Ids(g[0]) - Ids(g[k])) + Own(g[k])
    BY SumsBound DEF Covered
  <1>4. c \in Nat /\ w \in Nat
    BY <1>1 DEF OwnOf, Message
  <1>5. F + c = E + D /\ l + ReleaseBlock * D <= m + w
    OBVIOUS
  <1> HIDE DEF L, e, c, w, a, s
  <1> SUFFICES ASSUME NEW k \in 0 .. L - 1
               PROVE  l + s < ReleaseBlock * (E + a - Ids(e[k])) + Own(e[k])
    BY <1>1 DEF Covered, L, e, a, s
  <1> DEFINE y == Ids(e[k])
             z == Own(e[k])
  <1>6. /\ y \in Nat /\ z \in Nat
        /\ m + (s + w) < ReleaseBlock * (F + (a + c) - y) + z
    <2>1. e[k] = g[k + 1] /\ k + 1 \in 0 .. L
      BY <1>2
    <2> QED BY <2>1, <1>2, <1>3
  <1> HIDE DEF y, z
  <1>7. F + (a + c) - y = (E + a - y) + D /\ E + a - y \in Int
    BY <1>2, <1>4, <1>5, <1>6
  <1> DEFINE X == E + a - y
  <1>8. X \in Int /\ F + (a + c) - y = X + D
    BY <1>7
  <1>9. l + s < ReleaseBlock * X + z
    <2> HIDE DEF X
    <2>1. ReleaseBlock * (X + D) = ReleaseBlock * X + ReleaseBlock * D
      BY <1>1, <1>8
    <2>2. ReleaseBlock * X \in Int /\ ReleaseBlock * D \in Int
      BY <1>1, <1>8
    <2>3. m + (s + w) < (ReleaseBlock * X + ReleaseBlock * D) + z
      BY <1>6, <1>8, <2>1
    <2> QED BY SMTT(40), <2>2, <2>3, <1>2, <1>4, <1>5, <1>6
  <1> QED BY <1>9 DEF y, z

(* Fewer noted slots ask for less. *)
LEMMA CoveredLess ==
  ASSUME NEW F \in Nat, NEW m \in Nat, NEW l \in Nat, l <= m,
         NEW b \in Seq(Message), NEW g, Sums(b, g), Covered(F, b, g, m)
  PROVE  Covered(F, b, g, l)
  <1> SUFFICES ASSUME NEW k \in 0 .. Len(b)
               PROVE  l + Own(g[0]) < ReleaseBlock * (F + Ids(g[0]) - Ids(g[k])) + Own(g[k])
    BY DEF Covered
  <1> DEFINE s == Own(g[0])
             Z == ReleaseBlock * (F + Ids(g[0]) - Ids(g[k])) + Own(g[k])
  <1>1. /\ Ids(g[0]) \in Nat /\ s \in Nat /\ Ids(g[k]) \in Nat /\ Own(g[k]) \in Nat
        /\ ReleaseBlock \in Nat
    BY SumsBound, BlockAssumption
  <1>2. Z \in Int
    BY <1>1
  <1>3. m + s < Z
    BY DEF Covered
  <1> HIDE DEF s, Z
  <1>4. l + s < Z
    BY <1>1, <1>2, <1>3
  <1> QED BY <1>4 DEF s, Z
-----------------------------------------------------------------------------
(* An ordinary send.  This is where the sizes matter: it takes a slot of   *)
(* the sender and adds a write the receiver must answer.                   *)

(* Products of natural numbers. *)
LEMMA Product ==
  ASSUME NEW r \in Nat, NEW x \in Nat, NEW y \in Nat
  PROVE  /\ r * x \in Nat /\ r * y \in Nat
         /\ r * (x + y) = r * x + r * y
         /\ x <= y => r * x <= r * y
         /\ 1 <= r => x <= r * x
  <1>1. r * x \in Nat /\ r * y \in Nat /\ r * (x + y) = r * x + r * y
    OBVIOUS
  <1>2. ASSUME x <= y PROVE r * x <= r * y
    <2>1. y - x \in Nat /\ r * (y - x) = r * y - r * x
      BY <1>2
    <2>2. r * (y - x) \in Nat
      BY <2>1
    <2> QED BY <1>1, <2>1, <2>2
  <1>3. ASSUME 1 <= r PROVE x <= r * x
    <2>1. r - 1 \in Nat /\ (r - 1) * x = r * x - x
      BY <1>3
    <2>2. (r - 1) * x \in Nat
      BY <2>1
    <2> QED BY <1>1, <2>1, <2>2
  <1> QED BY <1>1, <1>2, <1>3

(* The sender keeps enough slots for what is on its way to it. *)
LEMMA SenderCovered ==
  ASSUME NEW R \in Nat, 1 <= R, NEW W \in Nat, W < R * (R + 1),
         NEW F \in Nat, F > R, NEW m \in Nat, m < R, NEW X \in Nat,
         NEW a \in Nat, NEW i \in Nat, i <= a,
         NEW s \in Nat, NEW t \in Nat,
         NEW r \in Nat, NEW q \in Nat, q <= r, q <= t, R * (r - q) <= a - i,
         X + s + m = W,
         \/ s = r
         \/ \E p \in Nat : p <= r /\ R <= X + p
  PROVE  m + s < R * (F - 1 + a - i) + t
  <1> DEFINE u == a - i
             v == r - q
             G == F - 1
  <1>1. u \in Nat /\ v \in Nat /\ G \in Nat /\ R <= G
    OBVIOUS
  <1>2. R * v <= u /\ F - 1 + a - i = G + u /\ r = q + v
    OBVIOUS
  <1> HIDE DEF u, v, G
  <1>3. R * (G + u) = R * G + R * u /\ R * R <= R * G /\ u <= R * u /\ v <= R * v
        /\ R * G \in Nat /\ R * u \in Nat /\ R * v \in Nat /\ R * R \in Nat
    BY <1>1, Product
  <1>4. R * (R + 1) = R * R + R
    OBVIOUS
  <1>5. R <= R * R
    BY Product
  <1>6. r <= t + R * u
    BY <1>1, <1>2, <1>3
  <1>7. CASE s = r
    <2>1. m + s < R * R + (t + R * u)
      BY <1>5, <1>6, <1>7, <1>3
    <2> QED BY <2>1, <1>2, <1>3
  <1>8. CASE \E p \in Nat : p <= r /\ R <= X + p
    <2>1. PICK p \in Nat : p <= r /\ R <= X + p
      BY <1>8
    <2>2. m + s <= W - R + p
      BY <2>1
    <2>3. W - R < R * R
      BY <1>3, <1>4
    <2>4. m + s < R * R + (t + R * u)
      BY <2>1, <2>2, <2>3, <1>3, <1>6
    <2> QED BY <2>4, <1>2, <1>3
  <1> QED BY <1>7, <1>8

(* The receiver has enough slots, or will have, to answer the new write. *)
LEMMA ReceiverCovered ==
  ASSUME NEW R \in Nat, 1 <= R, NEW W \in Nat, R < W, W < R * (R + 1),
         NEW F \in Nat, F > R, NEW m \in Nat, m < R, NEW n \in Nat, NEW X \in Nat,
         NEW a \in Nat, NEW s \in Nat, NEW S \in Nat,
         NEW r \in Nat, R * r <= a,
         X + s + m = W, F + a + S + n = W,
         \/ s = r
         \/ \E p \in Nat : p <= r /\ R <= X + p
  PROVE  n + S + 1 < R * X
  <1>1. R * r \in Nat /\ R * X \in Nat /\ R * R \in Nat /\ R * (R + 1) = R * R + R
    BY Product
  <1>2. n + S + 1 <= W - R - R * r
    BY <1>1
  <1>3. CASE s = r
    <2> DEFINE V == W - R
    <2>1. V \in Nat /\ V + 1 <= X + r
      BY <1>3
    <2> HIDE DEF V
    <2>2. R * (V + 1) <= R * (X + r) /\ R * (X + r) = R * X + R * r
      BY <2>1, Product
    <2>3. R * (V + 1) = R * V + R /\ V <= R * V /\ R * V \in Nat
      BY <2>1, Product
    <2>4. V + R <= R * X + R * r
      BY <2>1, <2>2, <2>3, <1>1
    <2>5. n + S + 1 <= V - R * r
      BY <1>2 DEF V
    <2> QED BY <2>1, <2>4, <2>5, <1>1
  <1>4. CASE \E p \in Nat : p <= r /\ R <= X + p
    <2>1. PICK p \in Nat : p <= r /\ R <= X + p
      BY <1>4
    <2>2. R * R <= R * (X + p) /\ R * (X + p) = R * X + R * p /\ R * p <= R * r /\ R * p \in Nat
      BY <2>1, Product
    <2>3. W - R < R * R
      BY <1>1
    <2> QED BY <2>2, <2>3, <1>1, <1>2
  <1> QED BY <1>3, <1>4
-----------------------------------------------------------------------------
(* The five moves.  In each the first side acts.                           *)

(* The relation of the two sizes: RELEASE_BLOCK blocks and the reserve are  *)
(* more than all slots.                                                    *)
SizesFit == MaxWriteNum < ReleaseBlock * (ReleaseBlock + 1)

(* The numbers of a pair are natural numbers. *)
LEMMA DuplexTyped ==
  ASSUME NEW o \in Seq(Message), NEW b \in Seq(Message), NEW go, NEW gb,
         Sums(o, go), Sums(b, gb)
  PROVE  /\ Ids(go[0]) \in Nat /\ Own(go[0]) \in Nat /\ Ids(gb[0]) \in Nat /\ Own(gb[0]) \in Nat
         /\ ReleaseBlock \in Nat /\ 1 <= ReleaseBlock
         /\ MaxWriteNum \in Nat /\ ReleaseBlock < MaxWriteNum
  <1>1. 0 \in 0 .. Len(o) /\ 0 \in 0 .. Len(b)
    OBVIOUS
  <1>2. Ids(go[0]) \in Nat /\ Own(go[0]) \in Nat /\ Ids(gb[0]) \in Nat /\ Own(gb[0]) \in Nat
    BY <1>1, SumsBound
  <1> QED BY <1>2, BlockAssumption

(* post_write_send of DATA with more than RELEASE_BLOCK free slots. *)
LEMMA DuplexPost ==
  ASSUME SizesFit,
         NEW F \in Nat, NEW E \in Nat, NEW n \in Nat, NEW m \in Nat,
         NEW o \in Seq(Message), NEW b \in Seq(Message), NEW go, NEW gb,
         Duplex(F, o, go, n, E, b, gb, m), F > ReleaseBlock,
         NEW x \in Message, x.control = "DATA", Len(x.ids) = 0
  PROVE  Duplex(F - 1, Append(o, x), Grow(go, Len(o), x), n, E, b, gb, m)
  <1> DEFINE u == Append(o, x)
             e == Grow(go, Len(o), x)
             R == ReleaseBlock
             a == Ids(gb[0])
             s == Own(gb[0])
             A == Ids(go[0])
             S == Own(go[0])
             r == gb[0].rel
             X == E + A
  <1>1. /\ Sums(o, go) /\ Sums(b, gb)
        /\ Counted(F + a, go, n) /\ Spared(F + a, o, go) /\ Covered(F, b, gb, m) /\ m < R
        /\ Counted(X, gb, m) /\ Spared(X, b, gb) /\ Covered(E, o, go, n) /\ n < R
    BY DEF Duplex, Side
  <1>2. /\ a \in Nat /\ s \in Nat /\ A \in Nat /\ S \in Nat /\ R \in Nat /\ 1 <= R
        /\ MaxWriteNum \in Nat /\ R < MaxWriteNum /\ MaxWriteNum < R * (R + 1)
        /\ F - 1 \in Nat /\ F > R /\ X \in Nat
    BY <1>1, DuplexTyped DEF SizesFit
  <1>3. Fits(x) /\ OwnOf(x) = 1
    BY DEF Fits, OwnOf
  <1>4. Sums(u, e)
    BY <1>1, <1>3, SumsAppend
  <1>5. Ids(e[0]) = A + 0 /\ Own(e[0]) = S + 1
    <2>1. 0 \in 0 .. Len(o)
      OBVIOUS
    <2> QED BY <2>1, <1>1, <1>3, GrowCounts
  <1>6. Ids(e[0]) = A
    BY <1>2, <1>5
  <1>7. X + s + m = MaxWriteNum /\ F + a + S + n = MaxWriteNum
    BY <1>1 DEF Counted
  <1>8. \/ s = r
        \/ \E p \in Nat : p <= r /\ R <= X + p
    <2>1. CASE \E p \in 1 .. Len(b) : b[p].control = "DATA"
      <3>1. PICK p \in 1 .. Len(b) : b[p].control = "DATA"
        BY <2>1
      <3>2. p \in 0 .. Len(b)
        BY <3>1
      <3>3. gb[p].rel \in Nat /\ gb[p].rel <= r
        BY <3>2, <1>1, SumsBound
      <3>4. R <= X + gb[p].rel
        BY <3>1, <1>1 DEF Spared
      <3> QED BY <3>3, <3>4
    <2>2. CASE \A p \in 1 .. Len(b) : b[p].control # "DATA"
      <3>1. 0 \in 0 .. Len(b)
        OBVIOUS
      <3>2. gb[0].dat = 0
        BY <3>1, <2>2, <1>1 DEF Sums
      <3>3. r \in Nat
        BY <3>1, <1>1, SumsBound
      <3>4. r + 0 = r
        BY <3>3
      <3> QED BY <3>2, <3>4 DEF Own
    <2> QED BY <2>1, <2>2
  <1>9. Counted(F - 1 + a, e, n)
    <2>1. (F - 1 + a) + (S + 1) + n = MaxWriteNum
      <3> HIDE DEF a, S
      <3> QED BY <1>2, <1>7
    <2> QED BY <2>1, <1>5 DEF Counted
  <1>10. Spared(F - 1 + a, u, e)
    <2>1. /\ F + a \in Nat /\ F - 1 + a \in Nat /\ R <= F - 1 + a
      <3> HIDE DEF a
      <3> QED BY <1>2
    <2>2. ASSUME NEW p \in 1 .. Len(u), u[p].control = "DATA"
          PROVE  R <= F - 1 + a + e[p].rel
      <3>1. e[p].rel \in Nat
        <4>1. u \in Seq(Message) /\ p \in 0 .. Len(u)
          OBVIOUS
        <4> HIDE DEF u, e
        <4> QED BY <4>1, <1>4, SumsBound
      <3> DEFINE z == e[p].rel
                 T == F - 1 + a
      <3>2. z \in Nat /\ T \in Nat /\ R <= T
        BY <2>1, <3>1
      <3>3. R <= T + z
        <4> HIDE DEF z, T
        <4> QED BY <3>2, <1>2
      <3> QED BY <3>3
    <2> QED BY <2>2 DEF Spared
  <1>11. Covered(F - 1, b, gb, m)
    <2> SUFFICES ASSUME NEW k \in 0 .. Len(b)
                 PROVE  m + s < R * (F - 1 + a - Ids(gb[k])) + Own(gb[k])
      BY DEF Covered
    <2> DEFINE i == Ids(gb[k])
               t == Own(gb[k])
               q == gb[k].rel
    <2>1. /\ i \in Nat /\ t \in Nat /\ q \in Nat /\ r \in Nat /\ i <= a
          /\ q <= t /\ q <= r /\ R * (r - q) <= a - i
      BY <1>1, SumsBound
    <2> HIDE DEF R, a, s, A, S, r, X, i, t, q
    <2>2. m + s < R * (F - 1 + a - i) + t
      BY ZenonT(40), <2>1, <1>1, <1>2, <1>7, <1>8, SenderCovered
    <2> QED BY <2>2 DEF i, t
  <1>12. n + S + 1 < R * X
    <2>1. r \in Nat /\ R * r <= a
      <3>0. Len(b) \in 0 .. Len(b) /\ gb[Len(b)] = NoWeight /\ NoWeight.rel = 0
        BY <1>1 DEF Sums, NoWeight
      <3>1. /\ Len(b) \in 0 .. Len(b) /\ gb[Len(b)] = NoWeight /\ NoWeight.rel = 0
            /\ Ids(gb[Len(b)]) \in Nat
        BY <3>0, <1>1, SumsBound
      <3>2. r \in Nat /\ R * (r - gb[Len(b)].rel) <= a - Ids(gb[Len(b)])
        BY <3>1, <1>1, SumsBound
      <3>3. gb[Len(b)].rel = 0
        BY <3>1
      <3>4. r - 0 = r
        BY <3>2
      <3> DEFINE z == Ids(gb[Len(b)])
      <3>5. z \in Nat /\ R * r <= a - z
        BY <3>1, <3>2, <3>3, <3>4
      <3> HIDE DEF z, a, r, R
      <3>6. R * r \in Nat
        BY <3>2, <1>2
      <3> QED BY <3>2, <3>5, <3>6, <1>2
    <2> HIDE DEF R, a, s, A, S, r, X
    <2> QED BY <2>1, <1>1, <1>2, <1>7, <1>8, ReceiverCovered
  <1>13. Covered(E, u, e, n)
    <2>1. n + S + OwnOf(x) < R * (E + A + Len(x.ids))
      <3>1. E + A + 0 = E + A
        BY <1>2
      <3> QED BY <3>1, <1>3, <1>12
    <2> QED BY <2>1, <1>1, <1>3, CoveredAppend
  <1> HIDE DEF u, e
  <1>14. Side(F - 1, u, e, n, b, gb, m)
    BY <1>1, <1>9, <1>10, <1>11 DEF Side
  <1>15. Side(E, b, gb, m, u, e, n)
    BY <1>1, <1>6, <1>13 DEF Side
  <1>16. Duplex(F - 1, u, e, n, E, b, gb, m)
    BY <1>1, <1>4, <1>14, <1>15 DEF Duplex
  <1> QED BY <1>16 DEF u, e
(* What is on its way altogether asks for fewer slots than there will be. *)
LEMMA EndCovered ==
  ASSUME NEW F \in Nat, NEW m \in Nat, NEW b \in Seq(Message), NEW g, Sums(b, g),
         Covered(F, b, g, m)
  PROVE  m + Own(g[0]) < ReleaseBlock * (F + Ids(g[0]))
  <1> DEFINE a == Ids(g[0])
             s == Own(g[0])
  <1>1. Len(b) \in Nat /\ Len(b) \in 0 .. Len(b) /\ 0 \in 0 .. Len(b) /\ ReleaseBlock \in Nat
    BY BlockAssumption
  <1>2. a \in Nat /\ s \in Nat
    BY <1>1, SumsBound
  <1>3. Ids(g[Len(b)]) = 0 /\ Own(g[Len(b)]) = 0
    <2>1. g[Len(b)] = NoWeight /\ NoWeight.rel = 0 /\ NoWeight.dat = 0 /\ NoWeight.cle = 0
      BY DEF Sums, NoWeight
    <2>2. ReleaseBlock * 0 + 0 = 0 /\ 0 + 0 = 0
      BY <1>1
    <2> QED BY <2>1, <2>2 DEF Ids, Own
  <1>4. m + s < ReleaseBlock * (F + a - 0) + 0
    BY <1>1, <1>3 DEF Covered
  <1> HIDE DEF a, s
  <1>5. F + a - 0 = F + a /\ ReleaseBlock * (F + a) \in Nat
    BY <1>1, <1>2, Product
  <1>6. m + s < ReleaseBlock * (F + a)
    BY <1>2, <1>4, <1>5
  <1> QED BY <1>6 DEF a, s

(* clear_write_release: all noted slots leave, no slot is taken. *)
LEMMA DuplexClear ==
  ASSUME NEW F \in Nat, NEW E \in Nat, NEW n \in Nat, NEW m \in Nat,
         NEW o \in Seq(Message), NEW b \in Seq(Message), NEW go, NEW gb,
         Duplex(F, o, go, n, E, b, gb, m),
         NEW x \in Message, x.control = "CLEAR", Len(x.ids) = m
  PROVE  Duplex(F, Append(o, x), Grow(go, Len(o), x), n, E, b, gb, 0)
  <1> DEFINE u == Append(o, x)
             e == Grow(go, Len(o), x)
             R == ReleaseBlock
             a == Ids(gb[0])
             s == Own(gb[0])
             A == Ids(go[0])
             S == Own(go[0])
  <1>1. /\ Sums(o, go) /\ Sums(b, gb)
        /\ Counted(F + a, go, n) /\ Spared(F + a, o, go) /\ Covered(F, b, gb, m) /\ m < R
        /\ Counted(E + A, gb, m) /\ Spared(E + A, b, gb) /\ Covered(E, o, go, n) /\ n < R
    BY DEF Duplex, Side
  <1>2. /\ a \in Nat /\ s \in Nat /\ A \in Nat /\ S \in Nat /\ R \in Nat /\ 1 <= R
        /\ MaxWriteNum \in Nat
    BY <1>1, DuplexTyped
  <1>3. Fits(x) /\ OwnOf(x) = 0
    BY DEF Fits, OwnOf
  <1>4. Sums(u, e)
    BY <1>1, <1>3, SumsAppend
  <1>5. Ids(e[0]) = A + m /\ Own(e[0]) = S + 0
    <2>1. 0 \in 0 .. Len(o)
      OBVIOUS
    <2> QED BY <2>1, <1>1, <1>3, GrowCounts
  <1>6. Own(e[0]) = S
    BY <1>2, <1>5
  <1>7. Counted(F + a, e, n)
    BY <1>1, <1>6 DEF Counted
  <1>8. Spared(F + a, u, e)
    <2>1. F + a \in Nat /\ F + a <= (F + a) + 0
      BY <1>2
    <2> QED BY <2>1, <1>1, <1>3, SparedAppend
  <1>9. Covered(F, b, gb, 0) /\ 0 < R
    <2>1. 0 \in Nat /\ 0 <= m /\ 0 < R
      BY <1>2
    <2> QED BY <2>1, <1>1, CoveredLess
  <1>10. Counted(E + (A + m), gb, 0)
    <2>1. (E + A) + s + m = MaxWriteNum
      BY <1>1 DEF Counted
    <2>2. (E + (A + m)) + s + 0 = MaxWriteNum
      <3> HIDE DEF A, s
      <3> QED BY <2>1, <1>2
    <2> QED BY <2>2 DEF Counted
  <1>11. Spared(E + (A + m), b, gb)
    <2>1. E + A \in Nat /\ E + (A + m) \in Nat /\ E + A <= E + (A + m)
      <3> HIDE DEF A
      <3> QED BY <1>2
    <2> QED BY <2>1, <1>1, SparedMore
  <1>12. Covered(E, u, e, n)
    <2>1. n + S < R * (E + A)
      BY <1>1, EndCovered
    <2>2. n + S + 0 < R * (E + A + m)
      <3> HIDE DEF A, S, R
      <3>1. R * ((E + A) + m) = R * (E + A) + R * m /\ R * (E + A) \in Nat /\ R * m \in Nat
        BY <1>2, Product
      <3> QED BY <2>1, <3>1, <1>2
    <2> QED BY <2>2, <1>1, <1>3, CoveredAppend
  <1> HIDE DEF u, e
  <1>13. Side(F, u, e, n, b, gb, 0)
    BY <1>1, <1>7, <1>8, <1>9 DEF Side
  <1>14. Side(E, b, gb, 0, u, e, n)
    BY <1>1, <1>5, <1>10, <1>11, <1>12 DEF Side
  <1>15. Duplex(F, u, e, n, E, b, gb, 0)
    BY <1>1, <1>4, <1>13, <1>14 DEF Duplex
  <1> QED BY <1>15 DEF u, e

(* poll_recv of a message that makes no RELEASE necessary. *)
LEMMA DuplexRead ==
  ASSUME NEW F \in Nat, NEW E \in Nat, NEW n \in Nat, NEW m \in Nat, NEW l \in Nat,
         NEW o \in Seq(Message), NEW b \in Seq(Message), NEW go, NEW gb,
         Duplex(F, o, go, n, E, b, gb, m), b # <<>>,
         l = m + OwnOf(Head(b)), l < ReleaseBlock
  PROVE  Duplex(F + Len(Head(b).ids), o, go, n, E, Tail(b), Shift(gb), l)
  <1> DEFINE u == Tail(b)
             e == Shift(gb)
             R == ReleaseBlock
             c == Len(Head(b).ids)
             w == OwnOf(Head(b))
             a == Ids(e[0])
             s == Own(e[0])
             A == Ids(go[0])
  <1>1. /\ Sums(o, go) /\ Sums(b, gb)
        /\ Counted(F + Ids(gb[0]), go, n) /\ Spared(F + Ids(gb[0]), o, go)
        /\ Covered(F, b, gb, m) /\ m < R
        /\ Counted(E + A, gb, m) /\ Spared(E + A, b, gb) /\ Covered(E, o, go, n) /\ n < R
    BY DEF Duplex, Side
  <1>2. /\ Ids(gb[0]) = a + c /\ Own(gb[0]) = s + w /\ a \in Nat /\ s \in Nat
    BY <1>1, ShiftCounts
  <1>3. /\ c \in Nat /\ w \in Nat /\ A \in Nat /\ R \in Nat /\ MaxWriteNum \in Nat
    <2>1. Head(b) \in Message
      OBVIOUS
    <2>2. c \in Nat /\ w \in Nat
      BY <2>1 DEF OwnOf, Message
    <2> QED BY <2>2, <1>1, DuplexTyped
  <1>4. Sums(u, e)
    BY <1>1, SumsTail
  <1>5. F + Ids(gb[0]) = (F + c) + a /\ l = m + w
    <2>1. F + (a + c) = (F + c) + a
      <3> HIDE DEF a, c
      <3> QED BY <1>2, <1>3
    <2> QED BY <2>1, <1>2
  <1>6. Covered(F + c, u, e, l)
    <2>1. F + c \in Nat /\ 0 \in Nat /\ F + c = (F + c) + 0 /\ l + R * 0 <= m + w
      <3> HIDE DEF R, c, w
      <3> QED BY <1>3, <1>5
    <2> QED BY <2>1, <1>1, CoveredTail
  <1>7. Counted(E + A, e, l)
    <2>1. (E + A) + (s + w) + m = MaxWriteNum
      BY <1>1, <1>2 DEF Counted
    <2>2. (E + A) + s + l = MaxWriteNum
      <3> HIDE DEF A, s, w
      <3> QED BY SMTT(40), <2>1, <1>2, <1>3, <1>5
    <2> QED BY <2>2 DEF Counted
  <1>8. Spared(E + A, u, e)
    <2>1. E + A \in Nat /\ E + A <= E + A
      BY <1>3
    <2> QED BY <2>1, <1>1, SparedTail
  <1> HIDE DEF u, e
  <1>9. Side(F + c, o, go, n, u, e, l)
    BY <1>1, <1>5, <1>6 DEF Side
  <1>10. Side(E, u, e, l, o, go, n)
    BY <1>1, <1>7, <1>8 DEF Side
  <1>11. Duplex(F + c, o, go, n, E, u, e, l)
    BY <1>1, <1>4, <1>9, <1>10 DEF Duplex
  <1> QED BY <1>11 DEF u, e

(* poll_recv of a message that completes a block: the RELEASE leaves. *)
LEMMA DuplexRelease ==
  ASSUME NEW F \in Nat, NEW E \in Nat, NEW n \in Nat, NEW m \in Nat,
         NEW o \in Seq(Message), NEW b \in Seq(Message), NEW go, NEW gb,
         Duplex(F, o, go, n, E, b, gb, m), b # <<>>,
         Head(b).control # "CLEAR", m + 1 >= ReleaseBlock,
         NEW x \in Message, x.control = "RELEASE", Len(x.ids) = m + 1
  PROVE  Duplex(F + Len(Head(b).ids) - 1, Append(o, x), Grow(go, Len(o), x), n,
                E, Tail(b), Shift(gb), 0)
  <1> DEFINE u == Append(o, x)
             e == Grow(go, Len(o), x)
             v == Tail(b)
             f == Shift(gb)
             R == ReleaseBlock
             c == Len(Head(b).ids)
             a == Ids(f[0])
             s == Own(f[0])
             A == Ids(go[0])
             S == Own(go[0])
             G == F + c - 1
  <1>1. /\ Sums(o, go) /\ Sums(b, gb)
        /\ Counted(F + Ids(gb[0]), go, n) /\ Spared(F + Ids(gb[0]), o, go)
        /\ Covered(F, b, gb, m) /\ m < R
        /\ Counted(E + A, gb, m) /\ Spared(E + A, b, gb) /\ Covered(E, o, go, n) /\ n < R
    BY DEF Duplex, Side
  <1>2. OwnOf(Head(b)) = 1 /\ OwnOf(x) = 1
    BY DEF OwnOf
  <1>3. Ids(gb[0]) = a + c /\ Own(gb[0]) = s + 1 /\ a \in Nat /\ s \in Nat
    BY <1>1, <1>2, ShiftCounts
  <1>4. /\ c \in Nat /\ A \in Nat /\ S \in Nat /\ R \in Nat /\ 1 <= R /\ MaxWriteNum \in Nat
        /\ R = m + 1
    <2>1. Head(b) \in Message
      OBVIOUS
    <2>2. c \in Nat
      BY <2>1 DEF Message
    <2>3. R \in Nat /\ m < R /\ m + 1 >= R
      BY <1>1, DuplexTyped
    <2>4. R = m + 1
      <3> HIDE DEF R
      <3> QED BY <2>3
    <2> QED BY <2>2, <2>4, <1>1, DuplexTyped
  <1>5. F >= 1
    BY <1>1, SlotFree
  <1>6. Fits(x)
    BY <1>4 DEF Fits
  <1>7. Sums(u, e) /\ Sums(v, f)
    BY <1>1, <1>6, SumsAppend, SumsTail
  <1>8. Ids(e[0]) = A + (m + 1) /\ Own(e[0]) = S + 1
    <2>1. 0 \in 0 .. Len(o)
      OBVIOUS
    <2> QED BY <2>1, <1>1, <1>2, <1>6, GrowCounts
  <1>9. /\ G \in Nat /\ F + c = G + 1 /\ F + (a + c) = (G + a) + 1 /\ G + a \in Nat
        /\ (G + a) + 1 \in Nat
    <2> HIDE DEF a, c
    <2> QED BY <1>3, <1>4, <1>5
  <1>10. Counted(G + a, e, n)
    <2>1. F + (a + c) + S + n = MaxWriteNum
      BY <1>1, <1>3 DEF Counted
    <2> DEFINE T == G + a
    <2>2. T + (S + 1) + n = MaxWriteNum
      <3>1. (T + 1) + S + n = MaxWriteNum /\ T \in Nat /\ S \in Nat
        BY <2>1, <1>4, <1>9
      <3> HIDE DEF T, S
      <3> QED BY <3>1
    <2> QED BY <2>2, <1>8 DEF Counted
  <1>11. Spared(G + a, u, e)
    <2>1. Spared((G + a) + 1, o, go)
      BY <1>1, <1>3, <1>9
    <2>2. (G + a) + 1 <= (G + a) + 1
      BY <1>9
    <2> HIDE DEF G, a
    <2> QED BY <2>1, <2>2, <1>1, <1>6, <1>9, SparedAppend
  <1>12. Covered(G, v, f, 0) /\ 0 < R
    <2>1. 0 \in Nat /\ 1 \in Nat /\ 0 + R * 1 <= m + 1 /\ 0 < R
      <3> HIDE DEF R
      <3> QED BY <1>4
    <2>2. F + Len(Head(b).ids) = G + 1 /\ G \in Nat
      BY <1>9
    <2> HIDE DEF G
    <2> QED BY <2>1, <2>2, <1>1, <1>2, CoveredTail
  <1>13. Counted(E + (A + (m + 1)), f, 0)
    <2>1. (E + A) + (s + 1) + m = MaxWriteNum
      BY <1>1, <1>3 DEF Counted
    <2>2. (E + (A + (m + 1))) + s + 0 = MaxWriteNum
      <3> HIDE DEF A, s
      <3> QED BY <2>1, <1>3, <1>4
    <2> QED BY <2>2 DEF Counted
  <1>14. Spared(E + (A + (m + 1)), v, f)
    <2>1. E + A \in Nat /\ E + (A + (m + 1)) \in Nat /\ E + A <= E + (A + (m + 1))
      <3> HIDE DEF A
      <3> QED BY <1>4
    <2> QED BY <2>1, <1>1, SparedTail
  <1>15. Covered(E, u, e, n)
    <2>1. n + S < R * (E + A)
      BY <1>1, EndCovered
    <2>2. n + S + 1 < R * (E + A + (m + 1))
      <3> HIDE DEF A, S, R
      <3>1. /\ R * ((E + A) + R) = R * (E + A) + R * R /\ R * (E + A) \in Nat
            /\ R <= R * R /\ R * R \in Nat
        BY <1>4, Product
      <3>2. n + S + 1 < R * (E + A) + R * R
        BY <2>1, <3>1, <1>4
      <3>3. E + A + (m + 1) = (E + A) + R
        BY <1>4
      <3> QED BY <3>1, <3>2, <3>3
    <2> QED BY <2>2, <1>1, <1>2, <1>6, CoveredAppend
  <1> HIDE DEF u, e, v, f
  <1>16. Side(G, u, e, n, v, f, 0)
    BY <1>10, <1>11, <1>12 DEF Side
  <1>17. Side(E, v, f, 0, u, e, n)
    BY <1>1, <1>8, <1>13, <1>14, <1>15 DEF Side
  <1>18. Duplex(G, u, e, n, E, v, f, 0)
    BY <1>7, <1>16, <1>17 DEF Duplex
  <1> QED BY <1>18 DEF u, e, v, f
-----------------------------------------------------------------------------
(* The specification.                                                      *)

PairDuplex(h, i, j) ==
  Duplex(Len(buffIdList[i][j]), chan[i][j], h[i][j], Len(releaseIdList[j][i]),
         Len(buffIdList[j][i]), chan[j][i], h[j][i], Len(releaseIdList[i][j]))

Weights == [Machine -> [Machine -> [Nat -> Weight]]]

(* Two machines find every pair in a state that the moves keep.            *)
Balanced(h) == \A i, j \in Machine : i # j => PairDuplex(h, i, j)

ReserveInv ==
  /\ \E h \in Weights : Balanced(h)
  /\ \A i \in Machine : releaseIdList[i][i] = <<>>
  /\ \A i \in Machine : pc[i] = "get" => peer[i] # i
  /\ ReserveAvailable

(* A pair looks the same from both ends. *)
LEMMA DuplexSwap ==
  ASSUME NEW F, NEW o, NEW go, NEW n, NEW E, NEW b, NEW gb, NEW m,
         Duplex(F, o, go, n, E, b, gb, m)
  PROVE  Duplex(E, b, gb, m, F, o, go, n)
  BY DEF Duplex

(* Lengths and types of the lists of a pair. *)
LEMMA ListsTyped ==
  ASSUME TypeOK, NEW i \in Machine, NEW j \in Machine
  PROVE  /\ buffIdList[i][j] \in Seq(Slot) /\ releaseIdList[i][j] \in Seq(Slot)
         /\ chan[i][j] \in Seq(Message)
         /\ Len(buffIdList[i][j]) \in Nat /\ Len(releaseIdList[i][j]) \in Nat
  <1>1. /\ buffIdList[i][j] \in Seq(Slot) /\ releaseIdList[i][j] \in Seq(Slot)
        /\ chan[i][j] \in Seq(Message)
    BY DEF TypeOK
  <1> QED BY <1>1

(* One pair of a balanced system has changed, and is still in balance. *)
LEMMA BalancedStep ==
  ASSUME NEW h \in Weights, Balanced(h), NEW i \in Machine, NEW j \in Machine, i # j,
         NEW go \in [Nat -> Weight], NEW gb \in [Nat -> Weight],
         Duplex(Len(buffIdList'[i][j]), chan'[i][j], go, Len(releaseIdList'[j][i]),
                Len(buffIdList'[j][i]), chan'[j][i], gb, Len(releaseIdList'[i][j])),
         \A x, y \in Machine : ~(x = i /\ y = j) /\ ~(x = j /\ y = i) =>
            /\ buffIdList'[x][y] = buffIdList[x][y]
            /\ releaseIdList'[x][y] = releaseIdList[x][y]
            /\ chan'[x][y] = chan[x][y]
  PROVE  \E g \in Weights : Balanced(g)'
  <1> DEFINE g == [x \in Machine |-> [y \in Machine |->
                     IF x = i /\ y = j THEN go ELSE IF x = j /\ y = i THEN gb ELSE h[x][y]]]
  <1>1. \A x, y \in Machine : h[x][y] \in [Nat -> Weight]
    BY DEF Weights
  <1>2. /\ g \in Weights /\ g[i][j] = go /\ g[j][i] = gb
        /\ \A x, y \in Machine : ~(x = i /\ y = j) /\ ~(x = j /\ y = i) => g[x][y] = h[x][y]
    BY <1>1 DEF Weights
  <1> HIDE DEF g
  <1>3. ASSUME NEW x \in Machine, NEW y \in Machine, x # y
        PROVE  PairDuplex(g, x, y)'
    <2>1. CASE x = i /\ y = j
      BY <1>2, <2>1 DEF PairDuplex
    <2>2. CASE x = j /\ y = i
      <3>1. Duplex(Len(buffIdList'[j][i]), chan'[j][i], gb, Len(releaseIdList'[i][j]),
                   Len(buffIdList'[i][j]), chan'[i][j], go, Len(releaseIdList'[j][i]))
        BY DuplexSwap
      <3> QED BY <3>1, <1>2, <2>2 DEF PairDuplex
    <2>3. CASE ~(x = i /\ y = j) /\ ~(x = j /\ y = i)
      <3>1. PairDuplex(h, x, y)
        BY <1>3 DEF Balanced
      <3>2. /\ buffIdList'[x][y] = buffIdList[x][y] /\ buffIdList'[y][x] = buffIdList[y][x]
            /\ releaseIdList'[x][y] = releaseIdList[x][y] /\ releaseIdList'[y][x] = releaseIdList[y][x]
            /\ chan'[x][y] = chan[x][y] /\ chan'[y][x] = chan[y][x]
            /\ g[x][y] = h[x][y] /\ g[y][x] = h[y][x]
        BY <2>3, <1>2
      <3> QED BY <3>1, <3>2 DEF PairDuplex
    <2> QED BY <2>1, <2>2, <2>3
  <1> QED BY <1>2, <1>3 DEF Balanced

(* The sums of a channel after a message was appended or read. *)
LEMMA SumsTyped ==
  ASSUME NEW g \in [Nat -> Weight], NEW n \in Nat, NEW x \in Message
  PROVE  Grow(g, n, x) \in [Nat -> Weight] /\ Shift(g) \in [Nat -> Weight]
  <1>1. NoWeight \in Weight
    BY DEF NoWeight, Weight
  <1>2. \A k \in Nat : g[k] \in Weight /\ g[k + 1] \in Weight
    OBVIOUS
  <1> QED BY <1>1, <1>2, PlusTyped DEF Grow, Shift

(* In the first state nothing is in flight. *)
LEMMA InitReserve ==
  ASSUME Init
  PROVE  ReserveInv
  <1> DEFINE z == [k \in Nat |-> NoWeight]
             h == [i \in Machine |-> [j \in Machine |-> z]]
  <1>1. /\ ReleaseBlock \in Nat /\ 1 <= ReleaseBlock /\ MaxWriteNum \in Nat
        /\ ReleaseBlock < MaxWriteNum
    BY BlockAssumption
  <1>2. /\ NoWeight \in Weight
        /\ NoWeight.rel = 0 /\ NoWeight.dat = 0 /\ NoWeight.cle = 0
    BY DEF NoWeight, Weight
  <1>3. h \in Weights /\ z \in [Nat -> Weight] /\ z[0] = NoWeight
        /\ \A i, j \in Machine : h[i][j] = z
    BY <1>2 DEF Weights
  <1>4. Len(<<>>) = 0 /\ 0 .. 0 = {0} /\ 1 .. 0 = {}
    OBVIOUS
  <1>5. Ids(NoWeight) = 0 /\ Own(NoWeight) = 0
    <2>1. ReleaseBlock * 0 + 0 = 0 /\ 0 + 0 = 0
      BY <1>1
    <2> QED BY <2>1, <1>2 DEF Ids, Own
  <1> HIDE DEF z, h
  <1>6. Sums(<<>>, z)
    <2>1. AtMost(NoWeight, NoWeight)
      BY <1>2 DEF AtMost
    <2> QED BY <2>1, <1>2, <1>3, <1>4 DEF Sums
  <1>7. Len(AllSlots) = MaxWriteNum
    BY <1>1 DEF AllSlots
  <1>8. Side(MaxWriteNum, <<>>, z, 0, <<>>, z, 0)
    <2>1. Counted(MaxWriteNum + 0, z, 0)
      BY <1>1, <1>3, <1>5 DEF Counted
    <2>2. Spared(MaxWriteNum + 0, <<>>, z)
      BY <1>4 DEF Spared
    <2>3. 0 + 0 < ReleaseBlock * (MaxWriteNum + 0 - 0) + 0
      <3>1. MaxWriteNum + 0 - 0 = MaxWriteNum /\ 1 <= MaxWriteNum
        BY <1>1
      <3>2. MaxWriteNum <= ReleaseBlock * MaxWriteNum /\ ReleaseBlock * MaxWriteNum \in Nat
        BY <1>1, Product
      <3> QED BY <3>1, <3>2, <1>1
    <2>4. Covered(MaxWriteNum, <<>>, z, 0)
      BY <2>3, <1>3, <1>4, <1>5 DEF Covered
    <2> QED BY <2>1, <2>2, <2>4, <1>1, <1>3, <1>5 DEF Side
  <1>9. Duplex(MaxWriteNum, <<>>, z, 0, MaxWriteNum, <<>>, z, 0)
    BY <1>6, <1>8 DEF Duplex
  <1>10. ASSUME NEW i \in Machine, NEW j \in Machine PROVE PairDuplex(h, i, j)
    <2>1. /\ buffIdList[i][j] = AllSlots /\ buffIdList[j][i] = AllSlots
          /\ releaseIdList[i][j] = <<>> /\ releaseIdList[j][i] = <<>>
          /\ chan[i][j] = <<>> /\ chan[j][i] = <<>>
      BY DEF Init
    <2> QED BY <2>1, <1>3, <1>4, <1>7, <1>9 DEF PairDuplex
  <1>11. \E g \in Weights : Balanced(g)
    BY <1>3, <1>10 DEF Balanced
  <1>12. \A i \in Machine : releaseIdList[i][i] = <<>> /\ pc[i] = "run"
    BY DEF Init
  <1> QED BY <1>11, <1>12 DEF ReserveInv, ReserveAvailable

(* An ordinary send. *)
LEMMA PostBalanced ==
  ASSUME SizesFit, TypeOK, ReserveInv, NEW i \in Machine, PostWriteSend(i)
  PROVE  \E g \in Weights : Balanced(g)'
  <1> DEFINE j == peer[i]
             d == [control |-> "DATA", buf |-> Head(buffIdList[i][j]), ids |-> <<>>]
  <1>1. PICK h \in Weights : Balanced(h)
    BY DEF ReserveInv
  <1>2. j \in Machine /\ i # j /\ Len(buffIdList[i][j]) > ReleaseBlock
    BY DEF PostWriteSend, TypeOK, ReserveInv
  <1>3. buffIdList[i][j] # <<>> /\ d \in Message
    BY <1>2, DataTyped
  <1>4. /\ releaseIdList' = releaseIdList
        /\ \A x, y \in Machine :
             /\ buffIdList'[x][y] = IF x = i /\ y = j THEN Tail(buffIdList[i][j])
                                                      ELSE buffIdList[x][y]
             /\ chan'[x][y] = IF x = i /\ y = j THEN Append(chan[i][j], d) ELSE chan[x][y]
    BY <1>2 DEF PostWriteSend, TypeOK
  <1>5. d.control = "DATA" /\ Len(d.ids) = 0
    OBVIOUS
  <1> HIDE DEF d, j
  <1> DEFINE go == Grow(h[i][j], Len(chan[i][j]), d)
  <1>6. /\ Len(buffIdList[i][j]) \in Nat /\ Len(buffIdList[j][i]) \in Nat
        /\ Len(releaseIdList[i][j]) \in Nat /\ Len(releaseIdList[j][i]) \in Nat
        /\ chan[i][j] \in Seq(Message) /\ chan[j][i] \in Seq(Message)
        /\ buffIdList[i][j] \in Seq(Slot)
    BY <1>2, ListsTyped
  <1>7. PairDuplex(h, i, j)
    BY <1>1, <1>2 DEF Balanced
  <1>8. Duplex(Len(buffIdList[i][j]) - 1, Append(chan[i][j], d), go, Len(releaseIdList[j][i]),
               Len(buffIdList[j][i]), chan[j][i], h[j][i], Len(releaseIdList[i][j]))
    BY <1>2, <1>3, <1>5, <1>6, <1>7, DuplexPost DEF PairDuplex
  <1>9. Len(Tail(buffIdList[i][j])) = Len(buffIdList[i][j]) - 1
    BY <1>3, <1>6
  <1>10. h[i][j] \in [Nat -> Weight] /\ h[j][i] \in [Nat -> Weight]
    BY <1>2 DEF Weights
  <1>11. go \in [Nat -> Weight]
    <2>1. Len(chan[i][j]) \in Nat
      BY <1>6
    <2> QED BY <2>1, <1>3, <1>10, SumsTyped
  <1> HIDE DEF go
  <1>12. /\ buffIdList'[i][j] = Tail(buffIdList[i][j]) /\ buffIdList'[j][i] = buffIdList[j][i]
         /\ chan'[i][j] = Append(chan[i][j], d) /\ chan'[j][i] = chan[j][i]
    BY <1>2, <1>4
  <1>13. Duplex(Len(buffIdList'[i][j]), chan'[i][j], go, Len(releaseIdList'[j][i]),
                Len(buffIdList'[j][i]), chan'[j][i], h[j][i], Len(releaseIdList'[i][j]))
    BY <1>4, <1>8, <1>9, <1>12
  <1>14. \A x, y \in Machine : ~(x = i /\ y = j) /\ ~(x = j /\ y = i) =>
            /\ buffIdList'[x][y] = buffIdList[x][y]
            /\ releaseIdList'[x][y] = releaseIdList[x][y]
            /\ chan'[x][y] = chan[x][y]
    BY <1>4
  <1> QED BY <1>1, <1>2, <1>10, <1>11, <1>13, <1>14, BalancedStep
(* A poll: of a CLEAR, below the threshold or at it.  It never exits. *)
LEMMA PollBalanced ==
  ASSUME TypeOK, ReserveInv, NEW i \in Machine, NEW j \in Machine, PollRecv(i, j)
  PROVE  /\ \E g \in Weights : Balanced(g)'
         /\ pc' = pc
         /\ \A x \in Machine : releaseIdList'[x][x] = <<>>
  <1> DEFINE msg == Head(chan[j][i])
             free == Replenished(i, j, msg)
             noted == Append(releaseIdList[i][j], msg.buf)
             F == Len(buffIdList[i][j])
             m == Len(releaseIdList[i][j])
             c == Len(msg.ids)
  <1>1. PICK h \in Weights : Balanced(h)
    BY DEF ReserveInv
  <1>2. chan[j][i] # <<>> /\ i # j
    BY DEF PollRecv
  <1>3. /\ F \in Nat /\ Len(buffIdList[j][i]) \in Nat
        /\ m \in Nat /\ Len(releaseIdList[j][i]) \in Nat
        /\ chan[i][j] \in Seq(Message) /\ chan[j][i] \in Seq(Message)
        /\ buffIdList[i][j] \in Seq(Slot) /\ releaseIdList[i][j] \in Seq(Slot)
    BY ListsTyped
  <1>4. /\ msg \in Message /\ msg.buf \in Slot /\ msg.ids \in Seq(Slot) /\ free \in Seq(Slot)
    BY <1>2, HeadTyped
  <1>5. Len(free) = F + c /\ c \in Nat /\ Len(noted) = m + 1
    BY SMTT(40), <1>3, <1>4 DEF Replenished
  <1>6. Duplex(F, chan[i][j], h[i][j], Len(releaseIdList[j][i]),
               Len(buffIdList[j][i]), chan[j][i], h[j][i], m)
    BY <1>1, <1>2 DEF Balanced, PairDuplex
  <1>7. F >= 1 /\ m < ReleaseBlock /\ ReleaseBlock \in Nat
    <2>1. Sums(chan[j][i], h[j][i]) /\ Covered(F, chan[j][i], h[j][i], m) /\ m < ReleaseBlock
      BY <1>6 DEF Duplex, Side
    <2> QED BY <2>1, <1>3, SlotFree, BlockAssumption
  <1>8. h[i][j] \in [Nat -> Weight] /\ h[j][i] \in [Nat -> Weight]
    BY DEF Weights
  <1>9. Shift(h[j][i]) \in [Nat -> Weight]
    BY <1>4, <1>8, SumsTyped
  <1>10. free # <<>>
    <2>1. Len(free) # 0
      <3> HIDE DEF free, F, c
      <3> QED BY <1>3, <1>5, <1>7
    <2> QED BY <2>1, <1>4
  <1>11. \A x \in Machine : releaseIdList[x][x] = <<>>
    BY DEF ReserveInv
  <1>12. CASE PollClear(i, j, msg)
    <2>1. /\ releaseIdList' = releaseIdList /\ pc' = pc
          /\ \A x, y \in Machine :
               /\ buffIdList'[x][y] = IF x = i /\ y = j THEN free ELSE buffIdList[x][y]
               /\ chan'[x][y] = IF x = j /\ y = i THEN Tail(chan[j][i]) ELSE chan[x][y]
      BY <1>12 DEF PollClear, TypeOK
    <2>2. msg.control = "CLEAR"
      BY <1>12 DEF PollClear
    <2>3. OwnOf(Head(chan[j][i])) = 0
      BY <2>2 DEF OwnOf
    <2>4. m = m + 0
      BY <1>3
    <2>5. Duplex(F + c, chan[i][j], h[i][j], Len(releaseIdList[j][i]),
                 Len(buffIdList[j][i]), Tail(chan[j][i]), Shift(h[j][i]), m)
      BY <2>3, <2>4, <1>2, <1>3, <1>6, <1>7, DuplexRead
    <2> HIDE DEF free, msg, noted, F, c, m
    <2>6. Duplex(Len(buffIdList'[i][j]), chan'[i][j], h[i][j], Len(releaseIdList'[j][i]),
                 Len(buffIdList'[j][i]), chan'[j][i], Shift(h[j][i]), Len(releaseIdList'[i][j]))
      <3>1. /\ buffIdList'[i][j] = free /\ buffIdList'[j][i] = buffIdList[j][i]
            /\ chan'[i][j] = chan[i][j] /\ chan'[j][i] = Tail(chan[j][i])
        BY <2>1, <1>2
      <3> QED BY <3>1, <2>1, <2>5, <1>5 DEF m
    <2>7. \A x, y \in Machine : ~(x = i /\ y = j) /\ ~(x = j /\ y = i) =>
             /\ buffIdList'[x][y] = buffIdList[x][y]
             /\ releaseIdList'[x][y] = releaseIdList[x][y]
             /\ chan'[x][y] = chan[x][y]
      BY <2>1
    <2>8. \E g \in Weights : Balanced(g)'
      BY <2>6, <2>7, <1>1, <1>2, <1>8, <1>9, BalancedStep
    <2> QED BY <2>1, <2>8, <1>11
  <1>13. CASE PollNote(i, j, msg)
    <2>1. /\ pc' = pc
          /\ \A x, y \in Machine :
               /\ buffIdList'[x][y] = IF x = i /\ y = j THEN free ELSE buffIdList[x][y]
               /\ releaseIdList'[x][y] = IF x = i /\ y = j THEN noted ELSE releaseIdList[x][y]
               /\ chan'[x][y] = IF x = j /\ y = i THEN Tail(chan[j][i]) ELSE chan[x][y]
      BY <1>13 DEF PollNote, TypeOK
    <2>2. msg.control # "CLEAR" /\ m + 1 < ReleaseBlock
      BY <1>13 DEF PollNote
    <2>3. OwnOf(Head(chan[j][i])) = 1
      BY <2>2 DEF OwnOf
    <2>4. m + 1 \in Nat
      BY <1>3
    <2>5. Duplex(F + c, chan[i][j], h[i][j], Len(releaseIdList[j][i]),
                 Len(buffIdList[j][i]), Tail(chan[j][i]), Shift(h[j][i]), m + 1)
      BY <2>2, <2>3, <2>4, <1>2, <1>3, <1>6, DuplexRead
    <2> HIDE DEF free, msg, noted, F, c, m
    <2>6. Duplex(Len(buffIdList'[i][j]), chan'[i][j], h[i][j], Len(releaseIdList'[j][i]),
                 Len(buffIdList'[j][i]), chan'[j][i], Shift(h[j][i]), Len(releaseIdList'[i][j]))
      <3>1. /\ buffIdList'[i][j] = free /\ buffIdList'[j][i] = buffIdList[j][i]
            /\ releaseIdList'[i][j] = noted /\ releaseIdList'[j][i] = releaseIdList[j][i]
            /\ chan'[i][j] = chan[i][j] /\ chan'[j][i] = Tail(chan[j][i])
        BY <2>1, <1>2
      <3> QED BY <3>1, <2>5, <1>5
    <2>7. \A x, y \in Machine : ~(x = i /\ y = j) /\ ~(x = j /\ y = i) =>
             /\ buffIdList'[x][y] = buffIdList[x][y]
             /\ releaseIdList'[x][y] = releaseIdList[x][y]
             /\ chan'[x][y] = chan[x][y]
      BY <2>1
    <2>8. \E g \in Weights : Balanced(g)'
      BY <2>6, <2>7, <1>1, <1>2, <1>8, <1>9, BalancedStep
    <2>9. \A x \in Machine : releaseIdList'[x][x] = <<>>
      BY <2>1, <1>2, <1>11
    <2> QED BY <2>1, <2>8, <2>9
  <1>14. CASE PollRelease(i, j, msg)
    <2> DEFINE r == [control |-> "RELEASE", buf |-> Head(free), ids |-> noted]
               go == Grow(h[i][j], Len(chan[i][j]), r)
    <2>1. /\ pc' = pc
          /\ \A x, y \in Machine :
               /\ buffIdList'[x][y] = IF x = i /\ y = j THEN Tail(free) ELSE buffIdList[x][y]
               /\ releaseIdList'[x][y] = IF x = i /\ y = j THEN <<>> ELSE releaseIdList[x][y]
      BY <1>14 DEF PollRelease, TypeOK
    <2>2. \A x, y \in Machine :
            chan'[x][y] = IF x = j /\ y = i THEN Tail(chan[j][i])
                          ELSE IF x = i /\ y = j THEN Append(chan[i][j], r)
                          ELSE chan[x][y]
      BY <1>2, <1>14 DEF PollRelease, TypeOK
    <2>3. msg.control # "CLEAR" /\ m + 1 >= ReleaseBlock
      BY <1>14 DEF PollRelease
    <2>4. r \in Message
      BY <1>2, <1>10, ReleaseTyped
    <2>5. r.control = "RELEASE" /\ Len(r.ids) = m + 1
      BY <1>5
    <2>6. Len(chan[i][j]) \in Nat
      BY <1>3
    <2> HIDE DEF r, noted
    <2>7. go \in [Nat -> Weight]
      BY <2>4, <2>6, <1>8, SumsTyped
    <2>8. Duplex(F + Len(Head(chan[j][i]).ids) - 1, Append(chan[i][j], r), go,
                 Len(releaseIdList[j][i]), Len(buffIdList[j][i]), Tail(chan[j][i]),
                 Shift(h[j][i]), 0)
      BY <2>3, <2>4, <2>5, <1>2, <1>3, <1>6, DuplexRelease
    <2>9. Len(Tail(free)) = F + c - 1
      <3>1. Len(Tail(free)) = Len(free) - 1
        <4> HIDE DEF free
        <4> QED BY <1>4, <1>10
      <3>2. Len(free) = F + c /\ F \in Nat /\ c \in Nat
        BY <1>3, <1>5
      <3> HIDE DEF free, F, c
      <3> QED BY <3>1, <3>2
    <2>10. Len(<<>>) = 0
      OBVIOUS
    <2>11. Duplex(F + c - 1, Append(chan[i][j], r), go,
                  Len(releaseIdList[j][i]), Len(buffIdList[j][i]), Tail(chan[j][i]),
                  Shift(h[j][i]), 0)
      BY <2>8
    <2> HIDE DEF free, msg, F, c, m, go
    <2>12. Duplex(Len(buffIdList'[i][j]), chan'[i][j], go, Len(releaseIdList'[j][i]),
                  Len(buffIdList'[j][i]), chan'[j][i], Shift(h[j][i]), Len(releaseIdList'[i][j]))
      <3>1. /\ buffIdList'[i][j] = Tail(free) /\ buffIdList'[j][i] = buffIdList[j][i]
            /\ releaseIdList'[i][j] = <<>> /\ releaseIdList'[j][i] = releaseIdList[j][i]
            /\ chan'[i][j] = Append(chan[i][j], r) /\ chan'[j][i] = Tail(chan[j][i])
        BY <2>1, <2>2, <1>2
      <3> QED BY <3>1, <2>9, <2>10, <2>11
    <2>13. \A x, y \in Machine : ~(x = i /\ y = j) /\ ~(x = j /\ y = i) =>
             /\ buffIdList'[x][y] = buffIdList[x][y]
             /\ releaseIdList'[x][y] = releaseIdList[x][y]
             /\ chan'[x][y] = chan[x][y]
      BY <2>1, <2>2
    <2>14. \E g \in Weights : Balanced(g)'
      BY <2>7, <2>12, <2>13, <1>1, <1>2, <1>9, BalancedStep
    <2>15. \A x \in Machine : releaseIdList'[x][x] = <<>>
      BY <2>1, <1>2, <1>11
    <2> QED BY <2>1, <2>14, <2>15
  <1>15. CASE PollExit(i, j, msg)
    BY <1>10, <1>15 DEF PollExit
  <1> QED BY <1>12, <1>13, <1>14, <1>15 DEF PollRecv

(* clear_write_release towards all machines at once. *)
LEMMA ClearBalanced ==
  ASSUME TypeOK, ReserveInv, NEW i \in Machine, ClearWriteRelease(i)
  PROVE  /\ \E g \in Weights : Balanced(g)'
         /\ \A x \in Machine : releaseIdList'[x][x] = <<>>
  <1> DEFINE c(y) == [control |-> "CLEAR", buf |-> Head(buffIdList[i][y]),
                      ids |-> releaseIdList[i][y]]
  <1>1. PICK h \in Weights : Balanced(h)
    BY DEF ReserveInv
  <1>2. \A x, y \in Machine :
          /\ chan'[x][y] = IF x = i /\ y \in Noted(i) THEN Append(chan[x][y], c(y))
                                                      ELSE chan[x][y]
          /\ buffIdList'[x][y] = IF x = i /\ y \in Noted(i) THEN Rotate(buffIdList[x][y])
                                                            ELSE buffIdList[x][y]
          /\ releaseIdList'[x][y] = IF x = i THEN <<>> ELSE releaseIdList[x][y]
    BY DEF ClearWriteRelease, TypeOK
  <1>3. \A y \in Noted(i) : y \in Machine /\ buffIdList[i][y] # <<>> /\ c(y) \in Message
    <2>1. \A y \in Noted(i) : y \in Machine /\ buffIdList[i][y] # <<>>
      BY DEF ClearWriteRelease, Noted
    <2> QED BY <2>1, ClearTyped
  <1>4. \A y \in Machine : c(y).control = "CLEAR" /\ Len(c(y).ids) = Len(releaseIdList[i][y])
    OBVIOUS
  <1>5. \A y \in Machine : y \notin Noted(i) => releaseIdList[i][y] = <<>>
    BY DEF Noted
  <1>6. \A x \in Machine : releaseIdList[x][x] = <<>>
    BY DEF ReserveInv
  <1> HIDE DEF c
  <1> DEFINE e == [x \in Machine |-> [y \in Machine |->
                     IF x = i /\ y \in Noted(i) THEN Grow(h[i][y], Len(chan[i][y]), c(y))
                                                ELSE h[x][y]]]
  <1>7. \A x, y \in Machine : h[x][y] \in [Nat -> Weight]
    BY DEF Weights
  <1>8. \A y \in Noted(i) : Grow(h[i][y], Len(chan[i][y]), c(y)) \in [Nat -> Weight]
    <2> SUFFICES ASSUME NEW y \in Noted(i)
                 PROVE  Grow(h[i][y], Len(chan[i][y]), c(y)) \in [Nat -> Weight]
      OBVIOUS
    <2>1. y \in Machine /\ c(y) \in Message
      BY <1>3
    <2>2. chan[i][y] \in Seq(Message)
      BY <2>1, ListsTyped
    <2>3. Len(chan[i][y]) \in Nat /\ h[i][y] \in [Nat -> Weight]
      BY <2>1, <2>2, <1>7
    <2> QED BY <2>1, <2>3, SumsTyped
  <1>a. /\ e \in Weights
        /\ \A x, y \in Machine :
             e[x][y] = IF x = i /\ y \in Noted(i) THEN Grow(h[i][y], Len(chan[i][y]), c(y))
                                                  ELSE h[x][y]
    BY <1>7, <1>8 DEF Weights
  <1> HIDE DEF e
  <1>9. PICK g \in Weights : \A x, y \in Machine :
          g[x][y] = IF x = i /\ y \in Noted(i) THEN Grow(h[i][y], Len(chan[i][y]), c(y))
                                               ELSE h[x][y]
    BY <1>a
  <1>10. ASSUME NEW y \in Machine, y # i
         PROVE  PairDuplex(g, i, y)'
    <2>1. Duplex(Len(buffIdList[i][y]), chan[i][y], h[i][y], Len(releaseIdList[y][i]),
                 Len(buffIdList[y][i]), chan[y][i], h[y][i], Len(releaseIdList[i][y]))
      BY <1>1, <1>10 DEF Balanced, PairDuplex
    <2>2. /\ chan'[y][i] = chan[y][i] /\ buffIdList'[y][i] = buffIdList[y][i]
          /\ releaseIdList'[y][i] = releaseIdList[y][i] /\ releaseIdList'[i][y] = <<>>
          /\ g[y][i] = h[y][i]
      BY <1>2, <1>9, <1>10
    <2>3. Len(<<>>) = 0
      OBVIOUS
    <2>4. CASE y \in Noted(i)
      <3>1. c(y) \in Message /\ buffIdList[i][y] # <<>>
        BY <1>3, <2>4
      <3>2. /\ Len(buffIdList[i][y]) \in Nat /\ Len(buffIdList[y][i]) \in Nat
            /\ Len(releaseIdList[i][y]) \in Nat /\ Len(releaseIdList[y][i]) \in Nat
            /\ chan[i][y] \in Seq(Message) /\ chan[y][i] \in Seq(Message)
            /\ buffIdList[i][y] \in Seq(Slot)
        BY ListsTyped
      <3>3. Duplex(Len(buffIdList[i][y]), Append(chan[i][y], c(y)),
                   Grow(h[i][y], Len(chan[i][y]), c(y)), Len(releaseIdList[y][i]),
                   Len(buffIdList[y][i]), chan[y][i], h[y][i], 0)
        BY <2>1, <3>1, <3>2, <1>4, DuplexClear
      <3>4. Len(Rotate(buffIdList[i][y])) = Len(buffIdList[i][y])
        BY <3>1, <3>2 DEF Rotate
      <3>5. /\ chan'[i][y] = Append(chan[i][y], c(y))
            /\ buffIdList'[i][y] = Rotate(buffIdList[i][y])
            /\ g[i][y] = Grow(h[i][y], Len(chan[i][y]), c(y))
        BY <1>2, <1>9, <2>4
      <3> QED BY <2>2, <2>3, <3>3, <3>4, <3>5 DEF PairDuplex
    <2>5. CASE y \notin Noted(i)
      <3>1. /\ chan'[i][y] = chan[i][y] /\ buffIdList'[i][y] = buffIdList[i][y]
            /\ g[i][y] = h[i][y] /\ releaseIdList[i][y] = <<>>
        BY <1>2, <1>5, <1>9, <2>5
      <3> QED BY <2>1, <2>2, <3>1 DEF PairDuplex
    <2> QED BY <2>4, <2>5
  <1>11. ASSUME NEW x \in Machine, NEW y \in Machine, x # y
         PROVE  PairDuplex(g, x, y)'
    <2>1. CASE x = i
      BY <1>10, <1>11, <2>1
    <2>2. CASE y = i
      <3>1. PairDuplex(g, i, x)'
        BY <1>10, <1>11, <2>2
      <3> QED BY <3>1, <2>2, DuplexSwap DEF PairDuplex
    <2>3. CASE x # i /\ y # i
      <3>1. PairDuplex(h, x, y)
        BY <1>1, <1>11 DEF Balanced
      <3>2. /\ buffIdList'[x][y] = buffIdList[x][y] /\ buffIdList'[y][x] = buffIdList[y][x]
            /\ releaseIdList'[x][y] = releaseIdList[x][y] /\ releaseIdList'[y][x] = releaseIdList[y][x]
            /\ chan'[x][y] = chan[x][y] /\ chan'[y][x] = chan[y][x]
            /\ g[x][y] = h[x][y] /\ g[y][x] = h[y][x]
        BY <2>3, <1>2, <1>9
      <3> QED BY <3>1, <3>2 DEF PairDuplex
    <2> QED BY <2>1, <2>2, <2>3
  <1>12. \A x \in Machine : releaseIdList'[x][x] = <<>>
    BY <1>2, <1>6
  <1> QED BY <1>9, <1>11, <1>12 DEF Balanced

(* clear_write_release finds a slot for every CLEAR. *)
LEMMA NoClearExit ==
  ASSUME TypeOK, ReserveInv, NEW i \in Machine
  PROVE  ~ClearExit(i)
  <1> SUFFICES ASSUME NEW j \in Noted(i), buffIdList[i][j] = <<>> PROVE FALSE
    BY DEF ClearExit
  <1>1. PICK h \in Weights : Balanced(h)
    BY DEF ReserveInv
  <1>2. j \in Machine /\ j # i
    BY DEF Noted, ReserveInv
  <1>3. /\ Len(buffIdList[i][j]) \in Nat /\ Len(releaseIdList[i][j]) \in Nat
        /\ chan[j][i] \in Seq(Message)
    BY <1>2, ListsTyped
  <1>4. /\ Sums(chan[j][i], h[j][i])
        /\ Covered(Len(buffIdList[i][j]), chan[j][i], h[j][i], Len(releaseIdList[i][j]))
    BY <1>1, <1>2 DEF Balanced, PairDuplex, Duplex, Side
  <1>5. Len(buffIdList[i][j]) >= 1
    BY <1>3, <1>4, SlotFree
  <1>6. Len(<<>>) = 0
    OBVIOUS
  <1> QED BY <1>5, <1>6

(* "expect sbuf always avaliable": with the sizes of the code the exit of  *)
(* get_write_send_buf is never reached, whatever the machines send, poll   *)
(* and reset, for every number of machines, messages and batches.          *)
THEOREM ReserveEnough ==
  ASSUME SizesFit
  PROVE  Spec => []ReserveAvailable
  <1>1. Init => ReserveInv
    BY InitReserve
  <1>2. TypeOK /\ ReserveInv /\ [Next]_vars => ReserveInv'
    <2> SUFFICES ASSUME TypeOK, ReserveInv, [Next]_vars PROVE ReserveInv'
      OBVIOUS
    <2>0. /\ \A i \in Machine : releaseIdList[i][i] = <<>> /\ pc[i] # "exit"
          /\ \A i \in Machine : pc[i] = "get" => peer[i] # i
      BY DEF ReserveInv, ReserveAvailable
    <2>a. ASSUME UNCHANGED <<buffIdList, releaseIdList, chan>>
          PROVE  /\ \E h \in Weights : Balanced(h)'
                 /\ \A i \in Machine : releaseIdList'[i][i] = <<>>
      <3>1. PICK h \in Weights : Balanced(h)
        BY DEF ReserveInv
      <3>2. Balanced(h)'
        BY <2>a, <3>1 DEF Balanced, PairDuplex
      <3> QED BY <2>0, <2>a, <3>2
    <2>b. ASSUME \E h \in Weights : Balanced(h)',
                 \A i \in Machine : releaseIdList'[i][i] = <<>>,
                 \A i \in Machine : pc'[i] # "exit" /\ (pc'[i] = "get" => peer'[i] # i)
          PROVE  ReserveInv'
      BY <2>b DEF ReserveInv, ReserveAvailable
    <2>1. ASSUME NEW i \in Machine, NEW m \in Machine, GetStart(i, m) PROVE ReserveInv'
      <3>1. UNCHANGED <<buffIdList, releaseIdList, chan>>
        BY <2>1 DEF GetStart
      <3>2. \A k \in Machine : pc'[k] # "exit" /\ (pc'[k] = "get" => peer'[k] # k)
        BY <2>0, <2>1 DEF GetStart, TypeOK
      <3> QED BY <2>a, <2>b, <3>1, <3>2
    <2>2. ASSUME NEW i \in Machine, PostWriteSend(i) PROVE ReserveInv'
      <3>1. \E h \in Weights : Balanced(h)'
        BY <2>2, PostBalanced
      <3>2. \A k \in Machine : pc'[k] # "exit" /\ (pc'[k] = "get" => peer'[k] # k)
        BY <2>0, <2>2 DEF PostWriteSend, TypeOK
      <3>3. releaseIdList' = releaseIdList
        BY <2>2 DEF PostWriteSend
      <3> QED BY <2>0, <2>b, <3>1, <3>2, <3>3
    <2>3. ASSUME NEW i \in Machine, NEW j \in Machine, PollRecv(i, j) PROVE ReserveInv'
      <3>1. /\ \E h \in Weights : Balanced(h)'
            /\ pc' = pc /\ \A x \in Machine : releaseIdList'[x][x] = <<>>
        BY <2>3, PollBalanced
      <3>2. peer' = peer
        BY <2>3 DEF PollRecv
      <3> QED BY <2>0, <2>b, <3>1, <3>2
    <2>4. ASSUME NEW i \in Machine, Finish(i) \/ ResetStart(i) PROVE ReserveInv'
      <3>1. UNCHANGED <<buffIdList, releaseIdList, chan>>
        BY <2>4 DEF Finish, ResetStart
      <3>2. \A k \in Machine : pc'[k] # "exit" /\ (pc'[k] = "get" => peer'[k] # k)
        BY <2>0, <2>4 DEF Finish, ResetStart, TypeOK
      <3> QED BY <2>a, <2>b, <3>1, <3>2
    <2>5. ASSUME NEW i \in Machine, ResetStep(i) PROVE ReserveInv'
      <3>1. ResetLoop(i) /\ pc[i] = "reset"
        BY <2>5, NoClearExit DEF ResetStep
      <3>2. ClearWriteRelease(i)
        BY <3>1 DEF ResetLoop
      <3>3. /\ \E h \in Weights : Balanced(h)'
            /\ \A x \in Machine : releaseIdList'[x][x] = <<>>
        BY <3>2, ClearBalanced
      <3>4. /\ \/ pc' = pc
               \/ pc' = [pc EXCEPT ![i] = IF batch[i] + 1 < MaxBatch THEN "run" ELSE "done"]
            /\ \A k \in Machine : k # i => peer'[k] = peer[k]
        BY <3>1 DEF ResetLoop, TypeOK
      <3>5. \A k \in Machine : pc'[k] # "exit" /\ (pc'[k] = "get" => peer'[k] # k)
        BY <2>0, <3>1, <3>4 DEF TypeOK
      <3> QED BY <2>b, <3>3, <3>5
    <2>6. CASE UNCHANGED vars
      <3>1. UNCHANGED <<buffIdList, releaseIdList, chan>> /\ pc' = pc /\ peer' = peer
        BY <2>6 DEF vars
      <3> QED BY <2>0, <2>a, <2>b, <3>1
    <2> QED BY <2>1, <2>2, <2>3, <2>4, <2>5, <2>6 DEF Next
  <1>3. ReserveInv => ReserveAvailable
    BY DEF ReserveInv
  <1> QED BY <1>1, <1>2, <1>3, TypeCorrect, PTL DEF Spec
=============================================================================
