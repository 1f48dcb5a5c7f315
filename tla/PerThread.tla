------------------------------ MODULE PerThread ------------------------------
(***************************************************************************)
(* Storage with one object for every thread (src/coromem/src/backend.cpp,  *)
(* backend.h): a PerThreadStorage has the same offset in the region of     *)
(* every thread.  The offsets come from PerBackend, which cuts them from   *)
(* the end of the used part or from lists of free pieces, one list for     *)
(* each power of two.  Sizes are in cache lines, the smallest piece.       *)
(*                                                                         *)
(* Storages are constructed and destroyed by the main thread (RangeIterator*)
(* and the executors of the loops among them), so nextLoc and the lists    *)
(* have one user.  The regions are set up by the threads themselves.       *)
(***************************************************************************)
EXTENDS Integers, Sequences, FiniteSets, SequencesExt

CONSTANTS
  PtAllocSize,  \* ptAllocSize
  MaxSize,      \* MAX_SIZE, lists of free pieces
  WeakFails     \* compare_exchange_weak may fail without a reason

ASSUME PerThreadAssumption ==
  /\ PtAllocSize \in Nat \ {0} /\ MaxSize \in Nat \ {0}
  /\ WeakFails \in BOOLEAN
  /\ PtAllocSize <= 2 ^ (MaxSize - 1)

VARIABLES
  heads,      \* [t]: heads of the per-thread backend, the region of t
  ptsBase,    \* [t]: ptsBase, thread-local
  pssHeads,   \* [t]: heads of the per-socket backend
  pssBase,    \* [t]: pssBase
  nextLoc,    \* nextLoc of the per-thread backend
  free,       \* [class]: freeOffsets
  storages    \* the storages that exist: [offset, size, made]

regionVars == <<heads, ptsBase, pssHeads, pssBase>>
allocVars == <<nextLoc, free, storages>>
ptVars == <<regionVars, allocVars>>

NoRegion == <<>>
Class == 0 .. MaxSize - 1
NoFree == [c \in Class |-> <<>>]

(* allocPages: memory nobody else has, filled with zeros.  It is told by   *)
(* the thread that asks and by how often that thread has been started.     *)
NewRegion(t, run) == <<t, run>>

-----------------------------------------------------------------------------
(* nextLog2.                                                               *)
NextLog2(sz) == CHOOSE c \in Class : 2 ^ c >= sz /\ \A d \in 0 .. c - 1 : 2 ^ d < sz

(* The lists allocOffset may take a piece for class c from.                *)
Fitting(c) == {d \in c .. MaxSize - 1 : free[d] # <<>>}

\* Faulty variant: the change of a larger piece starts at the piece itself.
ChangeOverlapping(offset, c, index, d) == offset + 2 ^ index - 2 ^ (d + 1)

(* What is left of a piece of class index after one of class c has been    *)
(* cut from it: the start of the rest of class d.                          *)
Change(offset, c, index, d) == offset + 2 ^ c + 2 ^ index - 2 ^ (d + 1)

(* allocOffset for an object of class c: from the end, or from the first   *)
(* list that has a piece; the rest of it is divided among smaller lists.   *)
AllocOffset(c, offset) ==
  IF nextLoc + 2 ^ c <= PtAllocSize
    THEN /\ offset = nextLoc
         /\ nextLoc' = nextLoc + 2 ^ c
         /\ UNCHANGED free
    ELSE LET index == CHOOSE d \in Fitting(c) : \A e \in Fitting(c) : d <= e IN
         /\ Fitting(c) # {}
         /\ offset = Last(free[index])
         /\ free' = [d \in Class |->
              IF d = index THEN Front(free[d])
              ELSE IF d \in c .. index - 1
                THEN Append(free[d], Change(offset, c, index, d))
              ELSE free[d]]
         /\ UNCHANGED nextLoc

(* allocOffset finds nothing: the program exits.                           *)
OutOfMemory(c) == nextLoc + 2 ^ c > PtAllocSize /\ Fitting(c) = {}

(* deallocOffset: the end is lowered, or the piece goes to its list.       *)
DeallocOffset(c, offset) ==
  IF nextLoc = offset + 2 ^ c
    THEN nextLoc' = offset /\ UNCHANGED free
    ELSE free' = [free EXCEPT ![c] = Append(@, offset)] /\ UNCHANGED nextLoc

(* The offsets allocOffset can return.                                     *)
Offset == 0 .. PtAllocSize

(* The constructor of a PerThreadStorage: an object in every region.       *)
Construct(sz) ==
  \E offset \in Offset :
    /\ AllocOffset(NextLog2(sz), offset)
    /\ storages' = storages \cup {[offset |-> offset, size |-> sz, made |-> heads]}

(* Its destructor.                                                         *)
Destruct(s) ==
  /\ DeallocOffset(NextLog2(s.size), s.offset)
  /\ storages' = storages \ {s}

-----------------------------------------------------------------------------
(* initPerThread.                                                          *)
InitPerThread(t, run) ==
  /\ heads' = [heads EXCEPT ![t] = NewRegion(t, run)]
  /\ ptsBase' = [ptsBase EXCEPT ![t] = NewRegion(t, run)]
  /\ UNCHANGED <<pssHeads, pssBase>>

\* Faulty variant: nobody waits for the leader.
InitPerSocketNow(t, leader, run) ==
  LET r == IF t = leader THEN NewRegion(t, run) ELSE pssHeads[leader] IN
  /\ pssHeads' = [pssHeads EXCEPT ![t] = r]
  /\ pssBase' = [pssBase EXCEPT ![t] = r]
  /\ UNCHANGED <<heads, ptsBase>>

(* initPerSocket: a leader makes the region of its socket, the others wait *)
(* until there is one.                                                     *)
InitPerSocket(t, leader, run) ==
  LET r == IF t = leader THEN NewRegion(t, run) ELSE pssHeads[leader] IN
  /\ t = leader \/ pssHeads[leader] # NoRegion \/ WeakFails
  /\ pssHeads' = [pssHeads EXCEPT ![t] = r]
  /\ pssBase' = [pssBase EXCEPT ![t] = r]
  /\ UNCHANGED <<heads, ptsBase>>

(* The regions when the constructor of the pool starts its threads: the    *)
(* main thread has called initPTS.                                         *)
PerThreadInit(threads) ==
  LET main == [t \in threads |-> IF t = 0 THEN NewRegion(0, 0) ELSE NoRegion] IN
  /\ heads = main /\ ptsBase = main
  /\ pssHeads = main /\ pssBase = main
  /\ nextLoc = 0 /\ free = NoFree /\ storages = {}

-----------------------------------------------------------------------------
(* The pieces of the lists and the places of the storages.                 *)
FreePieces == {<<free[p[1]][p[2]], 2 ^ p[1]>> : p \in
                 {q \in Class \X (1 .. PtAllocSize) : q[2] \in DOMAIN free[q[1]]}}
UsedPieces == {<<s.offset, 2 ^ NextLog2(s.size)>> : s \in storages}
Lines(p) == p[1] .. p[1] + p[2] - 1

(* The cache lines up to nextLoc belong to one storage or to one free      *)
(* piece each: storages never share memory and none is lost, whatever      *)
(* order they are constructed and destroyed in, before and after the pool  *)
(* is paused.                                                              *)
StoragesApart ==
  LET all == FreePieces \cup UsedPieces IN
  /\ Cardinality(UsedPieces) = Cardinality(storages)
  /\ FreePieces \cap UsedPieces = {}
  /\ \A p, q \in all : p # q => Lines(p) \cap Lines(q) = {}
  /\ UNION {Lines(p) : p \in all} = 0 .. nextLoc - 1
  /\ nextLoc <= PtAllocSize
  /\ \A c \in Class : \A m, n \in DOMAIN free[c] : free[c][m] = free[c][n] => m = n

=============================================================================
