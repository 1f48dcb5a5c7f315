------------------------------ MODULE WriteFlow ------------------------------
(***************************************************************************)
(* Credit flow control of the one-sided RDMA write channel                 *)
(* (RdmaCommunication in rdma_comm.cc).                                    *)
(*                                                                         *)
(* Thread t of a machine owns one reliable, ordered queue pair to thread t *)
(* of every other machine; this module is one such slice, so a machine     *)
(* here is one thread of it.  A message is an RDMA write with immediate    *)
(* data into slot buf of the receiver: the sender may reuse a slot only    *)
(* after the receiver has copied it out and has sent the slot number back, *)
(* in a RELEASE message (sent when RELEASE_BLOCK numbers have gathered,    *)
(* and itself occupying a slot) or, between two batches of queries, in a   *)
(* CLEAR message (sent from a slot that stays on the free list).           *)
(*                                                                         *)
(* chan[i][j] holds the writes of i to j that j has not polled yet, oldest *)
(* first.  A message keeps the slot content of the moment it was posted,   *)
(* as the code does while SlotsDistinct holds: over one batch it does.  A  *)
(* CLEAR that is still unread in the next batch may be overwritten; what   *)
(* the receiver then reads is not modelled.                                *)
(*                                                                         *)
(* TERMINATION messages travel on the channel of thread 0 and set term[],  *)
(* which the threads share: the slice is that of a thread other than 0,    *)
(* fin stands for term[] and TERMINATION is not in chan.                   *)
(***************************************************************************)
EXTENDS Naturals, Sequences

CONSTANTS
  MachineNum,    \* MACHINE_NUM
  MaxWriteNum,   \* MAX_WRITE_NUM, slots per ordered pair of machines
  ReleaseBlock,  \* RELEASE_BLOCK, both the reserve and the release threshold
  MaxWcNum,      \* MAX_WC_NUM, completions one poll may return
  MaxSend,       \* bound: messages a caller sends on one pair in a batch
  MaxBatch,      \* bound: batches of queries
  MaxLate        \* messages of a pair still unpolled when its sender finishes

ASSUME MachineAssumption == MachineNum \in Nat \ {0}
ASSUME BlockAssumption ==
  /\ MaxWriteNum \in Nat /\ ReleaseBlock \in Nat \ {0} /\ MaxWcNum \in Nat
  /\ ReleaseBlock < MaxWriteNum
ASSUME BoundAssumption == MaxSend \in Nat /\ MaxBatch \in Nat /\ MaxLate \in Nat

VARIABLES
  buffIdList,     \* [i][j]: sbuf->buff_id_list[j] of machine i, free slots
  releaseIdList,  \* [i][j]: rbuf->release_id_list[j] of i, slots of j to give back
  chan,           \* [i][j]: writes of i to j, posted and not yet polled by j
  pc,             \* [i]: what the thread is executing
  peer,           \* [i]: argument of get_write_send_buf, or m of reset_sendrecv
  polled,         \* [i]: completions polled in this iteration of reset_sendrecv
  sent,           \* [i][j]: messages sent on the pair in this batch
  fin,            \* [i]: batches whose TERMINATION machine i has announced
  batch           \* [i]: batches after which machine i has reset its channel

vars == <<buffIdList, releaseIdList, chan, pc, peer, polled, sent, fin, batch>>

Machine == 0 .. MachineNum - 1
Slot == 0 .. MaxWriteNum - 1

(* ControlType: DATA stands for every control whose payload poll_recv only *)
(* copies into a queue.                                                    *)
Control == {"DATA", "RELEASE", "CLEAR"}
Message == [control : Control, buf : Slot, ids : Seq(Slot)]

PC == {"run", "get", "reset", "exit", "done"}

TypeOK ==
  /\ buffIdList \in [Machine -> [Machine -> Seq(Slot)]]
  /\ releaseIdList \in [Machine -> [Machine -> Seq(Slot)]]
  /\ chan \in [Machine -> [Machine -> Seq(Message)]]
  /\ pc \in [Machine -> PC]
  /\ peer \in [Machine -> Machine]
  /\ polled \in [Machine -> Nat]
  /\ sent \in [Machine -> [Machine -> Nat]]
  /\ fin \in [Machine -> Nat]
  /\ batch \in [Machine -> Nat]

\* Faulty variant: the initial list counts from one.
AllSlotsFromOne == [k \in 1 .. MaxWriteNum |-> k]

AllSlots == [k \in 1 .. MaxWriteNum |-> k - 1]

Init ==
  /\ buffIdList = [i \in Machine |-> [j \in Machine |-> AllSlots]]
  /\ releaseIdList = [i \in Machine |-> [j \in Machine |-> <<>>]]
  /\ chan = [i \in Machine |-> [j \in Machine |-> <<>>]]
  /\ pc = [i \in Machine |-> "run"]
  /\ peer = [i \in Machine |-> 0]
  /\ polled = [i \in Machine |-> 0]
  /\ sent = [i \in Machine |-> [j \in Machine |-> 0]]
  /\ fin = [i \in Machine |-> 0]
  /\ batch = [i \in Machine |-> 0]

-----------------------------------------------------------------------------
(* A caller asks for a slot towards m: get_write_send_buf(m) starts to     *)
(* poll until more than RELEASE_BLOCK slots are free.                      *)
GetStart(i, m) ==
  /\ pc[i] = "run" /\ m # i
  /\ fin[i] = batch[i] /\ sent[i][m] < MaxSend
  /\ pc' = [pc EXCEPT ![i] = "get"]
  /\ peer' = [peer EXCEPT ![i] = m]
  /\ UNCHANGED <<buffIdList, releaseIdList, chan, polled, sent, fin, batch>>

\* Faulty variants: no reserve is left; the slot is used but not popped.
PostNoReserve(i) ==
  LET m == peer[i] IN
  /\ pc[i] = "get"
  /\ Len(buffIdList[i][m]) > 0
  /\ chan' = [chan EXCEPT ![i][m] =
                Append(@, [control |-> "DATA", buf |-> Head(buffIdList[i][m]),
                           ids |-> <<>>])]
  /\ buffIdList' = [buffIdList EXCEPT ![i][m] = Tail(@)]
  /\ sent' = [sent EXCEPT ![i][m] = @ + 1]
  /\ pc' = [pc EXCEPT ![i] = "run"]
  /\ UNCHANGED <<releaseIdList, peer, polled, fin, batch>>

PostNoPop(i) ==
  LET m == peer[i] IN
  /\ pc[i] = "get"
  /\ Len(buffIdList[i][m]) > ReleaseBlock
  /\ chan' = [chan EXCEPT ![i][m] =
                Append(@, [control |-> "DATA", buf |-> Head(buffIdList[i][m]),
                           ids |-> <<>>])]
  /\ sent' = [sent EXCEPT ![i][m] = @ + 1]
  /\ pc' = [pc EXCEPT ![i] = "run"]
  /\ UNCHANGED <<buffIdList, releaseIdList, peer, polled, fin, batch>>

(* The loop ends: the front slot is taken and the message posted.          *)
PostWriteSend(i) ==
  LET m == peer[i] IN
  /\ pc[i] = "get"
  /\ Len(buffIdList[i][m]) > ReleaseBlock
  /\ chan' = [chan EXCEPT ![i][m] =
                Append(@, [control |-> "DATA", buf |-> Head(buffIdList[i][m]),
                           ids |-> <<>>])]
  /\ buffIdList' = [buffIdList EXCEPT ![i][m] = Tail(@)]
  /\ sent' = [sent EXCEPT ![i][m] = @ + 1]
  /\ pc' = [pc EXCEPT ![i] = "run"]
  /\ UNCHANGED <<releaseIdList, peer, polled, fin, batch>>

-----------------------------------------------------------------------------
(* poll_recv of one completion of a write of j.  The loops around it may   *)
(* see any number of completions per call, so one per step is the general  *)
(* case; only reset_sendrecv, which acts after every call, can tell that a *)
(* call returns at most MAX_WC_NUM.                                        *)

\* Faulty variant: the loop over the numbers given back stops one early.
ReplenishedShort(i, j, msg) ==
  buffIdList[i][j] \o SubSeq(msg.ids, 1, Len(msg.ids) - 1)

(* The free slots once the numbers given back by msg have been pushed.     *)
Replenished(i, j, msg) == buffIdList[i][j] \o msg.ids

(* A CLEAR goes back to its sender's list by itself: nothing to release.   *)
PollClear(i, j, msg) ==
  /\ msg.control = "CLEAR"
  /\ buffIdList' = [buffIdList EXCEPT ![i][j] = Replenished(i, j, msg)]
  /\ chan' = [chan EXCEPT ![j][i] = Tail(@)]
  /\ UNCHANGED <<releaseIdList, pc>>

\* Faulty variant: the threshold is never reached.
PollNoteAlways(i, j, msg) ==
  /\ msg.control # "CLEAR"
  /\ buffIdList' = [buffIdList EXCEPT ![i][j] = Replenished(i, j, msg)]
  /\ releaseIdList' = [releaseIdList EXCEPT ![i][j] = Append(@, msg.buf)]
  /\ chan' = [chan EXCEPT ![j][i] = Tail(@)]
  /\ UNCHANGED pc

(* send_write_release below the threshold: the slot is only noted.         *)
PollNote(i, j, msg) ==
  /\ msg.control # "CLEAR"
  /\ Len(releaseIdList[i][j]) + 1 < ReleaseBlock
  /\ buffIdList' = [buffIdList EXCEPT ![i][j] = Replenished(i, j, msg)]
  /\ releaseIdList' = [releaseIdList EXCEPT ![i][j] = Append(@, msg.buf)]
  /\ chan' = [chan EXCEPT ![j][i] = Tail(@)]
  /\ UNCHANGED pc

\* Faulty variant: the numbers sent are not removed from the list.
PollReleaseKeeping(i, j, msg) ==
  LET free == Replenished(i, j, msg) IN
  /\ msg.control # "CLEAR"
  /\ Len(releaseIdList[i][j]) + 1 >= ReleaseBlock
  /\ free # <<>>
  /\ buffIdList' = [buffIdList EXCEPT ![i][j] = Tail(free)]
  /\ releaseIdList' = [releaseIdList EXCEPT ![i][j] = Append(@, msg.buf)]
  /\ chan' = [chan EXCEPT ![j][i] = Tail(@),
                          ![i][j] = Append(@,
                             [control |-> "RELEASE", buf |-> Head(free),
                              ids |-> Append(releaseIdList[i][j], msg.buf)])]
  /\ UNCHANGED pc

(* send_write_release at the threshold: all noted slots leave in a RELEASE *)
(* that takes a slot of the reserve.                                       *)
PollRelease(i, j, msg) ==
  LET free == Replenished(i, j, msg) IN
  /\ msg.control # "CLEAR"
  /\ Len(releaseIdList[i][j]) + 1 >= ReleaseBlock
  /\ free # <<>>
  /\ buffIdList' = [buffIdList EXCEPT ![i][j] = Tail(free)]
  /\ releaseIdList' = [releaseIdList EXCEPT ![i][j] = <<>>]
  /\ chan' = [chan EXCEPT ![j][i] = Tail(@),
                          ![i][j] = Append(@,
                             [control |-> "RELEASE", buf |-> Head(free),
                              ids |-> Append(releaseIdList[i][j], msg.buf)])]
  /\ UNCHANGED pc

(* "Error: expect sbuf always avaliable.": the process exits.              *)
PollExit(i, j, msg) ==
  /\ msg.control # "CLEAR"
  /\ Len(releaseIdList[i][j]) + 1 >= ReleaseBlock
  /\ Replenished(i, j, msg) = <<>>
  /\ pc' = [pc EXCEPT ![i] = "exit"]
  /\ UNCHANGED <<buffIdList, releaseIdList, chan>>

PollRecv(i, j) ==
  /\ \/ pc[i] \in {"run", "get"} /\ UNCHANGED polled
     \/ /\ pc[i] = "reset" /\ polled[i] < MaxWcNum
        /\ polled' = [polled EXCEPT ![i] = @ + 1]
  /\ i # j /\ chan[j][i] # <<>>
  /\ LET msg == Head(chan[j][i]) IN
       \/ PollClear(i, j, msg)
       \/ PollNote(i, j, msg)
       \/ PollRelease(i, j, msg)
       \/ PollExit(i, j, msg)
  /\ UNCHANGED <<peer, sent, fin, batch>>

-----------------------------------------------------------------------------
InFlight(i, j) == Len(SelectSeq(chan[i][j], LAMBDA c : c.control = "DATA"))

(* The batch of i is answered: it announces TERMINATION and sends no more. *)
(* An answered query has its results back, but messages nobody waits for   *)
(* (candidate synchronisation) may still be under way: at most MaxLate.    *)
Finish(i) ==
  /\ pc[i] = "run" /\ fin[i] = batch[i]
  /\ \A m \in Machine : InFlight(i, m) <= MaxLate
  /\ fin' = [fin EXCEPT ![i] = @ + 1]
  /\ UNCHANGED <<buffIdList, releaseIdList, chan, pc, peer, polled, sent, batch>>

(* check_term: every machine has announced the batch; reset_sendrecv runs. *)
ResetStart(i) ==
  /\ pc[i] = "run" /\ \A m \in Machine : fin[m] > batch[i]
  /\ pc' = [pc EXCEPT ![i] = "reset"]
  /\ peer' = [peer EXCEPT ![i] = 0]
  /\ UNCHANGED <<buffIdList, releaseIdList, chan, polled, sent, fin, batch>>

(* Machines with slots noted and not yet given back.                       *)
Noted(i) == {m \in Machine : releaseIdList[i][m] # <<>>}

Rotate(s) == Append(Tail(s), Head(s))

(* clear_write_release: one CLEAR per machine with noted slots, from the   *)
(* front slot, which moves to the back of the free list.                   *)
ClearWriteRelease(i) ==
  /\ \A m \in Noted(i) : buffIdList[i][m] # <<>>
  /\ chan' = [chan EXCEPT ![i] = [m \in Machine |->
        IF m \in Noted(i)
          THEN Append(chan[i][m], [control |-> "CLEAR",
                                   buf |-> Head(buffIdList[i][m]),
                                   ids |-> releaseIdList[i][m]])
          ELSE chan[i][m]]]
  /\ buffIdList' = [buffIdList EXCEPT ![i] = [m \in Machine |->
        IF m \in Noted(i) THEN Rotate(buffIdList[i][m]) ELSE buffIdList[i][m]]]
  /\ releaseIdList' = [releaseIdList EXCEPT ![i] = [m \in Machine |-> <<>>]]

ClearExit(i) ==
  /\ \E m \in Noted(i) : buffIdList[i][m] = <<>>
  /\ pc' = [pc EXCEPT ![i] = "exit"]
  /\ UNCHANGED <<buffIdList, releaseIdList, chan, peer, batch, sent>>

(* The end of one iteration of reset_sendrecv: clear, then test whether    *)
(* every slot towards m is home.                                           *)
ResetLoop(i) ==
  LET m == peer[i]
      home == Len(buffIdList[i][m]) = MaxWriteNum IN
  /\ ClearWriteRelease(i)
  /\ \/ /\ ~home
        /\ UNCHANGED <<pc, peer, batch, sent>>
     \/ /\ home /\ m < MachineNum - 1
        /\ peer' = [peer EXCEPT ![i] = m + 1]
        /\ UNCHANGED <<pc, batch, sent>>
     \/ /\ home /\ m = MachineNum - 1
        /\ batch' = [batch EXCEPT ![i] = @ + 1]
        /\ pc' = [pc EXCEPT ![i] = IF batch[i] + 1 < MaxBatch THEN "run" ELSE "done"]
        /\ sent' = [sent EXCEPT ![i] = [k \in Machine |-> 0]]
        /\ UNCHANGED peer

ResetStep(i) ==
  /\ pc[i] = "reset"
  /\ ResetLoop(i) \/ ClearExit(i)
  /\ polled' = [polled EXCEPT ![i] = 0]
  /\ UNCHANGED fin

-----------------------------------------------------------------------------
Next ==
  \E i \in Machine :
    \/ \E m \in Machine : GetStart(i, m)
    \/ PostWriteSend(i)
    \/ \E j \in Machine : PollRecv(i, j)
    \/ Finish(i)
    \/ ResetStart(i)
    \/ ResetStep(i)

Spec == Init /\ [][Next]_vars

(* Every loop of the program polls, so completions are consumed and loop   *)
(* conditions re-evaluated; a batch is finite, so it is announced.         *)
Fairness ==
  \A i \in Machine :
    /\ WF_vars(PostWriteSend(i))
    /\ \A j \in Machine : WF_vars(PollRecv(i, j))
    /\ WF_vars(Finish(i))
    /\ WF_vars(ResetStart(i))
    /\ WF_vars(ResetStep(i))

FairSpec == Spec /\ Fairness

-----------------------------------------------------------------------------
(* Where the slots of a pair can be: on the free list f, in a write o that *)
(* the receiver has not polled (a CLEAR does not own its slot), in the     *)
(* receiver's list n of noted slots, or in a message b on its way back.    *)
Elems(s) == {s[k] : k \in DOMAIN s}
NoDup(s) == \A k, l \in DOMAIN s : s[k] = s[l] => k = l

Owning(o) == {k \in DOMAIN o : o[k].control # "CLEAR"}
Flight(o) == {o[k].buf : k \in Owning(o)}
Returned(b) == UNION {Elems(b[k].ids) : k \in DOMAIN b}

OncePerPlace(f, o, n, b) ==
  /\ NoDup(f) /\ NoDup(n)
  /\ \A k, l \in Owning(o) : o[k].buf = o[l].buf => k = l
  /\ \A k \in DOMAIN b : NoDup(b[k].ids)
  /\ \A k, l \in DOMAIN b : k # l => Elems(b[k].ids) \cap Elems(b[l].ids) = {}

OnePlace(f, o, n, b) ==
  /\ Elems(f) \cap Flight(o) = {}
  /\ Elems(f) \cap Elems(n) = {}
  /\ Elems(f) \cap Returned(b) = {}
  /\ Flight(o) \cap Elems(n) = {}
  /\ Flight(o) \cap Returned(b) = {}
  /\ Elems(n) \cap Returned(b) = {}
  /\ Elems(f) \cup Flight(o) \cup Elems(n) \cup Returned(b) = Slot

Owned(f, o, n, b) == OncePerPlace(f, o, n, b) /\ OnePlace(f, o, n, b)

(* Every slot of a pair is in exactly one place, and only once there:      *)
(* get_write_send_buf never hands out a slot the peer still reads, and no  *)
(* slot is lost or duplicated over any number of RELEASE and CLEAR rounds. *)
SlotOwnership ==
  \A i, j \in Machine :
    Owned(buffIdList[i][j], chan[i][j], releaseIdList[j][i], chan[j][i])

(* "Collect the sent ack and release the position.": no two unread writes  *)
(* of a pair use the same slot, so neither the copy the HCA still has to   *)
(* take at the sender nor the one the receiver has not polled is           *)
(* overwritten.  This includes CLEAR, whose slot is at the back of the     *)
(* free list while the message is in flight: it holds within a batch, and  *)
(* fails when slots that come home queue up behind it for the next one.    *)
SlotsDistinct ==
  \A i, j \in Machine : \A k, l \in DOMAIN chan[i][j] :
    chan[i][j][k].buf = chan[i][j][l].buf => k = l

(* "expect sbuf always avaliable": the reserve that ordinary sends leave   *)
(* is always enough for the RELEASE and CLEAR messages.                    *)
ReserveAvailable == \A i \in Machine : pc[i] # "exit"

(* Nobody waits for a slot for ever, though every machine may be waiting   *)
(* at the same time for slots the others hold.                             *)
SendCompletes == \A i \in Machine : pc[i] = "get" ~> pc[i] # "get"

(* A machine that has left its last batch polls no more: a write of i      *)
(* still under way to it is never read.                                    *)
Unread(i) == \E j \in Machine : pc[j] = "done" /\ InFlight(i, j) > 0

(* "Collect the sent ack and release the position.": every reset_sendrecv  *)
(* ends, so every machine gets through all its batches, unless a write of  *)
(* its own was still under way to a machine that has stopped polling.      *)
ResetCompletes == \A i \in Machine : <>(pc[i] = "done" \/ Unread(i))

=============================================================================
