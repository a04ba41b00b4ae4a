--------------------------- MODULE RtpSocketProofs ---------------------------
(***************************************************************************)
(* Theorems about RtpSocket, for every BufferCount, SeqMod and MaxLosses.  *)
(***************************************************************************)
EXTENDS RtpSocket, SequenceTheorems, TLAPS

USE BufferCountAssumption, SeqModAssumption, MaxLossesAssumption

(* The inductive invariant: a buffer is accounted for once, the indices    *)
(* follow the semaphores, the buffers between mBufferOut and mBufferIn     *)
(* are numbered in order, and the one being made has the marker asked for. *)
DraftMarked == producer \in {"filling", "numbered"} => slots[mBufferIn].marker = marked

IInv == TypeOK /\ BuffersConserved /\ IndicesAgree /\ UnsentNumbered /\ DraftMarked

(* SlotAt counts buffers from mBufferOut within one lap, as ++mBufferIn    *)
(* and ++mBufferOut of commitBuffer and run do.                            *)
LEMMA SlotAtIsSlot ==
    ASSUME mBufferOut \in Slots, NEW k \in 0 .. BufferCount
    PROVE  SlotAt(k) \in Slots
BY DEF Slots, SlotAt

LEMMA SlotAtNext ==
    ASSUME mBufferOut \in Slots, NEW k \in 0 .. BufferCount - 1
    PROVE  NextSlot(SlotAt(k)) = SlotAt(k + 1)
BY DEF Slots, SlotAt, NextSlot

(* The k-th number after s, within one lap of the sequence numbers. *)
LEMMA SeqAfterIsSeq ==
    ASSUME NEW s \in 0 .. SeqMod - 1, NEW k \in 0 .. SeqMod - 1
    PROVE  SeqAfter(s, k) \in 0 .. SeqMod - 1
BY DEF SeqAfter

LEMMA SeqAfterNext ==
    ASSUME NEW s \in 0 .. SeqMod - 1, NEW k \in 0 .. SeqMod - 2
    PROVE  /\ NextSeq(SeqAfter(s, k)) = SeqAfter(s, k + 1)
           /\ SeqAfter(NextSeq(s), k) = SeqAfter(s, k + 1)
           /\ SeqAfter(s, 0) = s
BY DEF SeqAfter, NextSeq

-----------------------------------------------------------------------------
LEMMA InitInv == Init => IInv
<1> SUFFICES ASSUME Init PROVE IInv
  OBVIOUS
<1> USE DEF Init
<1>1. TypeOK
  <2>1. [seq |-> 0, marker |-> FALSE] \in Packets
    BY DEF Packets
  <2>2. slots \in [Slots -> Packets]
    BY <2>1
  <2>3. marked \in BOOLEAN
    OBVIOUS
  <2>4. /\ 0 \in 0 .. BufferCount /\ 0 \in Slots /\ 0 \in 0 .. SeqMod - 1
        /\ BufferCount \in 0 .. BufferCount
    BY DEF Slots
  <2> QED
    BY <2>1, <2>2, <2>3, <2>4, Zenon DEF TypeOK
<1>2. Unsent = 0
  BY DEF Unsent, HeldBySender
<1>3. BuffersConserved
  BY <1>2 DEF BuffersConserved, HeldByPacketizer, BeingFreed
<1>4. IndicesAgree
  BY <1>2 DEF IndicesAgree, SlotAt
<1>5. UnsentNumbered
  BY <1>2 DEF UnsentNumbered, SeqAfter
<1>6. DraftMarked
  BY DEF DraftMarked
<1> QED
  BY <1>1, <1>3, <1>4, <1>5, <1>6 DEF IInv

(* What a state of the invariant says in numbers. *)
LEMMA Counts ==
    ASSUME IInv
    PROVE  /\ Unsent \in 0 .. BufferCount
           /\ producer \in {"filling", "numbered"} => Unsent < BufferCount
           /\ sender = "sending" => Unsent > 0
BY DEF IInv, TypeOK, BuffersConserved, Unsent, HeldByPacketizer, HeldBySender, BeingFreed

(* Steps after which the ring is what it was and so is every count. *)
RingUnchanged == /\ UNCHANGED <<mBufferIn, mBufferOut, mSeq, slots, wire, marked>>
                 /\ Unsent' = Unsent

LEMMA RingUnchangedKeeps ==
    ASSUME IInv, RingUnchanged,
           producer' \in {"filling", "numbered"} => producer' = producer,
           producer = "numbered" => producer' = "numbered"
    PROVE  IndicesAgree' /\ UnsentNumbered' /\ DraftMarked'
<1>1. IndicesAgree'
  BY DEF IInv, RingUnchanged, IndicesAgree, SlotAt
<1>2. UnsentNumbered'
  BY DEF IInv, RingUnchanged, UnsentNumbered, SlotAt, SeqAfter
<1>3. DraftMarked'
  BY DEF IInv, RingUnchanged, DraftMarked
<1> QED
  BY <1>1, <1>2, <1>3

(* The steps that change only where a thread is. *)
ControlStep == \/ CallRequest \/ InterruptRequest \/ StartSender
               \/ EndCaching \/ TakeTimesOut \/ EndSender

LEMMA ControlStepInv == ASSUME IInv, ControlStep PROVE IInv'
<1> USE DEF ControlStep, CallRequest, InterruptRequest, StartSender, EndCaching,
            TakeTimesOut, EndSender, producerVars, senderVars
<1>1. TypeOK'
  BY DEF IInv, TypeOK
<1>2. RingUnchanged /\ BuffersConserved'
  BY DEF IInv, RingUnchanged, BuffersConserved, Unsent, HeldByPacketizer,
         HeldBySender, BeingFreed
<1>3. IndicesAgree' /\ UnsentNumbered' /\ DraftMarked'
  BY <1>2, RingUnchangedKeeps
<1> QED
  BY <1>1, <1>2, <1>3 DEF IInv

(* The steps that move permits and losses, but no packet in or out.  A     *)
(* packet taken from mBufferCommitted, or one whose send threw, is still   *)
(* one not sent; a buffer abandoned leaves the ring where it was.          *)
PermitStep == AbandonBuffer \/ TakePacket \/ SendFails \/ FreeBuffer

LEMMA PermitStepInv == ASSUME IInv, PermitStep PROVE IInv'
<1> USE DEF PermitStep, AbandonBuffer, TakePacket, SendFails, FreeBuffer,
            producerVars, senderVars
<1>1. RingUnchanged /\ BuffersConserved'
  BY DEF IInv, TypeOK, RingUnchanged, BuffersConserved, Unsent, HeldByPacketizer,
         HeldBySender, BeingFreed
<1>2. TypeOK'
  BY <1>1 DEF IInv, TypeOK, BuffersConserved, Unsent, HeldByPacketizer,
              HeldBySender, BeingFreed
<1>3. IndicesAgree' /\ UnsentNumbered' /\ DraftMarked'
  BY <1>1, RingUnchangedKeeps
<1> QED
  BY <1>1, <1>2, <1>3 DEF IInv

(* The packetizer's buffer lies behind every packet not sent: writing it   *)
(* leaves their numbers alone.                                             *)
LEMMA DraftBehindUnsent ==
    ASSUME IInv, Unsent < BufferCount, NEW k \in 0 .. Unsent - 1
    PROVE  SlotAt(k) \in Slots /\ SlotAt(k) # mBufferIn
<1>1. Unsent \in 0 .. BufferCount /\ mBufferOut \in Slots /\ mBufferIn = SlotAt(Unsent)
  BY Counts DEF IInv, TypeOK, IndicesAgree
<1>2. /\ k \in 0 .. BufferCount - 1 /\ k \in 0 .. BufferCount
      /\ Unsent \in 0 .. BufferCount - 1 /\ k # Unsent
  BY <1>1
<1>3. SlotAt(k) \in Slots
  BY <1>1, <1>2, SlotAtIsSlot
<1>4. SlotAt(k) # SlotAt(Unsent)
  BY <1>1, <1>2 DEF SlotAt, Slots
<1> QED
  BY <1>1, <1>3, <1>4

LEMMA RequestBufferInv == ASSUME IInv, RequestBuffer PROVE IInv'
<1> USE DEF RequestBuffer, senderVars
<1>1. Unsent' = Unsent /\ BuffersConserved' /\ Unsent \in 0 .. BufferCount - 1
  BY DEF IInv, TypeOK, BuffersConserved, Unsent, HeldByPacketizer, HeldBySender, BeingFreed
<1>2. TypeOK'
  <2>1. slots' \in [Slots -> Packets]
    BY DEF IInv, TypeOK, Packets
  <2>2. mBufferRequested' \in 0 .. BufferCount
    BY DEF IInv, TypeOK
  <2>3. marked' \in BOOLEAN
    OBVIOUS
  <2> QED
    BY <2>1, <2>2, <2>3, Zenon DEF IInv, TypeOK
<1>3. IndicesAgree' /\ DraftMarked'
  BY <1>1 DEF IInv, TypeOK, Packets, IndicesAgree, DraftMarked, SlotAt
<1>4. UnsentNumbered'
  <2>1. \A k \in 0 .. Unsent - 1 : slots'[SlotAt(k)].seq = slots[SlotAt(k)].seq
    BY <1>1, DraftBehindUnsent DEF IInv, TypeOK
  <2> QED
    BY <1>1, <2>1 DEF IInv, UnsentNumbered, SlotAt, SeqAfter
<1> QED
  BY <1>1, <1>2, <1>3, <1>4 DEF IInv

LEMMA MarkNextPacketInv == ASSUME IInv, MarkNextPacket PROVE IInv'
<1> USE DEF MarkNextPacket, senderVars
<1>1. Unsent' = Unsent /\ BuffersConserved' /\ Unsent \in 0 .. BufferCount - 1
  BY DEF IInv, TypeOK, BuffersConserved, Unsent, HeldByPacketizer, HeldBySender, BeingFreed
<1>2. TypeOK' /\ DraftMarked'
  BY DEF IInv, TypeOK, Packets, DraftMarked
<1>3. IndicesAgree'
  BY <1>1 DEF IInv, IndicesAgree, SlotAt
<1>4. UnsentNumbered'
  <2>1. \A k \in 0 .. Unsent - 1 : slots'[SlotAt(k)].seq = slots[SlotAt(k)].seq
    BY <1>1, DraftBehindUnsent DEF IInv, TypeOK
  <2> QED
    BY <1>1, <2>1 DEF IInv, UnsentNumbered, SlotAt, SeqAfter
<1> QED
  BY <1>1, <1>2, <1>3, <1>4 DEF IInv

(* updateSequence numbers the packet in the making: one more than the last *)
(* packet committed.                                                       *)
LEMMA UpdateSequenceInv == ASSUME IInv, UpdateSequence PROVE IInv'
<1> USE DEF UpdateSequence, senderVars
<1>1. Unsent' = Unsent /\ BuffersConserved' /\ Unsent \in 0 .. BufferCount - 1
  BY DEF IInv, TypeOK, BuffersConserved, Unsent, HeldByPacketizer, HeldBySender, BeingFreed
<1>2. NextSeq(mSeq) \in 0 .. SeqMod - 1
  BY DEF IInv, TypeOK, NextSeq
<1>3. TypeOK' /\ DraftMarked'
  BY <1>2 DEF IInv, TypeOK, Packets, DraftMarked
<1>4. IndicesAgree'
  BY <1>1 DEF IInv, IndicesAgree, SlotAt
<1>5. UnsentNumbered'
  <2>1. \A k \in 0 .. Unsent - 1 : slots'[SlotAt(k)].seq = slots[SlotAt(k)].seq
    BY <1>1, DraftBehindUnsent DEF IInv, TypeOK
  <2>2. wire.seq \in 0 .. SeqMod - 1 /\ Unsent \in 0 .. SeqMod - 2
    BY <1>1 DEF IInv, TypeOK, Packets
  <2>3. NextSeq(mSeq) = SeqAfter(wire.seq, Unsent + 1)
    BY <1>1, <2>2, SeqAfterNext DEF IInv, UnsentNumbered
  <2>4. slots'[mBufferIn'].seq = mSeq'
    BY DEF IInv, TypeOK, Packets
  <2> QED
    BY <1>1, <2>1, <2>3, <2>4 DEF IInv, UnsentNumbered, SlotAt, SeqAfter
<1> QED
  BY <1>1, <1>3, <1>4, <1>5 DEF IInv

(* commitBuffer: the buffer at mBufferIn becomes the youngest not sent. *)
LEMMA CommitBufferInv == ASSUME IInv, CommitBuffer PROVE IInv'
<1> USE DEF CommitBuffer, senderVars
<1>1. Unsent' = Unsent + 1 /\ BuffersConserved' /\ Unsent \in 0 .. BufferCount - 1
  BY DEF IInv, TypeOK, BuffersConserved, Unsent, HeldByPacketizer, HeldBySender, BeingFreed
<1>2. TypeOK' /\ DraftMarked'
  BY <1>1 DEF IInv, TypeOK, BuffersConserved, Unsent, HeldByPacketizer, HeldBySender,
              BeingFreed, Slots, NextSlot, DraftMarked
<1>3. IndicesAgree'
  <2>1. NextSlot(SlotAt(Unsent)) = SlotAt(Unsent + 1)
    BY <1>1, SlotAtNext DEF IInv, TypeOK
  <2> QED
    BY <1>1, <2>1 DEF IInv, IndicesAgree, SlotAt
<1>4. UnsentNumbered'
  <2>1. slots[SlotAt(Unsent)].seq = SeqAfter(wire.seq, Unsent + 1)
    BY DEF IInv, IndicesAgree, UnsentNumbered
  <2> QED
    BY <1>1, <2>1 DEF IInv, UnsentNumbered, SlotAt, SeqAfter
<1> QED
  BY <1>1, <1>2, <1>3, <1>4 DEF IInv

(* mSocket.send: the oldest packet not sent becomes the one on the wire,   *)
(* and the others move up by one.                                          *)
LEMMA SendPacketInv == ASSUME IInv, SendPacket PROVE IInv'
<1> USE DEF SendPacket, producerVars
<1>1. Unsent' = Unsent - 1 /\ BuffersConserved' /\ Unsent \in 1 .. BufferCount
  BY DEF IInv, TypeOK, BuffersConserved, Unsent, HeldByPacketizer, HeldBySender, BeingFreed
<1>2. TypeOK' /\ DraftMarked'
  BY DEF IInv, TypeOK, Slots, NextSlot, DraftMarked
<1>3. \A k \in 0 .. BufferCount - 1 : SlotAt(k)' = SlotAt(k + 1)
  BY DEF IInv, TypeOK, Slots, SlotAt, NextSlot
<1>4. IndicesAgree'
  BY <1>1, <1>3 DEF IInv, IndicesAgree, SlotAt
<1>5. UnsentNumbered'
  <2>1. SlotAt(0) = mBufferOut /\ wire.seq \in 0 .. SeqMod - 1
    BY DEF IInv, TypeOK, Slots, SlotAt, Packets
  <2>2. wire'.seq = SeqAfter(wire.seq, 1) /\ wire'.seq = NextSeq(wire.seq)
    BY <1>1, <2>1 DEF IInv, UnsentNumbered, SeqAfter, NextSeq
  <2>3. \A k \in 0 .. SeqMod - 2 : SeqAfter(wire'.seq, k) = SeqAfter(wire.seq, k + 1)
    BY <2>1, <2>2, SeqAfterNext
  <2>4. ASSUME NEW k \in 0 .. Unsent - 2
        PROVE  slots[SlotAt(k)'].seq = SeqAfter(wire'.seq, k + 1)
    <3>1. slots[SlotAt(k + 1)].seq = SeqAfter(wire.seq, k + 2)
      BY <1>1 DEF IInv, UnsentNumbered
    <3> QED
      BY <1>1, <1>3, <2>3, <3>1
  <2>5. /\ mSeq = SeqAfter(wire'.seq,
                          Unsent - 1 + (IF producer = "numbered" THEN 1 ELSE 0))
        /\ producer = "numbered" => slots[mBufferIn].seq = mSeq
    <3>1. Unsent - 1 + (IF producer = "numbered" THEN 1 ELSE 0) \in 0 .. SeqMod - 2
      BY <1>1, Counts
    <3> QED
      BY <1>1, <2>3, <3>1 DEF IInv, UnsentNumbered
  <2> QED
    BY <1>1, <2>4, <2>5 DEF UnsentNumbered, SeqAfter
<1> QED
  BY <1>1, <1>2, <1>4, <1>5 DEF IInv

LEMMA StutterInv == ASSUME IInv, UNCHANGED vars PROVE IInv'
<1> USE DEF vars, producerVars, senderVars
<1>1. TypeOK' /\ BuffersConserved' /\ RingUnchanged
  BY DEF IInv, TypeOK, BuffersConserved, RingUnchanged, Unsent, HeldByPacketizer,
         HeldBySender, BeingFreed
<1> QED
  BY <1>1, RingUnchangedKeeps DEF IInv

-----------------------------------------------------------------------------
(* The invariant holds in every reachable state, whatever the size of the  *)
(* ring and however many fills and sends threw.                            *)
THEOREM Invariance == Spec => []IInv
<1>1. IInv /\ [Next]_vars => IInv'
  <2> SUFFICES ASSUME IInv, [Next]_vars PROVE IInv'
    OBVIOUS
  <2>1. CASE ControlStep
    BY <2>1, ControlStepInv
  <2>2. CASE PermitStep
    BY <2>2, PermitStepInv
  <2>3. CASE RequestBuffer
    BY <2>3, RequestBufferInv
  <2>4. CASE MarkNextPacket
    BY <2>4, MarkNextPacketInv
  <2>5. CASE UpdateSequence
    BY <2>5, UpdateSequenceInv
  <2>6. CASE CommitBuffer
    BY <2>6, CommitBufferInv
  <2>7. CASE SendPacket
    BY <2>7, SendPacketInv
  <2>8. CASE UNCHANGED vars
    BY <2>8, StutterInv
  <2> QED
    BY <2>1, <2>2, <2>3, <2>4, <2>5, <2>6, <2>7, <2>8
    DEF Next, Packetizer, SenderThread, ControlStep, PermitStep
<1> QED
  BY InitInv, <1>1, PTL DEF Spec

(* Every variable of the socket keeps its type; the two semaphores never   *)
(* hold more permits than there are buffers.                               *)
THEOREM TypeCorrect == Spec => []TypeOK
<1>1. IInv => TypeOK
  BY DEF IInv
<1> QED
  BY <1>1, Invariance, PTL

(* No buffer is created or lost but by a fill that throws (requestBuffer,  *)
(* commitBuffer, run).                                                     *)
THEOREM BuffersAreConserved == Spec => []BuffersConserved
<1>1. IInv => BuffersConserved
  BY DEF IInv
<1> QED
  BY <1>1, Invariance, PTL

(* mBufferIn stays mBufferOut advanced by the packets not yet sent, though *)
(* the two threads advance them apart (commitBuffer, run).                 *)
THEOREM IndicesAreRight == Spec => []IndicesAgree
<1>1. IInv => IndicesAgree
  BY DEF IInv
<1> QED
  BY <1>1, Invariance, PTL

(* Whatever was lost before, the packetizer never writes the buffer the    *)
(* sender hands to the network (mBufferIn and mBufferOut of requestBuffer  *)
(* and run).                                                               *)
THEOREM NoBufferIsShared == Spec => []NoSharedBuffer
<1>1. IInv => NoSharedBuffer
  <2> SUFFICES ASSUME IInv, producer \in {"filling", "numbered"}, sender = "sending"
               PROVE  mBufferIn # mBufferOut
    BY DEF NoSharedBuffer
  <2>1. Unsent \in 1 .. BufferCount - 1
    BY Counts
  <2> QED
    BY <2>1 DEF IInv, TypeOK, Slots, IndicesAgree, SlotAt
<1> QED
  BY <1>1, Invariance, PTL

(* The buffers not sent hold consecutive numbers that continue the wire's, *)
(* for a ring of any size and across the wrap (updateSequence).            *)
THEOREM UnsentIsNumbered == Spec => []UnsentNumbered
<1>1. IInv => UnsentNumbered
  BY DEF IInv
<1> QED
  BY <1>1, Invariance, PTL

(* Buffers, indices, exclusion and numbers together: the ring is right for *)
(* every number of buffers and of losses.  (RtpSocket.)                    *)
THEOREM RingStaysRight == Spec => []RingIsRight
<1>1. BuffersConserved /\ IndicesAgree /\ NoSharedBuffer /\ UnsentNumbered => RingIsRight
  BY DEF RingIsRight
<1> QED
  BY <1>1, BuffersAreConserved, IndicesAreRight, NoBufferIsShared, UnsentIsNumbered, PTL

-----------------------------------------------------------------------------
(* The socket implements the FIFO: what each step does to the queue.       *)

LEMMA QueuedIsSeq ==
    ASSUME IInv
    PROVE  /\ Queued \in Seq(Packets)
           /\ Len(Queued) = Unsent
           /\ \A k \in 1 .. Unsent : Queued[k] = slots[SlotAt(k - 1)]
<1>1. Unsent \in 0 .. BufferCount
  BY Counts
<1>2. \A k \in 1 .. Unsent : slots[SlotAt(k - 1)] \in Packets
  BY <1>1, SlotAtIsSlot DEF IInv, TypeOK
<1> QED
  BY <1>1, <1>2 DEF Queued

(* The number the next commit gives continues the last one accepted. *)
LEMMA LastSeqIsLast ==
    ASSUME IInv
    PROVE  Fifo!LastSeq = SeqAfter(wire.seq, Unsent)
<1>1. Unsent \in 0 .. BufferCount /\ wire.seq \in 0 .. SeqMod - 1
  BY Counts DEF IInv, TypeOK, Packets
<1>2. CASE Unsent = 0
  <2>1. Queued = <<>>
    BY <1>2, QueuedIsSeq
  <2> QED
    BY <1>1, <1>2, <2>1, SeqAfterNext DEF Fifo!LastSeq
<1>3. CASE Unsent > 0
  <2>1. Queued # <<>> /\ Queued[Len(Queued)] = slots[SlotAt(Unsent - 1)]
    BY <1>1, <1>3, QueuedIsSeq
  <2>2. slots[SlotAt(Unsent - 1)].seq = SeqAfter(wire.seq, Unsent)
    BY <1>1, <1>3 DEF IInv, UnsentNumbered
  <2> QED
    BY <2>1, <2>2 DEF Fifo!LastSeq
<1> QED
  BY <1>1, <1>2, <1>3

LEMMA QueuedUnchanged ==
    ASSUME IInv, Unsent' = Unsent, mBufferOut' = mBufferOut,
           \A k \in 0 .. Unsent - 1 : slots'[SlotAt(k)] = slots[SlotAt(k)]
    PROVE  Queued' = Queued
<1>1. Unsent \in 0 .. BufferCount
  BY Counts
<1>2. \A k \in 1 .. Unsent : slots'[SlotAt(k - 1)] = slots[SlotAt(k - 1)]
  BY <1>1
<1> QED
  BY <1>1, <1>2 DEF Queued, SlotAt

LEMMA CommitBufferPuts == ASSUME IInv, CommitBuffer PROVE Fifo!Put
<1> USE DEF CommitBuffer, senderVars
<1> DEFINE p == [seq |-> NextSeq(Fifo!LastSeq), marker |-> marked]
<1>1. Unsent' = Unsent + 1 /\ Unsent \in 0 .. BufferCount - 1
  BY DEF IInv, TypeOK, BuffersConserved, Unsent, HeldByPacketizer, HeldBySender, BeingFreed
<1>2. slots[SlotAt(Unsent)] = p
  <2>1. slots[mBufferIn] = [seq |-> mSeq, marker |-> marked]
    BY DEF IInv, TypeOK, Packets, UnsentNumbered, DraftMarked
  <2>2. mSeq = NextSeq(Fifo!LastSeq)
    <3>1. wire.seq \in 0 .. SeqMod - 1 /\ Unsent \in 0 .. SeqMod - 2
      BY <1>1 DEF IInv, TypeOK, Packets
    <3>2. mSeq = SeqAfter(wire.seq, Unsent + 1)
      BY DEF IInv, UnsentNumbered
    <3> QED
      BY <3>1, <3>2, LastSeqIsLast, SeqAfterNext
  <2> QED
    BY <2>1, <2>2 DEF IInv, IndicesAgree
<1>3. Queued' = Append(Queued, p)
  <2>1. Queued' = [k \in 1 .. Unsent + 1 |-> slots[SlotAt(k - 1)]]
    BY <1>1 DEF Queued, SlotAt
  <2>2. p \in Packets
    BY <1>1, <1>2, SlotAtIsSlot DEF IInv, TypeOK
  <2>3. /\ Append(Queued, p) \in Seq(Packets)
        /\ Len(Append(Queued, p)) = Unsent + 1
        /\ \A k \in 1 .. Unsent : Append(Queued, p)[k] = slots[SlotAt(k - 1)]
        /\ Append(Queued, p)[Unsent + 1] = slots[SlotAt(Unsent)]
    BY <1>1, <1>2, <2>2, QueuedIsSeq, AppendProperties
  <2> QED
    BY <1>1, <2>1, <2>3
<1>4. Len(Queued) < BufferCount
  BY <1>1, QueuedIsSeq
<1> QED
  BY <1>3, <1>4 DEF Fifo!Put

LEMMA SendPacketSends == ASSUME IInv, SendPacket PROVE Fifo!Send
<1> USE DEF SendPacket, producerVars
<1>1. Unsent' = Unsent - 1 /\ Unsent \in 1 .. BufferCount
  BY DEF IInv, TypeOK, BuffersConserved, Unsent, HeldByPacketizer, HeldBySender, BeingFreed
<1>2. Queued # <<>> /\ Head(Queued) = slots[mBufferOut]
  <2>1. SlotAt(0) = mBufferOut
    BY DEF IInv, TypeOK, Slots, SlotAt
  <2> QED
    BY <1>1, <2>1, QueuedIsSeq
<1>3. \A k \in 0 .. BufferCount - 1 : SlotAt(k)' = SlotAt(k + 1)
  BY DEF IInv, TypeOK, Slots, SlotAt, NextSlot
<1>4. Queued' = Tail(Queued)
  <2>1. Queued' = [k \in 1 .. Unsent - 1 |-> slots[SlotAt(k)]]
    BY <1>1, <1>3 DEF Queued
  <2>2. /\ Tail(Queued) \in Seq(Packets)
        /\ Len(Tail(Queued)) = Unsent - 1
        /\ \A k \in 1 .. Unsent - 1 : Tail(Queued)[k] = slots[SlotAt(k)]
    BY <1>1, <1>2, QueuedIsSeq
  <2>3. Tail(Queued) = [k \in 1 .. Unsent - 1 |-> Tail(Queued)[k]]
    BY <2>2, LenProperties
  <2> QED
    BY <2>1, <2>2, <2>3
<1> QED
  BY <1>2, <1>4 DEF Fifo!Send

(* Spec implements the FIFO: packets reach the network in the order they   *)
(* were committed, once each, consecutively numbered and with the marker   *)
(* they were given, for every ring size and every pattern of failures.     *)
THEOREM Refinement == Spec => ImplementsFifo
<1>1. Init => Fifo!FifoInit
  <2> SUFFICES ASSUME Init PROVE Fifo!FifoInit
    OBVIOUS
  <2>1. Unsent = 0
    BY DEF Init, Unsent, HeldBySender
  <2>2. Queued = <<>>
    BY <2>1, InitInv, QueuedIsSeq
  <2> QED
    BY <2>2 DEF Init, Fifo!FifoInit
<1>2. IInv /\ [Next]_vars => [Fifo!FifoNext]_(Fifo!fifoVars)
  <2> SUFFICES ASSUME IInv, [Next]_vars PROVE [Fifo!FifoNext]_(Fifo!fifoVars)
    OBVIOUS
  <2> USE DEF Fifo!FifoNext, Fifo!fifoVars
  <2>1. CASE ControlStep \/ PermitStep \/ UNCHANGED vars
    <3>1. UNCHANGED <<mBufferOut, slots, wire, marked>> /\ Unsent' = Unsent
      BY <2>1 DEF IInv, TypeOK, Unsent, HeldBySender, ControlStep, CallRequest,
         InterruptRequest, StartSender, EndCaching, TakeTimesOut, EndSender, PermitStep,
         AbandonBuffer, TakePacket, SendFails, FreeBuffer, vars, producerVars, senderVars
    <3>2. Queued' = Queued
      BY <3>1, QueuedUnchanged
    <3> QED
      BY <3>1, <3>2
  <2>2. CASE RequestBuffer \/ MarkNextPacket \/ UpdateSequence
    <3>1. /\ UNCHANGED <<mBufferOut, wire>> /\ Unsent' = Unsent
          /\ marked' \in BOOLEAN
          /\ \A i \in Slots : i # mBufferIn => slots'[i] = slots[i]
      BY <2>2 DEF IInv, TypeOK, Unsent, HeldBySender, RequestBuffer, MarkNextPacket,
         UpdateSequence, senderVars
    <3>2. Unsent < BufferCount
      BY <2>2 DEF IInv, TypeOK, BuffersConserved, Unsent, HeldByPacketizer, HeldBySender,
         BeingFreed, RequestBuffer, MarkNextPacket, UpdateSequence
    <3>3. Queued' = Queued
      BY <3>1, <3>2, DraftBehindUnsent, QueuedUnchanged
    <3> QED
      BY <3>1, <3>3 DEF Fifo!Draft
  <2>3. CASE CommitBuffer
    BY <2>3, CommitBufferPuts
  <2>4. CASE SendPacket
    BY <2>4, SendPacketSends
  <2> QED
    BY <2>1, <2>2, <2>3, <2>4 DEF Next, Packetizer, SenderThread, ControlStep, PermitStep
<1> QED
  BY <1>1, <1>2, Invariance, PTL DEF Spec, ImplementsFifo, Fifo!FifoSpec

(* Only a sender that ends on a full ring, or a fill that throws away the  *)
(* last free buffer, leaves requestBuffer without anybody who could give   *)
(* it one; no commit and no request does.                                  *)
THEOREM SticksByRace == Spec => SticksOnlyByRace
<1> DEFINE Step == Stuck' => \/ Stuck
                             \/ sender = "ending" /\ Unsent + abandoned = BufferCount
                             \/ producer = "filling"
<1>1. IInv /\ [Next]_vars => Step
  <2> SUFFICES ASSUME IInv, [Next]_vars, Stuck', ~Stuck, producer # "filling"
               PROVE  sender = "ending" /\ Unsent + abandoned = BufferCount
    OBVIOUS
  <2> USE DEF Stuck
  <2>1. CASE EndSender
    BY <2>1 DEF EndSender, IInv, TypeOK, BuffersConserved, Unsent, HeldBySender,
       HeldByPacketizer, BeingFreed
  <2>2. CASE Packetizer
    BY <2>2 DEF Packetizer, CallRequest, RequestBuffer, InterruptRequest, MarkNextPacket,
       AbandonBuffer, UpdateSequence, CommitBuffer, StartSender
  <2>3. CASE SenderThread /\ ~EndSender
    BY <2>3 DEF SenderThread, EndCaching, TakePacket, TakeTimesOut, SendPacket, SendFails,
       FreeBuffer, IInv, TypeOK
  <2>4. CASE UNCHANGED vars
    BY <2>4 DEF vars
  <2> QED
    BY <2>1, <2>2, <2>3, <2>4 DEF Next
<1> QED
  BY <1>1, Invariance, PTL DEF Spec, SticksOnlyByRace
=============================================================================
