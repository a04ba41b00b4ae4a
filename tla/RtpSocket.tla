------------------------------ MODULE RtpSocket ------------------------------
(***************************************************************************)
(* rtp/RtpSocket.java: a ring of BufferCount packet buffers between one    *)
(* packetizer thread and a sender thread the socket starts and loses.      *)
(*                                                                         *)
(* The packetizer takes a permit of mBufferRequested (requestBuffer),      *)
(* fills the buffer at mBufferIn and commits it: it numbers the packet,    *)
(* gives a permit to mBufferCommitted, advances mBufferIn and, when        *)
(* mThread is null, starts a sender.  The sender takes a permit of         *)
(* mBufferCommitted, sends the packet at mBufferOut, advances mBufferOut   *)
(* and gives the permit back to mBufferRequested.  It ends when no packet  *)
(* came for four seconds, or on any exception.                             *)
(*                                                                         *)
(* A step of a thread is one operation another thread can observe: one on  *)
(* a semaphore, on mThread or on the network; fields one thread alone      *)
(* touches change with the step next to them.  The length, the timestamp   *)
(* and the payload of a packet are left out, the pacing between packets is *)
(* a delay of any length, and bitrate statistics are not kept.             *)
(***************************************************************************)
EXTENDS Naturals, Sequences

CONSTANTS
    BufferCount,    \* mBufferCount: 300 in the code
    SeqMod,         \* sequence numbers are the low 16 bits of mSeq: 2^16
    MaxLosses       \* bound: packets abandoned while filled plus failed sends

ASSUME BufferCountAssumption == BufferCount \in Nat \ {0}
ASSUME SeqModAssumption == SeqMod \in Nat /\ SeqMod > BufferCount
ASSUME MaxLossesAssumption == MaxLosses \in Nat

VARIABLES
    mBufferRequested,   \* permits of the semaphore of free buffers
    mBufferCommitted,   \* permits of the semaphore of packets to send
    mBufferIn,          \* the buffer the packetizer fills next
    mBufferOut,         \* the buffer the sender sends next
    mSeq,               \* low bits of the number of packets committed
    slots,              \* mBuffers: header fields of each buffer
    producer,           \* where the packetizer thread is
    sender,             \* where the sender thread is; "none" when mThread is null
    wire,               \* the last packet the network received
    marked,             \* history: markNextPacket was called for the packet in the making
    abandoned,          \* history: buffers requested and never committed
    failed              \* history: packets whose send threw

producerVars == <<mBufferIn, mSeq, slots, marked, abandoned>>
senderVars   == <<mBufferOut, wire, failed>>
vars == <<mBufferRequested, mBufferCommitted, producerVars, producer,
          senderVars, sender>>

Slots   == 0 .. BufferCount - 1
Packets == [seq : 0 .. SeqMod - 1, marker : BOOLEAN]

(* ++mBufferIn and ++mBufferOut wrap to 0 at mBufferCount. *)
NextSlot(i) == IF i + 1 >= BufferCount THEN 0 ELSE i + 1

(* ++mSeq, of which setLong(..., 2, 4) keeps the low bits. *)
NextSeq(s) == IF s + 1 >= SeqMod THEN 0 ELSE s + 1

Init ==
    /\ mBufferRequested = BufferCount
    /\ mBufferCommitted = 0
    /\ mBufferIn = 0
    /\ mBufferOut = 0
    /\ mSeq = 0
    /\ slots = [i \in Slots |-> [seq |-> 0, marker |-> FALSE]]
    /\ producer = "idle"
    /\ sender = "none"
    /\ wire = [seq |-> 0, marker |-> FALSE]
    /\ marked = FALSE
    /\ abandoned = 0
    /\ failed = 0

-----------------------------------------------------------------------------
(* The packetizer thread.                                                  *)

(* The packetizer calls requestBuffer, which may have to wait. *)
CallRequest ==
    /\ producer = "idle"
    /\ producer' = "requesting"
    /\ UNCHANGED <<mBufferRequested, mBufferCommitted, producerVars, senderVars, sender>>

(* Faulty variant: the marker bit of the buffer's previous packet stays. *)
RequestBufferKeepsMarker ==
    /\ producer = "requesting"
    /\ mBufferRequested > 0
    /\ mBufferRequested' = mBufferRequested - 1
    /\ marked' = FALSE
    /\ producer' = "filling"
    /\ UNCHANGED <<mBufferCommitted, mBufferIn, mSeq, slots, abandoned, senderVars, sender>>

(* Faulty variant: the buffer is handed out without taking a permit. *)
RequestBufferUnchecked ==
    /\ producer = "requesting"
    /\ slots' = [slots EXCEPT ![mBufferIn].marker = FALSE]
    /\ marked' = FALSE
    /\ producer' = "filling"
    /\ UNCHANGED <<mBufferRequested, mBufferCommitted, mBufferIn, mSeq, abandoned,
                   senderVars, sender>>

(* mBufferRequested.acquire() returns; the marker bit of the buffer is cleared. *)
RequestBuffer ==
    /\ producer = "requesting"
    /\ mBufferRequested > 0
    /\ mBufferRequested' = mBufferRequested - 1
    /\ slots' = [slots EXCEPT ![mBufferIn].marker = FALSE]
    /\ marked' = FALSE
    /\ producer' = "filling"
    /\ UNCHANGED <<mBufferCommitted, mBufferIn, mSeq, abandoned, senderVars, sender>>

(* AbstractPacketizer.stop interrupts a packetizer that waits for a buffer. *)
InterruptRequest ==
    /\ producer = "requesting"
    /\ producer' = "idle"
    /\ UNCHANGED <<mBufferRequested, mBufferCommitted, producerVars, senderVars, sender>>

MarkNextPacket ==
    /\ producer = "filling"
    /\ ~marked
    /\ slots' = [slots EXCEPT ![mBufferIn].marker = TRUE]
    /\ marked' = TRUE
    /\ UNCHANGED <<mBufferRequested, mBufferCommitted, mBufferIn, mSeq, abandoned,
                   producer, senderVars, sender>>

(* Filling the buffer throws (end of stream, interrupt): nobody gives the  *)
(* permit back, and mBufferIn stays where it is.                           *)
AbandonBuffer ==
    /\ producer = "filling"
    /\ abandoned + failed < MaxLosses
    /\ abandoned' = abandoned + 1
    /\ producer' = "idle"
    /\ UNCHANGED <<mBufferRequested, mBufferCommitted, mBufferIn, mSeq, slots, marked,
                   senderVars, sender>>

(* commitBuffer, first part: updateSequence numbers the packet. *)
UpdateSequence ==
    /\ producer = "filling"
    /\ mSeq' = NextSeq(mSeq)
    /\ slots' = [slots EXCEPT ![mBufferIn].seq = NextSeq(mSeq)]
    /\ producer' = "numbered"
    /\ UNCHANGED <<mBufferRequested, mBufferCommitted, mBufferIn, marked, abandoned,
                   senderVars, sender>>

(* commitBuffer, second part: the packet is the sender's, mBufferIn advances. *)
CommitBuffer ==
    /\ producer = "numbered"
    /\ mBufferCommitted' = mBufferCommitted + 1
    /\ mBufferIn' = NextSlot(mBufferIn)
    /\ producer' = "committed"
    /\ UNCHANGED <<mBufferRequested, mSeq, slots, marked, abandoned, senderVars, sender>>

(* Faulty variant: a sender is started for the stream's first packet alone. *)
StartFirstSender ==
    /\ producer = "committed"
    /\ sender' = IF sender = "none" /\ mSeq = 1 THEN "caching" ELSE sender
    /\ producer' = "idle"
    /\ UNCHANGED <<mBufferRequested, mBufferCommitted, producerVars, senderVars>>

(* commitBuffer, last part: a sender is started when mThread is null. *)
StartSender ==
    /\ producer = "committed"
    /\ sender' = IF sender = "none" THEN "caching" ELSE sender
    /\ producer' = "idle"
    /\ UNCHANGED <<mBufferRequested, mBufferCommitted, producerVars, senderVars>>

-----------------------------------------------------------------------------
(* The sender thread, run().                                               *)

(* Thread.sleep(mCacheSize) ends. *)
EndCaching ==
    /\ sender = "caching"
    /\ sender' = "waiting"
    /\ UNCHANGED <<mBufferRequested, mBufferCommitted, producerVars, producer, senderVars>>

(* Faulty variant: the result of tryAcquire is ignored. *)
TakePacketUnchecked ==
    /\ sender = "waiting"
    /\ mBufferCommitted' = mBufferCommitted - 1
    /\ sender' = "sending"
    /\ UNCHANGED <<mBufferRequested, producerVars, producer, senderVars>>

(* mBufferCommitted.tryAcquire returns true. *)
TakePacket ==
    /\ sender = "waiting"
    /\ mBufferCommitted > 0
    /\ mBufferCommitted' = mBufferCommitted - 1
    /\ sender' = "sending"
    /\ UNCHANGED <<mBufferRequested, producerVars, producer, senderVars>>

(* mBufferCommitted.tryAcquire returns false: no packet for four seconds. *)
TakeTimesOut ==
    /\ sender = "waiting"
    /\ mBufferCommitted = 0
    /\ sender' = "ending"
    /\ UNCHANGED <<mBufferRequested, mBufferCommitted, producerVars, producer, senderVars>>

(* mSocket.send returns, and mBufferOut advances. *)
SendPacket ==
    /\ sender = "sending"
    /\ wire' = slots[mBufferOut]
    /\ mBufferOut' = NextSlot(mBufferOut)
    /\ sender' = "sent"
    /\ UNCHANGED <<mBufferRequested, mBufferCommitted, producerVars, producer, failed>>

(* Faulty variant: a failed send gives the buffer back but keeps its place. *)
SendFailsFrees ==
    /\ sender = "sending"
    /\ abandoned + failed < MaxLosses
    /\ failed' = failed + 1
    /\ mBufferRequested' = mBufferRequested + 1
    /\ sender' = "ending"
    /\ UNCHANGED <<mBufferCommitted, producerVars, producer, mBufferOut, wire>>

(* Faulty variant: a failed send skips the packet and leaves its permit taken. *)
SendFailsSkips ==
    /\ sender = "sending"
    /\ abandoned + failed < MaxLosses
    /\ failed' = failed + 1
    /\ mBufferOut' = NextSlot(mBufferOut)
    /\ sender' = "ending"
    /\ UNCHANGED <<mBufferRequested, mBufferCommitted, producerVars, producer, wire>>

(* mSocket.send throws: the permit taken is gone, the packet stays at mBufferOut. *)
SendFails ==
    /\ sender = "sending"
    /\ abandoned + failed < MaxLosses
    /\ failed' = failed + 1
    /\ sender' = "ending"
    /\ UNCHANGED <<mBufferRequested, mBufferCommitted, producerVars, producer,
                   mBufferOut, wire>>

(* Faulty variant: a packet sent does not give its buffer back. *)
FreeBufferForgotten ==
    /\ sender = "sent"
    /\ sender' = "waiting"
    /\ UNCHANGED <<mBufferRequested, mBufferCommitted, producerVars, producer, senderVars>>

(* mBufferRequested.release() gives the buffer back. *)
FreeBuffer ==
    /\ sender = "sent"
    /\ mBufferRequested' = mBufferRequested + 1
    /\ sender' = "waiting"
    /\ UNCHANGED <<mBufferCommitted, producerVars, producer, senderVars>>

(* Faulty variant: the ended thread is left in mThread. *)
EndSenderKept ==
    /\ sender = "ending"
    /\ sender' = "ended"
    /\ UNCHANGED <<mBufferRequested, mBufferCommitted, producerVars, producer, senderVars>>

(* The last statement of run() sets mThread to null. *)
EndSender ==
    /\ sender = "ending"
    /\ sender' = "none"
    /\ UNCHANGED <<mBufferRequested, mBufferCommitted, producerVars, producer, senderVars>>

-----------------------------------------------------------------------------
Packetizer ==
    \/ CallRequest \/ RequestBuffer \/ InterruptRequest \/ MarkNextPacket
    \/ AbandonBuffer \/ UpdateSequence \/ CommitBuffer \/ StartSender

SenderThread ==
    \/ EndCaching \/ TakePacket \/ TakeTimesOut \/ SendPacket \/ SendFails
    \/ FreeBuffer \/ EndSender

Next == Packetizer \/ SenderThread

Spec == Init /\ [][Next]_vars
-----------------------------------------------------------------------------
(* The state the properties speak of.                                      *)

(* Permits each thread holds: taken from a semaphore and not passed on. *)
HeldByPacketizer == IF producer \in {"filling", "numbered"} THEN 1 ELSE 0
HeldBySender     == IF sender = "sending" THEN 1 ELSE 0
BeingFreed       == IF sender = "sent" THEN 1 ELSE 0

(* Packets committed and not sent, those whose first send threw included. *)
Unsent == mBufferCommitted + HeldBySender + failed

(* The k-th buffer from mBufferOut on, and the k-th number after s. *)
SlotAt(k)      == IF mBufferOut + k >= BufferCount
                  THEN mBufferOut + k - BufferCount ELSE mBufferOut + k
SeqAfter(s, k) == IF s + k >= SeqMod THEN s + k - SeqMod ELSE s + k

Queued == [k \in 1 .. Unsent |-> slots[SlotAt(k - 1)]]

(* Every variable has its type: permits never exceed the buffers. *)
TypeOK ==
    /\ mBufferRequested \in 0 .. BufferCount
    /\ mBufferCommitted \in 0 .. BufferCount
    /\ mBufferIn \in Slots
    /\ mBufferOut \in Slots
    /\ mSeq \in 0 .. SeqMod - 1
    /\ slots \in [Slots -> Packets]
    /\ producer \in {"idle", "requesting", "filling", "numbered", "committed"}
    /\ sender \in {"none", "caching", "waiting", "sending", "sent", "ending"}
    /\ wire \in Packets
    /\ marked \in BOOLEAN
    /\ abandoned \in 0 .. BufferCount
    /\ failed \in 0 .. BufferCount

(* Every buffer is accounted for: free, with the packetizer, waiting to be *)
(* sent, on its way back, or lost for good to a fill that threw.           *)
BuffersConserved ==
    mBufferRequested + HeldByPacketizer + Unsent + BeingFreed + abandoned = BufferCount

(* The two indices and the two semaphores tell the same story: mBufferIn   *)
(* is mBufferOut advanced by the packets not yet sent.                     *)
IndicesAgree == mBufferIn = SlotAt(Unsent)

(* The packetizer and the sender never work on the same buffer: the packet *)
(* being sent is not rewritten under the socket, whatever was lost before. *)
NoSharedBuffer ==
    ~ /\ producer \in {"filling", "numbered"}
      /\ sender = "sending"
      /\ mBufferIn = mBufferOut

(* The buffers not yet sent hold, in the order they will be sent, the      *)
(* numbers that follow the last one on the wire, without a gap across the  *)
(* 16-bit wrap; mSeq is the number of the last packet stamped.             *)
UnsentNumbered ==
    /\ \A k \in 0 .. Unsent - 1 : slots[SlotAt(k)].seq = SeqAfter(wire.seq, k + 1)
    /\ mSeq = SeqAfter(wire.seq, Unsent + (IF producer = "numbered" THEN 1 ELSE 0))
    /\ producer = "numbered" => slots[mBufferIn].seq = mSeq

(* The ring at any moment, whatever was lost and whichever thread is where: *)
(* no buffer lost or made, none in two hands, indices and semaphores that  *)
(* agree, and numbers without a gap.  (requestBuffer, updateSequence,      *)
(* commitBuffer and run.)                                                  *)
RingIsRight == BuffersConserved /\ IndicesAgree /\ NoSharedBuffer /\ UnsentNumbered

(* The socket is a FIFO of BufferCount packets: packets leave in the order *)
(* they were committed, once each, numbered consecutively, with the marker *)
(* the packetizer gave them (commitBuffer, markNextPacket and run).        *)
Fifo == INSTANCE PacketFifo WITH
            Capacity <- BufferCount, queue <- Queued, draft <- marked
ImplementsFifo == Fifo!FifoSpec

-----------------------------------------------------------------------------
(* Scheduling: a thread that can run does.  Nothing makes the packetizer   *)
(* ask for another buffer or fill the one it has: those wait for a camera. *)
FairSpec ==
    /\ Spec
    /\ WF_vars(SenderThread)
    /\ WF_vars(RequestBuffer)
    /\ WF_vars(CommitBuffer)
    /\ WF_vars(StartSender)

Waits(i) == \E k \in 0 .. Unsent - 1 : SlotAt(k) = i

(* A stream that goes on: the packetizer asks for buffers and fills them.  *)
(* Interrupted requests do not starve it.                                  *)
StreamingSpec ==
    /\ FairSpec
    /\ WF_vars(CallRequest)
    /\ SF_vars(RequestBuffer)
    /\ WF_vars(UpdateSequence)

(* No buffer is free, no sender runs and no packet is in the making: the   *)
(* next requestBuffer waits for a permit that nobody can give any more.    *)
Stuck ==
    /\ mBufferRequested = 0
    /\ sender = "none"
    /\ producer \notin {"filling", "numbered", "committed"}

(* Only two steps get the socket stuck: the mThread = null of a sender that *)
(* timed out or whose send threw, once every buffer is a packet it leaves  *)
(* behind or was thrown away by a fill, and a fill that throws away the    *)
(* last free one.  Neither waiting for a buffer nor a commit does          *)
(* (requestBuffer, commitBuffer and run).                                  *)
SticksOnlyByRace ==
    [][Stuck' => \/ Stuck
                 \/ sender = "ending" /\ Unsent + abandoned = BufferCount
                 \/ producer = "filling"]_vars

(* "Sends the RTP packet over the network" (the comment on commitBuffer,   *)
(* RtpSocket.java:167): of a stream that goes on every packet committed is *)
(* sent unless the socket gets stuck, those included that were filled or   *)
(* committed while a sender ended and those whose first send threw: a      *)
(* later commit finds mThread null and starts a sender (commitBuffer, run).*)
StreamedIsSent ==
    /\ SticksOnlyByRace
    /\ \A i \in Slots : Waits(i) ~> (~Waits(i) \/ Stuck)

(* "Returns an available buffer from the FIFO" (the comment on             *)
(* requestBuffer, RtpSocket.java:157): the call returns unless the socket  *)
(* gets stuck, however often senders end and fills and sends throw.        *)
RequestReturnsUnlessStuck ==
    /\ SticksOnlyByRace
    /\ producer = "requesting" ~> (producer # "requesting" \/ Stuck)
=============================================================================
