----------------------------- MODULE PacketFifo -----------------------------
(***************************************************************************)
(* What an RTP socket promises the packetizer that fills it: a bounded     *)
(* FIFO.  The packetizer drafts one packet at a time, may set its marker,  *)
(* and puts it at the end of the queue with the next sequence number; the  *)
(* network receives the packets from the head of the queue.                *)
(*                                                                         *)
(* RtpSocket implements this with a ring of buffers, two semaphores and a  *)
(* sender thread that comes and goes.                                      *)
(***************************************************************************)
EXTENDS Naturals, Sequences

CONSTANTS
    Capacity,       \* packets the queue can hold
    NextSeq(_)      \* the sequence number after a sequence number

VARIABLES
    queue,          \* packets put and not sent, oldest first
    wire,           \* the last packet the network received
    draft           \* the marker of the packet being drafted

fifoVars == <<queue, wire, draft>>

(* Nothing was accepted yet; numbering starts after 0. *)
FifoInit ==
    /\ queue = <<>>
    /\ wire = [seq |-> 0, marker |-> FALSE]
    /\ draft = FALSE

(* The sequence number of the youngest packet the socket accepted. *)
LastSeq == IF queue = <<>> THEN wire.seq ELSE queue[Len(queue)].seq

(* The packetizer starts a packet, or marks the one it drafts. *)
Draft(m) == /\ draft' = m
            /\ UNCHANGED <<queue, wire>>

(* The packet drafted joins the queue. *)
Put == /\ Len(queue) < Capacity
       /\ queue' = Append(queue, [seq |-> NextSeq(LastSeq), marker |-> draft])
       /\ UNCHANGED <<wire, draft>>

(* The oldest packet reaches the network. *)
Send == /\ queue # <<>>
        /\ wire' = Head(queue)
        /\ queue' = Tail(queue)
        /\ UNCHANGED draft

FifoNext == Put \/ Send \/ \E m \in BOOLEAN : Draft(m)

FifoSpec == FifoInit /\ [][FifoNext]_fifoVars
=============================================================================
