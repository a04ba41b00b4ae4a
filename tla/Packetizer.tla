----------------------------- MODULE Packetizer -----------------------------
(***************************************************************************)
(* rtp/AbstractPacketizer.java with H264Packetizer.java and                *)
(* AMRNBPacketizer.java: the life of their threads.  MediaStream.start()   *)
(* makes a stream (a local socket the recorder writes to) and a thread     *)
(* that packs it; MediaStream.stop() interrupts the thread and closes the  *)
(* stream, and may return while the thread still runs: H264's waits for it *)
(* for a second, AMR's not at all.  Threads that overlap share the         *)
(* packetizer's fields: the stream, the time since the last report, the    *)
(* buffer being filled; and the socket's ring, whose requestBuffer and     *)
(* commitBuffer are made for one thread: both use mBufferIn unprotected.   *)
(*                                                                         *)
(* Thread n is the one made for stream n.  What packets look like is the   *)
(* matter of H264Packets, the thread that sends them that of RtpSocket.    *)
(***************************************************************************)
EXTENDS Integers, FiniteSets

CONSTANTS
    MaxStarts,      \* bound: calls of start()
    MaxStops,       \* bound: calls of stop()
    BufferCount,    \* buffers of the socket (300 in the code)
    Interval,       \* ms between two reports (5000 in the code)
    MaxDuration     \* bound: the time a unit or a frame takes

ASSUME StartsAssumption == MaxStarts \in Nat \ {0} /\ MaxStops \in Nat
ASSUME BuffersAssumption == BufferCount \in Nat \ {0}
ASSUME IntervalAssumption == Interval \in Nat \ {0} /\ MaxDuration \in Nat

Threads == 1 .. MaxStarts
Slots == 0 .. BufferCount - 1

VARIABLES
    kind,           \* of packetizer: "h264" or "amr"
    caller,         \* where MediaStream.start() and stop() are
    t,              \* the field t, 0 if null
    is,             \* the field is, 0 before the first start()
    stream,         \* "open", "ended" (reads give -1) or "closed" (reads throw)
    pc,             \* where each thread is
    interrupted,    \* its flag
    reading,        \* the stream its read was called on, if earlier than is, or 0
    at,             \* the buffer it fills, then that it commits
    sets,           \* threads whose packet is a parameter set
    delta,          \* ms counted since the last report, to Interval
    buffer,         \* the field buffer: an index of mBuffers
    mBufferIn,      \* of the socket: the next buffer to commit
    mBufferOut,     \* and the next to send
    permits,        \* buffers that can be requested
    queued,         \* packets committed and not sent
    told,           \* history: threads stop() interrupted
    left,           \* history: those that ran when it returned
    swallowed,      \* history: those whose interrupt only ended the header's loop
    since,          \* history: packets committed since the interrupt, to 2
    gap,            \* history: ms since AMR's last report, to Interval
    early,          \* history: a report was sent before the interval was over
    strayed,        \* history: threads that read a later stream, though not left
    slots,          \* history: who wrote to the packet made in each buffer
    shared,         \* history: threads whose packet was made while another's was
    torn            \* history: two threads were in commitBuffer at once

callerVars == <<kind, caller, t, is, stream>>
localVars == <<reading, at, sets>>
threadVars == <<pc, interrupted, localVars>>
indexVars == <<buffer, mBufferIn, mBufferOut>>
ringVars == <<indexVars, permits, queued>>
packetVars == <<strayed, slots, shared, torn>>
historyVars == <<told, left, swallowed, since, gap, early, packetVars>>
vars == <<callerVars, threadVars, delta, ringVars, historyVars>>

Runs(n) == pc[n] \notin {"none", "ended"}

(* It has requested a buffer and not committed it: AMR reports in between. *)
Holds(n) ==
    \/ pc[n] \in {"fill", "read", "payload", "read payload", "commit"}
    \/ kind = "amr" /\ pc[n] \in {"measure", "report"}

(* It uses the field buffer, or mBufferIn. *)
Makes(n) == Holds(n) \/ pc[n] \in {"advance", "wrap"}
Others(n) == {m \in Threads \ {n} : Makes(m)}

Init ==
    /\ kind \in {"h264", "amr"}
    /\ caller = "idle" /\ t = 0 /\ is = 0
    /\ stream = [n \in Threads |-> "none"]
    /\ pc = [n \in Threads |-> "none"]
    /\ interrupted = [n \in Threads |-> FALSE]
    /\ reading = [n \in Threads |-> 0] /\ at = [n \in Threads |-> 0] /\ sets = {}
    /\ delta = 0 /\ permits = BufferCount /\ queued = 0
    /\ buffer = 0 /\ mBufferIn = 0 /\ mBufferOut = 0
    /\ told = {} /\ left = {} /\ swallowed = {}
    /\ since = [n \in Threads |-> 0] /\ gap = Interval /\ early = FALSE
    /\ strayed = {} /\ slots = [i \in Slots |-> {}] /\ shared = {} /\ torn = FALSE

-----------------------------------------------------------------------------
(* MediaStream.start() and stop().                                         *)

(* Where a thread waits for bytes. *)
Inputs == {"seek", "unit", "resync", "read", "read payload"}

(* A thread that was left is in a read of the stream before, or will call  *)
(* its next on the new one.                                                *)
Start ==
    /\ caller = "idle" /\ is < MaxStarts
    /\ is' = is + 1 /\ stream' = [stream EXCEPT ![is'] = "open"]
    /\ \E reads \in SUBSET {n \in Threads : pc[n] \in Inputs /\ reading[n] = 0} :
           reading' = [n \in Threads |-> IF n \in reads THEN is ELSE reading[n]]
    /\ t' = is' /\ pc' = [pc EXCEPT ![is'] = IF kind = "h264" THEN "skip" ELSE "seek"]
    /\ caller' = "streaming"
    /\ UNCHANGED <<kind, interrupted, at, sets, delta, ringVars, historyVars>>

(* AMRNBPacketizer.stop closes the stream before it interrupts. *)
CloseInput ==
    /\ caller = "streaming" /\ kind = "amr" /\ Cardinality(told) < MaxStops
    /\ stream' = [stream EXCEPT ![is] = "closed"]
    /\ caller' = "interrupt"
    /\ UNCHANGED <<kind, t, is, threadVars, delta, ringVars, historyVars>>

Interrupt ==
    /\ caller = IF kind = "amr" THEN "interrupt" ELSE "streaming"
    /\ Cardinality(told) < MaxStops
    /\ interrupted' = [interrupted EXCEPT ![t] = Runs(t)]
    /\ caller' = IF kind = "amr" THEN "recorder" ELSE "join"
    /\ t' = IF kind = "amr" THEN 0 ELSE t
    /\ told' = told \cup {t}
    /\ left' = IF kind = "amr" /\ Runs(t) THEN left \cup {t} ELSE left
    /\ UNCHANGED <<kind, is, stream, pc, localVars, delta, ringVars, swallowed, since,
                   gap, early, packetVars>>

(* Faulty variant: the thread is not waited for. *)
JoinNothing ==
    /\ caller = "join"
    /\ t' = 0 /\ caller' = "recorder"
    /\ UNCHANGED <<kind, is, stream, threadVars, delta, ringVars, historyVars>>

(* t.join(1000): the thread has ended, or the second is over. *)
Join ==
    /\ caller = "join"
    /\ left' = IF Runs(t) THEN left \cup {t} ELSE left
    /\ t' = 0 /\ caller' = "recorder"
    /\ UNCHANGED <<kind, is, stream, threadVars, delta, ringVars, told, swallowed, since,
                   gap, early, packetVars>>

(* MediaRecorder.stop() throws if it recorded nothing: the sockets stay.   *)
StopRecorder ==
    /\ caller = "recorder"
    /\ \/ stream' = [stream EXCEPT ![is] = "closed"]
       \/ UNCHANGED stream
    /\ caller' = "idle"
    /\ UNCHANGED <<kind, t, is, threadVars, delta, ringVars, historyVars>>

(* The recorder ends by itself, or the media server does. *)
RecorderEnds ==
    /\ is # 0 /\ stream[is] = "open" /\ stream' = [stream EXCEPT ![is] = "ended"]
    /\ UNCHANGED <<kind, caller, t, is, threadVars, delta, ringVars, historyVars>>

-----------------------------------------------------------------------------
(* The threads.                                                            *)

Goes(n, to) == pc' = [pc EXCEPT ![n] = to]
Ends(n) ==
    /\ Goes(n, "ended") /\ interrupted' = [interrupted EXCEPT ![n] = FALSE]
    /\ reading' = [reading EXCEPT ![n] = 0] /\ at' = [at EXCEPT ![n] = 0]
    /\ sets' = sets \ {n}
Continues(n, to) == Goes(n, to) /\ UNCHANGED <<interrupted, localVars>>

(* H264: Thread.interrupted() ends the loop, but clears the flag, and the  *)
(* units are read as if the header was skipped.                            *)
SkipTest(n) ==
    /\ pc[n] = "skip"
    /\ Goes(n, IF interrupted[n] THEN "loop" ELSE "seek")
    /\ swallowed' = IF interrupted[n] THEN swallowed \cup {n} ELSE swallowed
    /\ interrupted' = [interrupted EXCEPT ![n] = FALSE]
    /\ UNCHANGED <<callerVars, localVars, delta, ringVars, told, left, since, gap, early,
                   packetVars>>

(* The stream it reads: the one the field named when the read was called. *)
Source(n) == IF reading[n] = 0 THEN is ELSE reading[n]
Input(n, state) == stream[Source(n)] = state
Returns(n) == reading' = [reading EXCEPT ![n] = 0]
Strays(n) == strayed' = IF Source(n) # n /\ n \notin left THEN strayed \cup {n} ELSE strayed

(* Up to an 'm', and "dat" comes after it or does not.  AMR reads six      *)
(* bytes.                                                                  *)
Seeks(n) ==
    /\ pc[n] = "seek" /\ Input(n, "open")
    /\ Returns(n)
    /\ \/ Goes(n, "loop") \/ UNCHANGED pc
       \/ kind = "h264" /\ Goes(n, "skip")
    /\ UNCHANGED <<callerVars, interrupted, at, sets, delta, ringVars, historyVars>>

LoopTest(n) ==
    /\ pc[n] = "loop"
    /\ IF interrupted[n] THEN Ends(n)
       ELSE Continues(n, IF kind = "h264" THEN "unit" ELSE "request")
    /\ UNCHANGED <<callerVars, delta, ringVars, historyVars>>

(* H264 reads length and header of a unit before it requests a buffer, and *)
(* looks for another unit if the length cannot be.                         *)
ReadsUnit(n) ==
    /\ pc[n] \in {"unit", "resync"} /\ Input(n, "open")
    /\ Returns(n) /\ Strays(n)
    /\ Goes(n, "request") \/ Goes(n, "resync") \/ UNCHANGED pc
    /\ UNCHANGED <<callerVars, interrupted, at, sets, delta, ringVars, told, left, swallowed, since,
                   gap, early, slots, shared, torn>>

(* At the end of the stream a read gives -1, which H264 takes for a byte   *)
(* while it skips the header and in resync: it reads on, for ever.         *)
ReadsNothing(n) ==
    /\ kind = "h264" /\ pc[n] \in {"seek", "resync"} /\ Input(n, "ended")
    /\ Returns(n)
    /\ UNCHANGED pc \/ (pc[n] = "seek" /\ Goes(n, "skip"))
    /\ UNCHANGED <<callerVars, interrupted, at, sets, delta, ringVars, historyVars>>

(* Faulty variant: fill returns -1 at the end of the stream. *)
ReadFailsQuietly(n) ==
    /\ pc[n] \in {"unit", "read", "read payload"} /\ Input(n, "ended")
    /\ Returns(n) /\ Goes(n, "loop")
    /\ UNCHANGED <<callerVars, interrupted, at, sets, delta, ringVars, historyVars>>

(* All else takes it for the end.  When the stream is closed a read throws.*)
ReadFails(n) ==
    /\ pc[n] \in Inputs
    /\ \/ Input(n, "closed")
       \/ Input(n, "ended") /\ ~(kind = "h264" /\ pc[n] \in {"seek", "resync"})
    /\ Ends(n)
    /\ UNCHANGED <<callerVars, delta, ringVars, historyVars>>

(* requestBuffer returns the buffer at mBufferIn, which the thread puts    *)
(* into the field and begins to write to.  That is one step: only a thread *)
(* that makes a packet too can come in between.                            *)
TakesBuffer(n) ==
    /\ buffer' = mBufferIn
    /\ slots' = [slots EXCEPT ![mBufferIn] = IF Others(n) = {} THEN {n} ELSE @ \cup {n}]
    /\ shared' = IF Others(n) = {} THEN shared \ {n} ELSE shared \cup Others(n) \cup {n}
    /\ sets' = IF pc[n] = "sets" THEN sets \cup {n} ELSE sets \ {n}
    /\ Goes(n, "fill")
    /\ UNCHANGED <<interrupted, reading, at>>

(* There is none at mBufferIn, between ++mBufferIn and its reset. *)
NoSlot == mBufferIn = BufferCount

(* Faulty variant: it does not look at the flag. *)
RequestsDeaf(n) ==
    /\ pc[n] \in {"request", "sets"} /\ permits > 0
    /\ permits' = permits - 1
    /\ IF NoSlot THEN Ends(n) /\ UNCHANGED <<buffer, slots, shared>> ELSE TakesBuffer(n)
    /\ UNCHANGED <<callerVars, delta, mBufferIn, mBufferOut, queued, told, left, swallowed, since,
                   gap, early, strayed, torn>>

(* acquire() throws if the thread is interrupted.  For a unit, a fragment, *)
(* a frame or, in H264, a parameter set.                                   *)
Requests(n) ==
    /\ pc[n] \in {"request", "sets"}
    /\ \/ interrupted[n] /\ Ends(n) /\ UNCHANGED <<permits, buffer, slots, shared>>
       \/ /\ ~interrupted[n] /\ permits > 0
          /\ permits' = permits - 1
          /\ IF NoSlot THEN Ends(n) /\ UNCHANGED <<buffer, slots, shared>> ELSE TakesBuffer(n)
    /\ UNCHANGED <<callerVars, delta, mBufferIn, mBufferOut, queued, told, left, swallowed, since,
                   gap, early, strayed, torn>>

(* The buffer is the one the field names now.  A parameter set is copied,  *)
(* and nothing is read for a unit of one byte or none.                     *)
Fills(n) ==
    /\ pc[n] \in {"fill", "payload"}
    /\ slots' = [slots EXCEPT ![buffer] = @ \cup {n}]
    /\ \/ /\ n \notin sets /\ Goes(n, IF pc[n] = "fill" THEN "read" ELSE "read payload")
          /\ at' = [at EXCEPT ![n] = buffer]
       \/ kind = "h264" /\ Goes(n, "commit") /\ UNCHANGED at
    /\ UNCHANGED <<callerVars, interrupted, reading, sets, delta, ringVars, told, left,
                   swallowed, since, gap, early, strayed, shared, torn>>

(* fill.  A frame of AMR is filled in two calls: its header, its payload.  *)
FillReads(n) ==
    /\ pc[n] \in {"read", "read payload"} /\ Input(n, "open")
    /\ Returns(n) /\ Strays(n)
    /\ slots' = [slots EXCEPT ![at[n]] = @ \cup {n}]
    /\ \/ UNCHANGED <<pc, at>>
       \/ /\ Goes(n, IF kind = "h264" THEN "commit"
                     ELSE IF pc[n] = "read" THEN "payload" ELSE "measure")
          /\ at' = [at EXCEPT ![n] = 0]
    /\ UNCHANGED <<callerVars, interrupted, sets, delta, ringVars, told, left, swallowed, since,
                   gap, early, shared, torn>>

(* commitBuffer up to ++mBufferIn, whose value it reads.  Time stamp,      *)
(* marker, sequence number and length are those of the buffer at mBufferIn.*)
Commits(n) ==
    /\ pc[n] = "commit"
    /\ \/ NoSlot /\ Ends(n) /\ UNCHANGED <<queued, since, slots, torn>>
       \/ /\ ~NoSlot
          /\ queued' = queued + 1
          /\ since' = [since EXCEPT ![n] = IF n \in told /\ @ < 2 THEN @ + 1 ELSE @]
          /\ slots' = [slots EXCEPT ![mBufferIn] = {}]
          /\ torn' = (torn \/ \E m \in Threads \ {n} : pc[m] \in {"advance", "wrap"})
          /\ at' = [at EXCEPT ![n] = mBufferIn]
          /\ Goes(n, "advance")
          /\ UNCHANGED <<interrupted, reading, sets>>
    /\ UNCHANGED <<callerVars, delta, indexVars, permits, told, left, swallowed, gap, early,
                   strayed, shared>>

(* A large H264 unit needs more packets, and one or two parameter sets are *)
(* sent.                                                                   *)
Committed(n) ==
    /\ \E to \in IF kind = "amr" THEN {"loop"}
                 ELSE IF n \in sets THEN {"loop", "sets"} ELSE {"request", "measure"} : Goes(n, to)
    /\ at' = [at EXCEPT ![n] = 0] /\ sets' = sets \ {n} /\ shared' = shared \ {n}
    /\ UNCHANGED <<interrupted, reading>>

(* Faulty variant: it stays at the buffer it was at. *)
AdvancesNot(n) ==
    /\ pc[n] = "advance"
    /\ Committed(n)
    /\ UNCHANGED <<callerVars, delta, ringVars, told, left, swallowed, since, gap, early, strayed,
                   slots, torn>>

(* ++mBufferIn, which at the end of the ring names no buffer ... *)
Advances(n) ==
    /\ pc[n] = "advance"
    /\ mBufferIn' = at[n] + 1
    /\ IF mBufferIn' = BufferCount THEN Continues(n, "wrap") /\ UNCHANGED shared ELSE Committed(n)
    /\ UNCHANGED <<callerVars, delta, buffer, mBufferOut, permits, queued, told, left, swallowed,
                   since, gap, early, strayed, slots, torn>>

(* ... until it is reset. *)
Wraps(n) ==
    /\ pc[n] = "wrap"
    /\ mBufferIn' = 0
    /\ Committed(n)
    /\ UNCHANGED <<callerVars, delta, buffer, mBufferOut, permits, queued, told, left, swallowed,
                   since, gap, early, strayed, slots, torn>>

AtMost(x, bound) == IF x > bound THEN bound ELSE x

(* The time the unit or the frame took is added to the field; that of a    *)
(* thread that was left passed for its successor too.                      *)
Measures(n) ==
    /\ pc[n] = "measure"
    /\ \E d \in 0 .. MaxDuration :
           /\ delta' = AtMost(delta + d, Interval)
           /\ gap' = IF kind = "amr" /\ n \notin left THEN AtMost(gap + d, Interval) ELSE gap
    /\ Goes(n, "report")
    /\ UNCHANGED <<callerVars, interrupted, localVars, ringVars, told, left, swallowed, since,
                   early, packetVars>>

(* H264 then sends the parameter sets, if five seconds are over. *)
Unreported(n) ==
    \E to \in IF kind = "h264" THEN {"loop", "sets"} ELSE {"commit"} : Continues(n, to)

(* Faulty variant: AMR does not begin to count again either. *)
ReportsOn(n) ==
    /\ pc[n] = "report" /\ delta >= Interval
    /\ gap' = IF kind = "amr" THEN 0 ELSE gap
    /\ early' = (early \/ gap < Interval)
    /\ Unreported(n) \/ Ends(n)
    /\ UNCHANGED <<callerVars, delta, ringVars, told, left, swallowed, since, packetVars>>

(* A sender report, which may fail: the thread then ends, in AMR with its  *)
(* buffer.  H264 goes on counting from where it was.                       *)
Reports(n) ==
    /\ pc[n] = "report" /\ delta >= Interval
    /\ delta' = IF kind = "amr" THEN 0 ELSE delta
    /\ gap' = IF kind = "amr" THEN 0 ELSE gap
    /\ early' = (early \/ gap < Interval)
    /\ Unreported(n) \/ Ends(n)
    /\ UNCHANGED <<callerVars, ringVars, told, left, swallowed, since, packetVars>>

NoReport(n) ==
    /\ pc[n] = "report" /\ delta < Interval
    /\ Unreported(n)
    /\ UNCHANGED <<callerVars, delta, ringVars, historyVars>>

(* An index of the ring, and the one after the last is the first. *)
Around(i) == IF i >= BufferCount THEN i - BufferCount ELSE i

(* The socket's thread sends a packet. *)
BufferFreed ==
    /\ queued > 0
    /\ queued' = queued - 1 /\ permits' = permits + 1
    /\ mBufferOut' = Around(mBufferOut + 1)
    /\ UNCHANGED <<callerVars, threadVars, delta, buffer, mBufferIn, historyVars>>

(* What a thread does by itself, and what it waits for: that a stream which*)
(* has not ended gives bytes.                                              *)
OwnStep(n) ==
    \/ SkipTest(n) \/ LoopTest(n) \/ ReadsNothing(n) \/ ReadFails(n)
    \/ Requests(n) \/ Fills(n) \/ Commits(n) \/ Advances(n) \/ Wraps(n)
    \/ Measures(n) \/ Reports(n) \/ NoReport(n)

BytesCome(n) == Seeks(n) \/ ReadsUnit(n) \/ FillReads(n)

Step(n) == OwnStep(n) \/ BytesCome(n)

Next ==
    \/ Start \/ CloseInput \/ Interrupt \/ Join \/ StopRecorder \/ RecorderEnds \/ BufferFreed
    \/ \E n \in Threads : Step(n)

(* Threads run.  Nobody is made to start or stop, the recorder to write,   *)
(* or the socket to send.                                                  *)
Spec == Init /\ [][Next]_vars /\ \A n \in Threads : WF_vars(OwnStep(n))

-----------------------------------------------------------------------------
Places ==
    {"none", "skip", "seek", "loop", "unit", "resync", "request", "sets", "fill", "read", "payload",
     "read payload", "measure", "report", "commit", "advance", "wrap", "ended"}

TypeOK ==
    /\ kind \in {"h264", "amr"}
    /\ caller \in {"idle", "streaming", "interrupt", "join", "recorder"}
    /\ t \in 0 .. MaxStarts /\ is \in 0 .. MaxStarts
    /\ stream \in [Threads -> {"none", "open", "ended", "closed"}]
    /\ pc \in [Threads -> Places]
    /\ interrupted \in [Threads -> BOOLEAN] /\ reading \in [Threads -> 0 .. MaxStarts]
    /\ at \in [Threads -> Slots] /\ sets \subseteq Threads
    /\ buffer \in Slots /\ mBufferIn \in 0 .. BufferCount /\ mBufferOut \in Slots
    /\ delta \in 0 .. Interval /\ gap \in 0 .. Interval
    /\ permits \in 0 .. BufferCount /\ queued \in 0 .. BufferCount
    /\ told \subseteq Threads /\ left \subseteq told /\ swallowed \subseteq told
    /\ since \in [Threads -> 0 .. 2] /\ early \in BOOLEAN
    /\ strayed \subseteq Threads /\ slots \in [Slots -> SUBSET Threads]
    /\ shared \subseteq Threads /\ torn \in BOOLEAN

(* One thread runs while every stop() found its thread ended, and whoever  *)
(* outlived its stop(), the others pack their own stream's bytes only.     *)
(* (AbstractPacketizer.start: one thread, one input stream.)               *)
OwnBytes ==
    /\ left = {} => Cardinality({n \in Threads : Runs(n)}) <= 1
    /\ strayed = {}

(* A packet is the work of one thread, unless another thread made one at   *)
(* the same time: two that do so get the same buffer, and their packets do *)
(* mix.  That takes a thread that outlived its stop().                     *)
(* (AbstractPacketizer.buffer, RtpSocket.requestBuffer and mBufferIn.)     *)
OwnPackets ==
    /\ \A n \in Threads : pc[n] = "commit" /\ n \notin shared => slots[mBufferIn] = {n}
    /\ left = {} => shared = {} /\ ~torn

(* The packets are committed where the socket's thread looks for them,     *)
(* until two threads are in commitBuffer at once, where a ++mBufferIn may  *)
(* be lost: the two stay out of step then.  (RtpSocket.commitBuffer, run.) *)
RingInStep ==
    ~torn =>
        LET committed == Cardinality({n \in Threads : pc[n] = "advance"}) IN
        Around(mBufferIn + committed) = Around(mBufferOut + queued)

(* A thread that outlived its stop() sends at most the packet it was at,   *)
(* whatever stream it reads from then; but for one interrupted while it    *)
(* skipped the header.  (AbstractPacketizer.stop: "Stops the packetizer.") *)
SendsNoMore == \A n \in Threads \ swallowed : since[n] <= 1

(* A stop() keeps the stream before it out of the stream after it, as far  *)
(* as the thread it left does not make a packet while the next one does.   *)
(* (AbstractPacketizer.start and stop.)                                    *)
StreamsStayApart == OwnBytes /\ OwnPackets /\ RingInStep /\ SendsNoMore

(* A thread that ends takes at most one buffer of the socket with it, also *)
(* when it is its report that fails; the others are in use, queued or free.*)
(* (AMRNBPacketizer.run, H264Packetizer.fill.)                             *)
OneBufferLost ==
    permits + queued + Cardinality({n \in Threads : Holds(n)})
        + Cardinality({n \in Threads : pc[n] = "ended"}) >= BufferCount

(* AMR's reports are the interval apart, over any number of starts, unless *)
(* two threads count the same time.  H264 never sets delta back: its later *)
(* reports are as far apart as its units.  (AbstractPacketizer: "the       *)
(* temporal interval between two RTCP Sender Reports".)                    *)
ReportsApart == early => left # {}

(* It waits for a stream made after its own, or reads noise or the end of  *)
(* it over and over.                                                       *)
ReadsLater(n) ==
    pc[n] \in Inputs /\ Source(n) # n /\ ~Input(n, "closed")

(* A thread that was interrupted ends once its stream is closed, though it *)
(* waits for bytes, for a buffer or for both in turn: unless it swallowed  *)
(* the interrupt, or got to read a later stream that is not closed, where  *)
(* nothing makes it look at the flag until a unit comes.                   *)
(* (H264Packetizer.stop, AMRNBPacketizer.stop.)                            *)
StoppedEnds ==
    \A n \in Threads :
        <>[](n \in told /\ stream[n] = "closed")
            => <>[](~Runs(n) \/ n \in swallowed \/ ReadsLater(n))
=============================================================================
