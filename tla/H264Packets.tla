---------------------------- MODULE H264Packets ----------------------------
(***************************************************************************)
(* rtp/H264Packetizer.java: the thread that reads NAL units from the       *)
(* recorder and makes RTP packets of them: one packet for a small unit,    *)
(* fragments (FU-A, RFC 3984) for a large one, and from time to time the   *)
(* parameter sets (sps and pps).                                           *)
(*                                                                         *)
(* A unit is its type and length, of which one byte is its header.  A      *)
(* receiver that misses no packet puts the units together again; that the  *)
(* socket sends the packets in order is the matter of RtpSocket.           *)
(* Timestamps and sender reports are left out but for the exceptions.  A   *)
(* thread is started when the one before has ended.  Names differ from     *)
(* Packetizer's, so that one module can be about both.                     *)
(*                                                                         *)
(* The code takes five bytes for length and header, whatever they are.  A  *)
(* length of 0 is taken for one, though the fifth byte then is the first   *)
(* of the next unit's length: from there on it reads out of step with the  *)
(* stream, until it gets into step by accident or by resync.               *)
(***************************************************************************)
EXTENDS Integers

CONSTANTS
    Chunk,          \* MAXPACKETSIZE - rtphl - 2 (1386 in the code)
    MaxLength,      \* a longer unit is taken for noise (100000 in the code)
    Period,         \* ms from parameter sets to parameter sets (5000 in the code)
    MaxPause,    \* bound: the time a unit takes
    Nothing         \* no unit

ASSUME ChunkAssumption == Chunk \in Nat \ {0}
ASSUME MaxLengthAssumption == MaxLength \in Nat \ {0}
ASSUME TimesAssumption == Period \in Nat /\ MaxPause \in Nat

Slices == {1, 5}
ParameterTypes == {7, 8}
Types == Slices \cup ParameterTypes
Units == [type : Types, length : 0 .. MaxLength]

ASSUME NothingAssumption == Nothing \notin [type : Types, length : Nat]

VARIABLES
    place,             \* where the thread is
    type,           \* of the unit, from the header read last
    naluLength,     \* its length
    sum,            \* how much of it is sent, its header included
    startBit,       \* the start bit in the FU-A header
    count,          \* parameter sets seen in the stream, up to five
    parameters,     \* sps and pps are not null
    delta2,         \* ms since parameter sets were sent
    inStep,         \* history: the next byte of the stream begins a unit
    real,           \* history: the unit of the stream read last, or Nothing
    resynced,       \* history: it was found by resync
    packet,         \* the last packet
    partial,        \* receiver: the unit whose fragments come, or Nothing
    received        \* receiver: the last unit that is complete, or Nothing

streamVars == <<inStep, real, resynced>>
receiverVars == <<packet, partial, received>>
unitVars == <<place, type, naluLength, sum, startBit, count, parameters, delta2, streamVars,
              receiverVars>>

Unit == [type |-> type, length |-> naluLength]
Sps == [type |-> 7, length |-> 1]
Pps == [type |-> 8, length |-> 1]

UnitsInit ==
    /\ place = "stopped"
    /\ type = 1 /\ naluLength = 1 /\ sum = 1 /\ startBit = TRUE
    /\ count = 0 /\ parameters = FALSE /\ delta2 = 0
    /\ inStep = FALSE /\ real = Nothing /\ resynced = FALSE
    /\ packet = Nothing /\ partial = Nothing /\ received = Nothing

-----------------------------------------------------------------------------
(* The receiver, as RFC 3984 has it.                                       *)

SendWhole(unit) ==
    /\ packet' = [length |-> unit.length, start |-> TRUE, end |-> TRUE, fragment |-> FALSE,
                  marker |-> TRUE]
    /\ received' = unit
    /\ partial' = Nothing

(* A packet without a payload, which the receiver makes nothing of. *)
SendEmpty ==
    /\ packet' = [length |-> 0, start |-> TRUE, end |-> TRUE, fragment |-> FALSE,
                  marker |-> TRUE]
    /\ UNCHANGED <<partial, received>>

(* A fragment of another unit than the one begun, or of none, is dropped. *)
SendFragmentOf(len, start, end) ==
    LET before == IF start THEN 0
                  ELSE IF partial # Nothing /\ partial.type = type THEN partial.length - 1
                  ELSE -1
        whole == [type |-> type, length |-> 1 + before + len]
    IN  /\ packet' = [length |-> len, start |-> start, end |-> end, fragment |-> TRUE,
                      marker |-> end]
        /\ received' = IF before # -1 /\ end THEN whole ELSE received
        /\ partial' = IF before # -1 /\ ~end THEN whole ELSE Nothing

-----------------------------------------------------------------------------
ThreadStarts ==
    /\ place = "stopped"
    /\ place' = "skip"
    /\ count' = 0 /\ delta2' = 0 /\ parameters' = TRUE
    /\ UNCHANGED <<type, naluLength, sum, startBit, streamVars, receiverVars>>

(* The bytes before the stream's data are skipped, unless an interrupt     *)
(* ends the loop, or an 'm' of theirs hides that of "mdat".                *)
SkipHeader ==
    /\ place = "skip"
    /\ place' = "nal"
    /\ inStep' \in BOOLEAN
    /\ UNCHANGED <<type, naluLength, sum, startBit, count, parameters, delta2, real, resynced,
                   receiverVars>>

(* What is known of a unit's type once it is read. *)
ReadType(t) ==
    /\ type' = t
    /\ count' = IF t \in ParameterTypes /\ count < 5 THEN count + 1 ELSE count
    /\ parameters' = (parameters /\ count' < 5)
    /\ sum' = 1

(* What the stream has where length and header are read: the unit, if the  *)
(* thread is in step with it.                                              *)
ReadInStream(unit) ==
    /\ real' = IF inStep THEN unit ELSE Nothing
    /\ inStep' \in IF inStep THEN {unit.length # 0} ELSE BOOLEAN
    /\ resynced' = FALSE

(* Faulty variant: the start bit is set for the first unit only. *)
ReadUnitKeepsBit ==
    /\ place = "nal"
    /\ \E unit \in Units : naluLength' = unit.length /\ ReadType(unit.type) /\ ReadInStream(unit)
    /\ place' = "send"
    /\ UNCHANGED <<startBit, delta2, receiverVars>>

ReadUnit ==
    /\ place = "nal"
    /\ \E unit \in Units : naluLength' = unit.length /\ ReadType(unit.type) /\ ReadInStream(unit)
    /\ startBit' = TRUE
    /\ place' = "send"
    /\ UNCHANGED <<delta2, receiverVars>>

(* A length that cannot be: resync looks for a slice, and what it finds is *)
(* one, or looks like one.  It sets the length only, and the type stays    *)
(* that of the header before.                                              *)
ReadNoise ==
    /\ place = "nal"
    /\ \E t \in Types, length \in 1 .. MaxLength - 1 :
           /\ naluLength' = length /\ ReadType(t)
           /\ real' \in {Nothing} \cup [type : Slices, length : {length}]
    /\ resynced' = TRUE /\ inStep' = (real' # Nothing)
    /\ startBit' = TRUE
    /\ place' = "send"
    /\ UNCHANGED <<delta2, receiverVars>>

(* Faulty variant of Small. *)
Smaller == naluLength < Chunk

Small == naluLength <= Chunk

(* fill reads nothing if the length is 0 or 1. *)
SendSingle ==
    /\ place = "send" /\ Small
    /\ IF naluLength = 0 THEN SendEmpty ELSE SendWhole(Unit)
    /\ place' = "sent"
    /\ UNCHANGED <<type, naluLength, sum, startBit, count, parameters, delta2, streamVars>>

(* Faulty variant: the last fragment is as long as the others. *)
SendFragmentFull ==
    /\ place = "send" /\ ~Small
    /\ sum' = sum + Chunk
    /\ SendFragmentOf(Chunk, startBit, sum' >= naluLength)
    /\ startBit' = FALSE
    /\ place' = IF sum' >= naluLength THEN "sent" ELSE "send"
    /\ UNCHANGED <<type, naluLength, count, parameters, delta2, streamVars>>

(* Faulty variant: the start bit is not switched off. *)
SendFragmentKeepsBit ==
    /\ place = "send" /\ ~Small
    /\ LET len == IF naluLength - sum > Chunk THEN Chunk ELSE naluLength - sum
       IN  /\ sum' = sum + len
           /\ SendFragmentOf(len, startBit, sum' >= naluLength)
    /\ place' = IF sum' >= naluLength THEN "sent" ELSE "send"
    /\ UNCHANGED <<type, naluLength, startBit, count, parameters, delta2, streamVars>>

SendFragment ==
    /\ place = "send" /\ ~Small
    /\ LET len == IF naluLength - sum > Chunk THEN Chunk ELSE naluLength - sum
       IN  /\ sum' = sum + len
           /\ SendFragmentOf(len, startBit, sum' >= naluLength)
    /\ startBit' = FALSE
    /\ place' = IF sum' >= naluLength THEN "sent" ELSE "send"
    /\ UNCHANGED <<type, naluLength, count, parameters, delta2, streamVars>>

(* After a unit: is it time for the parameter sets, and are there any? *)
Elapse(duration) ==
    /\ place = "sent"
    /\ delta2' = IF delta2 + duration > Period THEN 0 ELSE delta2 + duration
    /\ place' = IF delta2 + duration > Period /\ parameters THEN "sps" ELSE "nal"
    /\ UNCHANGED <<type, naluLength, sum, startBit, count, parameters, streamVars, receiverVars>>

SendSps ==
    /\ place = "sps"
    /\ SendWhole(Sps)
    /\ place' = "pps"
    /\ UNCHANGED <<type, naluLength, sum, startBit, count, parameters, delta2, streamVars>>

SendPps ==
    /\ place = "pps"
    /\ SendWhole(Pps)
    /\ place' = "nal"
    /\ UNCHANGED <<type, naluLength, sum, startBit, count, parameters, delta2, streamVars>>

(* The thread is interrupted, the stream ends, or the report cannot be     *)
(* sent: whatever it was at is left as it is.                              *)
ThreadEnds ==
    /\ place # "stopped"
    /\ place' = "stopped"
    /\ UNCHANGED <<type, naluLength, sum, startBit, count, parameters, delta2, streamVars,
                   receiverVars>>

UnitsNext ==
    \/ ThreadStarts \/ SkipHeader \/ ReadUnit \/ ReadNoise
    \/ SendSingle \/ SendFragment
    \/ \E duration \in 0 .. MaxPause : Elapse(duration)
    \/ SendSps \/ SendPps \/ ThreadEnds

UnitsSpec == UnitsInit /\ [][UnitsNext]_unitVars

-----------------------------------------------------------------------------
UnitsTypeOK ==
    /\ place \in {"stopped", "skip", "nal", "send", "sent", "sps", "pps"}
    /\ type \in Types /\ naluLength \in 0 .. MaxLength /\ sum \in 1 .. MaxLength
    /\ startBit \in BOOLEAN /\ count \in 0 .. 5 /\ parameters \in BOOLEAN
    /\ delta2 \in 0 .. Period
    /\ inStep \in BOOLEAN /\ resynced \in BOOLEAN
    /\ packet \in {Nothing} \cup [length : 0 .. MaxLength, start : BOOLEAN, end : BOOLEAN,
                                  fragment : BOOLEAN, marker : BOOLEAN]
    /\ real \in {Nothing} \cup Units
    /\ partial \in {Nothing} \cup Units /\ received \in {Nothing} \cup Units

(* What the packetizer takes for the unit is the one the stream has there, *)
(* but for the type of one that resync found.                              *)
AsInStream ==
    real # Nothing => Unit.length = real.length /\ (resynced \/ Unit = real)

(* When a unit is sent the receiver has it, whole and as the stream has it,*)
(* and no unit is open when the parameter sets come: whatever its length,  *)
(* and whatever unit was left half sent by a thread that ended before.     *)
(* Of a unit of length 0 nothing can arrive: an empty packet goes out, and *)
(* the thread is not known to be in step with the stream any more.         *)
(* (H264Packetizer.send: "If it is too big, we split it in FU-A units".)   *)
UnitsArrive ==
    /\ place = "sent" /\ naluLength > 0 => received = Unit /\ AsInStream
    /\ place \in {"sent", "sps", "pps"} /\ naluLength > 0 => partial = Nothing
    /\ place = "sent" /\ naluLength = 0 => packet.length = 0 /\ (real # Nothing => ~inStep)

(* The receiver never puts a unit together that was not read: no fragment  *)
(* of an earlier unit gets into a later one, and nothing comes of a unit   *)
(* without bytes.  It is the unit of the stream while the thread is in     *)
(* step with it; one that resync found has its length, and the type of the *)
(* header that was read before.  (H264Packetizer.send, fill and resync.)   *)
NothingMixed ==
    [][received' # received =>
           \/ received' = Unit /\ AsInStream /\ naluLength > 0
           \/ received' \in {Sps, Pps}]_unitVars

(* A packet fits, bears the marker if and only if a unit ends with it, and *)
(* is not a fragment that is first and last at once, which RFC 3984 does   *)
(* not allow; but for the shortest unit that does not fit in one packet.   *)
(* (H264Packetizer.send: MAXPACKETSIZE, "Last packet before next NAL".)    *)
FragmentBits ==
    packet # Nothing =>
        /\ packet.length <= Chunk
        /\ packet.marker = packet.end
        /\ packet.fragment /\ packet.start /\ packet.end => packet.length = Chunk

(* What goes out is right as packets and as units: the receiver has every  *)
(* unit whole, out of packets that fit and whose bits say where it ends.   *)
(* (H264Packetizer.send.)                                                  *)
UnitsGoOutWhole == UnitsArrive /\ FragmentBits
=============================================================================
