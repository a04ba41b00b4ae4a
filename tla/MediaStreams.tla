---------------------------- MODULE MediaStreams ----------------------------
(***************************************************************************)
(* The streams of the RTSP sessions and what they hold: MediaStream.java,  *)
(* VideoStream.java and AudioStream.java, with the test recording of       *)
(* H264Stream.java.                                                        *)
(*                                                                         *)
(* A session has at most one stream per track.  A started stream holds a   *)
(* pair of local sockets and, through a MediaRecorder, the track's device: *)
(* the microphone or the camera.  A device serves one recorder at a time.  *)
(* stop() gives back what a stream holds only when mStreaming is set, and  *)
(* only when MediaRecorder.stop() does not throw; what a start or a stop   *)
(* that threw leaves behind is held until the collector finalizes it.      *)
(***************************************************************************)
EXTENDS Naturals

CONSTANTS
    Sessions,       \* the Session objects that can exist at once
    NoSession       \* the empty Session a connection begins with

ASSUME NoSessionAssumption == NoSession \notin Sessions

VARIABLES
    tracks,         \* the tracks whose stream is not null, per session
    streaming,      \* the tracks whose mStreaming is set, per session
    sockets,        \* the tracks that have their local sockets open, per session
    device          \* the session whose recorder holds a track's device

streamVars == <<tracks, streaming, sockets, device>>

Tracks == {"audio", "video"}

StreamsTypeOK ==
    /\ tracks \in [Sessions -> SUBSET Tracks]
    /\ streaming \in [Sessions -> SUBSET Tracks]
    /\ sockets \in [Sessions -> SUBSET Tracks]
    /\ device \in [Tracks -> Sessions \cup {NoSession}]

StreamsInit ==
    /\ tracks = [s \in Sessions |-> {}]
    /\ streaming = [s \in Sessions |-> {}]
    /\ sockets = [s \in Sessions |-> {}]
    /\ device = [t \in Tracks |-> NoSession]

IsFree(t) == device[t] = NoSession

-----------------------------------------------------------------------------
(* MediaStream.start ends well: sockets, recorder, packetizer, mStreaming. *)
StartStream(s, t) ==
    /\ IsFree(t)
    /\ device' = [device EXCEPT ![t] = s]
    /\ sockets' = [sockets EXCEPT ![s] = @ \cup {t}]
    /\ streaming' = [streaming EXCEPT ![s] = @ \cup {t}]
    /\ UNCHANGED tracks

(* It throws before createSockets: no destination port was ever given. *)
StartRefused == UNCHANGED streamVars

(* It throws later: in createCamera or in the recorder, which the recorder *)
(* does when its device is taken.  The sockets stay open, and so does the  *)
(* recorder, which may hold the device: nothing calls release().           *)
StartThrows(s, t) ==
    /\ sockets' = [sockets EXCEPT ![s] = @ \cup {t}]
    /\ \/ UNCHANGED device
       \/ IsFree(t) /\ device' = [device EXCEPT ![t] = s]
    /\ UNCHANGED <<tracks, streaming>>

(* testH264 starts its recorder, or throws doing so outside its try block. *)
StartTest(s) ==
    /\ IsFree("video")
    /\ device' = [device EXCEPT !["video"] = s]
    /\ UNCHANGED <<tracks, streaming, sockets>>

TestThrows(s) ==
    /\ \/ UNCHANGED device
       \/ IsFree("video") /\ device' = [device EXCEPT !["video"] = s]
    /\ UNCHANGED <<tracks, streaming, sockets>>

(* The finally block of testH264 releases the recorder it started. *)
ReleaseTest ==
    /\ device' = [device EXCEPT !["video"] = NoSession]
    /\ UNCHANGED <<tracks, streaming, sockets>>

(* Faulty variant: mStreaming is left set by stop(). *)
StopStreamsForgets(s, T, bad) ==
    LET freed == (streaming[s] \cap T) \ bad
    IN  /\ bad \subseteq streaming[s] \cap T
        /\ sockets' = [sockets EXCEPT ![s] = @ \ freed]
        /\ device' = [t \in Tracks |-> IF t \in freed THEN NoSession ELSE device[t]]
        /\ UNCHANGED streaming

(* The streams of session s in T stop: those that run give back what they  *)
(* hold, except in `bad`, where MediaRecorder.stop() throws (it does when  *)
(* nothing was recorded yet) and release() and closeSockets() are skipped. *)
StopStreams(s, T, bad) ==
    LET running == streaming[s] \cap T
        freed   == running \ bad
    IN  /\ bad \subseteq running
        /\ streaming' = [streaming EXCEPT ![s] = @ \ running]
        /\ sockets' = [sockets EXCEPT ![s] = @ \ freed]
        /\ device' = [t \in Tracks |-> IF t \in freed THEN NoSession ELSE device[t]]

(* The streams of session s stop and are dropped.  With its last reference *)
(* goes what a stream left open of its sockets, which nothing looks at.    *)
FlushStreams(s, bad) ==
    LET freed == streaming[s] \ bad
    IN  /\ bad \subseteq streaming[s]
        /\ tracks' = [tracks EXCEPT ![s] = {}]
        /\ streaming' = [streaming EXCEPT ![s] = {}]
        /\ sockets' = [sockets EXCEPT ![s] = {}]
        /\ device' = [t \in Tracks |-> IF t \in freed THEN NoSession ELSE device[t]]

(* The collector finalizes a recorder nothing refers to any more.  (One    *)
(* still referred to may go early here: the same state is reached by a     *)
(* start that threw before its recorder got the device.)                   *)
FinalizeRecorder(s, t) ==
    /\ device[t] = s
    /\ t \notin streaming[s]
    /\ device' = [device EXCEPT ![t] = NoSession]
    /\ UNCHANGED <<tracks, streaming, sockets>>

(* The collector finalizes a session nobody refers to: its recorders       *)
(* release their devices and its sockets close, whatever was leaked.       *)
FinalizeSession(s) ==
    /\ tracks' = [tracks EXCEPT ![s] = {}]
    /\ streaming' = [streaming EXCEPT ![s] = {}]
    /\ sockets' = [sockets EXCEPT ![s] = {}]
    /\ device' = [t \in Tracks |-> IF device[t] = s THEN NoSession ELSE device[t]]
=============================================================================
