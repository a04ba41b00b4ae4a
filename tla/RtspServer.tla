----------------------------- MODULE RtspServer -----------------------------
(***************************************************************************)
(* rtsp/RtspServer.java and Session.java: one worker thread per RTSP       *)
(* client, the UI thread that starts and stops the server, and the lock    *)
(* Session.sLock under which descriptions are made and streams started     *)
(* and stopped.                                                            *)
(*                                                                         *)
(* A worker's step runs up to the next point where another thread can      *)
(* interfere: entering or leaving a synchronized block, a wait, a post.    *)
(* OPTIONS, PLAY, PAUSE, requests refused with 400 or 404 and requests     *)
(* that cannot be parsed change nothing and are left out; so are the       *)
(* responses, but not whether the worker gets to send one.                 *)
(*                                                                         *)
(* The first H264 description or start with a given quality records a      *)
(* test file (H264Stream.testH264): with the lock held the worker waits    *)
(* for a callback the UI thread's looper delivers, six seconds at most.    *)
(***************************************************************************)
EXTENDS MediaStreams

CONSTANTS
    Clients,        \* RTSP connections; one can be made again after it ended
    NoThread,       \* nobody holds sLock
    UI,             \* the UI thread
    Offers,         \* sets of tracks a URI can ask for and get
    Qualities,      \* video qualities a URI can ask for
    MaxPermits      \* bound: callbacks a test recording can deliver unread

ASSUME ThreadsAssumption == UI \notin Clients /\ NoThread \notin Clients \cup {UI}
ASSUME OffersAssumption == Offers \subseteq SUBSET Tracks
ASSUME QualitiesAssumption == Qualities # {}
ASSUME MaxPermitsAssumption == MaxPermits \in Nat \ {0}

VARIABLES
    sLock,          \* the thread in a block synchronized on sLock
    worker,         \* where each client's worker thread is
    mSession,       \* the worker's session
    track,          \* the track of the SETUP being processed
    leaving,        \* the worker is past its request loop
    mSessions,      \* the sessions the server knows
    quality,        \* the video quality of each session
    cached,         \* the qualities whose H264 parameters the preferences hold
    mLock,          \* permits of each H264Stream's semaphore, released by callbacks
    listening,      \* mListenerThread is not null
    ui,             \* where the UI thread is
    toVisit,        \* sessions stop()'s iterator has not returned
    visited,        \* the session it returned last
    modified        \* mSessions changed under the iterator

workerVars == <<worker, mSession, track, leaving>>
uiVars     == <<ui, toVisit, visited, listening>>
vars == <<streamVars, workerVars, uiVars, sLock, mSessions, quality, cached,
          mLock, modified>>

Session(c) == mSession[c]
NeedsTest(c) == quality[Session(c)] \notin cached
AnyQuality == CHOOSE q \in Qualities : TRUE     \* of a session that is not in use
HasVideo(c) == "video" \in tracks[Session(c)]

Init ==
    /\ StreamsInit
    /\ sLock = NoThread
    /\ worker = [c \in Clients |-> "absent"]
    /\ mSession = [c \in Clients |-> NoSession]
    /\ track = [c \in Clients |-> "video"]
    /\ leaving = [c \in Clients |-> FALSE]
    /\ mSessions = {}
    /\ quality = [s \in Sessions |-> AnyQuality]
    /\ cached = {}
    /\ mLock = [s \in Sessions |-> 0]
    /\ listening = TRUE
    /\ ui = "idle"
    /\ toVisit = {}
    /\ visited = NoSession
    /\ modified = FALSE

Goto(c, pc) == /\ worker' = [worker EXCEPT ![c] = pc]
               /\ UNCHANGED track

(* The request is over, and its local variables with it. *)
Finish(c, pc) == /\ worker' = [worker EXCEPT ![c] = pc]
                 /\ track' = [track EXCEPT ![c] = "video"]

-----------------------------------------------------------------------------
(* Requests.                                                               *)

(* The listener accepts a connection and starts its worker. *)
Connect(c) ==
    /\ listening
    /\ worker[c] = "absent"
    /\ Goto(c, "idle")
    /\ UNCHANGED <<streamVars, mSession, leaving, uiVars, sLock, mSessions,
                   quality, cached, mLock, modified>>

(* DESCRIBE: a new session with the tracks the URI asks for replaces the   *)
(* worker's, whatever that one was doing, and is put in mSessions.         *)
Describe(c, s, T, q) ==
    /\ worker[c] = "idle"
    /\ s \notin mSessions
    /\ mSession' = [mSession EXCEPT ![c] = s]
    /\ mSessions' = mSessions \cup {s}
    /\ modified' = (ui # "idle")
    /\ tracks' = [tracks EXCEPT ![s] = T]
    /\ quality' = [quality EXCEPT ![s] = q]
    /\ Goto(c, "describe")
    /\ UNCHANGED <<streaming, sockets, device, leaving,
                   uiVars, sLock, cached, mLock>>

(* getSessionDescription: nothing in its block waits unless testH264 has   *)
(* to record.                                                              *)
DescribeAtOnce(c) ==
    /\ worker[c] = "describe"
    /\ sLock = NoThread
    /\ HasVideo(c) => ~NeedsTest(c)
    /\ Goto(c, "idle")
    /\ UNCHANGED <<streamVars, mSession, leaving, uiVars, sLock,
                   mSessions, quality, cached, mLock, modified>>

(* Faulty variant: getSessionDescription is not synchronized. *)
DescribeUnlocked(c) ==
    /\ worker[c] = "describe"
    /\ HasVideo(c) /\ NeedsTest(c)
    /\ Goto(c, "test description")
    /\ UNCHANGED <<streamVars, mSession, leaving, uiVars, sLock,
                   mSessions, quality, cached, mLock, modified>>

DescribeWithTest(c) ==
    /\ worker[c] = "describe"
    /\ sLock = NoThread
    /\ HasVideo(c) /\ NeedsTest(c)
    /\ sLock' = c
    /\ Goto(c, "test description")
    /\ UNCHANGED <<streamVars, mSession, leaving, uiVars,
                   mSessions, quality, cached, mLock, modified>>

(* SETUP of an existing track; Session.start then waits for sLock. *)
Setup(c, t) ==
    /\ worker[c] = "idle"
    /\ Session(c) # NoSession
    /\ t \in tracks[Session(c)]
    /\ track' = [track EXCEPT ![c] = t]
    /\ worker' = [worker EXCEPT ![c] = "setup"]
    /\ UNCHANGED <<streamVars, mSession, leaving, uiVars, sLock, mSessions,
                   quality, cached, mLock, modified>>

(* Session.start enters its block; a stream that runs is left alone. *)
SetupAgain(c) ==
    /\ worker[c] = "setup"
    /\ sLock = NoThread
    /\ track[c] \in streaming[Session(c)]
    /\ Finish(c, "idle")
    /\ UNCHANGED <<streamVars, mSession, leaving, uiVars, sLock,
                   mSessions, quality, cached, mLock, modified>>

SetupStarts(c) ==
    /\ worker[c] = "setup"
    /\ sLock = NoThread
    /\ track[c] \notin streaming[Session(c)]
    /\ sLock' = c
    /\ Goto(c, IF track[c] = "video" /\ NeedsTest(c) THEN "test start" ELSE "start")
    /\ UNCHANGED <<streamVars, mSession, leaving, uiVars,
                   mSessions, quality, cached, mLock, modified>>

-----------------------------------------------------------------------------
(* testH264, called with sLock held.                                       *)

Testing(c)   == worker[c] \in {"test description", "test start"}
Recording(c) == worker[c] \in {"record description", "record start"}
Recorded(c)  == worker[c] \in {"recorded description", "recorded start"}

(* What the test is for, at its next stage. *)
Stage(c, description, start) ==
    Goto(c, IF worker[c] \in {"test description", "record description",
                              "recorded description"}
            THEN description ELSE start)

(* After the camera's five seconds' rest the recorder starts. *)
TestStarts(c) ==
    /\ Testing(c)
    /\ StartTest(Session(c))
    /\ Stage(c, "record description", "record start")
    /\ UNCHANGED <<mSession, leaving, uiVars, sLock, mSessions,
                   quality, cached, mLock, modified>>

(* It throws instead: the request ends with an error, sLock is released. *)
TestDoesNotStart(c) ==
    /\ Testing(c)
    /\ TestThrows(Session(c))
    /\ sLock' = NoThread
    /\ Finish(c, "idle")
    /\ UNCHANGED <<mSession, leaving, uiVars, mSessions,
                   quality, cached, mLock, modified>>

(* onInfo runs on the UI thread's looper, for any kind of information. *)
OnInfo(c) ==
    /\ ui = "idle"
    /\ Recording(c) \/ Recorded(c)
    /\ mLock[Session(c)] < MaxPermits
    /\ mLock' = [mLock EXCEPT ![Session(c)] = @ + 1]
    /\ UNCHANGED <<streamVars, workerVars, uiVars, sLock, mSessions, quality,
                   cached, modified>>

(* Faulty variant: the permits are not counted. *)
TestCalledBackUnchecked(c) ==
    /\ Recording(c)
    /\ mLock' = [mLock EXCEPT ![Session(c)] = @ - 1]
    /\ Stage(c, "recorded description", "recorded start")
    /\ UNCHANGED <<streamVars, mSession, leaving, uiVars, sLock,
                   mSessions, quality, cached, modified>>

(* mLock.tryAcquire returns true. *)
TestCalledBack(c) ==
    /\ Recording(c)
    /\ mLock[Session(c)] > 0
    /\ mLock' = [mLock EXCEPT ![Session(c)] = @ - 1]
    /\ Stage(c, "recorded description", "recorded start")
    /\ UNCHANGED <<streamVars, mSession, leaving, uiVars, sLock,
                   mSessions, quality, cached, modified>>

(* Faulty variant: mLock.acquire(), without a limit. *)
TestWaitsForever(c) == FALSE

(* mLock.tryAcquire returns false: six seconds went by without a callback. *)
TestTimesOut(c) ==
    /\ Recording(c)
    /\ mLock[Session(c)] = 0
    /\ Stage(c, "recorded description", "recorded start")
    /\ UNCHANGED <<streamVars, mSession, leaving, uiVars, sLock,
                   mSessions, quality, cached, mLock, modified>>

(* The recorder is released and the file read: its parameters are saved.   *)
(* A description is then complete; a start goes on.                        *)
TestSucceeds(c) ==
    /\ Recorded(c)
    /\ ReleaseTest
    /\ cached' = cached \cup {quality[Session(c)]}
    /\ mLock' = [mLock EXCEPT ![Session(c)] = 0]
    /\ Stage(c, "idle", "start")
    /\ sLock' = IF worker[c] = "recorded description" THEN NoThread ELSE sLock
    /\ UNCHANGED <<mSession, leaving, uiVars, mSessions,
                   quality, modified>>

(* The file holds no parameters: MP4Config throws, the request fails. *)
TestFails(c) ==
    /\ Recorded(c)
    /\ ReleaseTest
    /\ sLock' = NoThread
    /\ Finish(c, "idle")
    /\ UNCHANGED <<mSession, leaving, uiVars, mSessions,
                   quality, cached, mLock, modified>>

-----------------------------------------------------------------------------
(* The rest of SETUP, still with sLock held.                               *)

StreamStarts(c) ==
    /\ worker[c] = "start"
    /\ StartStream(Session(c), track[c])
    /\ sLock' = NoThread
    /\ Finish(c, "idle")
    /\ UNCHANGED <<mSession, leaving, uiVars, mSessions,
                   quality, cached, mLock, modified>>

(* Faulty variant: a start that throws keeps sLock. *)
StreamFailsLocked(c) ==
    /\ worker[c] = "start"
    /\ StartRefused \/ StartThrows(Session(c), track[c])
    /\ Finish(c, "idle")
    /\ UNCHANGED <<mSession, leaving, uiVars, sLock, mSessions,
                   quality, cached, mLock, modified>>

StreamDoesNotStart(c) ==
    /\ worker[c] = "start"
    /\ StartRefused \/ StartThrows(Session(c), track[c])
    /\ sLock' = NoThread
    /\ Finish(c, "idle")
    /\ UNCHANGED <<mSession, leaving, uiVars, mSessions,
                   quality, cached, mLock, modified>>

-----------------------------------------------------------------------------
(* TEARDOWN, and the end of the worker.                                    *)

(* TEARDOWN of a session that streams: stop(), then flush(). *)
Teardown(c) ==
    /\ worker[c] = "idle"
    /\ Session(c) # NoSession
    /\ streaming[Session(c)] # {}
    /\ Goto(c, "stop audio")
    /\ UNCHANGED <<streamVars, mSession, leaving, uiVars, sLock,
                   mSessions, quality, cached, mLock, modified>>

(* Faulty variant: the worker ends without stop() and flush(). *)
DisconnectAtOnce(c) ==
    /\ worker[c] = "idle"
    /\ Finish(c, "absent")
    /\ mSession' = [mSession EXCEPT ![c] = NoSession]
    /\ UNCHANGED <<streamVars, leaving, uiVars, sLock, mSessions,
                   quality, cached, mLock, modified>>

(* The client has left: stop(), then flush(), whatever the session does. *)
Disconnect(c) ==
    /\ worker[c] = "idle"
    /\ leaving' = [leaving EXCEPT ![c] = TRUE]
    /\ UNCHANGED track
    /\ worker' = [worker EXCEPT ![c] = "stop audio"]
    /\ UNCHANGED <<streamVars, mSession, uiVars, sLock, mSessions,
                   quality, cached, mLock, modified>>

(* Session.stop(0), and then stop(1), in a block of its own each. *)
StopTrack(c, t, here, next) ==
    /\ worker[c] = here
    /\ sLock = NoThread
    /\ IF Session(c) = NoSession
       THEN UNCHANGED streamVars
       ELSE /\ \E bad \in SUBSET {t} : StopStreams(Session(c), {t}, bad)
            /\ UNCHANGED tracks
    /\ Goto(c, next)
    /\ UNCHANGED <<mSession, leaving, uiVars, sLock, mSessions,
                   quality, cached, mLock, modified>>

StopAudio(c) == StopTrack(c, "audio", "stop audio", "stop video")
StopVideo(c) == StopTrack(c, "video", "stop video", "flush")

(* flush stops what streams, which nothing does by then, and drops the     *)
(* tracks; the worker of a client that left ends.                          *)
Flush(c) ==
    /\ worker[c] = "flush"
    /\ sLock = NoThread
    /\ IF Session(c) = NoSession
       THEN UNCHANGED streamVars
       ELSE \E bad \in SUBSET Tracks : FlushStreams(Session(c), bad)
    /\ Finish(c, IF leaving[c] THEN "absent" ELSE "idle")
    /\ leaving' = [leaving EXCEPT ![c] = FALSE]
    /\ mSession' = [mSession EXCEPT ![c] = IF leaving[c] THEN NoSession ELSE @]
    /\ UNCHANGED <<uiVars, sLock, mSessions,
                   quality, cached, mLock, modified>>

-----------------------------------------------------------------------------
(* RtspServer.start and stop, on the UI thread.                            *)

StartServer ==
    /\ ui = "idle"
    /\ ~listening
    /\ listening' = TRUE
    /\ UNCHANGED <<streamVars, workerVars, ui, toVisit, visited, sLock, mSessions,
                   quality, cached, mLock, modified>>

(* stop() ends the listener, not the workers, and goes over the sessions. *)
StopServer ==
    /\ ui = "idle"
    /\ listening
    /\ listening' = FALSE
    /\ ui' = "visit"
    /\ toVisit' = mSessions
    /\ modified' = FALSE
    /\ UNCHANGED <<streamVars, workerVars, visited, sLock, mSessions, quality, cached,
                   mLock>>

(* Faulty variant: isStreaming() does not look at the video stream. *)
ReadNoVideo(s) == "visit"

(* isStreaming() reads a track's field twice, without sLock: once to see   *)
(* whether the track is null, and once to ask the stream.  The first read  *)
(* is done with the step before it: who reads the null of a session just   *)
(* flushed goes on as one who had asked the stopped stream before.         *)
ReadVideo(s) == IF "video" \in tracks[s] THEN "ask video" ELSE "visit"
ReadAudio(s) == IF "audio" \in tracks[s] THEN "ask audio" ELSE ReadVideo(s)

(* The iterator returns a session: stop() asks it whether it streams. *)
VisitSession(s) ==
    /\ ui = "visit"
    /\ ~modified
    /\ s \in toVisit
    /\ toVisit' = toVisit \ {s}
    /\ visited' = s
    /\ ui' = ReadAudio(s)
    /\ UNCHANGED <<streamVars, workerVars, listening, sLock, mSessions, quality, cached,
                   mLock, modified>>

(* By the second read flush may have made the track null: that throws, and *)
(* stop() swallows the exception.                                          *)
AskTrack(t, here, next) ==
    /\ ui = here
    /\ ui' = IF t \notin tracks[visited] THEN "thrown"
             ELSE IF t \in streaming[visited] THEN "stop audio" ELSE next
    /\ UNCHANGED <<streamVars, workerVars, toVisit, visited, listening, sLock, mSessions,
                   quality, cached, mLock, modified>>

AskAudio == AskTrack("audio", "ask audio", ReadVideo(visited))
AskVideo == AskTrack("video", "ask video", "visit")
Ask == AskAudio \/ AskVideo

(* Faulty variant: stop(id) is not synchronized. *)
StopVisitedUnlocked(t, here, next) ==
    /\ ui = here
    /\ \E bad \in SUBSET {t} : StopStreams(visited, {t}, bad)
    /\ ui' = next
    /\ UNCHANGED <<tracks, workerVars, toVisit, visited, listening, sLock, mSessions,
                   quality, cached, mLock, modified>>

(* session.stop() of the session visited, in its two blocks. *)
StopVisited(t, here, next) ==
    /\ ui = here
    /\ sLock = NoThread
    /\ \E bad \in SUBSET {t} : StopStreams(visited, {t}, bad)
    /\ ui' = next
    /\ UNCHANGED <<tracks, workerVars, toVisit, visited, listening, sLock, mSessions,
                   quality, cached, mLock, modified>>

StopVisitedAudio == StopVisited("audio", "stop audio", "stop video")
StopVisitedVideo == StopVisited("video", "stop video", "visit")

(* stop() is done, isStreaming() threw, or a session was put in mSessions  *)
(* meanwhile: then the iterator throws.  The exceptions are swallowed.     *)
EndStop ==
    /\ \/ ui = "visit" /\ (toVisit = {} \/ modified)
       \/ ui = "thrown"
    /\ ui' = "idle"
    /\ toVisit' = {}
    /\ visited' = NoSession
    /\ modified' = FALSE
    /\ UNCHANGED <<streamVars, workerVars, listening, sLock, mSessions, quality, cached,
                   mLock>>

-----------------------------------------------------------------------------
(* The garbage collector.                                                  *)

(* mSessions holds its keys weakly: a session goes with its last worker.   *)
Collect(s) ==
    /\ s \in mSessions
    /\ \A c \in Clients : Session(c) # s
    /\ visited # s
    /\ FinalizeSession(s)
    /\ mSessions' = mSessions \ {s}
    /\ toVisit' = toVisit \ {s}
    /\ mLock' = [mLock EXCEPT ![s] = 0]
    /\ quality' = [quality EXCEPT ![s] = AnyQuality]
    /\ UNCHANGED <<workerVars, ui, visited, listening, sLock,
                   cached, modified>>

(* A leaked recorder goes on its own. *)
CollectRecorder(s, t) ==
    /\ FinalizeRecorder(s, t)
    /\ \A c \in Clients : Session(c) = s => ~Recording(c) /\ ~Recorded(c)
    /\ UNCHANGED <<workerVars, uiVars, sLock, mSessions, quality, cached, mLock, modified>>

-----------------------------------------------------------------------------
(* The steps a worker takes by itself once a request or the end came.  *)
Work(c) ==
    \/ DescribeAtOnce(c) \/ DescribeWithTest(c) \/ SetupAgain(c) \/ SetupStarts(c)
    \/ TestStarts(c) \/ TestDoesNotStart(c)
    \/ TestCalledBack(c) \/ TestTimesOut(c) \/ TestSucceeds(c) \/ TestFails(c)
    \/ StreamStarts(c) \/ StreamDoesNotStart(c)
    \/ StopAudio(c) \/ StopVideo(c) \/ Flush(c)

Request(c) ==
    \/ \E s \in Sessions, T \in Offers, q \in Qualities : Describe(c, s, T, q)
    \/ \E t \in Tracks : Setup(c, t)
    \/ Teardown(c)
    \/ Disconnect(c)

Stopping ==
    \/ \E s \in Sessions : VisitSession(s)
    \/ Ask \/ StopVisitedAudio \/ StopVisitedVideo \/ EndStop

Next ==
    \/ \E c \in Clients : Connect(c) \/ Request(c) \/ Work(c) \/ OnInfo(c)
    \/ StartServer \/ StopServer \/ Stopping
    \/ \E s \in Sessions : Collect(s) \/ \E t \in Tracks : CollectRecorder(s, t)

Spec == Init /\ [][Next]_vars

-----------------------------------------------------------------------------
TypeOK ==
    /\ StreamsTypeOK
    /\ sLock \in Clients \cup {NoThread}
    /\ worker \in [Clients -> {"absent", "idle", "describe", "test description",
           "record description", "recorded description", "setup", "test start",
           "record start", "recorded start", "start", "stop audio", "stop video",
           "flush"}]
    /\ mSession \in [Clients -> Sessions \cup {NoSession}]
    /\ track \in [Clients -> Tracks]
    /\ leaving \in [Clients -> BOOLEAN]
    /\ mSessions \subseteq Sessions
    /\ quality \in [Sessions -> Qualities]
    /\ cached \subseteq Qualities
    /\ mLock \in [Sessions -> 0 .. MaxPermits]
    /\ listening \in BOOLEAN
    /\ ui \in {"idle", "visit", "ask audio", "ask video",
               "thrown", "stop audio", "stop video"}
    /\ toVisit \subseteq Sessions
    /\ visited \in Sessions \cup {NoSession}
    /\ modified \in BOOLEAN

(* The worker works on its session's recorder or streams with sLock held. *)
InBlock(c) == Testing(c) \/ Recording(c) \/ Recorded(c) \/ worker[c] = "start"

(* Two clients never describe, start or stop streams at once.  (Session:   *)
(* every such method is synchronized on sLock.)                            *)
OneInBlock == \A c, d \in Clients : InBlock(c) /\ InBlock(d) => c = d

(* A stream that runs is a track of its session, has its sockets, and its  *)
(* recorder holds the device; so does the recorder of a test, until it is  *)
(* released: no stop, flush or other start takes the device away.          *)
RunningHoldsDevice ==
    /\ \A s \in Sessions : \A t \in streaming[s] :
           t \in tracks[s] /\ t \in sockets[s] /\ device[t] = s
    /\ \A c \in Clients : Recording(c) \/ Recorded(c) => device["video"] = Session(c)

(* Both at once: what one client starts, tests or releases is never taken  *)
(* from under another's stream or recorder.  (Session, MediaStream.start,  *)
(* stop and flush, H264Stream.testH264.)                                   *)
StreamsAreSafe == OneInBlock /\ RunningHoldsDevice

(* While a thread is in its block on sLock, no thread starts or stops a    *)
(* stream of another session.  (Session.sLock: "Prevents threads from      *)
(* modifying two sessions simultaneously".)                                *)
LockedSessionOnly ==
    [][\A c \in Clients, s \in Sessions :
           InBlock(c) /\ s \in mSessions' /\ streaming'[s] # streaming[s]
               => s = Session(c)]_vars

(* Only a DESCRIBE of its own client takes the worker away from a session  *)
(* that streams: a client that leaves stops its session first.  A session  *)
(* so left streams on without a client.  (WorkerThread.run, after its      *)
(* loop: "Streaming stops when client disconnects".)                       *)
OnlyDescribeAbandons ==
    [][\A c \in Clients :
           LET s == Session(c)
           IN  s # NoSession /\ Session(c)' # s /\ streaming[s] # {}
                   => worker[c] = "idle" /\ worker'[c] = "describe"]_vars

(* A session is started and stopped by whoever may, and left when it may   *)
(* be.  (Session.sLock; WorkerThread.run.)                                 *)
SessionsAreKept == LockedSessionOnly /\ OnlyDescribeAbandons

-----------------------------------------------------------------------------
(* Threads that can run do run, and a thread that waits for sLock gets it  *)
(* if it is free again and again.  Clients and callbacks may do nothing.   *)
FairSpec ==
    /\ Spec
    /\ \A c \in Clients : SF_vars(Work(c))
    /\ SF_vars(Stopping)

(* A request, or the end of a client's worker, is always over in the end,  *)
(* though it may wait for sLock, for the camera and for a callback.        *)
RequestsEnd == \A c \in Clients : worker[c] \notin {"absent", "idle"} ~>
                   worker[c] \in {"absent", "idle"}

(* RtspServer.stop() returns: the UI thread waits for sLock, and the test  *)
(* recording that may hold it waits for a callback of the UI thread, but   *)
(* with a limit.                                                           *)
StopReturns == ui # "idle" ~> ui = "idle"

(* Nobody waits for ever: neither clients for sLock, camera and callback,  *)
(* nor the UI thread that stops the server.  (Session, RtspServer.stop.)   *)
EveryCallEnds == RequestsEnd /\ StopReturns

ToStop(s, t) == ui # "idle" /\ s \in toVisit /\ t \in streaming[s]

(* The session whose isStreaming() threw was flushed: it streams no more,  *)
(* only the sessions stop() has not visited yet may.                       *)
ThrowsForFlushed == ui = "thrown" => tracks[visited] = {} /\ streaming[visited] = {}

(* A stream that runs when stop() begins is stopped, unless stop() throws  *)
(* and swallows the exception: a DESCRIBE changed mSessions under the      *)
(* iterator, or a worker flushed the session that stop() asked whether it  *)
(* streams.  (RtspServer.stop: "Stops the RTSP server".)                   *)
StopStopsUnlessItThrows ==
    /\ []ThrowsForFlushed
    /\ \A s \in Sessions, t \in Tracks :
           ToStop(s, t) ~> t \notin streaming[s] \/ modified \/ ui = "thrown"

=============================================================================
