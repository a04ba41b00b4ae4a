-------------------------- MODULE RtspServerProofs --------------------------
(***************************************************************************)
(* Proofs about the RTSP server: for any number of clients and sessions,   *)
(* sLock keeps the workers and the UI thread apart, and what runs keeps    *)
(* what it holds.                                                          *)
(***************************************************************************)
EXTENDS RtspServer, TLAPS

(* sLock is held by the worker that is in its block, and by no other. *)
LockHeld == \A c \in Clients : sLock = c <=> InBlock(c)

(* A worker has a session of its own, which the server knows; while it     *)
(* works on a request it has one.                                          *)
Busy(c) == InBlock(c) \/ worker[c] \in {"describe", "setup"}

OwnSession ==
    /\ \A c \in Clients : Session(c) \in mSessions \cup {NoSession}
    /\ \A c, d \in Clients : Session(c) = Session(d) /\ c # d => Session(c) = NoSession
    /\ \A c \in Clients : Busy(c) => Session(c) # NoSession

(* From its SETUP on, the track a worker starts is one its session has.    *)
Starts(c) == worker[c] \in {"setup", "test start", "record start", "recorded start", "start"}

SetupTrack == \A c \in Clients : Starts(c) => track[c] \in tracks[Session(c)]

(* A session object not in use streams nothing; the UI thread stops a      *)
(* session it visited.                                                     *)
Unused == /\ \A s \in Sessions : streaming[s] # {} => s \in mSessions
          /\ ui \notin {"idle", "visit", "thrown"} => visited \in Sessions

(* The camera a test records with is not one its session streams with.     *)
TestAlone == \A c \in Clients :
    Recording(c) \/ Recorded(c) => "video" \notin streaming[Session(c)]

IInv == /\ TypeOK /\ LockHeld /\ OwnSession /\ SetupTrack /\ Unused
        /\ RunningHoldsDevice /\ TestAlone

-----------------------------------------------------------------------------
(* The initial state.                                                      *)

(* A session that is not in use is given some quality.                     *)
LEMMA QualityIsOne == AnyQuality \in Qualities
BY QualitiesAssumption DEF AnyQuality

(* The inductive invariant holds at first.                                 *)
LEMMA InitInv == Init => IInv
<1> SUFFICES ASSUME Init PROVE IInv
  OBVIOUS
<1> USE DEF Init, StreamsInit
<1>1. TypeOK
  <2>1. StreamsTypeOK
    BY DEF StreamsTypeOK, Tracks
  <2>2. quality \in [Sessions -> Qualities] /\ mLock \in [Sessions -> 0 .. MaxPermits]
    BY QualityIsOne, MaxPermitsAssumption
  <2> QED
    BY <2>1, <2>2 DEF TypeOK, Tracks
<1>2. \A c \in Clients : ~Busy(c) /\ ~Starts(c)
  BY DEF Busy, Starts, InBlock, Testing, Recording, Recorded
<1>3. LockHeld
  BY <1>2, ThreadsAssumption DEF LockHeld, Busy
<1>4. OwnSession /\ SetupTrack
  BY <1>2 DEF OwnSession, SetupTrack, Session
<1>5. Unused
  BY DEF Unused
<1>6. RunningHoldsDevice /\ TestAlone
  BY <1>2 DEF RunningHoldsDevice, TestAlone, Busy, InBlock
<1> QED
  BY <1>1, <1>3, <1>4, <1>5, <1>6 DEF IInv

-----------------------------------------------------------------------------
(* Types.                                                                  *)

(* The points of a worker's program.                                       *)
Points == {"absent", "idle", "describe", "test description",
           "record description", "recorded description", "setup", "test start",
           "record start", "recorded start", "start", "stop audio", "stop video",
           "flush"}

(* A worker in its block has a session. *)
LEMMA BlockSession ==
    ASSUME TypeOK, OwnSession, NEW c \in Clients, Busy(c)
    PROVE  Session(c) \in Sessions
BY DEF TypeOK, OwnSession, Session

(* DESCRIBE keeps the types.                                               *)
LEMMA DescribeTypes ==
    ASSUME TypeOK, NEW c \in Clients, NEW s \in Sessions, NEW T \in Offers,
           NEW q \in Qualities, Describe(c, s, T, q)
    PROVE  TypeOK'
<1> USE DEF TypeOK, StreamsTypeOK, streamVars, workerVars, uiVars, Goto, Describe
<1>1. T \in SUBSET Tracks
  BY OffersAssumption
<1>2. tracks' \in [Sessions -> SUBSET Tracks]
  BY <1>1
<1>3. mSession' \in [Clients -> Sessions \cup {NoSession}]
  OBVIOUS
<1>4. quality' \in [Sessions -> Qualities] /\ modified' \in BOOLEAN
  OBVIOUS
<1> QED
  BY <1>2, <1>3, <1>4

(* A new connection and every request keep the types.                      *)
LEMMA RequestTypes ==
    ASSUME TypeOK, NEW c \in Clients, Connect(c) \/ Request(c)
    PROVE  TypeOK'
<1>1. CASE \E s \in Sessions, T \in Offers, q \in Qualities : Describe(c, s, T, q)
  BY <1>1, DescribeTypes
<1>2. CASE Connect(c) \/ (\E t \in Tracks : Setup(c, t)) \/ Teardown(c) \/ Disconnect(c)
  <2>1. UNCHANGED <<streamVars, mSession, uiVars, sLock, mSessions, quality, cached,
                    mLock, modified>>
    BY <1>2 DEF Connect, Setup, Teardown, Disconnect
  <2>2. /\ worker' \in [Clients -> Points] /\ track' \in [Clients -> Tracks]
        /\ leaving' \in [Clients -> BOOLEAN]
    <3>1. /\ worker \in [Clients -> Points] /\ track \in [Clients -> Tracks]
          /\ leaving \in [Clients -> BOOLEAN]
      BY DEF TypeOK, Points
    <3>2. PICK pc \in Points : worker' = [worker EXCEPT ![c] = pc]
      BY <1>2 DEF Connect, Setup, Teardown, Disconnect, Goto, Points
    <3>3. track' \in [Clients -> Tracks]
      BY <1>2, <3>1 DEF Connect, Setup, Teardown, Disconnect, Goto
    <3>4. leaving' \in [Clients -> BOOLEAN]
      BY <1>2, <3>1 DEF Connect, Setup, Teardown, Disconnect
    <3> QED
      BY <3>1, <3>2, <3>3, <3>4
  <2> QED
    BY <2>1, <2>2 DEF TypeOK, StreamsTypeOK, streamVars, uiVars, Points
<1> QED
  BY <1>1, <1>2 DEF Request

(* MediaStream.stop keeps the types of what streams hold.                  *)
LEMMA StopStreamsTypes ==
    ASSUME StreamsTypeOK, NEW s \in Sessions, NEW T, NEW bad, StopStreams(s, T, bad)
    PROVE  /\ streaming' \in [Sessions -> SUBSET Tracks]
           /\ sockets' \in [Sessions -> SUBSET Tracks]
           /\ device' \in [Tracks -> Sessions \cup {NoSession}]
BY DEF StreamsTypeOK, StopStreams

(* So do the stop and the end of all of a session's streams. *)
LEMMA FlushStreamsTypes ==
    ASSUME StreamsTypeOK, NEW s \in Sessions, NEW bad, FlushStreams(s, bad)
    PROVE  StreamsTypeOK'
BY DEF StreamsTypeOK, FlushStreams

(* A step of a worker ends at a point of its program.                      *)
LEMMA WorkPoints ==
    ASSUME TypeOK, NEW c \in Clients, Work(c) \/ OnInfo(c)
    PROVE  worker' \in [Clients -> Points] /\ track' \in [Clients -> Tracks]
<1>1. worker \in [Clients -> Points] /\ track \in [Clients -> Tracks]
  BY DEF TypeOK, Points
<1>2. ASSUME NEW pc \in Points, Goto(c, pc) \/ Finish(c, pc)
      PROVE  worker' \in [Clients -> Points] /\ track' \in [Clients -> Tracks]
  BY <1>1, <1>2 DEF Goto, Finish, Tracks
<1>3. ASSUME NEW d \in Points, NEW st \in Points, Stage(c, d, st)
      PROVE  worker' \in [Clients -> Points] /\ track' \in [Clients -> Tracks]
  BY <1>1, <1>3 DEF Stage, Goto
<1>4. CASE DescribeAtOnce(c) \/ DescribeWithTest(c) \/ SetupAgain(c) \/ SetupStarts(c)
  BY <1>2, <1>4 DEF DescribeAtOnce, DescribeWithTest, SetupAgain, SetupStarts, Points
<1>5. CASE TestStarts(c) \/ TestCalledBack(c) \/ TestTimesOut(c) \/ TestSucceeds(c)
  BY <1>3, <1>5 DEF TestStarts, TestCalledBack, TestTimesOut, TestSucceeds, Points
<1>6. CASE TestDoesNotStart(c) \/ TestFails(c) \/ StreamStarts(c) \/ StreamDoesNotStart(c)
  BY <1>2, <1>6 DEF TestDoesNotStart, TestFails, StreamStarts, StreamDoesNotStart, Points
<1>7. CASE StopAudio(c) \/ StopVideo(c) \/ Flush(c)
  BY <1>2, <1>7 DEF StopAudio, StopVideo, StopTrack, Flush, Points
<1>8. CASE OnInfo(c)
  BY <1>1, <1>8 DEF OnInfo, workerVars
<1> QED
  BY <1>4, <1>5, <1>6, <1>7, <1>8 DEF Work

(* What a worker does with streams and recorders keeps their types.        *)
LEMMA WorkStreams ==
    ASSUME TypeOK, OwnSession, NEW c \in Clients, Work(c) \/ OnInfo(c)
    PROVE  StreamsTypeOK'
<1>1. StreamsTypeOK
  BY DEF TypeOK
<1>2. Session(c) \in Sessions \cup {NoSession}
  BY DEF TypeOK, Session
<1>3. ASSUME UNCHANGED streamVars PROVE StreamsTypeOK'
  BY <1>1, <1>3 DEF StreamsTypeOK, streamVars
<1>4. CASE DescribeAtOnce(c) \/ DescribeWithTest(c) \/ SetupAgain(c) \/ SetupStarts(c)
           \/ TestCalledBack(c) \/ TestTimesOut(c) \/ OnInfo(c)
  BY <1>3, <1>4 DEF DescribeAtOnce, DescribeWithTest, SetupAgain, SetupStarts,
     TestCalledBack, TestTimesOut, OnInfo
<1>5. ASSUME InBlock(c) PROVE Session(c) \in Sessions
  BY <1>5, BlockSession DEF Busy
<1>6. CASE TestStarts(c)
  BY <1>1, <1>5, <1>6 DEF InBlock, TestStarts, StartTest, StreamsTypeOK
<1>7. CASE TestDoesNotStart(c)
  BY <1>1, <1>5, <1>7 DEF InBlock, TestDoesNotStart, TestThrows, StreamsTypeOK
<1>8. CASE TestSucceeds(c) \/ TestFails(c)
  BY <1>1, <1>8 DEF TestSucceeds, TestFails, ReleaseTest, StreamsTypeOK
<1>9. CASE StreamStarts(c) \/ StreamDoesNotStart(c)
  <2>1. Session(c) \in Sessions /\ track[c] \in Tracks
    BY <1>5, <1>9 DEF InBlock, StreamStarts, StreamDoesNotStart, TypeOK
  <2>2. CASE StartStream(Session(c), track[c])
    BY <1>1, <2>1, <2>2 DEF StartStream, StreamsTypeOK
  <2>3. CASE StartRefused \/ StartThrows(Session(c), track[c])
    BY <1>1, <2>1, <2>3 DEF StartRefused, StartThrows, StreamsTypeOK, streamVars
  <2> QED
    BY <1>9, <2>2, <2>3 DEF StreamStarts, StreamDoesNotStart
<1>10. CASE StopAudio(c) \/ StopVideo(c) \/ Flush(c)
  <2>1. CASE Session(c) = NoSession
    BY <1>3, <1>10, <2>1 DEF StopAudio, StopVideo, StopTrack, Flush
  <2>2. CASE Session(c) # NoSession
    <3>1. CASE StopAudio(c) \/ StopVideo(c)
      <4>1. PICK T, bad : StopStreams(Session(c), T, bad)
        BY <2>2, <3>1 DEF StopAudio, StopVideo, StopTrack
      <4>2. UNCHANGED tracks
        BY <2>2, <3>1 DEF StopAudio, StopVideo, StopTrack
      <4> QED
        BY <1>1, <1>2, <2>2, <4>1, <4>2, StopStreamsTypes DEF StreamsTypeOK
    <3>2. CASE Flush(c)
      <4>1. PICK bad : FlushStreams(Session(c), bad)
        BY <2>2, <3>2 DEF Flush
      <4> QED
        BY <1>1, <1>2, <2>2, <4>1, FlushStreamsTypes
    <3> QED
      BY <1>10, <3>1, <3>2
  <2> QED
    BY <2>1, <2>2
<1> QED
  BY <1>4, <1>6, <1>7, <1>8, <1>9, <1>10 DEF Work

(* A step of a worker, and a callback for it, keep the types.              *)
LEMMA WorkTypes ==
    ASSUME TypeOK, OwnSession, NEW c \in Clients, Work(c) \/ OnInfo(c)
    PROVE  TypeOK'
<1>1. sLock' \in Clients \cup {NoThread}
  BY DEF TypeOK, Work, DescribeAtOnce, DescribeWithTest, SetupAgain, SetupStarts,
     TestStarts, TestDoesNotStart, TestCalledBack, TestTimesOut, TestSucceeds,
     TestFails, StreamStarts, StreamDoesNotStart, StopAudio, StopVideo, StopTrack,
     Flush, OnInfo
<1>2. /\ leaving' \in [Clients -> BOOLEAN]
      /\ mSession' \in [Clients -> Sessions \cup {NoSession}]
  BY DEF TypeOK, Work, DescribeAtOnce, DescribeWithTest, SetupAgain, SetupStarts,
     TestStarts, TestDoesNotStart, TestCalledBack, TestTimesOut, TestSucceeds,
     TestFails, StreamStarts, StreamDoesNotStart, StopAudio, StopVideo, StopTrack,
     Flush, OnInfo, workerVars
<1>3. UNCHANGED <<uiVars, mSessions, quality, modified>>
  BY DEF Work, DescribeAtOnce, DescribeWithTest, SetupAgain, SetupStarts,
     TestStarts, TestDoesNotStart, TestCalledBack, TestTimesOut, TestSucceeds,
     TestFails, StreamStarts, StreamDoesNotStart, StopAudio, StopVideo, StopTrack,
     Flush, OnInfo
<1>4. cached' \subseteq Qualities /\ mLock' \in [Sessions -> 0 .. MaxPermits]
  <2>0. /\ cached \subseteq Qualities /\ quality \in [Sessions -> Qualities]
        /\ mLock \in [Sessions -> 0 .. MaxPermits]
        /\ MaxPermits \in Nat
    BY MaxPermitsAssumption DEF TypeOK
  <2>1. CASE TestSucceeds(c)
    <3>1. Session(c) \in Sessions
      BY <2>1, BlockSession DEF TestSucceeds, Busy, InBlock
    <3>2. /\ cached' = cached \cup {quality[Session(c)]}
          /\ mLock' = [mLock EXCEPT ![Session(c)] = 0]
      BY <2>1 DEF TestSucceeds
    <3> QED
      BY <2>0, <3>1, <3>2
  <2>2. CASE TestCalledBack(c)
    <3>1. /\ mLock[Session(c)] > 0 /\ UNCHANGED cached
          /\ mLock' = [mLock EXCEPT ![Session(c)] = mLock[Session(c)] - 1]
      BY <2>2 DEF TestCalledBack
    <3>2. Session(c) \in Sessions
      BY <2>2, BlockSession DEF TestCalledBack, Busy, InBlock
    <3>3. mLock[Session(c)] - 1 \in 0 .. MaxPermits
      BY <2>0, <3>1, <3>2
    <3> QED
      BY <2>0, <3>1, <3>3
  <2>3. CASE OnInfo(c)
    <3>1. /\ mLock[Session(c)] < MaxPermits /\ UNCHANGED cached
          /\ mLock' = [mLock EXCEPT ![Session(c)] = mLock[Session(c)] + 1]
      BY <2>3 DEF OnInfo
    <3>2. Session(c) \in Sessions
      BY <2>3, BlockSession DEF OnInfo, Busy, InBlock
    <3>3. mLock[Session(c)] + 1 \in 0 .. MaxPermits
      BY <2>0, <3>1, <3>2
    <3> QED
      BY <2>0, <3>1, <3>3
  <2>4. CASE UNCHANGED <<cached, mLock>>
    BY <2>4 DEF TypeOK
  <2> QED
    BY <2>1, <2>2, <2>3, <2>4
    DEF Work, DescribeAtOnce, DescribeWithTest, SetupAgain, SetupStarts,
        TestStarts, TestDoesNotStart, TestTimesOut, TestFails, StreamStarts,
        StreamDoesNotStart, StopAudio, StopVideo, StopTrack, Flush
<1> QED
  BY <1>1, <1>2, <1>3, <1>4, WorkPoints, WorkStreams DEF TypeOK, Points, uiVars

(* isStreaming() changes nothing but where stop() is. *)
LEMMA AskFrame ==
    ASSUME Ask
    PROVE  /\ UNCHANGED <<streamVars, workerVars, toVisit, visited, listening, sLock,
                          mSessions, quality, cached, mLock, modified>>
           /\ ui' \in {"ask video", "visit", "stop audio", "thrown"}
BY DEF Ask, AskAudio, AskVideo, AskTrack, ReadVideo

(* Starting and stopping the server keep the types.                        *)
LEMMA OtherTypes ==
    ASSUME TypeOK, StartServer \/ StopServer \/ Stopping
    PROVE  TypeOK'
<1> USE DEF TypeOK
<1>1. CASE StartServer \/ StopServer \/ EndStop
  BY <1>1 DEF StartServer, StopServer, EndStop, StreamsTypeOK, streamVars, workerVars
<1>2. CASE \E s \in Sessions : VisitSession(s)
  BY <1>2 DEF VisitSession, ReadAudio, ReadVideo, StreamsTypeOK, streamVars, workerVars
<1>3. CASE StopVisitedAudio \/ StopVisitedVideo
  <2>1. PICK T, bad : StopStreams(visited, T, bad)
    BY <1>3 DEF StopVisitedAudio, StopVisitedVideo, StopVisited
  <2>2. StreamsTypeOK'
    BY <1>3, <2>1 DEF StopVisitedAudio, StopVisitedVideo, StopVisited, StopStreams,
       StreamsTypeOK
  <2> QED
    BY <1>3, <2>2 DEF StopVisitedAudio, StopVisitedVideo, StopVisited, workerVars
<1>4. CASE Ask
  BY <1>4, AskFrame DEF StreamsTypeOK, streamVars, workerVars
<1> QED
  BY <1>1, <1>2, <1>3, <1>4 DEF Stopping

(* The collector keeps the types.                                          *)
LEMMA CollectorTypes ==
    ASSUME TypeOK, NEW s \in Sessions,
           Collect(s) \/ \E t \in Tracks : CollectRecorder(s, t)
    PROVE  TypeOK'
<1>1. CASE Collect(s)
  <2>1. StreamsTypeOK'
    BY <1>1 DEF Collect, FinalizeSession, TypeOK, StreamsTypeOK
  <2>2. /\ mLock' \in [Sessions -> 0 .. MaxPermits]
        /\ quality' \in [Sessions -> Qualities]
    <3>1. 0 \in 0 .. MaxPermits
      BY MaxPermitsAssumption
    <3> QED
      BY <1>1, <3>1, QualityIsOne DEF Collect, TypeOK
  <2> QED
    BY <1>1, <2>1, <2>2 DEF Collect, TypeOK, workerVars
<1>2. CASE \E t \in Tracks : CollectRecorder(s, t)
  <2>0. PICK t \in Tracks : FinalizeRecorder(s, t)
    BY <1>2 DEF CollectRecorder
  <2>1. StreamsTypeOK'
    BY <2>0 DEF FinalizeRecorder, TypeOK, StreamsTypeOK
  <2> QED
    BY <1>2, <2>1 DEF CollectRecorder, TypeOK, workerVars, uiVars
<1> QED
  BY <1>1, <1>2

-----------------------------------------------------------------------------
(* The lock.                                                               *)

(* A worker's step leaves the other workers alone. *)
LEMMA OthersStay ==
    ASSUME TypeOK, NEW c \in Clients, Connect(c) \/ Request(c) \/ Work(c) \/ OnInfo(c),
           NEW d \in Clients, d # c
    PROVE  worker'[d] = worker[d] /\ mSession'[d] = mSession[d] /\ track'[d] = track[d]
<1>1. CASE Connect(c) \/ Request(c)
  BY <1>1 DEF TypeOK, Connect, Request, Describe, Setup, Teardown, Disconnect, Goto
<1>2. CASE Work(c) \/ OnInfo(c)
  <2> USE DEF TypeOK, Goto, Finish, Stage, workerVars
  <2>1. CASE DescribeAtOnce(c) \/ DescribeWithTest(c) \/ SetupAgain(c) \/ SetupStarts(c)
             \/ OnInfo(c)
    BY <2>1 DEF DescribeAtOnce, DescribeWithTest, SetupAgain, SetupStarts, OnInfo
  <2>2. CASE TestStarts(c) \/ TestCalledBack(c) \/ TestTimesOut(c) \/ TestSucceeds(c)
    BY <2>2 DEF TestStarts, TestCalledBack, TestTimesOut, TestSucceeds
  <2>3. CASE TestDoesNotStart(c) \/ TestFails(c) \/ StreamStarts(c) \/ StreamDoesNotStart(c)
    BY <2>3 DEF TestDoesNotStart, TestFails, StreamStarts, StreamDoesNotStart
  <2>4. CASE StopAudio(c) \/ StopVideo(c) \/ Flush(c)
    BY <2>4 DEF StopAudio, StopVideo, StopTrack, Flush
  <2> QED
    BY <1>2, <2>1, <2>2, <2>3, <2>4 DEF Work
<1> QED
  BY <1>1, <1>2

(* A worker enters its block when sLock is free, and takes it; it leaves   *)
(* the block and gives sLock back; or neither changes.                     *)
Enters(c) == sLock = NoThread /\ sLock' = c /\ ~InBlock(c) /\ InBlock(c)'
Leaves(c) == sLock' = NoThread /\ InBlock(c) /\ ~InBlock(c)'
Remains(c) == sLock' = sLock /\ InBlock(c)' = InBlock(c)

(* Every step of a worker does one of the three.                           *)
LEMMA LockMoves ==
    ASSUME TypeOK, NEW c \in Clients, Connect(c) \/ Request(c) \/ Work(c) \/ OnInfo(c)
    PROVE  Enters(c) \/ Leaves(c) \/ Remains(c)
<1> USE DEF TypeOK, InBlock, Testing, Recording, Recorded, Goto, Finish, Stage, workerVars,
    Enters, Leaves, Remains
<1>1. CASE Connect(c) \/ Teardown(c) \/ Disconnect(c)
  BY <1>1 DEF Connect, Teardown, Disconnect
<1>2. CASE \E s \in Sessions, T \in Offers, q \in Qualities : Describe(c, s, T, q)
  BY <1>2 DEF Describe
<1>3. CASE \E t \in Tracks : Setup(c, t)
  BY <1>3 DEF Setup
<1>4. CASE DescribeAtOnce(c) \/ SetupAgain(c) \/ OnInfo(c)
  BY <1>4 DEF DescribeAtOnce, SetupAgain, OnInfo
<1>5. CASE DescribeWithTest(c) \/ SetupStarts(c)
  BY <1>5 DEF DescribeWithTest, SetupStarts
<1>6. CASE TestStarts(c) \/ TestCalledBack(c) \/ TestTimesOut(c)
  BY <1>6 DEF TestStarts, TestCalledBack, TestTimesOut
<1>7. CASE TestSucceeds(c)
  BY <1>7 DEF TestSucceeds
<1>8. CASE TestDoesNotStart(c) \/ TestFails(c) \/ StreamStarts(c) \/ StreamDoesNotStart(c)
  BY <1>8 DEF TestDoesNotStart, TestFails, StreamStarts, StreamDoesNotStart
<1>9. CASE StopAudio(c) \/ StopVideo(c) \/ Flush(c)
  BY <1>9 DEF StopAudio, StopVideo, StopTrack, Flush
<1> QED
  BY <1>1, <1>2, <1>3, <1>4, <1>5, <1>6, <1>7, <1>8, <1>9 DEF Request, Work

(* The workers keep LockHeld.                                              *)
LEMMA WorkerKeepsLock ==
    ASSUME TypeOK, LockHeld, NEW c \in Clients,
           Connect(c) \/ Request(c) \/ Work(c) \/ OnInfo(c)
    PROVE  LockHeld'
<1>1. \A d \in Clients : d # c => InBlock(d)' = InBlock(d)
  BY OthersStay DEF InBlock, Testing, Recording, Recorded
<1> QED
  BY <1>1, LockMoves, ThreadsAssumption DEF LockHeld, Enters, Leaves, Remains

(* The steps of the UI thread and of the collector. *)
Elsewhere ==
    \/ StartServer \/ StopServer \/ Stopping
    \/ \E s \in Sessions : Collect(s) \/ \E t \in Tracks : CollectRecorder(s, t)

(* They touch neither the workers nor sLock.                               *)
LEMMA ElsewhereFrame ==
    ASSUME Elsewhere
    PROVE  UNCHANGED <<workerVars, sLock>>
BY AskFrame DEF Elsewhere, Stopping, StartServer, StopServer, VisitSession, StopVisitedAudio,
   StopVisitedVideo, StopVisited, EndStop, Collect, CollectRecorder

(* Every step is one of a worker or one of those.                          *)
LEMMA NextCases ==
    ASSUME Next
    PROVE  Elsewhere \/ \E c \in Clients : Connect(c) \/ Request(c) \/ Work(c) \/ OnInfo(c)
BY DEF Next, Elsewhere

-----------------------------------------------------------------------------
(* The sessions.                                                           *)

(* A worker keeps its session, except when it gets one nobody uses or ends. *)
LEMMA SessionMoves ==
    ASSUME TypeOK, OwnSession, NEW c \in Clients,
           Connect(c) \/ Request(c) \/ Work(c) \/ OnInfo(c)
    PROVE  /\ \/ mSession'[c] = mSession[c] /\ mSessions' = mSessions
              \/ \E s \in Sessions \ mSessions :
                     mSession'[c] = s /\ mSessions' = mSessions \cup {s}
              \/ mSession'[c] = NoSession /\ mSessions' = mSessions /\ ~Busy(c)'
           /\ Busy(c)' => mSession'[c] # NoSession
<1> USE DEF TypeOK, OwnSession, Session, Busy, InBlock, Testing, Recording, Recorded,
    Goto, Finish, Stage, workerVars
<1>1. CASE Connect(c) \/ Teardown(c) \/ Disconnect(c)
  BY <1>1 DEF Connect, Teardown, Disconnect
<1>2. CASE \E s \in Sessions, T \in Offers, q \in Qualities : Describe(c, s, T, q)
  <2>1. PICK s \in Sessions \ mSessions :
            mSession' = [mSession EXCEPT ![c] = s] /\ mSessions' = mSessions \cup {s}
    BY <1>2 DEF Describe
  <2> QED
    BY <2>1, NoSessionAssumption
<1>3. CASE \E t \in Tracks : Setup(c, t)
  BY <1>3 DEF Setup
<1>4. CASE DescribeAtOnce(c) \/ SetupAgain(c) \/ OnInfo(c) \/ DescribeWithTest(c)
           \/ SetupStarts(c)
  BY <1>4 DEF DescribeAtOnce, SetupAgain, OnInfo, DescribeWithTest, SetupStarts
<1>5. CASE TestStarts(c) \/ TestCalledBack(c) \/ TestTimesOut(c) \/ TestSucceeds(c)
  BY <1>5 DEF TestStarts, TestCalledBack, TestTimesOut, TestSucceeds
<1>6. CASE TestDoesNotStart(c) \/ TestFails(c) \/ StreamStarts(c) \/ StreamDoesNotStart(c)
  BY <1>6 DEF TestDoesNotStart, TestFails, StreamStarts, StreamDoesNotStart
<1>7. CASE StopAudio(c) \/ StopVideo(c)
  BY <1>7 DEF StopAudio, StopVideo, StopTrack
<1>8. CASE Flush(c)
  BY <1>8 DEF Flush
<1> QED
  BY <1>1, <1>2, <1>3, <1>4, <1>5, <1>6, <1>7, <1>8 DEF Request, Work

(* The workers keep OwnSession.                                            *)
LEMMA WorkerKeepsSessions ==
    ASSUME TypeOK, OwnSession, NEW c \in Clients,
           Connect(c) \/ Request(c) \/ Work(c) \/ OnInfo(c)
    PROVE  OwnSession'
<1>1. \A d \in Clients : d # c => mSession'[d] = mSession[d] /\ Busy(d)' = Busy(d)
  BY OthersStay DEF Busy, InBlock, Testing, Recording, Recorded
<1>2. mSessions \subseteq mSessions'
  BY SessionMoves
<1>3. \A d \in Clients : mSession'[d] \in mSessions' \cup {NoSession}
  BY <1>1, <1>2, SessionMoves DEF OwnSession, Session
<1>4. \A d \in Clients : d # c /\ mSession'[d] = mSession'[c] => mSession'[c] = NoSession
  BY <1>1, SessionMoves, NoSessionAssumption DEF OwnSession, Session
<1>5. \A d \in Clients : Busy(d)' => mSession'[d] # NoSession
  BY <1>1, SessionMoves DEF OwnSession, Session
<1> QED
  BY <1>1, <1>3, <1>4, <1>5 DEF OwnSession, Session

(* UI thread and collector keep OwnSession: a session in use stays known.  *)
LEMMA ElsewhereKeepsSessions ==
    ASSUME TypeOK, OwnSession, Elsewhere
    PROVE  OwnSession'
<1>1. UNCHANGED workerVars
  BY ElsewhereFrame
<1>2. \A c \in Clients : mSession[c] \in mSessions' \cup {NoSession}
  <2>1. CASE mSessions' = mSessions
    BY <2>1 DEF OwnSession, Session
  <2>2. CASE \E s \in Sessions : Collect(s)
    BY <2>2 DEF Collect, OwnSession, Session
  <2> QED
    BY <2>1, <2>2, AskFrame DEF Elsewhere, Stopping, StartServer, StopServer, VisitSession,
       StopVisitedAudio, StopVisitedVideo, StopVisited, EndStop, CollectRecorder
<1> QED
  BY <1>1, <1>2 DEF OwnSession, Session, workerVars, Busy, InBlock, Testing, Recording,
     Recorded

-----------------------------------------------------------------------------
(* The tracks.                                                             *)

(* The tracks of a session in use change only when its worker flushes it. *)
LEMMA TracksMove ==
    ASSUME TypeOK, NEW c \in Clients, Connect(c) \/ Request(c) \/ Work(c) \/ OnInfo(c),
           NEW s \in mSessions
    PROVE  tracks'[s] = tracks[s] \/ (worker[c] = "flush" /\ s = Session(c))
<1> USE DEF TypeOK, StreamsTypeOK, streamVars
<1>1. CASE Flush(c)
  BY <1>1 DEF Flush, FlushStreams
<1>2. CASE \E r \in Sessions, T \in Offers, q \in Qualities : Describe(c, r, T, q)
  BY <1>2 DEF Describe
<1>3. CASE UNCHANGED tracks
  BY <1>3
<1>4. CASE Connect(c) \/ Request(c) \/ OnInfo(c)
  BY <1>2, <1>3, <1>4 DEF Connect, Request, Setup, Teardown, Disconnect, OnInfo
<1>5. CASE Work(c)
  BY <1>1, <1>3, <1>5
  DEF Work, DescribeAtOnce, DescribeWithTest, SetupAgain, SetupStarts, TestStarts,
      StartTest, TestDoesNotStart, TestThrows, TestCalledBack, TestTimesOut,
      TestSucceeds, TestFails, ReleaseTest, StreamStarts, StartStream,
      StreamDoesNotStart, StartRefused, StartThrows, StopAudio, StopVideo, StopTrack
<1> QED
  BY <1>4, <1>5

(* A worker that is starting a track was, or just got a SETUP of a track   *)
(* its session has.                                                        *)
LEMMA StartsMoves ==
    ASSUME TypeOK, NEW c \in Clients, Connect(c) \/ Request(c) \/ Work(c) \/ OnInfo(c),
           Starts(c)'
    PROVE  /\ UNCHANGED <<tracks, mSession>>
           /\ \/ Starts(c) /\ track'[c] = track[c]
              \/ Session(c) # NoSession /\ track'[c] \in tracks[Session(c)]
<1> USE DEF TypeOK, Starts, Goto, Finish, Stage, workerVars, streamVars
<1>1. CASE Connect(c) \/ Teardown(c) \/ Disconnect(c)
  BY <1>1 DEF Connect, Teardown, Disconnect
<1>2. CASE \E s \in Sessions, T \in Offers, q \in Qualities : Describe(c, s, T, q)
  BY <1>2 DEF Describe
<1>3. CASE \E t \in Tracks : Setup(c, t)
  BY <1>3 DEF Setup
<1>4. CASE DescribeAtOnce(c) \/ SetupAgain(c) \/ OnInfo(c) \/ DescribeWithTest(c)
           \/ SetupStarts(c)
  BY <1>4 DEF DescribeAtOnce, SetupAgain, OnInfo, DescribeWithTest, SetupStarts,
     Recording, Recorded
<1>5. CASE TestStarts(c) \/ TestCalledBack(c) \/ TestTimesOut(c) \/ TestSucceeds(c)
  BY <1>5 DEF TestStarts, StartTest, TestCalledBack, TestTimesOut, TestSucceeds,
     ReleaseTest, Testing, Recording, Recorded
<1>6. CASE TestDoesNotStart(c) \/ TestFails(c) \/ StreamStarts(c) \/ StreamDoesNotStart(c)
  BY <1>6 DEF TestDoesNotStart, TestFails, StreamStarts, StreamDoesNotStart
<1>7. CASE StopAudio(c) \/ StopVideo(c)
  BY <1>7 DEF StopAudio, StopVideo, StopTrack
<1>8. CASE Flush(c)
  BY <1>8 DEF Flush
<1> QED
  BY <1>1, <1>2, <1>3, <1>4, <1>5, <1>6, <1>7, <1>8 DEF Request, Work

(* A worker that starts a track works on a request.                        *)
LEMMA StartsIsBusy == \A c \in Clients : Starts(c) => Busy(c)
BY DEF Starts, Busy, InBlock, Testing, Recording, Recorded

(* The workers keep SetupTrack.                                            *)
LEMMA WorkerKeepsTracks ==
    ASSUME TypeOK, OwnSession, SetupTrack, NEW c \in Clients,
           Connect(c) \/ Request(c) \/ Work(c) \/ OnInfo(c)
    PROVE  SetupTrack'
<1> SUFFICES ASSUME NEW d \in Clients, Starts(d)'
             PROVE  track'[d] \in tracks'[mSession'[d]]
  BY DEF SetupTrack, Session
<1>1. CASE d = c
  BY <1>1, StartsMoves DEF SetupTrack, Session
<1>2. CASE d # c
  <2>1. Starts(d) /\ track'[d] = track[d] /\ mSession'[d] = mSession[d]
    BY <1>2, OthersStay DEF Starts
  <2>2. Session(d) \in mSessions /\ Session(d) # Session(c)
    BY <1>2, <2>1, StartsIsBusy DEF OwnSession
  <2>3. tracks'[Session(d)] = tracks[Session(d)]
    BY <2>2, TracksMove
  <2> QED
    BY <2>1, <2>3 DEF SetupTrack, Session
<1> QED
  BY <1>1, <1>2

(* UI thread and collector keep SetupTrack.                                *)
LEMMA ElsewhereKeepsTracks ==
    ASSUME TypeOK, OwnSession, SetupTrack, Elsewhere
    PROVE  SetupTrack'
<1>1. UNCHANGED workerVars
  BY ElsewhereFrame
<1>2. ASSUME NEW c \in Clients, Starts(c)
      PROVE  tracks'[Session(c)] = tracks[Session(c)]
  <2>1. Session(c) \in Sessions
    BY <1>2, StartsIsBusy, BlockSession
  <2>2. CASE UNCHANGED tracks
    BY <2>2
  <2>3. CASE \E s \in Sessions : Collect(s)
    BY <2>1, <2>3 DEF Collect, FinalizeSession, TypeOK, StreamsTypeOK
  <2> QED
    BY <2>2, <2>3, AskFrame
    DEF Elsewhere, Stopping, StartServer, StopServer, VisitSession, StopVisitedAudio,
        StopVisitedVideo, StopVisited, EndStop, CollectRecorder, FinalizeRecorder,
        streamVars
<1> QED
  BY <1>1, <1>2 DEF SetupTrack, Session, workerVars, Starts

-----------------------------------------------------------------------------
(* What the streams hold.                                                  *)

Records(c) == Recording(c) \/ Recorded(c)

(* RunningHoldsDevice and TestAlone, by streams and by workers. *)
StreamsHold == \A s \in Sessions : \A t \in streaming[s] :
                   t \in tracks[s] /\ t \in sockets[s] /\ device[t] = s
TestHolds(c) == Records(c) => /\ device["video"] = Session(c)
                              /\ "video" \notin streaming[Session(c)]

(* They say the same.                                                      *)
LEMMA HoldingIsBoth ==
    RunningHoldsDevice /\ TestAlone <=> StreamsHold /\ \A c \in Clients : TestHolds(c)
BY DEF RunningHoldsDevice, TestAlone, StreamsHold, TestHolds, Records

(* A worker in its block is the only one that records; while sLock is free *)
(* none does.                                                              *)
LEMMA OthersDoNotRecord ==
    ASSUME TypeOK, LockHeld, NEW c \in Clients, InBlock(c) \/ sLock = NoThread,
           Connect(c) \/ Request(c) \/ Work(c) \/ OnInfo(c)
    PROVE  \A d \in Clients \ {c} : ~Records(d) /\ ~Records(d)'
BY OthersStay, ThreadsAssumption DEF LockHeld, InBlock, Records, Recording, Recorded

(* Stopping streams leaves the others what they hold. *)
LEMMA StopHolds ==
    ASSUME TypeOK, StreamsHold, NEW s \in Sessions, NEW T, NEW bad,
           StopStreams(s, T, bad)
    PROVE  \A r \in Sessions : \A t \in streaming'[r] :
               /\ t \in streaming[r] /\ t \in sockets'[r] /\ device'[t] = r
               /\ r = s => t \notin T
<1> TAKE r \in Sessions
<1> TAKE t \in streaming'[r]
<1>1. t \in streaming[r] /\ (r = s => t \notin T)
  BY DEF StopStreams, TypeOK, StreamsTypeOK
<1>2. t \in Tracks /\ t \in sockets[r] /\ device[t] = r
  BY <1>1 DEF StreamsHold, TypeOK, StreamsTypeOK
<1>3. t \in sockets'[r]
  BY <1>1, <1>2 DEF StopStreams, TypeOK, StreamsTypeOK
<1>4. device'[t] = r
  <2>1. ~(t \in streaming[s] \cap T)
    BY <1>1, <1>2 DEF StreamsHold
  <2> QED
    BY <1>2, <2>1 DEF StopStreams
<1> QED
  BY <1>1, <1>3, <1>4

(* Steps of a worker that start or stop nothing. *)
LEMMA QuietKeepsHolding ==
    ASSUME TypeOK, Unused, StreamsHold, NEW c \in Clients, TestHolds(c),
           Connect(c) \/ Request(c) \/ OnInfo(c) \/ DescribeAtOnce(c)
           \/ DescribeWithTest(c) \/ SetupAgain(c) \/ SetupStarts(c)
           \/ TestCalledBack(c) \/ TestTimesOut(c)
    PROVE  StreamsHold' /\ TestHolds(c)' /\ UNCHANGED <<streaming, device>>
<1>1. UNCHANGED <<streaming, sockets, device>>
  BY DEF Connect, Request, Describe, Setup, Teardown, Disconnect, OnInfo, DescribeAtOnce,
     DescribeWithTest, SetupAgain, SetupStarts, TestCalledBack, TestTimesOut, streamVars
<1>2. \A s \in Sessions : streaming[s] # {} => tracks'[s] = tracks[s]
  BY TracksMove DEF Connect, Request, Describe, Setup, Teardown, Disconnect, OnInfo,
     DescribeAtOnce, DescribeWithTest, SetupAgain, SetupStarts, TestCalledBack,
     TestTimesOut, streamVars, Unused, TypeOK, StreamsTypeOK
<1>3. StreamsHold'
  BY <1>1, <1>2 DEF StreamsHold
<1>4. Records(c)' => Records(c) /\ mSession'[c] = mSession[c]
  <2> USE DEF Records, Recording, Recorded, TypeOK, Goto, Finish, Stage, workerVars
  <2>1. CASE Connect(c) \/ Request(c) \/ OnInfo(c)
    BY <2>1 DEF Connect, Request, Describe, Setup, Teardown, Disconnect, OnInfo
  <2>2. CASE DescribeAtOnce(c) \/ DescribeWithTest(c) \/ SetupAgain(c) \/ SetupStarts(c)
    BY <2>2 DEF DescribeAtOnce, DescribeWithTest, SetupAgain, SetupStarts
  <2>3. CASE TestCalledBack(c) \/ TestTimesOut(c)
    BY <2>3 DEF TestCalledBack, TestTimesOut
  <2> QED
    BY <2>1, <2>2, <2>3
<1> QED
  BY <1>1, <1>3, <1>4 DEF TestHolds, Session

(* Steps of a worker in its block, with its recorder or its stream. *)
LEMMA BlockKeepsHolding ==
    ASSUME TypeOK, OwnSession, SetupTrack, StreamsHold, NEW c \in Clients, TestHolds(c),
           TestStarts(c) \/ TestDoesNotStart(c) \/ TestSucceeds(c) \/ TestFails(c)
           \/ StreamStarts(c) \/ StreamDoesNotStart(c)
    PROVE  StreamsHold' /\ TestHolds(c)'
<1>1. InBlock(c)
  BY DEF InBlock, TestStarts, TestDoesNotStart, TestSucceeds, TestFails, StreamStarts,
     StreamDoesNotStart
<1>2. Session(c) \in Sessions
  BY <1>1, BlockSession DEF Busy
<1>3. \A t \in Tracks : IsFree(t) => \A s \in Sessions : t \notin streaming[s]
  BY NoSessionAssumption DEF IsFree, StreamsHold
<1>4. \A s \in Sessions : streaming[s] \subseteq Tracks
  BY DEF TypeOK, StreamsTypeOK
<1>5. CASE TestStarts(c)
  <2>1. /\ IsFree("video") /\ UNCHANGED <<tracks, streaming, sockets, mSession>>
        /\ device' = [device EXCEPT !["video"] = Session(c)]
    BY <1>5 DEF TestStarts, StartTest
  <2>2. "video" \in Tracks /\ device \in [Tracks -> Sessions \cup {NoSession}]
    BY DEF Tracks, TypeOK, StreamsTypeOK
  <2>3. StreamsHold'
    BY <1>3, <1>4, <2>1, <2>2 DEF StreamsHold
  <2> QED
    BY <1>2, <1>3, <2>1, <2>2, <2>3 DEF TestHolds, Session
<1>6. CASE TestDoesNotStart(c)
  <2>1. UNCHANGED <<tracks, streaming, sockets>>
    BY <1>6 DEF TestDoesNotStart, TestThrows
  <2>2. \/ UNCHANGED device
        \/ IsFree("video") /\ device' = [device EXCEPT !["video"] = Session(c)]
    BY <1>6 DEF TestDoesNotStart, TestThrows
  <2>3. "video" \in Tracks /\ device \in [Tracks -> Sessions \cup {NoSession}]
    BY DEF Tracks, TypeOK, StreamsTypeOK
  <2>4. StreamsHold'
    BY <1>3, <1>4, <2>1, <2>2, <2>3 DEF StreamsHold
  <2>5. ~Records(c)'
    BY <1>6 DEF TestDoesNotStart, Finish, TypeOK, Records, Recording, Recorded
  <2> QED
    BY <2>4, <2>5 DEF TestHolds
<1>7. CASE TestSucceeds(c) \/ TestFails(c)
  <2>1. Records(c)
    BY <1>7 DEF TestSucceeds, TestFails, Records
  <2>2. /\ UNCHANGED <<tracks, streaming, sockets>>
        /\ device' = [device EXCEPT !["video"] = NoSession]
    BY <1>7 DEF TestSucceeds, TestFails, ReleaseTest
  <2>3. \A s \in Sessions : "video" \notin streaming[s]
    BY <2>1 DEF TestHolds, StreamsHold
  <2>4. device \in [Tracks -> Sessions \cup {NoSession}]
    BY DEF TypeOK, StreamsTypeOK
  <2>5. StreamsHold'
    BY <1>4, <2>2, <2>3, <2>4 DEF StreamsHold
  <2>6. ~Records(c)'
    BY <1>7 DEF TestSucceeds, TestFails, Stage, Goto, Finish, TypeOK, Records, Recording,
       Recorded
  <2> QED
    BY <2>5, <2>6 DEF TestHolds
<1>8. CASE StreamStarts(c) \/ StreamDoesNotStart(c)
  <2>1. track[c] \in tracks[Session(c)] /\ track[c] \in Tracks
    BY <1>8 DEF StreamStarts, StreamDoesNotStart, SetupTrack, Starts, TypeOK
  <2>2. StreamsHold'
    <3>1. CASE StartStream(Session(c), track[c])
      <4>1. \A r \in Sessions : \A t \in streaming'[r] :
                t \in streaming[r] \/ (r = Session(c) /\ t = track[c])
        BY <1>2, <3>1 DEF StartStream, TypeOK, StreamsTypeOK
      <4>2. \A r \in Sessions, t \in Tracks :
                /\ t \in sockets[r] => t \in sockets'[r]
                /\ t # track[c] => device'[t] = device[t]
        BY <1>2, <2>1, <3>1 DEF StartStream, TypeOK, StreamsTypeOK
      <4>3. track[c] \in sockets'[Session(c)] /\ device'[track[c]] = Session(c)
        BY <1>2, <2>1, <3>1 DEF StartStream, TypeOK, StreamsTypeOK
      <4>4. \A r \in Sessions : \A t \in streaming[r] :
                t \in Tracks /\ t # track[c]
        BY <1>3, <1>4, <2>1, <3>1 DEF StartStream
      <4> QED
        BY <2>1, <3>1, <4>1, <4>2, <4>3, <4>4 DEF StartStream, StreamsHold
    <3>2. CASE StartRefused
      BY <3>2 DEF StartRefused, StreamsHold, streamVars
    <3>3. CASE StartThrows(Session(c), track[c])
      <4>1. UNCHANGED <<tracks, streaming>>
        BY <3>3 DEF StartThrows
      <4>2. \A r \in Sessions, t \in Tracks : t \in sockets[r] => t \in sockets'[r]
        BY <1>2, <2>1, <3>3 DEF StartThrows, TypeOK, StreamsTypeOK
      <4>3. \A t \in Tracks : ~IsFree(t) => device'[t] = device[t]
        BY <2>1, <3>3 DEF StartThrows, TypeOK, StreamsTypeOK
      <4> QED
        BY <1>3, <1>4, <4>1, <4>2, <4>3 DEF StreamsHold
    <3> QED
      BY <1>8, <3>1, <3>2, <3>3 DEF StreamStarts, StreamDoesNotStart
  <2>3. ~Records(c)'
    BY <1>8 DEF StreamStarts, StreamDoesNotStart, Finish, TypeOK, Records, Recording,
       Recorded
  <2> QED
    BY <2>2, <2>3 DEF TestHolds
<1> QED
  BY <1>5, <1>6, <1>7, <1>8

(* Steps of a worker that stop the streams of its session. *)
LEMMA StoppingKeepsHolding ==
    ASSUME TypeOK, StreamsHold, NEW c \in Clients,
           StopAudio(c) \/ StopVideo(c) \/ Flush(c)
    PROVE  StreamsHold' /\ TestHolds(c)'
<1>1. ~Records(c)'
  BY DEF StopAudio, StopVideo, StopTrack, Flush, Goto, Finish, TypeOK, Records, Recording,
     Recorded
<1> SUFFICES StreamsHold'
  BY <1>1 DEF TestHolds
<1>2. CASE Session(c) = NoSession
  BY <1>2 DEF StopAudio, StopVideo, StopTrack, Flush, streamVars, StreamsHold
<1>3. CASE Session(c) # NoSession
  <2>1. Session(c) \in Sessions
    BY <1>3 DEF TypeOK, Session
  <2>2. CASE StopAudio(c) \/ StopVideo(c)
    <3>1. PICK T, bad : StopStreams(Session(c), T, bad) /\ UNCHANGED tracks
      BY <1>3, <2>2 DEF StopAudio, StopVideo, StopTrack
    <3> QED
      BY <2>1, <3>1, StopHolds DEF StreamsHold
  <2>3. CASE Flush(c)
    <3>1. PICK bad : FlushStreams(Session(c), bad)
      BY <1>3, <2>3 DEF Flush
    <3>2. ASSUME NEW r \in Sessions, NEW t \in streaming'[r]
          PROVE  t \in tracks'[r] /\ t \in sockets'[r] /\ device'[t] = r
      <4>1. r # Session(c) /\ t \in streaming[r]
        BY <2>1, <3>1, <3>2 DEF FlushStreams, TypeOK, StreamsTypeOK
      <4>2. t \in Tracks /\ t \in tracks[r] /\ t \in sockets[r] /\ device[t] = r
        BY <4>1 DEF StreamsHold, TypeOK, StreamsTypeOK
      <4>3. t \notin streaming[Session(c)]
        BY <2>1, <4>1, <4>2 DEF StreamsHold
      <4> QED
        BY <2>1, <3>1, <4>1, <4>2, <4>3 DEF FlushStreams, TypeOK, StreamsTypeOK
    <3> QED
      BY <3>2 DEF StreamsHold
  <2> QED
    BY <2>2, <2>3
<1> QED
  BY <1>2, <1>3

(* The workers keep what streams and recorders hold.                       *)
LEMMA WorkerKeepsHolding ==
    ASSUME TypeOK, LockHeld, OwnSession, SetupTrack, Unused, RunningHoldsDevice, TestAlone,
           NEW c \in Clients, Connect(c) \/ Request(c) \/ Work(c) \/ OnInfo(c)
    PROVE  RunningHoldsDevice' /\ TestAlone'
<1>1. StreamsHold /\ \A d \in Clients : TestHolds(d)
  BY HoldingIsBoth
<1>2. StreamsHold' /\ \A d \in Clients : TestHolds(d)'
  <2>1. CASE \/ Connect(c) \/ Request(c) \/ OnInfo(c) \/ DescribeAtOnce(c)
             \/ DescribeWithTest(c) \/ SetupAgain(c) \/ SetupStarts(c)
             \/ TestCalledBack(c) \/ TestTimesOut(c)
    <3>1. StreamsHold' /\ TestHolds(c)' /\ UNCHANGED <<streaming, device>>
      BY <1>1, <2>1, QuietKeepsHolding
    <3>2. \A d \in Clients \ {c} : TestHolds(d)'
      BY <1>1, <3>1, OthersStay DEF TestHolds, Records, Recording, Recorded, Session
    <3> QED
      BY <3>1, <3>2
  <2>2. CASE \/ TestStarts(c) \/ TestDoesNotStart(c) \/ TestSucceeds(c) \/ TestFails(c)
             \/ StreamStarts(c) \/ StreamDoesNotStart(c)
    <3>1. StreamsHold' /\ TestHolds(c)'
      BY <1>1, <2>2, BlockKeepsHolding
    <3>2. InBlock(c)
      BY <2>2 DEF InBlock, TestStarts, TestDoesNotStart, TestSucceeds, TestFails,
         StreamStarts, StreamDoesNotStart
    <3>3. \A d \in Clients \ {c} : TestHolds(d)'
      BY <3>2, OthersDoNotRecord DEF TestHolds
    <3> QED
      BY <3>1, <3>3
  <2>3. CASE StopAudio(c) \/ StopVideo(c) \/ Flush(c)
    <3>1. StreamsHold' /\ TestHolds(c)'
      BY <1>1, <2>3, StoppingKeepsHolding
    <3>2. sLock = NoThread
      BY <2>3 DEF StopAudio, StopVideo, StopTrack, Flush
    <3>3. \A d \in Clients \ {c} : TestHolds(d)'
      BY <3>2, OthersDoNotRecord DEF TestHolds
    <3> QED
      BY <3>1, <3>3
  <2> QED
    BY <2>1, <2>2, <2>3 DEF Work
<1>3. (RunningHoldsDevice /\ TestAlone)' <=> (StreamsHold /\ \A d \in Clients : TestHolds(d))'
  BY DEF RunningHoldsDevice, TestAlone, StreamsHold, TestHolds, Records
<1> QED
  BY <1>2, <1>3

(* The UI thread stops a session as its worker does. *)
LEMMA VisitKeepsHolding ==
    ASSUME TypeOK, LockHeld, Unused, StreamsHold, StopVisitedAudio \/ StopVisitedVideo
    PROVE  StreamsHold' /\ \A c \in Clients : ~Records(c)'
<1>1. sLock = NoThread /\ visited \in Sessions /\ UNCHANGED <<tracks, workerVars>>
  BY DEF StopVisitedAudio, StopVisitedVideo, StopVisited, Unused
<1>2. \A c \in Clients : ~Records(c)'
  BY <1>1, ThreadsAssumption DEF LockHeld, InBlock, Records, Recording, Recorded, workerVars
<1>3. PICK T, bad : StopStreams(visited, T, bad)
  BY DEF StopVisitedAudio, StopVisitedVideo, StopVisited
<1>4. StreamsHold'
  BY <1>1, <1>3, StopHolds DEF StreamsHold
<1> QED
  BY <1>2, <1>4

(* The collector takes nothing from a stream or a recorder in use. *)
LEMMA CollectorKeepsHolding ==
    ASSUME TypeOK, OwnSession, StreamsHold, \A c \in Clients : TestHolds(c),
           NEW s \in Sessions, Collect(s) \/ \E t \in Tracks : CollectRecorder(s, t)
    PROVE  StreamsHold' /\ \A c \in Clients : TestHolds(c)'
<1>1. UNCHANGED workerVars
  BY DEF Collect, CollectRecorder
<1>2. ASSUME NEW c \in Clients, Records(c) PROVE Session(c) \in Sessions
  BY <1>2, BlockSession DEF Records, Busy, InBlock
<1>3. CASE Collect(s)
  <2>1. /\ \A r \in Sessions \ {s} : /\ tracks'[r] = tracks[r]
                                     /\ streaming'[r] = streaming[r]
                                     /\ sockets'[r] = sockets[r]
        /\ streaming'[s] = {}
    BY <1>3 DEF Collect, FinalizeSession, TypeOK, StreamsTypeOK
  <2>2. \A t \in Tracks : device[t] # s => device'[t] = device[t]
    BY <1>3 DEF Collect, FinalizeSession
  <2>3. \A r \in Sessions : streaming[r] \subseteq Tracks
    BY DEF TypeOK, StreamsTypeOK
  <2>4. StreamsHold'
    BY <2>1, <2>2, <2>3 DEF StreamsHold
  <2>5. \A c \in Clients : Session(c) # s
    BY <1>3 DEF Collect
  <2>6. "video" \in Tracks
    BY DEF Tracks
  <2>7. ASSUME NEW c \in Clients PROVE TestHolds(c)'
    BY <1>1, <1>2, <2>1, <2>2, <2>5, <2>6
    DEF TestHolds, Records, Recording, Recorded, Session, workerVars
  <2> QED
    BY <2>4, <2>7
<1>4. CASE \E t \in Tracks : CollectRecorder(s, t)
  <2>1. PICK t \in Tracks : CollectRecorder(s, t)
    BY <1>4
  <2>2. /\ device[t] = s /\ t \notin streaming[s]
        /\ UNCHANGED <<tracks, streaming, sockets>>
        /\ \A u \in Tracks : u # t => device'[u] = device[u]
    BY <2>1 DEF CollectRecorder, FinalizeRecorder, TypeOK, StreamsTypeOK
  <2>3. \A r \in Sessions : streaming[r] \subseteq Tracks
    BY DEF TypeOK, StreamsTypeOK
  <2>4. StreamsHold'
    BY <2>2, <2>3 DEF StreamsHold
  <2>5. \A c \in Clients : Session(c) = s => ~Records(c)
    BY <2>1 DEF CollectRecorder, Records
  <2>6. "video" \in Tracks
    BY DEF Tracks
  <2>7. ASSUME NEW c \in Clients PROVE TestHolds(c)'
    BY <1>1, <2>2, <2>5, <2>6
    DEF TestHolds, Records, Recording, Recorded, Session, workerVars
  <2> QED
    BY <2>4, <2>7
<1> QED
  BY <1>3, <1>4

(* UI thread and collector keep what streams and recorders hold.           *)
LEMMA ElsewhereKeepsHolding ==
    ASSUME TypeOK, LockHeld, OwnSession, Unused, RunningHoldsDevice, TestAlone, Elsewhere
    PROVE  RunningHoldsDevice' /\ TestAlone'
<1>1. StreamsHold /\ \A c \in Clients : TestHolds(c)
  BY HoldingIsBoth
<1>2. StreamsHold' /\ \A c \in Clients : TestHolds(c)'
  <2>1. CASE StopVisitedAudio \/ StopVisitedVideo
    BY <1>1, <2>1, VisitKeepsHolding DEF TestHolds
  <2>2. CASE \E s \in Sessions : Collect(s) \/ \E t \in Tracks : CollectRecorder(s, t)
    BY <1>1, <2>2, CollectorKeepsHolding
  <2>3. CASE UNCHANGED <<streamVars, workerVars>>
    BY <1>1, <2>3 DEF streamVars, workerVars, StreamsHold, TestHolds, Records, Recording,
       Recorded, Session
  <2> QED
    BY <2>1, <2>2, <2>3, AskFrame
    DEF Elsewhere, Stopping, StartServer, StopServer, VisitSession, EndStop
<1> QED
  BY <1>2 DEF RunningHoldsDevice, TestAlone, StreamsHold, TestHolds, Records

-----------------------------------------------------------------------------
(* The sessions in use.                                                    *)

(* Stopping streams starts none.                                           *)
LEMMA StopShrinks ==
    ASSUME TypeOK, NEW s \in Sessions, NEW T, NEW bad, StopStreams(s, T, bad),
           NEW r \in Sessions
    PROVE  streaming'[r] \subseteq streaming[r]
BY DEF StopStreams, TypeOK, StreamsTypeOK

(* Stopping the streams in T leaves none of them running.                  *)
LEMMA StopEmpties ==
    ASSUME TypeOK, NEW s \in Sessions, NEW T, NEW bad, StopStreams(s, T, bad),
           NEW t \in T
    PROVE  t \notin streaming'[s]
BY DEF StopStreams, TypeOK, StreamsTypeOK

(* Only its own worker adds a stream to a session, and with sLock held. *)
LEMMA StreamingMoves ==
    ASSUME TypeOK, NEW c \in Clients, Connect(c) \/ Request(c) \/ Work(c) \/ OnInfo(c),
           NEW s \in Sessions
    PROVE  \/ streaming'[s] \subseteq streaming[s]
           \/ s = Session(c) /\ InBlock(c)
<1> USE DEF TypeOK, StreamsTypeOK
<1>1. CASE StreamStarts(c)
  BY <1>1 DEF StreamStarts, StartStream, InBlock
<1>2. CASE StopAudio(c) \/ StopVideo(c)
  <2>1. UNCHANGED streaming \/ \E T, bad : StopStreams(Session(c), T, bad)
    BY <1>2 DEF StopAudio, StopVideo, StopTrack, streamVars
  <2>2. Session(c) = NoSession => UNCHANGED streaming
    BY <1>2 DEF StopAudio, StopVideo, StopTrack, streamVars
  <2>3. Session(c) \in Sessions \cup {NoSession}
    BY DEF Session
  <2> QED
    BY <2>1, <2>2, <2>3, StopShrinks
<1>3. CASE UNCHANGED streaming
  BY <1>3
<1>4. CASE Flush(c)
  BY <1>4 DEF Flush, FlushStreams, streamVars
<1> QED
  BY <1>1, <1>2, <1>3, <1>4
  DEF Connect, Request, Describe, Setup, Teardown, Disconnect, OnInfo, Work,
      DescribeAtOnce, DescribeWithTest, SetupAgain, SetupStarts, TestStarts, StartTest,
      TestDoesNotStart, TestThrows, TestCalledBack, TestTimesOut, TestSucceeds, TestFails,
      ReleaseTest, StreamDoesNotStart, StartRefused, StartThrows, streamVars

(* The workers keep Unused.                                                *)
LEMMA WorkerKeepsUnused ==
    ASSUME TypeOK, OwnSession, Unused, NEW c \in Clients,
           Connect(c) \/ Request(c) \/ Work(c) \/ OnInfo(c)
    PROVE  Unused'
<1>1. mSessions \subseteq mSessions'
  BY SessionMoves
<1>2. InBlock(c) => Session(c) \in mSessions
  BY DEF OwnSession, Busy
<1>3. \A s \in Sessions : streaming'[s] # {} => s \in mSessions'
  BY <1>1, <1>2, StreamingMoves DEF Unused
<1>4. UNCHANGED <<ui, visited>>
  BY DEF Connect, Request, Describe, Setup, Teardown, Disconnect, OnInfo, Work,
     DescribeAtOnce, DescribeWithTest, SetupAgain, SetupStarts, TestStarts,
     TestDoesNotStart, TestCalledBack, TestTimesOut, TestSucceeds, TestFails,
     StreamStarts, StreamDoesNotStart, StopAudio, StopVideo, StopTrack, Flush, uiVars
<1> QED
  BY <1>3, <1>4 DEF Unused

(* UI thread and collector keep Unused.                                    *)
LEMMA ElsewhereKeepsUnused ==
    ASSUME TypeOK, Unused, Elsewhere
    PROVE  Unused'
<1>1. CASE StopVisitedAudio \/ StopVisitedVideo
  <2>1. visited \in Sessions /\ UNCHANGED <<mSessions, visited>>
    BY <1>1 DEF StopVisitedAudio, StopVisitedVideo, StopVisited, Unused
  <2>2. \E T, bad : StopStreams(visited, T, bad)
    BY <1>1 DEF StopVisitedAudio, StopVisitedVideo, StopVisited
  <2> QED
    BY <2>1, <2>2, StopShrinks DEF Unused
<1>2. CASE \E s \in Sessions : Collect(s)
  <2>1. PICK s \in Sessions : Collect(s)
    BY <1>2
  <2>2. /\ mSessions' = mSessions \ {s} /\ UNCHANGED <<ui, visited>>
        /\ streaming' = [streaming EXCEPT ![s] = {}]
    BY <2>1 DEF Collect, FinalizeSession
  <2>3. streaming \in [Sessions -> SUBSET Tracks]
    BY DEF TypeOK, StreamsTypeOK
  <2> QED
    BY <2>2, <2>3 DEF Unused
<1>3. CASE \E s \in Sessions : \E t \in Tracks : CollectRecorder(s, t)
  BY <1>3 DEF CollectRecorder, FinalizeRecorder, Unused, uiVars
<1>4. CASE StartServer \/ StopServer \/ EndStop \/ \E s \in Sessions : VisitSession(s)
  BY <1>4 DEF StartServer, StopServer, EndStop, VisitSession, Unused, streamVars
<1>5. CASE Ask
  <2>1. ui \notin {"idle", "visit", "thrown"}
    BY <1>5 DEF Ask, AskAudio, AskVideo, AskTrack, ReadVideo
  <2> QED
    BY <1>5, <2>1, AskFrame DEF Unused, streamVars
<1> QED
  BY <1>1, <1>2, <1>3, <1>4, <1>5 DEF Elsewhere, Stopping

-----------------------------------------------------------------------------
(* The theorems.                                                           *)

(* A step that changes nothing keeps the inductive invariant.              *)
LEMMA StutterInv == ASSUME IInv, UNCHANGED vars PROVE IInv'
BY DEF IInv, vars, streamVars, workerVars, uiVars, TypeOK, StreamsTypeOK, LockHeld,
   OwnSession, SetupTrack, Unused, RunningHoldsDevice, TestAlone, InBlock, Testing,
   Recording, Recorded, Busy, Starts, Session

(* Every step keeps the inductive invariant.                               *)
LEMMA NextInv == ASSUME IInv, Next PROVE IInv'
<1>1. CASE \E c \in Clients : Connect(c) \/ Request(c) \/ Work(c) \/ OnInfo(c)
  BY <1>1, RequestTypes, WorkTypes, WorkerKeepsLock, WorkerKeepsSessions,
     WorkerKeepsTracks, WorkerKeepsHolding, WorkerKeepsUnused DEF IInv
<1>2. CASE Elsewhere
  <2>1. TypeOK'
    BY <1>2, OtherTypes, CollectorTypes DEF IInv, Elsewhere
  <2>2. LockHeld'
    BY <1>2, ElsewhereFrame DEF IInv, LockHeld, workerVars, InBlock, Testing, Recording,
       Recorded
  <2> QED
    BY <1>2, <2>1, <2>2, ElsewhereKeepsSessions, ElsewhereKeepsTracks,
       ElsewhereKeepsHolding, ElsewhereKeepsUnused DEF IInv
<1> QED
  BY <1>1, <1>2, NextCases

(* The inductive invariant holds in every reachable state.                 *)
LEMMA Invariance == Spec => []IInv
BY InitInv, NextInv, StutterInv, PTL DEF Spec

(* In every state the variables have their types. *)
THEOREM TypeCorrect == Spec => []TypeOK
BY Invariance, PTL DEF IInv

(* Two clients never describe, start or stop streams at once (the blocks   *)
(* of Session that are synchronized on sLock).                             *)
THEOREM Exclusion == Spec => []OneInBlock
<1>1. ASSUME IInv PROVE OneInBlock
  BY <1>1 DEF IInv, LockHeld, OneInBlock
<1> QED
  BY <1>1, Invariance, PTL

(* What runs holds its sockets and its device, and so does the recorder of *)
(* a test (MediaStream.start and stop, H264Stream.testH264).               *)
THEOREM RunningIsSafe == Spec => []RunningHoldsDevice
BY Invariance, PTL DEF IInv

(* Both, for any number of clients and sessions: one client at a time on   *)
(* streams and recorders, and no device taken from what runs.  (Session.)  *)
THEOREM StreamsStaySafe == Spec => []StreamsAreSafe
<1>1. OneInBlock /\ RunningHoldsDevice => StreamsAreSafe
  BY DEF StreamsAreSafe
<1> QED
  BY <1>1, Exclusion, RunningIsSafe, PTL

(* Whatever the other clients, the UI thread and the collector do while a  *)
(* worker is in its block on sLock, only its own streams start or stop.    *)
THEOREM OneSessionIsModified == Spec => LockedSessionOnly
<1> DEFINE A == \A c \in Clients, s \in Sessions :
                   InBlock(c) /\ s \in mSessions' /\ streaming'[s] # streaming[s]
                       => s = Session(c)
<1>1. ASSUME IInv, Next, NEW c \in Clients, NEW s \in Sessions,
             InBlock(c), s \in mSessions', streaming'[s] # streaming[s]
      PROVE  s = Session(c)
  <2>0. sLock = c /\ sLock # NoThread
    BY <1>1, ThreadsAssumption DEF IInv, LockHeld
  <2>1. CASE Elsewhere
    <3>1. CASE \E r \in Sessions : Collect(r)
      <4>1. PICK r \in Sessions : Collect(r)
        BY <3>1
      <4>2. s # r /\ streaming' = [streaming EXCEPT ![r] = {}]
        BY <1>1, <4>1 DEF Collect, FinalizeSession
      <4> QED
        BY <1>1, <4>2 DEF IInv, TypeOK, StreamsTypeOK
    <3> QED
      BY <1>1, <2>0, <2>1, <3>1, AskFrame
      DEF Elsewhere, Stopping, StartServer, StopServer, VisitSession, StopVisitedAudio,
          StopVisitedVideo, StopVisited, EndStop, CollectRecorder, FinalizeRecorder,
          streamVars
  <2>2. CASE \E d \in Clients : Connect(d) \/ Request(d) \/ Work(d) \/ OnInfo(d)
    <3>1. PICK d \in Clients : Connect(d) \/ Request(d) \/ Work(d) \/ OnInfo(d)
      BY <2>2
    <3>2. StreamStarts(d)
      BY <1>1, <2>0, <3>1
      DEF Connect, Request, Describe, Setup, Teardown, Disconnect, OnInfo, Work,
          DescribeAtOnce, DescribeWithTest, SetupAgain, SetupStarts, TestStarts,
          StartTest, TestDoesNotStart, TestThrows, TestCalledBack, TestTimesOut,
          TestSucceeds, TestFails, ReleaseTest, StreamDoesNotStart, StartRefused,
          StartThrows, StopAudio, StopVideo, StopTrack, Flush, streamVars
    <3>3. InBlock(d) /\ c = d
      BY <1>1, <3>2 DEF StreamStarts, InBlock, IInv, LockHeld
    <3> QED
      BY <1>1, <3>2, <3>3 DEF StreamStarts, StartStream, IInv, TypeOK, StreamsTypeOK
  <2> QED
    BY <1>1, <2>1, <2>2, NextCases
<1>2. IInv /\ [Next]_vars => [A]_vars
  BY <1>1
<1> QED
  BY <1>2, Invariance, PTL DEF Spec, LockedSessionOnly

-----------------------------------------------------------------------------
(* A worker that stops its session for good.                               *)

(* The tracks that stop(0) and stop(1) are done with do not run again.     *)
StoppedUpTo(c, T) == Session(c) \in Sessions => streaming[Session(c)] \cap T = {}

Stopped == \A c \in Clients :
    /\ worker[c] = "stop video" => StoppedUpTo(c, {"audio"})
    /\ worker[c] = "flush" => StoppedUpTo(c, Tracks)

(* At first no worker has stopped anything.                                *)
LEMMA InitStopped == Init => Stopped
BY DEF Init, Stopped

(* Streams of a session whose worker is not in its block are only stopped. *)
LEMMA StreamingShrinks ==
    ASSUME IInv, Next, NEW c \in Clients, ~InBlock(c), Session(c) \in Sessions
    PROVE  streaming'[Session(c)] \subseteq streaming[Session(c)]
<1>1. CASE \E d \in Clients : Connect(d) \/ Request(d) \/ Work(d) \/ OnInfo(d)
  <2>1. PICK d \in Clients : Connect(d) \/ Request(d) \/ Work(d) \/ OnInfo(d)
    BY <1>1
  <2>2. InBlock(d) => Session(c) # Session(d)
    BY NoSessionAssumption DEF IInv, OwnSession
  <2> QED
    BY <2>1, <2>2, StreamingMoves DEF IInv
<1>2. CASE StopVisitedAudio \/ StopVisitedVideo
  <2>1. visited \in Sessions /\ \E T, bad : StopStreams(visited, T, bad)
    BY <1>2 DEF StopVisitedAudio, StopVisitedVideo, StopVisited, IInv, Unused
  <2> QED
    BY <2>1, StopShrinks DEF IInv
<1>3. CASE \E s \in Sessions : Collect(s)
  BY <1>3 DEF Collect, FinalizeSession, IInv, TypeOK, StreamsTypeOK
<1>4. CASE UNCHANGED streaming
  BY <1>4
<1> QED
  BY <1>1, <1>2, <1>3, <1>4, NextCases, AskFrame
  DEF Elsewhere, Stopping, StartServer, StopServer, VisitSession, EndStop, CollectRecorder,
      FinalizeRecorder, streamVars

(* How a worker gets to its last two steps. *)
LEMMA StoppingMoves ==
    ASSUME IInv, Next, NEW c \in Clients, worker'[c] \in {"stop video", "flush"}
    PROVE  /\ ~InBlock(c) /\ mSession'[c] = mSession[c]
           /\ \/ worker'[c] = worker[c]
              \/ worker'[c] = "stop video" /\ StopAudio(c)
              \/ worker'[c] = "flush" /\ StopVideo(c)
<1> USE DEF IInv
<1>1. CASE Elsewhere
  BY <1>1, ElsewhereFrame DEF workerVars, InBlock, Testing, Recording, Recorded
<1>2. CASE \E d \in Clients \ {c} : Connect(d) \/ Request(d) \/ Work(d) \/ OnInfo(d)
  BY <1>2, OthersStay DEF InBlock, Testing, Recording, Recorded
<1>3. CASE Connect(c) \/ Request(c)
  BY <1>3 DEF Connect, Request, Describe, Setup, Teardown, Disconnect, Goto, TypeOK
<1>4. CASE Work(c) \/ OnInfo(c)
  <2> USE DEF TypeOK, Goto, Finish, Stage, workerVars, InBlock, Testing, Recording, Recorded
  <2>1. CASE DescribeAtOnce(c) \/ SetupAgain(c) \/ OnInfo(c) \/ DescribeWithTest(c)
             \/ SetupStarts(c)
    BY <2>1 DEF DescribeAtOnce, SetupAgain, OnInfo, DescribeWithTest, SetupStarts
  <2>2. CASE TestStarts(c) \/ TestCalledBack(c) \/ TestTimesOut(c) \/ TestSucceeds(c)
    BY <2>2 DEF TestStarts, TestCalledBack, TestTimesOut, TestSucceeds
  <2>3. CASE TestDoesNotStart(c) \/ TestFails(c) \/ StreamStarts(c) \/ StreamDoesNotStart(c)
    BY <2>3 DEF TestDoesNotStart, TestFails, StreamStarts, StreamDoesNotStart
  <2>4. CASE StopAudio(c)
    BY <2>4 DEF StopAudio, StopTrack
  <2>5. CASE StopVideo(c)
    BY <2>5 DEF StopVideo, StopTrack
  <2>6. CASE Flush(c)
    BY <2>6 DEF Flush
  <2> QED
    BY <1>4, <2>1, <2>2, <2>3, <2>4, <2>5, <2>6 DEF Work
<1> QED
  BY <1>1, <1>2, <1>3, <1>4, NextCases

(* Every step keeps Stopped.                                               *)
LEMMA NextStopped == ASSUME IInv, Stopped, Next PROVE Stopped'
<1> SUFFICES ASSUME NEW c \in Clients, worker'[c] \in {"stop video", "flush"},
                    Session(c)' \in Sessions
             PROVE  /\ worker'[c] = "stop video" => "audio" \notin streaming'[Session(c)]
                    /\ worker'[c] = "flush" => streaming'[Session(c)] \cap Tracks = {}
  BY StoppingMoves DEF Stopped, StoppedUpTo, Session
<1>1. Session(c) \in Sessions /\ Session(c)' = Session(c)
  BY StoppingMoves DEF Session
<1>2. streaming'[Session(c)] \subseteq streaming[Session(c)]
  BY <1>1, StoppingMoves, StreamingShrinks
<1>3. CASE worker'[c] = worker[c]
  BY <1>1, <1>2, <1>3 DEF Stopped, StoppedUpTo
<1>4. CASE worker'[c] = "stop video" /\ StopAudio(c)
  <2>1. \E bad : StopStreams(Session(c), {"audio"}, bad)
    BY <1>1, <1>4, NoSessionAssumption DEF StopAudio, StopTrack
  <2> QED
    BY <1>1, <1>4, <2>1, StopEmpties DEF IInv
<1>5. CASE worker'[c] = "flush" /\ StopVideo(c)
  <2>0. \E bad : StopStreams(Session(c), {"video"}, bad)
    BY <1>1, <1>5, NoSessionAssumption DEF StopVideo, StopTrack
  <2>1. "video" \notin streaming'[Session(c)]
    BY <1>1, <2>0, StopEmpties DEF IInv
  <2>2. "audio" \notin streaming[Session(c)]
    BY <1>1, <1>5 DEF StopVideo, StopTrack, Stopped, StoppedUpTo
  <2> QED
    BY <1>2, <1>5, <2>1, <2>2 DEF Tracks
<1> QED
  BY <1>3, <1>4, <1>5, StoppingMoves

(* Stopped holds in every reachable state.                                 *)
LEMMA StoppedIsInvariant == Spec => []Stopped
<1>1. ASSUME Stopped, UNCHANGED vars PROVE Stopped'
  BY <1>1 DEF Stopped, StoppedUpTo, Session, vars, streamVars, workerVars
<1> QED
  BY <1>1, InitStopped, NextStopped, Invariance, PTL DEF Spec

(* A worker leaves a session that streams for no other reason than a       *)
(* DESCRIBE of its client: when the client left, the session was stopped   *)
(* first, and nobody started it again (WorkerThread.run after its loop).   *)
THEOREM LeavesOnlyToDescribe == Spec => OnlyDescribeAbandons
<1> DEFINE A == \A c \in Clients :
                   LET s == Session(c)
                   IN  s # NoSession /\ Session(c)' # s /\ streaming[s] # {}
                           => worker[c] = "idle" /\ worker'[c] = "describe"
<1>1. ASSUME IInv, Stopped, Next, NEW c \in Clients, Session(c) # NoSession,
             mSession'[c] # mSession[c], streaming[Session(c)] # {}
      PROVE  worker[c] = "idle" /\ worker'[c] = "describe"
  <2>1. Connect(c) \/ Request(c) \/ Work(c) \/ OnInfo(c)
    <3>1. ~Elsewhere
      BY <1>1, ElsewhereFrame DEF workerVars
    <3> QED
      BY <1>1, <3>1, NextCases, OthersStay DEF IInv
  <2>2. ~Flush(c)
    <3>1. Session(c) \in Sessions /\ streaming[Session(c)] \subseteq Tracks
      BY <1>1 DEF Session, IInv, TypeOK, StreamsTypeOK
    <3>2. worker[c] = "flush" => streaming[Session(c)] \cap Tracks = {}
      BY <1>1, <3>1 DEF Stopped, StoppedUpTo
    <3> QED
      BY <1>1, <3>1, <3>2 DEF Flush
  <2>3. \E s \in Sessions, T \in Offers, q \in Qualities : Describe(c, s, T, q)
    BY <1>1, <2>1, <2>2
    DEF Connect, Request, Setup, Teardown, Disconnect, OnInfo, Work, DescribeAtOnce,
        DescribeWithTest, SetupAgain, SetupStarts, TestStarts, TestDoesNotStart,
        TestCalledBack, TestTimesOut, TestSucceeds, TestFails, StreamStarts,
        StreamDoesNotStart, StopAudio, StopVideo, StopTrack, workerVars
  <2> QED
    BY <1>1, <2>3 DEF Describe, Goto, IInv, TypeOK
<1>2. IInv /\ Stopped /\ [Next]_vars => [A]_vars
  BY <1>1 DEF Session
<1> QED
  BY <1>2, Invariance, StoppedIsInvariant, PTL DEF Spec, OnlyDescribeAbandons

(* Both at once, for any clients and sessions.  (RtspServer, Session.)     *)
THEOREM SessionsStayKept == Spec => SessionsAreKept
  BY OneSessionIsModified, LeavesOnlyToDescribe, PTL DEF SessionsAreKept

-----------------------------------------------------------------------------
(* A session that is asked whether it streams.                             *)

(* The session visited stays one the server knows.  A track found there is *)
(* still there, unless the session was flushed and has no track at all.    *)
Asked ==
    /\ toVisit \subseteq mSessions
    /\ ui \notin {"idle", "visit"} => visited \in mSessions
    /\ ui = "ask audio" => tracks[visited] = {} \/ "audio" \in tracks[visited]
    /\ ui = "ask video" => tracks[visited] = {} \/ "video" \in tracks[visited]
    /\ ui = "thrown" => tracks[visited] = {}

(* A worker takes all tracks from a session in use, or none. *)
LEMMA TracksGoTogether ==
    ASSUME TypeOK, OwnSession, NEW c \in Clients,
           Connect(c) \/ Request(c) \/ Work(c) \/ OnInfo(c), NEW s \in mSessions
    PROVE  s \in mSessions' /\ tracks'[s] \in {tracks[s], {}}
<1>1. s \in mSessions'
  BY SessionMoves
<1>2. CASE Flush(c)
  BY <1>1, <1>2 DEF Flush, FlushStreams, streamVars, TypeOK, StreamsTypeOK
<1>3. CASE ~Flush(c) /\ worker[c] = "flush"
  BY <1>3 DEF Connect, Request, Describe, Setup, Teardown, Disconnect, OnInfo, Work,
     DescribeAtOnce, DescribeWithTest, SetupAgain, SetupStarts, TestStarts,
     TestDoesNotStart, TestCalledBack, TestTimesOut, TestSucceeds, TestFails,
     StreamStarts, StreamDoesNotStart, StopAudio, StopVideo, StopTrack, Testing,
     Recording, Recorded
<1>4. CASE worker[c] # "flush"
  <2>1. tracks'[s] = tracks[s] \/ (worker[c] = "flush" /\ s = Session(c))
    BY TracksMove
  <2> QED
    BY <1>1, <1>4, <2>1
<1> QED
  BY <1>1, <1>2, <1>3, <1>4

(* The other steps of the UI thread and of the collector. *)
VisitingStep ==
    \/ StartServer \/ StopServer \/ EndStop \/ StopVisitedAudio \/ StopVisitedVideo
    \/ \E s \in Sessions : VisitSession(s) \/ \E t \in Tracks : CollectRecorder(s, t)

(* Every step keeps Asked.                                                 *)
LEMMA NextAsked == ASSUME IInv, Asked, Next PROVE Asked'
<1> USE DEF Asked
<1>1. CASE \E c \in Clients : Connect(c) \/ Request(c) \/ Work(c) \/ OnInfo(c)
  <2>1. UNCHANGED <<ui, visited, toVisit>>
    <3>1. ASSUME NEW c \in Clients, Connect(c) \/ Request(c) \/ OnInfo(c)
          PROVE  UNCHANGED <<ui, visited, toVisit>>
      BY <3>1 DEF Connect, Request, Describe, Setup, Teardown, Disconnect, OnInfo, uiVars
    <3>2. ASSUME NEW c \in Clients, Work(c)
          PROVE  UNCHANGED <<ui, visited, toVisit>>
      <4> USE DEF uiVars, StopTrack
      <4>1. CASE DescribeAtOnce(c) \/ DescribeWithTest(c) \/ SetupAgain(c) \/ SetupStarts(c)
        BY <4>1 DEF DescribeAtOnce, DescribeWithTest, SetupAgain, SetupStarts
      <4>2. CASE TestStarts(c) \/ TestDoesNotStart(c) \/ TestCalledBack(c) \/ TestTimesOut(c)
        BY <4>2 DEF TestStarts, TestDoesNotStart, TestCalledBack, TestTimesOut
      <4>3. CASE TestSucceeds(c) \/ TestFails(c) \/ StreamStarts(c) \/ StreamDoesNotStart(c)
        BY <4>3 DEF TestSucceeds, TestFails, StreamStarts, StreamDoesNotStart
      <4>4. CASE StopAudio(c) \/ StopVideo(c) \/ Flush(c)
        BY <4>4 DEF StopAudio, StopVideo, Flush
      <4> QED
        BY <3>2, <4>1, <4>2, <4>3, <4>4 DEF Work
    <3> QED
      BY <1>1, <3>1, <3>2
  <2>2. \A s \in mSessions : s \in mSessions' /\ tracks'[s] \in {tracks[s], {}}
    BY <1>1, TracksGoTogether DEF IInv
  <2> QED
    BY <2>1, <2>2
<1>2. CASE \E s \in Sessions : Collect(s)
  <2>1. PICK s \in Sessions : Collect(s)
    BY <1>2
  <2>2. /\ mSessions' = mSessions \ {s} /\ toVisit' = toVisit \ {s} /\ visited # s
        /\ UNCHANGED <<ui, visited>> /\ tracks' = [tracks EXCEPT ![s] = {}]
    BY <2>1 DEF Collect, FinalizeSession
  <2>3. \A r \in mSessions \ {s} : tracks'[r] = tracks[r]
    BY <2>2 DEF IInv, TypeOK, StreamsTypeOK
  <2> QED
    BY <2>2, <2>3
<1>3. CASE Ask
  <2>1. UNCHANGED <<tracks, visited, toVisit, mSessions>>
    BY <1>3, AskFrame DEF streamVars
  <2>2. ui \notin {"idle", "visit"}
    BY <1>3 DEF Ask, AskAudio, AskVideo, AskTrack, ReadVideo
  <2>3. ui' = "ask audio" => "audio" \in tracks[visited]
    BY <1>3 DEF Ask, AskAudio, AskVideo, AskTrack, ReadVideo
  <2>4. ui' = "ask video" => "video" \in tracks[visited]
    BY <1>3 DEF Ask, AskAudio, AskVideo, AskTrack, ReadVideo
  <2>5. ui' = "thrown" => tracks[visited] = {}
    BY <1>3 DEF Ask, AskAudio, AskVideo, AskTrack, ReadVideo
  <2> QED
    BY <2>1, <2>2, <2>3, <2>4, <2>5
<1>4. CASE VisitingStep
  BY <1>4 DEF VisitingStep, StartServer, StopServer, EndStop, VisitSession, ReadAudio, ReadVideo,
     StopVisitedAudio, StopVisitedVideo, StopVisited, CollectRecorder, FinalizeRecorder,
     uiVars, streamVars
<1> QED
  BY <1>1, <1>2, <1>3, <1>4, NextCases DEF Elsewhere, Stopping, VisitingStep

(* stop() fails for a session only when a worker flushed it while it was   *)
(* asked whether it streams; then it streams no more (Session.isStreaming, *)
(* Session.flush, RtspServer.stop).                                        *)
THEOREM OnlyFlushedThrow == Spec => []ThrowsForFlushed
<1>1. Init => Asked
  BY DEF Init, Asked
<1>2. ASSUME Asked, UNCHANGED vars PROVE Asked'
  BY <1>2 DEF Asked, vars, streamVars, uiVars
<1>3. ASSUME IInv, Asked PROVE ThrowsForFlushed
  <2> SUFFICES ASSUME ui = "thrown" PROVE streaming[visited] = {}
    BY <1>3 DEF ThrowsForFlushed, Asked
  <2>1. visited \in Sessions /\ tracks[visited] = {}
    BY <1>3 DEF Asked, IInv, TypeOK
  <2> QED
    BY <1>3, <2>1 DEF IInv, RunningHoldsDevice
<1> QED
  BY <1>1, <1>2, <1>3, NextAsked, Invariance, PTL DEF Spec
=============================================================================
