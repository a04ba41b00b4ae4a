-------------------------- MODULE PacketizerProofs --------------------------
(***************************************************************************)
(* Theorems about Packetizer, for any number of starts, of buffers and any *)
(* interval; and about H264Packets, the packets of one of its threads, for *)
(* every packet size and unit length.                                      *)
(***************************************************************************)
EXTENDS Packetizer, H264Packets, FiniteSetTheorems, TLAPS

-----------------------------------------------------------------------------
(* The invariant.                                                          *)

(* The caller's thread is that of the last stream, and the only one that   *)
(* runs of those it did not leave behind.                                  *)
OneThread ==
    /\ t # 0 => t = is
    /\ caller \in {"streaming", "interrupt", "join"} <=> t # 0
    /\ caller # "idle" => is # 0
    /\ caller = "join" => t \in told
    /\ \A n \in Threads : is < n => pc[n] = "none" /\ n \notin told
    /\ \A n \in Threads \ left : Runs(n) => n = t

(* Only a thread that was left is in a read of an earlier stream.          *)
OwnSource == strayed = {} /\ \A n \in Threads : reading[n] # 0 => n \in left

(* Where a thread is that sent a packet after the interrupt: not before    *)
(* another is sent.                                                        *)
Past(n) ==
    pc[n] \in {"advance", "wrap", "loop", "ended"}
                  \cup IF kind = "h264" THEN {"request", "measure", "report", "sets"} ELSE {}

Flagged ==
    \A n \in Threads :
        /\ interrupted[n] => n \in told
        /\ n \in told /\ Runs(n) => interrupted[n] \/ n \in swallowed
        /\ n \notin told => since[n] = 0
        /\ n \notin swallowed => since[n] = 0 \/ (since[n] = 1 /\ Past(n))

(* What the field counts is not more than what went by, while one thread   *)
(* counts.                                                                 *)
Counted ==
    /\ kind = "h264" => gap = Interval
    /\ left = {} => delta <= gap
    /\ early => left # {}

Holders == {n \in Threads : Holds(n)}
Ended == {n \in Threads : pc[n] = "ended"}

Conserved ==
    LET used == permits + queued + Cardinality(Holders) IN
    used <= BufferCount /\ BufferCount <= used + Cardinality(Ended)

(* Whoever makes a packet alone has the buffer at mBufferIn, and it alone  *)
(* wrote there; two that make one are known to.                            *)
PacketsApart ==
    /\ \A n, m \in Threads : n # m /\ Makes(n) /\ Makes(m) => n \in shared
    /\ \A n \in Threads \ shared :
           Holds(n) =>
               /\ mBufferIn \in Slots /\ buffer = mBufferIn /\ slots[mBufferIn] = {n}
               /\ pc[n] \in {"read", "read payload"} => at[n] = mBufferIn

InCommit(n) == pc[n] \in {"advance", "wrap"}

(* Whoever is in commitBuffer alone has the index to itself.               *)
RingAgrees ==
    ~torn =>
        LET committed == IF \E n \in Threads : pc[n] = "advance" THEN 1 ELSE 0 IN
        /\ \A n, m \in Threads : InCommit(n) /\ InCommit(m) => n = m
        /\ \A n \in Threads : pc[n] = "advance" => at[n] = mBufferIn /\ mBufferIn \in Slots
        /\ \A n \in Threads : pc[n] = "wrap" => mBufferIn = BufferCount
        /\ Around(mBufferIn + committed) = Around(mBufferOut + queued)

Alone == left = {} => shared = {} /\ ~torn

IInv ==
    /\ TypeOK /\ OneThread /\ OwnSource /\ Flagged /\ Counted /\ Conserved
    /\ PacketsApart /\ RingAgrees /\ Alone

-----------------------------------------------------------------------------
(* What the steps have in common.                                          *)

(* A step of a thread moves no other one, and changes neither what kind of *)
(* packetizer it is nor the caller.  (AbstractPacketizer's fields.)        *)
LEMMA OneMoves ==
    ASSUME TypeOK, NEW n \in Threads, Step(n)
    PROVE  /\ \E to : pc' = [pc EXCEPT ![n] = to]
           /\ UNCHANGED callerVars
           /\ UNCHANGED <<told, left>>
  <1> USE DEF historyVars, ringVars, localVars, Goes, Continues, Ends
  <1>0. pc = [pc EXCEPT ![n] = pc[n]]
    BY DEF TypeOK
  <1>1. CASE SkipTest(n) \/ Seeks(n) \/ LoopTest(n)
    BY <1>0, <1>1 DEF SkipTest, Seeks, LoopTest
  <1>2. CASE ReadsUnit(n) \/ ReadFails(n) \/ ReadsNothing(n)
    BY <1>0, <1>2 DEF ReadsUnit, ReadFails, ReadsNothing
  <1>3. CASE Requests(n) \/ Fills(n) \/ FillReads(n)
    BY <1>0, <1>3 DEF Requests, TakesBuffer, Fills, FillReads
  <1>4. CASE Commits(n) \/ Advances(n) \/ Wraps(n)
    BY <1>0, <1>4 DEF Commits, Advances, Wraps, Committed
  <1>5. CASE Measures(n) \/ Reports(n) \/ NoReport(n)
    BY <1>0, <1>5 DEF Measures, Reports, NoReport, Unreported
  <1> QED
    BY <1>1, <1>2, <1>3, <1>4, <1>5 DEF Step, OwnStep, BytesCome

(* How many threads hold a buffer or have ended, one of them apart.        *)
LEMMA CountApart ==
    ASSUME NEW S \in SUBSET Threads, NEW n \in Threads
    PROVE  /\ Cardinality(S \ {n}) \in Nat
           /\ Cardinality(S) = Cardinality(S \ {n}) + (IF n \in S THEN 1 ELSE 0)
  <1>1. IsFiniteSet(Threads)
    BY FS_Interval, StartsAssumption DEF Threads
  <1>2. IsFiniteSet(S) /\ IsFiniteSet(S \ {n})
    BY <1>1, FS_Subset
  <1>3. Cardinality(S) \in Nat /\ Cardinality(S \ {n}) \in Nat
    BY <1>2, FS_CardinalityType
  <1> QED
    BY <1>2, <1>3, FS_RemoveElement

(* A step of the thread keeps the buffers: what it takes it has or has put *)
(* back, or it ends.                                                       *)
Balanced(n) ==
    LET used == permits + queued + (IF Holds(n) THEN 1 ELSE 0) IN
    \/ used' = used /\ (pc[n] = "ended" => pc'[n] = "ended")
    \/ used' = used - 1 /\ pc[n] # "ended" /\ pc'[n] = "ended"

(* The balance of the buffers after a step of one thread is that of the    *)
(* thread: what it took, put back, or took with it.                        *)
LEMMA BalanceKept ==
    ASSUME TypeOK, Conserved, NEW n \in Threads,
           kind' = kind, \E to : pc' = [pc EXCEPT ![n] = to],
           permits' \in Nat, queued' \in Nat,
           Balanced(n)
    PROVE  Conserved'
  <1> DEFINE h == Cardinality(Holders \ {n})
             e == Cardinality(Ended \ {n})
  <1>1. Holders' \ {n} = Holders \ {n} /\ Ended' \ {n} = Ended \ {n}
    BY DEF Holders, Holds, Ended, TypeOK
  <1>2. /\ h \in Nat
        /\ Cardinality(Holders) = h + (IF n \in Holders THEN 1 ELSE 0)
    BY CountApart DEF Holders
  <1>3. /\ e \in Nat
        /\ Cardinality(Ended) = e + (IF n \in Ended THEN 1 ELSE 0)
    BY CountApart DEF Ended
  <1>4. /\ Cardinality(Holders') = h + (IF n \in Holders' THEN 1 ELSE 0)
        /\ Cardinality(Ended') = e + (IF n \in Ended' THEN 1 ELSE 0)
    <2>1. Holders' \in SUBSET Threads /\ Ended' \in SUBSET Threads
      BY DEF Holders, Ended
    <2> QED
      BY <1>1, <2>1, CountApart
  <1> DEFINE In(S) == IF n \in S THEN 1 ELSE 0
             change == permits' + queued' - permits - queued + In(Holders') - In(Holders)
  <1>6. permits \in Nat /\ queued \in Nat /\ BufferCount \in Nat
    BY BuffersAssumption DEF TypeOK
  <1>5. change <= 0 /\ 0 <= change + In(Ended') - In(Ended)
    <2>1. (n \in Holders <=> Holds(n)) /\ (n \in Holders' <=> Holds(n)')
      BY DEF Holders
    <2>2. (n \in Ended <=> pc[n] = "ended") /\ (n \in Ended' <=> pc'[n] = "ended")
      BY DEF Ended
    <2>3. /\ In(Holders) = IF Holds(n) THEN 1 ELSE 0
          /\ In(Holders') = IF Holds(n)' THEN 1 ELSE 0
          /\ In(Ended) = IF pc[n] = "ended" THEN 1 ELSE 0
          /\ In(Ended') = IF pc'[n] = "ended" THEN 1 ELSE 0
      BY <2>1, <2>2
    <2> HIDE DEF In
    <2>4. /\ In(Ended) \in {0, 1} /\ (pc[n] = "ended" <=> In(Ended) = 1)
          /\ In(Ended') \in {0, 1} /\ (pc'[n] = "ended" <=> In(Ended') = 1)
          /\ In(Holders) \in {0, 1} /\ In(Holders') \in {0, 1}
      BY <2>3
    <2>5. LET used == permits + queued + In(Holders)
              new == permits' + queued' + In(Holders') IN
          \/ new = used /\ (pc[n] = "ended" => pc'[n] = "ended")
          \/ new = used - 1 /\ pc[n] # "ended" /\ pc'[n] = "ended"
      BY <2>3 DEF Balanced
    <2> QED
      BY <1>6, <2>4, <2>5
  <1>7. \A S : In(S) \in Nat
    OBVIOUS
  <1> HIDE DEF h, e
  <1>8. /\ Cardinality(Holders) = h + In(Holders) /\ Cardinality(Holders') = h + In(Holders')
        /\ Cardinality(Ended) = e + In(Ended) /\ Cardinality(Ended') = e + In(Ended')
    BY <1>2, <1>3, <1>4
  <1> HIDE DEF In
  <1>9. /\ permits + queued + Cardinality(Holders) <= BufferCount
        /\ BufferCount <= permits + queued + Cardinality(Holders) + Cardinality(Ended)
    BY DEF Conserved
  <1> QED
    BY <1>2, <1>3, <1>5, <1>6, <1>7, <1>8, <1>9 DEF Conserved

(* Nobody holds more than there is.                                        *)
LEMMA WithinBounds ==
    ASSUME Conserved', permits' \in Nat, queued' \in Nat
    PROVE  permits' \in 0 .. BufferCount /\ queued' \in 0 .. BufferCount
  <1>1. IsFiniteSet(Threads)
    BY FS_Interval, StartsAssumption DEF Threads
  <1>2. Holders' \in SUBSET Threads
    BY DEF Holders
  <1>3. Cardinality(Holders') \in Nat
    BY <1>1, <1>2, FS_Subset, FS_CardinalityType
  <1> QED
    BY <1>3, BuffersAssumption DEF Conserved

-----------------------------------------------------------------------------
(* Each part of the invariant is kept.                                     *)

(* The buffers: a thread that requests one is its holder, commits it or    *)
(* ends.  (requestBuffer, commitBuffer and exceptions in run.)             *)
LEMMA ConservedIsKept ==
    ASSUME TypeOK, OneThread, Conserved, [Next]_vars
    PROVE  permits' \in Nat /\ queued' \in Nat /\ Conserved'
  <1> USE DEF historyVars, ringVars, indexVars, threadVars, callerVars
  <1>1. permits \in Nat /\ queued \in Nat
    BY BuffersAssumption DEF TypeOK
  <1>2. ASSUME NEW n \in Threads, Step(n)
        PROVE  permits' \in Nat /\ queued' \in Nat /\ Balanced(n)
    <2>0. n \in DOMAIN pc /\ kind' = kind
      BY <1>2, OneMoves DEF TypeOK
    <2> USE <1>1, <2>0 DEF Goes, Continues, Ends
    <2>1. CASE SkipTest(n) \/ Seeks(n) \/ LoopTest(n) \/ ReadsUnit(n) \/ ReadsNothing(n)
      <3>1. /\ UNCHANGED <<permits, queued>>
            /\ pc[n] \in {"skip", "seek", "loop", "unit", "resync"}
            /\ pc'[n] \in {"skip", "seek", "loop", "unit", "resync", "request", "ended"}
        BY <2>1 DEF SkipTest, Seeks, LoopTest, ReadsUnit, ReadsNothing
      <3>2. ~Holds(n) /\ ~Holds(n)'
        BY <3>1 DEF Holds
      <3> QED
        BY <3>1, <3>2 DEF Balanced
    <2>2. CASE ReadFails(n)
      <3>1. UNCHANGED <<permits, queued>> /\ pc[n] # "ended" /\ pc'[n] = "ended"
        BY <2>2 DEF ReadFails, Inputs
      <3>2. ~Holds(n)'
        BY <3>1 DEF Holds
      <3> QED
        BY <3>1, <3>2 DEF Balanced
    <2>3. CASE Requests(n)
      <3>1. /\ pc[n] \in {"request", "sets"} /\ queued' = queued
            /\ \/ permits' = permits /\ pc'[n] = "ended"
               \/ permits > 0 /\ permits' = permits - 1 /\ pc'[n] \in {"ended", "fill"}
        BY <2>3 DEF Requests, TakesBuffer
      <3>2. ~Holds(n) /\ (Holds(n)' <=> pc'[n] = "fill")
        BY <3>1 DEF Holds
      <3> QED
        BY <3>1, <3>2 DEF Balanced
    <2>4. CASE Fills(n) \/ FillReads(n)
      <3>1. /\ UNCHANGED <<permits, queued>>
            /\ pc[n] \in {"fill", "read", "payload", "read payload"}
            /\ \/ pc'[n] \in {"fill", "read", "payload", "read payload", "commit"}
               \/ pc'[n] = "measure" /\ kind = "amr"
        <4>1. kind \in {"h264", "amr"}
          BY DEF TypeOK
        <4>2. CASE Fills(n)
          BY <4>2 DEF Fills
        <4>3. CASE FillReads(n)
          BY <4>1, <4>3 DEF FillReads
        <4> QED
          BY <2>4, <4>2, <4>3
      <3>2. Holds(n) /\ Holds(n)'
        BY <3>1 DEF Holds
      <3> QED
        BY <3>1, <3>2 DEF Balanced
    <2>5. CASE Commits(n)
      <3>1. /\ pc[n] = "commit" /\ permits' = permits
            /\ \/ queued' = queued /\ pc'[n] = "ended"
               \/ queued' = queued + 1 /\ pc'[n] = "advance"
        BY <2>5 DEF Commits
      <3>2. Holds(n) /\ ~Holds(n)'
        BY <3>1 DEF Holds
      <3> QED
        BY <3>1, <3>2 DEF Balanced
    <2>6. CASE Advances(n) \/ Wraps(n)
      <3>1. /\ UNCHANGED <<permits, queued>> /\ pc[n] \in {"advance", "wrap"}
            /\ \/ pc'[n] \in {"loop", "sets", "request", "wrap"}
               \/ pc'[n] = "measure" /\ kind # "amr"
        BY <2>6 DEF Advances, Wraps, Committed
      <3>2. ~Holds(n) /\ ~Holds(n)'
        BY <3>1 DEF Holds
      <3> QED
        BY <3>1, <3>2 DEF Balanced
    <2>7. CASE Measures(n)
      <3>1. UNCHANGED <<permits, queued>> /\ pc[n] = "measure" /\ pc'[n] = "report"
        BY <2>7 DEF Measures
      <3>2. Holds(n) <=> Holds(n)'
        BY <3>1 DEF Holds
      <3> QED
        BY <3>1, <3>2 DEF Balanced
    <2>8. CASE Reports(n) \/ NoReport(n)
      <3>1. /\ UNCHANGED <<permits, queued>> /\ pc[n] = "report"
            /\ \/ pc'[n] = "ended"
               \/ pc'[n] = "commit" /\ kind = "amr"
               \/ pc'[n] \in {"loop", "sets"} /\ kind = "h264"
        <4>1. kind \in {"h264", "amr"}
          BY DEF TypeOK
        <4>2. CASE kind = "amr"
          BY <2>8, <4>2 DEF Reports, NoReport, Unreported
        <4>3. CASE kind = "h264"
          <5>1. /\ UNCHANGED <<permits, queued>> /\ pc[n] = "report"
                /\ Ends(n) \/ Unreported(n)
            BY <2>8 DEF Reports, NoReport
          <5>2. Unreported(n) => pc'[n] \in {"loop", "sets"}
            BY <4>3 DEF Unreported
          <5>3. Ends(n) => pc'[n] = "ended"
            OBVIOUS
          <5> HIDE DEF Ends, Goes, Continues
          <5> QED
            BY <4>3, <5>1, <5>2, <5>3
        <4> QED
          BY <4>1, <4>2, <4>3
      <3>2. (Holds(n) <=> kind = "amr") /\ (Holds(n)' <=> pc'[n] = "commit")
        BY <3>1 DEF Holds
      <3> QED
        BY <3>1, <3>2 DEF Balanced
    <2> QED
      BY <1>2, <2>1, <2>2, <2>3, <2>4, <2>5, <2>6, <2>7, <2>8 DEF Step, OwnStep, BytesCome
  <1>3. CASE \E n \in Threads : Step(n)
    BY <1>2, <1>3, OneMoves, BalanceKept DEF TypeOK
  <1>4. CASE Start
    <2>1. PICK n \in Threads : n = is'
      BY <1>4, StartsAssumption DEF Start, Threads, TypeOK
    <2>2. /\ pc[n] = "none"
          /\ pc'[n] \in {"skip", "seek"}
      BY <1>4, <2>1, StartsAssumption DEF Start, OneThread, Threads, TypeOK
    <2>3. \E to : pc' = [pc EXCEPT ![n] = to]
      BY <1>4, <2>1 DEF Start
    <2>4. UNCHANGED <<kind, permits, queued>>
      BY <1>4 DEF Start
    <2>5. ~Holds(n) /\ ~Holds(n)' /\ pc[n] # "ended" /\ pc'[n] # "ended"
      BY <2>2 DEF Holds
    <2>6. Balanced(n)
      BY <1>1, <2>4, <2>5 DEF Balanced
    <2> QED
      BY <1>1, <2>3, <2>4, <2>6, BalanceKept
  <1>5. CASE \/ CloseInput \/ Interrupt \/ Join \/ StopRecorder \/ RecorderEnds \/ BufferFreed
             \/ UNCHANGED vars
    <2>1. /\ UNCHANGED <<kind, pc>> /\ permits' \in Nat /\ queued' \in Nat
          /\ permits' + queued' = permits + queued
      BY <1>1, <1>5
      DEF CloseInput, Interrupt, Join, StopRecorder, RecorderEnds, BufferFreed, vars
    <2>2. PICK n \in Threads : TRUE
      BY StartsAssumption DEF Threads
    <2>3. pc' = [pc EXCEPT ![n] = pc[n]] /\ kind' = kind
      BY <2>1 DEF TypeOK
    <2>4. (Holds(n)' <=> Holds(n)) /\ pc'[n] = pc[n]
      BY <2>1 DEF Holds
    <2>5. Balanced(n)
      <3>1. (IF Holds(n)' THEN 1 ELSE 0) = (IF Holds(n) THEN 1 ELSE 0)
        BY <2>4
      <3> QED
        BY <1>1, <2>1, <2>4, <3>1 DEF Balanced
    <2> QED
      BY <2>1, <2>3, <2>5, BalanceKept
  <1> QED
    BY <1>3, <1>4, <1>5 DEF Next

(* The caller's thread: only it runs, but for those it left.               *)
(* (MediaStream.start, AbstractPacketizer.start and stop.)                 *)
LEMMA OneThreadIsKept ==
    ASSUME TypeOK, OneThread, [Next]_vars
    PROVE  OneThread'
  <1> USE StartsAssumption DEF TypeOK, OneThread, Runs, Threads, historyVars, threadVars, callerVars
  <1>1. ASSUME NEW n \in Threads, Step(n)
        PROVE  OneThread'
    <2>1. pc[n] # "none" /\ pc[n] # "ended"
      BY <1>1
      DEF Step, OwnStep, BytesCome, SkipTest, Seeks, LoopTest, ReadsUnit, ReadsNothing, ReadFails,
          Inputs, Requests, Fills, FillReads, Commits, Advances, Wraps, Measures, Reports, NoReport
    <2>2. PICK to : pc' = [pc EXCEPT ![n] = to]
      BY <1>1, OneMoves
    <2>3. UNCHANGED <<t, is, caller, left, told>>
      BY <1>1, OneMoves
    <2>4. \A m \in Threads : Runs(m)' => Runs(m)
      BY <2>1, <2>2
    <2>5. \A m \in Threads : is < m => pc'[m] = "none"
      BY <2>1, <2>2
    <2> QED
      BY <2>3, <2>4, <2>5
  <1>2. CASE Start
    BY <1>2 DEF Start
  <1>3. CASE CloseInput \/ StopRecorder \/ RecorderEnds \/ BufferFreed
    BY <1>3 DEF CloseInput, StopRecorder, RecorderEnds, BufferFreed
  <1>4. CASE Interrupt
    BY <1>4 DEF Interrupt
  <1>5. CASE Join
    BY <1>5 DEF Join
  <1>6. CASE UNCHANGED vars
    BY <1>6 DEF vars
  <1> QED
    BY <1>1, <1>2, <1>3, <1>4, <1>5, <1>6 DEF Next

(* Each thread packs its own stream's bytes, unless it was left behind: it *)
(* reads the one the field names, which the caller's thread was made for.  *)
(* (AbstractPacketizer.fill, H264Packetizer.fill.)                         *)
LEMMA OwnSourceIsKept ==
    ASSUME TypeOK, OneThread, OwnSource, [Next]_vars
    PROVE  OwnSource'
  <1> USE DEF TypeOK, OwnSource, historyVars, packetVars, threadVars, localVars, callerVars
  <1>1. ASSUME NEW n \in Threads, Step(n)
        PROVE  OwnSource'
    <2>1. /\ reading' \in {reading, [reading EXCEPT ![n] = 0]}
          /\ UNCHANGED strayed \/ (Runs(n) /\ Strays(n))
      <3> USE DEF Continues, Ends, Runs, Returns
      <3>1. CASE SkipTest(n) \/ Seeks(n) \/ LoopTest(n) \/ ReadFails(n) \/ ReadsNothing(n)
        BY <3>1 DEF SkipTest, Seeks, LoopTest, ReadFails, ReadsNothing
      <3>2. CASE ReadsUnit(n) \/ FillReads(n)
        BY <3>2 DEF ReadsUnit, FillReads
      <3>3. CASE Requests(n) \/ Fills(n)
        BY <3>3 DEF Requests, TakesBuffer, Fills
      <3>4. CASE Commits(n) \/ Advances(n) \/ Wraps(n)
        BY <3>4 DEF Commits, Advances, Wraps, Committed
      <3>5. CASE Measures(n) \/ Reports(n) \/ NoReport(n)
        BY <3>5 DEF Measures, Reports, NoReport, Unreported
      <3> QED
        BY <1>1, <3>1, <3>2, <3>3, <3>4, <3>5 DEF Step, OwnStep, BytesCome
    <2>2. left' = left
      BY <1>1, OneMoves
    <2>3. n \notin left /\ Runs(n) => n = is /\ reading[n] = 0
      BY DEF OneThread, Threads
    <2>4. strayed' = {}
      BY <2>1, <2>3 DEF Strays, Source
    <2> QED
      BY <2>1, <2>2, <2>4
  <1>2. CASE Start
    <2>1. \A n \in Threads : pc[n] \in Inputs => n \in left
      <3>1. t = 0 /\ t \notin Threads
        BY <1>2 DEF Start, OneThread, Threads
      <3>2. \A n \in Threads : pc[n] \in Inputs => Runs(n)
        BY DEF Runs, Inputs
      <3> QED
        BY <3>1, <3>2 DEF OneThread
    <2> QED
      BY <1>2, <2>1 DEF Start
  <1>3. CASE CloseInput \/ StopRecorder \/ RecorderEnds \/ BufferFreed \/ UNCHANGED vars
    BY <1>3 DEF CloseInput, StopRecorder, RecorderEnds, BufferFreed, vars
  <1>4. CASE Interrupt \/ Join
    BY <1>4 DEF Interrupt, Join
  <1> QED
    BY <1>1, <1>2, <1>3, <1>4 DEF Next

(* The flag: a thread that was told to stop has it, or swallowed it, and   *)
(* no way leads past two commits without a look at it.                     *)
(* (H264Packetizer.run and send, AMRNBPacketizer.run, acquire().)          *)
LEMMA FlaggedIsKept ==
    ASSUME TypeOK, OneThread, Flagged, [Next]_vars
    PROVE  Flagged'
  <1> USE DEF TypeOK, historyVars, threadVars, localVars, callerVars
  <1>1. ASSUME NEW n \in Threads, Step(n)
        PROVE  Flagged'
    <2>1. kind' = kind /\ told' = told
      BY <1>1, OneMoves
    <2>2. \A m \in Threads \ {n} :
              /\ pc'[m] = pc[m] /\ interrupted'[m] = interrupted[m] /\ since'[m] = since[m]
              /\ m \in swallowed' <=> m \in swallowed
      <3> USE DEF Goes, Continues, Ends
      <3>1. CASE SkipTest(n) \/ Seeks(n) \/ LoopTest(n)
        BY <3>1 DEF SkipTest, Seeks, LoopTest
      <3>2. CASE ReadsUnit(n) \/ ReadsNothing(n) \/ ReadFails(n)
        BY <3>2 DEF ReadsUnit, ReadsNothing, ReadFails
      <3>3. CASE Requests(n)
        BY <3>3 DEF Requests, TakesBuffer
      <3>4. CASE Fills(n) \/ FillReads(n)
        BY <3>4 DEF Fills, FillReads
      <3>5. CASE Commits(n) \/ Advances(n) \/ Wraps(n)
        BY <3>5 DEF Commits, Advances, Wraps, Committed
      <3>6. CASE Measures(n) \/ Reports(n) \/ NoReport(n)
        BY <3>6 DEF Measures, Reports, NoReport, Unreported
      <3> QED
        BY <1>1, <3>1, <3>2, <3>3, <3>4, <3>5, <3>6 DEF Step, OwnStep, BytesCome
    <2>3. \A m \in Threads \ {n} : (Runs(m)' <=> Runs(m)) /\ (Past(m)' <=> Past(m))
      BY <2>1, <2>2 DEF Runs, Past
    <2>4. /\ interrupted[n]' => n \in told
          /\ n \in told /\ Runs(n)' => interrupted[n]' \/ n \in swallowed'
          /\ n \notin told => since[n]' = 0
          /\ n \notin swallowed' => since[n]' = 0 \/ (since[n]' = 1 /\ Past(n)')
      <3> USE DEF Flagged, Runs, Past, Goes, Continues, Ends
      <3>1. CASE SkipTest(n)
        BY <3>1 DEF SkipTest
      <3>2. CASE Seeks(n)
        BY <3>2 DEF Seeks
      <3>3. CASE LoopTest(n)
        BY <3>3 DEF LoopTest
      <3>4. CASE ReadsUnit(n)
        BY <3>4 DEF ReadsUnit
      <3>5. CASE ReadsNothing(n)
        BY <3>5 DEF ReadsNothing
      <3>6. CASE ReadFails(n)
        BY <3>6 DEF ReadFails, Inputs
      <3>7. CASE Requests(n)
        BY <3>7 DEF Requests, TakesBuffer
      <3>8. CASE Fills(n)
        BY <3>8 DEF Fills
      <3>9. CASE FillReads(n)
        BY <3>9 DEF FillReads
      <3>10. CASE Commits(n)
        BY <3>10 DEF Commits
      <3>11. CASE Advances(n) \/ Wraps(n)
        BY <3>11 DEF Advances, Wraps, Committed
      <3>12. CASE Measures(n)
        BY <3>12 DEF Measures
      <3>13. CASE Reports(n) \/ NoReport(n)
        BY <3>13 DEF Reports, NoReport, Unreported
      <3> QED
        BY <1>1, <3>1, <3>2, <3>3, <3>4, <3>5, <3>6, <3>7, <3>8, <3>9, <3>10, <3>11, <3>12, <3>13
        DEF Step, OwnStep, BytesCome
    <2> QED
      BY <2>1, <2>2, <2>3, <2>4 DEF Flagged
  <1>2. CASE Start
    <2>1. PICK n \in Threads : n = is' /\ n \notin told
      BY <1>2, StartsAssumption DEF Start, OneThread, Threads
    <2> QED
      BY <1>2, <2>1 DEF Start, Flagged, Runs, Past
  <1>3. CASE Interrupt
    BY <1>3 DEF Interrupt, Flagged, Runs, Past
  <1>4. CASE CloseInput \/ Join \/ StopRecorder \/ RecorderEnds \/ BufferFreed \/ UNCHANGED vars
    BY <1>4
    DEF CloseInput, Join, StopRecorder, RecorderEnds, BufferFreed, vars, Flagged, Runs, Past
  <1> QED
    BY <1>1, <1>2, <1>3, <1>4 DEF Next

(* The clock: what is counted went by, but for what two threads count of   *)
(* the same time.  (AMRNBPacketizer.run: delta += now-oldtime.)            *)
LEMMA CountedIsKept ==
    ASSUME TypeOK, Counted, [Next]_vars
    PROVE  Counted'
  <1> USE IntervalAssumption DEF TypeOK, Counted, historyVars, threadVars, callerVars
  <1>1. ASSUME NEW n \in Threads, Step(n)
        PROVE  Counted'
    <2>1. CASE Measures(n)
      BY <2>1 DEF Measures, AtMost
    <2>2. CASE Reports(n)
      BY <2>2 DEF Reports
    <2>3. CASE SkipTest(n) \/ Seeks(n) \/ LoopTest(n)
      BY <2>3 DEF SkipTest, Seeks, LoopTest
    <2>4. CASE ReadsUnit(n) \/ ReadsNothing(n) \/ ReadFails(n)
      BY <2>4 DEF ReadsUnit, ReadsNothing, ReadFails
    <2>5. CASE Requests(n) \/ Fills(n) \/ FillReads(n)
      <3>1. UNCHANGED <<kind, delta, gap, left, early>>
        BY <2>5 DEF Requests, Fills, FillReads
      <3> QED
        BY <3>1
    <2>6. CASE Commits(n) \/ Advances(n) \/ Wraps(n) \/ NoReport(n)
      BY <2>6 DEF Commits, Advances, Wraps, NoReport
    <2> QED
      BY <1>1, <2>1, <2>2, <2>3, <2>4, <2>5, <2>6 DEF Step, OwnStep, BytesCome
  <1>2. CASE Interrupt
    BY <1>2 DEF Interrupt
  <1>3. CASE Join
    BY <1>3 DEF Join
  <1>4. CASE Start \/ CloseInput \/ StopRecorder \/ RecorderEnds \/ BufferFreed \/ UNCHANGED vars
    BY <1>4 DEF Start, CloseInput, StopRecorder, RecorderEnds, BufferFreed, vars
  <1> QED
    BY <1>1, <1>2, <1>3, <1>4 DEF Next

(* What a step of a thread does to the packets being made, if it neither   *)
(* requests, fills nor commits.                                            *)
Quiet(n) ==
    /\ UNCHANGED <<kind, buffer, mBufferIn, slots, shared, at>> \/
          /\ UNCHANGED <<kind, buffer, mBufferIn, slots, shared>>
          /\ at' = [at EXCEPT ![n] = 0] /\ pc'[n] = "ended"
    /\ \E to : pc' = [pc EXCEPT ![n] = to]
    /\ Makes(n)' => Makes(n)
    /\ Holds(n)' => Holds(n) /\ pc'[n] \notin {"read", "read payload"}

LEMMA QuietStep ==
    ASSUME TypeOK, NEW n \in Threads,
           \/ SkipTest(n) \/ Seeks(n) \/ LoopTest(n) \/ ReadsUnit(n) \/ ReadsNothing(n)
           \/ ReadFails(n) \/ Measures(n) \/ Reports(n) \/ NoReport(n)
    PROVE  Quiet(n)
  <1>0. n \in DOMAIN pc /\ pc = [pc EXCEPT ![n] = pc[n]]
    BY DEF TypeOK
  <1> USE <1>0 DEF Quiet, Makes, Holds, Goes, Continues, Ends, historyVars, packetVars,
              callerVars, localVars, ringVars, indexVars
  <1>1. CASE SkipTest(n) \/ Seeks(n)
    BY <1>1 DEF SkipTest, Seeks
  <1>2. CASE LoopTest(n)
    BY <1>2 DEF LoopTest
  <1>3. CASE ReadsUnit(n) \/ ReadsNothing(n)
    BY <1>3 DEF ReadsUnit, ReadsNothing
  <1>4. CASE ReadFails(n)
    BY <1>4 DEF ReadFails
  <1>5. CASE Measures(n)
    BY <1>5 DEF Measures
  <1>6. CASE Reports(n) \/ NoReport(n)
    <2>1. /\ UNCHANGED <<kind, buffer, mBufferIn, slots, shared>> /\ pc[n] = "report"
          /\ Ends(n) \/ Unreported(n)
      BY <1>6 DEF Reports, NoReport
    <2>2. CASE Ends(n)
      BY <2>1, <2>2
    <2>3. CASE Unreported(n)
      <3>1. /\ UNCHANGED <<kind, buffer, mBufferIn, slots, shared, at>>
            /\ \E to : pc' = [pc EXCEPT ![n] = to]
            /\ pc'[n] \in (IF kind = "h264" THEN {"loop", "sets"} ELSE {"commit"})
        BY <2>1, <2>3 DEF Unreported
      <3>2. CASE kind = "h264"
        BY <3>1, <3>2
      <3>3. CASE kind # "h264" /\ kind \in {"h264", "amr"}
        BY <2>1, <3>1, <3>3
      <3>4. kind \in {"h264", "amr"}
        BY DEF TypeOK
      <3> QED
        BY <3>2, <3>3, <3>4
    <2> QED
      BY <2>1, <2>2, <2>3
  <1> QED
    BY <1>1, <1>2, <1>3, <1>4, <1>5, <1>6

(* Packets stay apart through such a step ...                              *)
LEMMA QuietKeepsApart ==
    ASSUME TypeOK, PacketsApart, NEW n \in Threads, Quiet(n)
    PROVE  PacketsApart'
  <1>1. \A m \in Threads \ {n} : /\ pc'[m] = pc[m] /\ at'[m] = at[m]
                                 /\ (Makes(m)' <=> Makes(m)) /\ (Holds(m)' <=> Holds(m))
    BY DEF TypeOK, Quiet, Makes, Holds
  <1>2. UNCHANGED <<buffer, mBufferIn, slots, shared>>
    BY DEF Quiet
  <1>3. \A m \in Threads : Makes(m)' => Makes(m)
    BY <1>1 DEF Quiet
  <1>4. \A m \in Threads : Holds(m)' => Holds(m)
    BY <1>1 DEF Quiet
  <1>5. pc'[n] \in {"read", "read payload"} => ~Holds(n)'
    BY DEF Quiet
  <1>6. \A m1, m2 \in Threads : m1 # m2 /\ Makes(m1)' /\ Makes(m2)' => m1 \in shared'
    BY <1>2, <1>3 DEF PacketsApart
  <1>7. ASSUME NEW m \in Threads \ shared', Holds(m)'
        PROVE  /\ mBufferIn' \in Slots /\ buffer' = mBufferIn' /\ slots'[mBufferIn'] = {m}
               /\ pc'[m] \in {"read", "read payload"} => at'[m] = mBufferIn'
    <2>1. /\ mBufferIn \in Slots /\ buffer = mBufferIn /\ slots[mBufferIn] = {m}
          /\ pc[m] \in {"read", "read payload"} => at[m] = mBufferIn
      BY <1>2, <1>4, <1>7 DEF PacketsApart
    <2> QED
      BY <1>1, <1>2, <1>5, <1>7, <2>1
  <1>8. Slots' = Slots
    BY DEF Slots
  <1> QED
    BY <1>6, <1>7, <1>8 DEF PacketsApart

(* ... and through every other: whoever takes a buffer while others make a *)
(* packet is known to, and so are they.                                    *)
(* (RtpSocket.requestBuffer and commitBuffer, AbstractPacketizer.buffer.)  *)
LEMMA PacketsApartIsKept ==
    ASSUME TypeOK, OneThread, PacketsApart, [Next]_vars
    PROVE  PacketsApart'
  <1> USE DEF historyVars, packetVars, threadVars, localVars, ringVars, indexVars, callerVars
  <1>1. ASSUME NEW n \in Threads, Step(n)
        PROVE  PacketsApart'
    <2>1. CASE \/ SkipTest(n) \/ Seeks(n) \/ LoopTest(n) \/ ReadsUnit(n) \/ ReadsNothing(n)
               \/ ReadFails(n) \/ Measures(n) \/ Reports(n) \/ NoReport(n)
      BY <2>1, QuietStep, QuietKeepsApart
    <2>2. kind' = kind
      BY <1>1, OneMoves DEF callerVars
    <2>3. PICK to : pc' = [pc EXCEPT ![n] = to]
      BY <1>1, OneMoves
    <2>4. \A m \in Threads \ {n} : /\ pc'[m] = pc[m]
                                   /\ (Makes(m)' <=> Makes(m)) /\ (Holds(m)' <=> Holds(m))
      BY <2>2, <2>3 DEF TypeOK, Makes, Holds
    <2>5. CASE Requests(n)
      <3>1. CASE UNCHANGED <<buffer, slots, shared>> /\ Ends(n)
        <4>1. Quiet(n)
          BY <2>2, <2>3, <2>5, <3>1 DEF Requests, Quiet, Ends, Goes, Makes, Holds, TypeOK
        <4> QED
          BY <4>1, QuietKeepsApart
      <3>2. CASE TakesBuffer(n) /\ ~NoSlot
        <4>1. /\ buffer' = mBufferIn /\ mBufferIn' = mBufferIn /\ mBufferIn \in Slots
              /\ pc'[n] = "fill" /\ at' = at
          BY <2>5, <3>2, BuffersAssumption
          DEF Requests, TakesBuffer, NoSlot, Goes, TypeOK, Slots
        <4>2. CASE Others(n) = {}
          <5>1. slots'[mBufferIn] = {n} /\ shared' = shared \ {n}
            BY <3>2, <4>1, <4>2 DEF TakesBuffer, TypeOK
          <5>2. \A m \in Threads \ {n} : ~Makes(m)'
            BY <2>4, <4>2 DEF Others
          <5>3. \A m \in Threads \ {n} : ~Holds(m)'
            BY <5>2 DEF Makes
          <5> QED
            BY <4>1, <5>1, <5>2, <5>3 DEF PacketsApart, Slots
        <4>3. CASE Others(n) # {}
          <5>1. shared' = shared \cup Others(n) \cup {n}
            BY <3>2, <4>3 DEF TakesBuffer
          <5>2. \A m \in Threads : Makes(m)' => m \in shared'
            BY <2>4, <5>1 DEF Others
          <5>3. \A m \in Threads : Holds(m)' => Makes(m)'
            BY DEF Makes
          <5> QED
            BY <5>2, <5>3 DEF PacketsApart
        <4> QED
          BY <4>2, <4>3
      <3> QED
        BY <2>5, <3>1, <3>2 DEF Requests
    <2>6. CASE Fills(n) \/ FillReads(n)
      <3>1. Holds(n) /\ Makes(n) /\ UNCHANGED <<buffer, mBufferIn, shared>>
        BY <2>6 DEF Fills, FillReads, Holds, Makes
      <3>2. PICK i \in Slots : slots' = [slots EXCEPT ![i] = @ \cup {n}]
                               /\ (i = buffer \/ (pc[n] \in {"read", "read payload"} /\ i = at[n]))
        BY <2>6 DEF Fills, FillReads, TypeOK
      <3>3. \A m \in Threads \ {n} : at'[m] = at[m]
        BY <2>6 DEF Fills, FillReads, TypeOK
      <3>4. pc'[n] \in {"read", "read payload"} =>
               \/ at'[n] = buffer
               \/ pc[n] \in {"read", "read payload"} /\ at'[n] = at[n]
        BY <2>6 DEF Fills, FillReads, Goes, TypeOK
      <3>5. ASSUME NEW m \in Threads \ shared', Holds(m)'
            PROVE  /\ mBufferIn' \in Slots' /\ buffer' = mBufferIn' /\ slots'[mBufferIn'] = {m}
                   /\ pc'[m] \in {"read", "read payload"} => at'[m] = mBufferIn'
        <4>1. m = n
          BY <2>4, <3>1, <3>5 DEF PacketsApart, Makes
        <4>2. /\ mBufferIn \in Slots /\ buffer = mBufferIn /\ slots[mBufferIn] = {n}
              /\ pc[n] \in {"read", "read payload"} => at[n] = mBufferIn
          BY <3>1, <3>5, <4>1 DEF PacketsApart
        <4>3. slots'[mBufferIn] = {n}
          BY <3>2, <4>2 DEF TypeOK
        <4> QED
          BY <3>1, <3>4, <4>1, <4>2, <4>3 DEF Slots
      <3>6. \A m \in Threads : Makes(m)' => Makes(m)
        BY <2>4, <3>1
      <3>7. \A m1, m2 \in Threads : m1 # m2 /\ Makes(m1)' /\ Makes(m2)' => m1 \in shared'
        BY <3>1, <3>6 DEF PacketsApart
      <3> QED
        BY <3>5, <3>7 DEF PacketsApart
    <2>7. CASE Commits(n) \/ Advances(n) \/ Wraps(n)
      <3>1. Makes(n) /\ ~Holds(n)' /\ shared \ {n} \subseteq shared'
            /\ (shared' = shared \/ ~Makes(n)')
        BY <2>2, <2>7
        DEF Commits, Advances, Wraps, Committed, Continues, Ends, Goes, Makes, Holds, TypeOK
      <3>2. \A m \in Threads \ {n} : Makes(m)' => m \in shared'
        BY <2>4, <3>1 DEF PacketsApart
      <3>3. \A m \in Threads : Holds(m)' => Makes(m)'
        BY DEF Makes
      <3>4. \A m \in Threads : Holds(m)' => m \in shared'
        BY <3>1, <3>2, <3>3
      <3>5. \A m1, m2 \in Threads : m1 # m2 /\ Makes(m1)' /\ Makes(m2)' => m1 \in shared'
        <4>1. ASSUME NEW m \in Threads, m # n, Makes(m)', Makes(n)'
              PROVE  n \in shared'
          BY <2>4, <3>1, <4>1 DEF PacketsApart
        <4> QED
          BY <3>2, <4>1
      <3> QED
        BY <3>4, <3>5 DEF PacketsApart
    <2> QED
      BY <1>1, <2>1, <2>5, <2>6, <2>7 DEF Step, OwnStep, BytesCome
  <1>2. CASE Start
    <2>1. PICK n \in Threads : n = is' /\ pc[n] = "none"
      BY <1>2, StartsAssumption DEF Start, OneThread, Threads, TypeOK
    <2>2. /\ UNCHANGED <<kind, buffer, mBufferIn, slots, shared, at>>
          /\ \E to : pc' = [pc EXCEPT ![n] = to]
          /\ pc'[n] \in {"skip", "seek"}
      BY <1>2, <2>1 DEF Start, TypeOK
    <2>3. Quiet(n)
      BY <2>2 DEF Quiet, Makes, Holds
    <2> QED
      BY <2>3, QuietKeepsApart
  <1>3. CASE \/ CloseInput \/ Interrupt \/ Join \/ StopRecorder \/ RecorderEnds \/ BufferFreed
             \/ UNCHANGED vars
    <2>1. UNCHANGED <<kind, pc, buffer, mBufferIn, slots, shared, at>>
      BY <1>3
      DEF CloseInput, Interrupt, Join, StopRecorder, RecorderEnds, BufferFreed, vars
    <2> QED
      BY <2>1 DEF PacketsApart, Makes, Holds, Slots
  <1> QED
    BY <1>1, <1>2, <1>3 DEF Next

(* The index: a thread alone in commitBuffer moves it by one, round the    *)
(* ring, once for the packet it queues.                                    *)
(* (RtpSocket.commitBuffer: ++mBufferIn; RtpSocket.run: ++mBufferOut.)     *)
LEMMA RingAgreesIsKept ==
    ASSUME TypeOK, OneThread, RingAgrees, queued' \in 0 .. BufferCount, [Next]_vars
    PROVE  RingAgrees'
  <1> USE DEF historyVars, packetVars, threadVars, localVars, ringVars, indexVars, callerVars
  <1>0. /\ BufferCount \in Nat \ {0} /\ mBufferIn \in 0 .. BufferCount
        /\ mBufferOut \in 0 .. BufferCount - 1 /\ queued \in 0 .. BufferCount
        /\ \A n \in Threads : at[n] \in 0 .. BufferCount - 1
    BY BuffersAssumption DEF TypeOK, Slots
  <1>1. ASSUME NEW n \in Threads, Step(n)
        PROVE  RingAgrees'
    <2>1. PICK to : pc' = [pc EXCEPT ![n] = to]
      BY <1>1, OneMoves
    <2>2. \A m \in Threads \ {n} : pc'[m] = pc[m]
      BY <2>1 DEF TypeOK
    <2>3. CASE ~InCommit(n) /\ ~InCommit(n)'
      <3>1. /\ UNCHANGED <<mBufferIn, mBufferOut, queued, torn>>
            /\ \A m \in Threads \ {n} : at'[m] = at[m]
        <4> USE DEF TypeOK, InCommit, Goes, Ends, Continues
        <4>1. CASE SkipTest(n) \/ Seeks(n) \/ LoopTest(n)
          BY <4>1 DEF SkipTest, Seeks, LoopTest
        <4>2. CASE ReadsUnit(n) \/ ReadFails(n) \/ ReadsNothing(n)
          BY <4>2 DEF ReadsUnit, ReadFails, ReadsNothing
        <4>3. CASE Requests(n) \/ Fills(n) \/ FillReads(n)
          BY <4>3 DEF Requests, TakesBuffer, Fills, FillReads
        <4>4. CASE Commits(n) \/ Advances(n) \/ Wraps(n)
          BY <2>3, <4>4 DEF Commits, Advances, Wraps, Committed
        <4>5. CASE Measures(n) \/ Reports(n) \/ NoReport(n)
          BY <4>5 DEF Measures, Reports, NoReport, Unreported
        <4> QED
          BY <1>1, <4>1, <4>2, <4>3, <4>4, <4>5 DEF Step, OwnStep, BytesCome
      <3>2. \A m \in Threads : /\ pc'[m] = "advance" <=> pc[m] = "advance"
                               /\ pc'[m] = "wrap" <=> pc[m] = "wrap"
                               /\ InCommit(m)' <=> InCommit(m)
        BY <2>2, <2>3 DEF InCommit
      <3>3. \A m \in Threads : InCommit(m)' => at'[m] = at[m]
        BY <2>3, <3>1
      <3> QED
        BY <3>1, <3>2, <3>3 DEF RingAgrees, InCommit, Around, Slots
    <2>4. CASE Commits(n) /\ InCommit(n)'
      <3>1. SUFFICES ASSUME ~torn'
                     PROVE  RingAgrees'
        BY DEF RingAgrees
      <3>2. /\ mBufferIn # BufferCount /\ queued' = queued + 1 /\ pc[n] = "commit"
            /\ pc'[n] = "advance" /\ at'[n] = mBufferIn /\ UNCHANGED <<mBufferIn, mBufferOut>>
            /\ ~torn /\ \A m \in Threads \ {n} : ~InCommit(m)
        BY <2>4, <3>1 DEF Commits, NoSlot, Ends, Goes, InCommit, TypeOK
      <3>3. /\ \A m \in Threads \ {n} : ~InCommit(m)'
            /\ \E m \in Threads : pc'[m] = "advance"
            /\ ~\E m \in Threads : pc[m] = "advance"
        BY <2>2, <3>2 DEF InCommit
      <3>4. Around(mBufferIn) = Around(mBufferOut + queued)
        BY <1>0, <3>2, <3>3 DEF RingAgrees
      <3>5. Around(mBufferIn' + 1) = Around(mBufferOut' + queued')
        BY <1>0, <3>2, <3>4 DEF Around
      <3>6. \A m \in Threads : InCommit(m)' => m = n /\ pc'[m] = "advance"
        BY <3>2, <3>3
      <3>7. mBufferIn' \in Slots'
        BY <1>0, <3>2 DEF Slots
      <3>8. \A m \in Threads : pc'[m] = "advance" => at'[m] = mBufferIn' /\ mBufferIn' \in Slots'
        BY <3>2, <3>6, <3>7 DEF InCommit
      <3>9. \A m \in Threads : pc'[m] # "wrap"
        BY <3>6 DEF InCommit
      <3> QED
        BY <3>3, <3>5, <3>6, <3>8, <3>9 DEF RingAgrees, Around
    <2>5. CASE Advances(n)
      <3>1. SUFFICES ASSUME ~torn'
                     PROVE  RingAgrees'
        BY DEF RingAgrees
      <3>2. /\ ~torn /\ pc[n] = "advance" /\ UNCHANGED <<mBufferOut, queued>>
            /\ mBufferIn' = at[n] + 1
            /\ pc'[n] # "advance" /\ (pc'[n] = "wrap" => mBufferIn' = BufferCount)
        BY <2>5, <3>1 DEF Advances, Committed, Continues, Goes, TypeOK
      <3>3. at[n] = mBufferIn /\ mBufferIn \in Slots /\ \A m \in Threads \ {n} : ~InCommit(m)
        BY <3>2 DEF RingAgrees, InCommit
      <3>4. \A m \in Threads \ {n} : ~InCommit(m)'
        BY <2>2, <3>3 DEF InCommit
      <3>5. Around(mBufferIn + 1) = Around(mBufferOut + queued)
        BY <3>2 DEF RingAgrees
      <3>6. ~\E m \in Threads : pc'[m] = "advance"
        BY <3>2, <3>4 DEF InCommit
      <3>7. Around(mBufferIn' + 0) = Around(mBufferOut' + queued')
        BY <1>0, <3>2, <3>3, <3>5
      <3> QED
        BY <3>2, <3>4, <3>6, <3>7 DEF RingAgrees, InCommit, Around
    <2>6. CASE Wraps(n)
      <3>1. SUFFICES ASSUME ~torn'
                     PROVE  RingAgrees'
        BY DEF RingAgrees
      <3>2. /\ ~torn /\ pc[n] = "wrap" /\ UNCHANGED <<mBufferOut, queued>>
            /\ mBufferIn' = 0 /\ ~InCommit(n)'
        BY <2>6, <3>1 DEF Wraps, Committed, Goes, InCommit, TypeOK
      <3>3. mBufferIn = BufferCount /\ \A m \in Threads \ {n} : ~InCommit(m)
        BY <3>2 DEF RingAgrees, InCommit
      <3>4. \A m \in Threads : ~InCommit(m)'
        BY <2>2, <3>2, <3>3 DEF InCommit
      <3>5. ~\E m \in Threads : pc[m] = "advance"
        BY <3>2, <3>3 DEF InCommit
      <3>6. Around(mBufferIn + 0) = Around(mBufferOut + queued)
        BY <3>2, <3>5 DEF RingAgrees
      <3>7. Around(mBufferIn' + 0) = Around(mBufferOut' + queued')
        BY <1>0, <3>2, <3>3, <3>6 DEF Around
      <3> QED
        BY <3>4, <3>7 DEF RingAgrees, InCommit, Around
    <2>7. InCommit(n) => Advances(n) \/ Wraps(n)
      BY <1>1
      DEF InCommit, Step, OwnStep, BytesCome, SkipTest, Seeks, LoopTest, ReadsUnit, ReadsNothing,
          ReadFails, Inputs, Requests, Fills, FillReads, Commits, Measures, Reports, NoReport
    <2>8. InCommit(n)' => InCommit(n) \/ Commits(n)
      <3> USE DEF TypeOK, InCommit, Goes, Ends, Continues
      <3>1. CASE SkipTest(n) \/ Seeks(n) \/ LoopTest(n)
        BY <3>1 DEF SkipTest, Seeks, LoopTest
      <3>2. CASE ReadsUnit(n) \/ ReadFails(n) \/ ReadsNothing(n)
        BY <3>2 DEF ReadsUnit, ReadFails, ReadsNothing
      <3>3. CASE Requests(n) \/ Fills(n) \/ FillReads(n)
        BY <3>3 DEF Requests, TakesBuffer, Fills, FillReads
      <3>4. CASE Advances(n) \/ Wraps(n)
        BY <3>4 DEF Advances, Wraps
      <3>5. CASE Measures(n) \/ Reports(n) \/ NoReport(n)
        BY <3>5 DEF Measures, Reports, NoReport, Unreported
      <3> QED
        BY <1>1, <3>1, <3>2, <3>3, <3>4, <3>5 DEF Step, OwnStep, BytesCome
    <2> QED
      BY <2>3, <2>4, <2>5, <2>6, <2>7, <2>8
  <1>2. CASE Start
    <2>1. PICK n \in Threads : n = is' /\ pc[n] = "none"
      BY <1>2, StartsAssumption DEF Start, OneThread, Threads, TypeOK
    <2>2. /\ UNCHANGED <<mBufferIn, mBufferOut, queued, torn, at>>
          /\ \A m \in Threads \ {n} : pc'[m] = pc[m]
          /\ pc'[n] \in {"skip", "seek"}
      BY <1>2, <2>1 DEF Start, TypeOK
    <2>3. \A m \in Threads : /\ pc'[m] = "advance" <=> pc[m] = "advance"
                             /\ pc'[m] = "wrap" <=> pc[m] = "wrap"
      BY <2>1, <2>2
    <2> QED
      BY <2>2, <2>3 DEF RingAgrees, InCommit, Around, Slots
  <1>3. CASE BufferFreed
    <2>1. /\ UNCHANGED <<pc, at, mBufferIn, torn>>
          /\ queued' = queued - 1 /\ queued > 0 /\ mBufferOut' = Around(mBufferOut + 1)
      BY <1>3 DEF BufferFreed
    <2>2. Around(mBufferOut' + queued') = Around(mBufferOut + queued)
      BY <1>0, <2>1 DEF Around
    <2> QED
      BY <2>1, <2>2 DEF RingAgrees, InCommit, Around, Slots
  <1>4. CASE CloseInput \/ Interrupt \/ Join \/ StopRecorder \/ RecorderEnds \/ UNCHANGED vars
    <2>1. UNCHANGED <<pc, at, mBufferIn, mBufferOut, queued, torn>>
      BY <1>4 DEF CloseInput, Interrupt, Join, StopRecorder, RecorderEnds, vars
    <2> QED
      BY <2>1 DEF RingAgrees, InCommit, Around, Slots
  <1> QED
    BY <1>1, <1>2, <1>3, <1>4 DEF Next

(* Nobody makes a packet beside another while no thread was left.          *)
(* (AbstractPacketizer.stop.)                                              *)
LEMMA AloneIsKept ==
    ASSUME TypeOK, OneThread, Alone, [Next]_vars
    PROVE  Alone'
  <1> USE DEF historyVars, packetVars, threadVars, localVars, callerVars
  <1>1. left' = {} => left = {}
    <2>1. CASE \E n \in Threads : Step(n)
      BY <2>1, OneMoves
    <2>2. CASE ~\E n \in Threads : Step(n)
      BY <2>2
      DEF Next, Start, CloseInput, Interrupt, Join, StopRecorder, RecorderEnds, BufferFreed, vars
    <2> QED
      BY <2>1, <2>2
  <1>2. SUFFICES ASSUME left = {}, shared = {}, ~torn
                 PROVE  shared' = {} /\ ~torn'
    BY <1>1 DEF Alone
  <1>3. ASSUME NEW n \in Threads, Step(n)
        PROVE  shared' = {} /\ ~torn'
    <2>1. Runs(n)
      BY <1>3
      DEF Runs, Step, OwnStep, BytesCome, SkipTest, Seeks, LoopTest, ReadsUnit, ReadsNothing,
          ReadFails, Inputs, Requests, Fills, FillReads, Commits, Advances, Wraps, Measures,
          Reports, NoReport
    <2>2. \A m \in Threads \ {n} : ~Runs(m)
      BY <1>2, <2>1 DEF OneThread
    <2>3. Others(n) = {} /\ \A m \in Threads \ {n} : pc[m] \notin {"advance", "wrap"}
      BY <2>2 DEF Others, Makes, Holds, Runs
    <2>4. CASE SkipTest(n) \/ Seeks(n) \/ LoopTest(n) \/ ReadsUnit(n) \/ ReadsNothing(n)
      BY <1>2, <2>4 DEF SkipTest, Seeks, LoopTest, ReadsUnit, ReadsNothing
    <2>5. CASE Requests(n) \/ ReadFails(n)
      BY <1>2, <2>3, <2>5 DEF Requests, TakesBuffer, ReadFails
    <2>6. CASE Fills(n) \/ FillReads(n)
      <3>1. UNCHANGED <<shared, torn>>
        BY <2>6 DEF Fills, FillReads
      <3> QED
        BY <1>2, <3>1
    <2>8. CASE Commits(n)
      <3>1. torn' => torn \/ \E m \in Threads \ {n} : pc[m] \in {"advance", "wrap"}
        BY <2>8 DEF Commits
      <3>2. shared' = shared
        BY <2>8 DEF Commits
      <3> QED
        BY <1>2, <2>3, <3>1, <3>2
    <2>9. CASE Advances(n) \/ Wraps(n)
      BY <1>2, <2>9 DEF Advances, Wraps, Committed
    <2>7. CASE Measures(n) \/ Reports(n) \/ NoReport(n)
      BY <1>2, <2>7 DEF Measures, Reports, NoReport
    <2> QED
      BY <1>3, <2>4, <2>5, <2>6, <2>7, <2>8, <2>9 DEF Step, OwnStep, BytesCome
  <1>4. CASE ~\E n \in Threads : Step(n)
    BY <1>2, <1>4
    DEF Next, Start, CloseInput, Interrupt, Join, StopRecorder, RecorderEnds, BufferFreed, vars
  <1> QED
    BY <1>3, <1>4

(* Types; the bounds of the two counters follow from what they count.      *)
LEMMA TypeIsKept ==
    ASSUME TypeOK, OneThread, Flagged, Conserved, [Next]_vars
    PROVE  TypeOK'
  <1>1. permits' \in 0 .. BufferCount /\ queued' \in 0 .. BufferCount
    BY ConservedIsKept, WithinBounds
  <1> USE DEF historyVars, packetVars, threadVars, localVars, ringVars, indexVars, callerVars
  <1>2. ASSUME NEW n \in Threads, Step(n)
        PROVE  TypeOK'
    <2>1. UNCHANGED <<kind, caller, t, is, stream, told, left>>
      BY <1>2, OneMoves
    <2>2. pc' \in [Threads -> Places]
      <3>1. \E to \in Places : pc' = [pc EXCEPT ![n] = to]
        <4>0. pc[n] \in Places /\ pc = [pc EXCEPT ![n] = pc[n]]
          BY DEF TypeOK
        <4> USE <4>0 DEF Goes, Ends, Continues
        <4>1. CASE SkipTest(n) \/ Seeks(n) \/ LoopTest(n)
          BY <4>1 DEF SkipTest, Seeks, LoopTest, Places
        <4>2. CASE ReadsUnit(n) \/ ReadFails(n) \/ ReadsNothing(n)
          BY <4>2 DEF ReadsUnit, ReadFails, ReadsNothing, Places
        <4>3. CASE Requests(n)
          BY <4>3 DEF Requests, TakesBuffer, Places
        <4>4. CASE Fills(n) \/ FillReads(n)
          BY <4>4 DEF Fills, FillReads, Places
        <4>5. CASE Commits(n) \/ Advances(n) \/ Wraps(n)
          BY <4>5 DEF Commits, Advances, Wraps, Committed, Places
        <4>6. CASE Measures(n) \/ Reports(n) \/ NoReport(n)
          BY <4>6 DEF Measures, Reports, NoReport, Unreported, Places
        <4> QED
          BY <1>2, <4>1, <4>2, <4>3, <4>4, <4>5, <4>6 DEF Step, OwnStep, BytesCome
      <3> QED
        BY <3>1 DEF TypeOK
    <2>3. /\ interrupted' \in [Threads -> BOOLEAN]
          /\ reading' \in [Threads -> 0 .. MaxStarts]
          /\ sets' \subseteq Threads
      <3>0. /\ interrupted \in [Threads -> BOOLEAN] /\ sets \subseteq Threads
            /\ reading \in [Threads -> 0 .. MaxStarts] /\ 0 \in 0 .. MaxStarts
        BY StartsAssumption DEF TypeOK
      <3> USE <3>0 DEF Goes, Ends, Continues, Returns
      <3>1. CASE SkipTest(n) \/ Seeks(n) \/ LoopTest(n)
        BY <3>1 DEF SkipTest, Seeks, LoopTest
      <3>2. CASE ReadsUnit(n) \/ ReadFails(n) \/ ReadsNothing(n)
        BY <3>2 DEF ReadsUnit, ReadFails, ReadsNothing
      <3>3. CASE Requests(n) \/ Fills(n) \/ FillReads(n)
        BY <3>3 DEF Requests, TakesBuffer, Fills, FillReads
      <3>4. CASE Commits(n) \/ Advances(n) \/ Wraps(n)
        BY <3>4 DEF Commits, Advances, Wraps, Committed
      <3>5. CASE Measures(n) \/ Reports(n) \/ NoReport(n)
        BY <3>5 DEF Measures, Reports, NoReport, Unreported
      <3> QED
        BY <1>2, <3>1, <3>2, <3>3, <3>4, <3>5 DEF Step, OwnStep, BytesCome
    <2>4. /\ at' \in [Threads -> Slots]
          /\ buffer' \in Slots /\ mBufferIn' \in 0 .. BufferCount /\ mBufferOut' \in Slots
      <3>0. /\ 0 \in Slots /\ (mBufferIn # BufferCount => mBufferIn \in Slots)
            /\ at \in [Threads -> Slots] /\ buffer \in Slots
            /\ mBufferIn \in 0 .. BufferCount /\ mBufferOut \in Slots
        BY BuffersAssumption DEF TypeOK, Slots
      <3> USE <3>0 DEF Goes, Ends, Continues, Returns
      <3>1. CASE SkipTest(n) \/ Seeks(n) \/ LoopTest(n)
        BY <3>1 DEF SkipTest, Seeks, LoopTest
      <3>2. CASE ReadsUnit(n) \/ ReadFails(n) \/ ReadsNothing(n)
        BY <3>2 DEF ReadsUnit, ReadFails, ReadsNothing
      <3>3. CASE Requests(n) \/ Fills(n) \/ FillReads(n)
        BY <3>3 DEF Requests, TakesBuffer, NoSlot, Fills, FillReads
      <3>4. CASE Commits(n)
        BY <3>4 DEF Commits, NoSlot
      <3>5. CASE Advances(n) \/ Wraps(n)
        <4>1. at' = at \/ at' = [at EXCEPT ![n] = 0]
          BY <3>5 DEF Advances, Wraps, Committed
        <4>2. mBufferIn' \in {0, at[n] + 1}
          BY <3>5 DEF Advances, Wraps
        <4>3. mBufferIn' \in 0 .. BufferCount
          BY <4>2, BuffersAssumption DEF Slots
        <4>4. UNCHANGED <<buffer, mBufferOut>>
          BY <3>5 DEF Advances, Wraps
        <4> QED
          BY <4>1, <4>3, <4>4
      <3>6. CASE Measures(n) \/ Reports(n) \/ NoReport(n)
        BY <3>6 DEF Measures, Reports, NoReport, Unreported
      <3> QED
        BY <1>2, <3>1, <3>2, <3>3, <3>4, <3>5, <3>6 DEF Step, OwnStep, BytesCome
    <2>5. /\ delta' \in 0 .. Interval /\ gap' \in 0 .. Interval /\ early' \in BOOLEAN
          /\ since' \in [Threads -> 0 .. 2]
      <3> USE IntervalAssumption DEF TypeOK
      <3>1. CASE SkipTest(n) \/ Seeks(n) \/ LoopTest(n)
        BY <3>1 DEF SkipTest, Seeks, LoopTest
      <3>2. CASE ReadsUnit(n) \/ ReadFails(n) \/ ReadsNothing(n)
        BY <3>2 DEF ReadsUnit, ReadFails, ReadsNothing
      <3>3. CASE Requests(n) \/ Fills(n) \/ FillReads(n)
        BY <3>3 DEF Requests, Fills, FillReads
      <3>4. CASE Commits(n)
        BY <3>4 DEF Commits
      <3>5. CASE Advances(n) \/ Wraps(n) \/ NoReport(n)
        BY <3>5 DEF Advances, Wraps, NoReport
      <3>6. CASE Measures(n)
        BY <3>6 DEF Measures, AtMost
      <3>7. CASE Reports(n)
        BY <3>7 DEF Reports
      <3> QED
        BY <1>2, <3>1, <3>2, <3>3, <3>4, <3>5, <3>6, <3>7 DEF Step, OwnStep, BytesCome
    <2>6. /\ swallowed' \subseteq told /\ strayed' \subseteq Threads /\ shared' \subseteq Threads
          /\ slots' \in [Slots -> SUBSET Threads] /\ torn' \in BOOLEAN
      <3>0. /\ swallowed \subseteq told /\ strayed \subseteq Threads /\ shared \subseteq Threads
            /\ slots \in [Slots -> SUBSET Threads] /\ torn \in BOOLEAN
        BY DEF TypeOK
      <3> USE <3>0
      <3>1. CASE SkipTest(n) \/ Seeks(n) \/ LoopTest(n)
        BY <3>1 DEF SkipTest, Seeks, LoopTest, Flagged
      <3>2. CASE ReadsUnit(n) \/ ReadFails(n) \/ ReadsNothing(n)
        BY <3>2 DEF ReadsUnit, ReadFails, ReadsNothing, Strays
      <3>3. CASE Requests(n)
        BY <3>3 DEF Requests, TakesBuffer, Others
      <3>4. CASE Fills(n) \/ FillReads(n)
        <4>1. \E i : slots' = [slots EXCEPT ![i] = @ \cup {n}]
          BY <3>4 DEF Fills, FillReads
        <4>2. slots' \in [Slots -> SUBSET Threads]
          BY <4>1
        <4>3. UNCHANGED <<swallowed, shared, torn>> /\ strayed' \in {strayed, strayed \cup {n}}
          BY <3>4 DEF Fills, FillReads, Strays
        <4> QED
          BY <4>2, <4>3
      <3>5. CASE Commits(n)
        BY <3>5 DEF Commits
      <3>6. CASE Advances(n) \/ Wraps(n)
        BY <3>6 DEF Advances, Wraps, Committed
      <3>7. CASE Measures(n) \/ Reports(n) \/ NoReport(n)
        BY <3>7 DEF Measures, Reports, NoReport
      <3> QED
        BY <1>2, <3>1, <3>2, <3>3, <3>4, <3>5, <3>6, <3>7 DEF Step, OwnStep, BytesCome
    <2> QED
      BY <1>1, <2>1, <2>2, <2>3, <2>4, <2>5, <2>6 DEF TypeOK
  <1> USE DEF TypeOK
  <1>3. CASE Start
    <2>1. is' \in Threads /\ UNCHANGED <<kind, interrupted, at, sets, delta, ringVars, historyVars>>
      BY <1>3, StartsAssumption DEF Start, Threads
    <2>2. stream' \in [Threads -> {"none", "open", "ended", "closed"}] /\ pc' \in [Threads -> Places]
      BY <1>3 DEF Start, Places
    <2>3. reading' \in [Threads -> 0 .. MaxStarts]
      BY <1>3 DEF Start
    <2>4. is' \in 0 .. MaxStarts /\ t' = is' /\ caller' = "streaming"
      BY <1>3, <2>1 DEF Start, Threads
    <2> QED
      BY <1>1, <2>1, <2>2, <2>3, <2>4
  <1>4. CASE Interrupt
    <2>1. t \in Threads /\ 0 \in 0 .. MaxStarts
      BY <1>4, StartsAssumption DEF Interrupt, OneThread, Threads
    <2> QED
      BY <1>1, <1>4, <2>1 DEF Interrupt, Runs
  <1>5. CASE Join
    <2>1. t \in told /\ 0 \in 0 .. MaxStarts
      BY <1>5, StartsAssumption DEF Join, OneThread
    <2> QED
      BY <1>1, <1>5, <2>1 DEF Join
  <1>6. CASE BufferFreed
    <2>1. mBufferOut' \in Slots
      BY <1>6, BuffersAssumption DEF BufferFreed, Around, Slots
    <2> QED
      BY <1>1, <1>6, <2>1 DEF BufferFreed
  <1>7. CASE CloseInput \/ StopRecorder \/ RecorderEnds \/ UNCHANGED vars
    BY <1>1, <1>7 DEF CloseInput, StopRecorder, RecorderEnds, vars
  <1> QED
    BY <1>2, <1>3, <1>4, <1>5, <1>6, <1>7 DEF Next

-----------------------------------------------------------------------------
(* The theorems.                                                           *)

LEMMA InitIsRight == Init => IInv
  <1> SUFFICES ASSUME Init
               PROVE  IInv
    OBVIOUS
  <1> USE StartsAssumption, BuffersAssumption, IntervalAssumption DEF Init, Runs
  <1>1. TypeOK
    <2>1. /\ stream \in [Threads -> {"none", "open", "ended", "closed"}]
          /\ interrupted \in [Threads -> BOOLEAN] /\ since \in [Threads -> 0 .. 2]
      OBVIOUS
    <2>2. pc \in [Threads -> Places]
      BY DEF Places
    <2>3. /\ reading \in [Threads -> 0 .. MaxStarts] /\ t \in 0 .. MaxStarts
          /\ is \in 0 .. MaxStarts
      OBVIOUS
    <2>4. /\ at \in [Threads -> Slots] /\ buffer \in Slots /\ mBufferIn \in 0 .. BufferCount
          /\ mBufferOut \in Slots
      BY DEF Slots
    <2>9. early \in BOOLEAN
      OBVIOUS
    <2>5. /\ delta \in 0 .. Interval /\ gap \in 0 .. Interval
          /\ permits \in 0 .. BufferCount /\ queued \in 0 .. BufferCount
      OBVIOUS
    <2>6. /\ told \subseteq Threads /\ left \subseteq told /\ swallowed \subseteq told
          /\ sets \subseteq Threads /\ strayed \subseteq Threads /\ shared \subseteq Threads
      OBVIOUS
    <2>8. slots \in [Slots -> SUBSET Threads] /\ torn \in BOOLEAN
      <3>1. slots = [i \in Slots |-> {}] /\ {} \in SUBSET Threads
        OBVIOUS
      <3> QED
        BY <3>1, Zenon
    <2>7. kind \in {"h264", "amr"} /\ caller = "idle"
      OBVIOUS
    <2> QED
      BY <2>1, <2>2, <2>3, <2>4, <2>5, <2>6, <2>7, <2>8, <2>9 DEF TypeOK
  <1>2. OneThread /\ OwnSource /\ Flagged /\ Counted
    BY DEF OneThread, OwnSource, Flagged, Counted
  <1>3. Holders = {} /\ Ended = {}
    BY DEF Holders, Holds, Ended
  <1>4. Conserved
    BY <1>3, FS_EmptySet DEF Conserved
  <1>5. PacketsApart /\ Alone
    BY DEF PacketsApart, Makes, Holds, Alone
  <1>6. RingAgrees
    BY DEF RingAgrees, InCommit, Around
  <1> QED
    BY <1>1, <1>2, <1>4, <1>5, <1>6 DEF IInv

(* Every state of a run satisfies the invariant.                           *)
THEOREM Invariance == Spec => []IInv
  <1>1. IInv /\ [Next]_vars => IInv'
    <2> SUFFICES ASSUME IInv, [Next]_vars
                 PROVE  IInv'
      OBVIOUS
    <2>1. TypeOK' /\ OneThread' /\ OwnSource' /\ Flagged' /\ Counted' /\ Conserved'
      BY TypeIsKept, OneThreadIsKept, OwnSourceIsKept, FlaggedIsKept, CountedIsKept,
         ConservedIsKept
      DEF IInv
    <2>2. queued' \in 0 .. BufferCount
      BY <2>1 DEF TypeOK
    <2>3. PacketsApart' /\ RingAgrees' /\ Alone'
      BY <2>2, PacketsApartIsKept, RingAgreesIsKept, AloneIsKept DEF IInv
    <2> QED
      BY <2>1, <2>3 DEF IInv
  <1> QED
    BY InitIsRight, <1>1, PTL DEF Spec

(* Types: what is requested, queued and free is never more than there is.  *)
THEOREM TypeCorrect == Spec => []TypeOK
  <1>1. IInv => TypeOK
    BY DEF IInv
  <1> QED
    BY <1>1, Invariance, PTL

(* While every stop() found its thread ended, one thread runs; and one not *)
(* left behind reads the bytes of its own stream only.  Whose packet they  *)
(* get into is PacketsAreOwn's.  (AbstractPacketizer.start and stop.)      *)
THEOREM BytesAreOwn == Spec => []OwnBytes
  <1>1. IInv => OwnBytes
    <2> SUFFICES ASSUME IInv
                 PROVE  OwnBytes
      OBVIOUS
    <2> DEFINE R == {n \in Threads : Runs(n)}
    <2>1. ASSUME left = {}
          PROVE  Cardinality(R) <= 1
      <3>1. R \subseteq {t}
        BY <2>1 DEF IInv, OneThread
      <3>2. R = {} \/ R = {t}
        BY <3>1
      <3>3. Cardinality({}) = 0 /\ Cardinality({t}) = 1
        BY FS_EmptySet, FS_Singleton
      <3> HIDE DEF R
      <3> QED
        BY <3>2, <3>3
    <2> QED
      BY <2>1 DEF OwnBytes, IInv, OwnSource
  <1> QED
    BY <1>1, Invariance, PTL

(* A thread sends at most one packet after the interrupt it did not        *)
(* swallow.  (AbstractPacketizer.stop.)                                    *)
THEOREM StoppedSendNoMore == Spec => []SendsNoMore
  <1>1. IInv => SendsNoMore
    BY DEF IInv, Flagged, SendsNoMore
  <1> QED
    BY <1>1, Invariance, PTL

(* A packet is its thread's work alone, unless two threads made packets at *)
(* the same time, which takes one that outlived its stop(): those have the *)
(* same buffer.  (RtpSocket.requestBuffer, AbstractPacketizer.buffer.)     *)
THEOREM PacketsAreOwn == Spec => []OwnPackets
  <1>1. IInv => OwnPackets
    BY DEF IInv, PacketsApart, Alone, OwnPackets, Holds
  <1> QED
    BY <1>1, Invariance, PTL

(* The packets are committed where the socket's thread will look for them, *)
(* for a ring of any length, until two threads are in commitBuffer at once.*)
(* (RtpSocket.commitBuffer and run.)                                       *)
THEOREM RingStaysInStep == Spec => []RingInStep
  <1>1. IInv => RingInStep
    <2> SUFFICES ASSUME IInv, ~torn
                 PROVE  RingInStep
      BY DEF RingInStep
    <2> DEFINE A == {n \in Threads : pc[n] = "advance"}
    <2>1. \A n, m \in A : n = m
      BY DEF IInv, RingAgrees, InCommit
    <2>2. Cardinality(A) = IF \E n \in Threads : pc[n] = "advance" THEN 1 ELSE 0
      <3>1. CASE A = {}
        BY <3>1, FS_EmptySet
      <3>2. CASE A # {}
        <4>1. PICK n : n \in A
          BY <3>2
        <4>2. A = {n}
          BY <2>1, <4>1
        <4>3. Cardinality({n}) = 1
          BY FS_Singleton
        <4>4. \E k \in Threads : pc[k] = "advance"
          BY <4>1
        <4> HIDE DEF A
        <4> QED
          BY <4>2, <4>3, <4>4
      <3> QED
        BY <3>1, <3>2
    <2> HIDE DEF A
    <2> QED
      BY <2>2 DEF IInv, RingAgrees, RingInStep, A
  <1> QED
    BY <1>1, Invariance, PTL

(* A stop() keeps the stream before it out of the one after it, for any    *)
(* number of starts and stops and any ring, as far as the thread it left   *)
(* makes no packet at the time the next one does: bytes, packets and the   *)
(* ring, and what is sent after the stop().                                *)
(* (AbstractPacketizer.start and stop.)                                    *)
THEOREM StreamsAreApart == Spec => []StreamsStayApart
  <1>1. OwnBytes /\ OwnPackets /\ RingInStep /\ SendsNoMore => StreamsStayApart
    BY DEF StreamsStayApart
  <1> QED
    BY <1>1, BytesAreOwn, PacketsAreOwn, RingStaysInStep, StoppedSendNoMore, PTL

(* A thread that ends takes at most one buffer with it.                    *)
(* (H264Packetizer.run, AMRNBPacketizer.run.)                              *)
THEOREM BuffersAreKept == Spec => []OneBufferLost
  <1>1. IInv => OneBufferLost
    BY DEF IInv, Conserved, OneBufferLost, Holders, Ended
  <1> QED
    BY <1>1, Invariance, PTL

(* AMR's reports are an interval apart, unless threads overlap.            *)
(* (AMRNBPacketizer.run, setSenderReportsInterval.)                        *)
THEOREM ReportsAreApart == Spec => []ReportsApart
  <1>1. IInv => ReportsApart
    BY DEF IInv, Counted, ReportsApart
  <1> QED
    BY <1>1, Invariance, PTL

-----------------------------------------------------------------------------
(* The packets of a thread.  The invariant to prove UnitsArrive from says  *)
(* what the receiver has of a unit while its fragments are sent: exactly   *)
(* what was sent, since the first one, which alone bears the start bit.    *)

(* Half way through a unit, the receiver has the half. *)
HalfSent ==
    place = "send" =>
        /\ sum = 1 \/ (~Small /\ sum < naluLength)
        /\ startBit = (sum = 1)
        /\ sum # 1 => partial = [type |-> type, length |-> sum]

(* While it is sent, what is known of the unit in the stream. *)
KnownUnit ==
    place \in {"send", "sent"} => AsInStream /\ (naluLength = 0 /\ real # Nothing => ~inStep)

UnitInv == UnitsTypeOK /\ UnitsArrive /\ FragmentBits /\ HalfSent /\ KnownUnit

ParameterSets == {Sps, Pps}

-----------------------------------------------------------------------------
(* Parameter sets are units.  (H264Packetizer.run.)                        *)
LEMMA ParameterSetsAreUnits == Sps \in Units /\ Pps \in Units /\ Nothing \notin Units
  <1>1. 1 \in 1 .. MaxLength
    BY MaxLengthAssumption
  <1>2. Sps \in Units /\ Pps \in Units
    BY <1>1 DEF Sps, Pps, Units, Types, ParameterTypes, Slices
  <1>3. Nothing \notin Units
    BY NothingAssumption, MaxLengthAssumption DEF Units
  <1> QED
    BY <1>2, <1>3

(* A unit in one packet: what the receiver and the packet are after it.    *)
(* (H264Packetizer.send, and run for the parameter sets.)                  *)
LEMMA WholeUnit ==
    ASSUME NEW unit \in Units, unit.length <= Chunk, SendWhole(unit)
    PROVE  /\ received' = unit /\ partial' = Nothing
           /\ packet' \in [length : 0 .. MaxLength, start : BOOLEAN,
                           end : BOOLEAN, fragment : BOOLEAN, marker : BOOLEAN]
           /\ FragmentBits'
  BY ChunkAssumption, MaxLengthAssumption DEF SendWhole, Units, FragmentBits

(* The next piece of a unit: how long it is, and what that makes of sum.   *)
(* (H264Packetizer.send, the length given to fill.)                        *)
LEMMA Piece ==
    ASSUME UnitInv, place = "send", ~Small,
           NEW len, len = IF naluLength - sum > Chunk THEN Chunk ELSE naluLength - sum
    PROVE  /\ sum \in 1 .. MaxLength /\ naluLength \in 1 .. MaxLength
           /\ len \in 1 .. MaxLength /\ len <= Chunk
           /\ sum + len \in 2 .. naluLength
           /\ sum = 1 /\ sum + len >= naluLength => len = Chunk
  BY ChunkAssumption, MaxLengthAssumption DEF UnitInv, UnitsTypeOK, HalfSent, Small

(* A fragment of a unit begun: the receiver has sum bytes, or the unit.    *)
(* (H264Packetizer.send, the loop.)                                        *)
LEMMA Fragment ==
    ASSUME UnitInv, SendFragment
    PROVE  /\ sum' \in 2 .. naluLength
           /\ sum' < naluLength => /\ partial' = [type |-> type, length |-> sum']
                                   /\ received' = received
           /\ sum' >= naluLength => partial' = Nothing /\ received' = Unit
           /\ packet' \in [length : 0 .. MaxLength, start : BOOLEAN,
                           end : BOOLEAN, fragment : BOOLEAN, marker : BOOLEAN]
           /\ FragmentBits'
  <1> DEFINE len == IF naluLength - sum > Chunk THEN Chunk ELSE naluLength - sum
  <1>1. place = "send" /\ ~Small /\ sum' = sum + len
        /\ SendFragmentOf(len, startBit, sum' >= naluLength)
    BY DEF SendFragment
  <1>2. /\ sum \in 1 .. MaxLength /\ naluLength \in 1 .. MaxLength
        /\ len \in 1 .. MaxLength /\ len <= Chunk
        /\ sum + len \in 2 .. naluLength
        /\ sum = 1 /\ sum + len >= naluLength => len = Chunk
    BY <1>1, Piece
  <1>3. startBit = (sum = 1) /\ type \in Types
    BY <1>1 DEF UnitInv, HalfSent, UnitsTypeOK
  <1>4. sum # 1 => partial = [type |-> type, length |-> sum] /\ partial # Nothing
    <2>1. [type |-> type, length |-> sum] \in [type : Types, length : Nat]
      BY <1>2, <1>3, MaxLengthAssumption
    <2> QED
      BY <1>1, <2>1, NothingAssumption DEF UnitInv, HalfSent
  <1> HIDE DEF len
  <1> DEFINE before == IF startBit THEN 0
                       ELSE IF partial # Nothing /\ partial.type = type
                            THEN partial.length - 1 ELSE -1
  <1>5. before = sum - 1
    <2>1. CASE sum = 1
      <3>1. startBit
        BY <2>1, <1>3
      <3>2. before = 0
        BY <3>1, Zenon
      <3> QED
        BY <2>1, <3>2
    <2>2. CASE sum # 1
      <3>1. ~startBit /\ partial # Nothing
        BY <2>2, <1>3, <1>4
      <3>2. partial.type = type /\ partial.length = sum
        BY <2>2, <1>4
      <3> QED
        BY <3>1, <3>2
    <2> QED
      BY <2>1, <2>2
  <1>6. /\ packet' = [length |-> len, start |-> startBit,
                      end |-> sum' >= naluLength, fragment |-> TRUE,
                      marker |-> sum' >= naluLength]
        /\ received' = IF before # -1 /\ sum' >= naluLength
                       THEN [type |-> type, length |-> 1 + before + len] ELSE received
        /\ partial' = IF before # -1 /\ ~(sum' >= naluLength)
                      THEN [type |-> type, length |-> 1 + before + len] ELSE Nothing
    BY <1>1 DEF SendFragmentOf
  <1> HIDE DEF before
  <1>7. before # -1 /\ 1 + before + len = sum'
    BY <1>1, <1>2, <1>5, MaxLengthAssumption
  <1>8. sum' >= naluLength => sum' = naluLength
    BY <1>1, <1>2, MaxLengthAssumption
  <1>9. packet' \in [length : 0 .. MaxLength, start : BOOLEAN,
                     end : BOOLEAN, fragment : BOOLEAN, marker : BOOLEAN]
    BY <1>2, <1>3, <1>6
  <1>10. FragmentBits'
    BY <1>1, <1>2, <1>3, <1>6 DEF FragmentBits
  <1>11. sum' \in 2 .. naluLength
    BY <1>1, <1>2
  <1>12. sum' < naluLength => /\ partial' = [type |-> type, length |-> sum']
                              /\ received' = received
    BY <1>2, <1>6, <1>7, <1>11, MaxLengthAssumption
  <1>13. sum' >= naluLength => partial' = Nothing /\ received' = Unit
    BY <1>6, <1>7, <1>8 DEF Unit
  <1> QED
    BY <1>9, <1>10, <1>11, <1>12, <1>13

-----------------------------------------------------------------------------
LEMMA UnitInit == UnitsInit => UnitInv
  <1> SUFFICES ASSUME UnitsInit PROVE UnitInv
    OBVIOUS
  <1>1. UnitsTypeOK
    <2>1. startBit \in BOOLEAN /\ parameters \in BOOLEAN
      BY DEF UnitsInit
    <2>2. /\ place \in {"stopped", "skip", "nal", "send", "sent", "sps", "pps"}
          /\ type \in Types /\ naluLength \in 0 .. MaxLength /\ sum \in 1 .. MaxLength
          /\ count \in 0 .. 5 /\ delta2 \in 0 .. Period
      BY MaxLengthAssumption, TimesAssumption DEF UnitsInit, Types, Slices
    <2>3. /\ packet = Nothing /\ partial = Nothing /\ received = Nothing /\ real = Nothing
          /\ inStep \in BOOLEAN /\ resynced \in BOOLEAN
      BY DEF UnitsInit
    <2> QED
      BY <2>1, <2>2, <2>3, Zenon DEF UnitsTypeOK
  <1>2. UnitsArrive /\ FragmentBits /\ HalfSent /\ KnownUnit
    BY DEF UnitsInit, UnitsArrive, FragmentBits, HalfSent, KnownUnit
  <1> QED
    BY <1>1, <1>2 DEF UnitInv

(* What a step can complete is the unit being sent, or a parameter set.    *)
Completes ==
    received' # received =>
        \/ received' = Unit /\ AsInStream /\ naluLength > 0
        \/ received' \in {Sps, Pps}

(* Every step keeps the invariant, and completes nothing else.             *)
(* (H264Packetizer.run.)                                                   *)
LEMMA UnitNext ==
    ASSUME UnitInv, [UnitsNext]_unitVars
    PROVE  UnitInv' /\ Completes
  <1> USE DEF Completes
  <1>1. CASE UNCHANGED receiverVars /\ UnitsTypeOK' /\ place' \notin {"send", "sent", "sps", "pps"}
    <2>1. UnitsArrive' /\ FragmentBits' /\ HalfSent' /\ KnownUnit'
      BY <1>1 DEF UnitInv, receiverVars, UnitsArrive, FragmentBits, HalfSent, KnownUnit
    <2> QED
      BY <1>1, <2>1 DEF UnitInv, receiverVars
  <1>2. CASE ThreadStarts \/ SkipHeader \/ ThreadEnds
    <2>1. UNCHANGED receiverVars /\ place' \notin {"send", "sent", "sps", "pps"}
      BY <1>2 DEF ThreadStarts, SkipHeader, ThreadEnds
    <2>2. place' \in {"stopped", "skip", "nal"} /\ count' \in 0 .. 5 /\ delta2' \in 0 .. Period
      BY <1>2, TimesAssumption DEF UnitInv, UnitsTypeOK, ThreadStarts, SkipHeader, ThreadEnds
    <2>3. parameters' \in BOOLEAN /\ inStep' \in BOOLEAN
      BY <1>2, Zenon
      DEF UnitInv, UnitsTypeOK, ThreadStarts, SkipHeader, ThreadEnds, streamVars
    <2>4. UNCHANGED <<type, naluLength, sum, startBit, real, resynced, packet, partial, received>>
      BY <1>2 DEF ThreadStarts, SkipHeader, ThreadEnds, receiverVars, streamVars
    <2>5. UnitsTypeOK'
      BY <2>2, <2>3, <2>4 DEF UnitInv, UnitsTypeOK
    <2> QED
      BY <1>1, <2>1, <2>5
  <1>3. CASE ReadUnit \/ ReadNoise
    <2>1. PICK read \in Units :
              /\ naluLength' = read.length /\ ReadType(read.type)
              /\ \/ /\ ReadInStream(read)
                 \/ /\ real' \in {Nothing} \cup [type : Slices, length : {read.length}]
                    /\ resynced' = TRUE /\ inStep' = (real' # Nothing) /\ read.length # 0
      <3>1. CASE ReadUnit
        BY <3>1 DEF ReadUnit
      <3>2. CASE ReadNoise
        <4>1. PICK kindOf \in Types, length \in 1 .. MaxLength - 1 :
                  /\ naluLength' = length /\ ReadType(kindOf)
                  /\ real' \in {Nothing} \cup [type : Slices, length : {length}]
          BY <3>2 DEF ReadNoise
        <4>2. [type |-> kindOf, length |-> length] \in Units /\ length # 0
          BY MaxLengthAssumption DEF Units
        <4> QED
          BY <3>2, <4>1, <4>2 DEF ReadNoise
      <3> QED
        BY <1>3, <3>1, <3>2
    <2>2. naluLength' \in 0 .. MaxLength
      BY <2>1 DEF Units
    <2>3. place' = "send" /\ startBit' = TRUE /\ UNCHANGED <<delta2, packet, partial, received>>
      BY <1>3 DEF ReadUnit, ReadNoise, receiverVars
    <2>4. type' = read.type /\ type' \in Types /\ sum' = 1 /\ count' \in 0 .. 5
          /\ parameters' \in BOOLEAN
      BY <2>1 DEF ReadType, UnitInv, UnitsTypeOK, Units
    <2>5. Unit' = read
      BY <2>1, <2>4 DEF Unit, Units
    <2>6. real' \in {Nothing} \cup Units /\ inStep' \in BOOLEAN /\ resynced' \in BOOLEAN
      <3>1. CASE ReadInStream(read)
        BY <3>1 DEF ReadInStream
      <3>2. CASE ~ReadInStream(read)
        <4>1. read.length \in 0 .. MaxLength
          BY DEF Units
        <4>2. [type : Slices, length : {read.length}] \subseteq Units
          BY <4>1 DEF Units, Types
        <4> QED
          BY <2>1, <3>2, <4>2
      <3> QED
        BY <3>1, <3>2
    <2>7. UnitsTypeOK'
      <3>1. place' \in {"stopped", "skip", "nal", "send", "sent", "sps", "pps"}
        BY <2>3
      <3> QED
        BY <2>2, <2>3, <2>4, <2>6, <3>1, MaxLengthAssumption DEF UnitInv, UnitsTypeOK
    <2>8. UnitsArrive' /\ FragmentBits' /\ HalfSent'
      BY <2>3, <2>4 DEF UnitInv, UnitsArrive, FragmentBits, HalfSent
    <2>9. KnownUnit'
      <3>1. CASE ReadInStream(read)
        <4>1. real' # Nothing => real' = read /\ inStep' = (read.length # 0)
          BY <3>1 DEF ReadInStream
        <4> QED
          BY <2>1, <2>5, <4>1 DEF KnownUnit, AsInStream
      <3>2. CASE ~ReadInStream(read)
        <4>1. resynced' /\ naluLength' # 0 /\ (real' # Nothing => real'.length = read.length)
          BY <2>1, <3>2
        <4> QED
          BY <2>5, <4>1 DEF KnownUnit, AsInStream
      <3> QED
        BY <3>1, <3>2
    <2> QED
      BY <2>3, <2>7, <2>8, <2>9 DEF UnitInv
  <1>4. CASE SendSingle
    <2>1. /\ place = "send" /\ place' = "sent" /\ naluLength \in 0 .. MaxLength
          /\ UNCHANGED <<type, naluLength, sum, startBit, count, parameters, delta2, inStep, real,
                         resynced>>
      BY <1>4 DEF SendSingle, UnitInv, UnitsTypeOK, streamVars
    <2>2. AsInStream /\ AsInStream' /\ KnownUnit'
          /\ (naluLength = 0 /\ real # Nothing => ~inStep)
      BY <2>1 DEF UnitInv, KnownUnit, AsInStream, Unit
    <2>3. CASE naluLength = 0
      <3>1. /\ packet' = [length |-> 0, start |-> TRUE, end |-> TRUE, fragment |-> FALSE,
                          marker |-> TRUE]
            /\ UNCHANGED <<partial, received>>
        BY <1>4, <2>3 DEF SendSingle, SendEmpty
      <3>2. FragmentBits' /\ packet'.length = 0
            /\ packet' \in [length : 0 .. MaxLength, start : BOOLEAN, end : BOOLEAN,
                              fragment : BOOLEAN, marker : BOOLEAN]
        BY <3>1, ChunkAssumption, MaxLengthAssumption DEF FragmentBits
      <3>3. UnitsTypeOK'
        BY <2>1, <3>1, <3>2 DEF UnitInv, UnitsTypeOK
      <3>4. UnitsArrive' /\ HalfSent'
        BY <2>1, <2>2, <2>3, <3>2 DEF UnitsArrive, HalfSent
      <3> QED
        BY <2>2, <3>1, <3>2, <3>3, <3>4 DEF UnitInv
    <2>4. CASE naluLength # 0
      <3>1. Unit \in Units /\ Unit.length <= Chunk
        BY <1>4 DEF UnitInv, UnitsTypeOK, Unit, Units, SendSingle, Small
      <3>2. SendWhole(Unit)
        BY <1>4, <2>4 DEF SendSingle
      <3>3. received' = Unit /\ partial' = Nothing /\ FragmentBits'
            /\ packet' \in [length : 0 .. MaxLength, start : BOOLEAN, end : BOOLEAN,
                              fragment : BOOLEAN, marker : BOOLEAN]
        BY <3>1, <3>2, WholeUnit
      <3>4. UnitsTypeOK'
        BY <2>1, <3>1, <3>3 DEF UnitInv, UnitsTypeOK
      <3>5. UnitsArrive' /\ HalfSent'
        BY <2>1, <2>2, <2>4, <3>3 DEF UnitsArrive, HalfSent, Unit
      <3> QED
        BY <2>1, <2>2, <2>4, <3>3, <3>4, <3>5 DEF UnitInv
    <2> QED
      BY <2>3, <2>4
  <1>5. CASE SendFragment
    <2>1. place = "send" /\ ~Small /\ startBit' = FALSE
          /\ place' = (IF sum' >= naluLength THEN "sent" ELSE "send")
          /\ UNCHANGED <<type, naluLength, count, parameters, delta2, inStep, real, resynced>>
      BY <1>5 DEF SendFragment, streamVars
    <2>2. /\ sum' \in 2 .. naluLength
          /\ sum' < naluLength => /\ partial' = [type |-> type, length |-> sum']
                                  /\ received' = received
          /\ sum' >= naluLength => partial' = Nothing /\ received' = Unit
          /\ packet' \in [length : 0 .. MaxLength, start : BOOLEAN,
                           end : BOOLEAN, fragment : BOOLEAN, marker : BOOLEAN]
          /\ FragmentBits'
      BY <1>5, Fragment
    <2>3. type \in Types /\ naluLength \in 1 .. MaxLength
      BY <2>1, ChunkAssumption, MaxLengthAssumption DEF UnitInv, UnitsTypeOK, Small
    <2>4. partial' \in {Nothing} \cup Units /\ received' \in {Nothing} \cup Units
      BY <2>2, <2>3, MaxLengthAssumption DEF UnitInv, UnitsTypeOK, Units, Unit
    <2>5. UnitsTypeOK'
      <3>1. startBit' \in BOOLEAN /\ parameters' \in BOOLEAN
            /\ inStep' \in BOOLEAN /\ resynced' \in BOOLEAN
        BY <2>1 DEF UnitInv, UnitsTypeOK
      <3>2. /\ place' \in {"stopped", "skip", "nal", "send", "sent", "sps", "pps"}
            /\ type' \in Types /\ naluLength' \in 0 .. MaxLength /\ sum' \in 1 .. MaxLength
            /\ count' \in 0 .. 5 /\ delta2' \in 0 .. Period
        BY <2>1, <2>2, <2>3, MaxLengthAssumption DEF UnitInv, UnitsTypeOK
      <3>3. real' \in {Nothing} \cup Units
        BY <2>1 DEF UnitInv, UnitsTypeOK
      <3> QED
        BY <2>2, <2>4, <3>1, <3>2, <3>3, Zenon DEF UnitsTypeOK
    <2>8. AsInStream /\ AsInStream' /\ KnownUnit'
      BY <2>1 DEF UnitInv, KnownUnit, AsInStream, Unit
    <2>6. CASE sum' < naluLength
      <3>1. place' = "send"
        BY <2>1, <2>2, <2>3, <2>6, MaxLengthAssumption
      <3>2. UnitsArrive'
        BY <3>1 DEF UnitsArrive
      <3>3. sum' # 1
        BY <2>2, <2>3, MaxLengthAssumption
      <3>4. HalfSent'
        BY <2>1, <2>2, <2>6, <3>1, <3>3 DEF HalfSent, Small
      <3> QED
        BY <2>2, <2>5, <2>6, <2>8, <3>2, <3>4 DEF UnitInv
    <2>7. CASE sum' >= naluLength
      <3>1. place' = "sent" /\ naluLength > 0
        BY <2>1, <2>3, <2>7, MaxLengthAssumption
      <3>2. UnitsArrive' /\ HalfSent'
        BY <2>1, <2>2, <2>7, <2>8, <3>1 DEF UnitsArrive, HalfSent, Unit
      <3> QED
        BY <2>2, <2>5, <2>7, <2>8, <3>1, <3>2 DEF UnitInv
    <2> QED
      BY <2>2, <2>3, <2>6, <2>7, MaxLengthAssumption
  <1>6. CASE \E duration \in 0 .. MaxPause : Elapse(duration)
    <2>1. PICK duration \in 0 .. MaxPause : Elapse(duration)
      BY <1>6
    <2>2. delta2' \in 0 .. Period
      BY <2>1, TimesAssumption DEF Elapse, UnitInv, UnitsTypeOK
    <2>3. place = "sent" /\ place' \in {"sps", "nal"} /\ UNCHANGED <<receiverVars, streamVars>>
          /\ UNCHANGED <<type, naluLength, sum, startBit, count, parameters>>
      BY <2>1 DEF Elapse
    <2>4. UnitsTypeOK'
      BY <2>2, <2>3 DEF UnitInv, UnitsTypeOK, receiverVars, streamVars
    <2> QED
      BY <2>3, <2>4
      DEF UnitInv, receiverVars, UnitsArrive, FragmentBits, HalfSent, KnownUnit
  <1>7. CASE SendSps \/ SendPps
    <2>1. PICK unit \in ParameterSets : SendWhole(unit)
      BY <1>7 DEF SendSps, SendPps, ParameterSets
    <2>2. unit \in Units /\ unit.length <= Chunk
      BY <2>1, ParameterSetsAreUnits, ChunkAssumption DEF ParameterSets, Sps, Pps
    <2>3. place' \in {"pps", "nal"}
          /\ UNCHANGED <<type, naluLength, sum, startBit, count, parameters, delta2, streamVars>>
      BY <1>7 DEF SendSps, SendPps
    <2>4. received' = unit /\ partial' = Nothing /\ FragmentBits'
          /\ packet' \in [length : 0 .. MaxLength, start : BOOLEAN,
                           end : BOOLEAN, fragment : BOOLEAN, marker : BOOLEAN]
      BY <2>1, <2>2, WholeUnit
    <2>5. UnitsTypeOK'
      BY <2>2, <2>3, <2>4 DEF UnitInv, UnitsTypeOK, streamVars
    <2>6. UnitsArrive' /\ HalfSent' /\ KnownUnit'
      BY <2>3, <2>4 DEF UnitsArrive, HalfSent, KnownUnit
    <2> QED
      BY <2>1, <2>4, <2>5, <2>6 DEF UnitInv, ParameterSets
  <1>8. CASE UNCHANGED unitVars
    BY <1>8 DEF unitVars, receiverVars, streamVars, UnitInv, UnitsTypeOK, UnitsArrive, FragmentBits,
       HalfSent, KnownUnit, AsInStream, Small, Unit
  <1> QED
    BY <1>2, <1>3, <1>4, <1>5, <1>6, <1>7, <1>8 DEF UnitsNext

(* The invariant holds in every reachable state. *)
THEOREM UnitInvariance == UnitsSpec => []UnitInv
  BY UnitInit, UnitNext, PTL DEF UnitsSpec

(* Lengths, counts and packets stay in their ranges, for every size of     *)
(* packets and units.  (H264Packetizer.)                                   *)
THEOREM UnitTypes == UnitsSpec => []UnitsTypeOK
  <1>1. UnitInv => UnitsTypeOK
    BY DEF UnitInv
  <1> QED
    BY <1>1, UnitInvariance, PTL

(* A unit of any length but 0 reaches the receiver whole, in packets of    *)
(* any size, and as the stream has it while the thread is in step with it; *)
(* of one of length 0 an empty packet goes out, and the thread cannot tell *)
(* where the next unit begins.  (H264Packetizer.send and resync.)          *)
THEOREM UnitsDoArrive == UnitsSpec => []UnitsArrive
  <1>1. UnitInv => UnitsArrive
    BY DEF UnitInv
  <1> QED
    BY <1>1, UnitInvariance, PTL

(* No packet is too long, the marker is where a unit ends, and only a unit *)
(* of Chunk + 1 bytes becomes a single fragment.  (H264Packetizer.send.)   *)
THEOREM BitsAreRight == UnitsSpec => []FragmentBits
  <1>1. UnitInv => FragmentBits
    BY DEF UnitInv
  <1> QED
    BY <1>1, UnitInvariance, PTL

(* What is left of a unit when a thread ends never becomes part of another *)
(* unit.  (H264Packetizer.send and stop.)                                  *)
THEOREM NoUnitIsMixed == UnitsSpec => NothingMixed
  <1>1. UnitInv /\ [UnitsNext]_unitVars
        => [received' # received =>
                \/ received' = Unit /\ AsInStream /\ naluLength > 0
                \/ received' \in {Sps, Pps}]_unitVars
    BY UnitNext DEF Completes
  <1> QED
    BY <1>1, UnitInvariance, PTL DEF UnitsSpec, NothingMixed

(* Units and packets together, for every length of either, 0 included.     *)
(* (H264Packetizer.send.)                                                  *)
THEOREM UnitsAreRight == UnitsSpec => []UnitsGoOutWhole
  BY UnitsDoArrive, BitsAreRight, PTL DEF UnitsGoOutWhole
=============================================================================
