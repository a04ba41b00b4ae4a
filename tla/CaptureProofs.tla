---------------------------- MODULE CaptureProofs ----------------------------
(***************************************************************************)
(* Theorems about Capture, for any number of cameras, buffers, descriptors *)
(* and frames.                                                             *)
(*                                                                         *)
(* Descriptors, frames and what a photo holds are three arguments; which   *)
(* numbers fd_gpio can have been given to is a fourth.                     *)
(***************************************************************************)
EXTENDS Capture, FiniteSetTheorems, TLAPS

InPhoto == pc \notin {"idle", "mode", "select", "endless", "down", "crashed"}

-----------------------------------------------------------------------------
(* Descriptors.                                                            *)

FdInv ==
    /\ fds \in [Descriptors -> {"free", "gpio", "camera", "file", "foreign"}]
    /\ fd \in -1 .. MaxFd /\ fd_gpio \in -1 .. MaxFd
    /\ files \subseteq Descriptors
    /\ ClosesItsOwn

(* open() gives a number that was free.                                    *)
LEMMA LowestIsFree ==
    ASSUME NEW k
    PROVE  Lowest(k) \subseteq Free /\ Free \subseteq Descriptors
  BY DEF Lowest, Free

(* What a photo opened stays open on it until the photo closes it.         *)
(* (v4l2.c: fd, fp0 to fp7; bjwgpio.c: fd_gpio.)                           *)
LEMMA FdIsKept ==
    ASSUME FdInv, [Next]_vars
    PROVE  FdInv'
  <1> USE LimitsAssumption DEF FdInv, ClosesItsOwn, Descriptors
  <1>1. ASSUME NEW caller \in {"mode", "select"}, OpenGPIO(caller)
        PROVE  FdInv'
    BY <1>1, LowestIsFree DEF OpenGPIO, Free
  <1>2. ASSUME NEW v \in {0, 1}, SetMode(v)
        PROVE  FdInv'
    BY <1>2 DEF SetMode, CloseGPIO
  <1>3. CASE CamSel
    BY <1>3 DEF CamSel, CloseGPIO
  <1>4. CASE Flip
    BY <1>4, LowestIsFree DEF Flip
  <1>5. CASE OpenDevice
    BY <1>5, LowestIsFree DEF OpenDevice, Free
  <1>6. CASE RequestFails \/ DeviceFails
    BY <1>6 DEF RequestFails, DeviceFails, Return
  <1>7. ASSUME NEW k, MapBuffers(k) \/ StreamOn \/ Dequeue \/ Copy \/ Enqueue
        PROVE  FdInv'
    BY <1>7 DEF MapBuffers, StreamOn, Dequeue, Copy, Enqueue
  <1>8. ASSUME NEW k \in 0 .. NUM, OpenFiles(k)
        PROVE  FdInv'
    <2>1. files' \subseteq Free /\ files' \subseteq Descriptors
      BY <1>8, LowestIsFree DEF OpenFiles
    <2>2. fd \in Descriptors /\ fds[fd] = "camera" /\ fd \notin files'
      BY <1>8, <2>1 DEF OpenFiles, Free
    <2> QED
      BY <1>8, <2>1, <2>2 DEF OpenFiles
  <1>9. CASE SaveCrashes \/ SaveUnmapsUsed \/ Deliver \/ UNCHANGED vars
    BY <1>9 DEF SaveCrashes, SaveUnmapsUsed, Deliver, vars
  <1>10. CASE Save \/ ModeDown
    BY <1>10 DEF Save, GiveBack, ModeDown, Return
  <1>11. CASE ForeignOpens
    BY <1>11, LowestIsFree DEF ForeignOpens, Free
  <1>12. CASE ForeignCloses
    BY <1>12 DEF ForeignCloses
  <1>13. CASE Restart
    BY <1>13 DEF Restart, Return
  <1> QED
    BY <1>1, <1>2, <1>3, <1>4, <1>5, <1>6, <1>7, <1>8, <1>9, <1>10, <1>11, <1>12, <1>13
    DEF Next, Photo

-----------------------------------------------------------------------------
(* Frames.                                                                 *)

(* Frames that wait are later than those copied, in the order delivered.   *)
InOrder ==
    /\ \A i, j \in 1 .. Len(filled) : i < j => content[filled[i]] < content[filled[j]]
    /\ \A i \in 1 .. Len(tmp_buf), j \in 1 .. Len(filled) : tmp_buf[i] < content[filled[j]]
    /\ \A i, j \in 1 .. Len(tmp_buf) : i < j => tmp_buf[i] < tmp_buf[j]
    /\ pc = "copy" => \A i \in 1 .. Len(tmp_buf) : tmp_buf[i] < content[buf]
    /\ pc = "copy" => \A j \in 1 .. Len(filled) : content[buf] < content[filled[j]]

(* A buffer is in one place, and is mapped.                                *)
InOnePlace ==
    /\ \A i, j \in 1 .. Len(queued) : i # j => queued[i] # queued[j]
    /\ \A i, j \in 1 .. Len(filled) : i # j => filled[i] # filled[j]
    /\ \A i \in 1 .. Len(queued), j \in 1 .. Len(filled) : queued[i] # filled[j]
    /\ pc \in {"copy", "enqueue"} => /\ framebuf[buf] = "mapped"
                                     /\ \A i \in 1 .. Len(queued) : queued[i] # buf
                                     /\ \A i \in 1 .. Len(filled) : filled[i] # buf
    /\ pc # "down" => /\ \A i \in 1 .. Len(queued) : framebuf[queued[i]] = "mapped"
                      /\ \A i \in 1 .. Len(filled) : framebuf[filled[i]] = "mapped"

FrameTypes ==
    /\ framebuf \in [Buffers -> {"none", "mapped", "unmapped"}]
    /\ queued \in Seq(Buffers) /\ filled \in Seq(Buffers)
    /\ content \in [Buffers -> 0 .. MaxFrames]
    /\ frame \in 0 .. MaxFrames /\ buf \in Buffers
    /\ tmp_buf \in Seq(1 .. MaxFrames)
    /\ \A i \in 1 .. Len(filled) : content[filled[i]] \in 1 .. frame
    /\ \A i \in 1 .. Len(tmp_buf) : tmp_buf[i] <= frame
    /\ pc = "copy" => content[buf] \in 1 .. frame
    /\ pc \in {"idle", "mode", "select", "endless", "request", "prepared", "start"} =>
           filled = <<>> /\ tmp_buf = <<>>
    /\ pc \in {"idle", "mode", "select", "endless", "request"} => queued = <<>>

FrameInv == FrameTypes /\ InOnePlace /\ InOrder

(* A call that returns leaves no queues.                                   *)
LEMMA ReturnLeavesNothing ==
    ASSUME FrameInv, Return, framebuf' \in [Buffers -> {"none", "mapped", "unmapped"}]
    PROVE  FrameInv'
  <1>1. 0 \in Buffers /\ NoFrames \in [Buffers -> 0 .. MaxFrames]
    BY BUFFER_COUNTAssumption, LimitsAssumption DEF Buffers, NoFrames
  <1>2. FrameTypes'
    BY <1>1, LimitsAssumption DEF Return, FrameTypes
  <1>3. InOnePlace' /\ InOrder'
    BY DEF Return, InOnePlace, InOrder
  <1> QED
    BY <1>2, <1>3 DEF FrameInv

(* The driver fills the buffer queued first.  (External.)                  *)
LEMMA DeliverKeepsFrames ==
    ASSUME FrameInv, Deliver
    PROVE  FrameInv'
  <1> USE DEF FrameInv
  <1>1. CASE queued = <<>>
    <2>1. /\ UNCHANGED <<queued, filled, content, pc, framebuf, buf, tmp_buf>>
          /\ frame' = frame + 1 /\ frame < MaxFrames /\ pc \in {"dequeue", "copy", "enqueue"}
      BY <1>1 DEF Deliver, Streaming, memoryVars
    <2>2. FrameTypes'
      <3>1. frame \in Nat /\ frame' \in 0 .. MaxFrames /\ 1 .. frame \subseteq 1 .. frame'
        BY <2>1, LimitsAssumption DEF FrameTypes
      <3>2. \A i \in 1 .. Len(filled) : content[filled[i]] \in 1 .. frame'
        BY <3>1 DEF FrameTypes
      <3>3. \A i \in 1 .. Len(tmp_buf) : tmp_buf[i] <= frame'
        <4>1. \A i \in 1 .. Len(tmp_buf) : tmp_buf[i] <= frame /\ tmp_buf[i] \in Nat
          BY LimitsAssumption DEF FrameTypes
        <4> QED
          BY <2>1, <3>1, <4>1
      <3>4. pc = "copy" => content[buf] \in 1 .. frame'
        BY <3>1 DEF FrameTypes
      <3> QED
        BY <2>1, <3>1, <3>2, <3>3, <3>4 DEF FrameTypes
    <2> QED
      BY <2>1, <2>2 DEF InOnePlace, InOrder
  <1>2. CASE queued # <<>>
    <2> DEFINE b == Head(queued)
    <2>1. /\ b \in Buffers /\ b = queued[1] /\ Len(queued) \in Nat \ {0}
          /\ Len(filled) \in Nat /\ Len(tmp_buf) \in Nat
      BY <1>2 DEF FrameTypes
    <2>2. /\ content' = [content EXCEPT ![b] = frame + 1] /\ frame' = frame + 1
          /\ filled' = Append(filled, b) /\ queued' = Tail(queued)
          /\ frame < MaxFrames /\ UNCHANGED <<pc, framebuf, buf, tmp_buf>>
          /\ pc \in {"dequeue", "copy", "enqueue"}
      BY <1>2 DEF Deliver, Streaming, memoryVars
    <2>3. /\ queued' \in Seq(Buffers) /\ Len(queued') = Len(queued) - 1
          /\ \A i \in 1 .. Len(queued') : queued'[i] = queued[i + 1]
      BY <1>2, <2>1, <2>2 DEF FrameTypes
    <2>4. /\ filled' \in Seq(Buffers) /\ Len(filled') = Len(filled) + 1
          /\ \A i \in 1 .. Len(filled) : filled'[i] = filled[i] /\ filled[i] \in Buffers
          /\ filled'[Len(filled) + 1] = b
      BY <2>1, <2>2 DEF FrameTypes
    <2>5. /\ \A i \in 1 .. Len(filled) : filled[i] # b
          /\ \A i \in 1 .. Len(queued') : queued'[i] # b
          /\ pc \in {"copy", "enqueue"} => buf # b
      BY <1>2, <2>1, <2>3 DEF InOnePlace
    <2>6. /\ content'[b] = frame + 1
          /\ \A i \in 1 .. Len(filled) : content'[filled'[i]] = content[filled[i]]
          /\ pc = "copy" => content'[buf] = content[buf]
      BY <2>1, <2>2, <2>4, <2>5 DEF FrameTypes
    <2>7. frame \in 0 .. MaxFrames /\ MaxFrames \in Nat
      BY LimitsAssumption DEF FrameTypes
    <2> HIDE DEF b
    <2>8. FrameTypes'
      <3>1. content' \in [Buffers -> 0 .. MaxFrames] /\ frame' \in 0 .. MaxFrames
        BY <2>1, <2>2, <2>7 DEF FrameTypes
      <3>2. \A i \in 1 .. Len(filled') : content'[filled'[i]] \in 1 .. frame'
        <4>1. \A i \in 1 .. Len(filled) : content[filled[i]] \in 1 .. frame
          BY DEF FrameTypes
        <4>2. ASSUME NEW i \in 1 .. Len(filled)
              PROVE  content'[filled'[i]] \in 1 .. frame'
          <5>1. content'[filled'[i]] = content[filled[i]] /\ content[filled[i]] \in 1 .. frame
            BY <2>6, <4>1
          <5> QED
            BY <2>2, <2>7, <5>1
        <4>3. content'[filled'[Len(filled) + 1]] \in 1 .. frame'
          BY <2>2, <2>4, <2>6, <2>7
        <4>4. \A i \in 1 .. Len(filled') : i \in 1 .. Len(filled) \/ i = Len(filled) + 1
          BY <2>1, <2>4
        <4> QED
          BY <4>2, <4>3, <4>4
      <3>3. \A i \in 1 .. Len(tmp_buf') : tmp_buf'[i] <= frame'
        <4>1. \A i \in 1 .. Len(tmp_buf) : tmp_buf[i] <= frame /\ tmp_buf[i] \in Nat
          BY <2>7 DEF FrameTypes
        <4> QED
          BY <2>2, <2>7, <4>1
      <3>4. pc' = "copy" => content'[buf'] \in 1 .. frame'
        BY <2>2, <2>6, <2>7 DEF FrameTypes
      <3> QED
        BY <2>2, <2>3, <2>4, <3>1, <3>2, <3>3, <3>4 DEF FrameTypes
    <2>9. InOnePlace'
      BY <2>1, <2>2, <2>3, <2>4, <2>5 DEF InOnePlace
    <2>10. InOrder'
      <3>1. /\ \A i \in 1 .. Len(filled) : content[filled[i]] < frame + 1
            /\ \A i \in 1 .. Len(tmp_buf) : tmp_buf[i] < frame + 1
            /\ pc = "copy" => content[buf] < frame + 1
        <4>1. \A i \in 1 .. Len(tmp_buf) : tmp_buf[i] <= frame /\ tmp_buf[i] \in Nat
          BY <2>7 DEF FrameTypes
        <4>2. \A i \in 1 .. Len(filled) : content[filled[i]] \in 1 .. frame
          BY DEF FrameTypes
        <4>3. pc = "copy" => content[buf] \in 1 .. frame
          BY DEF FrameTypes
        <4> QED
          BY <2>7, <4>1, <4>2, <4>3
      <3>2. \A i \in 1 .. Len(filled) + 1 :
                content'[filled'[i]] = IF i = Len(filled) + 1 THEN frame + 1 ELSE content[filled[i]]
        BY <2>1, <2>4, <2>6
      <3>3. \A i, j \in 1 .. Len(filled') : i < j => content'[filled'[i]] < content'[filled'[j]]
        <4>1. \A i, j \in 1 .. Len(filled) : i < j => content[filled[i]] < content[filled[j]]
          BY DEF InOrder
        <4>2. \A i \in 1 .. Len(filled) : content'[filled'[i]] = content[filled[i]]
          BY <2>6
        <4>3. content'[filled'[Len(filled) + 1]] = frame + 1
          BY <2>4, <2>6
        <4>4. TAKE i, j \in 1 .. Len(filled')
        <4>5. HAVE i < j
        <4>6. i \in 1 .. Len(filled) /\ (j \in 1 .. Len(filled) \/ j = Len(filled) + 1)
          BY <2>1, <2>4, <4>5
        <4> QED
          BY <3>1, <4>1, <4>2, <4>3, <4>5, <4>6
      <3>4. \A i \in 1 .. Len(tmp_buf), j \in 1 .. Len(filled') : tmp_buf[i] < content'[filled'[j]]
        BY <2>1, <2>4, <3>1, <3>2 DEF InOrder
      <3>5. pc = "copy" => \A j \in 1 .. Len(filled') : content[buf] < content'[filled'[j]]
        BY <2>1, <2>4, <3>1, <3>2 DEF InOrder
      <3> QED
        BY <2>2, <2>6, <3>3, <3>4, <3>5 DEF InOrder
    <2> QED
      BY <2>8, <2>9, <2>10
  <1> QED
    BY <1>1, <1>2

(* query_map_qbuf queues buffers it mapped, each once.                     *)
LEMMA MapBuffersKeepsFrames ==
    ASSUME FrameInv, NEW k \in 0 .. BUFFER_COUNT, MapBuffers(k)
    PROVE  FrameInv'
  <1> USE BUFFER_COUNTAssumption DEF FrameInv
  <1>1. /\ queued' = [i \in 1 .. k |-> i - 1] /\ pc = "request" /\ pc' = "prepared"
        /\ UNCHANGED <<filled, content, frame, buf, tmp_buf>>
    BY DEF MapBuffers
  <1>2. /\ framebuf' \in [Buffers -> {"none", "mapped", "unmapped"}]
        /\ \A b \in Buffers : b < k => framebuf'[b] = "mapped"
    BY DEF MapBuffers, FrameTypes
  <1>3. /\ queued' \in Seq(Buffers) /\ Len(queued') = k
        /\ \A i \in 1 .. k : queued'[i] = i - 1 /\ queued'[i] \in Buffers
    <2>1. \A i \in 1 .. k : i - 1 \in Buffers
      BY DEF Buffers
    <2> QED
      BY <1>1, <2>1
  <1>4. filled = <<>> /\ tmp_buf = <<>>
    BY <1>1 DEF FrameTypes
  <1>5. FrameTypes'
    BY <1>1, <1>2, <1>3, <1>4 DEF FrameTypes
  <1>6. InOnePlace'
    BY <1>1, <1>2, <1>3, <1>4 DEF InOnePlace
  <1>7. InOrder'
    BY <1>1, <1>4 DEF InOrder
  <1> QED
    BY <1>5, <1>6, <1>7

(* DQBUF: the buffer filled first.                                         *)
LEMMA DequeueKeepsFrames ==
    ASSUME FrameInv, Dequeue
    PROVE  FrameInv'
  <1> USE DEF FrameInv
  <1>1. /\ filled # <<>> /\ buf' = Head(filled) /\ filled' = Tail(filled)
        /\ pc = "dequeue" /\ pc' = "copy"
        /\ UNCHANGED <<framebuf, queued, content, frame, tmp_buf>>
    BY DEF Dequeue, memoryVars
  <1>2. /\ buf' \in Buffers /\ buf' = filled[1] /\ Len(filled) \in Nat \ {0}
        /\ filled' \in Seq(Buffers) /\ Len(filled') = Len(filled) - 1
        /\ \A i \in 1 .. Len(filled') : filled'[i] = filled[i + 1]
    BY <1>1 DEF FrameTypes
  <1>3. FrameTypes'
    BY <1>1, <1>2 DEF FrameTypes
  <1>4. InOnePlace'
    BY <1>1, <1>2 DEF InOnePlace
  <1>5. InOrder'
    BY <1>1, <1>2 DEF InOrder
  <1> QED
    BY <1>3, <1>4, <1>5

(* memcpy of a frame that is later than those copied, and earlier than     *)
(* those that wait.                                                        *)
LEMMA CopyKeepsFrames ==
    ASSUME FrameInv, Copy
    PROVE  FrameInv'
  <1> USE DEF FrameInv
  <1>1. CASE enough
    <2>1. /\ tmp_buf' = Append(tmp_buf, content[buf]) /\ pc = "copy" /\ pc' = "enqueue"
          /\ UNCHANGED <<framebuf, queued, filled, content, frame, buf>>
      BY <1>1 DEF Copy, memoryVars
    <2>2. content[buf] \in 1 .. frame /\ frame \in 0 .. MaxFrames /\ MaxFrames \in Nat
      BY <2>1, LimitsAssumption DEF FrameTypes
    <2>3. /\ tmp_buf' \in Seq(1 .. MaxFrames) /\ Len(tmp_buf) \in Nat
          /\ Len(tmp_buf') = Len(tmp_buf) + 1
          /\ \A i \in 1 .. Len(tmp_buf) : tmp_buf'[i] = tmp_buf[i]
          /\ tmp_buf'[Len(tmp_buf) + 1] = content[buf]
      BY <2>1, <2>2 DEF FrameTypes
    <2>4. FrameTypes'
      <3>1. \A i \in 1 .. Len(tmp_buf') : tmp_buf'[i] <= frame'
        BY <2>1, <2>2, <2>3 DEF FrameTypes
      <3> QED
        BY <2>1, <2>3, <3>1 DEF FrameTypes
    <2>5. InOnePlace'
      BY <2>1 DEF InOnePlace
    <2>6. InOrder'
      <3>1. \A i \in 1 .. Len(tmp_buf'), j \in 1 .. Len(filled) :
                tmp_buf'[i] < content[filled[j]]
        BY <2>1, <2>3 DEF InOrder
      <3>2. \A i, j \in 1 .. Len(tmp_buf') : i < j => tmp_buf'[i] < tmp_buf'[j]
        BY <2>1, <2>3 DEF InOrder
      <3> QED
        BY <2>1, <3>1, <3>2 DEF InOrder
    <2> QED
      BY <2>4, <2>5, <2>6
  <1>2. CASE ~enough
    <2>1. /\ pc = "copy" /\ pc' = "crashed"
          /\ UNCHANGED <<framebuf, queued, filled, content, frame, buf, tmp_buf>>
      BY <1>2 DEF Copy, memoryVars
    <2> QED
      BY <2>1 DEF FrameTypes, InOnePlace, InOrder
  <1> QED
    BY <1>1, <1>2

(* QBUF: the buffer goes to the driver again.                              *)
LEMMA EnqueueKeepsFrames ==
    ASSUME FrameInv, Enqueue
    PROVE  FrameInv'
  <1> USE DEF FrameInv
  <1>1. /\ queued' = Append(queued, buf) /\ pc = "enqueue" /\ pc' \in {"save", "dequeue"}
        /\ UNCHANGED <<framebuf, filled, content, frame, buf, tmp_buf>>
    BY DEF Enqueue, memoryVars
  <1>2. /\ queued' \in Seq(Buffers) /\ Len(queued) \in Nat /\ Len(queued') = Len(queued) + 1
        /\ \A i \in 1 .. Len(queued) : queued'[i] = queued[i]
        /\ queued'[Len(queued) + 1] = buf
    BY <1>1 DEF FrameTypes
  <1>3. FrameTypes'
    BY <1>1, <1>2 DEF FrameTypes
  <1>4. InOnePlace'
    BY <1>1, <1>2 DEF InOnePlace
  <1>5. InOrder'
    BY <1>1 DEF InOrder
  <1> QED
    BY <1>3, <1>4, <1>5

(* What the driver and the copies have to do with each other is kept.      *)
LEMMA FramesAreKept ==
    ASSUME FrameInv, [Next]_vars
    PROVE  FrameInv'
  <1>1. CASE RequestFails \/ DeviceFails
    BY <1>1, ReturnLeavesNothing DEF RequestFails, DeviceFails, memoryVars, FrameInv, FrameTypes
  <1>2. CASE ModeDown
    BY <1>2, ReturnLeavesNothing DEF ModeDown, memoryVars, FrameInv, FrameTypes
  <1>8. CASE Save
    BY <1>8 DEF Save, GiveBack, deviceVars, FrameInv, FrameTypes, InOnePlace, InOrder
  <1>3. CASE Restart
    <2>1. framebuf' \in [Buffers -> {"none", "mapped", "unmapped"}]
      BY <1>3 DEF Restart
    <2> QED
      BY <1>3, <2>1, ReturnLeavesNothing DEF Restart
  <1>4. ASSUME UNCHANGED <<framebuf, queued, filled, content, frame, buf, tmp_buf>>,
               \/ pc' = pc
               \/ pc \in {"idle", "mode", "select", "endless"}
                  /\ pc' \in {"idle", "mode", "select", "endless", "request"}
               \/ pc = "prepared" /\ pc' = "start"
               \/ pc = "start" /\ pc' = "dequeue"
               \/ pc = "save" /\ pc' = "crashed"
        PROVE  FrameInv'
    BY <1>4 DEF FrameInv, FrameTypes, InOnePlace, InOrder
  <1> USE DEF deviceVars, memoryVars
  <1>5. CASE \/ \E caller \in {"mode", "select"} : OpenGPIO(caller)
             \/ \E v \in {0, 1} : SetMode(v)
             \/ CamSel \/ Flip \/ OpenDevice
    BY <1>4, <1>5 DEF OpenGPIO, SetMode, CamSel, CloseGPIO, Flip, OpenDevice
  <1>6. CASE (\E k \in 0 .. NUM : OpenFiles(k)) \/ StreamOn \/ SaveCrashes \/ SaveUnmapsUsed
    BY <1>4, <1>6 DEF OpenFiles, StreamOn, SaveCrashes, SaveUnmapsUsed
  <1>7. CASE ForeignOpens \/ ForeignCloses \/ UNCHANGED vars
    BY <1>4, <1>7 DEF ForeignOpens, ForeignCloses, vars
  <1> QED
    BY <1>1, <1>2, <1>3, <1>5, <1>6, <1>7, <1>8, MapBuffersKeepsFrames, DeliverKeepsFrames,
       DequeueKeepsFrames, CopyKeepsFrames, EnqueueKeepsFrames
    DEF Next, Photo

-----------------------------------------------------------------------------
(* What a photo holds.                                                     *)

IsOpenOn(kind) == {n \in Descriptors : fds[n] = kind}

HoldTypes ==
    /\ pc \in {"idle", "mode", "select", "endless", "request", "prepared", "start", "dequeue", "copy",
               "enqueue", "save", "down", "crashed"}
    /\ mappings \in Nat /\ blocks \in 0 .. MaxBlocks /\ enough \in BOOLEAN
    /\ before \in [{"cameras", "files", "mappings", "blocks"} -> Nat]

(* Beyond what was there before a photo holds one camera, its files, the   *)
(* mapped buffers and, if malloc gave them, its pictures.                  *)
Accounted ==
    /\ InPhoto =>
           /\ Cardinality(IsOpenOn("camera")) <= before["cameras"] + 1
           /\ Cardinality(IsOpenOn("file")) <= before["files"] + Cardinality(files)
           /\ mappings - Cardinality(Mapped) <= before["mappings"]
           /\ pc # "request" /\ enough => NUM <= blocks /\ blocks - NUM <= before["blocks"]
    /\ pc = "request" => mappings = before["mappings"] /\ blocks = before["blocks"]
    /\ pc \in {"enqueue", "save"} => enough
    /\ pc \notin {"start", "dequeue", "copy", "enqueue", "save", "crashed"} => files = {}
    /\ Cardinality(Mapped) <= mappings

HoldInv == HoldTypes /\ Accounted

LEMMA SetsAreFinite ==
    /\ \A S \in SUBSET Descriptors : IsFiniteSet(S) /\ Cardinality(S) \in Nat
    /\ \A S \in SUBSET Buffers : IsFiniteSet(S) /\ Cardinality(S) \in Nat
  <1>1. IsFiniteSet(Descriptors) /\ IsFiniteSet(Buffers)
    BY FS_Interval, LimitsAssumption, BUFFER_COUNTAssumption DEF Descriptors, Buffers
  <1> QED
    BY <1>1, FS_Subset, FS_CardinalityType

LEMMA HeldIsCounted ==
    /\ Held \in [{"cameras", "files", "mappings", "blocks"} -> Nat] <=>
           mappings \in Nat /\ blocks \in Nat
    /\ Held["cameras"] = Cardinality(IsOpenOn("camera"))
    /\ Held["files"] = Cardinality(IsOpenOn("file"))
    /\ Held["mappings"] = mappings /\ Held["blocks"] = blocks
  <1>1. \A kind : OpenOn(kind) = Cardinality(IsOpenOn(kind)) /\ OpenOn(kind) \in Nat
    BY SetsAreFinite DEF OpenOn, IsOpenOn
  <1> QED
    BY <1>1 DEF Held

(* Steps that take and give back nothing a photo holds.                    *)
LEMMA NothingTaken ==
    ASSUME HoldInv, HoldTypes', UNCHANGED <<memoryVars, before, files>>,
           IsOpenOn("camera")' = IsOpenOn("camera"), IsOpenOn("file")' = IsOpenOn("file"),
           \/ pc' = pc
           \/ ~InPhoto' /\ (files = {} \/ pc' = "crashed")
           \/ pc = "start" /\ pc' = "dequeue"
           \/ pc = "dequeue" /\ pc' = "copy"
           \/ pc = "copy" /\ pc' = "enqueue" /\ enough
           \/ pc = "enqueue" /\ pc' \in {"save", "dequeue"}
    PROVE  HoldInv'
  <1>1. Mapped' = Mapped
    BY DEF Mapped, memoryVars
  <1> QED
    BY <1>1 DEF HoldInv, HoldTypes, Accounted, InPhoto, memoryVars

(* The end of a call, in which the photo's mappings may be undone.         *)
LEMMA CallReturns ==
    ASSUME HoldInv, Return, HoldTypes', Cardinality(Mapped)' <= mappings'
    PROVE  HoldInv'
  BY DEF HoldInv, Return, Accounted, InPhoto

LEMMA OpenDeviceHolds ==
    ASSUME FdInv, HoldInv, OpenDevice
    PROVE  HoldInv'
  <1>1. /\ before' = Held /\ UNCHANGED <<mappings, blocks, enough, framebuf, files>>
        /\ pc = "idle" /\ pc' \in {"request", "endless"}
    BY DEF OpenDevice, memoryVars
  <1>2. HoldTypes'
    BY <1>1, HeldIsCounted, LimitsAssumption DEF HoldInv, HoldTypes
  <1>3. Mapped' = Mapped
    BY <1>1 DEF Mapped
  <1>4. files' = {}
    BY <1>1 DEF HoldInv, Accounted
  <1>5. CASE pc' = "request"
    <2>1. fd' \in Free /\ fds' = [fds EXCEPT ![fd'] = "camera"]
      BY <1>5, LowestIsFree DEF OpenDevice
    <2>2. IsOpenOn("camera")' = IsOpenOn("camera") \cup {fd'}
      BY <2>1 DEF FdInv, IsOpenOn, Free
    <2>3. IsOpenOn("file")' = IsOpenOn("file")
      BY <2>1 DEF FdInv, IsOpenOn, Free
    <2>4. IsOpenOn("camera") \in SUBSET Descriptors /\ IsOpenOn("file") \in SUBSET Descriptors
      BY DEF IsOpenOn
    <2>5. Cardinality(IsOpenOn("camera")') <= Cardinality(IsOpenOn("camera")) + 1
      BY <2>2, <2>4, SetsAreFinite, FS_AddElement
    <2>6. Mapped \in SUBSET Buffers /\ Cardinality(Mapped) \in Nat /\ Cardinality({}) = 0
      BY SetsAreFinite, FS_EmptySet DEF Mapped
    <2>7. before'["cameras"] = Cardinality(IsOpenOn("camera"))
          /\ before'["files"] = Cardinality(IsOpenOn("file"))
          /\ before'["mappings"] = mappings /\ before'["blocks"] = blocks
      BY <1>1, HeldIsCounted
    <2>8. Cardinality(IsOpenOn("file")) \in Nat
      BY <2>4, SetsAreFinite
    <2>9. mappings \in Nat /\ Cardinality(Mapped) <= mappings
      BY DEF HoldInv, HoldTypes, Accounted
    <2> QED
      BY <1>1, <1>2, <1>3, <1>4, <1>5, <2>3, <2>5, <2>6, <2>7, <2>8, <2>9
      DEF HoldInv, Accounted, InPhoto
  <1>6. CASE pc' = "endless"
    BY <1>1, <1>2, <1>3, <1>4, <1>6 DEF HoldInv, Accounted, InPhoto
  <1> QED
    BY <1>1, <1>5, <1>6

LEMMA MapBuffersHolds ==
    ASSUME FrameInv, HoldInv, NEW k \in 0 .. BUFFER_COUNT, MapBuffers(k)
    PROVE  HoldInv'
  <1>1. /\ pc = "request" /\ pc' = "prepared"
        /\ enough' = (blocks + NUM <= MaxBlocks)
        /\ blocks' = IF enough' THEN blocks + NUM ELSE MaxBlocks
        /\ UNCHANGED <<fds, files, before>>
    BY DEF MapBuffers
  <1>2. PICK way \in {"same", "none", "mapped"} :
            /\ k = BUFFER_COUNT => way = "same"
            /\ framebuf' = [b \in Buffers |->
                  IF b < k THEN "mapped"
                  ELSE IF b = k /\ way # "same" THEN way ELSE framebuf[b]]
            /\ mappings' = mappings + k + (IF way = "mapped" THEN 1 ELSE 0)
    BY DEF MapBuffers
  <1> DEFINE more == IF way = "mapped" THEN k + 1 ELSE k
             New == 0 .. more - 1
  <1>3. more \in Nat /\ more <= BUFFER_COUNT /\ mappings' = mappings + more
    BY <1>2, BUFFER_COUNTAssumption DEF HoldInv, HoldTypes
  <1>4. New \subseteq Buffers /\ New \subseteq Mapped' /\ Mapped' \subseteq Mapped \cup New
    BY <1>2, BUFFER_COUNTAssumption DEF Mapped, Buffers
  <1>5. IsFiniteSet(New) /\ Cardinality(New) = more
    <2>1. more - 1 \in Int /\ (0 > more - 1 <=> more = 0)
      BY <1>3
    <2>2. /\ IsFiniteSet(New)
          /\ Cardinality(New) = IF 0 > more - 1 THEN 0 ELSE (more - 1) - 0 + 1
      BY <2>1, FS_Interval
    <2> QED
      BY <1>3, <2>1, <2>2
  <1> HIDE DEF more, New
  <1>6. more <= Cardinality(Mapped') /\ Cardinality(Mapped') \in Nat
    <2>1. Mapped' \in SUBSET Buffers
      BY DEF Mapped
    <2> QED
      BY <1>4, <1>5, <2>1, SetsAreFinite, FS_Subset
  <1>7. Cardinality(Mapped') <= Cardinality(Mapped) + more /\ Cardinality(Mapped) \in Nat
    <2>1. Mapped \in SUBSET Buffers /\ (Mapped \cup New) \in SUBSET Buffers
      BY <1>4 DEF Mapped
    <2>2. IsFiniteSet(Mapped) /\ IsFiniteSet(Mapped \cup New) /\ Cardinality(Mapped) \in Nat
      BY <2>1, SetsAreFinite
    <2>3. Cardinality(Mapped') <= Cardinality(Mapped \cup New)
      BY <1>4, <2>2, FS_Subset
    <2>4. Cardinality(Mapped \cap New) \in Nat
      BY <2>2, FS_Intersection, FS_CardinalityType
    <2>5. Cardinality(Mapped \cup New) = Cardinality(Mapped) + more - Cardinality(Mapped \cap New)
      BY <1>5, <2>2, FS_Union
    <2>6. Cardinality(Mapped') \in Nat /\ Cardinality(Mapped \cup New) \in Nat
      BY <1>6, <2>2, FS_CardinalityType
    <2> QED
      BY <1>3, <2>2, <2>3, <2>4, <2>5, <2>6
  <1>8. HoldTypes'
    <2>1. enough' \in BOOLEAN
      BY <1>1
    <2>2. blocks' \in 0 .. MaxBlocks
      <3>1. blocks \in 0 .. MaxBlocks /\ NUM \in Nat /\ MaxBlocks \in Nat
        BY NUMAssumption, LimitsAssumption DEF HoldInv, HoldTypes
      <3>2. CASE blocks + NUM <= MaxBlocks
        BY <1>1, <3>1, <3>2
      <3>3. CASE ~(blocks + NUM <= MaxBlocks)
        <4>1. ~enough'
          BY <1>1, <3>3
        <4>2. blocks' = MaxBlocks
          BY <1>1, <4>1
        <4> QED
          BY <3>1, <4>2
      <3> QED
        BY <3>2, <3>3
    <2>3. mappings' \in Nat
      BY <1>3 DEF HoldInv, HoldTypes
    <2> QED
      BY <1>1, <2>1, <2>2, <2>3 DEF HoldInv, HoldTypes
  <1>9. IsOpenOn("camera")' = IsOpenOn("camera") /\ IsOpenOn("file")' = IsOpenOn("file")
    BY <1>1 DEF IsOpenOn
  <1>10. /\ mappings \in Nat /\ mappings = before["mappings"] /\ blocks = before["blocks"]
         /\ blocks \in Nat /\ NUM \in Nat /\ files = {} /\ Cardinality(Mapped) <= mappings
    BY <1>1, LimitsAssumption, NUMAssumption DEF HoldInv, HoldTypes, Accounted
  <1>11. mappings' - Cardinality(Mapped') <= before["mappings"]
    BY <1>3, <1>6, <1>10
  <1>12. Cardinality(Mapped') <= mappings'
    BY <1>3, <1>6, <1>7, <1>10
  <1>13. enough' => NUM <= blocks' /\ blocks' - NUM <= before["blocks"]
    BY <1>1, <1>10
  <1> QED
    BY <1>1, <1>8, <1>9, <1>10, <1>11, <1>12, <1>13 DEF HoldInv, Accounted, InPhoto

LEMMA OpenFilesHolds ==
    ASSUME FdInv, HoldInv, NEW k, OpenFiles(k)
    PROVE  HoldInv'
  <1>1. /\ pc = "prepared" /\ pc' = "start" /\ UNCHANGED <<memoryVars, before>>
        /\ fds' = [n \in Descriptors |-> IF n \in files' THEN "file" ELSE fds[n]]
    BY DEF OpenFiles
  <1>2. files' \subseteq Free /\ files' \subseteq Descriptors
    BY LowestIsFree DEF OpenFiles
  <1>3. IsOpenOn("camera")' = IsOpenOn("camera")
    BY <1>1, <1>2 DEF IsOpenOn, Free
  <1>4. IsOpenOn("file")' = IsOpenOn("file") \cup files'
    BY <1>1, <1>2 DEF IsOpenOn
  <1>5. files = {} /\ Cardinality({}) = 0
    BY <1>1, FS_EmptySet DEF HoldInv, Accounted
  <1>6. /\ IsOpenOn("file")' \in SUBSET Descriptors
        /\ IsOpenOn("file") \in SUBSET Descriptors
    BY DEF IsOpenOn
  <1>7. Cardinality(IsOpenOn("file")') <= Cardinality(IsOpenOn("file")) + Cardinality(files')
    <2>1. IsFiniteSet(files') /\ IsFiniteSet(IsOpenOn("file"))
      BY <1>2, <1>6, SetsAreFinite
    <2>2. Cardinality(IsOpenOn("file") \cap files') \in Nat
      BY <2>1, FS_Intersection, FS_CardinalityType
    <2>3. Cardinality(files') \in Nat /\ Cardinality(IsOpenOn("file")) \in Nat
      BY <2>1, FS_CardinalityType
    <2>4. Cardinality(IsOpenOn("file")') =
              Cardinality(IsOpenOn("file")) + Cardinality(files')
                  - Cardinality(IsOpenOn("file") \cap files')
      BY <1>4, <2>1, FS_Union
    <2> QED
      BY <2>2, <2>3, <2>4
  <1>8. /\ Cardinality(IsOpenOn("file")') \in Nat /\ Cardinality(IsOpenOn("file")) \in Nat
        /\ Cardinality(files') \in Nat
    BY <1>2, <1>6, SetsAreFinite
  <1>9. before["files"] \in Nat /\ Cardinality(IsOpenOn("file")) <= before["files"]
    BY <1>1, <1>5, <1>8 DEF HoldInv, HoldTypes, Accounted, InPhoto
  <1>10. Cardinality(IsOpenOn("file")') <= before["files"] + Cardinality(files')
    BY <1>7, <1>8, <1>9
  <1>11. HoldTypes' /\ Mapped' = Mapped
    BY <1>1 DEF HoldInv, HoldTypes, Mapped, memoryVars
  <1> QED
    BY <1>1, <1>3, <1>10, <1>11 DEF HoldInv, Accounted, InPhoto, memoryVars

(* A photo that ends well: the mappings of before, or fewer.               *)
LEMMA SaveHolds ==
    ASSUME FrameInv, HoldInv, Save
    PROVE  HoldInv'
  <1>1. /\ pc = "save" /\ enough /\ pc' = "down" /\ files' = {} /\ UNCHANGED <<enough, before>>
        /\ framebuf' = [b \in Buffers |-> IF framebuf[b] = "mapped" THEN "unmapped" ELSE framebuf[b]]
        /\ blocks' = blocks - NUM
    BY DEF Save, GiveBack, HoldInv, Accounted
  <1>2. PICK k \in 0 .. Cardinality(Stale) :
            /\ k <= mappings - Cardinality(Mapped)
            /\ mappings' = mappings - Cardinality(Mapped) - k
    BY DEF Save, GiveBack
  <1>3. Mapped' = {} /\ Cardinality({}) = 0
    BY <1>1, FS_EmptySet DEF Mapped
  <1>4. Cardinality(Mapped) \in Nat /\ Cardinality(Stale) \in Nat
    BY SetsAreFinite DEF Mapped, Stale
  <1>5. mappings' \in Nat
    BY <1>2, <1>4 DEF HoldInv, HoldTypes
  <1>6. blocks' \in 0 .. MaxBlocks
    BY <1>1, NUMAssumption, LimitsAssumption DEF HoldInv, HoldTypes, Accounted, InPhoto
  <1>8. HoldTypes'
    BY <1>1, <1>5, <1>6 DEF HoldInv, HoldTypes
  <1> QED
    BY <1>1, <1>3, <1>5, <1>8 DEF HoldInv, Accounted, InPhoto

(* What a photo holds beyond what was there is accounted for.              *)
LEMMA HoldIsKept ==
    ASSUME FdInv, FrameInv, HoldInv, [Next]_vars
    PROVE  HoldInv'
  <1> USE DEF deviceVars
  <1>1. ASSUME NEW caller \in {"mode", "select"}, OpenGPIO(caller)
        PROVE  HoldInv'
    <2>1. \/ fds' = fds
          \/ \E n \in Free : fds' = [fds EXCEPT ![n] = "gpio"]
      BY <1>1, LowestIsFree DEF OpenGPIO
    <2>2. IsOpenOn("camera")' = IsOpenOn("camera") /\ IsOpenOn("file")' = IsOpenOn("file")
      BY <2>1 DEF FdInv, IsOpenOn, Free
    <2>3. files = {}
      BY <1>1 DEF OpenGPIO, HoldInv, Accounted
    <2> QED
      BY <1>1, <2>2, <2>3, NothingTaken DEF OpenGPIO, HoldInv, HoldTypes, memoryVars, InPhoto
  <1>2. CASE CamSel \/ \E v \in {0, 1} : SetMode(v)
    <2>1. pc \in {"mode", "select"} /\ pc' = "idle" /\ UNCHANGED <<memoryVars, before, files>>
          /\ fds' = [n \in Descriptors |-> IF n = fd_gpio THEN "free" ELSE fds[n]]
      BY <1>2 DEF CamSel, SetMode, CloseGPIO
    <2>2. fd_gpio # -1 => fds[fd_gpio] = "gpio"
      BY <2>1 DEF FdInv, ClosesItsOwn
    <2>3. IsOpenOn("camera")' = IsOpenOn("camera") /\ IsOpenOn("file")' = IsOpenOn("file")
      BY <2>1, <2>2, LimitsAssumption DEF IsOpenOn, Descriptors
    <2>5. HoldTypes' /\ files = {}
      BY <2>1 DEF HoldInv, HoldTypes, Accounted, memoryVars
    <2> QED
      BY <2>1, <2>3, <2>5, NothingTaken DEF InPhoto
  <1>3. CASE Flip \/ Deliver \/ UNCHANGED vars
    <2>1. UNCHANGED <<memoryVars, before, files, fds, pc>>
      BY <1>3 DEF Flip, Deliver, vars
    <2> QED
      BY <2>1, NothingTaken DEF IsOpenOn, HoldInv, HoldTypes, memoryVars
  <1>4. CASE RequestFails \/ DeviceFails \/ ModeDown
    <2>1. Return /\ UNCHANGED memoryVars
      BY <1>4 DEF RequestFails, DeviceFails, ModeDown
    <2>2. HoldTypes'
      BY <2>1 DEF Return, HoldInv, HoldTypes, Nothing, memoryVars
    <2>3. Mapped' = Mapped /\ mappings' = mappings
      BY <2>1 DEF Mapped, memoryVars
    <2> QED
      BY <2>1, <2>2, <2>3, CallReturns DEF HoldInv, Accounted
  <1>5. CASE StreamOn \/ Dequeue \/ Copy \/ Enqueue \/ SaveCrashes \/ SaveUnmapsUsed
    <2>1. UNCHANGED <<memoryVars, before, files, fds>>
      BY <1>5 DEF StreamOn, Dequeue, Copy, Enqueue, SaveCrashes, SaveUnmapsUsed
    <2>2. \/ pc' = "crashed"
          \/ pc = "start" /\ pc' = "dequeue"
          \/ pc = "dequeue" /\ pc' = "copy"
          \/ pc = "copy" /\ pc' = "enqueue" /\ enough
          \/ pc = "enqueue" /\ pc' \in {"save", "dequeue"}
      BY <1>5 DEF StreamOn, Dequeue, Copy, Enqueue, SaveCrashes, SaveUnmapsUsed
    <2>4. HoldTypes'
      BY <2>1, <2>2 DEF HoldInv, HoldTypes, memoryVars
    <2> QED
      BY <2>1, <2>2, <2>4, NothingTaken DEF IsOpenOn, InPhoto
  <1>6. CASE ForeignOpens
    <2>1. \E n \in Free : fds' = [fds EXCEPT ![n] = "foreign"]
      BY <1>6, LowestIsFree DEF ForeignOpens
    <2>2. IsOpenOn("camera")' = IsOpenOn("camera") /\ IsOpenOn("file")' = IsOpenOn("file")
      BY <2>1 DEF FdInv, IsOpenOn, Free
    <2> QED
      BY <1>6, <2>2, NothingTaken DEF ForeignOpens, HoldInv, HoldTypes, memoryVars
  <1>7. CASE ForeignCloses
    <2>1. IsOpenOn("camera")' = IsOpenOn("camera") /\ IsOpenOn("file")' = IsOpenOn("file")
      BY <1>7 DEF ForeignCloses, FdInv, IsOpenOn
    <2> QED
      BY <1>7, <2>1, NothingTaken DEF ForeignCloses, HoldInv, HoldTypes, memoryVars
  <1>8. CASE Restart
    <2>1. Return /\ mappings' = 0 /\ blocks' = 0 /\ enough' = TRUE
      BY <1>8 DEF Restart
    <2>2. Mapped' = {} /\ Cardinality({}) = 0
      BY <1>8, FS_EmptySet DEF Restart, Mapped
    <2>3. HoldTypes'
      BY <2>1, LimitsAssumption DEF Return, HoldInv, HoldTypes, Nothing
    <2> QED
      BY <2>1, <2>2, <2>3, CallReturns
  <1> QED
    BY <1>1, <1>2, <1>3, <1>4, <1>5, <1>6, <1>7, <1>8, OpenDeviceHolds, MapBuffersHolds,
       OpenFilesHolds, SaveHolds
    DEF Next, Photo

-----------------------------------------------------------------------------
(* The number of the GPIO lines.                                           *)

(* open() gave fd_gpio the lowest number there was.  What was open below   *)
(* it stays open while no other thread closes anything, so that the camera *)
(* of a photo is the first to get fd_gpio's number, and no file gets it.   *)
GpioInv ==
    /\ StraysOnlyByOthers
    /\ ~disturbed /\ fd_gpio \in Descriptors =>
           /\ \A n \in Free : fd_gpio <= n
           /\ \A n \in files : fd_gpio <= n
           /\ InPhoto => fd_gpio <= fd /\ fd_gpio \notin Free

GpioTypes ==
    /\ line \in [{"SEND", "MODE"} -> {0, 1}]
    /\ spoiled \in BOOLEAN /\ disturbed \in BOOLEAN

(* One call of open() gives the lowest number that is free.                *)
LEMMA LowestOfAll ==
    ASSUME NEW n \in Lowest(1)
    PROVE  n \in Free /\ \A m \in Free : n <= m
  <1> DEFINE Below == {m \in Free : m < n}
  <1>1. n \in Free /\ Cardinality(Below) < 1
    BY DEF Lowest
  <1>2. Below \in SUBSET Descriptors
    BY DEF Free
  <1>3. Below = {}
    BY <1>1, <1>2, SetsAreFinite, FS_EmptySet
  <1> QED
    BY <1>1, <1>3, LimitsAssumption DEF Free, Descriptors

(* A write sets the lines to levels, whatever it reaches.                  *)
LEMMA GpioTypesAreKept ==
    ASSUME GpioTypes, [Next]_vars
    PROVE  GpioTypes'
  <1> USE DEF GpioTypes
  <1>1. ASSUME NEW levels \in [{"SEND", "MODE"} -> {0, 1}], WriteGPIO(levels)
        PROVE  GpioTypes'
    BY <1>1 DEF WriteGPIO
  <1>2. CASE \E v \in {0, 1} : SetMode(v)
    BY <1>1, <1>2 DEF SetMode
  <1>3. CASE StreamOn \/ Save \/ SaveUnmapsUsed \/ ModeDown
    BY <1>1, <1>3 DEF StreamOn, Save, GiveBack, SaveUnmapsUsed, ModeDown
  <1>4. CASE UNCHANGED line /\ spoiled' \in {spoiled, FALSE}
             /\ disturbed' \in {disturbed, TRUE, FALSE}
    BY <1>4
  <1> QED
    BY <1>2, <1>3, <1>4
    DEF Next, Photo, OpenGPIO, CamSel, Flip, OpenDevice, RequestFails, MapBuffers, OpenFiles,
        Dequeue, Copy, Enqueue, DeviceFails, SaveCrashes, Deliver, ForeignOpens,
        ForeignCloses, Restart, gpioVars, vars

(* takePicture writes to fd_gpio with the number as it is.                 *)
LEMMA WritesStray ==
    ASSUME FdInv, GpioInv, pc \notin {"mode", "select"}, NEW levels, WriteGPIO(levels)
    PROVE  UNCHANGED disturbed /\ (spoiled' => disturbed)
  BY DEF WriteGPIO, GpioInv, StraysOnlyByOthers

(* fd_gpio's number goes to a file only if another thread closed one.      *)
LEMMA GpioIsKept ==
    ASSUME FdInv, HoldInv, GpioInv, [Next]_vars
    PROVE  GpioInv'
  <1> USE LimitsAssumption DEF GpioInv, StraysOnlyByOthers, Free, Descriptors, InPhoto
  <1>1. ASSUME NEW caller \in {"mode", "select"}, OpenGPIO(caller)
        PROVE  GpioInv'
    <2>1. files = {} /\ files' = {} /\ ~disturbed' /\ ~spoiled' /\ pc' = caller
      BY <1>1 DEF OpenGPIO, HoldInv, Accounted
    <2>2. CASE fd_gpio' = -1
      BY <2>1, <2>2
    <2>3. CASE fd_gpio' \in Lowest(1) /\ fds' = [fds EXCEPT ![fd_gpio'] = "gpio"]
      BY <2>1, <2>3, LowestOfAll DEF FdInv
    <2> QED
      BY <1>1, <2>2, <2>3 DEF OpenGPIO
  <1>2. CASE CamSel \/ \E v \in {0, 1} : SetMode(v)
    <2>1. /\ pc \in {"mode", "select"} /\ pc' = "idle" /\ UNCHANGED <<fd_gpio, files, disturbed>>
          /\ fds' = [n \in Descriptors |-> IF n = fd_gpio THEN "free" ELSE fds[n]]
      BY <1>2 DEF CamSel, SetMode, CloseGPIO, WriteGPIO, gpioVars
    <2>2. fd_gpio # -1 => fds[fd_gpio] = "gpio"
      BY <2>1 DEF FdInv, ClosesItsOwn
    <2>4. fd_gpio \in Descriptors => fds[fd_gpio] # "file"
      BY <2>2
    <2>3. spoiled' => spoiled
      BY <1>2, <2>4 DEF CamSel, SetMode, WriteGPIO, gpioVars
    <2> QED
      BY <2>1, <2>3 DEF FdInv
  <1>3. CASE Flip \/ RequestFails \/ DeviceFails \/ Deliver \/ SaveCrashes \/ Dequeue \/ Copy
             \/ Enqueue \/ UNCHANGED vars
    <2>1. /\ UNCHANGED <<fds, fd_gpio, gpioVars>> /\ (files' = files \/ files' = {})
          /\ InPhoto' => InPhoto /\ fd' = fd
          /\ pc' \notin {"mode", "select"} \/ pc' = pc
          /\ pc \notin {"mode", "select"} \/ pc' = pc
      BY <1>3 DEF Flip, RequestFails, DeviceFails, Return, Deliver, SaveCrashes, Dequeue, Copy,
         Enqueue, vars
    <2> QED
      BY <2>1 DEF gpioVars
  <1>4. CASE OpenDevice
    <2>1. /\ pc = "idle" /\ pc' \in {"request", "endless"}
          /\ UNCHANGED <<fd_gpio, files, disturbed, spoiled>>
      BY <1>4 DEF OpenDevice, gpioVars
    <2>2. CASE fd' \in Lowest(1) /\ fds' = [fds EXCEPT ![fd'] = "camera"]
      BY <2>1, <2>2, LowestOfAll DEF FdInv
    <2>3. CASE pc' = "endless" /\ UNCHANGED fds
      BY <2>1, <2>3
    <2> QED
      BY <1>4, <2>2, <2>3 DEF OpenDevice
  <1>5. ASSUME NEW k, MapBuffers(k)
        PROVE  GpioInv'
    BY <1>5 DEF MapBuffers, gpioVars
  <1>6. ASSUME NEW k, OpenFiles(k)
        PROVE  GpioInv'
    <2>1. files' \subseteq Free
      BY <1>6, LowestIsFree DEF OpenFiles
    <2>2. /\ fds' = [n \in Descriptors |-> IF n \in files' THEN "file" ELSE fds[n]]
          /\ pc = "prepared" /\ pc' = "start" /\ UNCHANGED <<fd, fd_gpio, gpioVars>>
      BY <1>6 DEF OpenFiles
    <2> QED
      BY <2>1, <2>2 DEF gpioVars
  <1>7. CASE StreamOn \/ SaveUnmapsUsed \/ ModeDown
    <2>1. /\ UNCHANGED <<fds, fd, fd_gpio, disturbed>> /\ (files' = files \/ files' = {})
          /\ pc \in {"start", "save", "down"} /\ pc' \in {"dequeue", "crashed", "idle"}
          /\ InPhoto' => InPhoto
          /\ spoiled' => disturbed
      BY <1>7, WritesStray DEF StreamOn, SaveUnmapsUsed, ModeDown, Return
    <2> QED
      BY <2>1
  <1>8. CASE Save
    <2>1. /\ fds' = [n \in Descriptors |-> IF n \in {fd} \cup files THEN "free" ELSE fds[n]]
          /\ pc = "save" /\ pc' = "down" /\ files' = {} /\ UNCHANGED <<fd_gpio, disturbed>>
          /\ spoiled' => disturbed
      BY <1>8, WritesStray DEF Save, GiveBack
    <2> QED
      BY <2>1 DEF FdInv
  <1>9. CASE ForeignOpens
    <2>1. /\ UNCHANGED <<fd, fd_gpio, pc, files, gpioVars>>
          /\ \E n \in Free : fds' = [fds EXCEPT ![n] = "foreign"]
      BY <1>9, LowestIsFree DEF ForeignOpens
    <2> QED
      BY <2>1 DEF FdInv, gpioVars
  <1>10. CASE ForeignCloses
    <2>1. /\ disturbed' /\ UNCHANGED <<fd_gpio, pc>>
          /\ \E n \in Descriptors : fds' = [fds EXCEPT ![n] = "free"]
      BY <1>10 DEF ForeignCloses
    <2> QED
      BY <2>1 DEF FdInv
  <1>11. CASE Restart
    BY <1>11 DEF Restart
  <1> QED
    BY <1>1, <1>2, <1>3, <1>4, <1>5, <1>6, <1>7, <1>8, <1>9, <1>10, <1>11 DEF Next, Photo

-----------------------------------------------------------------------------
(* The theorems.                                                           *)

IInv == FdInv /\ FrameInv /\ HoldInv /\ GpioTypes /\ GpioInv

LEMMA InitIsRight == Init => IInv
  <1> SUFFICES ASSUME Init
               PROVE  IInv
    OBVIOUS
  <1> USE NUMAssumption, BUFFER_COUNTAssumption, LimitsAssumption DEF Init
  <1>1. FdInv
    BY DEF FdInv, ClosesItsOwn
  <1>2. 0 \in Buffers /\ NoFrames \in [Buffers -> 0 .. MaxFrames]
    BY DEF Buffers, NoFrames
  <1>3. FrameInv
    BY <1>2 DEF FrameInv, FrameTypes, InOnePlace, InOrder
  <1>4. Mapped = {} /\ Cardinality({}) = 0
    BY FS_EmptySet DEF Mapped
  <1>5. HoldInv
    BY <1>4 DEF HoldInv, HoldTypes, Accounted, InPhoto, Nothing
  <1>6. GpioTypes
    BY DEF GpioTypes
  <1>7. GpioInv
    <2>1. fd_gpio \notin Descriptors
      BY DEF Descriptors
    <2> QED
      BY <2>1 DEF GpioInv, StraysOnlyByOthers
  <1> QED
    BY <1>1, <1>3, <1>5, <1>6, <1>7 DEF IInv

(* Every state of a run satisfies the invariant.                           *)
THEOREM Invariance == Spec => []IInv
  <1>1. IInv /\ [Next]_vars => IInv'
    BY FdIsKept, FramesAreKept, HoldIsKept, GpioTypesAreKept, GpioIsKept DEF IInv
  <1> QED
    BY InitIsRight, <1>1, PTL DEF Spec

(* Types: what is mapped and what malloc gave is never taken back twice.   *)
THEOREM TypeCorrect == Spec => []TypeOK
  <1>1. IInv => TypeOK
    BY DEF IInv, FdInv, FrameInv, FrameTypes, HoldInv, HoldTypes, GpioTypes, TypeOK
  <1> QED
    BY <1>1, Invariance, PTL

(* What a photo saves to and closes are the camera and the files it opened *)
(* itself, and setMode and camSel write to and close their own lines,      *)
(* whatever failed calls left behind.  (v4l2.c takePicture, bjwgpio.c.)    *)
THEOREM ItsOwnIsClosed == Spec => []ClosesItsOwn
  <1>1. IInv => ClosesItsOwn
    BY DEF IInv, FdInv
  <1> QED
    BY <1>1, Invariance, PTL

(* takePicture's commands for the GPIO lines, written to a number that was *)
(* closed, never get there; they spoil a picture file only if another      *)
(* thread closed a descriptor since.  (v4l2.c takePicture, writeGPIO.)     *)
THEOREM CommandsStrayByOthers == Spec => []StraysOnlyByOthers
  <1>1. IInv => StraysOnlyByOthers
    BY DEF IInv, GpioInv
  <1> QED
    BY <1>1, Invariance, PTL

(* memcpy reads a mapped buffer the driver leaves alone, and the pictures  *)
(* are different frames in their order.  (v4l2.c takePicture.)             *)
THEOREM CopiesAreRight == Spec => []CopiesWhatIsThere
  <1>1. IInv => CopiesWhatIsThere
    <2> SUFFICES ASSUME IInv
                 PROVE  CopiesWhatIsThere
      OBVIOUS
    <2>1. /\ DOMAIN tmp_buf = 1 .. Len(tmp_buf)
          /\ DOMAIN queued = 1 .. Len(queued)
      BY DEF IInv, FrameInv, FrameTypes
    <2> QED
      BY <2>1 DEF IInv, FrameInv, InOnePlace, InOrder, CopiesWhatIsThere
  <1> QED
    BY <1>1, Invariance, PTL

(* A photo that ends well leaves the process holding no more than before:  *)
(* the one camera and the files it opened are closed, every mapping and    *)
(* the pictures are given back.  (v4l2.c takePicture: "Release the         *)
(* resource".)                                                             *)
THEOREM NothingIsKept == Spec => GoodPhotoKeepsNothing
  <1> DEFINE A == pc = "save" /\ pc' = "down" =>
                      \A r \in DOMAIN before : Held'[r] <= before[r]
  <1>1. ASSUME IInv, Next, pc = "save", pc' = "down"
        PROVE  \A r \in DOMAIN before : Held'[r] <= before[r]
    <2>1. Save
      BY <1>1
      DEF Next, Photo, OpenGPIO, SetMode, CamSel, Flip, OpenDevice, RequestFails, MapBuffers,
          OpenFiles, StreamOn, Dequeue, Copy, Enqueue, DeviceFails, SaveCrashes,
          SaveUnmapsUsed, ModeDown, Deliver, ForeignOpens, ForeignCloses, Restart, Return
    <2> DEFINE camera == IsOpenOn("camera")
               file == IsOpenOn("file")
    <2>2. /\ fds' = [n \in Descriptors |-> IF n \in {fd} \cup files THEN "free" ELSE fds[n]]
          /\ \E k \in 0 .. Cardinality(Stale) : mappings' = mappings - Cardinality(Mapped) - k
          /\ blocks' = blocks - NUM
      BY <2>1 DEF Save, GiveBack
    <2>13. /\ mappings' <= mappings - Cardinality(Mapped)
           /\ mappings' \in Nat
      <3>1. Cardinality(Mapped) \in Nat /\ Cardinality(Stale) \in Nat /\ mappings \in Nat
        BY <1>1, SetsAreFinite DEF Mapped, Stale, IInv, HoldInv, HoldTypes
      <3>2. HoldInv'
        BY <1>1, <2>1, SaveHolds DEF IInv
      <3> QED
        BY <2>2, <3>1, <3>2 DEF HoldInv, HoldTypes
    <2>3. /\ fd \in camera /\ files \subseteq file
          /\ camera \in SUBSET Descriptors /\ file \in SUBSET Descriptors
      BY <1>1 DEF IInv, FdInv, ClosesItsOwn, IsOpenOn
    <2>4. camera' = camera \ {fd} /\ file' = file \ files
      BY <2>2, <2>3 DEF IsOpenOn
    <2>5. /\ IsFiniteSet(camera) /\ Cardinality(camera) \in Nat
          /\ IsFiniteSet(file) /\ Cardinality(file) \in Nat
          /\ files \in SUBSET Descriptors /\ Cardinality(files) \in Nat
      BY <2>3, SetsAreFinite
    <2>6. Cardinality(camera') = Cardinality(camera) - 1
      BY <2>3, <2>4, <2>5, FS_RemoveElement
    <2>7. Cardinality(file') = Cardinality(file) - Cardinality(files)
      <3>1. file \cap files = files
        BY <2>3
      <3> QED
        BY <2>4, <2>5, <3>1, FS_Difference
    <2>8. /\ Held'["cameras"] = Cardinality(camera') /\ Held'["files"] = Cardinality(file')
          /\ Held'["mappings"] = mappings' /\ Held'["blocks"] = blocks'
      BY DEF Held, OpenOn, IsOpenOn
    <2> HIDE DEF camera, file
    <2>9. /\ Cardinality(camera) <= before["cameras"] + 1
          /\ Cardinality(file) <= before["files"] + Cardinality(files)
          /\ mappings - Cardinality(Mapped) <= before["mappings"]
          /\ blocks - NUM <= before["blocks"]
      BY <1>1 DEF IInv, HoldInv, Accounted, InPhoto, camera, file
    <2>10. before \in [{"cameras", "files", "mappings", "blocks"} -> Nat]
      BY <1>1 DEF IInv, HoldInv, HoldTypes
    <2>11. before["cameras"] \in Nat /\ before["files"] \in Nat
      BY <2>10
    <2>14. Cardinality(Mapped) \in Nat /\ mappings \in Nat
      BY <1>1, SetsAreFinite DEF Mapped, IInv, HoldInv, HoldTypes
    <2>12. Cardinality(camera') <= before["cameras"] /\ Cardinality(file') <= before["files"]
      BY <2>5, <2>6, <2>7, <2>9, <2>11
    <2> QED
      BY <2>2, <2>8, <2>9, <2>10, <2>12, <2>13, <2>14
  <1>2. IInv /\ [Next]_vars => [A]_vars
    BY <1>1
  <1> QED
    BY <1>2, Invariance, PTL DEF Spec, GoodPhotoKeepsNothing

(* What a photo opened and took it works on, and on nothing else, but for  *)
(* its commands to the GPIO lines: those go wherever the number they were  *)
(* opened with leads, to a picture file only after another thread's close. *)
(* (v4l2.c takePicture.)                                                   *)
THEOREM ItsOwnIsWorkedOn == Spec => []WorksOnItsOwn
  BY ItsOwnIsClosed, CommandsStrayByOthers, CopiesAreRight, PTL DEF WorksOnItsOwn
=============================================================================
