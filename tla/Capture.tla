------------------------------ MODULE Capture ------------------------------
(***************************************************************************)
(* jni/v4l2.c and jni/bjwgpio.c, which MyCamera.java calls on the UI       *)
(* thread: taking a photo with every camera, setting the mode, choosing    *)
(* the camera, flipping the picture.                                       *)
(*                                                                         *)
(* The library keeps descriptors in the globals fd and fd_gpio.  Other     *)
(* threads of the process open and close descriptors too, and open() gives *)
(* the lowest free number, so a number can come to mean something else.    *)
(* While a photo is taken the driver fills the buffers queued to it.       *)
(*                                                                         *)
(* The step of the UI thread is a group of calls in which nothing depends  *)
(* on what other threads or the driver do meanwhile.  Formats and their    *)
(* failures, which are ignored, waits and conversion are left out.         *)
(***************************************************************************)
EXTENDS Integers, Sequences, FiniteSets

CONSTANTS
    NUM,            \* cameras, and pictures of a photo (8 in the code)
    BUFFER_COUNT,   \* buffers shared with the driver (3 in the code)
    MaxFd,          \* descriptors 1 .. MaxFd can be open at once; 0 always is
    MaxForeign,     \* bound: descriptors of other threads
    MaxFrames,      \* bound: frames the driver delivers during a photo
    MaxBlocks       \* pictures malloc has room for

ASSUME NUMAssumption == NUM \in Nat \ {0}
ASSUME BUFFER_COUNTAssumption == BUFFER_COUNT \in Nat \ {0}
ASSUME LimitsAssumption ==
    MaxFd \in Nat /\ MaxForeign \in Nat /\ MaxFrames \in Nat /\ MaxBlocks \in Nat

VARIABLES
    fds,            \* what each descriptor of the process is open on
    fd, fd_gpio,    \* globals: -1, 0 at first, or a number once got from open()
    pc,             \* where the UI thread is in a call of the library
    files,          \* descriptors of the fopen()s that did not return NULL
    framebuf,       \* whether start of each buffer is a mapping that is there
    mappings,       \* frame buffers mapped into the process
    blocks,         \* blocks of picture size that malloc gave
    enough,         \* no malloc of this photo returned NULL
    queued, filled, \* buffers the driver is to fill, and has filled
    content,        \* number of the frame in each buffer
    frame,          \* number of the last frame the cameras delivered
    buf,            \* the buffer the last DQBUF returned
    tmp_buf,        \* numbers of the frames copied
    before,         \* history: what was held when the photo began
    line,           \* levels of the GPIO lines SEND and MODE
    spoiled,        \* since the lines were opened a command went into a picture file
    disturbed       \* history: another thread closed something since then

deviceVars == <<queued, filled, content, frame, buf, tmp_buf>>
memoryVars == <<framebuf, mappings, blocks, enough>>
gpioVars   == <<line, spoiled, disturbed>>
vars == <<fds, fd, fd_gpio, pc, files, before, gpioVars, deviceVars, memoryVars>>

Descriptors == 1 .. MaxFd
Buffers == 0 .. BUFFER_COUNT - 1
Free == {n \in Descriptors : fds[n] = "free"}

(* The numbers k calls of open() return. *)
Lowest(k) == {n \in Free : Cardinality({m \in Free : m < n}) < k}

OpenOn(kind) == Cardinality({n \in Descriptors : fds[n] = kind})
Held == [cameras |-> OpenOn("camera"), files |-> OpenOn("file"),
         mappings |-> mappings, blocks |-> blocks]

(* Buffers of framebuf mapped now, and those whose address is an old one. *)
Mapped == {b \in Buffers : framebuf[b] = "mapped"}
Stale  == {b \in Buffers : framebuf[b] = "unmapped"}

Nothing == [cameras |-> 0, files |-> 0, mappings |-> 0, blocks |-> 0]
NoFrames == [b \in Buffers |-> 0]

Init ==
    /\ fds = [n \in Descriptors |-> "free"]
    /\ fd = 0 /\ fd_gpio = 0
    /\ pc = "idle"
    /\ files = {}
    /\ framebuf = [b \in Buffers |-> "none"]
    /\ mappings = 0 /\ blocks = 0 /\ enough = TRUE
    /\ queued = <<>> /\ filled = <<>> /\ content = NoFrames
    /\ frame = 0 /\ buf = 0 /\ tmp_buf = <<>>
    /\ before = Nothing
    /\ line = [l \in {"SEND", "MODE"} |-> 0]
    /\ spoiled = FALSE /\ disturbed = FALSE

-----------------------------------------------------------------------------
(* The GPIO lines and the choice of the camera.                            *)

(* writeGPIO with the descriptor as an earlier call left it: its command   *)
(* goes to whatever the number is open on now.  A picture file gets it in  *)
(* its bytes, also through a descriptor that a failed photo left behind:   *)
(* every photo writes the same files.  A camera refuses it, and what it    *)
(* does to a descriptor of another thread is not this library's state.     *)
WriteGPIO(levels) ==
    LET on == IF fd_gpio \in Descriptors THEN fds[fd_gpio] ELSE "free"
    IN  /\ line' = IF on = "gpio" THEN levels ELSE line
        /\ spoiled' = (spoiled \/ on = "file")
        /\ UNCHANGED disturbed

(* setMode and camSel open the lines, write and close.                     *)
OpenGPIO(caller) ==
    /\ pc = "idle"
    /\ pc' = caller
    /\ \/ /\ fd_gpio' \in Lowest(1)
          /\ fds' = [fds EXCEPT ![fd_gpio'] = "gpio"]
       \/ fd_gpio' = -1 /\ UNCHANGED fds
    /\ spoiled' = FALSE /\ disturbed' = FALSE
    /\ UNCHANGED <<fd, files, before, line, deviceVars, memoryVars>>

CloseGPIO ==
    /\ fds' = [n \in Descriptors |-> IF n = fd_gpio THEN "free" ELSE fds[n]]
    /\ pc' = "idle"
    /\ UNCHANGED <<fd, fd_gpio, files, before, deviceVars, memoryVars>>

SetMode(v) ==
    /\ pc = "mode"
    /\ WriteGPIO([line EXCEPT !["MODE"] = v])
    /\ CloseGPIO

(* The pulse leaves CAMSEL as it was.  (Which camera is then selected is   *)
(* the matter of MyCamera's count, see Photo.)                             *)
CamSel ==
    /\ pc = "select"
    /\ UNCHANGED gpioVars
    /\ CloseGPIO

(* setFlip opens and closes the camera with the same global as a photo. *)
Flip ==
    /\ pc = "idle"
    /\ fd' \in Lowest(1) \cup {-1}
    /\ UNCHANGED <<fds, fd_gpio, pc, files, before, gpioVars, deviceVars, memoryVars>>

-----------------------------------------------------------------------------
(* prepareBuffer.                                                          *)

(* takePicture begins: open_device.  A failure is not looked at; then      *)
(* get_format repeats an ioctl that cannot succeed, for ever.              *)
OpenDevice ==
    /\ pc = "idle"
    /\ before' = Held
    /\ \/ /\ fd' \in Lowest(1)
          /\ fds' = [fds EXCEPT ![fd'] = "camera"]
          /\ pc' = "request"
       \/ /\ fd' = -1
          /\ pc' = "endless"
          /\ UNCHANGED fds
    /\ UNCHANGED <<fd_gpio, files, gpioVars, deviceVars, memoryVars>>

(* The call returns: its local variables are gone, what it holds is not.   *)
(* (The driver's queues mean nothing until buffers are requested again.)   *)
Return ==
    /\ pc' = "idle"
    /\ files' = {} /\ before' = Nothing
    /\ queued' = <<>> /\ filled' = <<>> /\ content' = NoFrames
    /\ frame' = 0 /\ buf' = 0 /\ tmp_buf' = <<>>

(* Faulty variant: it gives the camera back, but not the error. *)
RequestFailsSilently ==
    /\ pc = "request"
    /\ pc' = "prepared"
    /\ fds' = [fds EXCEPT ![fd] = "free"]
    /\ UNCHANGED <<fd, fd_gpio, files, before, gpioVars, deviceVars, memoryVars>>

RequestFails ==
    /\ pc = "request"
    /\ Return
    /\ UNCHANGED <<fds, fd, fd_gpio, gpioVars, memoryVars>>

(* query_map_qbuf ends early after k buffers, which is not looked at.  The *)
(* next one is as it was, or its mapping failed, or it is mapped but not   *)
(* queued.  Then memory is taken for the pictures; no malloc() is checked. *)
MapBuffers(k) ==
    /\ pc = "request"
    /\ queued' = [i \in 1 .. k |-> i - 1]
    /\ \E next \in {"same", "none", "mapped"} :
           /\ k = BUFFER_COUNT => next = "same"
           /\ framebuf' = [b \in Buffers |->
                  IF b < k THEN "mapped"
                  ELSE IF b = k /\ next # "same" THEN next ELSE framebuf[b]]
           /\ mappings' = mappings + k + (IF next = "mapped" THEN 1 ELSE 0)
    /\ enough' = (blocks + NUM <= MaxBlocks)
    /\ blocks' = IF enough' THEN blocks + NUM ELSE MaxBlocks
    /\ pc' = "prepared"
    /\ UNCHANGED <<fds, fd, fd_gpio, files, before, gpioVars, filled, content, frame, buf,
                   tmp_buf>>

-----------------------------------------------------------------------------
(* takePicture.                                                            *)

(* The first k fopen()s succeed; NULL is not noticed. *)
OpenFiles(k) ==
    /\ pc = "prepared"
    /\ k <= Cardinality(Free)
    /\ files' = Lowest(k)
    /\ fds' = [n \in Descriptors |-> IF n \in files' THEN "file" ELSE fds[n]]
    /\ pc' = "start"
    /\ UNCHANGED <<fd, fd_gpio, before, gpioVars, deviceVars, memoryVars>>

StreamOn ==
    /\ pc = "start"
    /\ WriteGPIO([line EXCEPT !["SEND"] = 1])
    /\ pc' = "dequeue"
    /\ UNCHANGED <<fds, fd, fd_gpio, files, before, deviceVars, memoryVars>>

(* STREAMON, DQBUF (which has a time limit) or QBUF fails. *)
DeviceFails ==
    /\ pc \in {"start", "dequeue", "enqueue"}
    /\ Return
    /\ UNCHANGED <<fds, fd, fd_gpio, gpioVars, memoryVars>>

Streaming == pc \in {"dequeue", "copy", "enqueue"}

(* A frame comes: the driver puts it in the next buffer, or drops it. *)
Deliver ==
    /\ Streaming
    /\ frame < MaxFrames
    /\ frame' = frame + 1
    /\ IF queued = <<>>
       THEN UNCHANGED <<queued, filled, content>>
       ELSE /\ content' = [content EXCEPT ![Head(queued)] = frame']
            /\ filled' = Append(filled, Head(queued))
            /\ queued' = Tail(queued)
    /\ UNCHANGED <<fds, fd, fd_gpio, pc, files, before, gpioVars, buf, tmp_buf, memoryVars>>

(* Faulty variant: the buffer goes back to the driver before it is copied. *)
DequeueAndQueue ==
    /\ pc = "dequeue"
    /\ filled # <<>>
    /\ buf' = Head(filled)
    /\ filled' = Tail(filled)
    /\ queued' = Append(queued, Head(filled))
    /\ pc' = "copy"
    /\ UNCHANGED <<fds, fd, fd_gpio, files, before, gpioVars, content, frame, tmp_buf,
                   memoryVars>>

Dequeue ==
    /\ pc = "dequeue"
    /\ filled # <<>>
    /\ buf' = Head(filled)
    /\ filled' = Tail(filled)
    /\ pc' = "copy"
    /\ UNCHANGED <<fds, fd, fd_gpio, files, before, gpioVars, queued, content, frame, tmp_buf,
                   memoryVars>>

(* Faulty variant: the buffers are taken in turn, not as DQBUF says. *)
CopyInTurn ==
    /\ pc = "copy"
    /\ IF enough
       THEN /\ tmp_buf' = Append(tmp_buf, content[Len(tmp_buf) % BUFFER_COUNT])
            /\ pc' = "enqueue"
       ELSE pc' = "crashed" /\ UNCHANGED tmp_buf
    /\ UNCHANGED <<fds, fd, fd_gpio, files, before, gpioVars, queued, filled, content, frame,
                   buf, memoryVars>>

(* memcpy, to NULL if malloc() failed. *)
Copy ==
    /\ pc = "copy"
    /\ IF enough
       THEN /\ tmp_buf' = Append(tmp_buf, content[buf])
            /\ pc' = "enqueue"
       ELSE pc' = "crashed" /\ UNCHANGED tmp_buf
    /\ UNCHANGED <<fds, fd, fd_gpio, files, before, gpioVars, queued, filled, content, frame,
                   buf, memoryVars>>

Enqueue ==
    /\ pc = "enqueue"
    /\ queued' = Append(queued, buf)
    /\ pc' = IF Len(tmp_buf) = NUM THEN "save" ELSE "dequeue"
    /\ UNCHANGED <<fds, fd, fd_gpio, files, before, gpioVars, filled, content, frame, buf,
                   tmp_buf, memoryVars>>

(* The pictures are written, to a FILE that is NULL if fopen() failed. *)
SaveCrashes ==
    /\ pc = "save"
    /\ Cardinality(files) < NUM
    /\ pc' = "crashed"
    /\ UNCHANGED <<fds, fd, fd_gpio, files, before, gpioVars, deviceVars, memoryVars>>

(* At the end SEND goes down and what the photo holds is given back.       *)
(* munmap gets every address of framebuf, also one that an earlier photo   *)
(* has given back and this one did not map again: nothing may be there by  *)
(* now, or a mapping that a failed photo left behind.                      *)
GiveBack(closed) ==
    /\ WriteGPIO([line EXCEPT !["SEND"] = 0])
    /\ fds' = [n \in Descriptors |-> IF n \in closed THEN "free" ELSE fds[n]]
    /\ framebuf' = [b \in Buffers |->
                       IF framebuf[b] = "mapped" THEN "unmapped" ELSE framebuf[b]]
    /\ \E k \in 0 .. Cardinality(Stale) :
           /\ k <= mappings - Cardinality(Mapped)
           /\ mappings' = mappings - Cardinality(Mapped) - k
    /\ blocks' = blocks - NUM
    /\ files' = {}
    /\ pc' = "down"
    /\ UNCHANGED <<fd, fd_gpio, before, deviceVars, enough>>

(* Faulty variant: one of the files stays open. *)
SaveKeepsFile ==
    /\ pc = "save"
    /\ Cardinality(files) = NUM
    /\ GiveBack({fd} \cup {n \in files : \E m \in files : n < m})

Save ==
    /\ pc = "save"
    /\ Cardinality(files) = NUM
    /\ GiveBack({fd} \cup files)

(* Or there is memory in use: a picture, whose free() then fails, or what  *)
(* another thread has mapped.                                              *)
SaveUnmapsUsed ==
    /\ pc = "save"
    /\ Cardinality(files) = NUM
    /\ Stale # {}
    /\ WriteGPIO([line EXCEPT !["SEND"] = 0])
    /\ pc' = "crashed"
    /\ UNCHANGED <<fds, fd, fd_gpio, files, before, deviceVars, memoryVars>>

(* Last, MODE goes down, and the call returns. *)
ModeDown ==
    /\ pc = "down"
    /\ WriteGPIO([line EXCEPT !["MODE"] = 0])
    /\ Return
    /\ UNCHANGED <<fds, fd, fd_gpio, memoryVars>>

-----------------------------------------------------------------------------
(* The rest of the process.                                                *)

(* Another thread opens or closes something. *)
ForeignOpens ==
    /\ OpenOn("foreign") < MaxForeign
    /\ \E n \in Lowest(1) : fds' = [fds EXCEPT ![n] = "foreign"]
    /\ UNCHANGED <<fd, fd_gpio, pc, files, before, gpioVars, deviceVars, memoryVars>>

ForeignCloses ==
    /\ \E n \in Descriptors : fds[n] = "foreign" /\ fds' = [fds EXCEPT ![n] = "free"]
    /\ disturbed' = TRUE
    /\ UNCHANGED <<fd, fd_gpio, pc, files, before, line, spoiled, deviceVars, memoryVars>>

(* The process crashed, or hung and was killed, and the application is     *)
(* started again: the levels of the lines stay.                            *)
Restart ==
    /\ pc \in {"crashed", "endless"}
    /\ fds' = [n \in Descriptors |-> "free"]
    /\ fd' = 0 /\ fd_gpio' = 0 /\ spoiled' = FALSE /\ disturbed' = FALSE
    /\ Return
    /\ framebuf' = [b \in Buffers |-> "none"]
    /\ mappings' = 0 /\ blocks' = 0 /\ enough' = TRUE
    /\ UNCHANGED line

Photo ==
    \/ RequestFails \/ (\E k \in 0 .. BUFFER_COUNT : MapBuffers(k))
    \/ (\E k \in 0 .. NUM : OpenFiles(k))
    \/ StreamOn \/ Dequeue \/ Copy \/ Enqueue \/ DeviceFails
    \/ SaveCrashes \/ Save \/ SaveUnmapsUsed \/ ModeDown

Next ==
    \/ (\E caller \in {"mode", "select"} : OpenGPIO(caller))
    \/ (\E v \in {0, 1} : SetMode(v)) \/ CamSel \/ Flip \/ OpenDevice
    \/ Photo \/ Deliver
    \/ ForeignOpens \/ ForeignCloses \/ Restart

Spec == Init /\ [][Next]_vars

-----------------------------------------------------------------------------
TypeOK ==
    /\ fds \in [Descriptors -> {"free", "gpio", "camera", "file", "foreign"}]
    /\ fd \in -1 .. MaxFd /\ fd_gpio \in -1 .. MaxFd
    /\ pc \in {"idle", "mode", "select", "endless", "request", "prepared", "start", "dequeue", "copy",
               "enqueue", "save", "down", "crashed"}
    /\ files \subseteq Descriptors
    /\ framebuf \in [Buffers -> {"none", "mapped", "unmapped"}]
    /\ mappings \in Nat /\ blocks \in 0 .. MaxBlocks /\ enough \in BOOLEAN
    /\ queued \in Seq(Buffers) /\ filled \in Seq(Buffers)
    /\ content \in [Buffers -> 0 .. MaxFrames]
    /\ frame \in 0 .. MaxFrames /\ buf \in Buffers
    /\ tmp_buf \in Seq(1 .. MaxFrames)
    /\ before \in [{"cameras", "files", "mappings", "blocks"} -> Nat]
    /\ line \in [{"SEND", "MODE"} -> {0, 1}]
    /\ spoiled \in BOOLEAN /\ disturbed \in BOOLEAN

(* The descriptors that takePicture is going to save to and to close are   *)
(* those it opened, though descriptors of failed photos are left behind    *)
(* and other threads open and close theirs all the time; setMode and       *)
(* camSel write to the lines they opened and close them.  (v4l2.c: the     *)
(* globals fd, fd_gpio and fp0 to fp7.)                                    *)
ClosesItsOwn ==
    /\ pc \notin {"idle", "mode", "select", "endless", "down", "crashed"} =>
           fd \in Descriptors /\ fds[fd] = "camera"
    /\ pc \in {"mode", "select"} /\ fd_gpio # -1 => fds[fd_gpio] = "gpio"
    /\ \A n \in files : fds[n] = "file"

(* takePicture writes its commands to fd_gpio, which setMode or camSel     *)
(* closed: they never reach the lines, and the number may be anything.     *)
(* But they go into a picture file only when another thread closed a       *)
(* descriptor since the lines were opened: while none does, the number is  *)
(* the camera's, another thread's or nothing's.  (v4l2.c takePicture,      *)
(* writeGPIO.)                                                             *)
StraysOnlyByOthers ==
    /\ pc \notin {"mode", "select"} /\ fd_gpio \in Descriptors =>
           /\ fds[fd_gpio] # "gpio"
           /\ fds[fd_gpio] = "file" => disturbed
    /\ spoiled => disturbed

(* memcpy reads a buffer that is mapped, although query_map_qbuf may have  *)
(* mapped only some, and that the driver does not write meanwhile; its     *)
(* frame was not copied before, and the pictures copied so far are         *)
(* different frames, in the order in which they were taken.                *)
CopiesWhatIsThere ==
    /\ pc = "copy" =>
           /\ framebuf[buf] = "mapped"
           /\ \A i \in DOMAIN queued : queued[i] # buf
           /\ \A i \in DOMAIN tmp_buf : tmp_buf[i] < content[buf]
    /\ \A i, j \in DOMAIN tmp_buf : i < j => tmp_buf[i] < tmp_buf[j]

(* A photo that ends well leaves the process holding no more than it held  *)
(* before, whatever failed photos left behind and it found.                *)
(* (v4l2.c takePicture: "Release the resource".)                           *)
GoodPhotoKeepsNothing ==
    [][pc = "save" /\ pc' = "down" =>
           \A r \in DOMAIN before : Held'[r] <= before[r]]_vars

(* A photo works on what it opened itself: what it saves to and closes are *)
(* the camera and the files it opened, the pictures it keeps are of        *)
(* buffers that are its to read, and they are in the order in which they   *)
(* were taken.  Its commands for the GPIO lines are the exception, as      *)
(* StraysOnlyByOthers says.  (v4l2.c takePicture and prepareBuffer.)       *)
WorksOnItsOwn == ClosesItsOwn /\ StraysOnlyByOthers /\ CopiesWhatIsThere
=============================================================================
