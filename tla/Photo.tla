------------------------------- MODULE Photo -------------------------------
(***************************************************************************)
(* The photo path: MainActivity.java with its handler and MyCamera.java,   *)
(* over the control server and the file server.  A client asks for a photo *)
(* on one connection, is told when it is done, and fetches the pictures on *)
(* another; the camera shown in the preview is changed on the first.       *)
(*                                                                         *)
(* The UI thread takes messages from its queue and clicks of the buttons   *)
(* one at a time, and destroys and creates the activity; the threads of    *)
(* the two servers run on meanwhile.  What a photo does in the library is  *)
(* the matter of Capture: here it fails or gives a numbered photo.         *)
(* Commands that change nothing here (mode, flip, wifi, ...) are left out. *)
(***************************************************************************)
EXTENDS ControlServer, FileServer, Sequences, FiniteSets

CONSTANTS
    NumCams,        \* cameras (8 in the code)
    MaxQueue,       \* bound: messages waiting for the handler
    MaxPhotos,      \* bound: photos begun
    MaxCreate       \* bound: activities created by one process

ASSUME NumCamsAssumption == NumCams \in Nat \ {0}
ASSUME ButtonAssumption == "button" \notin Conns
ASSUME PhotoBounds == MaxQueue \in Nat /\ MaxPhotos \in Nat /\ MaxCreate \in Nat

VARIABLES
    queue,          \* messages to mServerHandler
    ui,             \* where the UI thread is
    asker,          \* the connection whose photo it takes, "button" if none
    photo,          \* the last photo whose files were opened
    index,          \* the next file whose length is looked at
    created,        \* activities this process has created
    camNum,         \* MyCamera.camNum
    selected,       \* the camera the board has selected
    sure,           \* history: the two were not set apart, see NumberIsSelected
    owed,           \* history: photos asked for on a connection, not answered on it
    known           \* history: setFile was called since the last photo began

uiVars == <<queue, ui, asker, photo, index, created, owed, known>>
camVars == <<camNum, selected, sure>>
vars == <<uiVars, camVars, controlVars, fileVars>>

Init ==
    /\ ControlInit /\ FilesInit
    /\ queue = <<>> /\ ui = "idle" /\ asker = "button"
    /\ photo = 0 /\ index = 0 /\ created = 1
    /\ camNum = 0 /\ selected = 0 /\ sure = TRUE
    /\ owed = [c \in Conns |-> 0]
    /\ known = FALSE

(* The second activity's file server finds the port taken by the first     *)
(* one's thread, which nothing ends: lengths and setFile go to the wrong   *)
(* object from then on.                                                    *)
CutOff == created > 1

-----------------------------------------------------------------------------
(* The control server's thread and its clients.                            *)

Pending(c) ==
    Cardinality({i \in DOMAIN queue : queue[i] = [cmd |-> "pic", from |-> c]})
    + (IF asker = c /\ ui \in {"prepare", "shoot", "done", "failed"} THEN 1 ELSE 0)

OwedOnOpen == [c \in Conns |-> IF conn'[c] = "open" THEN owed[c] ELSE 0]

Connects(c) ==
    /\ \A i \in DOMAIN queue : queue[i].from # c
    /\ asker # c
    /\ ClientConnects(c)
    /\ UNCHANGED <<uiVars, camVars, fileVars>>

Posts(c, cmd) ==
    /\ Reads(c)
    /\ Len(queue) < MaxQueue
    /\ queue' = Append(queue, [cmd |-> cmd, from |-> c])
    /\ owed' = [owed EXCEPT ![c] =
           IF cmd = "pic" /\ conn[c] = "open" THEN @ + 1 ELSE @]
    /\ UNCHANGED <<ui, asker, photo, index, created, known, camVars, controlVars, fileVars>>

Listener ==
    /\ \/ \E c \in Conns : ClientLeaves(c) \/ Forgotten(c) \/ Accept(c)
       \/ GetStreams \/ ReadBye \/ ReadFails \/ ListenerEnds
    /\ owed' = OwedOnOpen
    /\ UNCHANGED <<queue, ui, asker, photo, index, created, known, camVars, fileVars>>

FileSender == Sender /\ UNCHANGED <<uiVars, camVars, controlVars>>

-----------------------------------------------------------------------------
(* changeCam: the number goes on even if the pulse does not get through.   *)

(* Faulty variant: one camera too many. *)
ChangeTooFar ==
    /\ camNum' = IF camNum < NumCams THEN camNum + 1 ELSE 0
    /\ \/ /\ selected' = (selected + 1) % NumCams
          /\ sure' = (sure /\ release = "no")
       \/ selected' = selected /\ sure' = FALSE

Change ==
    /\ camNum' = IF camNum < NumCams - 1 THEN camNum + 1 ELSE 0
    /\ \/ /\ selected' = (selected + 1) % NumCams
          /\ sure' = (sure /\ release = "no")
       \/ selected' = selected /\ sure' = FALSE

HandleChange ==
    /\ ui = "idle" /\ queue # <<>> /\ Head(queue).cmd = "change"
    /\ queue' = Tail(queue)
    /\ Change
    /\ UNCHANGED <<ui, asker, photo, index, created, owed, known, controlVars, fileVars>>

ClickChange ==
    /\ ui = "idle" /\ release = "no"
    /\ Change
    /\ UNCHANGED <<uiVars, controlVars, fileVars>>

-----------------------------------------------------------------------------
(* takePicFun, and after it, for a message, the lengths of the files.      *)

HandlePic ==
    /\ ui = "idle" /\ queue # <<>> /\ Head(queue).cmd = "pic"
    /\ asker' = Head(queue).from
    /\ queue' = Tail(queue)
    /\ ui' = "prepare"
    /\ UNCHANGED <<photo, index, created, owed, known, camVars, controlVars, fileVars>>

ClickPicture ==
    /\ ui = "idle" /\ release = "no"
    /\ asker' = "button"
    /\ ui' = "prepare"
    /\ UNCHANGED <<queue, photo, index, created, owed, known, camVars, controlVars, fileVars>>

PrepareFails ==
    /\ ui = "prepare"
    /\ ui' = "failed"
    /\ UNCHANGED <<queue, asker, photo, index, created, owed, known, camVars, controlVars, fileVars>>

(* All files are truncated. *)
OpenFiles ==
    /\ ui = "prepare" /\ photo < MaxPhotos
    /\ photo' = photo + 1
    /\ fileData' = [i \in Files |-> 0]
    /\ known' = FALSE
    /\ ui' = "shoot"
    /\ UNCHANGED <<queue, asker, index, created, owed, camVars, controlVars, fileLength,
                   setFileDone, senderVars>>

ShootFails ==
    /\ ui = "shoot"
    /\ ui' = "failed"
    /\ UNCHANGED <<queue, asker, photo, index, created, owed, known, camVars, controlVars, fileVars>>

Shoot ==
    /\ ui = "shoot"
    /\ fileData' = [i \in Files |-> photo]
    /\ ui' = "done"
    /\ UNCHANGED <<queue, asker, photo, index, created, owed, known, camVars, controlVars,
                   fileLength, setFileDone, senderVars>>

(* Faulty variant: only a good photo is answered. *)
ReplyGood ==
    /\ ui \in {"done", "failed"} /\ ~AnswerDies
    /\ owed' = [c \in Conns |->
           IF ui = "done" /\ c = asker /\ c \in Answered THEN owed[c] - 1 ELSE owed[c]]
    /\ \/ ui = "done" /\ asker # "button" /\ ui' = "lengths" /\ UNCHANGED asker
       \/ ui' = "idle" /\ asker' = "button"
    /\ UNCHANGED <<queue, photo, index, created, known, camVars, controlVars, fileVars>>

(* Faulty variant: the lengths are taken after a failed photo too. *)
ReplyAnyway ==
    /\ ui \in {"done", "failed"} /\ ~AnswerDies
    /\ owed' = [c \in Conns |-> IF c = asker /\ c \in Answered THEN owed[c] - 1 ELSE owed[c]]
    /\ \/ asker # "button" /\ ui' = "lengths" /\ UNCHANGED asker
       \/ ui' = "idle" /\ asker' = "button"
    /\ UNCHANGED <<queue, photo, index, created, known, camVars, controlVars, fileVars>>

(* "pic_done" or "pic_fail" goes to the client there is now.  The lengths  *)
(* are not looked at after a failure, a click, or if the card is gone.     *)
Reply ==
    /\ ui \in {"done", "failed"} /\ ~AnswerDies
    /\ owed' = [c \in Conns |-> IF c = asker /\ c \in Answered THEN owed[c] - 1 ELSE owed[c]]
    /\ \/ ui = "done" /\ asker # "button" /\ ui' = "lengths" /\ UNCHANGED asker
       \/ ui' = "idle" /\ asker' = "button"
    /\ UNCHANGED <<queue, photo, index, created, known, camVars, controlVars, fileVars>>

(* Faulty variant: the last file is forgotten. *)
ReadLengthButLast ==
    /\ ui = "lengths"
    /\ fileLength' = IF CutOff \/ index = NumFiles - 1 THEN fileLength
                     ELSE [fileLength EXCEPT ![index] = fileData[index]]
    /\ IF index + 1 < NumFiles
       THEN index' = index + 1 /\ UNCHANGED ui
       ELSE index' = 0 /\ ui' = "set"
    /\ UNCHANGED <<queue, asker, photo, created, owed, known, camVars, controlVars,
                   fileData, setFileDone, senderVars>>

(* One entry of the array that FileServerThread reads, from the second     *)
(* photo on, while it is being set.                                        *)
ReadLength ==
    /\ ui = "lengths"
    /\ fileLength' = IF CutOff THEN fileLength
                     ELSE [fileLength EXCEPT ![index] = fileData[index]]
    /\ IF index + 1 < NumFiles
       THEN index' = index + 1 /\ UNCHANGED ui
       ELSE index' = 0 /\ ui' = "set"
    /\ UNCHANGED <<queue, asker, photo, created, owed, known, camVars, controlVars,
                   fileData, setFileDone, senderVars>>

SetFile ==
    /\ ui = "set"
    /\ setFileDone' = (setFileDone \/ ~CutOff)
    /\ known' = ~CutOff
    /\ ui' = "idle" /\ asker' = "button"
    /\ UNCHANGED <<queue, photo, index, created, owed, camVars, controlVars,
                   fileData, fileLength, senderVars>>

-----------------------------------------------------------------------------
(* onDestroy and onCreate.                                                 *)

(* Faulty variant: as many pulses as brought it to the camera it is at. *)
ClearNumBack ==
    /\ ui = "idle" /\ release = "no"
    /\ \E lost \in 0 .. camNum :
           /\ selected' = (selected + camNum - lost) % NumCams
           /\ sure' = (sure /\ lost = 0)
    /\ ui' = "closing"
    /\ UNCHANGED <<queue, asker, photo, index, created, owed, known, camNum,
                   controlVars, fileVars>>

(* clearNum gives the pulses that lead to the first camera again.          *)
ClearNum ==
    /\ ui = "idle" /\ release = "no"
    /\ \E lost \in 0 .. NumCams - camNum :
           /\ selected' = (selected + NumCams - camNum - lost) % NumCams
           /\ sure' = (sure /\ lost = 0)
    /\ ui' = "closing"
    /\ UNCHANGED <<queue, asker, photo, index, created, owed, known, camNum,
                   controlVars, fileVars>>

Release ==
    /\ ui = "closing"
    /\ CloseServer \/ CloseClient \/ SetStop
    /\ ui' = IF release' = "stopped" THEN "idle" ELSE ui
    /\ owed' = OwedOnOpen
    /\ UNCHANGED <<queue, asker, photo, index, created, known, camVars, fileVars>>

(* onCreate again in the same process, once the old activity's messages    *)
(* are handled and its thread is gone.  The port of the control server may *)
(* not be released yet: its thread then ends at once.                      *)
Create ==
    /\ ui = "idle" /\ release = "stopped" /\ listener = "ended"
    /\ queue = <<>> /\ created < MaxCreate
    /\ created' = created + 1
    /\ camNum' = 0
    /\ client' = NoConn /\ out' = NoConn /\ release' = "no"
    /\ listener' \in {"accept", "ended"}
    /\ UNCHANGED <<queue, ui, asker, photo, index, owed, known, selected, sure, conn,
                   fileVars>>

(* What nothing catches ends the process: a thread that meets a null, a    *)
(* crash or hang in the library, release() without a client.  The files    *)
(* and the selected camera stay.                                           *)
Dies ==
    \/ ui \in {"done", "failed"} /\ AnswerDies
    \/ ui = "closing" /\ release = "closed" /\ client = NoConn
    \/ ui \in {"prepare", "shoot"}
    \/ ListenerDies
    \/ SenderDies

Restart ==
    /\ Dies
    /\ conn' = [c \in Conns |-> "none"]
    /\ client' = NoConn /\ out' = NoConn /\ listener' = "accept" /\ release' = "no"
    /\ fileLength' = [i \in Files |-> 0] /\ setFileDone' = FALSE
    /\ sender' = "accept" /\ fileNo' = 0 /\ announced' = 0
    /\ queue' = <<>> /\ ui' = "idle" /\ asker' = "button"
    /\ index' = 0 /\ created' = 1
    /\ owed' = [c \in Conns |-> 0] /\ known' = FALSE
    /\ camNum' = 0 /\ sure' = (sure /\ selected = 0)
    /\ UNCHANGED <<photo, fileData, selected>>

UI ==
    \/ HandleChange \/ ClickChange \/ HandlePic \/ ClickPicture
    \/ PrepareFails \/ OpenFiles \/ ShootFails \/ Shoot \/ Reply \/ ReadLength \/ SetFile
    \/ ClearNum \/ Release \/ Create

Next ==
    \/ UI \/ Listener \/ FileSender \/ Restart
    \/ \E c \in Conns : Connects(c) \/ Posts(c, "pic") \/ Posts(c, "change")

Spec == Init /\ [][Next]_vars

-----------------------------------------------------------------------------
TypeOK ==
    /\ ControlTypeOK
    /\ queue \in Seq([cmd : {"pic", "change"}, from : Conns]) /\ Len(queue) <= MaxQueue
    /\ ui \in {"idle", "prepare", "shoot", "done", "failed", "lengths", "set", "closing"}
    /\ asker \in Conns \cup {"button"}
    /\ photo \in 0 .. MaxPhotos /\ index \in Files
    /\ created \in 1 .. MaxCreate \cup {1}
    /\ camNum \in 0 .. NumCams - 1 /\ selected \in 0 .. NumCams - 1 /\ sure \in BOOLEAN
    /\ owed \in [Conns -> Nat] /\ known \in BOOLEAN
    /\ fileData \in [Files -> 0 .. photo] /\ fileLength \in [Files -> 0 .. photo]
    /\ setFileDone \in BOOLEAN
    /\ sender \in {"accept", "wait", "announce", "content", "answer"}
    /\ fileNo \in Files /\ announced \in 0 .. photo

(* A client of the file server is never told the length of a file that is  *)
(* being written, failed, or was never taken: whatever fails and whenever  *)
(* the array changes under the thread that reads it.                       *)
(* (FileServerThread.run: "should takePic first".)                         *)
NeverHalf == sender \in {"content", "answer"} => announced # 0

(* From setFile until the next photo begins, every length a client can be  *)
(* told is that of the picture it will get: the photo no other activity,   *)
(* button or failure came after.  (MainActivity.handleMessage.)            *)
LengthsOfThePhoto ==
    known => setFileDone /\ \A i \in Files : fileLength[i] = photo /\ fileData[i] = photo

(* The lengths a client is told are safe to act on: of a whole file at any *)
(* time, and of the very picture it gets from setFile to the next photo.   *)
(* (FileServerThread.run and setFile, MainActivity.handleMessage.)         *)
LengthsAreSafe == NeverHalf /\ LengthsOfThePhoto

(* A client that stays has an answer, on its own connection, for every     *)
(* photo it asked for that is neither in the queue nor being taken,        *)
(* whatever fails, clients come and go before it and buttons are clicked.  *)
(* (MainActivity.takePicFun, ServerThread.piture_done.)                    *)
NoRequestLost ==
    \A c \in Conns :
        listener = "read" /\ client = c /\ conn[c] = "open" => owed[c] = Pending(c)

(* The camera MyCamera counts is the one selected, through changes of      *)
(* clients and buttons, activities that come and go and crashes; unless a  *)
(* pulse was lost, a crash came while another than the first was selected, *)
(* or a client's "change" was handled after onDestroy.                     *)
(* (MyCamera.changeCam, clearNum and setNum.)                              *)
NumberIsSelected ==
    sure => IF ui = "closing" \/ release # "no" THEN selected = 0 ELSE camNum = selected
=============================================================================
