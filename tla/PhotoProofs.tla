---------------------------- MODULE PhotoProofs ----------------------------
(***************************************************************************)
(* Theorems about Photo, for any connections, files, cameras and bounds.   *)
(*                                                                         *)
(* The camera and the files are two arguments that share no variable but   *)
(* the place of the UI thread: each has an invariant of its own.           *)
(***************************************************************************)
EXTENDS Photo, FiniteSetTheorems, TLAPS

-----------------------------------------------------------------------------
(* The camera.                                                             *)

CamInv ==
    /\ camNum \in 0 .. NumCams - 1 /\ selected \in 0 .. NumCams - 1
    /\ NumberIsSelected

(* What the camera's argument needs of a step that has nothing to do with  *)
(* it: the activity is neither closed nor created.                         *)
CamQuiet ==
    /\ UNCHANGED <<camNum, selected, sure, release>>
    /\ ui' = "closing" <=> ui = "closing"

(* Counting around the cameras: one pulse more, and as many as lead back.  *)
(* (MyCamera.changeCam and clearNum.)                                      *)
LEMMA Around ==
    ASSUME NEW n \in 0 .. NumCams - 1
    PROVE  /\ (n + 1) % NumCams = IF n < NumCams - 1 THEN n + 1 ELSE 0
           /\ (n + NumCams - n - 0) % NumCams = 0
  BY NumCamsAssumption

(* The board's camera is one of them, however many pulses it gets.         *)
LEMMA AmongTheCameras ==
    ASSUME NEW k \in Nat
    PROVE  k % NumCams \in 0 .. NumCams - 1
  BY NumCamsAssumption

(* Steps of the two servers' threads and of clients.                       *)
(* (ServerThread.run, FileServerThread.run.)                               *)
LEMMA ServersLeaveCamera ==
    ASSUME \/ Listener \/ FileSender
           \/ \E c \in Conns : Connects(c) \/ Posts(c, "pic") \/ Posts(c, "change")
    PROVE  CamQuiet
  <1>1. CASE Listener
    BY <1>1
    DEF Listener, CamQuiet, camVars, ClientLeaves, Forgotten, Accept, GetStreams, ReadBye,
        ReadFails, ListenerEnds
  <1>2. CASE FileSender
    BY <1>2 DEF FileSender, CamQuiet, camVars, uiVars, controlVars
  <1>3. CASE \E c \in Conns : Connects(c) \/ Posts(c, "pic") \/ Posts(c, "change")
    BY <1>3 DEF Connects, Posts, ClientConnects, CamQuiet, camVars, uiVars, controlVars
  <1> QED
    BY <1>1, <1>2, <1>3

(* Steps of the UI thread for a photo.  (MainActivity.takePicFun.)         *)
LEMMA PhotosLeaveCamera ==
    ASSUME \/ HandlePic \/ ClickPicture \/ PrepareFails \/ OpenFiles \/ ShootFails \/ Shoot
           \/ Reply \/ ReadLength \/ SetFile
    PROVE  CamQuiet
  <1>1. UNCHANGED <<camVars, controlVars>>
    BY DEF HandlePic, ClickPicture, PrepareFails, OpenFiles, ShootFails, Shoot, Reply,
           ReadLength, SetFile
  <1>2. ui # "closing" /\ ui' # "closing"
    BY DEF HandlePic, ClickPicture, PrepareFails, OpenFiles, ShootFails, Shoot, Reply,
           ReadLength, SetFile
  <1> QED
    BY <1>1, <1>2 DEF CamQuiet, camVars, controlVars

(* The number and the camera move on together, or sure is given up.        *)
(* (MyCamera.changeCam.)                                                   *)
LEMMA ChangeKeeps ==
    ASSUME CamInv, Change, ui = "idle", ui' = ui, release' = release
    PROVE  CamInv'
  <1>1. /\ camNum \in 0 .. NumCams - 1 /\ selected \in 0 .. NumCams - 1
        /\ camNum' = IF camNum < NumCams - 1 THEN camNum + 1 ELSE 0
    BY DEF CamInv, Change
  <1>2. camNum' \in 0 .. NumCams - 1
    BY <1>1, NumCamsAssumption
  <1>3. CASE selected' = (selected + 1) % NumCams /\ sure' = (sure /\ release = "no")
    <2>1. selected' \in 0 .. NumCams - 1
      <3>1. selected + 1 \in Nat
        BY <1>1, NumCamsAssumption
      <3> QED
        BY <1>3, <3>1, AmongTheCameras
    <2>2. ASSUME sure' PROVE ui' # "closing" /\ release' = "no" /\ camNum' = selected'
      <3>1. sure /\ release = "no"
        BY <1>3, <2>2
      <3>2. camNum = selected
        BY <3>1 DEF CamInv, NumberIsSelected
      <3> QED
        BY <1>1, <1>3, <3>1, <3>2, Around
    <2> QED
      BY <1>2, <2>1, <2>2 DEF CamInv, NumberIsSelected
  <1>4. CASE selected' = selected /\ sure' = FALSE
    BY <1>1, <1>2, <1>4 DEF CamInv, NumberIsSelected
  <1> QED
    BY <1>3, <1>4 DEF Change

LEMMA CamNext == CamInv /\ [Next]_vars => CamInv'
  <1> SUFFICES ASSUME CamInv, [Next]_vars PROVE CamInv'
    OBVIOUS
  <1>1. CASE CamQuiet
    BY <1>1 DEF CamQuiet, CamInv, NumberIsSelected
  <1>2. CASE \/ Listener \/ FileSender
             \/ \E c \in Conns : Connects(c) \/ Posts(c, "pic") \/ Posts(c, "change")
    BY <1>1, <1>2, ServersLeaveCamera
  <1>3. CASE HandleChange \/ ClickChange
    <2>1. Change /\ ui = "idle" /\ ui' = ui /\ release' = release
      BY <1>3 DEF HandleChange, ClickChange, uiVars, controlVars
    <2> QED
      BY <2>1, ChangeKeeps
  <1>4. CASE \/ HandlePic \/ ClickPicture \/ PrepareFails \/ OpenFiles \/ ShootFails \/ Shoot
             \/ Reply \/ ReadLength \/ SetFile
    BY <1>1, <1>4, PhotosLeaveCamera
  <1>5. CASE ClearNum
    <2>1. PICK lost \in 0 .. NumCams - camNum :
              /\ selected' = (selected + NumCams - camNum - lost) % NumCams
              /\ sure' = (sure /\ lost = 0)
      BY <1>5 DEF ClearNum
    <2>2. camNum' = camNum /\ ui' = "closing" /\ ui = "idle" /\ release = "no"
      BY <1>5 DEF ClearNum
    <2>3. camNum \in 0 .. NumCams - 1 /\ selected \in 0 .. NumCams - 1
      BY DEF CamInv
    <2>4. selected + NumCams - camNum - lost \in Nat
      BY <2>3, NumCamsAssumption
    <2>5. selected' \in 0 .. NumCams - 1
      BY <2>1, <2>4, AmongTheCameras
    <2>6. ASSUME sure' PROVE selected' = 0
      <3>1. sure /\ lost = 0
        BY <2>1, <2>6
      <3>2. selected = camNum
        BY <2>2, <3>1 DEF CamInv, NumberIsSelected
      <3> QED
        BY <2>1, <2>3, <3>1, <3>2, Around
    <2> QED
      BY <2>2, <2>3, <2>5, <2>6 DEF CamInv, NumberIsSelected
  <1>6. CASE Release
    <2>1. UNCHANGED <<camNum, selected, sure>> /\ ui = "closing"
      BY <1>6 DEF Release, camVars
    <2>2. release' # "no"
      BY <1>6 DEF Release, CloseServer, CloseClient, SetStop
    <2> QED
      BY <2>1, <2>2 DEF CamInv, NumberIsSelected
  <1>7. CASE Create
    <2>1. /\ release = "stopped" /\ ui' = "idle" /\ release' = "no"
          /\ camNum' = 0 /\ UNCHANGED <<selected, sure>>
      BY <1>7 DEF Create
    <2> QED
      BY <2>1, NumCamsAssumption DEF CamInv, NumberIsSelected
  <1>8. CASE Restart
    <2>1. /\ ui' = "idle" /\ release' = "no" /\ camNum' = 0
          /\ selected' = selected /\ sure' = (sure /\ selected = 0)
      BY <1>8 DEF Restart
    <2>2. camNum' \in 0 .. NumCams - 1 /\ selected' \in 0 .. NumCams - 1
      BY <2>1, NumCamsAssumption DEF CamInv
    <2>3. ASSUME sure' PROVE ui' # "closing" /\ release' = "no" /\ camNum' = selected'
      <3>1. sure /\ selected = 0
        BY <2>1, <2>3
      <3> QED
        BY <2>1, <3>1
    <2> QED
      BY <2>2, <2>3 DEF CamInv, NumberIsSelected
  <1>9. CASE UNCHANGED vars
    BY <1>1, <1>9 DEF vars, uiVars, camVars, controlVars, CamQuiet
  <1> QED
    BY <1>2, <1>3, <1>4, <1>5, <1>6, <1>7, <1>8, <1>9 DEF Next, UI

(* The camera counted is the one selected, for any number of cameras,      *)
(* through any clicks, commands, activities and crashes, with the          *)
(* exceptions the property names.  (MyCamera.java.)                        *)
THEOREM NumberIsRight == Spec => []NumberIsSelected
  <1>1. Init => CamInv
    BY NumCamsAssumption DEF Init, ControlInit, CamInv, NumberIsSelected
  <1>2. CamInv => NumberIsSelected
    BY DEF CamInv
  <1> QED
    BY <1>1, <1>2, CamNext, PTL DEF Spec
-----------------------------------------------------------------------------
(* The files.  While a photo is on its way to the lengths nothing of it is *)
(* known; what is done is in all files; and the entries set so far are the *)
(* photo's, unless this activity has no file server.                       *)

FilesOK ==
    /\ photo \in Nat /\ index \in Files /\ fileNo \in Files
    /\ fileData \in [Files -> Nat] /\ fileLength \in [Files -> Nat]

PhotoOnItsWay ==
    /\ ui \in {"shoot", "done", "lengths", "set"} => photo # 0 /\ ~known
    /\ ui \in {"done", "lengths", "set"} => \A i \in Files : fileData[i] = photo

LengthsSoFar ==
    /\ ui # "lengths" => index = 0
    /\ ~CutOff /\ ui = "lengths" => \A i \in Files : i < index => fileLength[i] = photo
    /\ ~CutOff /\ ui = "set" => \A i \in Files : fileLength[i] = photo

SenderKnows ==
    /\ setFileDone => \A i \in Files : fileLength[i] # 0
    /\ sender \in {"announce", "content", "answer"} => setFileDone
    /\ NeverHalf

FilesInv == FilesOK /\ PhotoOnItsWay /\ LengthsSoFar /\ SenderKnows /\ LengthsOfThePhoto

(* Steps with nothing to do with a photo.  (MyCamera.changeCam,            *)
(* ServerThread.run.)                                                      *)
LEMMA OthersLeaveFiles ==
    ASSUME \/ HandleChange \/ ClickChange \/ Listener \/ UNCHANGED vars
           \/ \E c \in Conns : Connects(c) \/ Posts(c, "pic") \/ Posts(c, "change")
    PROVE  UNCHANGED <<ui, photo, index, created, known, fileVars>>
  BY DEF HandleChange, ClickChange, Listener, Connects, Posts, vars, uiVars

(* Steps that begin or give up a photo, and those of onDestroy and         *)
(* onCreate, leave the files and the array as they are.                    *)
(* (MainActivity.takePicFun, onDestroy.)                                   *)
LEMMA RestKeeps ==
    ASSUME FilesInv,
           \/ HandlePic \/ ClickPicture \/ PrepareFails \/ ShootFails
           \/ ClearNum \/ Release \/ Create
    PROVE  FilesInv'
  <1>1. UNCHANGED <<photo, index, known, fileVars>>
    BY DEF HandlePic, ClickPicture, PrepareFails, ShootFails, ClearNum, Release, Create
  <1>2. ui # "lengths" /\ ui' \notin {"shoot", "done", "lengths", "set"}
    BY DEF HandlePic, ClickPicture, PrepareFails, ShootFails, ClearNum, Release, Create
  <1> QED
    BY <1>1, <1>2
    DEF FilesInv, FilesOK, PhotoOnItsWay, LengthsSoFar, SenderKnows, LengthsOfThePhoto,
        NeverHalf, fileVars

(* The thread of the file server changes nothing but its own place, and    *)
(* is told no length of 0 once it has begun.  (FileServerThread.run.)      *)
LEMMA SenderKeeps ==
    ASSUME FilesInv, FileSender
    PROVE  FilesInv'
  <1>1. /\ UNCHANGED <<ui, photo, index, created, known>>
        /\ UNCHANGED <<fileData, fileLength, setFileDone>>
    BY DEF FileSender, uiVars, Sender, AcceptFileClient, Begins, Announces, SendsContent,
           IsAnswered, SendFails
  <1>2. Sender
    BY DEF FileSender
  <1>3. PhotoOnItsWay' /\ LengthsSoFar' /\ LengthsOfThePhoto'
    BY <1>1 DEF FilesInv, PhotoOnItsWay, LengthsSoFar, LengthsOfThePhoto, CutOff
  <1>4. fileNo' \in Files
    BY <1>2, NumFilesAssumption
    DEF FilesInv, FilesOK, Files, Sender, AcceptFileClient, Begins, Announces, SendsContent,
        IsAnswered, SendFails
  <1>5. SenderKnows'
    BY <1>1, <1>2
    DEF FilesInv, FilesOK, SenderKnows, NeverHalf, Sender, AcceptFileClient, Begins, Announces,
        SendsContent, IsAnswered, SendFails
  <1> QED
    BY <1>1, <1>3, <1>4, <1>5 DEF FilesInv, FilesOK

(* A photo is taken: files are emptied, then filled.                       *)
(* (MyCamera.takePicture.)                                                 *)
LEMMA PhotoKeeps ==
    ASSUME FilesInv, OpenFiles \/ Shoot \/ Reply
    PROVE  FilesInv'
  <1>1. CASE OpenFiles
    <2>1. UNCHANGED <<index, created, fileLength, setFileDone, sender, fileNo, announced>>
      BY <1>1 DEF OpenFiles, senderVars
    <2>2. /\ ui = "prepare" /\ ui' = "shoot" /\ photo' = photo + 1 /\ known' = FALSE
          /\ fileData' = [i \in Files |-> 0]
      BY <1>1 DEF OpenFiles
    <2> QED
      BY <2>1, <2>2
      DEF FilesInv, FilesOK, PhotoOnItsWay, LengthsSoFar, SenderKnows, LengthsOfThePhoto,
          NeverHalf
  <1>2. CASE Shoot
    <2>1. UNCHANGED <<photo, known, index, created, fileLength, setFileDone,
                      sender, fileNo, announced>>
      BY <1>2 DEF Shoot, senderVars
    <2>2. ui = "shoot" /\ ui' = "done" /\ fileData' = [i \in Files |-> photo]
      BY <1>2 DEF Shoot
    <2> QED
      BY <2>1, <2>2
      DEF FilesInv, FilesOK, PhotoOnItsWay, LengthsSoFar, SenderKnows, LengthsOfThePhoto,
          NeverHalf
  <1>3. CASE Reply
    <2>1. UNCHANGED <<photo, known, index, created, fileVars>>
      BY <1>3 DEF Reply
    <2>2. /\ ui \in {"done", "failed"}
          /\ (ui' = "idle" \/ (ui = "done" /\ ui' = "lengths"))
      BY <1>3 DEF Reply
    <2>3. \A i \in Files : ~(i < 0)
      BY NumFilesAssumption DEF Files
    <2> QED
      BY <2>1, <2>2, <2>3
      DEF FilesInv, FilesOK, PhotoOnItsWay, LengthsSoFar, SenderKnows, LengthsOfThePhoto,
          NeverHalf, fileVars
  <1> QED
    BY <1>1, <1>2, <1>3

(* The lengths are taken, one by one, while they may be read.              *)
(* (MainActivity.handleMessage.)                                           *)
LEMMA LengthsKeep ==
    ASSUME FilesInv, ReadLength \/ SetFile
    PROVE  FilesInv'
  <1>1. CASE ReadLength
    <2>1. /\ ui = "lengths"
          /\ UNCHANGED <<photo, known, created, fileData, setFileDone, sender, fileNo, announced>>
      BY <1>1 DEF ReadLength, senderVars
    <2>2. fileLength' = IF CutOff THEN fileLength ELSE [fileLength EXCEPT ![index] = photo]
      BY <1>1, <2>1 DEF ReadLength, FilesInv, FilesOK, PhotoOnItsWay
    <2>3. \/ /\ index + 1 < NumFiles /\ index' = index + 1 /\ ui' = "lengths"
          \/ /\ ~(index + 1 < NumFiles) /\ index' = 0 /\ ui' = "set"
      BY <1>1, <2>1 DEF ReadLength
    <2>4. FilesOK' /\ PhotoOnItsWay'
      BY <2>1, <2>2, <2>3, NumFilesAssumption DEF FilesInv, FilesOK, PhotoOnItsWay, Files
    <2>5. LengthsSoFar'
      BY <2>1, <2>2, <2>3, NumFilesAssumption
      DEF FilesInv, FilesOK, LengthsSoFar, Files, CutOff
    <2>6. \A i \in Files : fileLength'[i] = fileLength[i] \/ fileLength'[i] = photo
      BY <2>2 DEF FilesInv, FilesOK
    <2>7. photo # 0 /\ ~known
      BY <2>1 DEF FilesInv, PhotoOnItsWay
    <2> QED
      BY <2>1, <2>4, <2>5, <2>6, <2>7 DEF FilesInv, SenderKnows, NeverHalf, LengthsOfThePhoto
  <1>2. CASE SetFile
    <2>1. /\ ui = "set" /\ ui' = "idle"
          /\ UNCHANGED <<photo, index, created, fileData, fileLength, sender, fileNo, announced>>
          /\ setFileDone' = (setFileDone \/ ~CutOff) /\ known' = ~CutOff
      BY <1>2 DEF SetFile, senderVars
    <2>2. photo # 0 /\ \A i \in Files : fileData[i] = photo
      BY <2>1 DEF FilesInv, PhotoOnItsWay
    <2>3. ~CutOff => \A i \in Files : fileLength[i] = photo
      BY <2>1 DEF FilesInv, LengthsSoFar
    <2>4. FilesOK' /\ PhotoOnItsWay' /\ LengthsSoFar'
      BY <2>1 DEF FilesInv, FilesOK, PhotoOnItsWay, LengthsSoFar
    <2>5. SenderKnows' /\ LengthsOfThePhoto'
      BY <2>1, <2>2, <2>3 DEF FilesInv, SenderKnows, NeverHalf, LengthsOfThePhoto
    <2> QED
      BY <2>4, <2>5 DEF FilesInv
  <1> QED
    BY <1>1, <1>2

LEMMA FilesNext == FilesInv /\ [Next]_vars => FilesInv'
  <1> SUFFICES ASSUME FilesInv, [Next]_vars PROVE FilesInv'
    OBVIOUS
  <1>1. CASE \/ HandleChange \/ ClickChange \/ Listener \/ UNCHANGED vars
             \/ \E c \in Conns : Connects(c) \/ Posts(c, "pic") \/ Posts(c, "change")
    BY <1>1, OthersLeaveFiles
    DEF FilesInv, FilesOK, PhotoOnItsWay, LengthsSoFar, SenderKnows, LengthsOfThePhoto,
        NeverHalf, CutOff, fileVars
  <1>2. CASE \/ HandlePic \/ ClickPicture \/ PrepareFails \/ ShootFails
             \/ ClearNum \/ Release \/ Create
    BY <1>2, RestKeeps
  <1>3. CASE FileSender
    BY <1>3, SenderKeeps
  <1>4. CASE OpenFiles \/ Shoot \/ Reply
    BY <1>4, PhotoKeeps
  <1>5. CASE ReadLength \/ SetFile
    BY <1>5, LengthsKeep
  <1>6. CASE Restart
    <2>1. /\ fileLength' = [i \in Files |-> 0] /\ setFileDone' = FALSE
          /\ sender' = "accept" /\ fileNo' = 0 /\ index' = 0 /\ ui' = "idle"
          /\ known' = FALSE /\ UNCHANGED <<photo, fileData>>
      BY <1>6 DEF Restart
    <2>2. 0 \in Files
      BY NumFilesAssumption DEF Files
    <2> QED
      BY <2>1, <2>2
      DEF FilesInv, FilesOK, PhotoOnItsWay, LengthsSoFar, SenderKnows, LengthsOfThePhoto,
          NeverHalf
  <1> QED
    BY <1>1, <1>2, <1>3, <1>4, <1>5, <1>6 DEF Next, UI

LEMMA FilesStart == Init => FilesInv
  <1>1. 0 \in Files
    BY NumFilesAssumption DEF Files
  <1> QED
    BY <1>1
    DEF Init, FilesInit, FilesInv, FilesOK, PhotoOnItsWay, LengthsSoFar, SenderKnows,
        LengthsOfThePhoto, NeverHalf

(* Every length told from setFile to the next photo is that of the picture *)
(* it goes with, for any number of files, clients and photos.              *)
(* (MainActivity.handleMessage, FileServerThread.run.)                     *)
THEOREM LengthsAreRight == Spec => []LengthsOfThePhoto
  <1>1. FilesInv => LengthsOfThePhoto
    BY DEF FilesInv
  <1> QED
    BY <1>1, FilesStart, FilesNext, PTL DEF Spec

(* No length of a file that is empty or being written is ever told, though *)
(* the array is changed under the thread that reads it.                    *)
(* (FileServerThread.run.)                                                 *)
THEOREM NothingHalfIsTold == Spec => []NeverHalf
  <1>1. FilesInv => NeverHalf
    BY DEF FilesInv, SenderKnows
  <1> QED
    BY <1>1, FilesStart, FilesNext, PTL DEF Spec

(* Both: every length told is of a whole file, and after setFile of the    *)
(* picture it goes with, for any number of files, clients and photos.      *)
(* (FileServerThread, MainActivity.handleMessage.)                         *)
THEOREM LengthsStaySafe == Spec => []LengthsAreSafe
  <1>1. NeverHalf /\ LengthsOfThePhoto => LengthsAreSafe
    BY DEF LengthsAreSafe
  <1> QED
    BY <1>1, NothingHalfIsTold, LengthsAreRight, PTL

-----------------------------------------------------------------------------
(* The requests.  What is owed on an open connection is what waits in the  *)
(* queue and what the UI thread has in hand.                               *)

Pic(c) == [cmd |-> "pic", from |-> c]
Messages == [cmd : {"pic", "change"}, from : Conns]
Places(q, m) == {i \in DOMAIN q : q[i] = m}
InHand(c) == asker = c /\ ui \in {"prepare", "shoot", "done", "failed"}

LEMMA PendingIs ==
    ASSUME NEW c
    PROVE  Pending(c) = Cardinality(Places(queue, Pic(c))) + (IF InHand(c) THEN 1 ELSE 0)
  BY DEF Pending, Places, Pic, InHand

LEMMA PlacesCount ==
    ASSUME NEW q \in Seq(Messages), NEW m
    PROVE  IsFiniteSet(Places(q, m)) /\ Cardinality(Places(q, m)) \in Nat
  <1>1. Places(q, m) \in SUBSET (1 .. Len(q)) /\ Len(q) \in Nat
    BY DEF Places
  <1>2. IsFiniteSet(1 .. Len(q))
    BY <1>1, FS_Interval
  <1> QED
    BY <1>1, <1>2, FS_Subset, FS_CardinalityType

(* Handler.sendMessage: at the end of the queue.                           *)
LEMMA AppendCounts ==
    ASSUME NEW q \in Seq(Messages), NEW e \in Messages, NEW m
    PROVE  Cardinality(Places(Append(q, e), m)) =
               Cardinality(Places(q, m)) + (IF e = m THEN 1 ELSE 0)
  <1>1. /\ Len(q) \in Nat /\ DOMAIN q = 1 .. Len(q) /\ DOMAIN Append(q, e) = 1 .. Len(q) + 1
        /\ \A i \in 1 .. Len(q) : Append(q, e)[i] = q[i]
        /\ Append(q, e)[Len(q) + 1] = e
    OBVIOUS
  <1>2. CASE e = m
    <2>1. Places(Append(q, e), m) = Places(q, m) \cup {Len(q) + 1}
      BY <1>1, <1>2 DEF Places
    <2>2. Len(q) + 1 \notin Places(q, m)
      BY <1>1 DEF Places
    <2> QED
      BY <1>2, <2>1, <2>2, PlacesCount, FS_AddElement
  <1>3. CASE e # m
    <2>1. Places(Append(q, e), m) = Places(q, m)
      BY <1>1, <1>3 DEF Places
    <2> QED
      BY <1>3, <2>1, PlacesCount
  <1> QED
    BY <1>2, <1>3

(* handleMessage: from the front of the queue; the others move up.         *)
LEMMA TailCounts ==
    ASSUME NEW q \in Seq(Messages), q # <<>>, NEW m
    PROVE  Cardinality(Places(q, m)) =
               Cardinality(Places(Tail(q), m)) + (IF Head(q) = m THEN 1 ELSE 0)
  <1>1. /\ Len(q) \in Nat \ {0} /\ DOMAIN q = 1 .. Len(q) /\ DOMAIN Tail(q) = 1 .. Len(q) - 1
        /\ \A i \in 1 .. Len(q) - 1 : Tail(q)[i] = q[i + 1]
        /\ Head(q) = q[1] /\ Tail(q) \in Seq(Messages)
    OBVIOUS
  <1> DEFINE A == Places(Tail(q), m)
             B == Places(q, m) \ {1}
             f == [i \in A |-> i + 1]
  <1>2. f \in Bijection(A, B)
    <2>1. \A i \in A : i \in Nat /\ f[i] = i + 1 /\ f[i] \in B
      BY <1>1 DEF Places
    <2>2. \A j \in B : j - 1 \in A /\ f[j - 1] = j
      BY <1>1 DEF Places
    <2>3. f \in [A -> B]
      BY <2>1
    <2>4. \A i, j \in A : f[i] = f[j] => i = j
      BY <2>1
    <2> HIDE DEF A, B, f
    <2> QED
      BY <2>2, <2>3, <2>4 DEF Bijection, Injection, Surjection, IsInjective
  <1>3. IsFiniteSet(A) /\ Cardinality(A) \in Nat
    BY <1>1, PlacesCount
  <1>4. Cardinality(B) = Cardinality(A)
    BY <1>2, <1>3, FS_Bijection DEF ExistsBijection
  <1>5. IsFiniteSet(Places(q, m)) /\ Cardinality(Places(q, m)) \in Nat
    BY PlacesCount
  <1>7. 1 \in Places(q, m) <=> Head(q) = m
    BY <1>1 DEF Places
  <1>6. Cardinality(B) = IF 1 \in Places(q, m) THEN Cardinality(Places(q, m)) - 1
                         ELSE Cardinality(Places(q, m))
    BY <1>5, FS_RemoveElement
  <1> HIDE DEF A, B, f
  <1> QED
    BY <1>3, <1>4, <1>5, <1>6, <1>7 DEF A

(* Who has an open connection: the client whose lines are read, or who was *)
(* just accepted and has asked for nothing.                                *)
Connections ==
    /\ \A c \in Conns : conn[c] = "open" =>
           client = c /\ listener \in {"streams", "read"} /\ release \in {"no", "closed"}
    /\ listener = "read" /\ client # NoConn => out = client
    /\ release # "no" => \A c \in Conns : conn[c] # "waiting"

New(c) == conn[c] = "waiting" \/ (conn[c] = "open" /\ listener = "streams")

Requests ==
    \A c \in Conns :
        /\ conn[c] = "open" => owed[c] = Pending(c)
        /\ conn[c] # "open" => owed[c] = 0
        /\ New(c) => owed[c] = 0 /\ Pending(c) = 0

RequestTypes ==
    /\ ControlTypeOK
    /\ queue \in Seq(Messages) /\ Len(queue) <= MaxQueue
    /\ ui \in {"idle", "prepare", "shoot", "done", "failed", "lengths", "set", "closing"}
    /\ asker \in Conns \cup {"button"}
    /\ owed \in [Conns -> Nat]

RequestInv == RequestTypes /\ Connections /\ Requests

(* The control server's thread.  (ServerThread.run.)                       *)
LEMMA ListenerKeepsConnections ==
    ASSUME RequestTypes, Connections, Listener
    PROVE  ControlTypeOK' /\ Connections'
  <1> USE NoConnAssumption DEF RequestTypes, ControlTypeOK, Connections
  <1>1. ASSUME NEW c \in Conns, ClientLeaves(c) \/ Forgotten(c)
        PROVE  ControlTypeOK' /\ Connections'
    BY <1>1 DEF ClientLeaves, Forgotten
  <1>2. ASSUME NEW c \in Conns, Accept(c)
        PROVE  ControlTypeOK' /\ Connections'
    BY <1>2 DEF Accept
  <1>3. CASE GetStreams
    BY <1>3 DEF GetStreams
  <1>4. CASE ReadBye
    BY <1>4 DEF ReadBye
  <1>5. CASE ReadFails
    BY <1>5 DEF ReadFails
  <1>6. CASE ListenerEnds
    BY <1>6 DEF ListenerEnds
  <1> QED
    BY <1>1, <1>2, <1>3, <1>4, <1>5, <1>6 DEF Listener

(* onDestroy, onCreate and crashes.  (ServerThread.release.)               *)
LEMMA RestKeepsConnections ==
    ASSUME RequestTypes, Connections, Release \/ Create \/ Restart
    PROVE  ControlTypeOK' /\ Connections'
  <1> USE NoConnAssumption DEF RequestTypes, ControlTypeOK, Connections
  <1>1. CASE Release
    BY <1>1 DEF Release, CloseServer, CloseClient, SetStop
  <1>2. CASE Create
    BY <1>2 DEF Create
  <1>3. CASE Restart
    BY <1>3 DEF Restart
  <1> QED
    BY <1>1, <1>2, <1>3

LEMMA PendingSame ==
    ASSUME UNCHANGED queue, \A c \in Conns : InHand(c)' <=> InHand(c), NEW c \in Conns
    PROVE  Pending(c)' = Pending(c)
  BY DEF Pending, InHand

(* Steps after which an open connection was open or waited before, and     *)
(* which neither take a message nor answer one.                            *)
LEMMA ConnectionsMove ==
    ASSUME Requests, UNCHANGED queue, \A c \in Conns : InHand(c)' <=> InHand(c),
           \A c \in Conns :
               /\ owed'[c] = IF conn'[c] = "open" THEN owed[c] ELSE 0
               /\ conn'[c] = "open" => conn[c] = "open" \/ New(c)
               /\ New(c)' => New(c)
    PROVE  Requests'
  BY PendingSame DEF Requests

(* (ServerThread.run and release.)                                         *)
LEMMA ListenerKeepsRequests ==
    ASSUME RequestInv, Listener
    PROVE  Requests'
  <1>1. /\ UNCHANGED <<queue, ui, asker>> /\ owed' = OwedOnOpen
    BY DEF Listener
  <1> DEFINE Moves == \A c \in Conns : /\ conn'[c] = "open" => conn[c] = "open" \/ New(c)
                                       /\ New(c)' => New(c)
  <1>2. Moves
    <2> USE NoConnAssumption DEF RequestInv, RequestTypes, ControlTypeOK, Connections, New
    <2>1. ASSUME NEW c \in Conns, ClientLeaves(c) \/ Forgotten(c) PROVE Moves
      BY <2>1 DEF ClientLeaves, Forgotten
    <2>2. ASSUME NEW c \in Conns, Accept(c) PROVE Moves
      BY <2>2 DEF Accept
    <2>3. CASE GetStreams \/ ReadBye
      BY <2>3 DEF GetStreams, ReadBye
    <2>4. CASE ReadFails \/ ListenerEnds
      BY <2>4 DEF ReadFails, ListenerEnds
    <2> QED
      BY <2>1, <2>2, <2>3, <2>4 DEF Listener
  <1> QED
    BY <1>1, <1>2, ConnectionsMove DEF RequestInv, OwedOnOpen, InHand

(* onDestroy and onCreate; a crash forgets everything.                     *)
LEMMA RestKeepsRequests ==
    ASSUME RequestInv, Release \/ Create \/ Restart
    PROVE  Requests'
  <1> USE DEF RequestInv, RequestTypes, ControlTypeOK
  <1>1. CASE Release
    <2>1. /\ UNCHANGED <<queue, asker>> /\ owed' = OwedOnOpen
          /\ ui = "closing" /\ ui' \in {"idle", "closing"}
      BY <1>1 DEF Release
    <2>2. \A c \in Conns : /\ conn'[c] = "open" => conn[c] = "open" \/ New(c)
                           /\ New(c)' => New(c)
      BY <1>1 DEF Release, CloseServer, CloseClient, SetStop, New
    <2> QED
      BY <2>1, <2>2, ConnectionsMove DEF OwedOnOpen, InHand
  <1>2. CASE Create
    <2>1. UNCHANGED <<queue, ui, asker, owed, conn>> /\ release = "stopped"
      BY <1>2 DEF Create
    <2>2. \A c \in Conns : conn[c] # "open" /\ conn[c] # "waiting"
      BY <2>1 DEF Connections
    <2>3. \A c \in Conns : owed[c] = 0
      BY <2>2 DEF Requests
    <2> QED
      BY <2>1, <2>2, <2>3 DEF Requests, New
  <1>3. CASE Restart
    <2>1. /\ \A c \in Conns : conn'[c] = "none" /\ owed'[c] = 0
      BY <1>3 DEF Restart
    <2> QED
      BY <2>1 DEF Requests, New
  <1> QED
    BY <1>1, <1>2, <1>3

(* A client connects whose earlier requests, if any, were done with; one   *)
(* that asks is owed an answer.  (External, ServerThread.run.)             *)
LEMMA ClientsKeepRequests ==
    ASSUME RequestInv, NEW c \in Conns, NEW cmd \in {"pic", "change"},
           Connects(c) \/ Posts(c, cmd)
    PROVE  RequestInv'
  <1> USE DEF RequestInv
  <1>1. CASE Connects(c)
    <2>1. /\ UNCHANGED <<queue, ui, asker, owed, client, out, listener, release>>
          /\ conn[c] = "none" /\ conn' = [conn EXCEPT ![c] = "waiting"]
          /\ release = "no" /\ asker # c /\ \A i \in DOMAIN queue : queue[i].from # c
      BY <1>1 DEF Connects, ClientConnects, uiVars
    <2>2. Pending(c) = 0
      <3>1. Places(queue, Pic(c)) = {}
        BY <2>1 DEF Places, Pic
      <3> QED
        BY <2>1, <3>1, PendingIs, FS_EmptySet DEF InHand
    <2>3. \A d \in Conns : Pending(d)' = Pending(d)
      BY <2>1, PendingSame DEF InHand
    <2>4. \A d \in Conns : d # c => conn'[d] = conn[d]
      BY <2>1 DEF RequestTypes, ControlTypeOK
    <2>5. owed[c] = 0 /\ conn'[c] = "waiting"
      BY <2>1 DEF Requests, RequestTypes, ControlTypeOK
    <2>6. Requests'
      BY <2>1, <2>2, <2>3, <2>4, <2>5 DEF Requests, New
    <2>7. RequestTypes' /\ Connections'
      BY <2>1 DEF RequestTypes, ControlTypeOK, Connections
    <2> QED
      BY <2>6, <2>7
  <1>2. CASE Posts(c, cmd)
    <2> DEFINE e == [cmd |-> cmd, from |-> c]
    <2>1. /\ UNCHANGED <<ui, asker, conn, client, out, listener, release>>
          /\ listener = "read" /\ client = c /\ conn[c] \in {"open", "left"}
          /\ queue' = Append(queue, e) /\ Len(queue) < MaxQueue
          /\ owed' = [owed EXCEPT ![c] = IF cmd = "pic" /\ conn[c] = "open" THEN @ + 1 ELSE @]
      BY <1>2 DEF Posts, Reads, controlVars
    <2>2. e \in Messages /\ queue \in Seq(Messages)
      BY DEF Messages, RequestTypes
    <2>3. \A d \in Conns : Pending(d)' = Pending(d) + (IF d = c /\ cmd = "pic" THEN 1 ELSE 0)
      <3> SUFFICES ASSUME NEW d \in Conns
                   PROVE  Pending(d)' = Pending(d) + (IF d = c /\ cmd = "pic" THEN 1 ELSE 0)
        OBVIOUS
      <3>1. e = Pic(d) <=> d = c /\ cmd = "pic"
        BY DEF Pic
      <3>2. Cardinality(Places(queue', Pic(d))) =
                Cardinality(Places(queue, Pic(d))) + (IF e = Pic(d) THEN 1 ELSE 0)
        BY <2>1, <2>2, AppendCounts
      <3>3. InHand(d)' <=> InHand(d)
        BY <2>1 DEF InHand
      <3>4. Pending(d)' = Cardinality(Places(queue', Pic(d))) + (IF InHand(d)' THEN 1 ELSE 0)
        BY DEF Pending, Places, Pic, InHand
      <3>5. Cardinality(Places(queue, Pic(d))) \in Nat
        BY <2>2, PlacesCount
      <3> HIDE DEF e
      <3> QED
        BY <3>1, <3>2, <3>3, <3>4, <3>5, PendingIs
    <2>4. Requests'
      <3>1. \A d \in Conns : conn[d] = "open" => d = c
        BY <2>1 DEF Connections
      <3>2. \A d \in Conns : d # c => owed'[d] = owed[d]
        BY <2>1 DEF RequestTypes
      <3>3. conn[c] = "open" => owed'[c] = Pending(c)'
        BY <2>1, <2>3 DEF Requests, RequestTypes
      <3>4. conn[c] # "open" => owed'[c] = 0
        BY <2>1 DEF Requests, RequestTypes
      <3>5. ~New(c)'
        BY <2>1 DEF New
      <3> QED
        BY <2>1, <2>3, <3>1, <3>2, <3>3, <3>4, <3>5 DEF Requests, New
    <2>5. RequestTypes' /\ Connections'
      BY <2>1, <2>2, PhotoBounds DEF RequestTypes, ControlTypeOK, Connections
    <2> QED
      BY <2>4, <2>5
  <1> QED
    BY <1>1, <1>2

(* A message is taken from the queue, and in hand if it is "pic".          *)
(* (MainActivity.handleMessage.)                                           *)
LEMMA HandlerKeepsRequests ==
    ASSUME RequestInv, HandlePic \/ HandleChange
    PROVE  RequestInv'
  <1> USE DEF RequestInv
  <1>1. /\ queue # <<>> /\ queue' = Tail(queue) /\ ui = "idle"
        /\ UNCHANGED <<owed, controlVars>>
        /\ \/ /\ Head(queue).cmd = "pic" /\ asker' = Head(queue).from /\ ui' = "prepare"
           \/ Head(queue).cmd = "change" /\ UNCHANGED <<ui, asker>>
    BY DEF HandlePic, HandleChange
  <1>2. /\ queue \in Seq(Messages) /\ Head(queue) \in Messages /\ Tail(queue) \in Seq(Messages)
        /\ Len(Tail(queue)) <= MaxQueue
    BY <1>1, PhotoBounds DEF RequestTypes
  <1>3. Head(queue).from \in Conns /\ Head(queue) = [cmd |-> Head(queue).cmd, from |-> Head(queue).from]
    BY <1>2 DEF Messages
  <1>4. \A c \in Conns : Pending(c)' = Pending(c)
    <2> SUFFICES ASSUME NEW c \in Conns
                 PROVE  Pending(c)' = Pending(c)
      OBVIOUS
    <2>1. Cardinality(Places(queue, Pic(c))) =
              Cardinality(Places(queue', Pic(c))) + (IF Head(queue) = Pic(c) THEN 1 ELSE 0)
      BY <1>1, <1>2, TailCounts
    <2>2. ~InHand(c) /\ (InHand(c)' <=> Head(queue) = Pic(c))
      BY <1>1, <1>3 DEF InHand, Pic
    <2>3. Pending(c)' = Cardinality(Places(queue', Pic(c))) + (IF InHand(c)' THEN 1 ELSE 0)
      BY DEF Pending, Places, Pic, InHand
    <2>4. Cardinality(Places(queue', Pic(c))) \in Nat
      BY <1>1, <1>2, PlacesCount
    <2> QED
      BY <2>1, <2>2, <2>3, <2>4, PendingIs
  <1>5. Requests'
    BY <1>1, <1>4 DEF Requests, New, controlVars
  <1>6. RequestTypes' /\ Connections'
    BY <1>1, <1>2, <1>3 DEF RequestTypes, ControlTypeOK, Connections, controlVars
  <1> QED
    BY <1>5, <1>6

(* The answer goes to who asked, if his connection is open: then it is the *)
(* one there is a stream for.  (MainActivity.takePicFun, piture_done.)     *)
LEMMA ReplyKeepsRequests ==
    ASSUME RequestInv, Reply
    PROVE  RequestInv'
  <1> USE DEF RequestInv
  <1>1. /\ ui \in {"done", "failed"} /\ ~AnswerDies
        /\ owed' = [c \in Conns |-> IF c = asker /\ c \in Answered THEN owed[c] - 1 ELSE owed[c]]
        /\ ui' \in {"lengths", "idle"} /\ (asker' = asker \/ asker' = "button")
        /\ UNCHANGED <<queue, controlVars>>
    BY DEF Reply
  <1>2. \A c \in Conns : /\ Pending(c) = Pending(c)' + (IF c = asker THEN 1 ELSE 0)
                         /\ Pending(c)' \in Nat
    <2> SUFFICES ASSUME NEW c \in Conns
                 PROVE  /\ Pending(c) = Pending(c)' + (IF c = asker THEN 1 ELSE 0)
                        /\ Pending(c)' \in Nat
      OBVIOUS
    <2>1. ~InHand(c)' /\ (InHand(c) <=> c = asker)
      BY <1>1 DEF InHand
    <2>2. Pending(c)' = Cardinality(Places(queue, Pic(c))) + (IF InHand(c)' THEN 1 ELSE 0)
      BY <1>1 DEF Pending, Places, Pic, InHand
    <2>3. Cardinality(Places(queue, Pic(c))) \in Nat
      BY PlacesCount DEF RequestTypes
    <2> QED
      BY <2>1, <2>2, <2>3, PendingIs
  <1>3. \A c \in Conns : c = asker /\ conn[c] = "open" => c \in Answered
    <2> SUFFICES ASSUME NEW c \in Conns, c = asker, conn[c] = "open"
                 PROVE  c \in Answered
      OBVIOUS
    <2>1. client = c /\ listener \in {"streams", "read"} /\ c # NoConn
      BY NoConnAssumption DEF Connections
    <2>2. listener # "streams"
      <3>1. Pending(c) # 0
        BY <1>2
      <3> QED
        BY <3>1 DEF Requests, New
    <2>3. out = c
      BY <2>1, <2>2 DEF Connections
    <2> QED
      BY <2>1, <2>3 DEF Answered
  <1>4. \A c \in Conns : c \in Answered => conn[c] = "open"
    BY DEF Answered
  <1>5. \A c \in Conns : owed'[c] = IF c = asker /\ conn[c] = "open" THEN owed[c] - 1 ELSE owed[c]
    BY <1>1, <1>3, <1>4
  <1>6. Requests'
    <2> SUFFICES ASSUME NEW c \in Conns
                 PROVE  /\ conn[c] = "open" => owed'[c] = Pending(c)'
                        /\ conn[c] # "open" => owed'[c] = 0
                        /\ New(c) => owed'[c] = 0 /\ Pending(c)' = 0
      BY <1>1 DEF Requests, New, controlVars
    <2>1. owed[c] \in Nat
      BY DEF RequestTypes
    <2> QED
      BY <1>2, <1>5, <2>1 DEF Requests, New
  <1>7. owed' \in [Conns -> Nat]
    <2>1. \A c \in Conns : owed'[c] \in Nat
      <3> SUFFICES ASSUME NEW c \in Conns PROVE owed'[c] \in Nat
        OBVIOUS
      <3>1. owed[c] \in Nat
        BY DEF RequestTypes
      <3>2. c = asker /\ conn[c] = "open" => owed[c] = Pending(c)' + 1
        BY <1>2 DEF Requests
      <3> QED
        BY <1>2, <1>5, <3>1, <3>2
    <2> QED
      BY <1>1, <2>1
  <1>8. RequestTypes' /\ Connections'
    BY <1>1, <1>7 DEF RequestTypes, ControlTypeOK, Connections, controlVars
  <1> QED
    BY <1>6, <1>8

(* The other steps of the UI thread and those of the file server.          *)
LEMMA OthersKeepRequests ==
    ASSUME RequestInv,
           \/ ClickChange \/ ClickPicture \/ PrepareFails \/ OpenFiles \/ ShootFails \/ Shoot
           \/ ReadLength \/ SetFile \/ ClearNum \/ FileSender \/ UNCHANGED vars
    PROVE  RequestInv'
  <1> USE DEF RequestInv
  <1>1. UNCHANGED <<queue, owed, controlVars>>
    BY DEF ClickChange, ClickPicture, PrepareFails, OpenFiles, ShootFails, Shoot, ReadLength,
           SetFile, ClearNum, FileSender, vars, uiVars
  <1>2. \/ UNCHANGED <<ui, asker>>
        \/ ui = "idle" /\ asker' = "button" /\ ui' = "prepare"
        \/ /\ ui \in {"prepare", "shoot"} /\ ui' \in {"shoot", "done", "failed"}
           /\ asker' = asker
        \/ /\ ui \in {"idle", "lengths", "set"} /\ ui' \in {"idle", "lengths", "set", "closing"}
           /\ asker' \in {asker, "button"}
    BY DEF ClickChange, ClickPicture, PrepareFails, OpenFiles, ShootFails, Shoot, ReadLength,
           SetFile, ClearNum, FileSender, vars, uiVars
  <1>3. \A c \in Conns : InHand(c)' <=> InHand(c)
    BY <1>2, ButtonAssumption DEF InHand
  <1>4. \A c \in Conns : Pending(c)' = Pending(c)
    BY <1>1, <1>3, PendingSame
  <1>5. Requests'
    BY <1>1, <1>4 DEF Requests, New, controlVars
  <1>6. RequestTypes' /\ Connections'
    BY <1>1, <1>2 DEF RequestTypes, ControlTypeOK, Connections, controlVars
  <1> QED
    BY <1>5, <1>6

LEMMA RequestsNext == RequestInv /\ [Next]_vars => RequestInv'
  <1> SUFFICES ASSUME RequestInv, [Next]_vars
               PROVE  RequestInv'
    OBVIOUS
  <1>1. CASE Listener
    <2>1. UNCHANGED <<queue, ui, asker>> /\ owed' \in [Conns -> Nat]
      BY <1>1 DEF Listener, OwedOnOpen, RequestInv, RequestTypes
    <2> QED
      BY <1>1, <2>1, ListenerKeepsConnections, ListenerKeepsRequests
      DEF RequestInv, RequestTypes
  <1>2. CASE Release \/ Create \/ Restart
    <2>1. owed' \in [Conns -> Nat]
      BY <1>2 DEF Release, Create, Restart, OwedOnOpen, RequestInv, RequestTypes
    <2>2. /\ queue' \in Seq(Messages) /\ Len(queue') <= MaxQueue
          /\ ui' \in {"idle", "closing"} /\ asker' \in Conns \cup {"button"}
      <3>1. CASE Release
        BY <3>1 DEF Release, RequestInv, RequestTypes
      <3>2. CASE Create
        BY <3>2 DEF Create, RequestInv, RequestTypes
      <3>3. CASE Restart
        BY <3>3, PhotoBounds DEF Restart
      <3> QED
        BY <1>2, <3>1, <3>2, <3>3
    <2> QED
      BY <1>2, <2>1, <2>2, RestKeepsConnections, RestKeepsRequests
      DEF RequestInv, RequestTypes
  <1> QED
    BY <1>1, <1>2, ClientsKeepRequests, HandlerKeepsRequests, ReplyKeepsRequests,
       OthersKeepRequests
    DEF Next, UI

LEMMA RequestsStart == Init => RequestInv
  <1>1. \A c \in Conns : Init => ~New(c)
    BY DEF Init, ControlInit, New
  <1> QED
    BY <1>1, PhotoBounds
    DEF Init, ControlInit, RequestInv, RequestTypes, ControlTypeOK, Connections, Requests

(* A client that stays has an answer for every photo it asked for that is  *)
(* neither in the queue nor being taken, for any number of connections and *)
(* messages.  (MainActivity.takePicFun, ServerThread.piture_done.)         *)
THEOREM RequestsAreAnswered == Spec => []NoRequestLost
  <1>1. RequestInv => NoRequestLost
    BY DEF RequestInv, Requests, NoRequestLost
  <1> QED
    BY <1>1, RequestsStart, RequestsNext, PTL DEF Spec

-----------------------------------------------------------------------------
(* Types: those of the three arguments, and the ranges of the files.       *)

RangesOK ==
    /\ photo \in 0 .. MaxPhotos /\ created \in 1 .. MaxCreate \cup {1}
    /\ sure \in BOOLEAN /\ known \in BOOLEAN /\ setFileDone \in BOOLEAN
    /\ fileData \in [Files -> 0 .. photo] /\ fileLength \in [Files -> 0 .. photo]
    /\ sender \in {"accept", "wait", "announce", "content", "answer"}
    /\ announced \in 0 .. photo

LEMMA RangesNext ==
    ASSUME FilesInv, RangesOK, [Next]_vars
    PROVE  RangesOK'
  <1> USE PhotoBounds DEF RangesOK, fileVars, senderVars, camVars, uiVars
  <1>1. CASE FileSender
    <2>1. UNCHANGED <<photo, created, sure, known, setFileDone, fileData, fileLength>>
      BY <1>1
      DEF FileSender, Sender, AcceptFileClient, Begins, Announces, SendsContent, IsAnswered,
          SendFails
    <2>2. sender' \in {"accept", "wait", "announce", "content", "answer"}
      BY <1>1
      DEF FileSender, Sender, AcceptFileClient, Begins, Announces, SendsContent, IsAnswered,
          SendFails
    <2>3. announced' \in {announced, 0, fileLength[fileNo]}
      BY <1>1
      DEF FileSender, Sender, AcceptFileClient, Begins, Announces, SendsContent, IsAnswered,
          SendFails
    <2>4. fileLength[fileNo] \in 0 .. photo
      BY DEF FilesInv, FilesOK
    <2> QED
      BY <2>1, <2>2, <2>3, <2>4
  <1>2. CASE OpenFiles
    <2>1. /\ photo' = photo + 1 /\ photo < MaxPhotos /\ fileData' = [i \in Files |-> 0]
          /\ known' = FALSE
          /\ UNCHANGED <<created, sure, fileLength, setFileDone, sender, announced>>
      BY <1>2 DEF OpenFiles
    <2>2. \A i \in Files : fileLength[i] \in 0 .. photo'
      BY <2>1
    <2>3. fileLength' \in [Files -> 0 .. photo'] /\ fileData' \in [Files -> 0 .. photo']
      BY <2>1, <2>2
    <2>4. photo' \in 0 .. MaxPhotos /\ announced' \in 0 .. photo'
      BY <2>1
    <2>5. known' \in BOOLEAN
      BY <2>1
    <2> QED
      BY <2>1, <2>3, <2>4, <2>5
  <1>3. CASE Shoot
    BY <1>3 DEF Shoot
  <1>4. CASE ReadLength
    BY <1>4 DEF ReadLength, FilesInv, FilesOK
  <1>5. CASE SetFile
    BY <1>5 DEF SetFile
  <1>6. CASE Create
    BY <1>6 DEF Create
  <1>7. CASE Restart
    <2>1. sure' \in BOOLEAN
      BY <1>7 DEF Restart
    <2>2. /\ UNCHANGED <<photo, fileData>> /\ created' = 1 /\ known' = FALSE
          /\ setFileDone' = FALSE /\ sender' = "accept" /\ announced' = 0
          /\ fileLength' \in [Files -> 0 .. photo]
      BY <1>7 DEF Restart
    <2>3. known' \in BOOLEAN /\ setFileDone' \in BOOLEAN
      BY <2>2
    <2>4. announced' \in 0 .. photo'
      BY <2>2
    <2> QED
      BY <2>1, <2>2, <2>3, <2>4
  <1>8. CASE \/ HandleChange \/ ClickChange \/ ClearNum
    BY <1>8 DEF HandleChange, ClickChange, Change, ClearNum
  <1>9. CASE \/ HandlePic \/ ClickPicture \/ PrepareFails \/ ShootFails \/ Reply \/ Release
             \/ Listener \/ UNCHANGED vars
             \/ \E c \in Conns : Connects(c) \/ Posts(c, "pic") \/ Posts(c, "change")
    <2>1. UNCHANGED <<photo, created, sure, known, setFileDone, fileData, fileLength, sender,
                      announced>>
      BY <1>9
      DEF HandlePic, ClickPicture, PrepareFails, ShootFails, Reply, Release, Listener, vars,
          Connects, Posts
    <2> QED
      BY <2>1
  <1> QED
    BY <1>1, <1>2, <1>3, <1>4, <1>5, <1>6, <1>7, <1>8, <1>9 DEF Next, UI

LEMMA RangesStart == Init => RangesOK
  <1> SUFFICES ASSUME Init
               PROVE  RangesOK
    OBVIOUS
  <1> USE DEF Init, FilesInit
  <1>1. known \in BOOLEAN /\ sure \in BOOLEAN /\ setFileDone \in BOOLEAN
    OBVIOUS
  <1>2. photo \in 0 .. MaxPhotos /\ announced \in 0 .. photo /\ created = 1
    BY PhotoBounds
  <1>3. fileData \in [Files -> 0 .. photo] /\ fileLength \in [Files -> 0 .. photo]
    OBVIOUS
  <1> QED
    BY <1>1, <1>2, <1>3 DEF RangesOK

(* Types, for any connections, files, cameras and bounds: no answer is     *)
(* given that was not owed, and no number of a photo is told that was not  *)
(* taken.                                                                  *)
THEOREM TypeCorrect == Spec => []TypeOK
  <1>1. Init => CamInv
    BY NumCamsAssumption DEF Init, ControlInit, CamInv, NumberIsSelected
  <1> DEFINE Inv == CamInv /\ FilesInv /\ RequestInv /\ RangesOK
  <1>2. Init => Inv
    BY <1>1, FilesStart, RequestsStart, RangesStart
  <1>3. Inv /\ [Next]_vars => Inv'
    BY CamNext, FilesNext, RequestsNext, RangesNext
  <1>4. Inv => TypeOK
    BY DEF CamInv, FilesInv, FilesOK, RequestInv, RequestTypes, RangesOK, Messages, TypeOK
  <1> HIDE DEF Inv
  <1> QED
    BY <1>2, <1>3, <1>4, PTL DEF Spec
=============================================================================
