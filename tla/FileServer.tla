---------------------------- MODULE FileServer ----------------------------
(***************************************************************************)
(* FileServerThread.java: sends the pictures of the last photo to one      *)
(* client after the other, each with its length before it, and waits for   *)
(* an answer after each.  The lengths are in the handler's array.          *)
(*                                                                         *)
(* A picture, and its length, is told by the number of its photo; 0 is a   *)
(* file that is being written, or empty, and an array entry never set.     *)
(* A file is read in one step.                                             *)
(***************************************************************************)
EXTENDS Naturals

CONSTANT NumFiles       \* pictures of a photo (8 in the code)

ASSUME NumFilesAssumption == NumFiles \in Nat \ {0}

Files == 0 .. NumFiles - 1

VARIABLES
    fileData,       \* the photo whose picture is in each file
    fileLength,     \* the photo whose lengths are in the array
    setFileDone,    \* setFile was called
    sender,         \* where the thread is
    fileNo,         \* the file it is at
    announced       \* the length it sent last

fileVars == <<fileData, fileLength, setFileDone, sender, fileNo, announced>>
senderVars == <<sender, fileNo, announced>>

FilesInit ==
    /\ fileData = [i \in Files |-> 0]
    /\ fileLength = [i \in Files |-> 0]
    /\ setFileDone = FALSE
    /\ sender = "accept" /\ fileNo = 0 /\ announced = 0

AcceptFileClient ==
    /\ sender = "accept"
    /\ sender' = "wait"
    /\ UNCHANGED <<fileData, fileLength, setFileDone, fileNo, announced>>

(* Faulty variant: it does not wait. *)
BeginsAtOnce ==
    /\ sender = "wait"
    /\ sender' = "announce" /\ fileNo' = 0
    /\ UNCHANGED <<fileData, fileLength, setFileDone, announced>>

(* "should takePic first": it waits until setFileDone is set. *)
Begins ==
    /\ sender = "wait" /\ setFileDone
    /\ sender' = "announce" /\ fileNo' = 0
    /\ UNCHANGED <<fileData, fileLength, setFileDone, announced>>

Announces ==
    /\ sender = "announce"
    /\ announced' = fileLength[fileNo]
    /\ sender' = "content"
    /\ UNCHANGED <<fileData, fileLength, setFileDone, fileNo>>

(* The bytes the file holds now, whatever their number. *)
SendsContent ==
    /\ sender = "content"
    /\ sender' = "answer"
    /\ UNCHANGED <<fileData, fileLength, setFileDone, fileNo, announced>>

IsAnswered ==
    /\ sender = "answer"
    /\ IF fileNo + 1 < NumFiles
       THEN sender' = "announce" /\ fileNo' = fileNo + 1
       ELSE sender' = "accept" /\ fileNo' = 0
    /\ announced' = 0
    /\ UNCHANGED <<fileData, fileLength, setFileDone>>

(* Writing fails, or the file is not there: on to the next client. *)
SendFails ==
    /\ sender \in {"announce", "content"}
    /\ sender' = "accept" /\ fileNo' = 0 /\ announced' = 0
    /\ UNCHANGED <<fileData, fileLength, setFileDone>>

(* The client left instead of answering: readLine() returns null, and      *)
(* nothing catches what its use throws.                                    *)
SenderDies == sender = "answer"

Sender == AcceptFileClient \/ Begins \/ Announces \/ SendsContent \/ IsAnswered \/ SendFails
=============================================================================
