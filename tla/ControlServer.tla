--------------------------- MODULE ControlServer ---------------------------
(***************************************************************************)
(* ServerThread.java: the control server.  Its thread talks to one client  *)
(* at a time and posts the lines it reads to the activity's handler; the   *)
(* UI thread answers through piture_done and ends the thread with release. *)
(***************************************************************************)
CONSTANTS
    Conns,      \* connections
    NoConn      \* null

ASSUME NoConnAssumption == NoConn \notin Conns

VARIABLES
    conn,       \* state of each connection, as client and server ends know it
    client,     \* the field client
    out,        \* the connection whose stream is in the field out
    listener,   \* where the thread is
    release     \* how far release() has come, "no" before it is called

controlVars == <<conn, client, out, listener, release>>

ControlInit ==
    /\ conn = [c \in Conns |-> "none"]
    /\ client = NoConn /\ out = NoConn
    /\ listener = "accept"
    /\ release = "no"

ControlTypeOK ==
    /\ conn \in [Conns -> {"none", "waiting", "open", "left"}]
    /\ client \in Conns \cup {NoConn} /\ out \in Conns \cup {NoConn}
    /\ listener \in {"accept", "streams", "read", "ended"}
    /\ release \in {"no", "closed", "nulled", "stopped"}

(* A client connects; what a field still refers to is another connection. *)
ClientConnects(c) ==
    /\ conn[c] = "none" /\ c \notin {client, out}
    /\ release = "no" /\ listener # "ended"
    /\ conn' = [conn EXCEPT ![c] = "waiting"]
    /\ UNCHANGED <<client, out, listener, release>>

ClientLeaves(c) ==
    /\ conn[c] \in {"waiting", "open"}
    /\ conn' = [conn EXCEPT ![c] = "left"]
    /\ UNCHANGED <<client, out, listener, release>>

(* A connection whose client left before it was accepted, or on which an   *)
(* exception ended the reading, is not closed.                             *)
Forgotten(c) ==
    /\ conn[c] = "left" /\ c \notin {client, out}
    /\ conn' = [conn EXCEPT ![c] = "none"]
    /\ UNCHANGED <<client, out, listener, release>>

Accept(c) ==
    /\ listener = "accept" /\ release = "no"
    /\ conn[c] \in {"waiting", "left"} /\ c \notin {client, out}
    /\ conn' = [conn EXCEPT ![c] = IF @ = "waiting" THEN "open" ELSE @]
    /\ client' = c
    /\ listener' = "streams"
    /\ UNCHANGED <<out, release>>

(* getOutputStream, or an exception because release() closed the client. *)
GetStreams ==
    /\ listener = "streams"
    /\ IF release \in {"no", "closed"}
       THEN out' = client /\ listener' = "read"
       ELSE UNCHANGED out /\ listener' = "accept"
    /\ UNCHANGED <<conn, client, release>>

(* The thread reads a line, perhaps one its client sent before it left; it *)
(* is posted by the caller.                                                *)
Reads(c) ==
    /\ listener = "read" /\ release \in {"no", "closed"}
    /\ client = c /\ conn[c] \in {"open", "left"}

(* The client says "bye" or an empty line, or has left: it is closed. *)
ReadBye ==
    /\ listener = "read" /\ release \in {"no", "closed"}
    /\ conn' = [conn EXCEPT ![client] = "none"]
    /\ listener' = "accept"
    /\ UNCHANGED <<client, out, release>>

(* An exception ends the reading: the connection broke, or release() has   *)
(* closed it.                                                              *)
ReadFails ==
    /\ listener = "read"
    /\ release \in {"no", "closed"} => conn[client] = "left"
    /\ listener' = "accept"
    /\ UNCHANGED <<conn, client, out, release>>

(* The loop ends when it sees stop. *)
ListenerEnds ==
    /\ listener = "accept" /\ release = "stopped"
    /\ listener' = "ended"
    /\ UNCHANGED <<conn, client, out, release>>

(* It does not see stop yet, and server is null: nothing catches that. *)
ListenerDies == listener = "accept" /\ release = "nulled"

-----------------------------------------------------------------------------
(* release(), in the steps the thread can see.                             *)

CloseServer ==
    /\ release = "no"
    /\ release' = "closed"
    /\ conn' = [c \in Conns |-> IF conn[c] = "waiting" THEN "none" ELSE conn[c]]
    /\ UNCHANGED <<client, out, listener>>

(* client.close() fails if there never was a client. *)
CloseClient ==
    /\ release = "closed" /\ client # NoConn
    /\ conn' = [conn EXCEPT ![client] = "none"]
    /\ client' = NoConn
    /\ release' = "nulled"
    /\ UNCHANGED <<out, listener>>

SetStop ==
    /\ release = "nulled"
    /\ release' = "stopped"
    /\ UNCHANGED <<conn, client, out, listener>>

-----------------------------------------------------------------------------
(* piture_done: who gets the answer, and whether writing it throws what    *)
(* nothing catches, because client is set and out is not yet.              *)
Answered == IF client # NoConn /\ out # NoConn /\ conn[out] = "open" THEN {out} ELSE {}
AnswerDies == client # NoConn /\ out = NoConn
=============================================================================
