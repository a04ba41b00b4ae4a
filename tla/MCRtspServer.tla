---------------------------- MODULE MCRtspServer ----------------------------
(* RtspServer for model checking: neither the clients nor the Session      *)
(* objects are told apart by the specification or by the properties of     *)
(* the runs that use this module, which are not liveness properties.       *)
EXTENDS RtspServer, TLC

Symmetry == Permutations(Clients) \cup Permutations(Sessions)
=============================================================================
