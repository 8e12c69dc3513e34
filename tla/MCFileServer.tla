---------------------------- MODULE MCFileServer ----------------------------
(* Bounded instances of FileServer: the caller "a" and its peers.          *)
EXTENDS FileServer

(* The peers dial the caller.                                              *)
DialTheCaller == [i \in Nodes |-> Callers \ {i}]
=============================================================================
