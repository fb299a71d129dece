---------------------------- MODULE MCSocketServer ----------------------------
(* An instance of SocketServer for TLC. *)
EXTENDS SocketServer, TLC
=============================================================================
