---------------------------- MODULE MCTcpRouter ----------------------------
(***************************************************************************)
(* Small instances of TcpRouter for TLC.                                   *)
(***************************************************************************)
EXTENDS TcpRouter

(* One chunk shorter than the detection threshold and one that reaches it. *)
ShortAndLong == {4, 8}
=============================================================================
