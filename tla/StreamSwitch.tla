---------------------------- MODULE StreamSwitch ----------------------------
(***************************************************************************)
(* What a protocol-detecting switch on the gateway port promises about     *)
(* each client connection, whatever its implementation does to buffer,     *)
(* detect and dial: the bytes the client sent reach exactly one consumer,  *)
(* in the order they were sent, without a gap and without a repetition.    *)
(*                                                                         *)
(* TcpRouter (raw TCP backends beside HTTP) and H2Proxy (a gRPC backend    *)
(* beside the gateway's own HTTP/2) are each checked to implement this     *)
(* specification.  A stream is a sequence of chunks numbered from 1.       *)
(***************************************************************************)
EXTENDS Naturals, Sequences

CONSTANTS
  Conns,    (* client connections                                          *)
  Sinks,    (* the consumers a connection may be switched to               *)
  NoSink    (* a connection whose consumer is not chosen yet               *)

VARIABLES
  received,   (* number of chunks taken from each client                   *)
  sink,       (* the consumer each connection is switched to               *)
  delivered   (* the chunks that consumer has been given, in order         *)

switchVars == <<received, sink, delivered>>

(* The first n chunks of a stream, in order.                               *)
Upto(n) == [i \in 1..n |-> i]

Init ==
  /\ received  = [c \in Conns |-> 0]
  /\ sink      = [c \in Conns |-> NoSink]
  /\ delivered = [c \in Conns |-> <<>>]

(***************************************************************************)
(* One step of a connection: at most one more chunk is taken from the      *)
(* client, a consumer may be chosen if none is, and the consumer may be    *)
(* given more of the prefix that was taken.                                *)
(***************************************************************************)
Advance(c) ==
  \E r \in {received[c], received[c] + 1},
     s \in IF sink[c] = NoSink THEN Sinks \cup {NoSink} ELSE {sink[c]} :
    \E k \in Len(delivered[c])..r :
      /\ s = NoSink => k = 0
      /\ received'  = [received EXCEPT ![c] = r]
      /\ sink'      = [sink EXCEPT ![c] = s]
      /\ delivered' = [delivered EXCEPT ![c] = Upto(k)]

Next == \E c \in Conns : Advance(c)

Spec == Init /\ [][Next]_switchVars
=============================================================================
