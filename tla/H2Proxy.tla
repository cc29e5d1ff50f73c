------------------------------ MODULE H2Proxy -------------------------------
(***************************************************************************)
(* The HTTP/2 (gRPC) proxy of the gateway                                  *)
(* (utils/localstack_extensions/utils/h2_proxy.py).                        *)
(*                                                                         *)
(* Every HTTP/2 connection of the gateway gets a ForwardingBuffer, which   *)
(* dials the backend at once and keeps the client's data until the first   *)
(* request headers are seen: from then on the connection belongs to the    *)
(* backend or to the gateway's default handler.  What the backend sends is *)
(* read by a receive loop that holds a thread of the reactor's pool for    *)
(* the lifetime of the connection.                                         *)
(*                                                                         *)
(* The reactor thread runs one handler at a time, and a handler that sends *)
(* to the backend blocks it until the backend takes the data.  The receive *)
(* loops run in the pool, so each of their steps interleaves with it.      *)
(***************************************************************************)
EXTENDS Naturals, Sequences, FiniteSets

CONSTANTS
  Conns,       (* HTTP/2 client connections                                *)
  NoConn,      (* no connection                                            *)
  PoolSize,    (* threads of the reactor's pool                            *)
  SockCap,     (* chunks a backend can write ahead of the receive loop     *)
  MaxChunks,   (* bound: chunks a client sends                             *)
  MaxReplies   (* bound: chunks the backend sends on a connection          *)

ASSUME H2Assumption ==
  /\ NoConn \notin Conns
  /\ {PoolSize, SockCap} \subseteq Nat \ {0}
  /\ {MaxChunks, MaxReplies} \subseteq Nat

(***************************************************************************)
(* What a chunk adds to the stream: nothing that parses to headers yet,    *)
(* the end of a decodable HEADERS frame, or bytes that are no frame at all.*)
(***************************************************************************)
Kinds == {"part", "head", "junk"}

VARIABLES
  sent,        (* kinds of the chunks the client has written               *)
  nread,       (* number of chunks dataReceived has been called with       *)
  status,      (* state of the client's connection                         *)
  state,       (* ForwardingBuffer.state                                   *)
  buffer,      (* ForwardingBuffer.buffer                                  *)
  socket,      (* TcpForwarder._socket: the connection to the backend      *)
  loop,        (* where the receive loop of the connection is              *)
  queue,       (* connections whose receive loop waits for a pool thread   *)
  stuck,       (* the connection whose sendall blocks the reactor          *)
  outgoing,    (* the chunks that sendall is sending                       *)
  pending,     (* chunks of the backend the receive loop has not read      *)
  replied,     (* number of chunks the backend has written                 *)
  defaultIn,   (* history: chunks given to the default handler             *)
  backendIn,   (* history: chunks the backend has been sent                *)
  clientIn     (* history: where the data written to the client came from  *)

bufferVars == <<nread, state, buffer>>
sendVars   == <<stuck, outgoing, backendIn>>
loopVars   == <<loop, queue>>
replyVars  == <<pending, replied, clientIn>>
vars == <<sent, status, socket, bufferVars, sendVars, loopVars, replyVars, defaultIn>>

ReactorFree == stuck = NoConn

-----------------------------------------------------------------------------
(* Helpers *)

(***************************************************************************)
(* get_headers_from_data_stream: the frames of the buffered stream are     *)
(* parsed from its start up to the first bytes that are no frame.          *)
(***************************************************************************)
HasHeaders(c, chunks) ==
  \E i \in DOMAIN chunks :
    /\ sent[c][chunks[i]] = "head"
    /\ \A j \in 1..i : sent[c][chunks[j]] # "junk"

(* Faulty variants of CloseBackend: the socket is left open, or is shut in *)
(* one direction only.                                                     *)
CloseBackendNot(c) == UNCHANGED socket
CloseBackendHalf(c) == socket' = [socket EXCEPT ![c] = "shut"]

(* TcpForwarder.close: the receive loop finds the socket shut.             *)
CloseBackend(c) == socket' = [socket EXCEPT ![c] = "closed"]

(* A faulty variant of DropClient: only the backend is closed.             *)
DropBackendOnly(c) == CloseBackend(c) /\ UNCHANGED status

(* A handler raised: the reactor logs it and drops the connection, and     *)
(* connectionLost closes the connection to the backend.                    *)
DropClient(c) ==
  /\ status' = [status EXCEPT ![c] = "lost"]
  /\ CloseBackend(c)

(***************************************************************************)
(* TcpForwarder.send, on the reactor thread: the backend takes the data,   *)
(* or sendall blocks until it does; when the backend has hung up the data  *)
(* is lost in the socket or sendall raises.                                *)
(***************************************************************************)
Send(c, chunks) ==
  \/ /\ socket[c] = "open"
     /\ backendIn' = [backendIn EXCEPT ![c] = @ \o chunks]
     /\ UNCHANGED <<stuck, outgoing, status, socket>>
  \/ /\ socket[c] = "open"
     /\ stuck'    = c
     /\ outgoing' = chunks
     /\ UNCHANGED <<backendIn, status, socket>>
  \/ /\ socket[c] = "eof"
     /\ UNCHANGED <<sendVars, status, socket>>
  \/ /\ socket[c] = "eof"
     /\ DropClient(c)
     /\ UNCHANGED sendVars

-----------------------------------------------------------------------------
(* The client's connection, on the reactor thread *)

(* connectionMade: the backend is dialled and the receive loop is handed   *)
(* to the reactor's thread pool.                                           *)
ConnectionMade(c) ==
  /\ ReactorFree
  /\ status[c] = "new"
  /\ status' = [status EXCEPT ![c] = "up"]
  /\ socket' = [socket EXCEPT ![c] = "open"]
  /\ buffer' = [buffer EXCEPT ![c] = <<>>]
  /\ state'  = [state EXCEPT ![c] = "UNDECIDED"]
  /\ loop'   = [loop EXCEPT ![c] = "queued"]
  /\ queue'  = Append(queue, c)
  /\ UNCHANGED <<sent, nread, sendVars, replyVars, defaultIn>>

(* connectionMade raises when the backend refuses the dial: the client is  *)
(* dropped, whatever it meant to request.                                  *)
BackendRefuses(c) ==
  /\ ReactorFree
  /\ status[c] = "new"
  /\ status' = [status EXCEPT ![c] = "lost"]
  /\ UNCHANGED <<sent, socket, bufferVars, sendVars, loopVars, replyVars, defaultIn>>

(* dataReceived is called with the client's next chunk.                    *)
TakeChunk(c) ==
  /\ ReactorFree
  /\ status[c] = "up"
  /\ nread[c] < Len(sent[c])
  /\ nread' = [nread EXCEPT ![c] = @ + 1]
  /\ UNCHANGED <<sent, loopVars, replyVars>>

(* A faulty variant of Collected: the chunks are out of order.             *)
CollectedReversed(c) == <<nread[c] + 1>> \o buffer[c]

Collected(c) == Append(buffer[c], nread[c] + 1)

DataPassedThrough(c) ==
  /\ TakeChunk(c)
  /\ state[c] = "PASSTHROUGH"
  /\ defaultIn' = [defaultIn EXCEPT ![c] = Append(@, nread[c] + 1)]
  /\ UNCHANGED <<status, socket, state, buffer, sendVars>>

DataForwarded(c) ==
  /\ TakeChunk(c)
  /\ state[c] = "FORWARDING"
  /\ Send(c, <<nread[c] + 1>>)
  /\ UNCHANGED <<state, buffer, defaultIn>>

(* No headers yet: the data is held.                                       *)
DataHeld(c) ==
  /\ TakeChunk(c)
  /\ state[c] = "UNDECIDED"
  /\ ~HasHeaders(c, Collected(c))
  /\ buffer' = [buffer EXCEPT ![c] = Collected(c)]
  /\ UNCHANGED <<status, socket, state, sendVars, defaultIn>>

(* Headers: the buffer is emptied before the matcher is asked.             *)
HeadersSeen(c) ==
  /\ TakeChunk(c)
  /\ state[c] = "UNDECIDED"
  /\ HasHeaders(c, Collected(c))
  /\ buffer' = [buffer EXCEPT ![c] = <<>>]

DataMatched(c) ==
  /\ HeadersSeen(c)
  /\ state' = [state EXCEPT ![c] = "FORWARDING"]
  /\ Send(c, Collected(c))
  /\ UNCHANGED defaultIn

DataNotMatched(c) ==
  /\ HeadersSeen(c)
  /\ state'     = [state EXCEPT ![c] = "PASSTHROUGH"]
  /\ defaultIn' = [defaultIn EXCEPT ![c] = @ \o Collected(c)]
  /\ UNCHANGED <<status, socket, sendVars>>

MatcherRaises(c) ==
  /\ HeadersSeen(c)
  /\ DropClient(c)
  /\ UNCHANGED <<state, sendVars, defaultIn>>

DataReceived(c) ==
  \/ DataPassedThrough(c)
  \/ DataForwarded(c)
  \/ DataHeld(c)
  \/ DataMatched(c)
  \/ DataNotMatched(c)
  \/ MatcherRaises(c)

(* The backend takes the data of a blocked sendall.  It does not while it  *)
(* is itself blocked, writing to a socket nobody reads.                    *)
SendDone(c) ==
  /\ stuck = c
  /\ socket[c] = "open"
  /\ pending[c] < SockCap
  /\ backendIn' = [backendIn EXCEPT ![c] = @ \o outgoing]
  /\ stuck'     = NoConn
  /\ outgoing'  = <<>>
  /\ UNCHANGED <<sent, status, socket, bufferVars, loopVars, replyVars, defaultIn>>

(* The backend hangs up on a blocked sendall, which raises.                *)
SendFails(c) ==
  /\ stuck = c
  /\ socket[c] = "eof"
  /\ DropClient(c)
  /\ stuck'    = NoConn
  /\ outgoing' = <<>>
  /\ UNCHANGED <<sent, bufferVars, backendIn, loopVars, replyVars, defaultIn>>

(* connectionLost: the client left, or the default handler closed it.      *)
ConnectionLost(c) ==
  /\ ReactorFree
  /\ status[c] = "up"
  /\ DropClient(c)
  /\ UNCHANGED <<sent, bufferVars, sendVars, loopVars, replyVars, defaultIn>>

-----------------------------------------------------------------------------
(* The receive loops, in the thread pool *)

Busy == {c \in Conns : loop[c] \in {"recv", "writing"}}

(* A thread of the pool takes the next receive loop.                       *)
StartLoop ==
  /\ queue # <<>>
  /\ Cardinality(Busy) < PoolSize
  /\ loop'  = [loop EXCEPT ![Head(queue)] = "recv"]
  /\ queue' = Tail(queue)
  /\ UNCHANGED <<sent, status, socket, bufferVars, sendVars, replyVars, defaultIn>>

(* A faulty variant of RecvData: the loop runs on the reactor thread.      *)
RecvDataOnReactor(c) ==
  /\ ReactorFree
  /\ loop[c] = "recv"
  /\ socket[c] \in {"open", "eof"}
  /\ pending[c] > 0
  /\ pending' = [pending EXCEPT ![c] = @ - 1]
  /\ loop'    = [loop EXCEPT ![c] = "writing"]
  /\ UNCHANGED <<sent, status, socket, bufferVars, sendVars, queue, replied, clientIn,
                 defaultIn>>

(* TcpForwarder.recv returns data.                                         *)
RecvData(c) ==
  /\ loop[c] = "recv"
  /\ socket[c] \in {"open", "eof"}
  /\ pending[c] > 0
  /\ pending' = [pending EXCEPT ![c] = @ - 1]
  /\ loop'    = [loop EXCEPT ![c] = "writing"]
  /\ UNCHANGED <<sent, status, socket, bufferVars, sendVars, queue, replied, clientIn,
                 defaultIn>>

(* received_from_backend: the data is written to the client, whatever the  *)
(* state of its ForwardingBuffer; a connection that is lost drops it.      *)
WriteClient(c) ==
  /\ loop[c] = "writing"
  /\ clientIn' = IF status[c] = "up"
                 THEN [clientIn EXCEPT ![c] = Append(@, "backend")]
                 ELSE clientIn
  /\ loop' = [loop EXCEPT ![c] = "recv"]
  /\ UNCHANGED <<sent, status, socket, bufferVars, sendVars, queue, pending, replied,
                 defaultIn>>

(* A faulty variant of RecvEnds: the loop also ends when nothing is there  *)
(* to be read.                                                             *)
RecvEndsWhenIdle(c) ==
  /\ loop[c] = "recv"
  /\ socket[c] \in {"eof", "closed"} \/ pending[c] = 0
  /\ loop' = [loop EXCEPT ![c] = "done"]
  /\ UNCHANGED <<sent, status, socket, bufferVars, sendVars, queue, replyVars, defaultIn>>

(***************************************************************************)
(* TcpForwarder.recv returns no data (end of stream, or the socket was     *)
(* closed here) or raises (the backend reset it): the loop ends and the    *)
(* thread goes back to the pool.  The client is not told.                  *)
(***************************************************************************)
RecvEnds(c) ==
  /\ loop[c] = "recv"
  /\ socket[c] \in {"eof", "closed"}
  /\ loop' = [loop EXCEPT ![c] = "done"]
  /\ UNCHANGED <<sent, status, socket, bufferVars, sendVars, queue, replyVars, defaultIn>>

-----------------------------------------------------------------------------
(* The client, the default handler and the backend *)

ClientSend(c) ==
  /\ status[c] = "up"
  /\ Len(sent[c]) < MaxChunks
  /\ \E k \in Kinds : sent' = [sent EXCEPT ![c] = Append(@, k)]
  /\ UNCHANGED <<status, socket, bufferVars, sendVars, loopVars, replyVars, defaultIn>>

(* The default handler answers what it was given.                          *)
DefaultReply(c) ==
  /\ ReactorFree
  /\ status[c] = "up"
  /\ defaultIn[c] # <<>>
  /\ Len(clientIn[c]) < MaxReplies
  /\ clientIn' = [clientIn EXCEPT ![c] = Append(@, "default")]
  /\ UNCHANGED <<sent, status, socket, bufferVars, sendVars, loopVars, pending, replied,
                 defaultIn>>

(* The backend writes: it need not have been sent anything, an HTTP/2      *)
(* server speaks first.                                                    *)
BackendReply(c) ==
  /\ socket[c] = "open"
  /\ pending[c] < SockCap
  /\ replied[c] < MaxReplies
  /\ pending' = [pending EXCEPT ![c] = @ + 1]
  /\ replied' = [replied EXCEPT ![c] = @ + 1]
  /\ UNCHANGED <<sent, status, socket, bufferVars, sendVars, loopVars, clientIn, defaultIn>>

BackendHangsUp(c) ==
  /\ socket[c] = "open"
  /\ socket' = [socket EXCEPT ![c] = "eof"]
  /\ UNCHANGED <<sent, status, bufferVars, sendVars, loopVars, replyVars, defaultIn>>

-----------------------------------------------------------------------------
Init ==
  /\ sent      = [c \in Conns |-> <<>>]
  /\ nread     = [c \in Conns |-> 0]
  /\ status    = [c \in Conns |-> "new"]
  /\ state     = [c \in Conns |-> "UNDECIDED"]
  /\ buffer    = [c \in Conns |-> <<>>]
  /\ socket    = [c \in Conns |-> "none"]
  /\ loop      = [c \in Conns |-> "none"]
  /\ queue     = <<>>
  /\ stuck     = NoConn
  /\ outgoing  = <<>>
  /\ pending   = [c \in Conns |-> 0]
  /\ replied   = [c \in Conns |-> 0]
  /\ defaultIn = [c \in Conns |-> <<>>]
  /\ backendIn = [c \in Conns |-> <<>>]
  /\ clientIn  = [c \in Conns |-> <<>>]

Reactor(c) ==
  \/ ConnectionMade(c)
  \/ BackendRefuses(c)
  \/ DataReceived(c)
  \/ SendDone(c)
  \/ SendFails(c)
  \/ ConnectionLost(c)

Pool(c) == RecvData(c) \/ WriteClient(c) \/ RecvEnds(c)

Environment(c) ==
  ClientSend(c) \/ DefaultReply(c) \/ BackendReply(c) \/ BackendHangsUp(c)

Next ==
  \/ StartLoop
  \/ \E c \in Conns : Reactor(c) \/ Pool(c) \/ Environment(c)

(***************************************************************************)
(* The reactor delivers data that has arrived, the pool's threads run, and *)
(* a backend that is not blocked itself, time and again, takes what it is  *)
(* sent.  Nothing makes a client or a backend write, leave or hang up.     *)
(***************************************************************************)
Fairness ==
  /\ WF_vars(StartLoop)
  /\ \A c \in Conns :
       /\ WF_vars(DataReceived(c))
       /\ SF_vars(SendDone(c) \/ SendFails(c))
       /\ WF_vars(Pool(c))

Spec == Init /\ [][Next]_vars /\ Fairness
-----------------------------------------------------------------------------
(* Properties *)

(* The proxy's state has the shape the code gives it, and the backend's    *)
(* socket never holds more chunks than it has room for.                    *)
TypeOK ==
  /\ sent      \in [Conns -> Seq(Kinds)]
  /\ nread     \in [Conns -> Nat]
  /\ status    \in [Conns -> {"new", "up", "lost"}]
  /\ state     \in [Conns -> {"UNDECIDED", "FORWARDING", "PASSTHROUGH"}]
  /\ buffer    \in [Conns -> Seq(Nat)]
  /\ socket    \in [Conns -> {"none", "open", "eof", "closed"}]
  /\ loop      \in [Conns -> {"none", "queued", "recv", "writing", "done"}]
  /\ queue     \in Seq(Conns)
  /\ stuck     \in Conns \cup {NoConn}
  /\ outgoing  \in Seq(Nat)
  /\ pending   \in [Conns -> 0..SockCap]
  /\ replied   \in [Conns -> Nat]
  /\ defaultIn \in [Conns -> Seq(Nat)]
  /\ backendIn \in [Conns -> Seq(Nat)]
  /\ clientIn  \in [Conns -> Seq({"backend", "default"})]

(* The consumer a connection has been switched to.                         *)
SinkOf(c) ==
  IF state[c] = "FORWARDING" THEN "backend"
  ELSE IF state[c] = "PASSTHROUGH" THEN "default" ELSE "none"

Switch == INSTANCE StreamSwitch WITH
  Sinks     <- {"backend", "default"},
  NoSink    <- "none",
  received  <- nread,
  sink      <- [c \in Conns |-> SinkOf(c)],
  delivered <- [c \in Conns |-> defaultIn[c] \o backendIn[c]]

(* Across buffering, blocked and failed sends and hang-ups, the bytes of   *)
(* every connection go to one consumer only, in order, without gap or      *)
(* repeat: the proxy implements StreamSwitch.                              *)
StreamSwitched == Switch!Spec

(* No pool thread is lost to a connection that is gone: whatever its       *)
(* receive loop was doing when the socket was closed, it ends.             *)
LoopsEnd ==
  \A c \in Conns : status[c] = "lost" ~> loop[c] \in {"none", "done"}

(* Forwarding is bidirectional: what the backend writes on a connection    *)
(* that forwards reaches the client, as long as neither of them leaves.    *)
RepliesArrive ==
  \A c \in Conns : \A n \in 1..MaxReplies :
    replied[c] = n /\ state[c] = "FORWARDING" ~>
      \/ Len(SelectSeq(clientIn[c], LAMBDA x : x = "backend")) >= n
      \/ status[c] = "lost" \/ socket[c] = "eof"

(* The reactor is not blocked for good: a send that waits for a backend    *)
(* that is itself waiting to write ends once the receive loop reads.       *)
ReactorFreed == stuck # NoConn ~> stuck = NoConn

(* Every chunk a client sent is handled while its connection is open.      *)
SentIsRead ==
  \A c \in Conns :
    nread[c] < Len(sent[c]) ~> nread[c] = Len(sent[c]) \/ status[c] = "lost"

(* The comment in received_from_http2_client: a connection that is not the *)
(* backend's is left to the default handler, which alone answers it.       *)
DefaultHandlerAlone ==
  [][\A c \in Conns :
       state[c] = "PASSTHROUGH" /\ clientIn'[c] # clientIn[c] =>
         clientIn'[c] = Append(clientIn[c], "default")]_vars
=============================================================================
