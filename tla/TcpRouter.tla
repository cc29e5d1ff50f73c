----------------------------- MODULE TcpRouter ------------------------------
(***************************************************************************)
(* The protocol-detecting TCP router of the gateway                        *)
(* (utils/localstack_extensions/utils/tcp_protocol_router.py).             *)
(*                                                                         *)
(* Each accepted client connection is an HTTPChannel whose dataReceived    *)
(* and connectionLost are patched.  The channel first collects bytes; when *)
(* it holds at least DetectBytes of them it asks the matcher of every      *)
(* registered extension, and either dials the backend of the first one     *)
(* that claims the connection or hands what it collected to HTTP.  All     *)
(* handlers run on the one reactor thread, so a handler is one step; the   *)
(* steps of the connections, of their backends and of the network          *)
(* interleave.                                                             *)
(*                                                                         *)
(* A stream is abstracted to chunks, one per call of dataReceived: sent[c] *)
(* holds the lengths of the chunks and a chunk is named by its position.   *)
(***************************************************************************)
EXTENDS Naturals, Sequences

CONSTANTS
  Conns,        (* client connections                                      *)
  Exts,         (* extensions that may register for TCP routing            *)
  NoExt,        (* the target of a connection no extension claimed         *)
  ChunkLens,    (* lengths in bytes of the chunks a client may send        *)
  DetectBytes,  (* bytes needed before the matchers are asked (8)          *)
  MaxChunks,    (* bound: chunks a client sends                            *)
  MaxReplies,   (* bound: chunks sent back to a client                     *)
  MaxRegs       (* bound: length of the registry                           *)

ASSUME TcpAssumption ==
  /\ NoExt \notin Exts
  /\ ChunkLens \subseteq Nat \ {0}
  /\ {DetectBytes, MaxChunks, MaxReplies, MaxRegs} \subseteq Nat

VARIABLES
  tcpExtensions,    (* _tcp_extensions: the registered extensions, in order *)
  containerUp,      (* extensions whose backend container accepts          *)
  sent,             (* lengths of the chunks the client has written        *)
  nread,            (* number of chunks dataReceived has been called with  *)
  transport,        (* state of the client's transport                     *)
  reading,          (* whether that transport is producing                 *)
  detecting,        (* channel._detecting                                  *)
  detectionBuffer,  (* channel._detection_buffer                           *)
  tcpPeer,          (* whether channel._tcp_peer is set                    *)
  backend,          (* state of the connection to the backend              *)
  target,           (* the extension whose backend was dialled             *)
  initialData,      (* client_factory.initial_data                         *)
  congested,        (* the backend transport has paused its producer       *)
  httpIn,           (* history: chunks given to HTTP                       *)
  backendIn,        (* history: chunks written to the backend              *)
  clientIn          (* history: where the client's replies came from       *)

netVars     == <<sent, clientIn>>
channelVars == <<detecting, detectionBuffer, tcpPeer>>
backendVars == <<backend, target, initialData, congested>>
sinkVars    == <<httpIn, backendIn>>
vars == <<tcpExtensions, containerUp, netVars, nread, transport, reading,
          channelVars, backendVars, sinkVars>>

(* The lists of registered extensions, drawn from es.                      *)
Registries(es) == UNION {[1..n -> es] : n \in 0..MaxRegs}

-----------------------------------------------------------------------------
(* Helpers *)

(* len(b"".join(buffer)): the bytes of the chunks a buffer holds.          *)
Bytes(c, buffer) ==
  LET total[i \in 0..Len(buffer)] ==
        IF i = 0 THEN 0 ELSE total[i - 1] + sent[c][buffer[i]]
  IN  total[Len(buffer)]

(***************************************************************************)
(* Positions of the registry whose matcher returned True, when the         *)
(* extensions of yes do.  A matcher that returns False and one that raises *)
(* are passed over alike.                                                  *)
(***************************************************************************)
Claims(yes) == {i \in DOMAIN tcpExtensions : tcpExtensions[i] \in yes}

(* The extension whose matcher is the first in the registry to say yes.    *)
ClaimedBy(e, yes) ==
  \E i \in Claims(yes) : e = tcpExtensions[i] /\ \A j \in Claims(yes) : i <= j

(* Faulty variants of LoseClient: it leaves the client alone, only pauses  *)
(* it, or puts its transport in a state no handler knows.                  *)
LoseClientNot(c) == UNCHANGED <<transport, reading>>

LoseClientPauses(c) ==
  /\ reading' = [reading EXCEPT ![c] = FALSE]
  /\ UNCHANGED transport

LoseClientAborts(c) ==
  /\ transport' = [transport EXCEPT ![c] = "aborted"]
  /\ reading'   = [reading EXCEPT ![c] = FALSE]

(* transport.loseConnection() on the client's transport: it stops reading  *)
(* and is closed once its output is flushed; no effect when already lost.  *)
LoseClient(c) ==
  IF transport[c] = "up"
  THEN /\ transport' = [transport EXCEPT ![c] = "closing"]
       /\ reading'   = [reading EXCEPT ![c] = FALSE]
  ELSE UNCHANGED <<transport, reading>>

-----------------------------------------------------------------------------
(* The registry *)

(* register_tcp_extension: the registry is a list, appended to.            *)
Register(e) ==
  /\ Len(tcpExtensions) < MaxRegs
  /\ tcpExtensions' = Append(tcpExtensions, e)
  /\ UNCHANGED <<containerUp, netVars, nread, transport, reading, channelVars,
                 backendVars, sinkVars>>

(* unregister_tcp_extension: every entry of that name is filtered out.     *)
Unregister(e) ==
  /\ \E rest \in Registries(Exts \ {e}) :
       /\ rest = SelectSeq(tcpExtensions, LAMBDA x : x # e)
       /\ rest # tcpExtensions
       /\ tcpExtensions' = rest
  /\ UNCHANGED <<containerUp, netVars, nread, transport, reading, channelVars,
                 backendVars, sinkVars>>

(* The container of an extension goes away (on_platform_shutdown, or it    *)
(* dies).  Its registration stays.                                         *)
ContainerStops(e) ==
  /\ e \in containerUp
  /\ containerUp' = containerUp \ {e}
  /\ UNCHANGED <<tcpExtensions, netVars, nread, transport, reading, channelVars,
                 backendVars, sinkVars>>

-----------------------------------------------------------------------------
(* The client *)

(* The gateway accepts the connection: _patched_init.                      *)
Accept(c) ==
  /\ transport[c] = "idle"
  /\ transport'       = [transport EXCEPT ![c] = "up"]
  /\ reading'         = [reading EXCEPT ![c] = TRUE]
  /\ detectionBuffer' = [detectionBuffer EXCEPT ![c] = <<>>]
  /\ detecting'       = [detecting EXCEPT ![c] = TRUE]
  /\ tcpPeer'         = [tcpPeer EXCEPT ![c] = FALSE]
  /\ UNCHANGED <<tcpExtensions, containerUp, netVars, nread, backendVars, sinkVars>>

(* The client writes a chunk.                                              *)
ClientSend(c) ==
  /\ transport[c] = "up"
  /\ Len(sent[c]) < MaxChunks
  /\ \E n \in ChunkLens : sent' = [sent EXCEPT ![c] = Append(@, n)]
  /\ UNCHANGED <<tcpExtensions, containerUp, nread, transport, reading, channelVars,
                 backendVars, sinkVars, clientIn>>

-----------------------------------------------------------------------------
(* _patched_dataReceived, called with the next chunk of a client whose     *)
(* transport is producing.                                                 *)

TakeChunk(c) ==
  /\ transport[c] = "up"
  /\ reading[c]
  /\ nread[c] < Len(sent[c])
  /\ nread' = [nread EXCEPT ![c] = @ + 1]
  /\ UNCHANGED <<tcpExtensions, containerUp, netVars, transport, tcpPeer>>

(* Already decided, TCP proxying mode: the chunk is written to the peer,   *)
(* which may fill its output buffer.  A transport that is gone drops it.   *)
DataToPeer(c) ==
  /\ TakeChunk(c)
  /\ ~detecting[c]
  /\ tcpPeer[c]
  /\ IF backend[c] = "open"
     THEN /\ backendIn' = [backendIn EXCEPT ![c] = Append(@, nread[c] + 1)]
          /\ \E full \in BOOLEAN :
               /\ congested' = [congested EXCEPT ![c] = full]
               /\ reading'   = [reading EXCEPT ![c] = ~full]
     ELSE UNCHANGED <<backendIn, congested, reading>>
  /\ UNCHANGED <<detecting, detectionBuffer, backend, target, initialData, httpIn>>

(* Already decided, HTTP mode: the chunk goes to the original handler.     *)
DataToHttp(c) ==
  /\ TakeChunk(c)
  /\ ~detecting[c]
  /\ ~tcpPeer[c]
  /\ httpIn' = [httpIn EXCEPT ![c] = Append(@, nread[c] + 1)]
  /\ UNCHANGED <<reading, detecting, detectionBuffer, backendVars, backendIn>>

(* Faulty variants of Collected: the last chunk alone, and out of order.   *)
CollectedLast(c) == <<nread[c] + 1>>
CollectedReversed(c) == <<nread[c] + 1>> \o detectionBuffer[c]

(* Still detecting: the chunk is buffered, and the matchers are asked once *)
(* the buffer is long enough.                                              *)
Collected(c) == Append(detectionBuffer[c], nread[c] + 1)

DataTooShort(c) ==
  /\ TakeChunk(c)
  /\ detecting[c]
  /\ Bytes(c, Collected(c)) < DetectBytes
  /\ detectionBuffer' = [detectionBuffer EXCEPT ![c] = Collected(c)]
  /\ UNCHANGED <<reading, detecting, backendVars, sinkVars>>

(* A faulty variant of DataClaimed: without its return, the collected      *)
(* chunks are fed to HTTP as well.                                         *)
DataClaimedAndFed(c, yes) ==
  /\ TakeChunk(c)
  /\ detecting[c]
  /\ Bytes(c, Collected(c)) >= DetectBytes
  /\ \E e \in Exts : ClaimedBy(e, yes) /\ target' = [target EXCEPT ![c] = e]
  /\ detecting'   = [detecting EXCEPT ![c] = FALSE]
  /\ reading'     = [reading EXCEPT ![c] = FALSE]
  /\ backend'     = [backend EXCEPT ![c] = "connecting"]
  /\ initialData' = [initialData EXCEPT ![c] = Collected(c)]
  /\ httpIn'      = [httpIn EXCEPT ![c] = @ \o Collected(c)]
  /\ UNCHANGED <<detectionBuffer, congested, backendIn>>

(* An extension claims the connection: reading is paused and its backend   *)
(* is dialled with the collected bytes as initial_data.                    *)
DataClaimed(c, yes) ==
  /\ TakeChunk(c)
  /\ detecting[c]
  /\ Bytes(c, Collected(c)) >= DetectBytes
  /\ \E e \in Exts : ClaimedBy(e, yes) /\ target' = [target EXCEPT ![c] = e]
  /\ detectionBuffer' = [detectionBuffer EXCEPT ![c] = Collected(c)]
  /\ detecting'       = [detecting EXCEPT ![c] = FALSE]
  /\ reading'         = [reading EXCEPT ![c] = FALSE]
  /\ backend'         = [backend EXCEPT ![c] = "connecting"]
  /\ initialData'     = [initialData EXCEPT ![c] = Collected(c)]
  /\ UNCHANGED <<congested, sinkVars>>

(* No extension claims it: the collected chunks are fed to HTTP.           *)
DataUnclaimed(c, yes) ==
  /\ TakeChunk(c)
  /\ detecting[c]
  /\ Bytes(c, Collected(c)) >= DetectBytes
  /\ Claims(yes) = {}
  /\ detecting'       = [detecting EXCEPT ![c] = FALSE]
  /\ httpIn'          = [httpIn EXCEPT ![c] = @ \o Collected(c)]
  /\ detectionBuffer' = [detectionBuffer EXCEPT ![c] = <<>>]
  /\ UNCHANGED <<reading, backendVars, backendIn>>

DataReceived(c) ==
  \/ DataToPeer(c)
  \/ DataToHttp(c)
  \/ DataTooShort(c)
  \/ \E yes \in SUBSET Exts : DataClaimed(c, yes) \/ DataUnclaimed(c, yes)

-----------------------------------------------------------------------------
(* The connection to the backend *)

(***************************************************************************)
(* TcpProxyClient.connectionMade: the channel gets its peer and resumes    *)
(* reading, the two transports become each other's producer, and the       *)
(* initial data is written, which may fill the backend's output buffer.    *)
(* Registering a producer with a transport that is already lost stops the  *)
(* producer: the backend connection then closes once it has flushed.       *)
(***************************************************************************)
BackendConnected(c) ==
  /\ backend[c] = "connecting"
  /\ target[c] \in containerUp
  /\ tcpPeer'     = [tcpPeer EXCEPT ![c] = TRUE]
  /\ \E full \in BOOLEAN :
       /\ congested' = [congested EXCEPT ![c] = full]
       /\ reading'   = [reading EXCEPT ![c] = (transport[c] = "up" /\ ~full)]
  /\ backend'     = [backend EXCEPT ![c] =
                       IF transport[c] = "lost" THEN "closing" ELSE "open"]
  /\ backendIn'   = [backendIn EXCEPT ![c] = @ \o initialData[c]]
  /\ initialData' = [initialData EXCEPT ![c] = <<>>]
  /\ UNCHANGED <<tcpExtensions, containerUp, netVars, nread, transport, detecting,
                 detectionBuffer, target, httpIn>>

(* A faulty variant of BackendDrains: the client's transport stays paused. *)
BackendDrainsUnnoticed(c) ==
  /\ congested[c]
  /\ backend[c] \in {"open", "closing"}
  /\ congested' = [congested EXCEPT ![c] = FALSE]
  /\ UNCHANGED <<tcpExtensions, containerUp, netVars, nread, transport, reading,
                 channelVars, backend, target, initialData, sinkVars>>

(* Flow control: the backend has taken what was written to it, and its     *)
(* transport resumes its producer, the client's transport.                 *)
BackendDrains(c) ==
  /\ congested[c]
  /\ backend[c] \in {"open", "closing"}
  /\ congested' = [congested EXCEPT ![c] = FALSE]
  /\ reading'   = [reading EXCEPT ![c] = (transport[c] = "up")]
  /\ UNCHANGED <<tcpExtensions, containerUp, netVars, nread, transport, channelVars,
                 backend, target, initialData, sinkVars>>

(* ProxyClientFactory.clientConnectionFailed: the client is disconnected.  *)
BackendRefused(c) ==
  /\ backend[c] = "connecting"
  /\ backend' = [backend EXCEPT ![c] = "lost"]
  /\ LoseClient(c)
  /\ UNCHANGED <<tcpExtensions, containerUp, netVars, nread, channelVars, target,
                 initialData, congested, sinkVars>>

(* TcpProxyClient.dataReceived: the backend's data is written to the       *)
(* client's transport, which drops it when it is gone.                     *)
BackendData(c) ==
  /\ backend[c] = "open"
  /\ Len(clientIn[c]) < MaxReplies
  /\ transport[c] # "lost"
  /\ clientIn' = [clientIn EXCEPT ![c] = Append(@, "backend")]
  /\ UNCHANGED <<tcpExtensions, containerUp, sent, nread, transport, reading,
                 channelVars, backendVars, sinkVars>>

(* TcpProxyClient.connectionLost: the client is disconnected too.          *)
BackendLost(c) ==
  /\ backend[c] \in {"open", "closing"}
  /\ backend'   = [backend EXCEPT ![c] = "lost"]
  /\ congested' = [congested EXCEPT ![c] = FALSE]
  /\ LoseClient(c)
  /\ UNCHANGED <<tcpExtensions, containerUp, netVars, nread, channelVars, target,
                 initialData, sinkVars>>

-----------------------------------------------------------------------------
(* The client's connection ends *)

(* A faulty variant of ConnectionLost: the peer is forgotten, not closed.  *)
ConnectionLostAlone(c) ==
  /\ transport[c] \in {"up", "closing"}
  /\ transport' = [transport EXCEPT ![c] = "lost"]
  /\ reading'   = [reading EXCEPT ![c] = FALSE]
  /\ tcpPeer'   = [tcpPeer EXCEPT ![c] = FALSE]
  /\ UNCHANGED <<tcpExtensions, containerUp, netVars, nread, detecting,
                 detectionBuffer, backendVars, sinkVars>>

(* _patched_connectionLost: the peer, if there is one, is closed.  The     *)
(* connection may be lost at any time: the client goes away, HTTP or an    *)
(* idle timeout closes it, or a loseConnection completes.                  *)
ConnectionLost(c) ==
  /\ transport[c] \in {"up", "closing"}
  /\ transport' = [transport EXCEPT ![c] = "lost"]
  /\ reading'   = [reading EXCEPT ![c] = FALSE]
  /\ tcpPeer'   = [tcpPeer EXCEPT ![c] = FALSE]
  /\ backend'   = IF tcpPeer[c] /\ backend[c] = "open"
                  THEN [backend EXCEPT ![c] = "closing"]
                  ELSE backend
  /\ UNCHANGED <<tcpExtensions, containerUp, netVars, nread, detecting,
                 detectionBuffer, target, initialData, congested, sinkVars>>

(* The HTTP handlers answer a request they were given.                     *)
HttpReply(c) ==
  /\ transport[c] = "up"
  /\ httpIn[c] # <<>>
  /\ Len(clientIn[c]) < MaxReplies
  /\ clientIn' = [clientIn EXCEPT ![c] = Append(@, "http")]
  /\ UNCHANGED <<tcpExtensions, containerUp, sent, nread, transport, reading,
                 channelVars, backendVars, sinkVars>>

-----------------------------------------------------------------------------
Init ==
  /\ tcpExtensions   = <<>>
  /\ containerUp     = Exts
  /\ sent            = [c \in Conns |-> <<>>]
  /\ nread           = [c \in Conns |-> 0]
  /\ transport       = [c \in Conns |-> "idle"]
  /\ reading         = [c \in Conns |-> FALSE]
  /\ detecting       = [c \in Conns |-> TRUE]
  /\ detectionBuffer = [c \in Conns |-> <<>>]
  /\ tcpPeer         = [c \in Conns |-> FALSE]
  /\ backend         = [c \in Conns |-> "none"]
  /\ target          = [c \in Conns |-> NoExt]
  /\ initialData     = [c \in Conns |-> <<>>]
  /\ congested       = [c \in Conns |-> FALSE]
  /\ httpIn          = [c \in Conns |-> <<>>]
  /\ backendIn       = [c \in Conns |-> <<>>]
  /\ clientIn        = [c \in Conns |-> <<>>]

Registry == \E e \in Exts : Register(e) \/ Unregister(e) \/ ContainerStops(e)

(* What clients and backends may do, at their own pace or never.           *)
Environment(c) ==
  \/ Accept(c)
  \/ ClientSend(c)
  \/ BackendData(c)
  \/ BackendDrains(c)
  \/ HttpReply(c)

(* What the reactor delivers.                                              *)
Reactor(c) ==
  \/ DataReceived(c)
  \/ BackendConnected(c)
  \/ BackendRefused(c)
  \/ BackendLost(c)
  \/ ConnectionLost(c)

Next == Registry \/ \E c \in Conns : Environment(c) \/ Reactor(c)

(***************************************************************************)
(* The reactor serves every descriptor that is ready, and a dial is        *)
(* answered or times out.  Nothing makes a client send, a backend read, or *)
(* a connection end: loseConnection reports the loss only once the output  *)
(* is flushed, which a peer that stops reading may put off for ever.       *)
(***************************************************************************)
Fairness ==
  \A c \in Conns :
    /\ WF_vars(DataReceived(c))
    /\ WF_vars(BackendConnected(c) \/ BackendRefused(c))

Spec == Init /\ [][Next]_vars /\ Fairness
-----------------------------------------------------------------------------
(* Properties *)

(* The state of the router has the shape the code gives it.                *)
TypeOK ==
  /\ tcpExtensions   \in Registries(Exts)
  /\ containerUp     \subseteq Exts
  /\ sent            \in [Conns -> Seq(ChunkLens)]
  /\ nread           \in [Conns -> Nat]
  /\ transport       \in [Conns -> {"idle", "up", "closing", "lost"}]
  /\ reading         \in [Conns -> BOOLEAN]
  /\ detecting       \in [Conns -> BOOLEAN]
  /\ detectionBuffer \in [Conns -> Seq(Nat)]
  /\ tcpPeer         \in [Conns -> BOOLEAN]
  /\ backend         \in [Conns -> {"none", "connecting", "open", "closing", "lost"}]
  /\ target          \in [Conns -> Exts \cup {NoExt}]
  /\ initialData     \in [Conns -> Seq(Nat)]
  /\ congested       \in [Conns -> BOOLEAN]
  /\ httpIn          \in [Conns -> Seq(Nat)]
  /\ backendIn       \in [Conns -> Seq(Nat)]
  /\ clientIn        \in [Conns -> Seq({"http", "backend"})]

(* The consumer a connection has been switched to: a backend once an       *)
(* extension claimed it, HTTP once none did.                               *)
SinkOf(c) ==
  IF detecting[c] THEN "none" ELSE IF backend[c] = "none" THEN "http" ELSE "tcp"

Switch == INSTANCE StreamSwitch WITH
  Sinks     <- {"http", "tcp"},
  NoSink    <- "none",
  received  <- nread,
  sink      <- [c \in Conns |-> SinkOf(c)],
  delivered <- [c \in Conns |-> httpIn[c] \o backendIn[c]]

(* Across detection, dialling, pausing and closing, the bytes of every     *)
(* connection go to one consumer only, in order, without gap or repeat:    *)
(* the router implements StreamSwitch.                                     *)
StreamSwitched == Switch!Spec

(* What a connection holds of its stream in each state of the handlers.    *)
StreamOf(c) ==
  /\ reading[c] => transport[c] = "up"
  /\ transport[c] = "idle" => detecting[c] /\ nread[c] = 0
  /\ detecting[c] => /\ backend[c] = "none"
                     /\ detectionBuffer[c] = Switch!Upto(nread[c])
  /\ httpIn[c] = IF SinkOf(c) = "http" THEN Switch!Upto(nread[c]) ELSE <<>>
  /\ backend[c] = "none" => backendIn[c] = <<>> /\ ~tcpPeer[c]
  /\ backend[c] = "connecting" =>
       /\ initialData[c] = Switch!Upto(nread[c])
       /\ backendIn[c] = <<>> /\ ~tcpPeer[c] /\ ~reading[c]
  /\ transport[c] = "up" /\ backend[c] \notin {"none", "connecting"} =>
       /\ backend[c] = "open" /\ tcpPeer[c]
       /\ backendIn[c] = Switch!Upto(nread[c])
  /\ \E k \in 0..nread[c] : backendIn[c] = Switch!Upto(k)

(* Until a connection is decided its buffer holds all that was read; while *)
(* its backend is dialled initial_data does; and once it is decided its    *)
(* consumer has, as long as the client is there to send more.  This is the *)
(* invariant that makes the delivery of StreamSwitch inductive.            *)
StreamInv == \A c \in Conns : StreamOf(c)

(* A client whose connection was claimed reads only what its backend wrote *)
(* and one that was left to HTTP reads only what HTTP wrote: the two are   *)
(* never mixed on one connection.                                          *)
RepliesFromSink ==
  \A c \in Conns : \A i \in DOMAIN clientIn[c] :
    clientIn[c][i] = (IF SinkOf(c) = "tcp" THEN "backend" ELSE SinkOf(c))

(* pauseProducing is always paired with resumeProducing or a close: an     *)
(* open connection that is not being read is one whose backend is still    *)
(* being dialled, or one whose backend is not keeping up.                  *)
PausedForAReason ==
  \A c \in Conns :
    transport[c] = "up" /\ ~reading[c] =>
      backend[c] = "connecting" \/ (backend[c] = "open" /\ congested[c])

(* A channel that is in TCP mode and still open has a live backend: no     *)
(* data is ever written to a backend that is gone.                         *)
PeerIsLive ==
  \A c \in Conns : tcpPeer[c] /\ transport[c] = "up" => backend[c] = "open"

(* Everything a client sent on a connection that stays open is read in the *)
(* end, unless its backend stops reading: detection and dialling never     *)
(* leave it paused for good.                                               *)
SentIsRead ==
  \A c \in Conns :
    nread[c] < Len(sent[c]) ~>
      \/ nread[c] = Len(sent[c])
      \/ transport[c] \in {"closing", "lost"}
      \/ congested[c]

(* When one leg of a proxied connection ends, the other is told to close:  *)
(* the backend connection of a client that is gone is closing or gone in   *)
(* the end, also when the client left while the backend was being dialled  *)
(* and tcp_peer was not yet set, and so is the client of a backend that is *)
(* gone or never answered.  When a closing leg is gone is up to its peer.  *)
LegsCloseTogether ==
  \A c \in Conns :
    /\ transport[c] = "lost" ~> backend[c] \in {"none", "closing", "lost"}
    /\ backend[c] = "lost" ~> transport[c] \in {"closing", "lost"}
=============================================================================
