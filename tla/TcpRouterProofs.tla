-------------------------- MODULE TcpRouterProofs --------------------------
(***************************************************************************)
(* Proofs about TcpRouter, for any connections, extensions, chunk lengths  *)
(* and bounds: its type invariant, the invariant StreamInv, the safety     *)
(* properties that follow from it, and that it implements StreamSwitch.    *)
(***************************************************************************)
EXTENDS TcpRouter, SequenceTheorems, TLAPS

-----------------------------------------------------------------------------
(* Streams *)

(* The prefixes of a stream are sequences of naturals, built chunk by      *)
(* chunk from the empty one.                                               *)
LEMMA UptoFacts ==
  ASSUME NEW n \in Nat
  PROVE  /\ Switch!Upto(n) \in Seq(Nat)
         /\ Len(Switch!Upto(n)) = n
         /\ Append(Switch!Upto(n), n + 1) = Switch!Upto(n + 1)
         /\ Switch!Upto(n) \o <<>> = Switch!Upto(n)
         /\ <<>> \o Switch!Upto(n) = Switch!Upto(n)
BY DEF Switch!Upto

LEMMA UptoZero == Switch!Upto(0) = <<>>
BY DEF Switch!Upto

-----------------------------------------------------------------------------
(* Types *)

(* Registering an extension keeps the registry a list of extensions, as    *)
(* long as the bound on its length allows.                                 *)
LEMMA RegistryGrows ==
  ASSUME NEW r \in Registries(Exts), NEW e \in Exts, Len(r) < MaxRegs
  PROVE  Append(r, e) \in Registries(Exts)
<1>1. PICK n \in 0..MaxRegs : r \in [1..n -> Exts]
  BY DEF Registries
<1>2. MaxRegs \in Nat
  BY TcpAssumption
<1>3. r \in Seq(Exts) /\ Len(r) = n
  BY <1>1, <1>2
<1>4. Append(r, e) \in [1..(n + 1) -> Exts]
  <2>1. Append(r, e) \in Seq(Exts) /\ Len(Append(r, e)) = n + 1
    BY <1>3
  <2>2. QED
    BY <2>1, LenProperties
<1>5. n + 1 \in 0..MaxRegs
  BY <1>2, <1>3
<1>6. QED
  BY <1>4, <1>5 DEF Registries

(* Every handler leaves the registry, the channels and the transports      *)
(* well-formed.                                                            *)
LEMMA TypeStep == TypeOK /\ [Next]_vars => TypeOK'
<1> SUFFICES ASSUME TypeOK, [Next]_vars PROVE TypeOK'
  OBVIOUS
<1> USE DEF TypeOK
<1>1. ASSUME NEW e \in Exts, Register(e) PROVE TypeOK'
  <2>1. tcpExtensions' \in Registries(Exts)
    BY <1>1, RegistryGrows DEF Register
  <2>2. QED
    BY <1>1, <2>1 DEF Register, netVars, channelVars, backendVars, sinkVars
<1>2. ASSUME NEW e \in Exts, Unregister(e) PROVE TypeOK'
  <2>1. tcpExtensions' \in Registries(Exts)
    <3>1. PICK n \in 0..MaxRegs : tcpExtensions' \in [1..n -> Exts \ {e}]
      BY <1>2 DEF Unregister, Registries
    <3>2. tcpExtensions' \in [1..n -> Exts]
      BY <3>1
    <3>3. QED
      BY <3>2 DEF Registries
  <2>2. QED
    BY <1>2, <2>1 DEF Unregister, netVars, channelVars, backendVars, sinkVars
<1>3. ASSUME NEW e \in Exts, ContainerStops(e) PROVE TypeOK'
  BY <1>3 DEF ContainerStops, netVars, channelVars, backendVars, sinkVars
<1>4. ASSUME NEW c \in Conns, Accept(c) PROVE TypeOK'
  BY <1>4 DEF Accept, netVars, backendVars, sinkVars
<1>5. ASSUME NEW c \in Conns, ClientSend(c) PROVE TypeOK'
  BY <1>5 DEF ClientSend, channelVars, backendVars, sinkVars
<1>6. ASSUME NEW c \in Conns, BackendData(c) PROVE TypeOK'
  BY <1>6 DEF BackendData, channelVars, backendVars, sinkVars
<1>7. ASSUME NEW c \in Conns, BackendDrains(c) PROVE TypeOK'
  BY <1>7 DEF BackendDrains, netVars, channelVars, sinkVars
<1>8. ASSUME NEW c \in Conns, HttpReply(c) PROVE TypeOK'
  BY <1>8 DEF HttpReply, channelVars, backendVars, sinkVars
<1>9. ASSUME NEW c \in Conns, DataToPeer(c) PROVE TypeOK'
  <2>1. CASE backend[c] = "open"
    <3>1. PICK full \in BOOLEAN : /\ congested' = [congested EXCEPT ![c] = full]
                                 /\ reading'   = [reading EXCEPT ![c] = ~full]
      BY <1>9, <2>1, Zenon DEF DataToPeer
    <3>2. congested' \in [Conns -> BOOLEAN] /\ reading' \in [Conns -> BOOLEAN]
      BY <3>1
    <3>3. backendIn' = [backendIn EXCEPT ![c] = Append(@, nread[c] + 1)]
      BY <1>9, <2>1, Zenon DEF DataToPeer
    <3>4. /\ nread' = [nread EXCEPT ![c] = @ + 1]
          /\ UNCHANGED <<tcpExtensions, containerUp, sent, clientIn, transport,
                         tcpPeer, detecting, detectionBuffer, backend, target,
                         initialData, httpIn>>
      BY <1>9, Zenon DEF DataToPeer, TakeChunk, netVars
    <3>5. QED
      BY <3>2, <3>3, <3>4
  <2>2. CASE backend[c] # "open"
    BY <1>9, <2>2 DEF DataToPeer, TakeChunk, netVars
  <2>3. QED
    BY <2>1, <2>2
<1>10. ASSUME NEW c \in Conns, DataToHttp(c) PROVE TypeOK'
  BY <1>10 DEF DataToHttp, TakeChunk, netVars, backendVars
<1>11. ASSUME NEW c \in Conns, DataTooShort(c) PROVE TypeOK'
  BY <1>11 DEF DataTooShort, TakeChunk, Collected, netVars, backendVars, sinkVars
<1>12. ASSUME NEW c \in Conns, NEW yes \in SUBSET Exts, DataClaimed(c, yes)
       PROVE TypeOK'
  BY <1>12 DEF DataClaimed, TakeChunk, Collected, netVars, sinkVars
<1>13. ASSUME NEW c \in Conns, NEW yes \in SUBSET Exts, DataUnclaimed(c, yes)
       PROVE TypeOK'
  BY <1>13 DEF DataUnclaimed, TakeChunk, Collected, netVars, backendVars
<1>14. ASSUME NEW c \in Conns, BackendConnected(c) PROVE TypeOK'
  BY <1>14 DEF BackendConnected, netVars
<1>15. ASSUME NEW c \in Conns, BackendRefused(c) PROVE TypeOK'
  BY <1>15 DEF BackendRefused, LoseClient, netVars, channelVars, sinkVars
<1>16. ASSUME NEW c \in Conns, BackendLost(c) PROVE TypeOK'
  BY <1>16 DEF BackendLost, LoseClient, netVars, channelVars, sinkVars
<1>17. ASSUME NEW c \in Conns, ConnectionLost(c) PROVE TypeOK'
  BY <1>17 DEF ConnectionLost, netVars, sinkVars
<1>18. CASE UNCHANGED vars
  BY <1>18 DEF vars, netVars, channelVars, backendVars, sinkVars
<1>19. QED
  BY <1>1, <1>2, <1>3, <1>4, <1>5, <1>6, <1>7, <1>8, <1>9, <1>10, <1>11, <1>12,
     <1>13, <1>14, <1>15, <1>16, <1>17, <1>18
     DEF Next, Registry, Environment, Reactor, DataReceived

(* The router's state keeps its shape.                                     *)
THEOREM TypeCorrect == Spec => []TypeOK
<1>1. Init => TypeOK
  BY TcpAssumption DEF Init, TypeOK, Registries
<1>2. QED
  BY <1>1, TypeStep, PTL DEF Spec

-----------------------------------------------------------------------------
(* Streams through the router *)

(* What StreamOf(d) reads of the state.                                    *)
ConnState(d) ==
  <<reading[d], transport[d], detecting[d], nread[d], backend[d],
    detectionBuffer[d], httpIn[d], backendIn[d], tcpPeer[d], initialData[d]>>

(* A step that leaves a connection alone leaves its stream alone.          *)
LEMMA StreamFrame ==
  ASSUME NEW d \in Conns, StreamOf(d), ConnState(d)' = ConnState(d)
  PROVE  StreamOf(d)'
BY DEF StreamOf, ConnState, SinkOf

(* Every step of a connection keeps its stream whole.                      *)
LEMMA StreamStep ==
  ASSUME TypeOK, NEW c \in Conns, StreamOf(c), Environment(c) \/ Reactor(c)
  PROVE  StreamOf(c)'
<1> DEFINE n == nread[c]
<1>n. n \in Nat /\ n + 1 \in Nat
  BY DEF TypeOK
<1>u. /\ Switch!Upto(n) \in Seq(Nat)
      /\ Append(Switch!Upto(n), n + 1) = Switch!Upto(n + 1)
      /\ Switch!Upto(n) \o <<>> = Switch!Upto(n)
      /\ <<>> \o Switch!Upto(n) = Switch!Upto(n)
      /\ <<>> \o Switch!Upto(n + 1) = Switch!Upto(n + 1)
      /\ Switch!Upto(0) = <<>>
  BY <1>n, UptoFacts, UptoZero
<1> HIDE DEF n
<1> USE DEF TypeOK, StreamOf, SinkOf
<1>1. CASE Accept(c)
  BY <1>1, <1>u DEF Accept, netVars, backendVars, sinkVars
<1>2. CASE ClientSend(c)
  BY <1>2 DEF ClientSend, channelVars, backendVars, sinkVars
<1>3. CASE BackendData(c)
  BY <1>3 DEF BackendData, channelVars, backendVars, sinkVars
<1>4. CASE BackendDrains(c)
  BY <1>4 DEF BackendDrains, channelVars, sinkVars
<1>5. CASE HttpReply(c)
  BY <1>5 DEF HttpReply, channelVars, backendVars, sinkVars
<1>6. CASE DataToPeer(c)
  <2>1. /\ transport[c] = "up" /\ reading[c] /\ ~detecting[c] /\ tcpPeer[c]
        /\ nread'[c] = n + 1
        /\ UNCHANGED <<transport, tcpPeer, detecting, backend, httpIn>>
    BY <1>6 DEF n, DataToPeer, TakeChunk
  <2>2. backend[c] = "open" /\ backendIn[c] = Switch!Upto(n)
    BY <2>1 DEF n
  <2>3. backendIn'[c] = Switch!Upto(n + 1)
    <3>1. backendIn' = [backendIn EXCEPT ![c] = Append(@, nread[c] + 1)]
      BY <1>6, <2>2, Zenon DEF DataToPeer
    <3>2. QED
      BY <3>1, <2>2, <1>u DEF n
  <2>4. httpIn[c] = <<>>
    BY <2>1, <2>2
  <2>5. QED
    BY <2>1, <2>2, <2>3, <2>4, <1>n
<1>7. CASE DataToHttp(c)
  <2>1. /\ transport[c] = "up" /\ reading[c] /\ ~detecting[c] /\ ~tcpPeer[c]
        /\ nread'[c] = n + 1
        /\ httpIn'[c] = Append(httpIn[c], n + 1)
        /\ UNCHANGED <<transport, reading, tcpPeer, detecting, detectionBuffer,
                       backend, initialData, backendIn>>
    BY <1>7 DEF n, DataToHttp, TakeChunk, backendVars
  <2>2. backend[c] = "none" /\ backendIn[c] = <<>> /\ httpIn[c] = Switch!Upto(n)
    BY <2>1 DEF n
  <2>3. httpIn'[c] = Switch!Upto(n + 1)
    BY <2>1, <2>2, <1>u
  <2>4. 0 \in 0..(n + 1) /\ backendIn'[c] = Switch!Upto(0)
    BY <2>1, <2>2, <1>n, <1>u
  <2>5. QED
    BY <2>1, <2>2, <2>3, <2>4, <1>n
<1>8. CASE DataTooShort(c)
  <2>1. /\ transport[c] = "up" /\ detecting[c] /\ nread'[c] = n + 1
        /\ detectionBuffer'[c] = Append(detectionBuffer[c], n + 1)
        /\ UNCHANGED <<transport, tcpPeer, reading, detecting, httpIn, backend,
                       backendIn, initialData>>
    BY <1>8 DEF n, DataTooShort, TakeChunk, Collected, backendVars, sinkVars
  <2>2. detectionBuffer'[c] = Switch!Upto(n + 1) /\ backend[c] = "none"
    BY <2>1, <1>u DEF n
  <2>3. /\ httpIn[c] = <<>> /\ backendIn[c] = <<>> /\ ~tcpPeer[c]
        /\ SinkOf(c)' # "http"
    BY <2>1, <2>2
  <2>4. 0 \in 0..(n + 1) /\ backendIn'[c] = Switch!Upto(0)
    BY <2>1, <2>3, <1>n, <1>u
  <2>5. QED
    BY <2>1, <2>2, <2>3, <2>4
<1>9. ASSUME NEW yes \in SUBSET Exts, DataClaimed(c, yes) PROVE StreamOf(c)'
  <2>1. /\ transport[c] = "up" /\ detecting[c] /\ ~detecting'[c] /\ ~reading'[c]
        /\ nread'[c] = n + 1 /\ backend'[c] = "connecting"
        /\ initialData'[c] = Append(detectionBuffer[c], n + 1)
        /\ UNCHANGED <<transport, tcpPeer, httpIn, backendIn>>
    BY <1>9 DEF n, DataClaimed, TakeChunk, Collected, sinkVars
  <2>2. /\ backend[c] = "none" /\ detectionBuffer[c] = Switch!Upto(n)
        /\ httpIn[c] = <<>> /\ backendIn[c] = <<>> /\ ~tcpPeer[c]
    BY <2>1 DEF n
  <2>3. initialData'[c] = Switch!Upto(n + 1)
    BY <2>1, <2>2, <1>u
  <2>4. 0 \in 0..(n + 1) /\ backendIn'[c] = Switch!Upto(0)
    BY <2>1, <2>2, <1>n, <1>u
  <2>5. QED
    BY <2>1, <2>2, <2>3, <2>4, <1>n
<1>10. ASSUME NEW yes \in SUBSET Exts, DataUnclaimed(c, yes) PROVE StreamOf(c)'
  BY <1>10, <1>n, <1>u DEF n, DataUnclaimed, TakeChunk, Collected, backendVars
<1>11. CASE BackendConnected(c)
  <2>1. /\ backend[c] = "connecting" /\ tcpPeer'[c]
        /\ reading'[c] => transport[c] = "up"
        /\ backend'[c] = IF transport[c] = "lost" THEN "closing" ELSE "open"
        /\ backendIn'[c] = backendIn[c] \o initialData[c]
        /\ UNCHANGED <<nread, transport, detecting, detectionBuffer, httpIn>>
    BY <1>11 DEF BackendConnected
  <2>2. ~detecting[c] /\ httpIn[c] = <<>> /\ backendIn'[c] = Switch!Upto(n)
    BY <2>1, <1>u DEF n
  <2>3. QED
    BY <2>1, <2>2, <1>n DEF n
<1>12. CASE BackendRefused(c)
  BY <1>12 DEF BackendRefused, LoseClient, channelVars, sinkVars
<1>13. CASE BackendLost(c)
  BY <1>13 DEF BackendLost, LoseClient, channelVars, sinkVars
<1>14. CASE ConnectionLost(c)
  BY <1>14 DEF ConnectionLost, sinkVars
<1>15. QED
  BY <1>1, <1>2, <1>3, <1>4, <1>5, <1>6, <1>7, <1>8, <1>9, <1>10, <1>11, <1>12,
     <1>13, <1>14 DEF Environment, Reactor, DataReceived

(* A step of one connection leaves the others alone.                       *)
LEMMA OtherConns ==
  ASSUME TypeOK, NEW c \in Conns, NEW d \in Conns \ {c},
         Environment(c) \/ Reactor(c)
  PROVE  /\ ConnState(d)' = ConnState(d)
         /\ clientIn'[d] = clientIn[d] /\ congested'[d] = congested[d]
<1> USE DEF TypeOK, ConnState
<1>1. CASE Accept(c)
  BY <1>1 DEF Accept, netVars, backendVars, sinkVars
<1>2. CASE ClientSend(c)
  BY <1>2 DEF ClientSend, channelVars, backendVars, sinkVars
<1>3. CASE BackendData(c)
  BY <1>3 DEF BackendData, channelVars, backendVars, sinkVars
<1>4. CASE BackendDrains(c)
  BY <1>4 DEF BackendDrains, netVars, channelVars, sinkVars
<1>5. CASE HttpReply(c)
  BY <1>5 DEF HttpReply, channelVars, backendVars, sinkVars
<1>6. CASE DataToPeer(c)
  BY <1>6 DEF DataToPeer, TakeChunk, netVars
<1>7. CASE DataToHttp(c)
  BY <1>7 DEF DataToHttp, TakeChunk, netVars, backendVars
<1>8. CASE DataTooShort(c)
  BY <1>8 DEF DataTooShort, TakeChunk, netVars, backendVars, sinkVars
<1>9. ASSUME NEW yes \in SUBSET Exts, DataClaimed(c, yes)
      PROVE /\ ConnState(d)' = ConnState(d)
            /\ clientIn'[d] = clientIn[d] /\ congested'[d] = congested[d]
  BY <1>9 DEF DataClaimed, TakeChunk, netVars, sinkVars
<1>10. ASSUME NEW yes \in SUBSET Exts, DataUnclaimed(c, yes)
       PROVE /\ ConnState(d)' = ConnState(d)
             /\ clientIn'[d] = clientIn[d] /\ congested'[d] = congested[d]
  BY <1>10 DEF DataUnclaimed, TakeChunk, netVars, backendVars
<1>11. CASE BackendConnected(c)
  BY <1>11 DEF BackendConnected, netVars
<1>12. CASE BackendRefused(c)
  BY <1>12 DEF BackendRefused, LoseClient, netVars, channelVars, sinkVars
<1>13. CASE BackendLost(c)
  BY <1>13 DEF BackendLost, LoseClient, netVars, channelVars, sinkVars
<1>14. CASE ConnectionLost(c)
  BY <1>14 DEF ConnectionLost, netVars, sinkVars
<1>15. QED
  BY <1>1, <1>2, <1>3, <1>4, <1>5, <1>6, <1>7, <1>8, <1>9, <1>10, <1>11, <1>12,
     <1>13, <1>14 DEF Environment, Reactor, DataReceived

(* Steps of the registry and of its containers touch no connection.        *)
LEMMA RegistryStep ==
  ASSUME Registry
  PROVE  /\ UNCHANGED <<nread, transport, reading, channelVars, backendVars,
                        sinkVars, netVars>>
BY DEF Registry, Register, Unregister, ContainerStops

(* The streams stay whole: what a handler buffers, hands to the backend as *)
(* initial data or gives a consumer is all that was read, in order.        *)
THEOREM StreamCorrect == Spec => []StreamInv
<1>1. Init => StreamInv
  <2> SUFFICES ASSUME Init, NEW d \in Conns PROVE StreamOf(d)
    BY DEF StreamInv
  <2>1. /\ transport[d] = "idle" /\ ~reading[d] /\ detecting[d] /\ nread[d] = 0
        /\ backend[d] = "none" /\ detectionBuffer[d] = <<>> /\ ~tcpPeer[d]
        /\ httpIn[d] = <<>> /\ backendIn[d] = <<>>
    BY DEF Init
  <2>2. 0 \in 0..0 /\ backendIn[d] = Switch!Upto(0)
    BY <2>1, UptoZero
  <2>3. QED
    BY <2>1, <2>2 DEF StreamOf, SinkOf
<1>2. TypeOK /\ StreamInv /\ [Next]_vars => StreamInv'
  <2> SUFFICES ASSUME TypeOK, StreamInv, [Next]_vars, NEW d \in Conns
               PROVE  StreamOf(d)'
    BY DEF StreamInv
  <2>1. StreamOf(d)
    BY DEF StreamInv
  <2>2. CASE Registry
    BY <2>1, <2>2, RegistryStep, StreamFrame
       DEF ConnState, channelVars, backendVars, sinkVars
  <2>3. ASSUME NEW c \in Conns, Environment(c) \/ Reactor(c) PROVE StreamOf(d)'
    <3>1. CASE c = d
      BY <2>1, <2>3, <3>1, StreamStep
    <3>2. CASE c # d
      BY <2>1, <2>3, <3>2, OtherConns, StreamFrame
    <3>3. QED
      BY <3>1, <3>2
  <2>4. CASE UNCHANGED vars
    BY <2>1, <2>4, StreamFrame
       DEF ConnState, vars, channelVars, backendVars, sinkVars
  <2>5. QED
    BY <2>2, <2>3, <2>4 DEF Next
<1>3. QED
  BY <1>1, <1>2, TypeCorrect, PTL DEF Spec

(* A channel in TCP mode whose client is there has a live backend.         *)
THEOREM PeersAreLive == Spec => []PeerIsLive
<1>1. StreamInv => PeerIsLive
  BY DEF StreamInv, StreamOf, PeerIsLive
<1>2. QED
  BY <1>1, StreamCorrect, PTL

(* Reading is paused only for a dial or for a backend that lags behind.    *)
THEOREM PausesAreJustified == Spec => []PausedForAReason
<1>1. Init => PausedForAReason
  BY DEF Init, PausedForAReason
<1>2. TypeOK /\ StreamInv /\ PausedForAReason /\ [Next]_vars => PausedForAReason'
  <2> SUFFICES ASSUME TypeOK, StreamInv, PausedForAReason, [Next]_vars,
                      NEW d \in Conns, transport'[d] = "up", ~reading'[d]
               PROVE  \/ backend'[d] = "connecting"
                      \/ backend'[d] = "open" /\ congested'[d]
    BY DEF PausedForAReason
  <2> DEFINE Reason == \/ backend'[d] = "connecting"
                       \/ backend'[d] = "open" /\ congested'[d]
  <2>1. /\ StreamOf(d)
        /\ transport[d] = "up" /\ ~reading[d] =>
             backend[d] = "connecting" \/ (backend[d] = "open" /\ congested[d])
    BY DEF StreamInv, PausedForAReason
  <2>2. ASSUME ConnState(d)' = ConnState(d), congested'[d] = congested[d] PROVE Reason
    BY <2>1, <2>2 DEF ConnState
  <2>3. CASE Registry
    BY <2>2, <2>3, RegistryStep DEF ConnState, channelVars, backendVars, sinkVars
  <2>4. ASSUME NEW c \in Conns \ {d}, Environment(c) \/ Reactor(c) PROVE Reason
    BY <2>2, <2>4, OtherConns
  <2>5. CASE Environment(d) \/ Reactor(d)
    <3> USE <2>1 DEF TypeOK, StreamOf
    <3>1. CASE Accept(d)
      BY <3>1 DEF Accept
    <3>2. CASE ClientSend(d) \/ BackendData(d) \/ HttpReply(d)
      BY <3>2 DEF ClientSend, BackendData, HttpReply, backendVars
    <3>3. CASE BackendDrains(d)
      BY <3>3 DEF BackendDrains
    <3>4. CASE DataToPeer(d)
      <4>1. backend[d] = "open" /\ transport[d] = "up" /\ UNCHANGED backend
        BY <3>4 DEF DataToPeer, TakeChunk
      <4>2. PICK full \in BOOLEAN : /\ congested' = [congested EXCEPT ![d] = full]
                                   /\ reading'   = [reading EXCEPT ![d] = ~full]
        BY <3>4, <4>1, Zenon DEF DataToPeer
      <4>3. QED
        BY <4>1, <4>2
    <3>5. CASE DataToHttp(d) \/ DataTooShort(d)
      BY <3>5 DEF DataToHttp, DataTooShort, TakeChunk, backendVars
    <3>6. ASSUME NEW yes \in SUBSET Exts, DataClaimed(d, yes) PROVE Reason
      BY <3>6 DEF DataClaimed
    <3>7. ASSUME NEW yes \in SUBSET Exts, DataUnclaimed(d, yes) PROVE Reason
      BY <3>7 DEF DataUnclaimed, TakeChunk
    <3>8. CASE BackendConnected(d)
      <4>1. PICK full \in BOOLEAN :
              /\ congested' = [congested EXCEPT ![d] = full]
              /\ reading'   = [reading EXCEPT ![d] = (transport[d] = "up" /\ ~full)]
        BY <3>8, Zenon DEF BackendConnected
      <4>2. transport[d] = "up" /\ backend'[d] = "open"
        BY <3>8 DEF BackendConnected
      <4>3. QED
        BY <4>1, <4>2
    <3>9. CASE BackendRefused(d) \/ BackendLost(d) \/ ConnectionLost(d)
      BY <3>9 DEF BackendRefused, BackendLost, ConnectionLost, LoseClient
    <3>10. QED
      BY <2>5, <3>1, <3>2, <3>3, <3>4, <3>5, <3>6, <3>7, <3>8, <3>9
         DEF Environment, Reactor, DataReceived
  <2>6. CASE UNCHANGED vars
    BY <2>2, <2>6 DEF ConnState, vars, channelVars, backendVars, sinkVars
  <2>7. QED
    BY <2>3, <2>4, <2>5, <2>6 DEF Next
<1>3. QED
  BY <1>1, <1>2, TypeCorrect, StreamCorrect, PTL DEF Spec

-----------------------------------------------------------------------------
(* One consumer per connection *)

(* A connection's consumer, once chosen, is never changed.                 *)
LEMMA SinkStep ==
  ASSUME TypeOK, NEW c \in Conns, StreamOf(c), Environment(c) \/ Reactor(c),
         SinkOf(c) # "none"
  PROVE  SinkOf(c)' = SinkOf(c)
<1> USE DEF TypeOK, StreamOf, SinkOf
<1>1. ASSUME detecting'[c] = detecting[c],
             backend[c] = "none" <=> backend'[c] = "none"
      PROVE  SinkOf(c)' = SinkOf(c)
  BY <1>1
<1>2. CASE Accept(c)
  BY <1>2 DEF Accept
<1>3. CASE ClientSend(c) \/ BackendData(c) \/ HttpReply(c)
  BY <1>1, <1>3 DEF ClientSend, BackendData, HttpReply, channelVars, backendVars
<1>4. CASE BackendDrains(c)
  BY <1>1, <1>4 DEF BackendDrains, channelVars
<1>5. CASE DataToPeer(c) \/ DataToHttp(c) \/ DataTooShort(c)
  BY <1>1, <1>5 DEF DataToPeer, DataToHttp, DataTooShort, backendVars
<1>6. ~ \E yes \in SUBSET Exts : DataClaimed(c, yes) \/ DataUnclaimed(c, yes)
  BY DEF DataClaimed, DataUnclaimed
<1>7. CASE BackendConnected(c) \/ BackendRefused(c)
  BY <1>1, <1>7 DEF BackendConnected, BackendRefused, channelVars
<1>8. CASE BackendLost(c) \/ ConnectionLost(c)
  BY <1>1, <1>8 DEF BackendLost, ConnectionLost, channelVars
<1>9. QED
  BY <1>2, <1>3, <1>4, <1>5, <1>6, <1>7, <1>8 DEF Environment, Reactor, DataReceived

(* The replies one client has read all come from its consumer.             *)
RepliesTo(d) ==
  \A i \in DOMAIN clientIn[d] :
    clientIn[d][i] = IF SinkOf(d) = "tcp" THEN "backend" ELSE SinkOf(d)

LEMMA RepliesKept ==
  ASSUME TypeOK, NEW d \in Conns, RepliesTo(d), clientIn'[d] = clientIn[d],
         SinkOf(d) # "none" => SinkOf(d)' = SinkOf(d)
  PROVE  RepliesTo(d)'
<1>1. CASE SinkOf(d) # "none"
  BY <1>1 DEF RepliesTo
<1>2. CASE SinkOf(d) = "none"
  <2>1. clientIn[d] \in Seq({"http", "backend"})
    BY DEF TypeOK
  <2>2. DOMAIN clientIn[d] = {}
    BY <1>2, <2>1 DEF RepliesTo
  <2>3. QED
    BY <2>2 DEF RepliesTo
<1>3. QED
  BY <1>1, <1>2

(* A client reads from its backend or from HTTP, never from both.          *)
THEOREM RepliesAreFromSink == Spec => []RepliesFromSink
<1>1. Init => RepliesFromSink
  BY DEF Init, RepliesFromSink
<1>2. TypeOK /\ StreamInv /\ RepliesFromSink /\ [Next]_vars => RepliesFromSink'
  <2> SUFFICES ASSUME TypeOK, StreamInv, RepliesFromSink, [Next]_vars,
                      NEW d \in Conns
               PROVE  RepliesTo(d)'
    BY DEF RepliesFromSink, RepliesTo
  <2>1. StreamOf(d) /\ RepliesTo(d)
    BY DEF StreamInv, RepliesFromSink, RepliesTo
  <2>2. CASE Registry
    BY <2>1, <2>2, RegistryStep, RepliesKept
       DEF SinkOf, netVars, channelVars, backendVars
  <2>3. ASSUME NEW c \in Conns \ {d}, Environment(c) \/ Reactor(c)
        PROVE  RepliesTo(d)'
    BY <2>1, <2>3, OtherConns, RepliesKept DEF SinkOf, ConnState
  <2>4. CASE Environment(d) \/ Reactor(d)
    <3>1. SinkOf(d) # "none" => SinkOf(d)' = SinkOf(d)
      BY <2>1, <2>4, SinkStep
    <3>2. CASE BackendData(d)
      <4>1. SinkOf(d) = "tcp" /\ SinkOf(d)' = "tcp"
        BY <2>1, <3>1, <3>2 DEF BackendData, StreamOf, SinkOf
      <4>2. clientIn'[d] = Append(clientIn[d], "backend")
        BY <3>2 DEF BackendData, TypeOK
      <4>3. clientIn[d] \in Seq({"http", "backend"})
        BY DEF TypeOK
      <4>4. QED
        BY <2>1, <4>1, <4>2, <4>3 DEF RepliesTo
    <3>3. CASE HttpReply(d)
      <4>1. SinkOf(d) = "http" /\ SinkOf(d)' = "http"
        BY <2>1, <3>1, <3>3 DEF HttpReply, StreamOf, SinkOf
      <4>2. clientIn'[d] = Append(clientIn[d], "http")
        BY <3>3 DEF HttpReply, TypeOK
      <4>3. clientIn[d] \in Seq({"http", "backend"})
        BY DEF TypeOK
      <4>4. QED
        BY <2>1, <4>1, <4>2, <4>3 DEF RepliesTo
    <3>4. CASE ~BackendData(d) /\ ~HttpReply(d)
      <4>1. UNCHANGED clientIn
        BY <2>4, <3>4
           DEF Environment, Reactor, DataReceived, Accept, ClientSend, BackendDrains,
               DataToPeer, DataToHttp, DataTooShort, DataClaimed, DataUnclaimed,
               TakeChunk, BackendConnected, BackendRefused, BackendLost,
               ConnectionLost, netVars
      <4>2. QED
        BY <2>1, <3>1, <4>1, RepliesKept
    <3>5. QED
      BY <3>2, <3>3, <3>4
  <2>5. CASE UNCHANGED vars
    BY <2>1, <2>5, RepliesKept DEF SinkOf, vars, netVars, channelVars, backendVars
  <2>6. QED
    BY <2>2, <2>3, <2>4, <2>5 DEF Next
<1>3. QED
  BY <1>1, <1>2, TypeCorrect, StreamCorrect, PTL DEF Spec

-----------------------------------------------------------------------------
(* The router implements StreamSwitch *)

(* What the consumers of a connection have been given.                     *)
Delivered(c) == httpIn[c] \o backendIn[c]

(* It is a prefix of what was read, and empty before the decision.         *)
LEMMA DeliveredPrefix ==
  ASSUME TypeOK, NEW c \in Conns, StreamOf(c)
  PROVE  \E k \in 0..nread[c] : /\ Delivered(c) = Switch!Upto(k)
                                /\ SinkOf(c) = "none" => k = 0
<1>1. nread[c] \in Nat
  BY DEF TypeOK
<1>2. CASE SinkOf(c) = "tcp"
  <2>1. PICK k \in 0..nread[c] : backendIn[c] = Switch!Upto(k)
    BY DEF StreamOf
  <2>2. httpIn[c] = <<>> /\ k \in Nat
    BY <1>1, <1>2 DEF StreamOf
  <2>3. Delivered(c) = Switch!Upto(k)
    BY <2>1, <2>2, UptoFacts DEF Delivered
  <2>4. QED
    BY <1>2, <2>3
<1>3. CASE SinkOf(c) = "http"
  <2>1. httpIn[c] = Switch!Upto(nread[c]) /\ backendIn[c] = <<>>
    BY <1>3 DEF StreamOf, SinkOf
  <2>2. Delivered(c) = Switch!Upto(nread[c]) /\ nread[c] \in 0..nread[c]
    BY <1>1, <2>1, UptoFacts DEF Delivered
  <2>3. QED
    BY <1>3, <2>2
<1>4. CASE SinkOf(c) = "none"
  <2>1. httpIn[c] = <<>> /\ backendIn[c] = <<>>
    BY <1>4 DEF StreamOf, SinkOf
  <2>2. Switch!Upto(0) \o <<>> = Switch!Upto(0)
    BY UptoFacts
  <2>3. Delivered(c) = Switch!Upto(0) /\ 0 \in 0..nread[c]
    BY <1>1, <2>1, <2>2, UptoZero DEF Delivered
  <2>4. QED
    BY <2>3
<1>5. QED
  BY <1>2, <1>3, <1>4 DEF SinkOf

(* A step that gives a consumer something brings it level with the reads.  *)
LEMMA DeliveryStep ==
  ASSUME TypeOK, NEW c \in Conns, StreamOf(c), Environment(c) \/ Reactor(c)
  PROVE  /\ nread'[c] \in {nread[c], nread[c] + 1}
         /\ \/ httpIn'[c] = httpIn[c] /\ backendIn'[c] = backendIn[c]
            \/ Delivered(c)' = Switch!Upto(nread'[c]) /\ SinkOf(c)' # "none"
<1> DEFINE Quiet == httpIn'[c] = httpIn[c] /\ backendIn'[c] = backendIn[c]
           Level == Delivered(c)' = Switch!Upto(nread'[c]) /\ SinkOf(c)' # "none"
           Goal  == nread'[c] \in {nread[c], nread[c] + 1} /\ (Quiet \/ Level)
<1>1. StreamOf(c)'
  BY StreamStep
<1>2. nread[c] \in Nat
  BY DEF TypeOK
<1>3. CASE Accept(c) \/ ClientSend(c) \/ BackendData(c) \/ BackendDrains(c) \/ HttpReply(c)
  BY <1>3 DEF Accept, ClientSend, BackendData, BackendDrains, HttpReply, sinkVars
<1>4. CASE BackendRefused(c) \/ BackendLost(c) \/ ConnectionLost(c)
  BY <1>4 DEF BackendRefused, BackendLost, ConnectionLost, sinkVars
<1>5. CASE DataTooShort(c)
  BY <1>5 DEF DataTooShort, TakeChunk, sinkVars, TypeOK
<1>6. ASSUME NEW yes \in SUBSET Exts, DataClaimed(c, yes) PROVE Goal
  BY <1>6 DEF DataClaimed, TakeChunk, sinkVars, TypeOK
<1>7. ASSUME nread'[c] \in Nat, SinkOf(c)' = "http" PROVE Level
  <2>1. httpIn'[c] = Switch!Upto(nread'[c]) /\ backendIn'[c] = <<>>
    BY <1>1, <1>7 DEF StreamOf, SinkOf
  <2>2. QED
    BY <1>7, <2>1, UptoFacts DEF Delivered
<1>8. ASSUME nread'[c] \in Nat, SinkOf(c)' = "tcp",
             backendIn'[c] = Switch!Upto(nread'[c])
      PROVE  Level
  <2>1. httpIn'[c] = <<>>
    BY <1>1, <1>8 DEF StreamOf
  <2>2. QED
    BY <1>8, <2>1, UptoFacts DEF Delivered
<1>9. CASE DataToHttp(c)
  <2>1. nread'[c] = nread[c] + 1 /\ SinkOf(c)' = "http"
    BY <1>9 DEF DataToHttp, TakeChunk, backendVars, StreamOf, SinkOf, TypeOK
  <2>2. QED
    BY <1>2, <1>7, <2>1
<1>10. ASSUME NEW yes \in SUBSET Exts, DataUnclaimed(c, yes) PROVE Goal
  <2>1. nread'[c] = nread[c] + 1 /\ SinkOf(c)' = "http"
    BY <1>10 DEF DataUnclaimed, TakeChunk, backendVars, StreamOf, SinkOf, TypeOK
  <2>2. QED
    BY <1>2, <1>7, <2>1
<1>11. CASE DataToPeer(c)
  <2>1. /\ nread'[c] = nread[c] + 1 /\ transport[c] = "up"
        /\ ~detecting[c] /\ tcpPeer[c]
        /\ UNCHANGED <<detecting, transport, backend>>
    BY <1>11 DEF DataToPeer, TakeChunk, TypeOK
  <2>2. SinkOf(c)' = "tcp" /\ backendIn'[c] = Switch!Upto(nread'[c])
    BY <1>1, <2>1 DEF StreamOf, SinkOf
  <2>3. QED
    BY <1>2, <1>8, <2>1, <2>2
<1>12. CASE BackendConnected(c)
  <2>1. /\ nread' = nread /\ SinkOf(c)' = "tcp"
        /\ backendIn'[c] = backendIn[c] \o initialData[c]
    BY <1>12 DEF BackendConnected, StreamOf, SinkOf, TypeOK
  <2>2. backendIn[c] = <<>> /\ initialData[c] = Switch!Upto(nread[c])
    BY <1>12 DEF BackendConnected, StreamOf
  <2>3. backendIn'[c] = Switch!Upto(nread'[c])
    BY <1>2, <2>1, <2>2, UptoFacts
  <2>4. QED
    BY <1>2, <1>8, <2>1, <2>3
<1>13. QED
  BY <1>3, <1>4, <1>5, <1>6, <1>9, <1>10, <1>11, <1>12
     DEF Environment, Reactor, DataReceived

(* A step of one connection is a step of its stream, or a stutter.         *)
LEMMA StreamAdvances ==
  ASSUME TypeOK, StreamInv, NEW c \in Conns, Environment(c) \/ Reactor(c)
  PROVE  Switch!Advance(c)
<1> DEFINE received  == nread
           sink      == [x \in Conns |-> SinkOf(x)]
           delivered == [x \in Conns |-> httpIn[x] \o backendIn[x]]
<1>1. StreamOf(c) /\ StreamOf(c)'
  BY StreamStep DEF StreamInv
<1>2. nread[c] \in Nat /\ nread \in [Conns -> Nat]
  BY DEF TypeOK
<1>3. PICK j \in 0..nread[c] : /\ Delivered(c) = Switch!Upto(j)
                               /\ SinkOf(c) = "none" => j = 0
  BY <1>1, DeliveredPrefix
<1>4. /\ nread'[c] \in {nread[c], nread[c] + 1}
      /\ \/ httpIn'[c] = httpIn[c] /\ backendIn'[c] = backendIn[c]
         \/ Delivered(c)' = Switch!Upto(nread'[c]) /\ SinkOf(c)' # "none"
  BY <1>1, DeliveryStep
<1>5. SinkOf(c) # "none" => SinkOf(c)' = SinkOf(c)
  BY <1>1, SinkStep
<1>6. \E k \in j..nread'[c] : /\ Delivered(c)' = Switch!Upto(k)
                              /\ SinkOf(c)' = "none" => k = 0
  <2>1. CASE httpIn'[c] = httpIn[c] /\ backendIn'[c] = backendIn[c]
    <3>1. Delivered(c)' = Switch!Upto(j)
      BY <1>3, <2>1 DEF Delivered
    <3>2. j \in j..nread'[c]
      BY <1>2, <1>3, <1>4
    <3>3. SinkOf(c)' = "none" => j = 0
      BY <1>3, <1>5
    <3>4. QED
      BY <3>1, <3>2, <3>3
  <2>2. CASE Delivered(c)' = Switch!Upto(nread'[c]) /\ SinkOf(c)' # "none"
    <3>1. nread'[c] \in j..nread'[c]
      BY <1>2, <1>3, <1>4
    <3>2. QED
      BY <2>2, <3>1
  <2>3. QED
    BY <1>4, <2>1, <2>2
<1>7. PICK k \in j..nread'[c] : /\ Delivered(c)' = Switch!Upto(k)
                                /\ SinkOf(c)' = "none" => k = 0
  BY <1>6
<1>8. j = Len(Delivered(c))
  BY <1>2, <1>3, UptoFacts
<1>9. \A d \in Conns \ {c} : ConnState(d)' = ConnState(d)
  BY OtherConns
<1>10. nread' = [nread EXCEPT ![c] = nread'[c]]
  <2>1. nread' \in [Conns -> Nat]
    BY TypeStep DEF Next, TypeOK
  <2>2. \A d \in Conns \ {c} : nread'[d] = nread[d]
    BY <1>9 DEF ConnState
  <2>3. QED
    BY <1>2, <2>1, <2>2
<1>11. sink' = [sink EXCEPT ![c] = SinkOf(c)']
  BY <1>9 DEF ConnState, SinkOf
<1>12. delivered' = [delivered EXCEPT ![c] = Switch!Upto(k)]
  BY <1>7, <1>9 DEF ConnState, Delivered
<1>13. SinkOf(c)' \in IF SinkOf(c) = "none" THEN {"http", "tcp"} \cup {"none"}
                                            ELSE {SinkOf(c)}
  BY <1>5 DEF SinkOf
<1>14. k \in Len(httpIn[c] \o backendIn[c])..nread'[c]
  BY <1>7, <1>8 DEF Delivered
<1>15. QED
  BY <1>4, <1>7, <1>10, <1>11, <1>12, <1>13, <1>14 DEF Switch!Advance

(* The router implements StreamSwitch: whatever is registered, dialled,    *)
(* refused or lost, the bytes of each connection reach one consumer only,  *)
(* in order, without gap or repeat.                                        *)
THEOREM ImplementsStreamSwitch == Spec => StreamSwitched
<1>1. Init => Switch!Init
  BY DEF Init, Switch!Init, SinkOf
<1>2. TypeOK /\ StreamInv /\ [Next]_vars => [Switch!Next]_(Switch!switchVars)
  <2> SUFFICES ASSUME TypeOK, StreamInv, [Next]_vars
               PROVE  Switch!Next \/ UNCHANGED Switch!switchVars
    OBVIOUS
  <2>1. CASE Registry
    BY <2>1, RegistryStep
       DEF Switch!switchVars, SinkOf, channelVars, backendVars, sinkVars
  <2>2. ASSUME NEW c \in Conns, Environment(c) \/ Reactor(c) PROVE Switch!Next
    BY <2>2, StreamAdvances DEF Switch!Next
  <2>3. CASE UNCHANGED vars
    BY <2>3 DEF Switch!switchVars, SinkOf, vars, channelVars, backendVars, sinkVars
  <2>4. QED
    BY <2>1, <2>2, <2>3 DEF Next
<1>3. QED
  BY <1>1, <1>2, TypeCorrect, StreamCorrect, PTL DEF Spec, StreamSwitched, Switch!Spec
=============================================================================
