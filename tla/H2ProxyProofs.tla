--------------------------- MODULE H2ProxyProofs ----------------------------
(***************************************************************************)
(* Proofs about H2Proxy, for any connections, pool, socket and bounds: its *)
(* type invariant, where the bytes of a connection are (StreamInv), what   *)
(* the thread pool and its queue hold (PoolInv), and that the proxy        *)
(* implements StreamSwitch.                                                *)
(***************************************************************************)
EXTENDS H2Proxy, SequenceTheorems, FiniteSetTheorems, TLAPS

-----------------------------------------------------------------------------
(* Streams *)

(* The prefixes of a stream are sequences of naturals, built chunk by      *)
(* chunk from the empty one.                                               *)
LEMMA UptoFacts ==
  ASSUME NEW n \in Nat
  PROVE  /\ Switch!Upto(n) \in Seq(Nat)
         /\ Len(Switch!Upto(n)) = n
         /\ Append(Switch!Upto(n), n + 1) = Switch!Upto(n + 1)
         /\ Switch!Upto(n) \o <<n + 1>> = Switch!Upto(n + 1)
         /\ Switch!Upto(n) \o <<>> = Switch!Upto(n)
         /\ <<>> \o Switch!Upto(n) = Switch!Upto(n)
BY DEF Switch!Upto

LEMMA UptoZero == Switch!Upto(0) = <<>>
BY DEF Switch!Upto

-----------------------------------------------------------------------------
(* Types *)

(* Whatever becomes of what is sent, the socket and the streams keep their *)
(* types.                                                                  *)
LEMMA SendTypes ==
  ASSUME TypeOK, NEW c \in Conns, NEW chunks \in Seq(Nat), Send(c, chunks)
  PROVE  /\ status'    \in [Conns -> {"new", "up", "lost"}]
         /\ socket'    \in [Conns -> {"none", "open", "eof", "closed"}]
         /\ stuck'     \in Conns \cup {NoConn}
         /\ outgoing'  \in Seq(Nat)
         /\ backendIn' \in [Conns -> Seq(Nat)]
<1>1. backendIn[c] \o chunks \in Seq(Nat)
  <2>1. backendIn[c] \in Seq(Nat)
    BY DEF TypeOK
  <2>2. QED
    BY <2>1
<1>2. [backendIn EXCEPT ![c] = @ \o chunks] \in [Conns -> Seq(Nat)]
  BY <1>1 DEF TypeOK
<1>3. backendIn' \in [Conns -> Seq(Nat)]
  BY <1>2 DEF TypeOK, Send, sendVars
<1>4. status' \in [Conns -> {"new", "up", "lost"}]
  BY DEF TypeOK, Send, DropClient
<1>5. socket' \in [Conns -> {"none", "open", "eof", "closed"}]
  <2>1. socket' = socket \/ socket' = [socket EXCEPT ![c] = "closed"]
    BY DEF Send, DropClient, CloseBackend
  <2>2. QED
    BY <2>1 DEF TypeOK
<1>6. stuck' \in Conns \cup {NoConn} /\ outgoing' \in Seq(Nat)
  BY DEF TypeOK, Send, sendVars
<1>7. QED
  BY <1>3, <1>4, <1>5, <1>6

(* One more chunk of a connection is read.                                 *)
LEMMA TakeTypes ==
  ASSUME TypeOK, NEW c \in Conns, TakeChunk(c)
  PROVE  /\ nread' \in [Conns -> Nat]
         /\ nread[c] + 1 \in Nat
         /\ Collected(c) \in Seq(Nat)
         /\ UNCHANGED <<sent, loop, queue, pending, replied, clientIn>>
<1>1. nread[c] + 1 \in Nat /\ buffer[c] \in Seq(Nat)
  BY DEF TypeOK
<1>2. QED
  BY <1>1 DEF TypeOK, TakeChunk, Collected, loopVars, replyVars

(* Every handler and every step of a receive loop keeps the types.         *)
LEMMA TypeStep == TypeOK /\ [Next]_vars => TypeOK'
<1> SUFFICES ASSUME TypeOK, [Next]_vars PROVE TypeOK'
  OBVIOUS
<1>1. CASE StartLoop
  <2>1. Head(queue) \in Conns /\ queue' \in Seq(Conns)
    BY <1>1 DEF StartLoop, TypeOK
  <2>2. loop' \in [Conns -> {"none", "queued", "recv", "writing", "done"}]
    BY <1>1, <2>1 DEF StartLoop, TypeOK
  <2>3. QED
    BY <1>1, <2>1, <2>2 DEF StartLoop, TypeOK, bufferVars, sendVars, replyVars
<1>2. ASSUME NEW c \in Conns, ConnectionMade(c) PROVE TypeOK'
  <2>1. queue' \in Seq(Conns)
    BY <1>2 DEF ConnectionMade, TypeOK
  <2>2. /\ status' \in [Conns -> {"new", "up", "lost"}]
        /\ state'  \in [Conns -> {"UNDECIDED", "FORWARDING", "PASSTHROUGH"}]
        /\ socket' \in [Conns -> {"none", "open", "eof", "closed"}]
        /\ loop'   \in [Conns -> {"none", "queued", "recv", "writing", "done"}]
    BY <1>2 DEF ConnectionMade, TypeOK
  <2>3. buffer' \in [Conns -> Seq(Nat)]
    BY <1>2 DEF ConnectionMade, TypeOK
  <2>4. UNCHANGED <<sent, nread, sendVars, replyVars, defaultIn>>
    BY <1>2 DEF ConnectionMade
  <2>5. QED
    BY <2>1, <2>2, <2>3, <2>4 DEF TypeOK, sendVars, replyVars
<1>3. ASSUME NEW c \in Conns, BackendRefuses(c) PROVE TypeOK'
  BY <1>3 DEF BackendRefuses, TypeOK, bufferVars, sendVars, loopVars, replyVars
<1>4. ASSUME NEW c \in Conns, DataPassedThrough(c) PROVE TypeOK'
  <2>1. TakeChunk(c) /\ UNCHANGED <<status, socket, state, buffer, sendVars>>
    BY <1>4 DEF DataPassedThrough
  <2>2. defaultIn' \in [Conns -> Seq(Nat)]
    <3>1. defaultIn[c] \in Seq(Nat) /\ nread[c] + 1 \in Nat
      BY DEF TypeOK
    <3>2. Append(defaultIn[c], nread[c] + 1) \in Seq(Nat)
      BY <3>1
    <3>3. QED
      BY <1>4, <3>2 DEF DataPassedThrough, TypeOK
  <2>3. QED
    BY <2>1, <2>2, TakeTypes DEF TypeOK, sendVars
<1>5. ASSUME NEW c \in Conns, DataForwarded(c) PROVE TypeOK'
  <2>1. TakeChunk(c) /\ UNCHANGED <<state, buffer, defaultIn>>
    BY <1>5 DEF DataForwarded
  <2>2. <<nread[c] + 1>> \in Seq(Nat)
    BY <2>1, TakeTypes
  <2>3. Send(c, <<nread[c] + 1>>)
    BY <1>5 DEF DataForwarded
  <2>4. QED
    BY <2>1, <2>2, <2>3, SendTypes, TakeTypes DEF TypeOK
<1>6. ASSUME NEW c \in Conns, DataHeld(c) PROVE TypeOK'
  <2>1. TakeChunk(c) /\ UNCHANGED <<status, socket, state, sendVars, defaultIn>>
    BY <1>6 DEF DataHeld
  <2>2. buffer' \in [Conns -> Seq(Nat)]
    BY <1>6, <2>1, TakeTypes DEF DataHeld, TypeOK
  <2>3. QED
    BY <2>1, <2>2, TakeTypes DEF TypeOK, sendVars
<1>7. ASSUME NEW c \in Conns, HeadersSeen(c)
      PROVE  /\ TakeChunk(c) /\ Collected(c) \in Seq(Nat)
             /\ buffer' \in [Conns -> Seq(Nat)]
  BY <1>7, TakeTypes DEF HeadersSeen, TypeOK
<1>8. ASSUME NEW c \in Conns, DataMatched(c) PROVE TypeOK'
  <2>1. HeadersSeen(c) /\ Send(c, Collected(c)) /\ UNCHANGED defaultIn
    BY <1>8 DEF DataMatched
  <2>2. state' \in [Conns -> {"UNDECIDED", "FORWARDING", "PASSTHROUGH"}]
    BY <1>8 DEF DataMatched, TypeOK
  <2>3. QED
    BY <2>1, <2>2, <1>7, SendTypes, TakeTypes DEF TypeOK
<1>9. ASSUME NEW c \in Conns, DataNotMatched(c) PROVE TypeOK'
  <2>1. HeadersSeen(c) /\ UNCHANGED <<status, socket, sendVars>>
    BY <1>9 DEF DataNotMatched
  <2>2. state' \in [Conns -> {"UNDECIDED", "FORWARDING", "PASSTHROUGH"}]
    BY <1>9 DEF DataNotMatched, TypeOK
  <2>3. defaultIn' \in [Conns -> Seq(Nat)]
    <3>1. defaultIn[c] \in Seq(Nat) /\ Collected(c) \in Seq(Nat)
      BY <2>1, <1>7 DEF TypeOK
    <3>2. defaultIn[c] \o Collected(c) \in Seq(Nat)
      BY <3>1
    <3>3. QED
      BY <1>9, <3>2 DEF DataNotMatched, TypeOK
  <2>4. QED
    BY <2>1, <2>2, <2>3, <1>7, TakeTypes DEF TypeOK, sendVars
<1>10. ASSUME NEW c \in Conns, MatcherRaises(c) PROVE TypeOK'
  <2>1. HeadersSeen(c) /\ UNCHANGED <<state, sendVars, defaultIn>>
    BY <1>10 DEF MatcherRaises
  <2>2. /\ status' \in [Conns -> {"new", "up", "lost"}]
        /\ socket' \in [Conns -> {"none", "open", "eof", "closed"}]
    BY <1>10 DEF MatcherRaises, DropClient, CloseBackend, TypeOK
  <2>3. QED
    BY <2>1, <2>2, <1>7, TakeTypes DEF TypeOK, sendVars
<1>11. ASSUME NEW c \in Conns, SendDone(c) PROVE TypeOK'
  <2>1. backendIn' \in [Conns -> Seq(Nat)]
    <3>1. backendIn[c] \in Seq(Nat) /\ outgoing \in Seq(Nat)
      BY DEF TypeOK
    <3>2. backendIn[c] \o outgoing \in Seq(Nat)
      BY <3>1
    <3>3. QED
      BY <1>11, <3>2 DEF SendDone, TypeOK
  <2>2. stuck' \in Conns \cup {NoConn} /\ outgoing' \in Seq(Nat)
    BY <1>11 DEF SendDone
  <2>3. UNCHANGED <<sent, status, socket, bufferVars, loopVars, replyVars, defaultIn>>
    BY <1>11 DEF SendDone
  <2>4. QED
    BY <2>1, <2>2, <2>3 DEF TypeOK, bufferVars, loopVars, replyVars
<1>12. ASSUME NEW c \in Conns, SendFails(c) PROVE TypeOK'
  BY <1>12 DEF SendFails, DropClient, CloseBackend, TypeOK, bufferVars, loopVars,
               replyVars
<1>13. ASSUME NEW c \in Conns, ConnectionLost(c) PROVE TypeOK'
  BY <1>13 DEF ConnectionLost, DropClient, CloseBackend, TypeOK, bufferVars, sendVars,
               loopVars, replyVars
<1>14. ASSUME NEW c \in Conns, RecvData(c) PROVE TypeOK'
  <2>1. pending' \in [Conns -> 0..SockCap]
    BY <1>14, H2Assumption DEF RecvData, TypeOK
  <2>2. QED
    BY <1>14, <2>1 DEF RecvData, TypeOK, bufferVars, sendVars
<1>15. ASSUME NEW c \in Conns, RecvEnds(c) PROVE TypeOK'
  BY <1>15 DEF RecvEnds, TypeOK, bufferVars, sendVars, replyVars
<1>16. ASSUME NEW c \in Conns, WriteClient(c) PROVE TypeOK'
  <2>1. clientIn' \in [Conns -> Seq({"backend", "default"})]
    BY <1>16 DEF WriteClient, TypeOK
  <2>2. loop' \in [Conns -> {"none", "queued", "recv", "writing", "done"}]
    BY <1>16 DEF WriteClient, TypeOK
  <2>3. UNCHANGED <<sent, status, socket, bufferVars, sendVars, queue, pending,
                    replied, defaultIn>>
    BY <1>16 DEF WriteClient
  <2>4. QED
    BY <2>1, <2>2, <2>3 DEF TypeOK, bufferVars, sendVars
<1>17. ASSUME NEW c \in Conns, ClientSend(c) PROVE TypeOK'
  <2>1. sent' \in [Conns -> Seq(Kinds)]
    BY <1>17 DEF ClientSend, TypeOK
  <2>2. UNCHANGED <<status, socket, bufferVars, sendVars, loopVars, replyVars, defaultIn>>
    BY <1>17 DEF ClientSend
  <2>3. QED
    BY <2>1, <2>2 DEF TypeOK, bufferVars, sendVars, loopVars, replyVars
<1>18. ASSUME NEW c \in Conns, DefaultReply(c) PROVE TypeOK'
  <2>1. clientIn' \in [Conns -> Seq({"backend", "default"})]
    BY <1>18 DEF DefaultReply, TypeOK
  <2>2. UNCHANGED <<sent, status, socket, bufferVars, sendVars, loopVars, pending,
                    replied, defaultIn>>
    BY <1>18 DEF DefaultReply
  <2>3. QED
    BY <2>1, <2>2 DEF TypeOK, bufferVars, sendVars, loopVars
<1>19. ASSUME NEW c \in Conns, BackendReply(c) PROVE TypeOK'
  <2>1. pending' \in [Conns -> 0..SockCap] /\ replied' \in [Conns -> Nat]
    BY <1>19, H2Assumption DEF BackendReply, TypeOK
  <2>2. UNCHANGED <<sent, status, socket, bufferVars, sendVars, loopVars, clientIn,
                    defaultIn>>
    BY <1>19 DEF BackendReply
  <2>3. QED
    BY <2>1, <2>2 DEF TypeOK, bufferVars, sendVars, loopVars
<1>20. ASSUME NEW c \in Conns, BackendHangsUp(c) PROVE TypeOK'
  BY <1>20 DEF BackendHangsUp, TypeOK, bufferVars, sendVars, loopVars, replyVars
<1>21. CASE UNCHANGED vars
  BY <1>21 DEF vars, TypeOK, bufferVars, sendVars, loopVars, replyVars
<1>22. QED
  BY <1>1, <1>2, <1>3, <1>4, <1>5, <1>6, <1>8, <1>9, <1>10, <1>11, <1>12, <1>13,
     <1>14, <1>15, <1>16, <1>17, <1>18, <1>19, <1>20, <1>21
     DEF Next, Reactor, DataReceived, Pool, Environment

(* The proxy's state keeps its shape, and a backend's socket never holds   *)
(* more than it has room for: a write is held back, a read makes room.     *)
THEOREM H2TypeCorrect == Spec => []TypeOK
<1>1. Init => TypeOK
  BY H2Assumption DEF Init, TypeOK
<1>2. QED
  BY <1>1, TypeStep, PTL DEF Spec

-----------------------------------------------------------------------------
(* Streams through the proxy *)

(***************************************************************************)
(* Where the bytes of one connection are.  Before the decision they are in *)
(* the buffer and nobody has any; the default handler is given all of them *)
(* at once.  The backend is given a prefix: all that was read while its    *)
(* socket is open, less what a blocked sendall holds; when it has hung up  *)
(* the rest is lost, and as its socket never opens again what it has stays *)
(* a prefix.                                                               *)
(***************************************************************************)
StreamOf(d) ==
  /\ status[d] = "new" => /\ socket[d] = "none" /\ state[d] = "UNDECIDED"
                          /\ nread[d] = 0
  /\ status[d] = "up" => socket[d] \in {"open", "eof"}
  /\ status[d] = "lost" => socket[d] \in {"none", "closed"}
  /\ stuck = d => status[d] = "up" /\ state[d] = "FORWARDING"
  /\ state[d] # "PASSTHROUGH" => defaultIn[d] = <<>>
  /\ state[d] # "FORWARDING" => backendIn[d] = <<>>
  /\ state[d] = "UNDECIDED" /\ status[d] = "up" => buffer[d] = Switch!Upto(nread[d])
  /\ state[d] = "PASSTHROUGH" => defaultIn[d] = Switch!Upto(nread[d])
  /\ state[d] = "FORWARDING" =>
       /\ \E k \in 0..nread[d] : backendIn[d] = Switch!Upto(k)
       /\ socket[d] = "open" =>
            (IF stuck = d THEN backendIn[d] \o outgoing ELSE backendIn[d])
              = Switch!Upto(nread[d])

StreamInv == \A d \in Conns : StreamOf(d)

(* What StreamOf(d) reads of the state.                                    *)
ConnState(d) ==
  <<status[d], socket[d], state[d], nread[d], buffer[d], defaultIn[d], backendIn[d]>>

(* A step that leaves a connection, and what is being sent for it, alone.  *)
Spares(d) ==
  /\ ConnState(d)' = ConnState(d)
  /\ stuck = d => stuck' = d /\ outgoing' = outgoing
  /\ stuck # d => stuck' # d

(* Such a step leaves the stream of the connection alone.                  *)
LEMMA StreamFrame ==
  ASSUME NEW d \in Conns, StreamOf(d), Spares(d)
  PROVE  StreamOf(d)'
BY DEF StreamOf, Spares, ConnState

(* What is sent while the socket is open brings the backend level with the *)
(* reads, at once or when the blocked sendall is through; what is sent     *)
(* after the backend has hung up is lost.                                  *)
LEMMA SendStream ==
  ASSUME TypeOK, NEW c \in Conns, NEW chunks, NEW n \in Nat, NEW k \in 0..n,
         status[c] = "up", stuck = NoConn,
         backendIn[c] = Switch!Upto(k),
         socket[c] = "open" => backendIn[c] \o chunks = Switch!Upto(n + 1),
         nread'[c] = n + 1, state'[c] = "FORWARDING", defaultIn'[c] = <<>>,
         Send(c, chunks)
  PROVE  StreamOf(c)'
<1>1. n + 1 \in 0..(n + 1) /\ k \in 0..(n + 1)
  OBVIOUS
<1>2. stuck # c
  BY H2Assumption
<1>3. CASE socket[c] = "open" /\ backendIn' = [backendIn EXCEPT ![c] = @ \o chunks]
           /\ UNCHANGED <<stuck, outgoing, status, socket>>
  <2>1. backendIn'[c] = Switch!Upto(n + 1)
    BY <1>3 DEF TypeOK
  <2>2. QED
    BY <1>1, <1>2, <1>3, <2>1 DEF StreamOf
<1>4. CASE socket[c] = "open" /\ stuck' = c /\ outgoing' = chunks
           /\ UNCHANGED <<backendIn, status, socket>>
  BY <1>1, <1>4 DEF StreamOf
<1>5. CASE socket[c] = "eof" /\ UNCHANGED <<sendVars, status, socket>>
  BY <1>1, <1>2, <1>5 DEF StreamOf, sendVars
<1>6. CASE DropClient(c) /\ UNCHANGED sendVars
  <2>1. status'[c] = "lost" /\ socket'[c] = "closed"
    BY <1>6 DEF DropClient, CloseBackend, TypeOK
  <2>2. QED
    BY <1>1, <1>2, <1>6, <2>1 DEF StreamOf, sendVars
<1>7. QED
  BY <1>3, <1>4, <1>5, <1>6 DEF Send

(* Every step of a connection keeps its stream whole.                      *)
LEMMA StreamStep ==
  ASSUME TypeOK, NEW c \in Conns, StreamOf(c),
         Reactor(c) \/ Pool(c) \/ Environment(c)
  PROVE  StreamOf(c)'
<1> DEFINE n == nread[c]
<1>n. n \in Nat /\ n + 1 \in Nat
  BY DEF TypeOK
<1>u. /\ Switch!Upto(n) \in Seq(Nat)
      /\ Append(Switch!Upto(n), n + 1) = Switch!Upto(n + 1)
      /\ Switch!Upto(n) \o <<n + 1>> = Switch!Upto(n + 1)
      /\ Switch!Upto(n) \o <<>> = Switch!Upto(n)
      /\ <<>> \o Switch!Upto(n) = Switch!Upto(n)
      /\ <<>> \o Switch!Upto(n + 1) = Switch!Upto(n + 1)
      /\ Switch!Upto(0) = <<>>
  BY <1>n, UptoFacts, UptoZero
<1> HIDE DEF n
<1>t. ASSUME TakeChunk(c)
      PROVE  /\ stuck = NoConn /\ stuck # c /\ status[c] = "up"
             /\ nread'[c] = n + 1
             /\ Collected(c) = Append(buffer[c], n + 1)
  BY <1>t, H2Assumption DEF TakeChunk, ReactorFree, Collected, n, TypeOK
<1>1. CASE ConnectionMade(c)
  <2>1. /\ status[c] = "new" /\ stuck # c
        /\ status'[c] = "up" /\ socket'[c] = "open" /\ state'[c] = "UNDECIDED"
        /\ buffer'[c] = <<>>
        /\ UNCHANGED <<nread, stuck, defaultIn, backendIn>>
    BY <1>1, H2Assumption DEF ConnectionMade, ReactorFree, sendVars, TypeOK
  <2>2. nread[c] = 0 /\ defaultIn[c] = <<>> /\ backendIn[c] = <<>>
    BY <2>1 DEF StreamOf
  <2>3. QED
    BY <2>1, <2>2, <1>u DEF StreamOf
<1>2. CASE BackendRefuses(c)
  <2>1. /\ status[c] = "new" /\ stuck # c /\ status'[c] = "lost"
        /\ UNCHANGED <<socket, state, nread, buffer, stuck, outgoing, defaultIn,
                       backendIn>>
    BY <1>2, H2Assumption DEF BackendRefuses, ReactorFree, sendVars, bufferVars, TypeOK
  <2>2. QED
    BY <2>1 DEF StreamOf
<1>3. CASE DataPassedThrough(c)
  <2>1. /\ TakeChunk(c) /\ state[c] = "PASSTHROUGH"
        /\ defaultIn'[c] = Append(defaultIn[c], n + 1)
        /\ UNCHANGED <<status, socket, state, stuck, backendIn>>
    BY <1>3 DEF DataPassedThrough, sendVars, n, TypeOK
  <2>2. defaultIn'[c] = Switch!Upto(n + 1)
    BY <2>1, <1>u DEF StreamOf, n
  <2>3. QED
    BY <2>1, <2>2, <1>t DEF StreamOf
<1>4. CASE DataForwarded(c)
  <2>1. /\ TakeChunk(c) /\ state[c] = "FORWARDING"
        /\ Send(c, <<n + 1>>) /\ UNCHANGED <<state, defaultIn>>
    BY <1>4 DEF DataForwarded, n
  <2>2. PICK k \in 0..n : backendIn[c] = Switch!Upto(k)
    BY <2>1 DEF StreamOf, n
  <2>3. socket[c] = "open" => backendIn[c] \o <<n + 1>> = Switch!Upto(n + 1)
    BY <2>1, <1>t, <1>u DEF StreamOf, n
  <2>4. state'[c] = "FORWARDING" /\ defaultIn'[c] = <<>>
    BY <2>1 DEF StreamOf
  <2>5. QED
    BY <2>1, <2>2, <2>3, <2>4, <1>n, <1>t, SendStream
<1>5. CASE DataHeld(c)
  <2>1. /\ TakeChunk(c) /\ state[c] = "UNDECIDED" /\ buffer'[c] = Collected(c)
        /\ UNCHANGED <<status, socket, state, stuck, defaultIn, backendIn>>
    BY <1>5 DEF DataHeld, sendVars, TypeOK
  <2>2. buffer'[c] = Switch!Upto(n + 1)
    BY <2>1, <1>t, <1>u DEF StreamOf, n
  <2>3. QED
    BY <2>1, <2>2, <1>t DEF StreamOf
<1>6. ASSUME HeadersSeen(c)
      PROVE  /\ TakeChunk(c) /\ state[c] = "UNDECIDED"
             /\ Collected(c) = Switch!Upto(n + 1)
             /\ defaultIn[c] = <<>> /\ backendIn[c] = <<>>
  <2>1. TakeChunk(c) /\ state[c] = "UNDECIDED"
    BY <1>6 DEF HeadersSeen
  <2>2. QED
    BY <2>1, <1>t, <1>u DEF StreamOf, n
<1>7. CASE DataMatched(c)
  <2>1. /\ HeadersSeen(c) /\ Send(c, Collected(c)) /\ UNCHANGED defaultIn
        /\ state'[c] = "FORWARDING"
    BY <1>7 DEF DataMatched, TypeOK
  <2>2. backendIn[c] = Switch!Upto(0) /\ 0 \in 0..n /\ defaultIn'[c] = <<>>
    BY <2>1, <1>6, <1>u, <1>n
  <2>3. backendIn[c] \o Collected(c) = Switch!Upto(n + 1)
    BY <2>1, <1>6, <1>u
  <2>4. QED
    BY <2>1, <2>2, <2>3, <1>n, <1>6, <1>t, SendStream
<1>8. CASE DataNotMatched(c)
  <2>1. /\ HeadersSeen(c) /\ state'[c] = "PASSTHROUGH"
        /\ defaultIn'[c] = defaultIn[c] \o Collected(c)
        /\ UNCHANGED <<status, socket, stuck, backendIn>>
    BY <1>8 DEF DataNotMatched, sendVars, TypeOK
  <2>2. defaultIn'[c] = Switch!Upto(n + 1)
    BY <2>1, <1>6, <1>u
  <2>3. QED
    BY <2>1, <2>2, <1>6, <1>t DEF StreamOf
<1>9. CASE MatcherRaises(c)
  <2>1. /\ HeadersSeen(c) /\ status'[c] = "lost" /\ socket'[c] = "closed"
        /\ UNCHANGED <<state, stuck, defaultIn, backendIn>>
    BY <1>9 DEF MatcherRaises, DropClient, CloseBackend, sendVars, TypeOK
  <2>2. QED
    BY <2>1, <1>6, <1>t DEF StreamOf
<1>10. CASE SendDone(c)
  <2>1. /\ stuck = c /\ socket[c] = "open" /\ stuck' = NoConn /\ stuck' # c
        /\ backendIn'[c] = backendIn[c] \o outgoing
        /\ UNCHANGED <<status, socket, state, nread, defaultIn>>
    BY <1>10, H2Assumption DEF SendDone, bufferVars, TypeOK
  <2>2. state[c] = "FORWARDING" /\ backendIn'[c] = Switch!Upto(n) /\ n \in 0..n
    BY <2>1, <1>n DEF StreamOf, n
  <2>3. QED
    BY <2>1, <2>2 DEF StreamOf, n
<1>11. CASE SendFails(c)
  <2>1. /\ stuck = c /\ stuck' # c /\ status'[c] = "lost" /\ socket'[c] = "closed"
        /\ UNCHANGED <<state, nread, defaultIn, backendIn>>
    BY <1>11, H2Assumption DEF SendFails, DropClient, CloseBackend, bufferVars, TypeOK
  <2>2. QED
    BY <2>1 DEF StreamOf
<1>12. CASE ConnectionLost(c)
  <2>1. /\ stuck # c /\ status[c] = "up" /\ status'[c] = "lost"
        /\ socket'[c] = "closed"
        /\ UNCHANGED <<state, nread, stuck, defaultIn, backendIn>>
    BY <1>12, H2Assumption
       DEF ConnectionLost, ReactorFree, DropClient, CloseBackend, sendVars, bufferVars,
           TypeOK
  <2>2. QED
    BY <2>1 DEF StreamOf
<1>13. CASE BackendHangsUp(c)
  <2>1. /\ socket[c] = "open" /\ socket'[c] = "eof"
        /\ UNCHANGED <<status, state, nread, buffer, stuck, outgoing, defaultIn,
                       backendIn>>
    BY <1>13 DEF BackendHangsUp, sendVars, bufferVars, TypeOK
  <2>2. QED
    BY <2>1 DEF StreamOf
<1>14. CASE Pool(c) \/ ClientSend(c) \/ DefaultReply(c) \/ BackendReply(c)
  <2>1. Spares(c)
    BY <1>14 DEF Pool, RecvData, WriteClient, RecvEnds, ClientSend, DefaultReply,
                 BackendReply, Spares, ConnState, bufferVars, sendVars
  <2>2. QED
    BY <2>1, StreamFrame
<1>15. QED
  BY <1>1, <1>2, <1>3, <1>4, <1>5, <1>7, <1>8, <1>9, <1>10, <1>11, <1>12, <1>13,
     <1>14 DEF Reactor, DataReceived, Environment

(* A step of one connection spares the others: the reactor has one thread, *)
(* so a sendall that blocks it is the only one.                            *)
LEMMA OtherConns ==
  ASSUME TypeOK, NEW c \in Conns, NEW d \in Conns \ {c},
         Reactor(c) \/ Pool(c) \/ Environment(c)
  PROVE  Spares(d)
<1> USE DEF Spares, ConnState
<1>1. CASE ConnectionMade(c)
  BY <1>1 DEF ConnectionMade, TypeOK, sendVars
<1>2. CASE BackendRefuses(c)
  BY <1>2 DEF BackendRefuses, TypeOK, bufferVars, sendVars
<1>3. CASE DataPassedThrough(c)
  BY <1>3 DEF DataPassedThrough, TakeChunk, TypeOK, sendVars
<1>4. ASSUME NEW chunks, Send(c, chunks), ReactorFree
      PROVE  /\ status'[d] = status[d] /\ socket'[d] = socket[d]
             /\ backendIn'[d] = backendIn[d]
             /\ stuck # d /\ stuck' # d
  BY <1>4, H2Assumption DEF Send, ReactorFree, DropClient, CloseBackend, TypeOK, sendVars
<1>5. CASE DataForwarded(c)
  <2>1. Send(c, <<nread[c] + 1>>) /\ ReactorFree
    BY <1>5 DEF DataForwarded, TakeChunk
  <2>2. QED
    BY <1>4, <1>5, <2>1 DEF DataForwarded, TakeChunk, TypeOK
<1>6. CASE DataHeld(c)
  BY <1>6 DEF DataHeld, TakeChunk, TypeOK, sendVars
<1>7. CASE DataMatched(c)
  <2>1. Send(c, Collected(c)) /\ ReactorFree
    BY <1>7 DEF DataMatched, HeadersSeen, TakeChunk
  <2>2. QED
    BY <1>4, <1>7, <2>1 DEF DataMatched, HeadersSeen, TakeChunk, TypeOK
<1>8. CASE DataNotMatched(c)
  BY <1>8 DEF DataNotMatched, HeadersSeen, TakeChunk, TypeOK, sendVars
<1>9. CASE MatcherRaises(c)
  BY <1>9 DEF MatcherRaises, HeadersSeen, TakeChunk, DropClient, CloseBackend, TypeOK,
              sendVars
<1>10. CASE SendDone(c)
  BY <1>10, H2Assumption DEF SendDone, TypeOK, bufferVars
<1>11. CASE SendFails(c)
  BY <1>11, H2Assumption DEF SendFails, DropClient, CloseBackend, TypeOK, bufferVars
<1>12. CASE ConnectionLost(c)
  BY <1>12 DEF ConnectionLost, DropClient, CloseBackend, TypeOK, bufferVars, sendVars
<1>13. CASE Pool(c)
  BY <1>13 DEF Pool, RecvData, WriteClient, RecvEnds, bufferVars, sendVars
<1>14. CASE Environment(c)
  BY <1>14 DEF Environment, ClientSend, DefaultReply, BackendReply, BackendHangsUp,
               TypeOK, bufferVars, sendVars
<1>15. QED
  BY <1>1, <1>2, <1>3, <1>5, <1>6, <1>7, <1>8, <1>9, <1>10, <1>11, <1>12, <1>13,
     <1>14 DEF Reactor, DataReceived

(* The streams stay whole: what is buffered, held by a blocked sendall or  *)
(* given to a consumer is what was read, in order, and what is missing at  *)
(* the end is what a backend that hung up did not take.                    *)
THEOREM H2StreamCorrect == Spec => []StreamInv
<1>1. Init => StreamInv
  <2> SUFFICES ASSUME Init, NEW d \in Conns PROVE StreamOf(d)
    BY DEF StreamInv
  <2>1. QED
    BY H2Assumption DEF Init, StreamOf
<1>2. TypeOK /\ StreamInv /\ [Next]_vars => StreamInv'
  <2> SUFFICES ASSUME TypeOK, StreamInv, [Next]_vars, NEW d \in Conns
               PROVE  StreamOf(d)'
    BY DEF StreamInv
  <2>1. StreamOf(d)
    BY DEF StreamInv
  <2>2. CASE StartLoop
    BY <2>1, <2>2, StreamFrame DEF StartLoop, Spares, ConnState, bufferVars, sendVars
  <2>3. ASSUME NEW c \in Conns, Reactor(c) \/ Pool(c) \/ Environment(c)
        PROVE  StreamOf(d)'
    <3>1. CASE c = d
      BY <2>1, <2>3, <3>1, StreamStep
    <3>2. CASE c # d
      BY <2>1, <2>3, <3>2, OtherConns, StreamFrame
    <3>3. QED
      BY <3>1, <3>2
  <2>4. CASE UNCHANGED vars
    BY <2>1, <2>4, StreamFrame DEF vars, Spares, ConnState, bufferVars, sendVars
  <2>5. QED
    BY <2>2, <2>3, <2>4 DEF Next
<1>3. QED
  BY <1>1, <1>2, H2TypeCorrect, PTL DEF Spec

-----------------------------------------------------------------------------
(* The thread pool *)

(***************************************************************************)
(* The receive loops that wait for a thread are the queue, each once: none *)
(* is forgotten, none is started twice, and the pool is never overcommitted*)
(* although a thread goes back to it only when its loop ends.              *)
(***************************************************************************)
PoolInv ==
  /\ \A i, j \in 1..Len(queue) : queue[i] = queue[j] => i = j
  /\ \A c \in Conns : loop[c] = "queued" <=> \E i \in 1..Len(queue) : queue[i] = c
  /\ \A c \in Conns : status[c] = "new" => loop[c] = "none"
  /\ IsFiniteSet(Busy) /\ Cardinality(Busy) <= PoolSize

(* Loops that give their threads back leave the pool within its size.      *)
LEMMA BusyShrinks ==
  ASSUME PoolInv, Busy' \subseteq Busy
  PROVE  IsFiniteSet(Busy') /\ Cardinality(Busy') <= PoolSize
<1>1. IsFiniteSet(Busy) /\ Cardinality(Busy) <= PoolSize /\ PoolSize \in Nat
  BY H2Assumption DEF PoolInv
<1>2. IsFiniteSet(Busy') /\ Cardinality(Busy') <= Cardinality(Busy)
  BY <1>1, FS_Subset
<1>3. Cardinality(Busy) \in Nat /\ Cardinality(Busy') \in Nat
  BY <1>1, <1>2, FS_CardinalityType
<1>4. QED
  BY <1>1, <1>2, <1>3

LEMMA PoolStep == TypeOK /\ PoolInv /\ [Next]_vars => PoolInv'
<1> SUFFICES ASSUME TypeOK, PoolInv, [Next]_vars PROVE PoolInv'
  OBVIOUS
<1>1. CASE StartLoop
  <2> DEFINE h == Head(queue)
  <2>1. /\ queue \in Seq(Conns) /\ queue # <<>> /\ queue' = Tail(queue)
        /\ loop' = [loop EXCEPT ![h] = "recv"] /\ status' = status
    BY <1>1 DEF StartLoop, TypeOK
  <2>2. /\ h = queue[1] /\ h \in Conns /\ 1 \in 1..Len(queue)
        /\ Len(queue') = Len(queue) - 1
        /\ \A i \in 1..Len(queue') : queue'[i] = queue[i + 1] /\ i + 1 \in 1..Len(queue)
    BY <2>1
  <2> HIDE DEF h
  <2>3. loop[h] = "queued"
    BY <2>2 DEF PoolInv
  <2>4. \A c \in Conns : loop'[c] = IF c = h THEN "recv" ELSE loop[c]
    BY <2>1 DEF TypeOK
  <2>5. \A i, j \in 1..Len(queue') : queue'[i] = queue'[j] => i = j
    <3>1. SUFFICES ASSUME NEW i \in 1..Len(queue'), NEW j \in 1..Len(queue'),
                          queue'[i] = queue'[j]
                   PROVE  i = j
      OBVIOUS
    <3>2. i + 1 = j + 1
      BY <2>2, <3>1 DEF PoolInv
    <3>3. QED
      BY <3>2
  <2>6. ASSUME NEW c \in Conns
        PROVE  loop'[c] = "queued" <=> \E i \in 1..Len(queue') : queue'[i] = c
    <3>1. CASE c = h
      <4>1. ASSUME NEW i \in 1..Len(queue'), queue'[i] = c PROVE FALSE
        <5>1. queue[i + 1] = queue[1] /\ i + 1 \in 1..Len(queue)
          BY <2>2, <3>1, <4>1
        <5>2. i + 1 = 1
          BY <2>2, <5>1 DEF PoolInv
        <5>3. QED
          BY <5>2
      <4>2. QED
        BY <2>4, <3>1, <4>1
    <3>2. CASE c # h
      <4>1. ASSUME NEW i \in 1..Len(queue), queue[i] = c
            PROVE  \E j \in 1..Len(queue') : queue'[j] = c
        <5>1. i # 1
          BY <2>2, <3>2, <4>1
        <5>2. i - 1 \in 1..Len(queue') /\ (i - 1) + 1 = i
          BY <2>2, <5>1
        <5>3. queue'[i - 1] = c
          BY <2>2, <4>1, <5>2
        <5>4. QED
          BY <5>2, <5>3
      <4>2. ASSUME NEW j \in 1..Len(queue'), queue'[j] = c
            PROVE  \E i \in 1..Len(queue) : queue[i] = c
        BY <2>2, <4>2
      <4>3. QED
        BY <2>4, <3>2, <4>1, <4>2 DEF PoolInv
    <3>3. QED
      BY <3>1, <3>2
  <2>7. Busy' = Busy \cup {h}
    BY <2>2, <2>4 DEF Busy
  <2>8. IsFiniteSet(Busy') /\ Cardinality(Busy') <= PoolSize
    <3>1. h \notin Busy
      BY <2>3 DEF Busy
    <3>2. IsFiniteSet(Busy) /\ Cardinality(Busy) \in Nat /\ Cardinality(Busy) < PoolSize
      BY <1>1, FS_CardinalityType DEF PoolInv, StartLoop
    <3>3. IsFiniteSet(Busy \cup {h}) /\ Cardinality(Busy \cup {h}) = Cardinality(Busy) + 1
      BY <3>1, <3>2, FS_AddElement
    <3>4. PoolSize \in Nat
      BY H2Assumption
    <3>5. QED
      BY <2>7, <3>2, <3>3, <3>4
  <2>9. \A c \in Conns : status'[c] = "new" => loop'[c] = "none"
    BY <2>1, <2>3, <2>4 DEF PoolInv
  <2>10. QED
    BY <2>5, <2>6, <2>8, <2>9 DEF PoolInv
<1>2. ASSUME NEW c \in Conns, ConnectionMade(c) PROVE PoolInv'
  <2>1. /\ loop[c] = "none" /\ queue \in Seq(Conns)
        /\ loop' = [loop EXCEPT ![c] = "queued"] /\ queue' = Append(queue, c)
        /\ status' = [status EXCEPT ![c] = "up"]
    BY <1>2 DEF ConnectionMade, PoolInv, TypeOK
  <2>2. /\ Len(queue) \in Nat /\ Len(queue') = Len(queue) + 1
        /\ \A i \in 1..Len(queue) : queue'[i] = queue[i]
        /\ queue'[Len(queue) + 1] = c
    BY <2>1
  <2>3. \A i \in 1..Len(queue) : queue[i] # c
    BY <2>1 DEF PoolInv
  <2>4. \A d \in Conns : /\ loop'[d] = IF d = c THEN "queued" ELSE loop[d]
                         /\ status'[d] = IF d = c THEN "up" ELSE status[d]
    BY <2>1 DEF TypeOK
  <2>5. 1..Len(queue') = (1..Len(queue)) \cup {Len(queue) + 1}
    BY <2>2
  <2>6. \A i, j \in 1..Len(queue') : queue'[i] = queue'[j] => i = j
    BY <2>2, <2>3, <2>5 DEF PoolInv
  <2>7. ASSUME NEW d \in Conns
        PROVE  loop'[d] = "queued" <=> \E i \in 1..Len(queue') : queue'[i] = d
    BY <2>2, <2>4, <2>5 DEF PoolInv
  <2>8. Busy' \subseteq Busy
    BY <2>4 DEF Busy
  <2>9. QED
    BY <2>4, <2>6, <2>7, <2>8, BusyShrinks DEF PoolInv
<1>3. ASSUME NEW c \in Conns, RecvData(c) \/ WriteClient(c) \/ RecvEnds(c) PROVE PoolInv'
  <2>1. /\ loop[c] \in {"recv", "writing"} /\ loop'[c] \in {"recv", "writing", "done"}
        /\ \A d \in Conns \ {c} : loop'[d] = loop[d]
        /\ UNCHANGED <<queue, status>>
    BY <1>3 DEF RecvData, WriteClient, RecvEnds, TypeOK
  <2>2. Busy' \subseteq Busy
    BY <2>1 DEF Busy
  <2>3. QED
    BY <2>1, <2>2, BusyShrinks DEF PoolInv
<1>4. ASSUME UNCHANGED loopVars,
             \A c \in Conns : status'[c] = "new" => status[c] = "new"
      PROVE  PoolInv'
  <2>1. Busy' = Busy
    BY <1>4 DEF loopVars, Busy
  <2>2. QED
    BY <1>4, <2>1 DEF loopVars, PoolInv
<1>5. ASSUME NEW c \in Conns, NEW chunks, Send(c, chunks)
      PROVE  \A d \in Conns : status'[d] = "new" => status[d] = "new"
  BY <1>5 DEF Send, DropClient, TypeOK
<1>6. ASSUME NEW c \in Conns, DataReceived(c) PROVE PoolInv'
  <2>1. UNCHANGED loopVars
    BY <1>6 DEF DataReceived, DataPassedThrough, DataForwarded, DataHeld, DataMatched,
               DataNotMatched, MatcherRaises, HeadersSeen, TakeChunk
  <2>2. CASE DataForwarded(c) \/ DataMatched(c)
    BY <1>4, <1>5, <2>1, <2>2 DEF DataForwarded, DataMatched
  <2>3. CASE MatcherRaises(c)
    BY <1>4, <2>1, <2>3 DEF MatcherRaises, DropClient, TypeOK
  <2>4. CASE DataPassedThrough(c) \/ DataHeld(c) \/ DataNotMatched(c)
    BY <1>4, <2>1, <2>4 DEF DataPassedThrough, DataHeld, DataNotMatched
  <2>5. QED
    BY <1>6, <2>2, <2>3, <2>4 DEF DataReceived
<1>7. ASSUME NEW c \in Conns,
             BackendRefuses(c) \/ SendDone(c) \/ SendFails(c) \/ ConnectionLost(c)
      PROVE  PoolInv'
  BY <1>4, <1>7 DEF BackendRefuses, SendDone, SendFails, ConnectionLost, DropClient, TypeOK
<1>8. ASSUME NEW c \in Conns, Environment(c) PROVE PoolInv'
  BY <1>4, <1>8 DEF Environment, ClientSend, DefaultReply, BackendReply, BackendHangsUp
<1>9. CASE UNCHANGED vars
  BY <1>4, <1>9 DEF vars
<1>10. QED
  BY <1>1, <1>2, <1>3, <1>6, <1>7, <1>8, <1>9 DEF Next, Reactor, Pool

(* The loops that wait for a thread are those in the queue, each once, and *)
(* never more loops run than the pool has threads.                         *)
THEOREM H2PoolCorrect == Spec => []PoolInv
<1>1. Init => PoolInv
  <2> SUFFICES ASSUME Init PROVE PoolInv
    OBVIOUS
  <2>1. Busy = {} /\ Len(queue) = 0 /\ \A c \in Conns : loop[c] = "none"
    BY DEF Init, Busy
  <2>2. IsFiniteSet(Busy) /\ Cardinality(Busy) <= PoolSize
    BY <2>1, FS_EmptySet, H2Assumption
  <2>3. QED
    BY <2>1, <2>2 DEF PoolInv
<1>2. QED
  BY <1>1, PoolStep, H2TypeCorrect, PTL DEF Spec

-----------------------------------------------------------------------------
(* The proxy implements StreamSwitch *)

(* What the consumers of a connection have been given.                     *)
Delivered(c) == defaultIn[c] \o backendIn[c]

(* It is a prefix of what was read, and empty before the decision.         *)
LEMMA DeliveredPrefix ==
  ASSUME TypeOK, NEW c \in Conns, StreamOf(c)
  PROVE  \E k \in 0..nread[c] : /\ Delivered(c) = Switch!Upto(k)
                                /\ SinkOf(c) = "none" => k = 0
<1>1. nread[c] \in Nat
  BY DEF TypeOK
<1>2. CASE state[c] = "FORWARDING"
  <2>1. PICK k \in 0..nread[c] : backendIn[c] = Switch!Upto(k)
    BY <1>2 DEF StreamOf
  <2>2. defaultIn[c] = <<>> /\ k \in Nat
    BY <1>1, <1>2 DEF StreamOf
  <2>3. Delivered(c) = Switch!Upto(k)
    BY <2>1, <2>2, UptoFacts DEF Delivered
  <2>4. QED
    BY <1>2, <2>3 DEF SinkOf
<1>3. CASE state[c] = "PASSTHROUGH"
  <2>1. defaultIn[c] = Switch!Upto(nread[c]) /\ backendIn[c] = <<>>
    BY <1>3 DEF StreamOf
  <2>2. Delivered(c) = Switch!Upto(nread[c]) /\ nread[c] \in 0..nread[c]
    BY <1>1, <2>1, UptoFacts DEF Delivered
  <2>3. QED
    BY <1>3, <2>2 DEF SinkOf
<1>4. CASE state[c] = "UNDECIDED"
  <2>1. defaultIn[c] = <<>> /\ backendIn[c] = <<>>
    BY <1>4 DEF StreamOf
  <2>2. Switch!Upto(0) \o <<>> = Switch!Upto(0)
    BY UptoFacts
  <2>3. Delivered(c) = Switch!Upto(0) /\ 0 \in 0..nread[c]
    BY <1>1, <2>1, <2>2, UptoZero DEF Delivered
  <2>4. QED
    BY <2>3
<1>5. QED
  BY <1>2, <1>3, <1>4 DEF TypeOK

(* A step takes at most one chunk of a connection, and never changes a     *)
(* decision.                                                               *)
LEMMA SinkStep ==
  ASSUME TypeOK, NEW c \in Conns, StreamOf(c),
         Reactor(c) \/ Pool(c) \/ Environment(c)
  PROVE  /\ nread'[c] \in {nread[c], nread[c] + 1}
         /\ SinkOf(c) # "none" => SinkOf(c)' = SinkOf(c)
<1>1. CASE ConnectionMade(c)
  BY <1>1 DEF ConnectionMade, StreamOf, SinkOf
<1>2. CASE TakeChunk(c) /\ state[c] = "UNDECIDED"
  BY <1>2 DEF TakeChunk, SinkOf, TypeOK
<1>3. CASE TakeChunk(c) /\ UNCHANGED state
  BY <1>3 DEF TakeChunk, SinkOf, TypeOK
<1>4. CASE UNCHANGED bufferVars
  BY <1>4 DEF bufferVars, SinkOf
<1>5. DataReceived(c) => TakeChunk(c) /\ (state[c] = "UNDECIDED" \/ UNCHANGED state)
  BY DEF DataReceived, DataPassedThrough, DataForwarded, DataHeld, DataMatched,
         DataNotMatched, MatcherRaises, HeadersSeen
<1>6. Reactor(c) \/ Pool(c) \/ Environment(c)
        => ConnectionMade(c) \/ DataReceived(c) \/ UNCHANGED bufferVars
  BY DEF Reactor, Pool, Environment, BackendRefuses, SendDone, SendFails,
         ConnectionLost, RecvData, WriteClient, RecvEnds, ClientSend, DefaultReply,
         BackendReply, BackendHangsUp
<1>7. QED
  BY <1>1, <1>2, <1>3, <1>4, <1>5, <1>6

(* What Send gives the backend brings it level with what has been read.    *)
LEMMA SendDelivers ==
  ASSUME TypeOK, NEW c \in Conns, StreamOf(c)', NEW chunks, Send(c, chunks),
         stuck = NoConn, state'[c] = "FORWARDING"
  PROVE  backendIn'[c] \in {backendIn[c], Switch!Upto(nread'[c])}
<1>1. CASE UNCHANGED backendIn
  BY <1>1
<1>2. CASE socket[c] = "open" /\ UNCHANGED <<stuck, socket>>
  <2>1. stuck' # c /\ socket'[c] = "open"
    BY <1>2, H2Assumption
  <2>2. QED
    BY <2>1 DEF StreamOf
<1>3. QED
  BY <1>1, <1>2 DEF Send, sendVars

(* A step that gives a consumer something brings it level with the reads.  *)
LEMMA DeliveryStep ==
  ASSUME TypeOK, NEW c \in Conns, StreamOf(c), StreamOf(c)', nread'[c] \in Nat,
         Reactor(c) \/ Pool(c) \/ Environment(c)
  PROVE  \/ defaultIn'[c] = defaultIn[c] /\ backendIn'[c] = backendIn[c]
         \/ Delivered(c)' = Switch!Upto(nread'[c]) /\ SinkOf(c)' # "none"
<1> DEFINE Quiet == defaultIn'[c] = defaultIn[c] /\ backendIn'[c] = backendIn[c]
           Level == Delivered(c)' = Switch!Upto(nread'[c]) /\ SinkOf(c)' # "none"
<1>1. ASSUME state'[c] = "PASSTHROUGH" PROVE Level
  <2>1. defaultIn'[c] = Switch!Upto(nread'[c]) /\ backendIn'[c] = <<>>
    BY <1>1 DEF StreamOf
  <2>2. QED
    BY <1>1, <2>1, UptoFacts DEF Delivered, SinkOf
<1>2. ASSUME state'[c] = "FORWARDING", backendIn'[c] = Switch!Upto(nread'[c])
      PROVE  Level
  <2>1. defaultIn'[c] = <<>>
    BY <1>2 DEF StreamOf
  <2>2. QED
    BY <1>2, <2>1, UptoFacts DEF Delivered, SinkOf
<1>3. CASE DataPassedThrough(c) \/ DataNotMatched(c)
  <2>1. state'[c] = "PASSTHROUGH"
    BY <1>3 DEF DataPassedThrough, DataNotMatched, TypeOK
  <2>2. QED
    BY <1>1, <2>1
<1>4. ASSUME NEW chunks, Send(c, chunks), TakeChunk(c), state'[c] = "FORWARDING",
             UNCHANGED defaultIn
      PROVE  Quiet \/ Level
  <2>1. backendIn'[c] \in {backendIn[c], Switch!Upto(nread'[c])}
    BY <1>4, SendDelivers DEF TakeChunk, ReactorFree
  <2>2. QED
    BY <1>2, <1>4, <2>1
<1>5. CASE DataForwarded(c)
  <2>1. Send(c, <<nread[c] + 1>>) /\ TakeChunk(c) /\ state'[c] = "FORWARDING"
    BY <1>5 DEF DataForwarded
  <2>2. QED
    BY <1>4, <1>5, <2>1 DEF DataForwarded
<1>6. CASE DataMatched(c)
  <2>1. Send(c, Collected(c)) /\ TakeChunk(c) /\ state'[c] = "FORWARDING"
    BY <1>6 DEF DataMatched, HeadersSeen, TypeOK
  <2>2. QED
    BY <1>4, <1>6, <2>1 DEF DataMatched
<1>7. CASE SendDone(c)
  <2>1. /\ stuck = c /\ socket[c] = "open"
        /\ stuck' = NoConn /\ UNCHANGED <<socket, state>>
    BY <1>7 DEF SendDone, bufferVars
  <2>2. state'[c] = "FORWARDING" /\ socket'[c] = "open" /\ stuck' # c
    BY <2>1, H2Assumption DEF StreamOf
  <2>3. backendIn'[c] = Switch!Upto(nread'[c])
    BY <2>2 DEF StreamOf
  <2>4. QED
    BY <1>2, <2>2, <2>3
<1>8. CASE UNCHANGED <<defaultIn, backendIn>>
  BY <1>8
<1>9. Reactor(c) \/ Pool(c) \/ Environment(c)
        => \/ DataPassedThrough(c) \/ DataNotMatched(c)
           \/ DataForwarded(c) \/ DataMatched(c) \/ SendDone(c)
           \/ UNCHANGED <<defaultIn, backendIn>>
  BY DEF Reactor, DataReceived, Pool, Environment, ConnectionMade, BackendRefuses,
         DataHeld, MatcherRaises, SendFails, ConnectionLost, RecvData, WriteClient,
         RecvEnds, ClientSend, DefaultReply, BackendReply, BackendHangsUp, sendVars
<1>10. QED
  BY <1>3, <1>5, <1>6, <1>7, <1>8, <1>9

(* A step of one connection is a step of its stream, or a stutter.         *)
LEMMA StreamAdvances ==
  ASSUME TypeOK, TypeOK', StreamInv, NEW c \in Conns,
         Reactor(c) \/ Pool(c) \/ Environment(c)
  PROVE  Switch!Advance(c)
<1> DEFINE sink      == [x \in Conns |-> SinkOf(x)]
           delivered == [x \in Conns |-> defaultIn[x] \o backendIn[x]]
<1>1. StreamOf(c) /\ StreamOf(c)'
  BY StreamStep DEF StreamInv
<1>2. nread[c] \in Nat /\ nread'[c] \in Nat
  BY DEF TypeOK
<1>3. PICK j \in 0..nread[c] : /\ Delivered(c) = Switch!Upto(j)
                               /\ SinkOf(c) = "none" => j = 0
  BY <1>1, DeliveredPrefix
<1>4. /\ nread'[c] \in {nread[c], nread[c] + 1}
      /\ SinkOf(c) # "none" => SinkOf(c)' = SinkOf(c)
  BY <1>1, SinkStep
<1>5. \/ defaultIn'[c] = defaultIn[c] /\ backendIn'[c] = backendIn[c]
      \/ Delivered(c)' = Switch!Upto(nread'[c]) /\ SinkOf(c)' # "none"
  BY <1>1, <1>2, DeliveryStep
<1>6. PICK k \in j..nread'[c] : /\ Delivered(c)' = Switch!Upto(k)
                                /\ SinkOf(c)' = "none" => k = 0
  <2>1. j \in j..nread'[c] /\ nread'[c] \in j..nread'[c]
    BY <1>2, <1>3, <1>4
  <2>2. CASE defaultIn'[c] = defaultIn[c] /\ backendIn'[c] = backendIn[c]
    <3>1. Delivered(c)' = Switch!Upto(j)
      BY <1>3, <2>2 DEF Delivered
    <3>2. SinkOf(c)' = "none" => j = 0
      BY <1>3, <1>4
    <3>3. QED
      BY <2>1, <3>1, <3>2
  <2>3. CASE Delivered(c)' = Switch!Upto(nread'[c]) /\ SinkOf(c)' # "none"
    BY <2>1, <2>3
  <2>4. QED
    BY <1>5, <2>2, <2>3
<1>7. j = Len(Delivered(c))
  <2>1. j \in Nat
    BY <1>2, <1>3
  <2>2. Len(Switch!Upto(j)) = j
    BY <2>1, UptoFacts
  <2>3. QED
    BY <1>3, <2>2
<1>8. \A d \in Conns \ {c} : ConnState(d)' = ConnState(d)
  BY OtherConns DEF Spares
<1>9. nread' = [nread EXCEPT ![c] = nread'[c]]
  <2>1. \A d \in Conns \ {c} : nread'[d] = nread[d]
    BY <1>8 DEF ConnState
  <2>2. nread \in [Conns -> Nat] /\ nread' \in [Conns -> Nat]
    BY DEF TypeOK
  <2>3. QED
    BY <2>1, <2>2
<1>10. sink' = [sink EXCEPT ![c] = SinkOf(c)']
  BY <1>8 DEF ConnState, SinkOf
<1>11. delivered' = [delivered EXCEPT ![c] = Switch!Upto(k)]
  BY <1>6, <1>8 DEF ConnState, Delivered
<1>12. SinkOf(c)' \in IF SinkOf(c) = "none" THEN {"backend", "default"} \cup {"none"}
                                            ELSE {SinkOf(c)}
  BY <1>4 DEF SinkOf
<1>13. k \in Len(defaultIn[c] \o backendIn[c])..nread'[c]
  BY <1>6, <1>7 DEF Delivered
<1>14. QED
  BY <1>4, <1>6, <1>9, <1>10, <1>11, <1>12, <1>13 DEF Switch!Advance

(* The proxy implements StreamSwitch: through buffering, blocked and       *)
(* failed sends, a raising matcher and hang-ups, the bytes of each         *)
(* connection reach one consumer only, in order, without gap or repeat.    *)
THEOREM H2ImplementsStreamSwitch == Spec => StreamSwitched
<1>1. Init => Switch!Init
  BY DEF Init, Switch!Init, SinkOf
<1>2. TypeOK /\ TypeOK' /\ StreamInv /\ [Next]_vars
        => [Switch!Next]_(Switch!switchVars)
  <2> SUFFICES ASSUME TypeOK, TypeOK', StreamInv, [Next]_vars
               PROVE  Switch!Next \/ UNCHANGED Switch!switchVars
    OBVIOUS
  <2>1. CASE StartLoop
    BY <2>1 DEF StartLoop, Switch!switchVars, SinkOf, bufferVars, sendVars
  <2>2. ASSUME NEW c \in Conns, Reactor(c) \/ Pool(c) \/ Environment(c)
        PROVE  Switch!Next
    BY <2>2, StreamAdvances DEF Switch!Next
  <2>3. CASE UNCHANGED vars
    BY <2>3 DEF Switch!switchVars, SinkOf, vars, bufferVars, sendVars
  <2>4. QED
    BY <2>1, <2>2, <2>3 DEF Next
<1>3. QED
  BY <1>1, <1>2, H2TypeCorrect, H2StreamCorrect, PTL
     DEF Spec, StreamSwitched, Switch!Spec
=============================================================================
