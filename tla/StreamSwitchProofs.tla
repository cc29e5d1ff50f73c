------------------------- MODULE StreamSwitchProofs -------------------------
(***************************************************************************)
(* What StreamSwitch promises, for any connections and consumers.  The     *)
(* router and the HTTP/2 proxy implement StreamSwitch, so the same holds   *)
(* of the bytes that pass through them.                                    *)
(***************************************************************************)
EXTENDS StreamSwitch, SequenceTheorems, TLAPS

(* The prefixes of a stream, and which of them begin with which.           *)
LEMMA UptoFacts ==
  ASSUME NEW n \in Nat
  PROVE  /\ Upto(n) \in Seq(Nat) /\ Len(Upto(n)) = n
         /\ \A i \in 1..n : Upto(n)[i] = i
BY DEF Upto

(* In order, without gap or repeat: what the consumer of a connection has  *)
(* been given is a prefix of what was taken from its client, and nobody    *)
(* has been given anything before a consumer is chosen.                    *)
PrefixDelivered ==
  /\ received  \in [Conns -> Nat]
  /\ sink      \in [Conns -> Sinks \cup {NoSink}]
  /\ delivered \in [Conns -> Seq(Nat)]
  /\ \A c \in Conns :
       \E k \in 0..received[c] : delivered[c] = Upto(k) /\ (sink[c] = NoSink => k = 0)

(* To one consumer: the choice is never revised, and what a consumer was   *)
(* given is never taken back.                                              *)
Extends(s, t) == Len(s) <= Len(t) /\ \A i \in 1..Len(s) : t[i] = s[i]

OneConsumer ==
  [][\A c \in Conns :
       /\ sink[c] # NoSink => sink'[c] = sink[c]
       /\ Extends(delivered[c], delivered'[c])]_switchVars

-----------------------------------------------------------------------------
LEMMA PrefixStep == PrefixDelivered /\ [Next]_switchVars => PrefixDelivered'
<1> SUFFICES ASSUME PrefixDelivered, [Next]_switchVars PROVE PrefixDelivered'
  OBVIOUS
<1>1. ASSUME NEW c \in Conns, Advance(c) PROVE PrefixDelivered'
  <2>1. PICK r \in {received[c], received[c] + 1},
             s \in IF sink[c] = NoSink THEN Sinks \cup {NoSink} ELSE {sink[c]} :
          \E k \in Len(delivered[c])..r :
            /\ s = NoSink => k = 0
            /\ received'  = [received EXCEPT ![c] = r]
            /\ sink'      = [sink EXCEPT ![c] = s]
            /\ delivered' = [delivered EXCEPT ![c] = Upto(k)]
    BY <1>1 DEF Advance
  <2>2. PICK k \in Len(delivered[c])..r :
          /\ s = NoSink => k = 0
          /\ received'  = [received EXCEPT ![c] = r]
          /\ sink'      = [sink EXCEPT ![c] = s]
          /\ delivered' = [delivered EXCEPT ![c] = Upto(k)]
    BY <2>1
  <2>3. r \in Nat /\ Len(delivered[c]) \in Nat
    BY DEF PrefixDelivered
  <2>4. k \in Nat /\ k \in 0..r
    BY <2>3
  <2>5. s \in Sinks \cup {NoSink}
    BY DEF PrefixDelivered
  <2>6. Upto(k) \in Seq(Nat)
    BY <2>4, UptoFacts
  <2>7. /\ received'  \in [Conns -> Nat]
        /\ sink'      \in [Conns -> Sinks \cup {NoSink}]
        /\ delivered' \in [Conns -> Seq(Nat)]
    BY <2>2, <2>3, <2>5, <2>6 DEF PrefixDelivered
  <2>8. ASSUME NEW d \in Conns
        PROVE  \E j \in 0..received'[d] :
                 delivered'[d] = Upto(j) /\ (sink'[d] = NoSink => j = 0)
    <3>1. CASE d = c
      BY <2>2, <2>4, <3>1 DEF PrefixDelivered
    <3>2. CASE d # c
      BY <2>2, <3>2 DEF PrefixDelivered
    <3>3. QED
      BY <3>1, <3>2
  <2>9. QED
    BY <2>7, <2>8 DEF PrefixDelivered
<1>2. CASE UNCHANGED switchVars
  BY <1>2 DEF switchVars, PrefixDelivered
<1>3. QED
  BY <1>1, <1>2 DEF Next

(* The consumer of a connection gets its bytes in order, without gap or    *)
(* repeat.                                                                 *)
THEOREM SwitchDeliversPrefixes == Spec => []PrefixDelivered
<1>1. Init => PrefixDelivered
  <2> SUFFICES ASSUME Init PROVE PrefixDelivered
    OBVIOUS
  <2>1. Upto(0) = <<>> /\ 0 \in 0..0
    BY DEF Upto
  <2>2. QED
    BY <2>1 DEF Init, PrefixDelivered
<1>2. QED
  BY <1>1, PrefixStep, PTL DEF Spec

(* A connection has one consumer for its whole life, which keeps what it   *)
(* has been given.                                                         *)
THEOREM SwitchHasOneConsumer == Spec => OneConsumer
<1> DEFINE Step == \A c \in Conns : /\ sink[c] # NoSink => sink'[c] = sink[c]
                                    /\ Extends(delivered[c], delivered'[c])
<1>1. PrefixDelivered /\ [Next]_switchVars => [Step]_switchVars
  <2> SUFFICES ASSUME PrefixDelivered, NEW c \in Conns, Advance(c), NEW d \in Conns
               PROVE  /\ sink[d] # NoSink => sink'[d] = sink[d]
                      /\ Extends(delivered[d], delivered'[d])
    BY DEF Next
  <2>1. PICK r \in {received[c], received[c] + 1},
             s \in IF sink[c] = NoSink THEN Sinks \cup {NoSink} ELSE {sink[c]} :
          \E k \in Len(delivered[c])..r :
            /\ sink'      = [sink EXCEPT ![c] = s]
            /\ delivered' = [delivered EXCEPT ![c] = Upto(k)]
    BY DEF Advance
  <2>2. PICK k \in Len(delivered[c])..r : /\ sink'      = [sink EXCEPT ![c] = s]
                                          /\ delivered' = [delivered EXCEPT ![c] = Upto(k)]
    BY <2>1
  <2>3. sink[d] # NoSink => sink'[d] = sink[d]
    BY <2>2 DEF PrefixDelivered
  <2>4. Len(delivered[d]) \in Nat
    BY DEF PrefixDelivered
  <2>5. CASE d = c
    <3>1. PICK j \in Nat : delivered[c] = Upto(j)
      BY DEF PrefixDelivered
    <3>2. Len(delivered[c]) = j /\ r \in Nat /\ k \in Nat /\ j <= k
      BY <3>1, UptoFacts DEF PrefixDelivered
    <3>3. delivered'[c] = Upto(k)
      BY <2>2 DEF PrefixDelivered
    <3>4. Len(Upto(k)) = k /\ \A i \in 1..j : Upto(k)[i] = Upto(j)[i]
      <4>1. Len(Upto(k)) = k /\ \A i \in 1..k : Upto(k)[i] = i
        BY <3>2, UptoFacts
      <4>2. \A i \in 1..j : Upto(j)[i] = i
        BY UptoFacts
      <4>3. \A i \in 1..j : i \in 1..k
        BY <3>2
      <4>4. QED
        BY <4>1, <4>2, <4>3
    <3>5. QED
      BY <2>3, <2>5, <3>1, <3>2, <3>3, <3>4 DEF Extends
  <2>6. CASE d # c
    BY <2>2, <2>3, <2>4, <2>6 DEF PrefixDelivered, Extends
  <2>7. QED
    BY <2>5, <2>6
<1>2. QED
  BY <1>1, SwitchDeliversPrefixes, PTL DEF Spec, OneConsumer
=============================================================================
