---------------------- MODULE PrometheusMetricsProofs ----------------------
(***************************************************************************)
(* Proofs about PrometheusMetrics, for any pollers, environments, batches  *)
(* and bounds.  No set but that of the provisioned environments need be    *)
(* finite: what is counted is finite because every step adds one.          *)
(***************************************************************************)
EXTENDS PrometheusMetrics, FiniteSetTheorems, TLAPS

-----------------------------------------------------------------------------
(* The shape of the state *)

Metrics == [requests : Int, in_flight : Int, containers : Int, success : Nat, error : Nat,
            errors : Nat, misses : Nat, cold : Nat, warm : Nat]

Ghosts == [polls : Nat, sends : Nat, returned : Nat, failures : Nat, handed : Nat, started : BOOLEAN,
           unasked : Nat, unanswered : Nat, unstarted : Nat, unstopped : Nat]

Steps == {"idle", "polling", "batch", "sending", "counted", "failed", "running"}

(* Type correctness without the sign of the gauge of what is in flight,     *)
(* which follows from what it counts.                                       *)
Shape ==
    /\ at \in [Pollers -> Steps]
    /\ size \in [Pollers -> Sizes \cup {0}]
    /\ held \in [Pollers -> OnDemand \cup {None}]
    /\ Provisioned \subseteq envs /\ envs \subseteq Environments
    /\ request \in [Requests -> {"none", "named", "plain"}]
    /\ metrics \in Metrics
    /\ ghost \in Ghosts

(* The ways in which the metrics are changed leave them well typed.        *)
LEMMA GaugesTyped ==
  ASSUME NEW m \in Metrics
  PROVE  /\ [m EXCEPT !.requests = @ + 1] \in Metrics
         /\ [m EXCEPT !.requests = @ - 1] \in Metrics
         /\ [m EXCEPT !.in_flight = @ + 1] \in Metrics
         /\ [m EXCEPT !.containers = @ + 1] \in Metrics
         /\ [m EXCEPT !.containers = @ - 1] \in Metrics
<1>1. m.requests \in Int /\ m.in_flight \in Int /\ m.containers \in Int
  BY DEF Metrics
<1>2. [m EXCEPT !.requests = @ + 1] \in Metrics /\ [m EXCEPT !.requests = @ - 1] \in Metrics
  BY <1>1 DEF Metrics
<1>3. [m EXCEPT !.in_flight = @ + 1] \in Metrics
  BY <1>1 DEF Metrics
<1>4. [m EXCEPT !.containers = @ + 1] \in Metrics /\ [m EXCEPT !.containers = @ - 1] \in Metrics
  BY <1>1 DEF Metrics
<1> QED
  BY <1>2, <1>3, <1>4

LEMMA CountersTyped ==
  ASSUME NEW m \in Metrics, NEW n \in Nat
  PROVE  /\ [m EXCEPT !.errors = @ + 1] \in Metrics
         /\ [m EXCEPT !.cold = @ + 1] \in Metrics
         /\ [m EXCEPT !.warm = @ + 1] \in Metrics
         /\ [m EXCEPT !.misses = @ + 1] \in Metrics
         /\ [m EXCEPT !.success = @ + n, !.in_flight = @ - 1] \in Metrics
         /\ [m EXCEPT !.errors = @ + 1, !.error = @ + n, !.in_flight = @ - 1] \in Metrics
<1>1. /\ m.errors + 1 \in Nat /\ m.cold + 1 \in Nat /\ m.warm + 1 \in Nat
      /\ m.misses + 1 \in Nat /\ m.success + n \in Nat
      /\ m.error + n \in Nat /\ m.in_flight - 1 \in Int
  BY DEF Metrics
<1>2. [m EXCEPT !.errors = @ + 1] \in Metrics /\ [m EXCEPT !.misses = @ + 1] \in Metrics
  BY <1>1 DEF Metrics
<1>3. [m EXCEPT !.cold = @ + 1] \in Metrics /\ [m EXCEPT !.warm = @ + 1] \in Metrics
  BY <1>1 DEF Metrics
<1>4. [m EXCEPT !.success = @ + n, !.in_flight = @ - 1] \in Metrics
  BY <1>1 DEF Metrics
<1>5. [m EXCEPT !.errors = @ + 1, !.error = @ + n, !.in_flight = @ - 1] \in Metrics
  BY <1>1 DEF Metrics
<1> QED
  BY <1>2, <1>3, <1>4, <1>5

(* So do those in which the ghost is.                                      *)
LEMMA GhostsTyped ==
  ASSUME NEW g \in Ghosts, NEW n \in Nat
  PROVE  /\ [g EXCEPT !.polls = @ + 1] \in Ghosts
         /\ [g EXCEPT !.sends = @ + 1] \in Ghosts
         /\ [g EXCEPT !.returned = @ + 1] \in Ghosts
         /\ [g EXCEPT !.failures = @ + 1] \in Ghosts
         /\ [g EXCEPT !.handed = @ + n] \in Ghosts
         /\ [g EXCEPT !.started = TRUE] \in Ghosts
         /\ [g EXCEPT !.unasked = @ + 1] \in Ghosts
         /\ [g EXCEPT !.unanswered = @ + 1] \in Ghosts
         /\ [g EXCEPT !.unstarted = @ + 1] \in Ghosts
         /\ [g EXCEPT !.unstopped = @ + 1] \in Ghosts
<1>1. /\ g.polls + 1 \in Nat /\ g.sends + 1 \in Nat
      /\ g.returned + 1 \in Nat /\ g.failures + 1 \in Nat /\ g.handed + n \in Nat
      /\ g.unasked + 1 \in Nat /\ g.unanswered + 1 \in Nat
      /\ g.unstarted + 1 \in Nat /\ g.unstopped + 1 \in Nat
  BY DEF Ghosts
<1>2. [g EXCEPT !.polls = @ + 1] \in Ghosts /\ [g EXCEPT !.sends = @ + 1] \in Ghosts
  BY <1>1 DEF Ghosts
<1>3. [g EXCEPT !.returned = @ + 1] \in Ghosts /\ [g EXCEPT !.failures = @ + 1] \in Ghosts
  BY <1>1 DEF Ghosts
<1>4. [g EXCEPT !.handed = @ + n] \in Ghosts /\ [g EXCEPT !.started = TRUE] \in Ghosts
  BY <1>1 DEF Ghosts
<1>5. [g EXCEPT !.unasked = @ + 1] \in Ghosts /\ [g EXCEPT !.unanswered = @ + 1] \in Ghosts
  BY <1>1 DEF Ghosts
<1>6. [g EXCEPT !.unstarted = @ + 1] \in Ghosts /\ [g EXCEPT !.unstopped = @ + 1] \in Ghosts
  BY <1>1 DEF Ghosts
<1> QED
  BY <1>2, <1>3, <1>4, <1>5, <1>6

LEMMA SizesAreNaturals ==
  ASSUME Shape, NEW p \in Pollers
  PROVE  size[p] \in Nat
  BY BoundsAssumption DEF Shape

(* A poller that goes back to its poll has no batch.                       *)
LEMMA BackTyped ==
  ASSUME Shape, NEW p \in Pollers, BackToPoll(p)
  PROVE  at' \in [Pollers -> Steps] /\ size' \in [Pollers -> Sizes \cup {0}]
  BY DEF Shape, BackToPoll, Move, Steps

LEMMA ShapeStep == Shape /\ [Next]_vars => Shape'
<1> SUFFICES ASSUME Shape, [Next]_vars PROVE Shape'
  OBVIOUS
<1> USE GaugesTyped, CountersTyped, GhostsTyped DEF Shape
<1>1. ASSUME NEW q \in Requests, RequestEnters(q) PROVE Shape'
  BY <1>1 DEF RequestEnters
<1>2. ASSUME NEW q \in Requests, ResponseLeaves(q) PROVE Shape'
  <2>1. metrics' \in Metrics /\ ghost' \in Ghosts
    BY <1>2 DEF ResponseLeaves
  <2> QED
    BY <1>2, <2>1 DEF ResponseLeaves
<1>3. ASSUME NEW e \in Environments, StopIdle(e) PROVE Shape'
  <2>1. metrics' \in Metrics /\ ghost' \in Ghosts
    BY <1>3 DEF StopIdle
  <2> QED
    BY <1>3, <2>1 DEF StopIdle, Free, OnDemand
<1>4. ASSUME NEW p \in Pollers, PollBegins(p) \/ PollReturns(p) PROVE Shape'
  BY <1>4 DEF PollBegins, PollReturns, Move, Steps
<1>5. ASSUME NEW p \in Pollers, PollMisses(p) \/ PollFails(p) PROVE Shape'
  BY <1>5 DEF PollMisses, PollFails, Move, Steps
<1>6. ASSUME NEW p \in Pollers, PollSends(p) PROVE Shape'
  <2>1. size' \in [Pollers -> Sizes \cup {0}]
    BY <1>6 DEF PollSends
  <2> QED
    BY <1>6, <2>1 DEF PollSends, Move, Steps
<1>7. ASSUME NEW p \in Pollers, SendNothing(p) \/ DelayUnreadable(p) PROVE Shape'
  <2>1. at' \in [Pollers -> Steps] /\ size' \in [Pollers -> Sizes \cup {0}]
    BY <1>7, BackTyped DEF SendNothing, DelayUnreadable
  <2> QED
    BY <1>7, <2>1 DEF SendNothing, DelayUnreadable
<1>8. ASSUME NEW p \in Pollers, SendBegins(p) PROVE Shape'
  <2>1. metrics' \in Metrics /\ ghost' \in Ghosts
    BY <1>8, SizesAreNaturals DEF SendBegins
  <2> QED
    BY <1>8, <2>1 DEF SendBegins, Move, Steps
<1>9. ASSUME NEW p \in Pollers, SendSucceeds(p) \/ SendFails(p) PROVE Shape'
  <2>1. metrics' \in Metrics /\ ghost' \in Ghosts
    <3>1. Succeeded(p) \in Metrics /\ Failed(p) \in Metrics
      BY SizesAreNaturals DEF Succeeded, Failed
    <3> QED
      BY <1>9, <3>1 DEF SendSucceeds, SendFails
  <2>2. at' \in [Pollers -> Steps] /\ size' \in [Pollers -> Sizes \cup {0}]
    BY <1>9, BackTyped DEF SendSucceeds, SendFails
  <2> QED
    BY <1>9, <2>1, <2>2 DEF SendSucceeds, SendFails
<1>10. ASSUME NEW p \in Pollers, CountStart(p) PROVE Shape'
  BY <1>10 DEF CountStart, Move, Steps
<1>11. ASSUME NEW p \in Pollers, ReuseEnvironment(p) PROVE Shape'
  BY <1>11 DEF ReuseEnvironment, Free, Move, Steps
<1>12. ASSUME NEW p \in Pollers, StartEnvironment(p) PROVE Shape'
  <2>1. /\ held' \in [Pollers -> OnDemand \cup {None}]
        /\ Provisioned \subseteq envs' /\ envs' \subseteq Environments
    BY <1>12 DEF StartEnvironment, OnDemand
  <2> QED
    BY <1>12, <2>1 DEF StartEnvironment, Move, Steps
<1>13. ASSUME NEW p \in Pollers, StartFails(p) PROVE Shape'
  <2>1. metrics' \in Metrics /\ ghost' \in Ghosts
    BY <1>13 DEF StartFails
  <2> QED
    BY <1>13, <2>1 DEF StartFails, Move, Steps
<1>14. CASE UNCHANGED vars
  BY <1>14 DEF vars
<1> QED
  BY <1>1, <1>2, <1>3, <1>4, <1>5, <1>6, <1>7, <1>8, <1>9, <1>10, <1>11, <1>12,
     <1>13, <1>14 DEF Next, Poll

LEMMA ShapeAlways == Spec => []Shape
<1>1. Init => Shape
  <2> SUFFICES ASSUME Init PROVE Shape
    OBVIOUS
  <2>1. Cardinality(Provisioned) \in Int
    BY EnvironmentsAssumption, FS_CardinalityType
  <2>2. metrics \in Metrics /\ ghost \in Ghosts
    BY <2>1 DEF Init, Metrics, Ghosts
  <2> QED
    BY <2>2, EnvironmentsAssumption DEF Init, Shape, Steps
<1> QED
  BY <1>1, ShapeStep, PTL DEF Spec

-----------------------------------------------------------------------------
(* Sends *)

(* What a step does to the batches that are being sent and to what is        *)
(* counted of them: nothing, or one of them begins or ends.                 *)
SendsStay ==
    /\ Sending' = Sending
    /\ \A p \in Sending : size'[p] = size[p]
    /\ metrics'.in_flight = metrics.in_flight
    /\ ghost'.handed = ghost.handed
    /\ metrics'.success = metrics.success /\ metrics'.error = metrics.error

SendStarts(p) ==
    /\ p \in Pollers /\ p \notin Sending
    /\ Sending' = Sending \cup {p}
    /\ size' = size
    /\ metrics'.in_flight = metrics.in_flight + 1
    /\ ghost'.handed = ghost.handed + size[p]
    /\ metrics'.success = metrics.success /\ metrics'.error = metrics.error

SendEnds(p) ==
    /\ p \in Sending
    /\ Sending' = Sending \ {p}
    /\ \A q \in Sending \ {p} : size'[q] = size[q]
    /\ metrics'.in_flight = metrics.in_flight - 1
    /\ ghost'.handed = ghost.handed
    /\ metrics'.success + metrics'.error = metrics.success + metrics.error + size[p]

(* Which pollers send after one has moved.                                 *)
LEMMA SendingMoves ==
  ASSUME Shape, NEW p \in Pollers, NEW to, at' = [at EXCEPT ![p] = to]
  PROVE  Sending' = IF to \in {"sending", "counted", "failed", "running"}
                    THEN Sending \cup {p} ELSE Sending \ {p}
  BY DEF Shape, Sending

LEMMA EndedCounts ==
  ASSUME Shape, NEW p \in Pollers
  PROVE  /\ Succeeded(p).in_flight = metrics.in_flight - 1
         /\ Succeeded(p).success = metrics.success + size[p]
         /\ Succeeded(p).error = metrics.error
         /\ Failed(p).in_flight = metrics.in_flight - 1
         /\ Failed(p).success = metrics.success
         /\ Failed(p).error = metrics.error + size[p]
         /\ metrics.success \in Nat /\ metrics.error \in Nat /\ size[p] \in Nat
<1>1. metrics \in Metrics
  BY DEF Shape
<1> QED
  BY <1>1, SizesAreNaturals DEF Metrics, Succeeded, Failed

LEMMA SendsStep ==
  ASSUME Shape, [Next]_vars
  PROVE  SendsStay \/ \E p \in Pollers : SendStarts(p) \/ SendEnds(p)
<1>0. metrics \in Metrics /\ ghost \in Ghosts
  BY DEF Shape
<1> USE DEF Metrics, Ghosts
<1>1. ASSUME NEW q \in Requests, RequestEnters(q) \/ ResponseLeaves(q) PROVE SendsStay
  BY <1>0, <1>1 DEF RequestEnters, ResponseLeaves, SendsStay, Sending
<1>2. ASSUME NEW e \in Environments, StopIdle(e) PROVE SendsStay
  BY <1>0, <1>2 DEF StopIdle, SendsStay, Sending
<1>3. ASSUME NEW p \in Pollers, NEW to, Move(p, to),
             p \in Sending <=> to \in {"sending", "counted", "failed", "running"}
      PROVE  Sending' = Sending
  BY <1>3, SendingMoves DEF Move
<1>4. ASSUME NEW p \in Pollers, PollBegins(p) \/ PollReturns(p) \/ PollMisses(p) \/ PollFails(p)
      PROVE  SendsStay
  <2>1. Sending' = Sending
    BY <1>3, <1>4 DEF PollBegins, PollReturns, PollMisses, PollFails, Sending
  <2>2. /\ metrics'.in_flight = metrics.in_flight /\ ghost'.handed = ghost.handed
        /\ metrics'.success = metrics.success /\ metrics'.error = metrics.error
    BY <1>0, <1>4 DEF PollBegins, PollReturns, PollMisses, PollFails
  <2> QED
    BY <1>4, <2>1, <2>2 DEF PollBegins, PollReturns, PollMisses, PollFails, SendsStay
<1>5. ASSUME NEW p \in Pollers, PollSends(p) PROVE SendsStay
  <2>1. Sending' = Sending /\ p \notin Sending
    BY <1>3, <1>5 DEF PollSends, Sending
  <2>2. \A q \in Sending : size'[q] = size[q]
    BY <1>5, <2>1 DEF Shape, Sending, PollSends
  <2>3. /\ metrics'.in_flight = metrics.in_flight /\ ghost'.handed = ghost.handed
        /\ metrics'.success = metrics.success /\ metrics'.error = metrics.error
    BY <1>0, <1>5 DEF PollSends
  <2> QED
    BY <2>1, <2>2, <2>3 DEF SendsStay
<1>6. ASSUME NEW p \in Pollers, SendNothing(p) \/ DelayUnreadable(p) PROVE SendsStay
  <2>1. Sending' = Sending /\ p \notin Sending
    BY <1>3, <1>6 DEF SendNothing, DelayUnreadable, BackToPoll, Sending
  <2>2. \A q \in Sending : size'[q] = size[q]
    BY <1>6, <2>1 DEF Shape, Sending, SendNothing, DelayUnreadable, BackToPoll
  <2> QED
    BY <1>6, <2>1, <2>2 DEF SendNothing, DelayUnreadable, SendsStay
<1>7. ASSUME NEW p \in Pollers, SendBegins(p) PROVE SendStarts(p)
  <2>1. Sending' = Sending \cup {p} /\ p \notin Sending
    BY <1>7, SendingMoves DEF SendBegins, Move, Sending
  <2>2. /\ metrics'.in_flight = metrics.in_flight + 1
        /\ ghost'.handed = ghost.handed + size[p]
        /\ metrics'.success = metrics.success /\ metrics'.error = metrics.error
    BY <1>0, <1>7 DEF SendBegins
  <2> QED
    BY <1>7, <2>1, <2>2 DEF SendBegins, SendStarts
<1>8. ASSUME NEW p \in Pollers, SendSucceeds(p) \/ SendFails(p) PROVE SendEnds(p)
  <2>1. p \in Sending
    BY <1>8 DEF SendSucceeds, SendFails, Sending
  <2>2. Sending' = Sending \ {p}
    BY <1>8, SendingMoves DEF SendSucceeds, SendFails, BackToPoll, Move
  <2>3. \A q \in Sending \ {p} : size'[q] = size[q]
    BY <1>8 DEF SendSucceeds, SendFails, BackToPoll, Shape, Sending
  <2>4. ghost'.handed = ghost.handed
    BY <1>0, <1>8 DEF SendSucceeds, SendFails
  <2>5. /\ metrics'.in_flight = metrics.in_flight - 1
        /\ metrics'.success + metrics'.error = metrics.success + metrics.error + size[p]
    <3>1. CASE metrics' = Succeeded(p)
      BY <3>1, EndedCounts
    <3>2. CASE metrics' = Failed(p)
      BY <3>2, EndedCounts
    <3> QED
      BY <1>8, <3>1, <3>2 DEF SendSucceeds, SendFails
  <2> QED
    BY <2>1, <2>2, <2>3, <2>4, <2>5 DEF SendEnds
<1>9. ASSUME NEW p \in Pollers,
             CountStart(p) \/ ReuseEnvironment(p) \/ StartEnvironment(p) \/ StartFails(p)
      PROVE  SendsStay
  <2>1. Sending' = Sending
    BY <1>3, <1>9 DEF CountStart, ReuseEnvironment, StartEnvironment, StartFails, Sending
  <2>2. /\ metrics'.in_flight = metrics.in_flight /\ ghost'.handed = ghost.handed
        /\ metrics'.success = metrics.success /\ metrics'.error = metrics.error
    BY <1>0, <1>9 DEF CountStart, ReuseEnvironment, StartEnvironment, StartFails
  <2> QED
    BY <1>9, <2>1, <2>2 DEF CountStart, ReuseEnvironment, StartEnvironment, StartFails, SendsStay
<1>10. CASE UNCHANGED vars
  BY <1>10 DEF vars, SendsStay, Sending
<1> QED
  BY <1>1, <1>2, <1>4, <1>5, <1>6, <1>7, <1>8, <1>9, <1>10 DEF Next, Poll

(* The batches and the events in flight are finitely many, and counted.    *)
SendsCounted ==
    /\ IsFiniteSet(Sending) /\ metrics.in_flight = Cardinality(Sending)
    /\ IsFiniteSet(InFlight) /\ EventsAddUp

(* The events of one batch are as many as its size.                        *)
LEMMA BatchIsFinite ==
  ASSUME NEW p, NEW n \in Nat
  PROVE  IsFiniteSet({p} \X (1..n)) /\ Cardinality({p} \X (1..n)) = n
<1>1. IsFiniteSet({p}) /\ Cardinality({p}) = 1
  BY FS_Singleton
<1>2. IsFiniteSet(1..n) /\ Cardinality(1..n) = n
  BY FS_Interval
<1>3. IsFiniteSet({p} \X (1..n)) /\ Cardinality({p} \X (1..n)) = Cardinality({p}) * Cardinality(1..n)
  BY <1>1, <1>2, FS_Product
<1> QED
  BY <1>1, <1>2, <1>3

(* A set to which another is added that it does not meet.                  *)
LEMMA DisjointUnion ==
  ASSUME NEW S, NEW T, IsFiniteSet(S), IsFiniteSet(T), S \cap T = {}
  PROVE  IsFiniteSet(S \cup T) /\ Cardinality(S \cup T) = Cardinality(S) + Cardinality(T)
<1>1. IsFiniteSet(S \cup T) /\ Cardinality(S \cup T) = Cardinality(S) + Cardinality(T) - Cardinality(S \cap T)
  BY FS_Union
<1>2. Cardinality(S \cap T) = 0 /\ Cardinality(S) \in Nat /\ Cardinality(T) \in Nat
  BY FS_EmptySet, FS_CardinalityType
<1> QED
  BY <1>1, <1>2

(* A poller that begins to send adds its batch to the events in flight, and *)
(* one that ends takes it away.                                             *)
LEMMA InFlightStarts ==
  ASSUME NEW p \in Pollers, SendStarts(p)
  PROVE  /\ InFlight' = InFlight \cup ({p} \X (1..size[p]))
         /\ InFlight \cap ({p} \X (1..size[p])) = {}
<1>1. Sending' = Sending \cup {p} /\ p \notin Sending /\ size' = size
  BY DEF SendStarts
<1>2. InFlight' = UNION {{q} \X (1..size[q]) : q \in Sending'}
  BY <1>1 DEF InFlight
<1> QED
  BY <1>1, <1>2 DEF InFlight

LEMMA InFlightEnds ==
  ASSUME NEW p \in Pollers, SendEnds(p)
  PROVE  /\ InFlight = InFlight' \cup ({p} \X (1..size[p]))
         /\ InFlight' \cap ({p} \X (1..size[p])) = {}
<1>1. Sending' = Sending \ {p} /\ p \in Sending /\ \A q \in Sending' : size'[q] = size[q]
  BY DEF SendEnds
<1>2. InFlight' = UNION {{q} \X (1..size[q]) : q \in Sending'}
  BY <1>1 DEF InFlight
<1> QED
  BY <1>1, <1>2 DEF InFlight

LEMMA InFlightStays ==
  ASSUME SendsStay
  PROVE  InFlight' = InFlight
<1>1. Sending' = Sending /\ \A q \in Sending' : size'[q] = size[q]
  BY DEF SendsStay
<1> QED
  BY <1>1 DEF InFlight

LEMMA SendsCountedStep == Shape /\ SendsCounted /\ [Next]_vars => SendsCounted'
<1> SUFFICES ASSUME Shape, SendsCounted, [Next]_vars PROVE SendsCounted'
  OBVIOUS
<1>0. /\ metrics \in Metrics /\ ghost \in Ghosts
      /\ IsFiniteSet(Sending) /\ metrics.in_flight = Cardinality(Sending)
      /\ IsFiniteSet(InFlight)
      /\ ghost.handed = metrics.success + metrics.error + Cardinality(InFlight)
  BY DEF Shape, SendsCounted, EventsAddUp
<1>1. /\ metrics.success \in Nat /\ metrics.error \in Nat /\ Cardinality(InFlight) \in Nat
  BY <1>0, FS_CardinalityType DEF Metrics
<1>2. CASE SendsStay
  BY <1>0, <1>2, InFlightStays DEF SendsStay, SendsCounted, EventsAddUp
<1>3. ASSUME NEW p \in Pollers, SendStarts(p) PROVE SendsCounted'
  <2>1. PICK E : E = {p} \X (1..size[p])
    OBVIOUS
  <2>2. size[p] \in Nat /\ IsFiniteSet(E) /\ Cardinality(E) = size[p]
    BY <2>1, SizesAreNaturals, BatchIsFinite
  <2>3. IsFiniteSet(InFlight') /\ Cardinality(InFlight') = Cardinality(InFlight) + size[p]
    <3>1. InFlight' = InFlight \cup E /\ InFlight \cap E = {}
      BY <1>3, <2>1, InFlightStarts
    <3> QED
      BY <1>0, <2>2, <3>1, DisjointUnion
  <2>4. IsFiniteSet(Sending') /\ Cardinality(Sending') = Cardinality(Sending) + 1
    BY <1>0, <1>3, FS_AddElement DEF SendStarts
  <2>5. metrics'.in_flight = Cardinality(Sending')
    BY <1>0, <1>3, <2>4 DEF SendStarts
  <2>6. ghost'.handed = metrics'.success + metrics'.error + Cardinality(InFlight')
    BY <1>0, <1>1, <1>3, <2>2, <2>3 DEF SendStarts
  <2> QED
    BY <2>3, <2>4, <2>5, <2>6 DEF SendsCounted, EventsAddUp
<1>4. ASSUME NEW p \in Pollers, SendEnds(p) PROVE SendsCounted'
  <2>1. PICK E : E = {p} \X (1..size[p])
    OBVIOUS
  <2>2. size[p] \in Nat /\ IsFiniteSet(E) /\ Cardinality(E) = size[p]
    BY <2>1, SizesAreNaturals, BatchIsFinite
  <2>3. InFlight = InFlight' \cup E /\ InFlight' \cap E = {}
    BY <1>4, <2>1, InFlightEnds
  <2>4. IsFiniteSet(InFlight') /\ Cardinality(InFlight') \in Nat
    BY <1>0, <2>3, FS_Subset, FS_CardinalityType
  <2>5. Cardinality(InFlight) = Cardinality(InFlight') + size[p]
    BY <2>2, <2>3, <2>4, DisjointUnion
  <2>6. IsFiniteSet(Sending') /\ Cardinality(Sending') = Cardinality(Sending) - 1
    BY <1>0, <1>4, FS_RemoveElement DEF SendEnds
  <2>7. metrics'.in_flight = Cardinality(Sending')
    BY <1>0, <1>4, <2>6 DEF SendEnds
  <2>8. metrics'.success \in Nat /\ metrics'.error \in Nat
    BY ShapeStep DEF Shape, Metrics
  <2>9. ghost'.handed = metrics'.success + metrics'.error + Cardinality(InFlight')
    BY <1>0, <1>1, <1>4, <2>2, <2>4, <2>5, <2>8 DEF SendEnds
  <2> QED
    BY <2>4, <2>6, <2>7, <2>9 DEF SendsCounted, EventsAddUp
<1> QED
  BY <1>2, <1>3, <1>4, SendsStep

LEMMA SendsAlwaysCounted == Spec => [](Shape /\ SendsCounted)
<1>1. Init => SendsCounted
  <2> SUFFICES ASSUME Init PROVE SendsCounted
    OBVIOUS
  <2>1. Sending = {} /\ InFlight = {}
    BY DEF Init, Sending, InFlight
  <2>2. IsFiniteSet({}) /\ Cardinality({}) = 0
    BY FS_EmptySet
  <2> QED
    BY <2>1, <2>2 DEF Init, SendsCounted, EventsAddUp
<1> QED
  BY <1>1, SendsCountedStep, ShapeAlways, PTL DEF Spec

(* Every event handed to a target is a success, an error or in flight.     *)
THEOREM EventsAlwaysAddUp == Spec => []EventsAddUp
  BY SendsAlwaysCounted, PTL DEF SendsCounted

-----------------------------------------------------------------------------
(* Polls *)

(* What a step does to the polls: one begins, one ends in one of the ways    *)
(* that are counted, or none does either.                                   *)
PollsStay ==
    /\ Polling' = Polling
    /\ ghost'.polls = ghost.polls /\ ghost'.returned = ghost.returned
    /\ metrics'.misses = metrics.misses
    /\ metrics'.errors - ghost'.failures = metrics.errors - ghost.failures

PollStarts(p) ==
    /\ p \notin Polling
    /\ Polling' = Polling \cup {p}
    /\ ghost'.polls = ghost.polls + 1 /\ ghost'.returned = ghost.returned
    /\ metrics'.misses = metrics.misses
    /\ metrics'.errors - ghost'.failures = metrics.errors - ghost.failures

PollEnds(p) ==
    /\ p \in Polling
    /\ Polling' = Polling \ {p}
    /\ ghost'.polls = ghost.polls
    /\ ghost'.returned + metrics'.misses + (metrics'.errors - ghost'.failures)
         = ghost.returned + metrics.misses + (metrics.errors - ghost.failures) + 1

LEMMA PollingMoves ==
  ASSUME Shape, NEW p \in Pollers, NEW to, Move(p, to)
  PROVE  Polling' = IF to = "idle" THEN Polling \ {p} ELSE Polling \cup {p}
  BY DEF Shape, Polling, Move

LEMMA EndedErrors ==
  ASSUME Shape, NEW p \in Pollers
  PROVE  /\ Succeeded(p).errors = metrics.errors
         /\ Succeeded(p).misses = metrics.misses
         /\ Failed(p).errors = metrics.errors + 1
         /\ Failed(p).misses = metrics.misses
<1>1. metrics \in Metrics
  BY DEF Shape
<1> QED
  BY <1>1, SizesAreNaturals DEF Metrics, Succeeded, Failed

LEMMA PollsStep ==
  ASSUME Shape, [Next]_vars
  PROVE  PollsStay \/ \E p \in Pollers : PollStarts(p) \/ PollEnds(p)
<1>0. metrics \in Metrics /\ ghost \in Ghosts
  BY DEF Shape
<1>a. /\ metrics.errors \in Nat /\ metrics.misses \in Nat
      /\ ghost.failures \in Nat /\ ghost.returned \in Nat /\ ghost.polls \in Nat
  BY <1>0 DEF Metrics, Ghosts
<1>1. ASSUME NEW q \in Requests, RequestEnters(q) \/ ResponseLeaves(q) PROVE PollsStay
  BY <1>0, <1>1 DEF RequestEnters, ResponseLeaves, PollsStay, Polling, Metrics, Ghosts
<1>2. ASSUME NEW e \in Environments, StopIdle(e) PROVE PollsStay
  BY <1>0, <1>2 DEF StopIdle, PollsStay, Polling, Metrics, Ghosts
<1>3. ASSUME NEW p \in Pollers, PollBegins(p) PROVE PollStarts(p)
  <2>1. Polling' = Polling \cup {p} /\ p \notin Polling
    BY <1>3, PollingMoves DEF PollBegins, Polling
  <2>2. /\ ghost'.polls = ghost.polls + 1 /\ ghost'.returned = ghost.returned
        /\ ghost'.failures = ghost.failures /\ metrics' = metrics
    BY <1>0, <1>3 DEF PollBegins, Ghosts
  <2> QED
    BY <2>1, <2>2 DEF PollStarts
<1>4. ASSUME NEW p \in Pollers, PollReturns(p) \/ PollMisses(p) \/ PollFails(p) PROVE PollEnds(p)
  <2>1. Polling' = Polling \ {p} /\ p \in Polling
    BY <1>4, PollingMoves DEF PollReturns, PollMisses, PollFails, Polling
  <2>2. CASE PollReturns(p)
    <3>1. /\ metrics' = metrics /\ ghost'.returned = ghost.returned + 1
          /\ ghost'.polls = ghost.polls /\ ghost'.failures = ghost.failures
      BY <1>0, <2>2 DEF PollReturns, Ghosts
    <3> QED
      BY <1>a, <2>1, <3>1 DEF PollEnds
  <2>3. CASE PollMisses(p)
    <3>1. ghost' = ghost /\ metrics'.misses = metrics.misses + 1 /\ metrics'.errors = metrics.errors
      BY <1>0, <2>3 DEF PollMisses, Metrics
    <3> QED
      BY <1>a, <2>1, <3>1 DEF PollEnds
  <2>4. CASE PollFails(p)
    <3>1. ghost' = ghost /\ metrics'.misses = metrics.misses /\ metrics'.errors = metrics.errors + 1
      BY <1>0, <2>4 DEF PollFails, Metrics
    <3> QED
      BY <1>a, <2>1, <3>1 DEF PollEnds
  <2> QED
    BY <1>4, <2>2, <2>3, <2>4
<1>5. ASSUME NEW p \in Pollers, NEW to, Move(p, to), to # "idle", p \in Polling PROVE Polling' = Polling
  BY <1>5, PollingMoves
<1>6. ASSUME NEW p \in Pollers, SendSucceeds(p) \/ SendFails(p) PROVE PollsStay
  <2>1. Polling' = Polling
    BY <1>5, <1>6 DEF SendSucceeds, SendFails, BackToPoll, Polling
  <2>2. CASE SendSucceeds(p)
    BY <2>1, <2>2, EndedErrors DEF SendSucceeds, PollsStay
  <2>3. CASE SendFails(p)
    <3>1. /\ ghost'.returned = ghost.returned
          /\ ghost'.polls = ghost.polls /\ ghost'.failures = ghost.failures + 1
      BY <1>0, <2>3 DEF SendFails, Ghosts
    <3>2. metrics'.misses = metrics.misses /\ metrics'.errors = metrics.errors + 1
      BY <2>3, EndedErrors DEF SendFails
    <3> QED
      BY <1>a, <2>1, <3>1, <3>2 DEF PollsStay
  <2> QED
    BY <1>6, <2>2, <2>3
<1>7. ASSUME NEW p \in Pollers, PollSends(p) \/ SendNothing(p) \/ DelayUnreadable(p) \/ SendBegins(p)
      PROVE  PollsStay
  <2>1. Polling' = Polling
    BY <1>5, <1>7 DEF PollSends, SendNothing, DelayUnreadable, SendBegins, BackToPoll, Polling
  <2>2. /\ ghost'.polls = ghost.polls /\ ghost'.returned = ghost.returned
        /\ ghost'.failures = ghost.failures
    BY <1>0, <1>7 DEF PollSends, SendNothing, DelayUnreadable, SendBegins, Ghosts
  <2>3. metrics'.misses = metrics.misses /\ metrics'.errors = metrics.errors
    BY <1>0, <1>7 DEF PollSends, SendNothing, DelayUnreadable, SendBegins, Metrics
  <2> QED
    BY <2>1, <2>2, <2>3 DEF PollsStay
<1>8. ASSUME NEW p \in Pollers,
             CountStart(p) \/ ReuseEnvironment(p) \/ StartEnvironment(p) \/ StartFails(p)
      PROVE  PollsStay
  <2>1. Polling' = Polling
    BY <1>5, <1>8 DEF CountStart, ReuseEnvironment, StartEnvironment, StartFails, Polling
  <2>2. /\ ghost'.polls = ghost.polls /\ ghost'.returned = ghost.returned
        /\ ghost'.failures = ghost.failures
    BY <1>0, <1>8 DEF CountStart, ReuseEnvironment, StartEnvironment, StartFails, Ghosts
  <2>3. metrics'.misses = metrics.misses /\ metrics'.errors = metrics.errors
    BY <1>0, <1>8 DEF CountStart, ReuseEnvironment, StartEnvironment, StartFails, Metrics
  <2> QED
    BY <2>1, <2>2, <2>3 DEF PollsStay
<1>9. CASE UNCHANGED vars
  BY <1>9 DEF vars, PollsStay, Polling
<1> QED
  BY <1>1, <1>2, <1>3, <1>4, <1>6, <1>7, <1>8, <1>9 DEF Next, Poll

(* The polls under way are finitely many, and every other one is accounted  *)
(* for.                                                                     *)
PollsCounted ==
    /\ IsFiniteSet(Polling)
    /\ PollsAddUp

LEMMA PollsCountedStep == Shape /\ PollsCounted /\ [Next]_vars => PollsCounted'
<1> SUFFICES ASSUME Shape, PollsCounted, [Next]_vars PROVE PollsCounted'
  OBVIOUS
<1>1. /\ metrics \in Metrics /\ ghost \in Ghosts /\ metrics' \in Metrics /\ ghost' \in Ghosts
  BY ShapeStep DEF Shape
<1>2. /\ metrics.errors \in Nat /\ metrics.misses \in Nat
      /\ ghost.failures \in Nat /\ ghost.returned \in Nat /\ ghost.polls \in Nat
      /\ metrics'.errors \in Nat /\ metrics'.misses \in Nat
      /\ ghost'.failures \in Nat /\ ghost'.returned \in Nat /\ ghost'.polls \in Nat
  BY <1>1 DEF Metrics, Ghosts
<1>3. /\ IsFiniteSet(Polling) /\ Cardinality(Polling) \in Nat
      /\ ghost.polls = Cardinality(Polling) + ghost.returned
                       + metrics.misses + (metrics.errors - ghost.failures)
  BY FS_CardinalityType DEF PollsCounted, PollsAddUp
<1>4. CASE PollsStay
  BY <1>2, <1>3, <1>4 DEF PollsStay, PollsCounted, PollsAddUp
<1>5. ASSUME NEW p \in Pollers, PollStarts(p) PROVE PollsCounted'
  <2>1. IsFiniteSet(Polling') /\ Cardinality(Polling') = Cardinality(Polling) + 1
    BY <1>3, <1>5, FS_AddElement DEF PollStarts
  <2> QED
    BY <1>2, <1>3, <1>5, <2>1 DEF PollStarts, PollsCounted, PollsAddUp
<1>6. ASSUME NEW p \in Pollers, PollEnds(p) PROVE PollsCounted'
  <2>1. IsFiniteSet(Polling') /\ Cardinality(Polling') = Cardinality(Polling) - 1
    BY <1>3, <1>6, FS_RemoveElement DEF PollEnds
  <2> QED
    BY <1>2, <1>3, <1>6, <2>1 DEF PollEnds, PollsCounted, PollsAddUp
<1> QED
  BY <1>4, <1>5, <1>6, PollsStep

(* Every poll that began is under way or was counted in exactly one way,    *)
(* besides the failed sends, which count as errors of their own.            *)
THEOREM PollsAlwaysAddUp == Spec => []PollsAddUp
<1>1. Init => PollsCounted
  <2> SUFFICES ASSUME Init PROVE PollsCounted
    OBVIOUS
  <2>1. Polling = {}
    BY DEF Init, Polling
  <2>2. IsFiniteSet({}) /\ Cardinality({}) = 0
    BY FS_EmptySet
  <2> QED
    BY <2>1, <2>2 DEF Init, PollsCounted, PollsAddUp
<1>2. PollsCounted => PollsAddUp
  BY DEF PollsCounted
<1> QED
  BY <1>1, <1>2, PollsCountedStep, ShapeAlways, PTL DEF Spec

-----------------------------------------------------------------------------
(* Gauges *)

Named == {q \in Requests : request[q] = "named"}

(* The requests between the handlers and the environments are finitely many, *)
(* and their gauges are off by what has no counterpart.                      *)
RestCounted ==
    /\ IsFiniteSet(Named)
    /\ metrics.requests = Cardinality(Named) + ghost.unanswered - ghost.unasked
    /\ IsFiniteSet(envs)
    /\ metrics.containers = Cardinality(envs) + ghost.unstopped - ghost.unstarted

LEMMA RestCountedStep == Shape /\ RestCounted /\ [Next]_vars => RestCounted'
<1> SUFFICES ASSUME Shape, RestCounted, [Next]_vars PROVE RestCounted'
  OBVIOUS
<1>0. /\ metrics \in Metrics /\ ghost \in Ghosts
      /\ request \in [Requests -> {"none", "named", "plain"}]
  BY DEF Shape
<1>a. /\ IsFiniteSet(Named) /\ Cardinality(Named) \in Nat
      /\ metrics.requests = Cardinality(Named) + ghost.unanswered - ghost.unasked
      /\ IsFiniteSet(envs) /\ Cardinality(envs) \in Nat
      /\ metrics.containers = Cardinality(envs) + ghost.unstopped - ghost.unstarted
  BY FS_CardinalityType DEF RestCounted
<1>b. /\ ghost.unanswered \in Nat /\ ghost.unasked \in Nat
      /\ ghost.unstopped \in Nat /\ ghost.unstarted \in Nat
      /\ metrics.requests \in Int /\ metrics.containers \in Int
  BY <1>0 DEF Metrics, Ghosts
<1> DEFINE SameRequests == /\ metrics'.requests = metrics.requests /\ request' = request
                           /\ ghost'.unanswered = ghost.unanswered /\ ghost'.unasked = ghost.unasked
           SameContainers == /\ metrics'.containers = metrics.containers /\ envs' = envs
                             /\ ghost'.unstopped = ghost.unstopped /\ ghost'.unstarted = ghost.unstarted
           RequestsCounted == /\ IsFiniteSet(Named)
                              /\ metrics.requests = Cardinality(Named) + ghost.unanswered - ghost.unasked
           ContainersCounted == /\ IsFiniteSet(envs)
                                /\ metrics.containers = Cardinality(envs) + ghost.unstopped - ghost.unstarted
<1>c. ASSUME SameRequests PROVE RequestsCounted'
  BY <1>a, <1>c DEF Named
<1>d. ASSUME SameContainers PROVE ContainersCounted'
  BY <1>a, <1>d
<1>e. ASSUME RequestsCounted', ContainersCounted' PROVE RestCounted'
  BY <1>e DEF RestCounted
<1>1. ASSUME NEW q \in Requests, RequestEnters(q) PROVE RestCounted'
  <2>1. SameContainers
    BY <1>0, <1>1 DEF RequestEnters, Metrics
  <2>2. ghost' = ghost
    BY <1>1 DEF RequestEnters
  <2>3. CASE request' = [request EXCEPT ![q] = "named"] /\ metrics' = [metrics EXCEPT !.requests = @ + 1]
    <3>1. Named' = Named \cup {q} /\ q \notin Named
      BY <1>0, <1>1, <2>3 DEF RequestEnters, Named
    <3>2. IsFiniteSet(Named') /\ Cardinality(Named') = Cardinality(Named) + 1
      BY <1>a, <3>1, FS_AddElement
    <3>3. metrics'.requests = metrics.requests + 1
      BY <1>0, <2>3 DEF Metrics
    <3>4. RequestsCounted'
      BY <1>a, <1>b, <2>2, <3>2, <3>3
    <3> QED
      BY <1>d, <1>e, <2>1, <3>4
  <2>4. CASE request' = [request EXCEPT ![q] = "plain"] /\ UNCHANGED metrics
    <3>1. Named' = Named
      BY <1>0, <1>1, <2>4 DEF RequestEnters, Named
    <3>2. RequestsCounted'
      BY <1>a, <2>2, <2>4, <3>1
    <3> QED
      BY <1>d, <1>e, <2>1, <3>2
  <2> QED
    BY <1>1, <2>3, <2>4 DEF RequestEnters
<1>2. ASSUME NEW q \in Requests, ResponseLeaves(q) PROVE RestCounted'
  <2>1. SameContainers
    BY <1>0, <1>2 DEF ResponseLeaves, Metrics, Ghosts
  <2>2. CASE request[q] = "named"
    <3>1. Named' = Named \ {q} /\ q \in Named
      BY <1>0, <1>2, <2>2 DEF ResponseLeaves, Named
    <3>2. IsFiniteSet(Named') /\ Cardinality(Named') = Cardinality(Named) - 1
      BY <1>a, <3>1, FS_RemoveElement
    <3>3. \/ metrics'.requests = metrics.requests - 1 /\ ghost' = ghost
          \/ /\ metrics' = metrics
             /\ ghost'.unanswered = ghost.unanswered + 1 /\ ghost'.unasked = ghost.unasked
      BY <1>0, <1>2, <2>2 DEF ResponseLeaves, Metrics, Ghosts
    <3>4. RequestsCounted'
      <4>1. CASE metrics'.requests = metrics.requests - 1 /\ ghost' = ghost
        BY <1>a, <1>b, <3>2, <4>1
      <4>2. CASE /\ metrics' = metrics
                 /\ ghost'.unanswered = ghost.unanswered + 1 /\ ghost'.unasked = ghost.unasked
        BY <1>a, <1>b, <3>2, <4>2
      <4> QED
        BY <3>3, <4>1, <4>2
    <3> QED
      BY <1>d, <1>e, <2>1, <3>4
  <2>3. CASE request[q] # "named"
    <3>1. Named' = Named
      BY <1>0, <1>2, <2>3 DEF ResponseLeaves, Named
    <3>2. \/ metrics' = metrics /\ ghost' = ghost
          \/ /\ metrics'.requests = metrics.requests - 1
             /\ ghost'.unasked = ghost.unasked + 1 /\ ghost'.unanswered = ghost.unanswered
      BY <1>0, <1>2, <2>3 DEF ResponseLeaves, Metrics, Ghosts
    <3>3. RequestsCounted'
      BY <1>a, <1>b, <3>1, <3>2
    <3> QED
      BY <1>d, <1>e, <2>1, <3>3
  <2> QED
    BY <2>2, <2>3
<1>3. ASSUME NEW p \in Pollers, StartEnvironment(p) PROVE RestCounted'
  <2>1. PICK e \in OnDemand \ envs : envs' = envs \cup {e}
    BY <1>3 DEF StartEnvironment
  <2>2. IsFiniteSet(envs') /\ Cardinality(envs') = Cardinality(envs) + 1
    BY <1>a, <2>1, FS_AddElement
  <2>3. /\ metrics'.containers = metrics.containers + 1
        /\ ghost'.unstopped = ghost.unstopped /\ ghost'.unstarted = ghost.unstarted
    BY <1>0, <1>3 DEF StartEnvironment, Metrics, Ghosts
  <2>4. SameRequests
    BY <1>0, <1>3 DEF StartEnvironment, Metrics, Ghosts
  <2>5. ContainersCounted'
    BY <1>a, <1>b, <2>2, <2>3
  <2> QED
    BY <1>c, <1>e, <2>4, <2>5
<1>4. ASSUME NEW p \in Pollers, StartFails(p) PROVE RestCounted'
  <2>1. \/ metrics' = metrics /\ ghost' = ghost
        \/ /\ metrics'.containers = metrics.containers - 1
           /\ ghost'.unstarted = ghost.unstarted + 1 /\ ghost'.unstopped = ghost.unstopped
    BY <1>0, <1>4 DEF StartFails, Metrics, Ghosts
  <2>2. SameRequests
    BY <1>0, <1>4 DEF StartFails, Metrics, Ghosts
  <2>3. ContainersCounted'
    BY <1>a, <1>b, <1>4, <2>1 DEF StartFails
  <2> QED
    BY <1>c, <1>e, <2>2, <2>3
<1>5. ASSUME NEW e \in Environments, StopIdle(e) PROVE RestCounted'
  <2>1. e \in envs /\ envs' = envs \ {e}
    BY <1>5 DEF StopIdle, Free
  <2>2. IsFiniteSet(envs') /\ Cardinality(envs') = Cardinality(envs) - 1
    BY <1>a, <2>1, FS_RemoveElement
  <2>3. \/ metrics'.containers = metrics.containers - 1 /\ ghost' = ghost
        \/ /\ metrics' = metrics
           /\ ghost'.unstopped = ghost.unstopped + 1 /\ ghost'.unstarted = ghost.unstarted
    BY <1>0, <1>5 DEF StopIdle, Metrics, Ghosts
  <2>4. SameRequests
    BY <1>0, <1>5 DEF StopIdle, Metrics, Ghosts
  <2>5. ContainersCounted'
    BY <1>a, <1>b, <2>2, <2>3
  <2> QED
    BY <1>c, <1>e, <2>4, <2>5
<1> DEFINE Same == SameRequests /\ SameContainers
<1>6. ASSUME NEW p \in Pollers, PollBegins(p) \/ PollReturns(p) \/ PollMisses(p) \/ PollFails(p) \/ PollSends(p)
      PROVE  Same
  BY <1>0, <1>6 DEF PollBegins, PollReturns, PollMisses, PollFails, PollSends, Metrics, Ghosts
<1>7. ASSUME NEW p \in Pollers, SendNothing(p) \/ DelayUnreadable(p) \/ SendBegins(p) PROVE Same
  BY <1>0, <1>7 DEF SendNothing, DelayUnreadable, SendBegins, Metrics, Ghosts
<1>8. ASSUME NEW p \in Pollers, SendSucceeds(p) \/ SendFails(p) PROVE Same
  BY <1>0, <1>8 DEF SendSucceeds, SendFails, Succeeded, Failed, Metrics, Ghosts
<1>9. ASSUME NEW p \in Pollers, CountStart(p) \/ ReuseEnvironment(p) PROVE Same
  BY <1>0, <1>9 DEF CountStart, ReuseEnvironment, Metrics
<1>10. ASSUME UNCHANGED vars PROVE Same
  BY <1>10 DEF vars
<1>11. ASSUME Same PROVE RestCounted'
  BY <1>c, <1>d, <1>e, <1>11
<1> QED
  BY <1>1, <1>2, <1>3, <1>4, <1>5, <1>6, <1>7, <1>8, <1>9, <1>10, <1>11 DEF Next, Poll

LEMMA RestAlwaysCounted == Spec => [](Shape /\ RestCounted)
<1>1. Init => RestCounted
  <2> SUFFICES ASSUME Init PROVE RestCounted
    OBVIOUS
  <2>1. Named = {} /\ envs = Provisioned
    BY DEF Init, Named
  <2>2. IsFiniteSet({}) /\ Cardinality({}) = 0 /\ Cardinality(Provisioned) \in Nat
    BY FS_EmptySet, FS_CardinalityType, EnvironmentsAssumption
  <2> QED
    BY <2>1, <2>2, EnvironmentsAssumption DEF Init, RestCounted
<1> QED
  BY <1>1, RestCountedStep, ShapeAlways, PTL DEF Spec

(* The gauge of what is in flight is the number of batches that are being   *)
(* processed, and the other two are off only by halves without counterpart. *)
THEOREM GaugesAlwaysMatch == Spec => []GaugesMatch
<1>1. SendsCounted /\ RestCounted => GaugesMatch
  BY DEF SendsCounted, RestCounted, Named, GaugesMatch
<1> QED
  BY <1>1, SendsAlwaysCounted, RestAlwaysCounted, PTL

(* Threads are at a step of theirs, no counter is negative, nor is the gauge *)
(* of what is in flight.                                                    *)
THEOREM PrometheusTypeCorrect == Spec => []TypeOK
<1>1. Shape /\ SendsCounted => TypeOK
  <2> SUFFICES ASSUME Shape, SendsCounted PROVE TypeOK
    OBVIOUS
  <2>1. metrics.in_flight \in Nat
    BY FS_CardinalityType DEF SendsCounted
  <2>2. metrics \in Metrics
    BY DEF Shape
  <2>3. metrics \in [requests : Int, in_flight : Nat, containers : Int, success : Nat, error : Nat,
                     errors : Nat, misses : Nat, cold : Nat, warm : Nat]
    BY <2>1, <2>2 DEF Metrics
  <2> QED
    BY <2>3 DEF Shape, Ghosts, Steps, TypeOK
<1> QED
  BY <1>1, SendsAlwaysCounted, PTL

-----------------------------------------------------------------------------
(* Cold starts *)

(* Whoever asks for an environment has counted its start; an on-demand        *)
(* environment has started before; and if either happened, a start was cold. *)
ColdFirst ==
    /\ \A p \in Pollers : at[p] \in {"counted", "running"} => metrics.cold > 0
    /\ envs \cap OnDemand # {} => ghost.started
    /\ FirstStartIsCold

LEMMA ColdStep == Shape /\ ColdFirst /\ [Next]_vars => ColdFirst'
<1> SUFFICES ASSUME Shape, ColdFirst, [Next]_vars PROVE ColdFirst'
  OBVIOUS
<1>0. /\ metrics \in Metrics /\ ghost \in Ghosts /\ metrics.cold \in Nat
      /\ at \in [Pollers -> Steps]
  BY DEF Shape, Metrics
<1>1. ASSUME NEW p \in Pollers, CountStart(p) PROVE ColdFirst'
  <2>1. at' = [at EXCEPT ![p] = "counted"] /\ envs' = envs /\ ghost' = ghost
    BY <1>1 DEF CountStart, Move
  <2>2. CASE envs \cap OnDemand = {}
    <3>1. Cardinality(envs \cap OnDemand) = 0
      BY <2>2, FS_EmptySet
    <3>2. metrics' = [metrics EXCEPT !.cold = @ + 1]
      BY <1>1, <3>1 DEF CountStart, count_version_environments
    <3>3. metrics'.cold > 0
      BY <1>0, <3>2 DEF Metrics
    <3> QED
      BY <2>1, <2>2, <3>3 DEF ColdFirst, FirstStartIsCold, OnDemand
  <2>3. CASE envs \cap OnDemand # {}
    <3>1. ghost.started /\ metrics.cold > 0
      BY <2>3 DEF ColdFirst, FirstStartIsCold
    <3>2. metrics'.cold = metrics.cold \/ metrics'.cold = metrics.cold + 1
      BY <1>0, <1>1 DEF CountStart, Metrics
    <3>3. metrics'.cold > 0
      BY <1>0, <3>1, <3>2
    <3> QED
      BY <2>1, <3>1, <3>3 DEF ColdFirst, FirstStartIsCold
  <2> QED
    BY <2>2, <2>3
<1>2. ASSUME NEW p \in Pollers, StartEnvironment(p) PROVE ColdFirst'
  <2>1. metrics.cold > 0 /\ at[p] = "counted"
    BY <1>2 DEF StartEnvironment, ColdFirst
  <2>2. metrics'.cold = metrics.cold
    BY <1>0, <1>2 DEF StartEnvironment, Metrics
  <2>3. ghost'.started
    BY <1>0, <1>2 DEF StartEnvironment, Ghosts
  <2> QED
    BY <2>1, <2>2, <2>3 DEF ColdFirst, FirstStartIsCold
<1> DEFINE Later == /\ \A p \in Pollers : at'[p] \in {"counted", "running"} => at[p] \in {"counted", "running"}
                    /\ envs' \subseteq envs
                    /\ ghost'.started = ghost.started
                    /\ metrics'.cold = metrics.cold
<1>3. ASSUME NEW q \in Requests, RequestEnters(q) \/ ResponseLeaves(q) PROVE Later
  BY <1>0, <1>3 DEF RequestEnters, ResponseLeaves, Metrics, Ghosts
<1>4. ASSUME NEW e \in Environments, StopIdle(e) PROVE Later
  BY <1>0, <1>4 DEF StopIdle, Metrics, Ghosts
<1>5. ASSUME NEW p \in Pollers, PollBegins(p) \/ PollReturns(p) \/ PollMisses(p) \/ PollFails(p) PROVE Later
  BY <1>0, <1>5 DEF PollBegins, PollReturns, PollMisses, PollFails, Move, Metrics, Ghosts
<1>6. ASSUME NEW p \in Pollers, PollSends(p) \/ SendBegins(p) PROVE Later
  BY <1>0, <1>6 DEF PollSends, SendBegins, Move, Metrics, Ghosts
<1>7. ASSUME NEW p \in Pollers, SendNothing(p) \/ DelayUnreadable(p) PROVE Later
  BY <1>0, <1>7 DEF SendNothing, DelayUnreadable, BackToPoll, Move
<1>8. ASSUME NEW p \in Pollers, SendSucceeds(p) \/ SendFails(p) PROVE Later
  <2>1. Move(p, "polling") /\ envs' = envs
    BY <1>8 DEF SendSucceeds, SendFails, BackToPoll
  <2>2. metrics'.cold = metrics.cold
    BY <1>0, <1>8 DEF SendSucceeds, SendFails, Succeeded, Failed, Metrics
  <2>3. ghost'.started = ghost.started
    BY <1>0, <1>8 DEF SendSucceeds, SendFails, Ghosts
  <2> QED
    BY <1>0, <2>1, <2>2, <2>3 DEF Move
<1>9. ASSUME NEW p \in Pollers, ReuseEnvironment(p) PROVE Later
  BY <1>0, <1>9 DEF ReuseEnvironment, Move
<1>10. ASSUME NEW p \in Pollers, StartFails(p) PROVE Later
  BY <1>0, <1>10 DEF StartFails, Move, Metrics, Ghosts
<1>11. ASSUME UNCHANGED vars PROVE Later
  BY <1>11 DEF vars
<1>12. ASSUME Later PROVE ColdFirst'
  BY <1>12 DEF ColdFirst, FirstStartIsCold, OnDemand
<1> QED
  BY <1>1, <1>2, <1>3, <1>4, <1>5, <1>6, <1>7, <1>8, <1>9, <1>10, <1>11, <1>12 DEF Next, Poll

(* No on-demand environment starts before a start was counted as cold.      *)
THEOREM FirstStartIsCountedCold == Spec => []FirstStartIsCold
<1>1. Init => ColdFirst
  BY EnvironmentsAssumption DEF Init, ColdFirst, FirstStartIsCold, OnDemand
<1>2. ColdFirst => FirstStartIsCold
  BY DEF ColdFirst
<1> QED
  BY <1>1, <1>2, ColdStep, ShapeAlways, PTL DEF Spec
=============================================================================
