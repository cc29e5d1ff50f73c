------------------------- MODULE PrometheusMetrics -------------------------
(***************************************************************************)
(* The prometheus extension: what its patches of LocalStack's pollers,     *)
(* senders and Lambda environments, and its two handlers, add to the       *)
(* metrics while pollers, invocations and requests run concurrently.       *)
(*                                                                         *)
(* A poll hands batches to its sender, the sender invokes the target       *)
(* function, the invocation takes an environment that is free or starts    *)
(* one.  The patched functions themselves are LocalStack's and not to be   *)
(* seen in this repository: they may do whatever the patches leave open    *)
(* to them.  One function is the target of all pollers, its invocations    *)
(* are on demand; labels and histograms are left out.                      *)
(***************************************************************************)
EXTENDS Integers, FiniteSets

CONSTANTS
    Pollers,
    Requests,
    Environments,  \* names of Lambda environments
    Provisioned,   \* those of provisioned concurrency, started before all else
    Sizes,         \* sizes of batches
    MaxPolls,      \* bound: polls that begin
    MaxSends,      \* bound: batches handed to the sender, those sent again included
    MaxUnpaired,   \* bound: halves of a gauge that have no counterpart
    None

ASSUME EnvironmentsAssumption == /\ Provisioned \subseteq Environments /\ None \notin Environments
                                 /\ IsFiniteSet(Provisioned)
ASSUME BoundsAssumption == Sizes \cup {MaxPolls, MaxSends, MaxUnpaired} \subseteq Nat

VARIABLES
    at,       \* poller |-> where its thread is
    size,     \* poller |-> events of the batch its sender has, or 0
    held,     \* poller |-> environment its invocation holds, or None
    envs,     \* environments that AssignmentService knows
    request,  \* request |-> "none", "named" (with service_operation) or "plain"
    metrics,  \* the gauges and counters
    ghost     \* what really happened, to compare them with: polls begun and returned,
              \* batches handed to the sender, failed sends, events handed to a target,
              \* whether an on-demand environment ever started, and the halves of the
              \* gauges that have no counterpart

vars == <<at, size, held, envs, request, metrics, ghost>>

Init ==
    /\ at = [p \in Pollers |-> "idle"]
    /\ size = [p \in Pollers |-> 0]
    /\ held = [p \in Pollers |-> None]
    /\ envs = Provisioned
    /\ request = [q \in Requests |-> "none"]
    /\ metrics = [requests |-> 0, in_flight |-> 0, containers |-> Cardinality(Provisioned),
                  success |-> 0, error |-> 0, errors |-> 0, misses |-> 0, cold |-> 0, warm |-> 0]
    /\ ghost = [polls |-> 0, sends |-> 0, returned |-> 0, failures |-> 0, handed |-> 0,
                started |-> FALSE, unasked |-> 0, unanswered |-> 0, unstarted |-> 0, unstopped |-> 0]

Move(p, to) == at' = [at EXCEPT ![p] = to]

\* The bound on halves without a counterpart is not yet reached.
MayDrift == ghost.unasked + ghost.unanswered + ghost.unstarted + ghost.unstopped < MaxUnpaired

-----------------------------------------------------------------------------
(* RequestMetricsHandler and ResponseMetricsHandler *)

(* A request that never meets the handler is as one without service_operation. *)
RequestEnters(q) ==
    /\ request[q] = "none"
    /\ \/ /\ request' = [request EXCEPT ![q] = "named"]
          /\ metrics' = [metrics EXCEPT !.requests = @ + 1]
       \/ /\ request' = [request EXCEPT ![q] = "plain"]
          /\ UNCHANGED metrics
    /\ UNCHANGED <<at, size, held, envs, ghost>>

(* With a response, without one, without a start_time or after a service      *)
(* exception: the gauge falls first.  service_operation is read anew; a named *)
(* request that does not meet the handler is as one that has lost it.         *)
ResponseLeaves(q) ==
    /\ request[q] # "none"
    /\ request' = [request EXCEPT ![q] = "none"]
    /\ \/ /\ request[q] = "named"
          /\ metrics' = [metrics EXCEPT !.requests = @ - 1]
          /\ UNCHANGED ghost
       \/ request[q] = "plain" /\ UNCHANGED <<metrics, ghost>>
       \/ /\ request[q] = "plain" /\ MayDrift
          /\ metrics' = [metrics EXCEPT !.requests = @ - 1]
          /\ ghost' = [ghost EXCEPT !.unasked = @ + 1]
       \/ /\ request[q] = "named" /\ MayDrift
          /\ ghost' = [ghost EXCEPT !.unanswered = @ + 1]
          /\ UNCHANGED metrics
    /\ UNCHANGED <<at, size, held, envs>>

-----------------------------------------------------------------------------
(* tracked_poll_events around poll_events *)

PollBegins(p) ==
    /\ at[p] = "idle"
    /\ ghost.polls < MaxPolls
    /\ Move(p, "polling")
    /\ ghost' = [ghost EXCEPT !.polls = @ + 1]
    /\ UNCHANGED <<size, held, envs, request, metrics>>

(* The poll returns, whatever became of its batches: a poller may keep the *)
(* failure of a send to itself.                                            *)
PollReturns(p) ==
    /\ at[p] = "polling"
    /\ Move(p, "idle")
    /\ ghost' = [ghost EXCEPT !.returned = @ + 1]
    /\ UNCHANGED <<size, held, envs, request, metrics>>

(* EmptyPollResultsException, from wherever in the poll. *)
PollMisses(p) ==
    /\ at[p] = "polling"
    /\ Move(p, "idle")
    /\ metrics' = [metrics EXCEPT !.misses = @ + 1]
    /\ UNCHANGED <<size, held, envs, request, ghost>>

\* Faulty: the exception passes uncounted.
PollFailsUncounted(p) ==
    /\ at[p] = "polling"
    /\ Move(p, "idle")
    /\ UNCHANGED <<size, held, envs, request, metrics, ghost>>

(* Any other exception, that of a send included, is counted and raised again. *)
PollFails(p) ==
    /\ at[p] = "polling"
    /\ Move(p, "idle")
    /\ metrics' = [metrics EXCEPT !.errors = @ + 1]
    /\ UNCHANGED <<size, held, envs, request, ghost>>

(* A batch goes to the sender: the first or the next of the poll, or one that *)
(* failed, once more, whole or in part.                                       *)
PollSends(p) ==
    /\ at[p] = "polling"
    /\ ghost.sends < MaxSends
    /\ Move(p, "batch")
    /\ \E n \in Sizes : size' = [size EXCEPT ![p] = n]
    /\ ghost' = [ghost EXCEPT !.sends = @ + 1]
    /\ UNCHANGED <<held, envs, request, metrics>>

-----------------------------------------------------------------------------
(* tracked_send_events around send_events, which returns to the poll or raises *)
(* into it                                                                     *)

BackToPoll(p) ==
    /\ Move(p, "polling")
    /\ size' = [size EXCEPT ![p] = 0]

(* No events: nothing of the send is tracked. *)
SendNothing(p) ==
    /\ at[p] = "batch" /\ size[p] = 0
    /\ BackToPoll(p)
    /\ UNCHANGED <<held, envs, request, metrics, ghost>>

(* A timestamp that float() refuses: the batch is not sent, and nothing is *)
(* counted of it here.                                                      *)
DelayUnreadable(p) ==
    /\ at[p] = "batch" /\ size[p] > 0
    /\ BackToPoll(p)
    /\ UNCHANGED <<held, envs, request, metrics, ghost>>

SendBegins(p) ==
    /\ at[p] = "batch" /\ size[p] > 0
    /\ Move(p, "sending")
    /\ metrics' = [metrics EXCEPT !.in_flight = @ + 1]
    /\ ghost' = [ghost EXCEPT !.handed = @ + size[p]]
    /\ UNCHANGED <<size, held, envs, request>>

\* The counters of a send that ends, and its finally.
Succeeded(p) == [metrics EXCEPT !.success = @ + size[p], !.in_flight = @ - 1]
\* Faulty: the gauge falls only after a success.
FailedWithoutFinally(p) == [metrics EXCEPT !.errors = @ + 1, !.error = @ + size[p]]
\* Faulty: the gauge falls with the exception and finally.
FailedTwice(p) == [metrics EXCEPT !.errors = @ + 1, !.error = @ + size[p], !.in_flight = @ - 2]
\* Faulty: one for the batch.
FailedPerBatch(p) == [metrics EXCEPT !.errors = @ + 1, !.error = @ + 1, !.in_flight = @ - 1]
Failed(p) == [metrics EXCEPT !.errors = @ + 1, !.error = @ + size[p], !.in_flight = @ - 1]

SendSucceeds(p) ==
    /\ at[p] = "running"
    /\ BackToPoll(p)
    /\ metrics' = Succeeded(p)
    /\ held' = [held EXCEPT ![p] = None]
    /\ UNCHANGED <<envs, request, ghost>>

(* The send raises, before, while or after it gets an environment, which goes *)
(* back or is stopped (StopIdle).                                             *)
SendFails(p) ==
    /\ at[p] \in {"sending", "counted", "failed", "running"}
    /\ BackToPoll(p)
    /\ metrics' = Failed(p)
    /\ ghost' = [ghost EXCEPT !.failures = @ + 1]
    /\ held' = [held EXCEPT ![p] = None]
    /\ UNCHANGED <<envs, request>>

-----------------------------------------------------------------------------
(* tracked_get_environment around get_environment, and the containers *)

OnDemand == Environments \ Provisioned

\* Faulty: whatever their type.
count_all_environments(type) == Cardinality(envs)
count_version_environments(type) == Cardinality(envs \cap type)

(* The start is classified before an environment is asked for. *)
CountStart(p) ==
    /\ at[p] = "sending"
    /\ Move(p, "counted")
    /\ metrics' = IF count_version_environments(OnDemand) > 0
                  THEN [metrics EXCEPT !.warm = @ + 1]
                  ELSE [metrics EXCEPT !.cold = @ + 1]
    /\ UNCHANGED <<size, held, envs, request, ghost>>

Free == (envs \cap OnDemand) \ {held[p] : p \in Pollers}

ReuseEnvironment(p) ==
    /\ at[p] = "counted"
    /\ \E e \in Free : held' = [held EXCEPT ![p] = e]
    /\ Move(p, "running")
    /\ UNCHANGED <<size, envs, request, metrics, ghost>>

(* tracked_docker_start: counted once the container has started. *)
StartEnvironment(p) ==
    /\ at[p] = "counted"
    /\ Free = {}
    /\ \E e \in OnDemand \ envs :
          /\ envs' = envs \cup {e}
          /\ held' = [held EXCEPT ![p] = e]
    /\ Move(p, "running")
    /\ metrics' = [metrics EXCEPT !.containers = @ + 1]
    /\ ghost' = [ghost EXCEPT !.started = TRUE]
    /\ UNCHANGED <<size, request>>

(* The start raises and is not counted.  LocalStack may stop what it could   *)
(* not start, and tracked_docker_stop counts every stop.                      *)
StartFails(p) ==
    /\ at[p] = "counted"
    /\ Free = {}
    /\ Move(p, "failed")
    /\ \/ UNCHANGED <<metrics, ghost>>
       \/ /\ MayDrift
          /\ metrics' = [metrics EXCEPT !.containers = @ - 1]
          /\ ghost' = [ghost EXCEPT !.unstarted = @ + 1]
    /\ UNCHANGED <<size, held, envs, request>>

(* tracked_docker_stop, of an environment that nobody holds; a stop that raises *)
(* is not counted, though the environment is given up.                          *)
StopIdle(e) ==
    /\ e \in Free
    /\ envs' = envs \ {e}
    /\ \/ metrics' = [metrics EXCEPT !.containers = @ - 1] /\ UNCHANGED ghost
       \/ /\ MayDrift
          /\ ghost' = [ghost EXCEPT !.unstopped = @ + 1]
          /\ UNCHANGED metrics
    /\ UNCHANGED <<at, size, held, request>>

-----------------------------------------------------------------------------
Poll(p) ==
    \/ PollBegins(p) \/ PollReturns(p) \/ PollMisses(p) \/ PollFails(p) \/ PollSends(p)
    \/ SendNothing(p) \/ DelayUnreadable(p) \/ SendBegins(p) \/ SendSucceeds(p) \/ SendFails(p)
    \/ CountStart(p) \/ ReuseEnvironment(p) \/ StartEnvironment(p) \/ StartFails(p)

Next ==
    \/ \E p \in Pollers : Poll(p)
    \/ \E q \in Requests : RequestEnters(q) \/ ResponseLeaves(q)
    \/ \E e \in Environments : StopIdle(e)

Spec == Init /\ [][Next]_vars

-----------------------------------------------------------------------------
(* Type correctness: threads are at a step of theirs, no counter is negative,   *)
(* nor is the gauge of the batches in flight, whose two halves are one function. *)
TypeOK ==
    /\ at \in [Pollers -> {"idle", "polling", "batch", "sending", "counted", "failed", "running"}]
    /\ size \in [Pollers -> Sizes \cup {0}]
    /\ held \in [Pollers -> OnDemand \cup {None}]
    /\ Provisioned \subseteq envs /\ envs \subseteq Environments
    /\ request \in [Requests -> {"none", "named", "plain"}]
    /\ metrics \in [requests : Int, in_flight : Nat, containers : Int, success : Nat, error : Nat,
                   errors : Nat, misses : Nat, cold : Nat, warm : Nat]
    /\ ghost \in [polls : Nat, sends : Nat, returned : Nat, failures : Nat, handed : Nat, started : BOOLEAN,
                 unasked : Nat, unanswered : Nat, unstarted : Nat, unstopped : Nat]

Sending == {p \in Pollers : at[p] \in {"sending", "counted", "failed", "running"}}

\* The events that a target is processing: of each such poller, those of its batch.
InFlight == UNION {{p} \X (1..size[p]) : p \in Sending}

(* The gauge of what is in flight is the number of batches that a target is     *)
(* processing, whatever fails on whichever thread.  The other two, whose halves *)
(* are functions of their own, are the number of requests between the handlers  *)
(* and of the environments' containers, off by the halves without a counterpart *)
(* and by nothing else: a failed start that is stopped and a stop that fails,   *)
(* a request named at one handler only.                                         *)
GaugesMatch ==
    /\ metrics.in_flight = Cardinality(Sending)
    /\ metrics.requests = Cardinality({q \in Requests : request[q] = "named"})
                            + ghost.unanswered - ghost.unasked
    /\ metrics.containers = Cardinality(envs) + ghost.unstopped - ghost.unstarted

(* Every event handed to a target is counted once, as a success or as an error, *)
(* or is still in flight; an event sent again is handed over again.             *)
EventsAddUp ==
    ghost.handed = metrics.success + metrics.error + Cardinality(InFlight)

Polling == {p \in Pollers : at[p] # "idle"}

(* Every poll that began is under way, has returned, was a miss, or raised and  *)
(* was counted as an error; besides, a failed send counts as an error of its    *)
(* own, also when it makes its poll raise.  A batch that is not sent because of *)
(* its timestamps is no failed send, and counts only if its poll raises.        *)
PollsAddUp ==
    ghost.polls = Cardinality(Polling) + ghost.returned
                    + metrics.misses + (metrics.errors - ghost.failures)

(* A start is classified by a count that is taken before the environment, so    *)
(* that overlapping invocations blur it; but no on-demand environment starts    *)
(* before a start was counted as cold, whatever else is running.                *)
FirstStartIsCold == ghost.started => metrics.cold > 0
=============================================================================
