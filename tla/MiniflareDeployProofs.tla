----------------------- MODULE MiniflareDeployProofs ------------------------
(***************************************************************************)
(* Proofs about MiniflareDeploy, for any accounts, names, deployments,     *)
(* invocations, secrets and ports: its type invariant, its safety          *)
(* invariants and that a deployed name stays known.                        *)
(***************************************************************************)
EXTENDS MiniflareDeploy, TLAPS

-----------------------------------------------------------------------------
(* Types *)

(* A deployment that moves on moves to a place of its handler.             *)
LEMMA PcTyped ==
  ASSUME TypeOK, NEW d \in Deploys,
         NEW to \in {"begun", "picked", "recorded", "bound", "replaced", "started",
                    "done", "failed"},
         pc' = [pc EXCEPT ![d] = to]
  PROVE  pc' \in [Deploys -> {"idle", "begun", "picked", "recorded", "bound", "replaced",
                             "started", "done", "failed"}]
BY DEF TypeOK

CallStates == {"idle", "unknown", "routed", "refused", "answered"}
CallRecords == [state : CallStates, name : Names \cup {None}, port : Ports \cup {None},
                by : Deploys \cup {None}]

(* What an invocation has come to is a record of its own kind.             *)
LEMMA RouteTyped ==
  ASSUME TypeOK, NEW i \in Calls, NEW n \in Names, Route(i, n)
  PROVE  call' \in [Calls -> CallRecords]
<1> DEFINE d == SCRIPT_SERVERS[n]
           new == IF d = None THEN [call[i] EXCEPT !.state = "unknown", !.name = n]
                  ELSE [call[i] EXCEPT !.state = "routed", !.name = n, !.port = port[d]]
<1>1. call \in [Calls -> CallRecords] /\ call[i] \in CallRecords
  BY DEF TypeOK, CallRecords, CallStates
<1>2. d # None => port[d] \in Ports \cup {None}
  BY DEF TypeOK
<1>3. new \in CallRecords
  BY <1>1, <1>2 DEF CallRecords, CallStates
<1>4. call' = [call EXCEPT ![i] = new]
  BY DEF Route
<1>5. QED
  BY <1>1, <1>3, <1>4

LEMMA ForwardTyped ==
  ASSUME TypeOK, NEW i \in Calls, Forward(i)
  PROVE  call' \in [Calls -> CallRecords]
<1>1. call \in [Calls -> CallRecords] /\ call[i] \in CallRecords
  BY DEF TypeOK, CallRecords, CallStates
<1>2. CASE call' = [call EXCEPT ![i].state = "refused"]
  <2>1. [call[i] EXCEPT !.state = "refused"] \in CallRecords
    BY <1>1 DEF CallRecords, CallStates
  <2>2. QED
    BY <1>1, <1>2, <2>1
<1>3. ASSUME NEW d \in Deploys,
             call' = [call EXCEPT ![i].state = "answered", ![i].by = d]
      PROVE  call' \in [Calls -> CallRecords]
  <2>1. [call[i] EXCEPT !.state = "answered", !.by = d] \in CallRecords
    BY <1>1 DEF CallRecords, CallStates
  <2>2. call' = [call EXCEPT ![i] = [call[i] EXCEPT !.state = "answered", !.by = d]]
    BY <1>1, <1>3
  <2>3. QED
    BY <1>1, <2>1, <2>2
<1>4. QED
  BY <1>2, <1>3 DEF Forward

(* A deployment has a target once it has begun, a server only when its     *)
(* handler has started one, and is registered, or shut down, only for its  *)
(* own name and when its handler is done.                                  *)
Shape ==
  /\ \A d \in Deploys :
       /\ pc[d] # "idle" => target[d] \in Targets
       /\ server[d] # "none" => pc[d] \in {"started", "done"}
       /\ d \in shut => pc[d] = "done"
  /\ \A n \in Names :
       LET d == SCRIPT_SERVERS[n]
       IN  d # None => pc[d] = "done" /\ target[d].name = n

(* Every step of a handler, of a server and of an invocation keeps the     *)
(* types.                                                                  *)
LEMMA TypeStep == TypeOK /\ Shape /\ [Next]_vars => TypeOK'
<1> SUFFICES ASSUME TypeOK, Shape, [Next]_vars PROVE TypeOK'
  OBVIOUS
<1> USE DEF deployVars, accountVars, serverVars
<1>1. ASSUME NEW d \in Deploys, Begin(d) PROVE TypeOK'
  <2>1. PICK t \in Targets :
          /\ target' = [target EXCEPT ![d] = t]
          /\ overlapped' \subseteq Deploys
    BY <1>1 DEF Begin, TypeOK
  <2>2. pc' = [pc EXCEPT ![d] = "begun"]
        /\ UNCHANGED <<port, bound, accountVars, serverVars, call>>
    BY <1>1 DEF Begin
  <2>3. QED
    BY <2>1, <2>2, PcTyped DEF TypeOK
<1>2. ASSUME NEW d \in Deploys, PickPort(d) PROVE TypeOK'
  <2>1. PICK p \in Ports : port' = [port EXCEPT ![d] = p]
    BY <1>2 DEF PickPort
  <2>2. /\ pc' = [pc EXCEPT ![d] = "picked"]
        /\ UNCHANGED <<target, bound, accountVars, serverVars, call, overlapped>>
    BY <1>2 DEF PickPort
  <2>3. port' \in [Deploys -> Ports \cup {None}]
    BY <2>1 DEF TypeOK
  <2>4. QED
    BY <2>2, <2>3, PcTyped DEF TypeOK
<1>3. ASSUME NEW d \in Deploys, Reject(d) PROVE TypeOK'
  BY <1>3, PcTyped DEF Reject, TypeOK
<1>4. ASSUME NEW d \in Deploys, Record(d) PROVE TypeOK'
  BY <1>4, PcTyped DEF Record, TypeOK
<1>5. ASSUME NEW d \in Deploys, BindSecrets(d) PROVE TypeOK'
  <2>1. secrets[target[d]] \in Secrets \cup {None}
    BY <1>5 DEF BindSecrets, Shape, TypeOK
  <2>2. QED
    BY <1>5, <2>1, PcTyped DEF BindSecrets, SecretOf, TypeOK
<1>6. ASSUME NEW d \in Deploys, ShutExisting(d) PROVE TypeOK'
  <2>1. SCRIPT_SERVERS[target[d].name] \in Deploys \cup {None}
    BY <1>6 DEF ShutExisting, Shape, Targets, TypeOK
  <2>2. QED
    BY <1>6, <2>1, PcTyped DEF ShutExisting, TypeOK
<1>7. ASSUME NEW d \in Deploys, StartServer(d) PROVE TypeOK'
  BY <1>7, PcTyped DEF StartServer, TypeOK
<1>8. ASSUME NEW d \in Deploys, RegisterServer(d) PROVE TypeOK'
  BY <1>8, PcTyped DEF RegisterServer, TypeOK
<1>9. ASSUME NEW d \in Deploys, Listens(d) \/ Exits(d) PROVE TypeOK'
  BY <1>9 DEF Listens, Exits, TypeOK
<1>10. ASSUME NEW t \in Targets, NEW s \in Secrets, PutSecret(t, s) PROVE TypeOK'
  BY <1>10 DEF PutSecret, TypeOK
<1>11. ASSUME NEW i \in Calls, Forward(i) PROVE TypeOK'
  BY <1>11, ForwardTyped DEF Forward, TypeOK, CallRecords, CallStates
<1>12. ASSUME NEW i \in Calls, NEW n \in Names, Route(i, n) PROVE TypeOK'
  BY <1>12, RouteTyped DEF Route, TypeOK, CallRecords, CallStates
<1>13. CASE UNCHANGED vars
  BY <1>13 DEF vars, TypeOK
<1>14. QED
  BY <1>1, <1>2, <1>3, <1>4, <1>5, <1>6, <1>7, <1>8, <1>9, <1>10, <1>11, <1>12,
     <1>13 DEF Next, Proceed

-----------------------------------------------------------------------------
(* The shape of a deployment *)

(* What the invariants below read; secrets, ports and invocations are not  *)
(* among it.                                                               *)
control == <<pc, target, scripts, SCRIPT_SERVERS, server, shut, overlapped>>

LEMMA QuietSteps ==
  ASSUME \/ \E t \in Targets, s \in Secrets : PutSecret(t, s)
         \/ \E i \in Calls : Forward(i) \/ \E n \in Names : Route(i, n)
         \/ UNCHANGED vars
  PROVE  UNCHANGED control
BY DEF PutSecret, Forward, Route, vars, control, deployVars, accountVars, serverVars

LEMMA ShapeStep == TypeOK /\ Shape /\ [Next]_vars => Shape'
<1> SUFFICES ASSUME TypeOK, Shape, [Next]_vars PROVE Shape'
  OBVIOUS
<1> USE MiniflareAssumption DEF deployVars, accountVars, serverVars
<1>1. ASSUME NEW d \in Deploys, Begin(d) PROVE Shape'
  <2>1. PICK t \in Targets : target' = [target EXCEPT ![d] = t]
    BY <1>1 DEF Begin
  <2>2. /\ pc[d] = "idle" /\ pc' = [pc EXCEPT ![d] = "begun"]
        /\ UNCHANGED <<SCRIPT_SERVERS, server, shut>>
    BY <1>1 DEF Begin
  <2>3. QED
    BY <2>1, <2>2 DEF Shape, TypeOK
<1>2. ASSUME NEW d \in Deploys, PickPort(d) \/ Reject(d) \/ Record(d) \/ BindSecrets(d)
      PROVE  Shape'
  <2>1. PICK to \in {"picked", "failed", "recorded", "bound"} :
          pc' = [pc EXCEPT ![d] = to]
    BY <1>2 DEF PickPort, Reject, Record, BindSecrets
  <2>2. /\ pc[d] \in {"begun", "picked", "recorded"}
        /\ UNCHANGED <<target, SCRIPT_SERVERS, server, shut>>
    BY <1>2 DEF PickPort, Reject, Record, BindSecrets
  <2>3. QED
    BY <2>1, <2>2 DEF Shape, TypeOK
<1>3. ASSUME NEW d \in Deploys, ShutExisting(d) PROVE Shape'
  <2>1. target[d].name \in Names
    BY <1>3 DEF ShutExisting, Shape, Targets
  <2>2. QED
    BY <1>3, <2>1 DEF ShutExisting, Shape, TypeOK
<1>4. ASSUME NEW d \in Deploys, StartServer(d) PROVE Shape'
  BY <1>4 DEF StartServer, Shape, TypeOK
<1>5. ASSUME NEW d \in Deploys, RegisterServer(d) PROVE Shape'
  <2>1. target[d].name \in Names
    BY <1>5 DEF RegisterServer, Shape, Targets
  <2>2. QED
    BY <1>5, <2>1 DEF RegisterServer, Shape, TypeOK
<1>6. ASSUME NEW d \in Deploys, Listens(d) \/ Exits(d) PROVE Shape'
  BY <1>6 DEF Listens, Exits, Alive, Shape, TypeOK
<1>7. CASE UNCHANGED control
  BY <1>7 DEF control, Shape
<1>8. QED
  BY <1>1, <1>2, <1>3, <1>4, <1>5, <1>6, <1>7, QuietSteps DEF Next, Proceed

THEOREM DeployShape == Spec => [](TypeOK /\ Shape)
<1>1. Init => TypeOK /\ Shape
  BY MiniflareAssumption DEF Init, TypeOK, Shape
<1>2. QED
  BY <1>1, TypeStep, ShapeStep, PTL DEF Spec

(* The state that the handlers share keeps its shape: a server that is     *)
(* shut down was registered, a worker is bound to a secret or to its own   *)
(* upload.                                                                 *)
THEOREM DeployTypeCorrect == Spec => []TypeOK
BY DeployShape, PTL

(* A target names a script.                                                *)
LEMMA TargetTyped ==
  ASSUME Shape, NEW d \in Deploys, pc[d] # "idle"
  PROVE  target[d] \in Targets /\ target[d].name \in Names
BY DEF Shape, Targets

-----------------------------------------------------------------------------
(* Names stay known *)

(* A name that was deployed has a registered server ever after.            *)
KnownInv ==
  \A d \in Deploys : pc[d] = "done" => SCRIPT_SERVERS[target[d].name] # None

LEMMA KnownStep == TypeOK /\ Shape /\ KnownInv /\ [Next]_vars => KnownInv'
<1> SUFFICES ASSUME TypeOK, Shape, KnownInv, [Next]_vars PROVE KnownInv'
  OBVIOUS
<1> USE MiniflareAssumption DEF accountVars, serverVars
<1>1. ASSUME NEW d \in Deploys, Begin(d) PROVE KnownInv'
  BY <1>1 DEF Begin, KnownInv, TypeOK
<1>2. ASSUME NEW d \in Deploys,
             PickPort(d) \/ Reject(d) \/ Record(d) \/ BindSecrets(d)
               \/ ShutExisting(d) \/ StartServer(d)
      PROVE  KnownInv'
  <2>1. PICK to \in {"picked", "failed", "recorded", "bound", "replaced", "started"} :
          pc' = [pc EXCEPT ![d] = to]
    BY <1>2 DEF PickPort, Reject, Record, BindSecrets, ShutExisting, StartServer
  <2>2. UNCHANGED <<target, SCRIPT_SERVERS>>
    BY <1>2 DEF PickPort, Reject, Record, BindSecrets, ShutExisting, StartServer
  <2>3. QED
    BY <2>1, <2>2 DEF KnownInv, TypeOK
<1>3. ASSUME NEW d \in Deploys, RegisterServer(d) PROVE KnownInv'
  <2>1. /\ SCRIPT_SERVERS' = [SCRIPT_SERVERS EXCEPT ![target[d].name] = d]
        /\ pc' = [pc EXCEPT ![d] = "done"] /\ target' = target /\ d # None
        /\ target[d].name \in Names
    BY <1>3, TargetTyped DEF RegisterServer
  <2>2. \A e \in Deploys : pc[e] = "done" => SCRIPT_SERVERS'[target[e].name] # None
    BY <2>1, TargetTyped DEF KnownInv, TypeOK
  <2>3. SCRIPT_SERVERS'[target[d].name] # None
    BY <2>1 DEF TypeOK
  <2>4. QED
    BY <2>1, <2>2, <2>3 DEF KnownInv, TypeOK
<1>4. ASSUME NEW d \in Deploys, Listens(d) \/ Exits(d) PROVE KnownInv'
  BY <1>4 DEF Listens, Exits, deployVars, KnownInv
<1>5. CASE UNCHANGED control
  BY <1>5 DEF control, KnownInv
<1>6. QED
  BY <1>1, <1>2, <1>3, <1>4, <1>5, QuietSteps DEF Next, Proceed

(* Once a deployment of a name is done, no invocation finds it unknown.    *)
THEOREM DeployedNamesStayKnown == Spec => DeployedStaysKnown
<1> DEFINE Refuses(i) == call'[i].state = "unknown" /\ call[i].state # "unknown"
           Step == \A i \in Calls : Refuses(i) =>
                     ~\E d \in Deploys : pc[d] = "done" /\ target[d].name = call'[i].name
<1>1. Init => KnownInv
  BY DEF Init, KnownInv
<1>2. TypeOK /\ KnownInv /\ [Next]_vars => [Step]_vars
  <2> SUFFICES ASSUME TypeOK, KnownInv, [Next]_vars, NEW i \in Calls, Refuses(i),
                      NEW d \in Deploys, pc[d] = "done",
                      target[d].name = call'[i].name
               PROVE  FALSE
    OBVIOUS
  <2>1. ASSUME NEW j \in Calls, Forward(j) PROVE FALSE
    BY <2>1 DEF Forward, TypeOK
  <2>2. ASSUME NEW j \in Calls, NEW n \in Names, Route(j, n) PROVE FALSE
    <3>1. SCRIPT_SERVERS[n] = None /\ call'[i].name = n
      BY <2>2 DEF Route, TypeOK
    <3>2. QED
      BY <3>1 DEF KnownInv
  <2>3. CASE UNCHANGED call
    BY <2>3
  <2>4. QED
    BY <2>1, <2>2, <2>3
       DEF Next, Proceed, Begin, PickPort, Reject, Record, BindSecrets, ShutExisting,
           StartServer, RegisterServer, Listens, Exits, PutSecret, vars
<1>3. QED
  BY <1>1, <1>2, KnownStep, DeployShape, PTL DEF Spec, DeployedStaysKnown

-----------------------------------------------------------------------------
(* Overlapping deployments *)

(* Two handlers that run for one name know it of each other.               *)
OverlapInv ==
  \A d, e \in Deploys :
    d # e /\ Running(d) /\ Running(e) /\ target[d].name = target[e].name
      => d \in overlapped

(* A handler that has started to run beside another one is marked, and so  *)
(* is the other.                                                           *)
LEMMA BeginMarks ==
  ASSUME TypeOK, NEW d \in Deploys, Begin(d)
  PROVE  /\ overlapped \subseteq overlapped'
         /\ \A e \in Deploys \ {d} : target'[e] = target[e] /\ pc'[e] = pc[e]
         /\ \A e \in Deploys \ {d} :
              Running(e) /\ target[e].name = target'[d].name
                => e \in overlapped' /\ d \in overlapped'
<1>1. PICK t \in Targets :
        /\ target' = [target EXCEPT ![d] = t]
        /\ overlapped' = IF {e \in Deploys : Running(e) /\ target[e].name = t.name} = {}
                         THEN overlapped
                         ELSE overlapped
                                \cup {e \in Deploys : Running(e) /\ target[e].name = t.name}
                                \cup {d}
  BY DEF Begin
<1>2. target'[d] = t
  BY <1>1 DEF TypeOK
<1>3. \A e \in Deploys \ {d} : target'[e] = target[e]
  BY <1>1 DEF TypeOK
<1>4. \A e \in Deploys \ {d} : pc'[e] = pc[e]
  BY DEF Begin, TypeOK
<1>5. QED
  BY <1>1, <1>2, <1>3, <1>4

(* A handler on its way runs before and after each of its steps but the    *)
(* last, and nothing but its beginning changes targets or marks.           *)
LEMMA ProceedRuns ==
  ASSUME TypeOK, NEW d \in Deploys, Proceed(d) \/ Listens(d) \/ Exits(d)
  PROVE  /\ UNCHANGED <<target, overlapped>>
         /\ \A e \in Deploys : Running(e)' => Running(e)
<1>1. CASE Proceed(d)
  <2>1. pc[d] \in {"begun", "picked", "recorded", "bound", "replaced", "started"}
        /\ UNCHANGED <<target, overlapped>>
    BY <1>1 DEF Proceed, PickPort, Reject, Record, BindSecrets, ShutExisting,
               StartServer, RegisterServer
  <2>2. \A e \in Deploys \ {d} : pc'[e] = pc[e]
    BY <1>1 DEF Proceed, PickPort, Reject, Record, BindSecrets, ShutExisting,
               StartServer, RegisterServer, TypeOK
  <2>3. QED
    BY <2>1, <2>2 DEF Running
<1>2. CASE Listens(d) \/ Exits(d)
  BY <1>2 DEF Listens, Exits, deployVars, Running
<1>3. QED
  BY <1>1, <1>2

LEMMA OverlapStep == TypeOK /\ OverlapInv /\ [Next]_vars => OverlapInv'
<1> SUFFICES ASSUME TypeOK, OverlapInv, [Next]_vars PROVE OverlapInv'
  OBVIOUS
<1>1. ASSUME NEW d \in Deploys, Begin(d) PROVE OverlapInv'
  BY <1>1, BeginMarks DEF OverlapInv, Running
<1>2. ASSUME NEW d \in Deploys, Proceed(d) \/ Listens(d) \/ Exits(d) PROVE OverlapInv'
  <2>1. UNCHANGED <<target, overlapped>> /\ \A e \in Deploys : Running(e)' => Running(e)
    BY <1>2, ProceedRuns
  <2>2. QED
    BY <2>1 DEF OverlapInv
<1>3. CASE UNCHANGED control
  BY <1>3 DEF control, OverlapInv, Running
<1>4. QED
  BY <1>1, <1>2, <1>3, QuietSteps DEF Next

(* The steps before the shutdown of the old server, and after it, leave    *)
(* the servers and what is registered as they are.                         *)
LEMMA EarlySteps ==
  ASSUME TypeOK, NEW d \in Deploys,
         PickPort(d) \/ Reject(d) \/ Record(d) \/ BindSecrets(d)
  PROVE  /\ pc[d] \in {"begun", "picked", "recorded"}
         /\ pc'[d] \in {"picked", "failed", "recorded", "bound"}
         /\ \A e \in Deploys \ {d} : pc'[e] = pc[e]
         /\ UNCHANGED <<target, SCRIPT_SERVERS, server, shut, overlapped>>
BY DEF PickPort, Reject, Record, BindSecrets, serverVars, TypeOK

-----------------------------------------------------------------------------
(* Servers are not lost *)

(* Past its shutdown of the old server, a handler would replace one that   *)
(* is shut down, or that was registered by a deployment beside it.         *)
ReplacedIsShut ==
  \A e \in Deploys :
    pc[e] \in {"replaced", "started"} =>
      SCRIPT_SERVERS[target[e].name] \in shut \cup overlapped \cup {None}

LEMMA ReplacedStep ==
  TypeOK /\ Shape /\ OverlapInv /\ ReplacedIsShut /\ [Next]_vars => ReplacedIsShut'
<1> SUFFICES ASSUME TypeOK, Shape, OverlapInv, ReplacedIsShut, [Next]_vars,
                    NEW e \in Deploys, pc'[e] \in {"replaced", "started"}
             PROVE  SCRIPT_SERVERS'[target'[e].name] \in shut' \cup overlapped' \cup {None}
  BY DEF ReplacedIsShut
<1> DEFINE Goal == SCRIPT_SERVERS'[target'[e].name] \in shut' \cup overlapped' \cup {None}
<1>0. pc[e] \in {"replaced", "started"}
        => SCRIPT_SERVERS[target[e].name] \in shut \cup overlapped \cup {None}
  BY DEF ReplacedIsShut
<1>1. ASSUME NEW d \in Deploys, Begin(d) PROVE Goal
  <2>1. UNCHANGED <<SCRIPT_SERVERS, shut>> /\ pc'[d] = "begun"
    BY <1>1 DEF Begin, serverVars, TypeOK
  <2>2. QED
    BY <1>0, <1>1, <2>1, BeginMarks
<1>2. ASSUME NEW d \in Deploys, PickPort(d) \/ Reject(d) \/ Record(d) \/ BindSecrets(d)
      PROVE  Goal
  BY <1>0, <1>2, EarlySteps
<1>3. ASSUME NEW d \in Deploys, ShutExisting(d) PROVE Goal
  BY <1>0, <1>3 DEF ShutExisting, TypeOK
<1>4. ASSUME NEW d \in Deploys, StartServer(d) PROVE Goal
  BY <1>0, <1>4 DEF StartServer, TypeOK
<1>5. ASSUME NEW d \in Deploys, RegisterServer(d) PROVE Goal
  <2>1. /\ pc[d] = "started" /\ pc' = [pc EXCEPT ![d] = "done"]
        /\ SCRIPT_SERVERS' = [SCRIPT_SERVERS EXCEPT ![target[d].name] = d]
        /\ UNCHANGED <<target, shut, overlapped>>
    BY <1>5 DEF RegisterServer
  <2>2. e # d /\ pc[e] \in {"replaced", "started"}
    BY <2>1 DEF TypeOK
  <2>3. CASE target[e].name = target[d].name
    <3>1. d \in overlapped
      BY <2>1, <2>2, <2>3 DEF OverlapInv, Running
    <3>2. SCRIPT_SERVERS'[target[e].name] = d
      BY <2>1, <2>3, TargetTyped DEF TypeOK
    <3>3. QED
      BY <2>1, <3>1, <3>2
  <2>4. CASE target[e].name # target[d].name
    <3>1. SCRIPT_SERVERS'[target[e].name] = SCRIPT_SERVERS[target[e].name]
      BY <2>1, <2>2, <2>4, TargetTyped DEF TypeOK
    <3>2. QED
      BY <1>0, <2>1, <2>2, <3>1
  <2>5. QED
    BY <2>3, <2>4
<1>6. ASSUME NEW d \in Deploys, Listens(d) \/ Exits(d) PROVE Goal
  BY <1>0, <1>6 DEF Listens, Exits, deployVars
<1>7. CASE UNCHANGED control
  BY <1>0, <1>7 DEF control
<1>8. QED
  BY <1>1, <1>2, <1>3, <1>4, <1>5, <1>6, <1>7, QuietSteps DEF Next, Proceed

LEMMA ForgottenStep ==
  TypeOK /\ Shape /\ ReplacedIsShut /\ ForgottenOnlyByOverlap /\ [Next]_vars
    => ForgottenOnlyByOverlap'
<1> SUFFICES ASSUME TypeOK, Shape, ReplacedIsShut, ForgottenOnlyByOverlap, [Next]_vars,
                    NEW d \in Deploys, d \notin overlapped', server'[d] # "none"
             PROVE  SCRIPT_SERVERS'[target'[d].name] = d \/ d \in shut' \/ Running(d)'
  BY DEF ForgottenOnlyByOverlap
<1> DEFINE Goal == SCRIPT_SERVERS'[target'[d].name] = d \/ d \in shut' \/ Running(d)'
<1>0. d \notin overlapped /\ server[d] # "none"
        => SCRIPT_SERVERS[target[d].name] = d \/ d \in shut \/ Running(d)
  BY DEF ForgottenOnlyByOverlap
<1>1. ASSUME NEW e \in Deploys, Begin(e) PROVE Goal
  <2>1. UNCHANGED <<SCRIPT_SERVERS, server, shut>> /\ pc[e] = "idle"
    BY <1>1 DEF Begin, serverVars
  <2>2. d # e
    BY <2>1 DEF Shape
  <2>3. QED
    BY <1>0, <1>1, <2>1, <2>2, BeginMarks DEF Running
<1>2. ASSUME NEW e \in Deploys, PickPort(e) \/ Reject(e) \/ Record(e) \/ BindSecrets(e)
      PROVE  Goal
  <2>1. d # e
    BY <1>2, EarlySteps DEF Shape
  <2>2. QED
    BY <1>0, <1>2, <2>1, EarlySteps DEF Running
<1>3. ASSUME NEW e \in Deploys, ShutExisting(e) PROVE Goal
  BY <1>0, <1>3 DEF ShutExisting, Running, TypeOK
<1>4. ASSUME NEW e \in Deploys, StartServer(e) PROVE Goal
  BY <1>0, <1>4 DEF StartServer, Running, TypeOK
<1>5. ASSUME NEW e \in Deploys, RegisterServer(e) PROVE Goal
  <2>1. /\ pc[e] = "started" /\ pc' = [pc EXCEPT ![e] = "done"]
        /\ SCRIPT_SERVERS' = [SCRIPT_SERVERS EXCEPT ![target[e].name] = e]
        /\ UNCHANGED <<target, server, shut, overlapped>>
    BY <1>5 DEF RegisterServer
  <2>2. target[e].name \in Names /\ target[d].name \in Names
    <3>1. pc[d] # "idle"
      BY <2>1 DEF Shape
    <3>2. QED
      BY <2>1, <3>1, TargetTyped
  <2>3. CASE d = e
    BY <2>1, <2>2, <2>3 DEF TypeOK
  <2>4. CASE d # e /\ target[d].name = target[e].name /\ SCRIPT_SERVERS[target[d].name] = d
    <3>1. d \in shut
      BY <2>1, <2>4, MiniflareAssumption DEF ReplacedIsShut
    <3>2. QED
      BY <2>1, <3>1
  <2>5. CASE d # e /\ (target[d].name # target[e].name \/ SCRIPT_SERVERS[target[d].name] # d)
    BY <1>0, <2>1, <2>2, <2>5 DEF Running, TypeOK
  <2>6. QED
    BY <2>3, <2>4, <2>5
<1>6. ASSUME NEW e \in Deploys, Listens(e) \/ Exits(e) PROVE Goal
  BY <1>0, <1>6 DEF Listens, Exits, Alive, Running, deployVars, TypeOK
<1>7. CASE UNCHANGED control
  BY <1>0, <1>7 DEF control, Running
<1>8. QED
  BY <1>1, <1>2, <1>3, <1>4, <1>5, <1>6, <1>7, QuietSteps DEF Next, Proceed

(* No server leaves the map without a call of its shutdown(), unless       *)
(* deployments of its name overlapped.                                     *)
THEOREM OverlapsAloneForget == Spec => []ForgottenOnlyByOverlap
<1>1. Init => OverlapInv /\ ReplacedIsShut /\ ForgottenOnlyByOverlap
  BY DEF Init, OverlapInv, ReplacedIsShut, ForgottenOnlyByOverlap, Running
<1>2. QED
  BY <1>1, OverlapStep, ReplacedStep, ForgottenStep, DeployShape, PTL DEF Spec

(* A server is shut down only for a deployment of its name that is past    *)
(* every step that may fail.                                               *)
LEMMA SuccessorStep ==
  TypeOK /\ Shape /\ ShutForASuccessor /\ [Next]_vars => ShutForASuccessor'
<1> DEFINE Succeeds(e, d) == /\ pc[e] \in {"replaced", "started", "done"}
                             /\ target[e].name = target[d].name
<1> SUFFICES ASSUME TypeOK, Shape, ShutForASuccessor, [Next]_vars, NEW d \in shut'
             PROVE  \E e \in Deploys \ {d} : Succeeds(e, d)'
  BY DEF ShutForASuccessor
<1>0. ASSUME d \in shut
      PROVE  pc[d] = "done" /\ d \in Deploys /\ \E e \in Deploys \ {d} : Succeeds(e, d)
  BY <1>0 DEF ShutForASuccessor, Shape, TypeOK
<1>1. ASSUME NEW e \in Deploys, Begin(e) PROVE \E f \in Deploys \ {d} : Succeeds(f, d)'
  <2>1. d \in shut /\ pc[e] = "idle"
    BY <1>1 DEF Begin, serverVars
  <2>2. PICK f \in Deploys \ {d} : Succeeds(f, d)
    BY <1>0, <2>1
  <2>3. f # e /\ d # e /\ d \in Deploys
    BY <1>0, <2>1, <2>2
  <2>4. Succeeds(f, d)'
    BY <1>1, <2>2, <2>3, BeginMarks
  <2>5. QED
    BY <2>4
<1>2. ASSUME d \in shut, UNCHANGED target,
             \A e \in Deploys : pc[e] \in {"replaced", "started", "done"}
                                => pc'[e] \in {"replaced", "started", "done"}
      PROVE  \E f \in Deploys \ {d} : Succeeds(f, d)'
  <2>1. PICK f \in Deploys \ {d} : Succeeds(f, d)
    BY <1>0, <1>2
  <2>2. Succeeds(f, d)'
    BY <1>2, <2>1
  <2>3. QED
    BY <2>2
<1>3. ASSUME NEW e \in Deploys, PickPort(e) \/ Reject(e) \/ Record(e) \/ BindSecrets(e)
      PROVE  \E f \in Deploys \ {d} : Succeeds(f, d)'
  BY <1>2, <1>3, EarlySteps
<1>4. ASSUME NEW e \in Deploys, ShutExisting(e)
      PROVE  \E f \in Deploys \ {d} : Succeeds(f, d)'
  <2>1. /\ pc[e] = "bound" /\ pc' = [pc EXCEPT ![e] = "replaced"]
        /\ shut' = shut \cup ({SCRIPT_SERVERS[target[e].name]} \ {None})
        /\ target' = target
    BY <1>4 DEF ShutExisting
  <2>2. CASE d \in shut
    BY <1>2, <2>1, <2>2 DEF TypeOK
  <2>3. CASE d \notin shut
    <3>1. d = SCRIPT_SERVERS[target[e].name] /\ d # None
      BY <2>1, <2>3
    <3>2. pc[d] = "done" /\ target[d].name = target[e].name
      BY <2>1, <3>1, TargetTyped DEF Shape
    <3>3. e # d /\ pc'[e] = "replaced"
      BY <2>1, <3>2 DEF TypeOK
    <3>4. Succeeds(e, d)'
      BY <2>1, <3>2, <3>3
    <3>5. QED
      BY <3>3, <3>4
  <2>4. QED
    BY <2>2, <2>3
<1>5. ASSUME NEW e \in Deploys, StartServer(e) \/ RegisterServer(e)
      PROVE  \E f \in Deploys \ {d} : Succeeds(f, d)'
  BY <1>2, <1>5 DEF StartServer, RegisterServer, TypeOK
<1>6. ASSUME NEW e \in Deploys, Listens(e) \/ Exits(e)
      PROVE  \E f \in Deploys \ {d} : Succeeds(f, d)'
  BY <1>2, <1>6 DEF Listens, Exits, deployVars
<1>7. CASE UNCHANGED control
  BY <1>2, <1>7 DEF control
<1>8. QED
  BY <1>1, <1>3, <1>4, <1>5, <1>6, <1>7, QuietSteps DEF Next, Proceed

(* A deployment that fails stops no worker.                                *)
THEOREM ShutdownsHaveSuccessors == Spec => []ShutForASuccessor
<1>1. Init => ShutForASuccessor
  BY DEF Init, ShutForASuccessor
<1>2. QED
  BY <1>1, SuccessorStep, DeployShape, PTL DEF Spec

-----------------------------------------------------------------------------
(* The stored script is the one that runs *)

(* A handler between its record and its registration.                      *)
Deploying(d) == pc[d] \in {"recorded", "bound", "replaced", "started"}

(* The script stored for an account is the one being deployed, or the one  *)
(* that is registered unless another is being deployed.                    *)
StoredInv ==
  \A d \in Deploys \ overlapped :
    /\ Deploying(d) => scripts[target[d]] = d
    /\ pc[d] = "done" /\ SCRIPT_SERVERS[target[d].name] = d =>
         \/ scripts[target[d]] = d
         \/ \E e \in Deploys : Deploying(e) /\ target[e].name = target[d].name

(* A step that records no script and registers no server.                  *)
LEMMA StoredFrame ==
  ASSUME StoredInv, UNCHANGED <<scripts, SCRIPT_SERVERS>>, overlapped \subseteq overlapped',
         \A e \in Deploys :
           /\ Deploying(e)' <=> Deploying(e)
           /\ pc'[e] = "done" => pc[e] = "done"
           /\ pc[e] # "idle" => target'[e] = target[e]
  PROVE  StoredInv'
<1> SUFFICES ASSUME NEW d \in Deploys, d \notin overlapped'
             PROVE  /\ Deploying(d)' => scripts[target'[d]] = d
                    /\ pc'[d] = "done" /\ SCRIPT_SERVERS[target'[d].name] = d =>
                         \/ scripts[target'[d]] = d
                         \/ \E e \in Deploys :
                              Deploying(e)' /\ target'[e].name = target'[d].name
  BY DEF StoredInv
<1>1. \A e \in Deploys : Deploying(e) => target'[e] = target[e]
  BY DEF Deploying
<1>2. pc[d] = "done" => target'[d] = target[d]
  OBVIOUS
<1>3. QED
  BY <1>1, <1>2 DEF StoredInv

LEMMA StoredStep ==
  TypeOK /\ Shape /\ OverlapInv /\ StoredInv /\ [Next]_vars => StoredInv'
<1> SUFFICES ASSUME TypeOK, Shape, OverlapInv, StoredInv, [Next]_vars PROVE StoredInv'
  OBVIOUS
<1>1. ASSUME NEW e \in Deploys, Begin(e) PROVE StoredInv'
  <2>1. /\ UNCHANGED <<scripts, SCRIPT_SERVERS>> /\ pc[e] = "idle" /\ pc'[e] = "begun"
    BY <1>1 DEF Begin, accountVars, serverVars, TypeOK
  <2>2. QED
    BY <1>1, <2>1, BeginMarks, StoredFrame DEF Deploying
<1>2. ASSUME NEW e \in Deploys, PickPort(e) \/ Reject(e) PROVE StoredInv'
  <2>1. /\ pc[e] \in {"begun", "picked"} /\ pc'[e] \in {"picked", "failed"}
        /\ \A f \in Deploys \ {e} : pc'[f] = pc[f]
        /\ UNCHANGED <<target, scripts, SCRIPT_SERVERS, overlapped>>
    BY <1>2 DEF PickPort, Reject, accountVars, serverVars, TypeOK
  <2>2. QED
    BY <2>1, StoredFrame DEF Deploying
<1>3. ASSUME NEW e \in Deploys, Record(e) PROVE StoredInv'
  <2>1. /\ pc[e] = "picked" /\ pc' = [pc EXCEPT ![e] = "recorded"]
        /\ scripts' = [scripts EXCEPT ![target[e]] = e]
        /\ target[e] \in Targets
        /\ UNCHANGED <<target, SCRIPT_SERVERS, overlapped>>
    BY <1>3, TargetTyped DEF Record, serverVars
  <2>2. pc'[e] = "recorded" /\ \A f \in Deploys \ {e} : pc'[f] = pc[f]
    BY <2>1 DEF TypeOK
  <2>3. SUFFICES ASSUME NEW d \in Deploys, d \notin overlapped
                 PROVE  /\ Deploying(d)' => scripts'[target[d]] = d
                        /\ pc'[d] = "done" /\ SCRIPT_SERVERS[target[d].name] = d =>
                             \/ scripts'[target[d]] = d
                             \/ \E f \in Deploys :
                                  Deploying(f)' /\ target[f].name = target[d].name
    BY <2>1 DEF StoredInv
  <2>4. CASE d = e
    BY <2>1, <2>2, <2>4 DEF TypeOK
  <2>5. CASE d # e /\ target[d] = target[e]
    <3>1. ~Deploying(d)
      BY <2>1, <2>3, <2>5 DEF OverlapInv, Running, Deploying
    <3>2. ~Deploying(d)' /\ Deploying(e)'
      BY <2>2, <2>5, <3>1 DEF Deploying
    <3>3. QED
      BY <2>5, <3>2
  <2>6. CASE d # e /\ target[d] # target[e]
    <3>1. Deploying(d) \/ pc[d] = "done" => scripts'[target[d]] = scripts[target[d]]
      BY <2>1, <2>6, TargetTyped DEF Deploying, TypeOK
    <3>2. \A f \in Deploys : Deploying(f) => Deploying(f)'
      BY <2>2 DEF Deploying
    <3>3. (Deploying(d)' <=> Deploying(d)) /\ pc'[d] = pc[d]
      BY <2>2, <2>6 DEF Deploying
    <3>4. QED
      BY <2>3, <3>1, <3>2, <3>3 DEF StoredInv
  <2>7. QED
    BY <2>4, <2>5, <2>6
<1>4. ASSUME NEW e \in Deploys, BindSecrets(e) \/ ShutExisting(e) \/ StartServer(e)
      PROVE  StoredInv'
  <2>1. /\ pc[e] \in {"recorded", "bound", "replaced"}
        /\ pc'[e] \in {"bound", "replaced", "started"}
        /\ \A f \in Deploys \ {e} : pc'[f] = pc[f]
        /\ UNCHANGED <<target, scripts, SCRIPT_SERVERS, overlapped>>
    BY <1>4 DEF BindSecrets, ShutExisting, StartServer, accountVars, serverVars, TypeOK
  <2>2. QED
    BY <2>1, StoredFrame DEF Deploying
<1>5. ASSUME NEW e \in Deploys, RegisterServer(e) PROVE StoredInv'
  <2>1. /\ pc[e] = "started" /\ pc' = [pc EXCEPT ![e] = "done"]
        /\ SCRIPT_SERVERS' = [SCRIPT_SERVERS EXCEPT ![target[e].name] = e]
        /\ target[e].name \in Names
        /\ UNCHANGED <<target, scripts, overlapped>>
    BY <1>5, TargetTyped DEF RegisterServer, accountVars
  <2>2. pc'[e] = "done" /\ \A f \in Deploys \ {e} : pc'[f] = pc[f]
    BY <2>1 DEF TypeOK
  <2>3. SUFFICES ASSUME NEW d \in Deploys, d \notin overlapped
                 PROVE  /\ Deploying(d)' => scripts[target[d]] = d
                        /\ pc'[d] = "done" /\ SCRIPT_SERVERS'[target[d].name] = d =>
                             \/ scripts[target[d]] = d
                             \/ \E f \in Deploys :
                                  Deploying(f)' /\ target[f].name = target[d].name
    BY <2>1 DEF StoredInv
  <2>4. CASE d = e
    <3>1. scripts[target[e]] = e
      BY <2>1, <2>3, <2>4 DEF StoredInv, Deploying
    <3>2. QED
      BY <2>4, <3>1
  <2>5. CASE d # e
    <3>1. pc'[d] = pc[d] /\ (Deploying(d)' <=> Deploying(d))
      BY <2>2, <2>5 DEF Deploying
    <3>2. Deploying(d)' => scripts[target[d]] = d
      BY <2>3, <3>1 DEF StoredInv
    <3>3. ASSUME pc'[d] = "done", SCRIPT_SERVERS'[target[d].name] = d
          PROVE  \/ scripts[target[d]] = d
                 \/ \E f \in Deploys :
                      Deploying(f)' /\ target[f].name = target[d].name
      <4>1. target[d].name \in Names
        BY <3>1, <3>3, TargetTyped
      <4>2. target[d].name # target[e].name /\ SCRIPT_SERVERS[target[d].name] = d
        BY <2>1, <2>5, <3>3, <4>1 DEF TypeOK
      <4>3. \/ scripts[target[d]] = d
            \/ \E f \in Deploys : Deploying(f) /\ target[f].name = target[d].name
        BY <2>3, <3>1, <3>3, <4>2 DEF StoredInv
      <4>4. \A f \in Deploys : Deploying(f) /\ target[f].name = target[d].name
                                => Deploying(f)'
        BY <2>2, <4>2 DEF Deploying
      <4>5. QED
        BY <4>3, <4>4
    <3>4. QED
      BY <3>2, <3>3
  <2>6. QED
    BY <2>4, <2>5
<1>6. ASSUME NEW e \in Deploys, Listens(e) \/ Exits(e) PROVE StoredInv'
  BY <1>6, StoredFrame DEF Listens, Exits, deployVars, accountVars, Deploying
<1>7. CASE UNCHANGED control
  BY <1>7, StoredFrame DEF control, Deploying
<1>8. QED
  BY <1>1, <1>2, <1>3, <1>4, <1>5, <1>6, <1>7, QuietSteps DEF Next, Proceed

(* A worker that was given its bindings sees its own upload or, once there *)
(* is one, a secret of its account.                                        *)
BoundInv ==
  \A d \in Deploys :
    pc[d] \in {"bound", "replaced", "started", "done"} =>
      bound[d] = d \/ (bound[d] \in Secrets /\ secrets[target[d]] # None)

LEMMA BoundStep == TypeOK /\ Shape /\ BoundInv /\ [Next]_vars => BoundInv'
<1> SUFFICES ASSUME TypeOK, Shape, BoundInv, [Next]_vars, NEW d \in Deploys,
                    pc'[d] \in {"bound", "replaced", "started", "done"}
             PROVE  bound'[d] = d \/ (bound'[d] \in Secrets /\ secrets'[target'[d]] # None)
  BY DEF BoundInv
<1> DEFINE Goal == bound'[d] = d \/ (bound'[d] \in Secrets /\ secrets'[target'[d]] # None)
<1> USE DEF accountVars, deployVars
<1>1. ASSUME pc[d] \in {"bound", "replaced", "started", "done"}, bound'[d] = bound[d],
             target'[d] = target[d], UNCHANGED secrets
      PROVE  Goal
  BY <1>1 DEF BoundInv
<1>2. ASSUME NEW e \in Deploys, Begin(e) PROVE Goal
  <2>1. pc[e] = "idle" /\ pc'[e] = "begun" /\ UNCHANGED <<bound, secrets>>
    BY <1>2 DEF Begin, TypeOK
  <2>2. d # e
    BY <2>1
  <2>3. QED
    BY <1>1, <1>2, <2>1, <2>2, BeginMarks
<1>3. ASSUME NEW e \in Deploys, PickPort(e) \/ Reject(e) \/ Record(e) PROVE Goal
  <2>1. /\ pc'[e] \in {"picked", "failed", "recorded"}
        /\ \A f \in Deploys \ {e} : pc'[f] = pc[f]
        /\ UNCHANGED <<target, bound, secrets>>
    BY <1>3 DEF PickPort, Reject, Record, TypeOK
  <2>2. QED
    BY <1>1, <2>1
<1>4. ASSUME NEW e \in Deploys, BindSecrets(e) PROVE Goal
  <2>1. /\ pc' = [pc EXCEPT ![e] = "bound"]
        /\ bound' = [bound EXCEPT ![e] = IF secrets[target[e]] = None THEN e
                                         ELSE secrets[target[e]]]
        /\ UNCHANGED <<target, secrets>>
    BY <1>4 DEF BindSecrets, SecretOf
  <2>2. CASE d # e
    BY <1>1, <2>1, <2>2 DEF TypeOK
  <2>3. CASE d = e
    <3>1. secrets[target[e]] \in Secrets \cup {None}
      BY <1>4, TargetTyped DEF BindSecrets, TypeOK
    <3>2. bound'[e] = IF secrets[target[e]] = None THEN e ELSE secrets[target[e]]
      BY <2>1 DEF TypeOK
    <3>3. QED
      BY <2>1, <2>3, <3>1, <3>2
  <2>4. QED
    BY <2>2, <2>3
<1>5. ASSUME NEW e \in Deploys, ShutExisting(e) \/ StartServer(e) \/ RegisterServer(e)
      PROVE  Goal
  <2>1. /\ pc[e] \in {"bound", "replaced", "started"}
        /\ \A f \in Deploys \ {e} : pc'[f] = pc[f]
        /\ UNCHANGED <<target, bound, secrets>>
    BY <1>5 DEF ShutExisting, StartServer, RegisterServer, TypeOK
  <2>2. QED
    BY <1>1, <2>1
<1>6. ASSUME NEW e \in Deploys, Listens(e) \/ Exits(e) PROVE Goal
  BY <1>1, <1>6 DEF Listens, Exits
<1>7. ASSUME NEW t \in Targets, NEW s \in Secrets, PutSecret(t, s) PROVE Goal
  <2>1. UNCHANGED <<pc, bound, target>> /\ secrets' = [secrets EXCEPT ![t] = s]
    BY <1>7 DEF PutSecret
  <2>2. s # None /\ pc[d] # "idle" /\ target[d] \in Targets
    BY <2>1, TargetTyped, MiniflareAssumption
  <2>3. secrets[target[d]] # None => secrets'[target[d]] # None
    BY <2>1, <2>2 DEF TypeOK
  <2>4. QED
    BY <2>1, <2>3 DEF BoundInv
<1>8. ASSUME NEW i \in Calls, Forward(i) \/ \E n \in Names : Route(i, n) PROVE Goal
  BY <1>1, <1>8 DEF Forward, Route
<1>9. CASE UNCHANGED vars
  BY <1>1, <1>9 DEF vars
<1>10. QED
  BY <1>2, <1>3, <1>4, <1>5, <1>6, <1>7, <1>8, <1>9 DEF Next, Proceed

(* Between deployments the server of a name runs the script its account    *)
(* has stored for it, with that account's bindings, unless deployments of  *)
(* that name overlapped.                                                   *)
THEOREM RegisteredServersRunTheStored == Spec => []RegisteredIsStored
<1>1. Init => OverlapInv /\ StoredInv /\ BoundInv
  BY DEF Init, OverlapInv, StoredInv, BoundInv, Deploying, Running
<1>2. Shape /\ TypeOK /\ StoredInv /\ BoundInv => RegisteredIsStored
  <2> SUFFICES ASSUME Shape, TypeOK, StoredInv, BoundInv, NEW n \in Names,
                      \A e \in Deploys : Running(e) => target[e].name # n,
                      SCRIPT_SERVERS[n] \notin overlapped \cup {None},
                      NEW d, d = SCRIPT_SERVERS[n]
               PROVE  /\ scripts[target[d]] = d
                      /\ bound[d] = d \/ (bound[d] \in Secrets /\ secrets[target[d]] # None)
    BY DEF RegisteredIsStored
  <2>1. d \in Deploys
    BY DEF TypeOK
  <2>2. pc[d] = "done" /\ target[d].name = n
    BY <2>1 DEF Shape
  <2>3. \A e \in Deploys : Deploying(e) => target[e].name # n
    BY DEF Deploying, Running
  <2>4. scripts[target[d]] = d
    BY <2>1, <2>2, <2>3 DEF StoredInv
  <2>5. QED
    BY <2>1, <2>2, <2>4 DEF BoundInv
<1>3. QED
  BY <1>1, <1>2, OverlapStep, StoredStep, BoundStep, DeployShape, PTL DEF Spec
=============================================================================
