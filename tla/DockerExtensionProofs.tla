----------------------- MODULE DockerExtensionProofs ------------------------
(***************************************************************************)
(* Proofs about DockerExtension, for any extensions, configurations,       *)
(* retries and number of starts: its type invariant, that a shutdown       *)
(* leaves no container, that none is served from an earlier process, and   *)
(* that registration with the gateway is all or nothing.                   *)
(***************************************************************************)
EXTENDS DockerExtension, SequenceTheorems, TLAPS

-----------------------------------------------------------------------------
(* Configurations *)

(* The lists of ports of an extension, whichever configuration it has.     *)
LEMMA ConfigTyped ==
  ASSUME config \in [Exts -> Configs], NEW e \in Exts
  PROVE  /\ config[e] \in Configs
         /\ {config[e].ports, config[e].http2, config[e].tcp} \subseteq Seq(Nat)
         /\ config[e].ports # <<>>
BY ConfigAssumption

(* The head of a list of ports is one of them.                             *)
LEMMA FirstInRange ==
  ASSUME NEW S, NEW s \in Seq(S), s # <<>>
  PROVE  s[1] \in Range(s)
BY DEF Range

(* One more item in a list is one more in its range.                       *)
LEMMA RangeAppend ==
  ASSUME NEW S, NEW s \in Seq(S), NEW x \in S
  PROVE  Range(Append(s, x)) = Range(s) \cup {x}
<1>1. /\ Append(s, x) \in Seq(S) /\ Len(Append(s, x)) = Len(s) + 1
      /\ \A i \in 1..Len(s) : Append(s, x)[i] = s[i]
      /\ Append(s, x)[Len(s) + 1] = x
  OBVIOUS
<1>2. Len(s) \in Nat
  OBVIOUS
<1>3. Range(s) = {s[i] : i \in 1..Len(s)}
  BY RangeEquality
<1>4. Range(Append(s, x)) = {Append(s, x)[i] : i \in 1..(Len(s) + 1)}
  BY <1>1, RangeEquality
<1>5. 1..(Len(s) + 1) = (1..Len(s)) \cup {Len(s) + 1}
  BY <1>2
<1>6. QED
  BY <1>1, <1>3, <1>4, <1>5

-----------------------------------------------------------------------------
(* Types *)

(* What an extension registers are backends it is configured for.          *)
LEMMA RegistersBackends ==
  ASSUME config \in [Exts -> Configs], NEW e \in Exts
  PROVE  /\ <<e, MainPort(e)>> \in Backends
         /\ \A p \in Range(config[e].http2) : <<e, p>> \in Backends
         /\ config[e].http2 # <<>> => <<e, config[e].http2[1]>> \in Backends
         /\ config[e].tcp # <<>> => <<e, config[e].tcp[1]>> \in Backends
<1> DEFINE PortsOf(g) == Range(g.ports) \cup Range(g.http2) \cup Range(g.tcp)
           Ports == UNION {PortsOf(g) : g \in Configs}
<1>1. config[e] \in Configs
  BY ConfigTyped
<1>2. \A p \in PortsOf(config[e]) : p \in Ports
  BY <1>1
<1>3. \A p \in PortsOf(config[e]) : <<e, p>> \in Backends
  <2>1. Backends = Exts \X Ports
    BY DEF Backends
  <2>2. QED
    BY <1>2, <2>1
<1>4. MainPort(e) \in PortsOf(config[e])
  BY ConfigTyped, FirstInRange DEF MainPort
<1>5. config[e].http2 # <<>> => config[e].http2[1] \in PortsOf(config[e])
  BY ConfigTyped, FirstInRange
<1>6. config[e].tcp # <<>> => config[e].tcp[1] \in PortsOf(config[e])
  BY ConfigTyped, FirstInRange
<1>7. QED
  BY <1>3, <1>4, <1>5, <1>6

(* The patches of an extension fail only if it has a port to patch.        *)
LEMMA PatchesFailOnAPort ==
  ASSUME config \in [Exts -> Configs], NEW e \in Exts, ~PatchesOnce(e)
  PROVE  config[e].http2 # <<>>
<1>1. config[e].http2 \in Seq(Nat)
  BY ConfigTyped
<1>2. QED
  BY <1>1 DEF PatchesOnce

(* Moving a hook, removing a container.                                    *)
LEMMA HookTypes ==
  ASSUME TypeOK, NEW e \in Exts,
         NEW to \in HookStates,
         MoveHook(e, to)
  PROVE  hook' \in [Exts -> HookStates]
BY DEF TypeOK, MoveHook

LEMMA RemoveTypes ==
  ASSUME TypeOK, NEW e \in Exts, RemoveContainer(e)
  PROVE  container' \in [Exts -> {"absent", "booting", "serving"}]
BY DEF TypeOK, RemoveContainer

LEMMA ResetTypes ==
  ASSUME ResetProcess
  PROVE  /\ hook' \in [Exts -> HookStates]
         /\ attempts' \in [Exts -> 0..Retries]
         /\ routes' \subseteq Backends /\ h2Backends' \subseteq Backends
         /\ tcpBackends' \in Seq(Backends)
BY DockerAssumption DEF ResetProcess, HookStates

(* Every step of a hook, of the process and of the daemon keeps the types. *)
LEMMA TypeStep == TypeOK /\ [Next]_vars => TypeOK'
<1> SUFFICES ASSUME TypeOK, [Next]_vars PROVE TypeOK'
  OBVIOUS
<1> USE DEF processVars, containerVars, registryVars, HookStates
<1>1. ASSUME NEW e \in Exts, EnterHook(e) PROVE TypeOK'
  <2>1. MoveHook(e, "failed") \/ MoveHook(e, "run")
    BY <1>1 DEF EnterHook
  <2>2. QED
    BY <1>1, <2>1, HookTypes DEF EnterHook, TypeOK
<1>2. ASSUME NEW e \in Exts, ContainerRuns(e) PROVE TypeOK'
  <2>1. MoveHook(e, "check")
    BY <1>2 DEF ContainerRuns
  <2>2. QED
    BY <1>2, <2>1, HookTypes DEF ContainerRuns, TypeOK
<1>3. ASSUME NEW e \in Exts, RunRaises(e) PROVE TypeOK'
  <2>1. MoveHook(e, "check") \/ MoveHook(e, "failed")
    BY <1>3 DEF RunRaises
  <2>2. QED
    BY <1>3, <2>1, HookTypes DEF RunRaises, TypeOK
<1>4. ASSUME NEW e \in Exts, HealthCheckPasses(e) PROVE TypeOK'
  BY <1>4, HookTypes DEF HealthCheckPasses, TypeOK
<1>18. ASSUME NEW e \in Exts, HealthCheckHangs(e) PROVE TypeOK'
  BY <1>18, HookTypes DEF HealthCheckHangs, TypeOK
<1>5. ASSUME NEW e \in Exts, HealthCheckFails(e) PROVE TypeOK'
  <2>1. hook' \in [Exts -> HookStates]
    BY <1>5, HookTypes DEF HealthCheckFails
  <2>2. attempts' \in [Exts -> 0..Retries]
    BY <1>5, DockerAssumption DEF HealthCheckFails, TypeOK
  <2>3. QED
    BY <1>5, <2>1, <2>2 DEF HealthCheckFails, TypeOK
<1>6. ASSUME NEW e \in Exts, HealthCheckGivesUp(e) PROVE TypeOK'
  BY <1>6, HookTypes, RemoveTypes DEF HealthCheckGivesUp, TypeOK
<1>7. ASSUME NEW e \in Exts, AddRoute(e) PROVE routes' \subseteq Backends
  BY <1>7, RegistersBackends DEF AddRoute, TypeOK
<1>8. ASSUME NEW e \in Exts, RegistersAll(e) PROVE TypeOK'
  <2>1. routes' \subseteq Backends
    BY <1>7, <1>8 DEF RegistersAll
  <2>2. h2Backends' \subseteq Backends
    BY <1>8, RegistersBackends DEF RegistersAll, TypeOK
  <2>3. tcpBackends' \in Seq(Backends)
    <3>1. tcpBackends \in Seq(Backends) /\ config \in [Exts -> Configs]
      BY DEF TypeOK
    <3>2. ASSUME config[e].tcp # <<>>
          PROVE  Append(tcpBackends, <<e, config[e].tcp[1]>>) \in Seq(Backends)
      <4>1. <<e, config[e].tcp[1]>> \in Backends
        BY <3>1, <3>2, RegistersBackends
      <4>2. QED
        BY <3>1, <4>1
    <3>3. QED
      BY <1>8, <3>1, <3>2 DEF RegistersAll, AddTcpBackend
  <2>4. hook' \in [Exts -> HookStates]
    BY <1>8, HookTypes DEF RegistersAll
  <2>5. UNCHANGED <<config, processVars, attempts, containerVars>>
    BY <1>8 DEF RegistersAll
  <2>6. QED
    BY <2>1, <2>2, <2>3, <2>4, <2>5 DEF TypeOK
<1>9. ASSUME NEW e \in Exts, PatchAssertionFails(e) PROVE TypeOK'
  <2>1. routes' \subseteq Backends
    BY <1>7, <1>9 DEF PatchAssertionFails
  <2>2. h2Backends' \subseteq Backends
    BY <1>9, RegistersBackends, PatchesFailOnAPort DEF PatchAssertionFails, TypeOK
  <2>3. QED
    BY <1>9, <2>1, <2>2, HookTypes DEF PatchAssertionFails, TypeOK
<1>10. ASSUME NEW e \in Exts, OnPlatformShutdown(e) PROVE TypeOK'
  BY <1>10, HookTypes, RemoveTypes DEF OnPlatformShutdown, TypeOK
<1>11. CASE Start
  BY <1>11, DockerAssumption DEF Start, TypeOK
<1>12. CASE Ready \/ Stop
  BY <1>12 DEF Ready, Stop, TypeOK
<1>13. CASE Exit \/ Crash
  BY <1>13, ResetTypes DEF Exit, Crash, TypeOK
<1>14. ASSUME NEW e \in Exts, ContainerServes(e) PROVE TypeOK'
  BY <1>14 DEF ContainerServes, TypeOK
<1>15. ASSUME NEW e \in Exts, ContainerExits(e) PROVE TypeOK'
  BY <1>15, RemoveTypes DEF ContainerExits, TypeOK
<1>16. CASE UNCHANGED vars
  BY <1>16 DEF vars, TypeOK
<1>17. QED
  BY <1>1, <1>2, <1>3, <1>4, <1>5, <1>6, <1>8, <1>9, <1>10, <1>11, <1>12, <1>13,
     <1>14, <1>15, <1>16, <1>18 DEF Next, Hooks, Docker, UpdateGatewayRoutes

(* The state of the process and of the daemon keeps its shape: nothing is  *)
(* registered for an extension but ports it was configured with, and no    *)
(* health check is retried more often than allowed.                        *)
THEOREM DockerTypeCorrect == Spec => []TypeOK
<1>1. Init => TypeOK
  BY DockerAssumption DEF Init, TypeOK, HookStates
<1>2. QED
  BY <1>1, TypeStep, PTL DEF Spec

-----------------------------------------------------------------------------
(* Containers *)

(***************************************************************************)
(* The life of an extension: its hooks start over with the process, the    *)
(* shutdown hook runs only in a process that stops, and an extension that  *)
(* was stopped has no container: nothing starts one any more.              *)
(***************************************************************************)
LifeInv ==
  /\ process = "down" => \A e \in Exts : hook[e] = "todo"
  /\ process # "stopping" => \A e \in Exts : hook[e] # "stopped"
  /\ \A e \in Exts : hook[e] = "stopped" => container[e] = "absent"
  /\ CleanExit

(* A container the hook has seen started, unless a development server may  *)
(* stand in for it, is this process's.                                     *)
FreshInv ==
  \A e \in Exts :
    hook[e] \in {"check", "waiting", "register", "done"} /\ ~config[e].dev /\ container[e] # "absent"
      => born[e] = starts

(* A startup hook runs in a process that is starting, and stops nobody.    *)
LEMMA HookLife ==
  ASSUME TypeOK, LifeInv, NEW e \in Exts, UpdateGatewayRoutes(e)
  PROVE  LifeInv'
<1>1. process = "starting" /\ UNCHANGED <<process, clean>>
  BY DEF UpdateGatewayRoutes, EnterHook, ContainerRuns, RunRaises, HealthCheckPasses,
         HealthCheckHangs, HealthCheckFails, HealthCheckGivesUp, RegistersAll,
         PatchAssertionFails, HookIs, Checking, processVars
<1>2. PICK to \in HookStates \ {"stopped"} :
        hook' = [hook EXCEPT ![e] = to]
  <2>1. CASE EnterHook(e) \/ ContainerRuns(e) \/ RunRaises(e) \/ HealthCheckPasses(e)
    BY <2>1 DEF EnterHook, ContainerRuns, RunRaises, HealthCheckPasses, MoveHook, HookStates
  <2>2. CASE HealthCheckHangs(e) \/ HealthCheckFails(e)
    BY <2>2 DEF HealthCheckHangs, HealthCheckFails, MoveHook, HookStates
  <2>3. CASE HealthCheckGivesUp(e) \/ RegistersAll(e) \/ PatchAssertionFails(e)
    BY <2>3 DEF HealthCheckGivesUp, RegistersAll, PatchAssertionFails, MoveHook, HookStates
  <2>4. QED
    BY <2>1, <2>2, <2>3 DEF UpdateGatewayRoutes
<1>3. \A f \in Exts : hook'[f] # "stopped"
  BY <1>1, <1>2 DEF LifeInv, TypeOK
<1>4. QED
  BY <1>1, <1>3 DEF LifeInv, CleanExit

LEMMA LifeStep == TypeOK /\ LifeInv /\ [Next]_vars => LifeInv'
<1> SUFFICES ASSUME TypeOK, LifeInv, [Next]_vars PROVE LifeInv'
  OBVIOUS
<1> USE DEF processVars, containerVars
<1>1. ASSUME NEW e \in Exts, UpdateGatewayRoutes(e) PROVE LifeInv'
  BY <1>1, HookLife
<1>2. ASSUME NEW e \in Exts, OnPlatformShutdown(e) PROVE LifeInv'
  BY <1>2 DEF OnPlatformShutdown, MoveHook, RemoveContainer, LifeInv, CleanExit, TypeOK
<1>3. ASSUME NEW e \in Exts, ContainerServes(e) PROVE LifeInv'
  BY <1>3 DEF ContainerServes, LifeInv, CleanExit, TypeOK
<1>4. ASSUME NEW e \in Exts, ContainerExits(e) PROVE LifeInv'
  BY <1>4 DEF ContainerExits, RemoveContainer, LifeInv, CleanExit, TypeOK
<1>5. CASE Start \/ Ready \/ Stop
  BY <1>5 DEF Start, Ready, Stop, LifeInv, CleanExit
<1>6. CASE Exit
  BY <1>6 DEF Exit, ResetProcess, LifeInv, CleanExit
<1>7. CASE Crash
  BY <1>7 DEF Crash, ResetProcess, LifeInv, CleanExit
<1>8. CASE UNCHANGED vars
  BY <1>8 DEF vars, LifeInv, CleanExit
<1>9. QED
  BY <1>1, <1>2, <1>3, <1>4, <1>5, <1>6, <1>7, <1>8 DEF Next, Hooks, Docker

THEOREM LifeCorrect == Spec => []LifeInv
<1>1. Init => LifeInv
  BY DEF Init, LifeInv, CleanExit
<1>2. QED
  BY <1>1, LifeStep, DockerTypeCorrect, PTL DEF Spec

(* A shutdown leaves no container behind, whoever started it.              *)
THEOREM ShutdownsAreClean == Spec => []CleanExit
<1>1. LifeInv => CleanExit
  BY DEF LifeInv
<1>2. QED
  BY <1>1, LifeCorrect, PTL

(* A container is started only for a hook that then checks it, and its     *)
(* name is free only when the one before it is gone.                       *)
LEMMA FreshStep == TypeOK /\ LifeInv /\ FreshInv /\ [Next]_vars => FreshInv'
<1> SUFFICES ASSUME TypeOK, LifeInv, FreshInv, [Next]_vars, NEW f \in Exts,
                    hook'[f] \in {"check", "waiting", "register", "done"}, ~config'[f].dev,
                    container'[f] # "absent"
             PROVE  born'[f] = starts'
  BY DEF FreshInv
<1> USE DEF processVars, containerVars, registryVars
<1>0. hook[f] \in {"check", "waiting", "register", "done"} /\ ~config[f].dev /\ container[f] # "absent"
        => born[f] = starts
  BY DEF FreshInv
<1>1. ASSUME NEW e \in Exts, EnterHook(e) PROVE born'[f] = starts'
  BY <1>0, <1>1 DEF EnterHook, MoveHook, TypeOK
<1>2. ASSUME NEW e \in Exts, ContainerRuns(e) PROVE born'[f] = starts'
  BY <1>0, <1>2 DEF ContainerRuns, MoveHook, TypeOK
<1>3. ASSUME NEW e \in Exts, RunRaises(e) PROVE born'[f] = starts'
  <2>1. CASE e = f
    BY <1>3, <2>1 DEF RunRaises, MoveHook, TypeOK
  <2>2. CASE e # f
    BY <1>0, <1>3, <2>2 DEF RunRaises, MoveHook, TypeOK
  <2>3. QED
    BY <2>1, <2>2
<1>4. ASSUME NEW e \in Exts, HealthCheckPasses(e) PROVE born'[f] = starts'
  BY <1>0, <1>4 DEF HealthCheckPasses, Checking, HookIs, MoveHook, TypeOK
<1>5. ASSUME NEW e \in Exts, HealthCheckFails(e) \/ HealthCheckHangs(e)
      PROVE  born'[f] = starts'
  BY <1>0, <1>5 DEF HealthCheckFails, HealthCheckHangs, Checking, HookIs, MoveHook, TypeOK
<1>6. ASSUME NEW e \in Exts, HealthCheckGivesUp(e) PROVE born'[f] = starts'
  BY <1>0, <1>6 DEF HealthCheckGivesUp, RemoveContainer, MoveHook, TypeOK
<1>7. ASSUME NEW e \in Exts, RegistersAll(e) \/ PatchAssertionFails(e)
      PROVE  born'[f] = starts'
  BY <1>0, <1>7 DEF RegistersAll, PatchAssertionFails, HookIs, MoveHook, TypeOK
<1>8. ASSUME NEW e \in Exts, OnPlatformShutdown(e) PROVE born'[f] = starts'
  BY <1>0, <1>8 DEF OnPlatformShutdown, RemoveContainer, MoveHook, TypeOK
<1>9. CASE Start
  BY <1>9 DEF Start, LifeInv
<1>10. CASE Ready \/ Stop
  BY <1>0, <1>10 DEF Ready, Stop
<1>11. CASE Exit \/ Crash
  BY <1>11 DEF Exit, Crash, ResetProcess
<1>12. ASSUME NEW e \in Exts, ContainerServes(e) PROVE born'[f] = starts'
  BY <1>0, <1>12 DEF ContainerServes, TypeOK
<1>13. ASSUME NEW e \in Exts, ContainerExits(e) PROVE born'[f] = starts'
  BY <1>0, <1>13 DEF ContainerExits, RemoveContainer, TypeOK
<1>14. CASE UNCHANGED vars
  BY <1>0, <1>14 DEF vars
<1>15. QED
  BY <1>1, <1>2, <1>3, <1>4, <1>5, <1>6, <1>7, <1>8, <1>9, <1>10, <1>11, <1>12,
     <1>13, <1>14 DEF Next, Hooks, Docker, UpdateGatewayRoutes

(* Outside development mode no extension is served from a container that   *)
(* an earlier, crashed process left behind.                                *)
THEOREM ContainersAreFresh == Spec => []FreshContainer
<1>1. Init => FreshInv
  BY DEF Init, FreshInv
<1>2. FreshInv => FreshContainer
  BY DEF FreshInv, FreshContainer
<1>3. QED
  BY <1>1, <1>2, FreshStep, LifeCorrect, DockerTypeCorrect, PTL DEF Spec

-----------------------------------------------------------------------------
(* Registration *)

(* The entries an extension has in a registry.                             *)
Of(registry, e) == {x \in registry : x[1] = e}

(* An extension has no entry in any.                                       *)
NothingOf(e) == Of(routes, e) = {} /\ Of(h2Backends, e) = {} /\ Of(Range(tcpBackends), e) = {}

LEMMA NothingRegistered ==
  ASSUME NEW e
  PROVE  NothingOf(e) <=> Registered(e) = {}
BY DEF NothingOf, Registered, Of

(* What an extension has registered is a matter of its own entries.        *)
LEMMA RegisteredKept ==
  ASSUME NEW f,
         Of(routes', f) = Of(routes, f), Of(h2Backends', f) = Of(h2Backends, f),
         Of(Range(tcpBackends'), f) = Of(Range(tcpBackends), f)
  PROVE  Registered(f)' = Registered(f)
BY DEF Registered, Of

(* The port of a pair.                                                     *)
LEMMA PortOfPair ==
  ASSUME NEW tag, NEW e, NEW port
  PROVE  /\ {<<tag, r[2]>> : r \in {<<e, port>>}} = {<<tag, port>>}
         /\ {<<tag, r[2]>> : r \in {}} = {}
OBVIOUS

(* The patches are applied on behalf of extensions that ask for a port.    *)
PatchesInv ==
  \A x \in h2Backends : x[1] \in Exts /\ config[x[1]].http2 # <<>>

RegistrationInv == PatchesInv /\ AllOrNothing

(* When only one HTTP/2 port is asked for, the extension that asks for it  *)
(* finds the patches not applied yet.                                      *)
LEMMA NobodyPatchedYet ==
  ASSUME TypeOK, PatchesInv, OneHttp2Port, NEW e \in Exts, NothingOf(e)
  PROVE  PatchesOnce(e)
<1>1. config[e].http2 \in Seq(Nat) /\ Len(config[e].http2) <= 1
  BY ConfigTyped DEF OneHttp2Port, TypeOK
<1>2. CASE config[e].http2 = <<>>
  BY <1>2 DEF PatchesOnce
<1>3. CASE config[e].http2 # <<>>
  <2>1. ASSUME NEW x \in h2Backends PROVE FALSE
    <3>1. x[1] \in Exts /\ config[x[1]].http2 # <<>>
      BY <2>1 DEF PatchesInv
    <3>2. x[1] # e
      BY <2>1 DEF NothingOf, Of
    <3>3. QED
      BY <1>3, <3>1, <3>2 DEF OneHttp2Port
  <2>2. QED
    BY <1>1, <2>1 DEF PatchesOnce
<1>4. QED
  BY <1>2, <1>3

(* The last part of the hook gives an extension all it is configured for,  *)
(* and takes nothing from the others.                                      *)
LEMMA RegistersWanted ==
  ASSUME TypeOK, NEW e \in Exts, NothingOf(e), RegistersAll(e)
  PROVE  /\ Registered(e)' = Wanted(e)
         /\ \A f \in Exts \ {e} : Registered(f)' = Registered(f)
<1> DEFINE g == config[e]
           newRoutes == IF UsesHttp(g) THEN {<<e, MainPort(e)>>} ELSE {}
           newH2     == {<<e, p>> : p \in Range(g.http2)}
           newTcp    == IF g.tcp # <<>> /\ g.matcher THEN {<<e, g.tcp[1]>>} ELSE {}
<1>1. routes' = routes \cup newRoutes
  BY DEF RegistersAll, AddRoute
<1>2. h2Backends' = h2Backends \cup newH2
  BY DEF RegistersAll
<1>3. Range(tcpBackends') = Range(tcpBackends) \cup newTcp
  <2>1. CASE g.tcp # <<>> /\ g.matcher
    <3>1. tcpBackends' = Append(tcpBackends, <<e, g.tcp[1]>>)
      BY <2>1 DEF RegistersAll, AddTcpBackend
    <3>2. tcpBackends \in Seq(Backends) /\ <<e, g.tcp[1]>> \in Backends
      BY <2>1, RegistersBackends DEF TypeOK
    <3>3. Range(Append(tcpBackends, <<e, g.tcp[1]>>))
            = Range(tcpBackends) \cup {<<e, g.tcp[1]>>}
      BY <3>2, RangeAppend
    <3>4. QED
      BY <2>1, <3>1, <3>3
  <2>2. CASE ~(g.tcp # <<>> /\ g.matcher)
    BY <2>2 DEF RegistersAll, AddTcpBackend
  <2>3. QED
    BY <2>1, <2>2
<1>4. /\ \A x \in newRoutes : x[1] = e
      /\ \A x \in newH2 : x[1] = e
      /\ \A x \in newTcp : x[1] = e
  OBVIOUS
<1>5. {<<"http", r[2]>> : r \in newRoutes}
        = IF UsesHttp(g) THEN {<<"http", MainPort(e)>>} ELSE {}
  BY PortOfPair
<1>6. {<<"http2", r[2]>> : r \in newH2} = {<<"http2", p>> : p \in Range(g.http2)}
  <2>1. ASSUME NEW r \in newH2
        PROVE  <<"http2", r[2]>> \in {<<"http2", p>> : p \in Range(g.http2)}
    <3>1. PICK p \in Range(g.http2) : r = <<e, p>>
      OBVIOUS
    <3>2. <<"http2", r[2]>> = <<"http2", p>>
      BY <3>1
    <3>3. QED
      BY <3>2
  <2>2. ASSUME NEW p \in Range(g.http2)
        PROVE  <<"http2", p>> \in {<<"http2", r[2]>> : r \in newH2}
    <3>1. <<e, p>> \in newH2 /\ <<e, p>>[2] = p
      OBVIOUS
    <3>2. QED
      BY <3>1
  <2>3. QED
    BY <2>1, <2>2
<1>7. {<<"tcp", r[2]>> : r \in newTcp}
        = IF g.tcp # <<>> /\ g.matcher THEN {<<"tcp", g.tcp[1]>>} ELSE {}
  BY PortOfPair
<1> HIDE DEF newRoutes, newH2, newTcp
<1>8. /\ Of(routes', e) = newRoutes
      /\ Of(h2Backends', e) = newH2
      /\ Of(Range(tcpBackends'), e) = newTcp
  <2>1. Of(routes \cup newRoutes, e) = newRoutes
    BY <1>4 DEF NothingOf, Of
  <2>2. Of(h2Backends \cup newH2, e) = newH2
    BY <1>4 DEF NothingOf, Of
  <2>3. Of(Range(tcpBackends) \cup newTcp, e) = newTcp
    BY <1>4 DEF NothingOf, Of
  <2>4. QED
    BY <1>1, <1>2, <1>3, <2>1, <2>2, <2>3
<1>9. Registered(e)' = {<<"http", r[2]>> : r \in newRoutes}
                         \cup {<<"http2", r[2]>> : r \in newH2}
                         \cup {<<"tcp", r[2]>> : r \in newTcp}
  BY <1>8 DEF Registered, Of
<1>10. Registered(e)' = Wanted(e)
  BY <1>5, <1>6, <1>7, <1>9 DEF Wanted
<1>11. ASSUME NEW f \in Exts \ {e} PROVE Registered(f)' = Registered(f)
  <2>1. Of(routes \cup newRoutes, f) = Of(routes, f)
    BY <1>4 DEF Of
  <2>2. Of(h2Backends \cup newH2, f) = Of(h2Backends, f)
    BY <1>4 DEF Of
  <2>3. Of(Range(tcpBackends) \cup newTcp, f) = Of(Range(tcpBackends), f)
    BY <1>4 DEF Of
  <2>4. QED
    BY <1>1, <1>2, <1>3, <2>1, <2>2, <2>3, RegisteredKept
<1>12. QED
  BY <1>10, <1>11

(* Where the hook of an extension is, as far as AllOrNothing looks.        *)
NotYet == HookStates \ {"done", "stopped"}

(* A step that registers nothing, and takes no hook from failure to        *)
(* success, registers nothing.                                             *)
LEMMA QuietStep ==
  ASSUME RegistrationInv, UNCHANGED <<config, routes, h2Backends, tcpBackends>>,
         \A f \in Exts : /\ hook'[f] = "done" => hook[f] = "done"
                         /\ hook'[f] \in NotYet => hook[f] \in NotYet
  PROVE  RegistrationInv'
BY DEF RegistrationInv, PatchesInv, AllOrNothing, OneHttp2Port, Registered, Wanted,
       MainPort, NotYet

(* Every step keeps registration all or nothing, as long as one HTTP/2     *)
(* port is asked for.                                                      *)
LEMMA RegistrationStep ==
  TypeOK /\ RegistrationInv /\ [Next]_vars => RegistrationInv'
<1> SUFFICES ASSUME TypeOK, RegistrationInv, [Next]_vars
             PROVE  RegistrationInv'
  OBVIOUS
<1> USE DEF processVars, containerVars, registryVars, HookStates
<1>0. \A e \in Exts : hook[e] \in NotYet /\ OneHttp2Port => NothingOf(e)
  BY NothingRegistered DEF RegistrationInv, AllOrNothing, NotYet
<1>1. ASSUME NEW e \in Exts, EnterHook(e) PROVE RegistrationInv'
  BY <1>1, QuietStep DEF EnterHook, HookIs, MoveHook, NotYet, TypeOK
<1>2. ASSUME NEW e \in Exts, ContainerRuns(e) PROVE RegistrationInv'
  BY <1>2, QuietStep DEF ContainerRuns, HookIs, MoveHook, NotYet, TypeOK
<1>3. ASSUME NEW e \in Exts, RunRaises(e) PROVE RegistrationInv'
  BY <1>3, QuietStep DEF RunRaises, HookIs, MoveHook, NotYet, TypeOK
<1>4. ASSUME NEW e \in Exts, HealthCheckPasses(e) PROVE RegistrationInv'
  BY <1>4, QuietStep DEF HealthCheckPasses, Checking, HookIs, MoveHook, NotYet, TypeOK
<1>5. ASSUME NEW e \in Exts, HealthCheckHangs(e) \/ HealthCheckFails(e)
      PROVE  RegistrationInv'
  BY <1>5, QuietStep DEF HealthCheckHangs, HealthCheckFails, Checking, HookIs, MoveHook,
     NotYet, TypeOK
<1>6. ASSUME NEW e \in Exts, HealthCheckGivesUp(e) PROVE RegistrationInv'
  BY <1>6, QuietStep DEF HealthCheckGivesUp, Checking, HookIs, MoveHook, NotYet, TypeOK
<1>7. ASSUME NEW e \in Exts, RegistersAll(e) PROVE RegistrationInv'
  <2>1. PatchesInv'
    <3>1. SUFFICES ASSUME NEW x \in h2Backends'
                   PROVE  x[1] \in Exts /\ config[x[1]].http2 # <<>>
      BY <1>7 DEF PatchesInv, RegistersAll
    <3>2. CASE x \in h2Backends
      BY <3>2 DEF RegistrationInv, PatchesInv
    <3>3. CASE x \notin h2Backends
      <4>1. PICK p \in Range(config[e].http2) : x = <<e, p>>
        BY <1>7, <3>1, <3>3 DEF RegistersAll
      <4>2. config[e].http2 # <<>>
        BY <4>1 DEF Range
      <4>3. x[1] = e
        BY <4>1
      <4>4. QED
        BY <4>2, <4>3
    <3>4. QED
      BY <3>2, <3>3
  <2>2. ASSUME OneHttp2Port' PROVE AllOrNothing'
    <3>1. OneHttp2Port /\ \A f \in Exts : Wanted(f)' = Wanted(f)
      BY <1>7, <2>2 DEF RegistersAll, OneHttp2Port, Wanted, MainPort
    <3>2. hook[e] = "register" /\ hook' = [hook EXCEPT ![e] = "done"]
      BY <1>7 DEF RegistersAll, HookIs, MoveHook
    <3>3. NothingOf(e)
      BY <1>0, <3>1, <3>2 DEF NotYet
    <3>4. /\ Registered(e)' = Wanted(e)
          /\ \A f \in Exts \ {e} : Registered(f)' = Registered(f)
      BY <1>7, <3>3, RegistersWanted
    <3>5. \A f \in Exts \ {e} : hook'[f] = hook[f]
      BY <3>2 DEF TypeOK
    <3>6. hook'[e] = "done"
      BY <3>2 DEF TypeOK
    <3>7. QED
      BY <3>1, <3>4, <3>5, <3>6 DEF RegistrationInv, AllOrNothing
  <2>3. QED
    BY <2>1, <2>2 DEF RegistrationInv, AllOrNothing
<1>8. ASSUME NEW e \in Exts, PatchAssertionFails(e) PROVE RegistrationInv'
  <2>1. config[e].http2 # <<>>
    BY <1>8, PatchesFailOnAPort DEF PatchAssertionFails, TypeOK
  <2>2. PatchesInv'
    BY <1>8, <2>1 DEF PatchAssertionFails, RegistrationInv, PatchesInv
  <2>3. hook[e] = "register" /\ ~PatchesOnce(e) /\ config' = config
    BY <1>8 DEF PatchAssertionFails, HookIs
  <2>4. ~OneHttp2Port
    BY <1>0, <2>3, NobodyPatchedYet DEF NotYet, RegistrationInv
  <2>5. ~OneHttp2Port'
    BY <2>3, <2>4 DEF OneHttp2Port
  <2>6. QED
    BY <2>2, <2>5 DEF RegistrationInv, AllOrNothing
<1>9. ASSUME NEW e \in Exts, OnPlatformShutdown(e) PROVE RegistrationInv'
  BY <1>9, QuietStep DEF OnPlatformShutdown, MoveHook, NotYet, TypeOK
<1>10. CASE Start \/ Ready \/ Stop
  BY <1>10, QuietStep DEF Start, Ready, Stop
<1>11. CASE Exit \/ Crash
  <2>1. ResetProcess /\ UNCHANGED config
    BY <1>11 DEF Exit, Crash
  <2>2. PatchesInv'
    BY <2>1 DEF ResetProcess, PatchesInv
  <2>3. \A f \in Exts : NothingOf(f)'
    <3>1. routes' = {} /\ h2Backends' = {} /\ Range(tcpBackends') = {}
      BY <2>1 DEF ResetProcess, Range
    <3>2. QED
      BY <3>1 DEF NothingOf, Of
  <2>4. \A f \in Exts : Registered(f)' = {}
    <3>1. ASSUME NEW f \in Exts PROVE Registered(f)' = {}
      <4>1. (NothingOf(f) <=> Registered(f) = {})'
        BY DEF NothingOf, Registered, Of
      <4>2. QED
        BY <2>3, <4>1
    <3>2. QED
      BY <3>1
  <2>5. \A f \in Exts : hook'[f] = "todo"
    BY <2>1 DEF ResetProcess
  <2>6. QED
    BY <2>2, <2>4, <2>5 DEF RegistrationInv, AllOrNothing
<1>12. ASSUME NEW e \in Exts, ContainerServes(e) \/ ContainerExits(e)
       PROVE  RegistrationInv'
  BY <1>12, QuietStep DEF ContainerServes, ContainerExits
<1>13. CASE UNCHANGED vars
  BY <1>13, QuietStep DEF vars
<1>14. QED
  BY <1>1, <1>2, <1>3, <1>4, <1>5, <1>6, <1>7, <1>8, <1>9, <1>10, <1>11, <1>12,
     <1>13 DEF Next, Hooks, Docker, UpdateGatewayRoutes

(* An extension is registered with the gateway in full or not at all, as   *)
(* long as the extensions ask for one HTTP/2 port between them.            *)
THEOREM RegistrationIsAllOrNothing == Spec => []AllOrNothing
<1>1. Init => RegistrationInv
  <2> SUFFICES ASSUME Init PROVE RegistrationInv
    OBVIOUS
  <2>1. routes = {} /\ h2Backends = {} /\ Range(tcpBackends) = {}
    BY DEF Init, Range
  <2>2. \A f \in Exts : Registered(f) = {}
    BY <2>1, NothingRegistered DEF NothingOf, Of
  <2>3. \A f \in Exts : hook[f] = "todo"
    BY DEF Init
  <2>4. QED
    BY <2>1, <2>2, <2>3 DEF RegistrationInv, PatchesInv, AllOrNothing
<1>2. RegistrationInv => AllOrNothing
  BY DEF RegistrationInv
<1>3. QED
  BY <1>1, <1>2, RegistrationStep, DockerTypeCorrect, PTL DEF Spec
=============================================================================
