-------------------------- MODULE DockerExtension --------------------------
(***************************************************************************)
(* Extensions that run a Docker container and proxy to it                  *)
(* (ProxiedDockerContainerExtension in                                     *)
(* utils/localstack_extensions/utils/docker.py), through the life of the   *)
(* LocalStack process that loads them: it starts, calls                    *)
(* update_gateway_routes of each extension, serves, calls                  *)
(* on_platform_shutdown of each and exits, or crashes at any point and is  *)
(* started again.  Containers belong to the Docker daemon and survive a    *)
(* crash; routes, patches and registrations belong to the process.         *)
(***************************************************************************)
EXTENDS Naturals, Sequences, Functions

CONSTANTS
  Exts,      (* the extensions                                             *)
  Configs,   (* the configurations an extension may be constructed with    *)
  Retries,   (* health_check_retries                                       *)
  MaxStarts  (* bound: times the process is started                        *)

ASSUME DockerAssumption == {Retries, MaxStarts} \subseteq Nat

(***************************************************************************)
(* A configuration: the arguments of __init__ (which refuses an empty      *)
(* container_ports), whether the class has a tcp_connection_matcher, and   *)
(* whether {NAME}_DEV_MODE is set.  host and path say whether one is given;*)
(* timed says whether the request of its health check has a timeout, which *)
(* that of _default_health_check has not; a request_to_port_router is kept *)
(* by the code and never called.                                           *)
(***************************************************************************)
ASSUME ConfigAssumption ==
  \A g \in Configs :
    /\ DOMAIN g = {"ports", "http2", "tcp", "host", "path", "matcher", "dev",
                 "timed"}
    /\ {g.ports, g.http2, g.tcp} \subseteq Seq(Nat)
    /\ g.ports # <<>>
    /\ {g.host, g.path, g.matcher, g.dev, g.timed} \subseteq BOOLEAN

VARIABLES
  config,      (* the configuration of each extension                      *)
  process,     (* where the LocalStack process is                          *)
  starts,      (* number of times it was started                           *)
  clean,       (* whether its last exit was a shutdown                     *)
  hook,        (* where the hooks of each extension are                    *)
  attempts,    (* failed health checks                                     *)
  routes,      (* <<extension, port>> of the HTTP routes                   *)
  h2Backends,  (* <<extension, port>> whose HTTP/2 patches were applied    *)
  tcpBackends, (* <<extension, port>> registered for TCP routing, in order *)
  container,   (* the container of each extension's name                   *)
  born         (* the start of the process that ran that container         *)

registryVars  == <<routes, h2Backends, tcpBackends>>
processVars   == <<process, starts, clean>>
containerVars == <<container, born>>
vars == <<config, processVars, hook, attempts, registryVars, containerVars>>

MainPort(e) == config[e].ports[1]

-----------------------------------------------------------------------------
(* update_gateway_routes, one extension after the other *)

HookIs(e, at) == process = "starting" /\ hook[e] = at

MoveHook(e, to) == hook' = [hook EXCEPT ![e] = to]

(* A faulty variant of RemoveContainer: one that is not up yet is missed.  *)
RemoveIfServing(e) ==
  container' = IF container[e] = "serving"
               THEN [container EXCEPT ![e] = "absent"] ELSE container

RemoveContainer(e) == container' = [container EXCEPT ![e] = "absent"]

(* Path-based routing raises; otherwise start_container begins.            *)
EnterHook(e) ==
  /\ HookIs(e, "todo")
  /\ \A f \in Exts : hook[f] \in {"todo", "done", "failed"}
  /\ MoveHook(e, IF config[e].path THEN "failed" ELSE "run")
  /\ UNCHANGED <<config, processVars, attempts, registryVars, containerVars>>

(* The container's name is free, and so are the host's ports.              *)
CanRun(e) ==
  /\ container[e] = "absent"
  /\ \A f \in Exts :
       container[f] # "absent" => Range(config[f].ports) \cap Range(config[e].ports) = {}

ContainerRuns(e) ==
  /\ HookIs(e, "run")
  /\ CanRun(e)
  /\ container' = [container EXCEPT ![e] = "booting"]
  /\ born'      = [born EXCEPT ![e] = starts]
  /\ MoveHook(e, "check")
  /\ UNCHANGED <<config, processVars, attempts, registryVars>>

(* A faulty variant of RunRaises: a name that is taken is no error.        *)
RunRaisesIgnored(e) ==
  /\ HookIs(e, "run")
  /\ MoveHook(e, "check")
  /\ UNCHANGED <<config, processVars, attempts, registryVars, containerVars>>

(* run_container raises: a name or a port is taken, the image cannot be    *)
(* pulled...                                                               *)
(* In development mode a local server is expected instead.                 *)
RunRaises(e) ==
  /\ HookIs(e, "run")
  /\ MoveHook(e, IF config[e].dev THEN "check" ELSE "failed")
  /\ UNCHANGED <<config, processVars, attempts, registryVars, containerVars>>

(* retry() is about to call the health check, or waits for its answer.     *)
Checking(e) == HookIs(e, "check") \/ HookIs(e, "waiting")

(* The check's request is accepted and not answered: without a timeout it  *)
(* waits for as long as the container (or a development server) pleases.   *)
HealthCheckHangs(e) ==
  /\ HookIs(e, "check")
  /\ ~config[e].timed
  /\ container[e] # "absent" \/ config[e].dev
  /\ MoveHook(e, "waiting")
  /\ UNCHANGED <<config, processVars, attempts, registryVars, containerVars>>

HealthCheckPasses(e) ==
  /\ Checking(e)
  /\ container[e] = "serving" \/ config[e].dev
  /\ MoveHook(e, "register")
  /\ UNCHANGED <<config, processVars, attempts, registryVars, containerVars>>

(* Faulty variants of HealthCheckFails: retries are not bounded.           *)
HealthCheckFailsAgain(e) ==
  /\ Checking(e)
  /\ attempts' = [attempts EXCEPT ![e] = @ + 1]
  /\ MoveHook(e, "check")
  /\ UNCHANGED <<config, processVars, registryVars, containerVars>>

HealthCheckFailsForever(e) ==
  /\ Checking(e)
  /\ attempts' = [attempts EXCEPT ![e] = 0]
  /\ MoveHook(e, "check")
  /\ UNCHANGED <<config, processVars, registryVars, containerVars>>

(* A check may also fail although the container serves.                    *)
HealthCheckFails(e) ==
  /\ Checking(e)
  /\ attempts[e] < Retries
  /\ attempts' = [attempts EXCEPT ![e] = @ + 1]
  /\ MoveHook(e, "check")
  /\ UNCHANGED <<config, processVars, registryVars, containerVars>>

(* The last retry fails: the container is removed and the error re-raised. *)
HealthCheckGivesUp(e) ==
  /\ Checking(e)
  /\ attempts[e] = Retries
  /\ RemoveContainer(e)
  /\ MoveHook(e, "failed")
  /\ UNCHANGED <<config, processVars, attempts, registryVars, born>>

(* uses_http: a host is given and not every port is a TCP port.            *)
UsesHttp(g) == g.host /\ Range(g.ports) \ Range(g.tcp) # {}

(* A faulty variant of AddRoute: a catch-all route when there is no host.  *)
AddRouteAlways(e) == routes' = routes \cup {<<e, MainPort(e)>>}

AddRoute(e) ==
  routes' = IF UsesHttp(config[e]) THEN routes \cup {<<e, MainPort(e)>>} ELSE routes

(* _setup_tcp_protocol_routing: the first TCP port is the target; without  *)
(* a matcher nothing is registered.                                        *)
AddTcpBackend(e) ==
  tcpBackends' = IF config[e].tcp # <<>> /\ config[e].matcher
                 THEN Append(tcpBackends, <<e, config[e].tcp[1]>>)
                 ELSE tcpBackends

(* Whether the assertion that the HTTP/2 patches are applied once holds    *)
(* for every port of http2_ports.                                          *)
PatchesOnce(e) ==
  Len(config[e].http2) <= (IF h2Backends = {} THEN 1 ELSE 0)

(* The rest of the hook: HTTP route, HTTP/2 patches and TCP registration.  *)
RegistersAll(e) ==
  /\ HookIs(e, "register")
  /\ PatchesOnce(e)
  /\ AddRoute(e)
  /\ h2Backends' = h2Backends \cup {<<e, p>> : p \in Range(config[e].http2)}
  /\ AddTcpBackend(e)
  /\ MoveHook(e, "done")
  /\ UNCHANGED <<config, processVars, attempts, containerVars>>

(* The assertion fails at the first port that finds the patches applied:   *)
(* the hook raises with the route added and the container running.         *)
PatchAssertionFails(e) ==
  /\ HookIs(e, "register")
  /\ ~PatchesOnce(e)
  /\ AddRoute(e)
  /\ h2Backends' = IF h2Backends = {} THEN {<<e, config[e].http2[1]>>} ELSE h2Backends
  /\ MoveHook(e, "failed")
  /\ UNCHANGED <<config, processVars, attempts, tcpBackends, containerVars>>

UpdateGatewayRoutes(e) ==
  \/ EnterHook(e)
  \/ ContainerRuns(e)
  \/ RunRaises(e)
  \/ HealthCheckHangs(e)
  \/ HealthCheckPasses(e)
  \/ HealthCheckFails(e)
  \/ HealthCheckGivesUp(e)
  \/ RegistersAll(e)
  \/ PatchAssertionFails(e)

-----------------------------------------------------------------------------
(* on_platform_shutdown: the container of that name is removed, whoever    *)
(* started it.                                                             *)
OnPlatformShutdown(e) ==
  /\ process = "stopping"
  /\ hook[e] # "stopped"
  /\ RemoveContainer(e)
  /\ MoveHook(e, "stopped")
  /\ UNCHANGED <<config, processVars, attempts, registryVars, born>>

-----------------------------------------------------------------------------
(* The LocalStack process *)

(* What dies with the process.                                             *)
ResetProcess ==
  /\ hook'        = [e \in Exts |-> "todo"]
  /\ attempts'    = [e \in Exts |-> 0]
  /\ routes'      = {}
  /\ h2Backends'  = {}
  /\ tcpBackends' = <<>>

Start ==
  /\ process = "down"
  /\ starts < MaxStarts
  /\ process' = "starting"
  /\ starts'  = starts + 1
  /\ UNCHANGED <<config, clean, hook, attempts, registryVars, containerVars>>

Ready ==
  /\ process = "starting"
  /\ \A e \in Exts : hook[e] \in {"done", "failed"}
  /\ process' = "ready"
  /\ UNCHANGED <<config, starts, clean, hook, attempts, registryVars, containerVars>>

Stop ==
  /\ process = "ready"
  /\ process' = "stopping"
  /\ UNCHANGED <<config, starts, clean, hook, attempts, registryVars, containerVars>>

Exit ==
  /\ process = "stopping"
  /\ \A e \in Exts : hook[e] = "stopped"
  /\ process' = "down"
  /\ clean'   = TRUE
  /\ ResetProcess
  /\ UNCHANGED <<config, starts, containerVars>>

Crash ==
  /\ process # "down"
  /\ process' = "down"
  /\ clean'   = FALSE
  /\ ResetProcess
  /\ UNCHANGED <<config, starts, containerVars>>

-----------------------------------------------------------------------------
(* The Docker daemon *)

ContainerServes(e) ==
  /\ container[e] = "booting"
  /\ container' = [container EXCEPT ![e] = "serving"]
  /\ UNCHANGED <<config, processVars, hook, attempts, registryVars, born>>

(* A container that exits is removed (remove=True).                        *)
ContainerExits(e) ==
  /\ container[e] # "absent"
  /\ RemoveContainer(e)
  /\ UNCHANGED <<config, processVars, hook, attempts, registryVars, born>>

-----------------------------------------------------------------------------
Init ==
  /\ config      \in [Exts -> Configs]
  /\ process     = "down"
  /\ starts      = 0
  /\ clean       = TRUE
  /\ hook        = [e \in Exts |-> "todo"]
  /\ attempts    = [e \in Exts |-> 0]
  /\ routes      = {}
  /\ h2Backends  = {}
  /\ tcpBackends = <<>>
  /\ container   = [e \in Exts |-> "absent"]
  /\ born        = [e \in Exts |-> 0]

Hooks  == \E e \in Exts : UpdateGatewayRoutes(e) \/ OnPlatformShutdown(e)
Docker == \E e \in Exts : ContainerServes(e) \/ ContainerExits(e)

Next == Hooks \/ Docker \/ Start \/ Ready \/ Stop \/ Exit \/ Crash

(* The process runs the hooks and goes on; when it is started, stopped or  *)
(* killed, what becomes of a container, and whether a request without a    *)
(* timeout is ever answered, is up to others.                              *)
Fairness ==
  /\ WF_vars(Hooks /\ \A e \in Exts : hook[e] # "waiting")
  /\ WF_vars(Ready)
  /\ WF_vars(Exit)

Spec == Init /\ [][Next]_vars /\ Fairness
-----------------------------------------------------------------------------
(* Properties *)

Backends == Exts \X UNION {Range(g.ports) \cup Range(g.http2) \cup Range(g.tcp) : g \in Configs}

HookStates ==
  {"todo", "run", "check", "waiting", "register", "done", "failed", "stopped"}

(* The state of the process and of the daemon has the shape the code gives *)
(* it.                                                                     *)
TypeOK ==
  /\ config      \in [Exts -> Configs]
  /\ process     \in {"down", "starting", "ready", "stopping"}
  /\ starts      \in 0..MaxStarts
  /\ clean       \in BOOLEAN
  /\ hook        \in [Exts -> HookStates]
  /\ attempts    \in [Exts -> 0..Retries]
  /\ routes      \subseteq Backends
  /\ h2Backends  \subseteq Backends
  /\ tcpBackends \in Seq(Backends)
  /\ container   \in [Exts -> {"absent", "booting", "serving"}]
  /\ born        \in [Exts -> 0..MaxStarts]

(* A shutdown leaves no container behind: neither of the extensions that   *)
(* were enabled, nor of those that failed to start, nor one that a crash   *)
(* of an earlier process left running.                                     *)
CleanExit ==
  process = "down" /\ clean => \A e \in Exts : container[e] = "absent"

(* An extension that is not in development mode never serves from a        *)
(* container that an earlier, crashed process left behind.                 *)
FreshContainer ==
  \A e \in Exts :
    hook[e] = "done" /\ ~config[e].dev /\ container[e] # "absent" => born[e] = starts

(* The surfaces an extension is configured for, and those it has.          *)
Wanted(e) ==
  LET g == config[e] IN
  (IF UsesHttp(g) THEN {<<"http", MainPort(e)>>} ELSE {})
    \cup {<<"http2", p>> : p \in Range(g.http2)}
    \cup (IF g.tcp # <<>> /\ g.matcher THEN {<<"tcp", g.tcp[1]>>} ELSE {})

Registered(e) ==
  {<<"http", r[2]>> : r \in {x \in routes : x[1] = e}}
    \cup {<<"http2", r[2]>> : r \in {x \in h2Backends : x[1] = e}}
    \cup {<<"tcp", r[2]>> : r \in {x \in Range(tcpBackends) : x[1] = e}}

(* The extensions ask for one HTTP/2 port between them.                    *)
OneHttp2Port ==
  \A e, f \in Exts :
    /\ Len(config[e].http2) <= 1
    /\ e # f => config[e].http2 = <<>> \/ config[f].http2 = <<>>

(* As long as they do, an extension is registered with the gateway in full *)
(* or not at all, and one that failed is not: a taken name or port, or a   *)
(* health check that fails, leaves no request routed to a service that is  *)
(* not there.  (With a second HTTP/2 port the hook fails half-way, its     *)
(* route added: PatchAssertionFails.)                                      *)
AllOrNothing ==
  OneHttp2Port =>
    \A e \in Exts :
      /\ hook[e] = "done" => Registered(e) = Wanted(e)
      /\ hook[e] \in HookStates \ {"done", "stopped"} => Registered(e) = {}

(* An extension that cannot start does not hold up the platform: startup  *)
(* ends, unless a health check without a timeout is never answered.        *)
StartupEnds ==
  \/ process = "starting" ~> process # "starting"
  \/ <>[](\E e \in Exts : hook[e] = "waiting")
=============================================================================
