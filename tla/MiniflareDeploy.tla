-------------------------- MODULE MiniflareDeploy --------------------------
(***************************************************************************)
(* Deploying and invoking Cloudflare workers                               *)
(* (miniflare/miniflare/cloudflare_api.py and extension.py).               *)
(*                                                                         *)
(* Every request of the API runs handle_scripts, handle_secrets or         *)
(* handle_invocation on a thread of the gateway, with no lock around the   *)
(* state they share: the scripts and secrets of the accounts, and the map  *)
(* from script names to the servers that run them.  A server is a wrangler *)
(* process started by its own thread on a port that was free when the      *)
(* deployment began.                                                       *)
(*                                                                         *)
(* A deployment also stands for the script it uploads, for the binding in  *)
(* its metadata, and for the server it starts.                             *)
(***************************************************************************)
EXTENDS Naturals, FiniteSets

CONSTANTS
  Accounts,    (* account IDs                                              *)
  Names,       (* script names                                             *)
  Deploys,     (* the PUT requests of handle_scripts                       *)
  Calls,       (* the invocations                                          *)
  Secrets,     (* the values a secret is set to, each by one request       *)
  Ports,       (* the ports get_free_tcp_port chooses from                 *)
  None         (* no such thing                                            *)

ASSUME MiniflareAssumption ==
  /\ None \notin Accounts \cup Names \cup Deploys \cup Secrets \cup Ports
  /\ Deploys \cap Secrets = {}

VARIABLES
  pc,              (* where the handler of a deployment is                 *)
  target,          (* the account and script name a deployment is for      *)
  port,            (* the port picked for the server of a deployment       *)
  scripts,         (* Account.scripts: the deployment stored last          *)
  secrets,         (* Account.secrets                                      *)
  bound,           (* the value the worker of a deployment sees for its    *)
                   (* binding: the uploaded one or the secret over it      *)
  SCRIPT_SERVERS,  (* the deployment whose server is registered            *)
  server,          (* the wrangler process of a deployment                 *)
  shut,            (* servers shutdown() was called on                     *)
  call,            (* what an invocation has come to                       *)
  overlapped       (* history: deployments that ran beside another one of  *)
                   (* the same script name                                 *)

deployVars == <<pc, target, port, bound>>
accountVars == <<scripts, secrets>>
serverVars == <<SCRIPT_SERVERS, server, shut>>
vars == <<deployVars, accountVars, serverVars, call, overlapped>>

Targets == [account : Accounts, name : Names]

(* A handler that is between its first and its last step.                  *)
Running(d) == pc[d] \notin {"idle", "done", "failed"}

(* A server whose process listens or may yet listen.                       *)
Alive(d) == server[d] \in {"starting", "serving"}

Taken(p) == \E d \in Deploys : server[d] = "serving" /\ port[d] = p

-----------------------------------------------------------------------------
(* handle_scripts, from the request to its last assignment *)

(* The handler begins, and creates the account if it is new.               *)
Begin(d) ==
  /\ pc[d] = "idle"
  /\ \E t \in Targets :
       LET others == {e \in Deploys : Running(e) /\ target[e].name = t.name}
       IN  /\ target' = [target EXCEPT ![d] = t]
           /\ overlapped' = IF others = {} THEN overlapped
                            ELSE overlapped \cup others \cup {d}
  /\ pc' = [pc EXCEPT ![d] = "begun"]
  /\ UNCHANGED <<port, bound, accountVars, serverVars, call>>

(* A faulty variant of PickPort: the old server is stopped to free a port. *)
PickAndShut(d) ==
  /\ pc[d] = "begun"
  /\ \E p \in Ports : ~Taken(p) /\ port' = [port EXCEPT ![d] = p]
  /\ shut' = shut \cup ({SCRIPT_SERVERS[target[d].name]} \ {None})
  /\ pc' = [pc EXCEPT ![d] = "picked"]
  /\ UNCHANGED <<target, bound, accountVars, SCRIPT_SERVERS, server, call, overlapped>>

(* wrangler is installed, and a port picked that nobody listens at now.    *)
PickPort(d) ==
  /\ pc[d] = "begun"
  /\ \E p \in Ports : ~Taken(p) /\ port' = [port EXCEPT ![d] = p]
  /\ pc' = [pc EXCEPT ![d] = "picked"]
  /\ UNCHANGED <<target, bound, accountVars, serverVars, call, overlapped>>

(* A faulty variant of Reject: the script is stored before the metadata    *)
(* is found to be no JSON.                                                 *)
RejectStored(d) ==
  /\ pc[d] \in {"begun", "picked"}
  /\ pc' = [pc EXCEPT ![d] = "failed"]
  /\ scripts' = [scripts EXCEPT ![target[d]] = d]
  /\ UNCHANGED <<target, port, bound, secrets, serverVars, call, overlapped>>

(* The installation fails, no file was uploaded, or the metadata is no     *)
(* JSON or has a binding without a name.                                   *)
Reject(d) ==
  /\ pc[d] \in {"begun", "picked"}
  /\ pc' = [pc EXCEPT ![d] = "failed"]
  /\ UNCHANGED <<target, port, bound, accountVars, serverVars, call, overlapped>>

(* account.scripts[script_name] = script                                   *)
Record(d) ==
  /\ pc[d] = "picked"
  /\ scripts' = [scripts EXCEPT ![target[d]] = d]
  /\ pc' = [pc EXCEPT ![d] = "recorded"]
  /\ UNCHANGED <<target, port, bound, secrets, serverVars, call, overlapped>>

(* A faulty variant of SecretOf: the accounts share the secrets of a name. *)
SecretOfName(t) ==
  LET values == {secrets[u] : u \in {v \in Targets : v.name = t.name}} \ {None}
  IN  IF values = {} THEN None ELSE CHOOSE s \in values : TRUE

(* account.secrets.get(script_name)                                        *)
SecretOf(t) == secrets[t]

(* The secrets are put over the bindings of a copy of the script.          *)
BindSecrets(d) ==
  /\ pc[d] = "recorded"
  /\ bound' = [bound EXCEPT ![d] = IF SecretOf(target[d]) = None THEN d
                                   ELSE SecretOf(target[d])]
  /\ pc' = [pc EXCEPT ![d] = "bound"]
  /\ UNCHANGED <<target, port, accountVars, serverVars, call, overlapped>>

(* A faulty variant of ShutExisting: the old server is left running.       *)
ShutNothing(d) ==
  /\ pc[d] = "bound"
  /\ pc' = [pc EXCEPT ![d] = "replaced"]
  /\ UNCHANGED <<target, port, bound, accountVars, serverVars, call, overlapped>>

(* A faulty variant of ShutExisting: the old server is forgotten as well.  *)
ShutAndForget(d) ==
  /\ pc[d] = "bound"
  /\ shut' = shut \cup ({SCRIPT_SERVERS[target[d].name]} \ {None})
  /\ SCRIPT_SERVERS' = [SCRIPT_SERVERS EXCEPT ![target[d].name] = None]
  /\ pc' = [pc EXCEPT ![d] = "replaced"]
  /\ UNCHANGED <<target, port, bound, accountVars, server, call, overlapped>>

(* A faulty variant of ShutExisting: shutdown() is called even when there  *)
(* is no server.                                                           *)
ShutUnchecked(d) ==
  /\ pc[d] = "bound"
  /\ shut' = shut \cup {SCRIPT_SERVERS[target[d].name]}
  /\ pc' = [pc EXCEPT ![d] = "replaced"]
  /\ UNCHANGED <<target, port, bound, accountVars, SCRIPT_SERVERS, server, call,
                 overlapped>>

(* existing_server.shutdown().  It stays registered, and its wrangler goes  *)
(* on: MiniflareServer has no do_shutdown, and its do_run blocks in run(). *)
ShutExisting(d) ==
  /\ pc[d] = "bound"
  /\ shut' = shut \cup ({SCRIPT_SERVERS[target[d].name]} \ {None})
  /\ pc' = [pc EXCEPT ![d] = "replaced"]
  /\ UNCHANGED <<target, port, bound, accountVars, SCRIPT_SERVERS, server, call,
                 overlapped>>

(* server.start() returns when the server's thread runs.                   *)
StartServer(d) ==
  /\ pc[d] = "replaced"
  /\ server' = [server EXCEPT ![d] = "starting"]
  /\ pc' = [pc EXCEPT ![d] = "started"]
  /\ UNCHANGED <<target, port, bound, accountVars, SCRIPT_SERVERS, shut, call,
                 overlapped>>

(* SCRIPT_SERVERS[script_name] = server, and the request is answered.      *)
RegisterServer(d) ==
  /\ pc[d] = "started"
  /\ SCRIPT_SERVERS' = [SCRIPT_SERVERS EXCEPT ![target[d].name] = d]
  /\ pc' = [pc EXCEPT ![d] = "done"]
  /\ UNCHANGED <<target, port, bound, accountVars, server, shut, call, overlapped>>

-----------------------------------------------------------------------------
(* handle_secrets: the value is only read by the next deployment.          *)

PutSecret(t, s) ==
  /\ \A u \in Targets : secrets[u] # s
  /\ secrets' = [secrets EXCEPT ![t] = s]
  /\ UNCHANGED <<scripts, deployVars, serverVars, call, overlapped>>

-----------------------------------------------------------------------------
(* MiniflareServer.do_run, on the server's thread, and its process *)

(* wrangler listens, if the port is still free.                            *)
Listens(d) ==
  /\ server[d] = "starting"
  /\ ~Taken(port[d])
  /\ server' = [server EXCEPT ![d] = "serving"]
  /\ UNCHANGED <<deployVars, accountVars, SCRIPT_SERVERS, shut, call, overlapped>>

(* run() raises or returns: the port is taken, the script does not build,  *)
(* or the process crashed.                                                 *)
Exits(d) ==
  /\ Alive(d)
  /\ server' = [server EXCEPT ![d] = "dead"]
  /\ UNCHANGED <<deployVars, accountVars, SCRIPT_SERVERS, shut, call, overlapped>>

-----------------------------------------------------------------------------
(* handle_invocation *)

(* The port of the registered server is read; an unknown name is an error. *)
Route(i, n) ==
  /\ call[i].state = "idle"
  /\ LET d == SCRIPT_SERVERS[n]
     IN  call' = [call EXCEPT ![i] =
                    IF d = None THEN [@ EXCEPT !.state = "unknown", !.name = n]
                    ELSE [@ EXCEPT !.state = "routed", !.name = n, !.port = port[d]]]
  /\ UNCHANGED <<deployVars, accountVars, serverVars, overlapped>>

(* Whatever listens at that port now answers, or the request is refused.   *)
Forward(i) ==
  /\ call[i].state = "routed"
  /\ \/ /\ ~Taken(call[i].port)
        /\ call' = [call EXCEPT ![i].state = "refused"]
     \/ \E d \in Deploys :
          /\ server[d] = "serving"
          /\ port[d] = call[i].port
          /\ call' = [call EXCEPT ![i].state = "answered", ![i].by = d]
  /\ UNCHANGED <<deployVars, accountVars, serverVars, overlapped>>

-----------------------------------------------------------------------------
Init ==
  /\ pc      = [d \in Deploys |-> "idle"]
  /\ target  = [d \in Deploys |-> None]
  /\ port    = [d \in Deploys |-> None]
  /\ bound   = [d \in Deploys |-> None]
  /\ server  = [d \in Deploys |-> "none"]
  /\ scripts = [t \in Targets |-> None]
  /\ secrets = [t \in Targets |-> None]
  /\ SCRIPT_SERVERS = [n \in Names |-> None]
  /\ call = [i \in Calls |-> [state |-> "idle", name |-> None, port |-> None, by |-> None]]
  /\ shut = {} /\ overlapped = {}

(* The steps of a deployment that its own thread takes once it has begun.  *)
Proceed(d) ==
  \/ PickPort(d) \/ Reject(d) \/ Record(d) \/ BindSecrets(d)
  \/ ShutExisting(d) \/ StartServer(d) \/ RegisterServer(d)

(* The routes of the API lead to handle_scripts, handle_secrets and, by     *)
(* host name, handle_invocation; the other routes answer with constants.   *)
Next ==
  \/ \E d \in Deploys : Begin(d) \/ Proceed(d) \/ Listens(d) \/ Exits(d)
  \/ \E t \in Targets, s \in Secrets : PutSecret(t, s)
  \/ \E i \in Calls : Forward(i) \/ \E n \in Names : Route(i, n)

Spec == Init /\ [][Next]_vars
-----------------------------------------------------------------------------
(* Properties *)

TypeOK ==
  /\ pc \in [Deploys -> {"idle", "begun", "picked", "recorded", "bound", "replaced",
                         "started", "done", "failed"}]
  /\ target  \in [Deploys -> Targets \cup {None}]
  /\ port    \in [Deploys -> Ports \cup {None}]
  /\ bound   \in [Deploys -> Deploys \cup Secrets \cup {None}]
  /\ server  \in [Deploys -> {"none", "starting", "serving", "dead"}]
  /\ scripts \in [Targets -> Deploys \cup {None}]
  /\ secrets \in [Targets -> Secrets \cup {None}]
  /\ SCRIPT_SERVERS \in [Names -> Deploys \cup {None}]
  /\ call \in [Calls -> [state : {"idle", "unknown", "routed", "refused", "answered"},
                         name : Names \cup {None}, port : Ports \cup {None},
                         by : Deploys \cup {None}]]
  /\ shut \subseteq Deploys /\ overlapped \subseteq Deploys

(* handle_scripts drops no server from the map without having called its   *)
(* shutdown(): a server that was started is registered, or was shut down,  *)
(* or its handler is about to register it -- unless another deployment of  *)
(* that script ran at the same time, and then both start one.  (What       *)
(* shutdown() does is the server's: the wrangler of this one outlives it.) *)
ForgottenOnlyByOverlap ==
  \A d \in Deploys \ overlapped :
    server[d] # "none" =>
      SCRIPT_SERVERS[target[d].name] = d \/ d \in shut \/ Running(d)

(* Between deployments the server of a name runs the script its account    *)
(* has stored for it, again unless deployments of that name overlapped,    *)
(* and sees the binding uploaded with it or a secret of its own account:   *)
(* never the one another account has set for a script of the same name.    *)
RegisteredIsStored ==
  \A n \in Names :
    LET d == SCRIPT_SERVERS[n]
        quiet == \A e \in Deploys : Running(e) => target[e].name # n
    IN  quiet /\ d \notin overlapped \cup {None} =>
          /\ scripts[target[d]] = d
          /\ bound[d] = d \/ (bound[d] \in Secrets /\ secrets[target[d]] # None)

(* Whatever fails in handle_scripts fails before a worker is stopped: one  *)
(* is shut down only by a deployment of its name that goes on to start the *)
(* next one.                                                               *)
ShutForASuccessor ==
  \A d \in shut : \E e \in Deploys \ {d} :
    /\ pc[e] \in {"replaced", "started", "done"}
    /\ target[e].name = target[d].name

(* Redeploying a worker never makes it unknown: once a deployment of its   *)
(* name is done, an invocation finds a server's port.                      *)
DeployedStaysKnown ==
  [][\A i \in Calls :
       call'[i].state = "unknown" /\ call[i].state # "unknown" =>
         ~\E d \in Deploys : pc[d] = "done" /\ target[d].name = call'[i].name]_vars

(* "Once deployed, the Cloudflare worker can be easily invoked"            *)
(* (miniflare/README.md): a name is answered by a worker deployed to it.   *)
OwnWorkerAnswers ==
  \A i \in Calls :
    call[i].state = "answered" => target[call[i].by].name = call[i].name
=============================================================================
