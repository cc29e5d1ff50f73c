# LocalStack Extensions: specifications

TLA+ specifications of the concurrent and stateful parts of this repository:
the shared library that connects extensions to the LocalStack gateway
(`utils/`), the extensions that keep state of their own (`keycloak/`,
`miniflare/`, `prometheus/`) and the API of the Keycloak sample. Each module is
written from the Python source; TLC checks small
instances of it, and TLAPS proves its safety properties and refinements for
every instance.

Paths below are relative to the repository; `U` stands for
`utils/localstack_extensions/utils`.

Check a module in this directory with
`tlc -config <run>.cfg <Module>.tla`, and a proof with `tlapm <Module>.tla`.

## 1. The system

The repository is a library, `utils/`, and a set of extensions that LocalStack
loads into its process. An extension is a class with hooks that the platform
calls in order (README.md of the repository): `on_extension_load`,
`on_platform_start`, `update_gateway_routes` and the handler-chain hooks,
`on_platform_ready`, `on_platform_shutdown`. All traffic enters through one
gateway port, served by a Twisted reactor, with a thread pool for handlers.

| Component | Source | State it keeps | Operations | Module |
|---|---|---|---|---|
| TCP protocol router | `U/tcp_protocol_router.py` | the list of registered matchers; per connection: detection buffer, mode, peer | register, unregister; the patched `__init__`, `dataReceived`, `connectionLost` of `HTTPChannel`; `TcpProxyClient` | `TcpRouter` |
| HTTP/2 proxy | `U/h2_proxy.py` | per connection: forwarding state, buffer, backend socket, receive loop | the patched `connectionMade`, `dataReceived`, `connectionLost` of `H2Connection`; the receive loop | `H2Proxy` |
| Docker extension base | `U/docker.py` | the container, HTTP routes, HTTP/2 patches, TCP registration | `update_gateway_routes`, `start_container`, `_remove_container`, `on_platform_shutdown` | `DockerExtension` |
| typedb, paradedb, wiremock, keycloak containers | `*/localstack_*/extension.py` | what they pass to the base class | the constructors | `ContainerExtensions` |
| Keycloak setup | `keycloak/localstack_keycloak/{extension,utils}.py` | realm, client, role, user, password in Keycloak; OIDC provider in IAM | `on_platform_ready` and the requests it makes | `KeycloakSetup` |
| Miniflare | `miniflare/miniflare/{cloudflare_api,extension}.py` | accounts with scripts and secrets; `SCRIPT_SERVERS`; wrangler processes | `handle_scripts`, `handle_secrets`, `handle_invocation`, `MiniflareServer` | `MiniflareDeploy` |
| prometheus | `prometheus/localstack_prometheus/` | gauges and counters, updated from the threads of pollers, invocations and requests | request and response handler; patched pollers, senders, Lambda counting and environments | `PrometheusMetrics` |
| users API (keycloak sample) | `keycloak/sample-app/lambda/{users,authorizer}/handler.py`, `cdk/stacks/api_stack.py` | one DynamoDB table; the key set an authorizer environment has cached | authorize; list, get, create, update, delete | `UsersApi` |
| mailhog, stripe, httpbin extensions | `mailhog/`, `stripe/`, `httpbin/` | a child process and its port | start, route, shutdown | section 8 |
| openai | `openai/localstack_openai/` | a chunk reader per streamed response | answer, stream | section 8 |
| the rest | section 8 | none of their own | | not modelled |

### How they interact

- `update_gateway_routes` (docker.py:137) starts the container, waits until it
  is healthy, then adds the HTTP route, applies the HTTP/2 patches
  (`apply_http2_patches_for_grpc_support`) and registers with the TCP router.
  The three registries it writes live in the process; the container lives in
  the Docker daemon and survives a crash of the process.
- The two proxies patch classes of the gateway, so they see **every**
  connection of the port, also those of other services. Each has to decide, from
  a prefix of the stream, to whom the connection belongs, and then hand over
  what it held back.
- The TCP router runs in the reactor thread only. Its concurrency is that of
  callbacks: the client may leave, send more, or not be read, while the backend
  is being dialled. The HTTP/2 proxy also has threads: a receive loop per
  connection in the reactor's pool, while the reactor thread itself may block
  in `sendall`.
- Miniflare's handlers run on threads of the gateway without a lock, and start
  servers on threads of their own.
- The prometheus extension patches LocalStack's event source pollers, their
  senders and its Lambda service, and adds two handlers to the chain. Its
  metrics are written by every thread that runs one of those.
- In the Keycloak sample API Gateway asks the authorizer Lambda before every call
  of the users Lambda, and hands on the roles it found as one string. A write
  of the users Lambda is two calls to DynamoDB, a look-up and a write without
  a condition, and Lambdas run concurrently.
- The Keycloak extension extends the base class and adds a sequence of
  requests to Keycloak and to LocalStack's IAM.

### What is hard, and what makes a component correct

| Component | Hard behaviours | It is correct if |
|---|---|---|
| TCP router | detection over several chunks; dialling while paused; client or backend leaving at any time; back pressure; a registration that outlives its container | each client's bytes reach exactly one consumer whole and in order; no connection is left paused; when one leg of a proxied connection is lost, the other is closed |
| HTTP/2 proxy | a blocking send in the reactor; a thread per connection from a limited pool; close racing receive; matcher and send errors half way through a handler | as above; no pool thread is lost; replies arrive; the reactor is not blocked for good |
| Docker base | crash between the container's start and its removal; a health check that gives up or is never answered; registration that raises half way; ports shared between extensions | a shutdown leaves no container; none is reused after a crash; registrations are all or nothing |
| Keycloak setup | every request may fail, or be carried out with its answer lost; a later run meets what an earlier one left | a fault-free setup is complete; what was there is not touched; faults that are caught stay local |
| Miniflare | overlapping deployments of one name; a port picked before it is bound; failure half way | no server is dropped without a shutdown unless deployments overlap; the registered server runs the stored script, with a secret of its account; a failing deployment stops nothing |
| Users API | overlapping requests between look-up and write; a timeout after the write; bodies that are no object; values that cannot be stored or serialized | what a status code says of the table is true; a write is carried out on what its look-up saw, or was overtaken; an answered value is not lost to a request that does not name it |
| prometheus | the halves of a gauge on different paths out of a function, or in different functions; retries; starts classified before they happen | the gauge of batches in flight equals the sends under way, the others are off only by the halves that have no counterpart; every event and every poll is counted, once for each time it is tried |

The full list of hazards, each with its line, is in `PROJECT.json`.

## 2. Modules

```
StreamSwitch                 what a protocol switch promises; StreamSwitchProofs
  ^ refined by TcpRouter <---- MCTcpRouter (TLC); TcpRouterProofs
  ^ refined by H2Proxy         four configurations (TLC); H2ProxyProofs
DockerExtension <- ContainerExtensions <- MCDockerExtension (TLC)
                <- DockerExtensionProofs
MiniflareDeploy <- MCMiniflareDeploy (TLC); MiniflareDeployProofs
KeycloakSetup                two configurations (TLC); KeycloakSetupProofs
UsersApi        <- MCUsersApi (TLC); UsersApiProofs
PrometheusMetrics            one configuration (TLC); PrometheusMetricsProofs
```

A module `...Proofs` extends the module it is about and is checked by TLAPS
(section 7).

Conventions: an action is one handler, or the part of it between two points
where another thread or process can interfere; a callback of the reactor is
therefore one action, and a function that runs on a thread of its own is split
where it shares state. "History" variables record the past for a property and
are read by no guard. Definitions commented "a faulty variant of X" are not part of
any behaviour: each is X with a plausible bug, and with it in X's place a run
finds the property named in `PROJECT.json` ("mutants") violated, which shows that the
property depends on that code.

### StreamSwitch

The abstract specification of both proxies: per connection, the number of
chunks taken from the client, the consumer chosen, and the chunks the consumer
has been given. A step takes at most one chunk, may choose a consumer if there
is none, and may extend what the consumer has to a longer prefix of what was
taken. The consumer never changes, the prefix never shrinks, has no gap and no
repetition.

### TcpRouter (`U/tcp_protocol_router.py`)

| Code | Model |
|---|---|
| `_tcp_extensions` | `tcpExtensions`; `Register`, `Unregister` |
| `_tcp_detecting`, `_detection_buffer`, `_tcp_peer` of a channel | `detecting`, `detectionBuffer`, `tcpPeer` |
| `_patched_init` | `Accept` |
| `_patched_dataReceived`, branch by branch | `DataToPeer`, `DataToHttp`, `DataTooShort`, `DataClaimed`, `DataUnclaimed` |
| `TcpProxyClient.connectionMade` and `set_tcp_peer` | `BackendConnected`; a refusal is `BackendRefused` |
| `registerProducer`: the backend's transport pauses and resumes the client | `congested`, set by a write and cleared by `BackendDrains` |
| `TcpProxyClient.dataReceived`, `connectionLost` | `BackendData`, `BackendLost` |
| `_patched_connectionLost` | `ConnectionLost` |

A chunk is its number in the stream and its length is a member of `ChunkLens`,
since detection depends on lengths only through the threshold `DetectBytes`.
A matcher is a predicate on bytes, and its answer is arbitrary: `yes` is any set of
registered extensions whose matchers accept, the first of them in the registry
claims the connection, and one that raises is skipped as one that declines. Twisted's transports are external:
`loseConnection` makes a transport "closing" until it reports `connectionLost`, which it does when its
output is flushed: for a peer that stopped reading, perhaps never.

### H2Proxy (`U/h2_proxy.py`)

| Code | Model |
|---|---|
| `ForwardingState`, `ForwardingBuffer.buffer` | `state`, `buffer` |
| the patched `connectionMade`, which dials the backend | `ConnectionMade`; a refusal is `BackendRefuses` |
| `reactor.callInThread(receive_loop)` and the pool | `queue`, `StartLoop`, `loop`, `PoolSize` |
| `TcpForwarder.send` (`sendall`) | `stuck`, `outgoing`; `SendDone`, `SendFails`; while a send is blocked no other action of the reactor is enabled |
| `received_from_http2_client`, with its parsing of frames | `DataPassedThrough`, `DataForwarded`, `DataHeld`, `DataMatched`, `DataNotMatched`, `MatcherRaises`; a chunk is `part`, `head` or `junk` by what it adds to the parse |
| `receive_loop`, `received_from_backend` | `RecvData`, `WriteClient`, `RecvEnds` |
| `close`, the patched `connectionLost` | `ConnectionLost`: closes the socket under a loop that may be queued, in `recv` or writing |

### DockerExtension and ContainerExtensions (`U/docker.py` and its subclasses)

A configuration is a record of the constructor's arguments, and of whether its
health check sets a timeout (`timed`; the default check does not). The process is
down, starting, ready or stopping; the hook of one extension runs at a time. A
container is absent, booting or serving, and `born` remembers which start of
the process ran it. `EnterHook`, `ContainerRuns`, `RunRaises`,
`HealthCheckPasses`, `HealthCheckFails`, `HealthCheckHangs` (a request without a
timeout is not answered), `HealthCheckGivesUp`, `RegistersAll` and
`PatchAssertionFails` are `update_gateway_routes` in the order of its
statements, split where Docker is asked; `OnPlatformShutdown` is the other
hook. A crash resets what lives in the process and nothing else.
`ContainerExtensions` translates the constructors of the four extensions that
exist.

### MiniflareDeploy (`miniflare/`)

`handle_scripts` is split into seven steps at the points where another thread
sees its effects: the request begins, a port is picked, the script is stored,
secrets are bound, the old server is shut down, the new one started, and
registered. `handle_secrets` is one assignment. `handle_invocation` reads the
port and forwards to whatever listens there by then. `shutdown()` of a server
ends no wrangler: `MiniflareServer` overrides `do_run` with a call that blocks and
has no `do_shutdown`. A process that was shut down may go on, start to listen
(`Listens`) or end (`Exits`) at any time, like any other; `shut` only records that it
was told to.

### KeycloakSetup (`keycloak/`)

`on_platform_ready` as the sequence of requests it makes, one action per
request. The outcome of a request is chosen from: carried out; refused; an
exception, with the request carried out or not. What happens then is the code's
own: return, go on, log. `PlatformReady` may happen again at any point, with
Keycloak and IAM kept or replaced, which stands for a crash and restart, for a
local server in development mode, and for a persisted Keycloak. Keycloak's search
for a username finds every name that contains it, and the code takes the first
result: `other` is the password of a user with such a name, who may register at any time
(`OthersRegister`) and whom `SetPassword` may find in place of the new user.

### UsersApi (`keycloak/sample-app/`)

| Code | Model |
|---|---|
| the table, an item, its attributes | `table`; a record maps its attributes to the request that wrote them |
| API Gateway in front of both Lambdas (`api_stack.py`) | `phase` of a request: received, allowed, checked, answered |
| `get_jwks` with its cache per environment | `jwks`, `get_jwks`; `keycloak` says whether the endpoint answers |
| `validate_token`, `extract_roles`, `generate_policy` | the operators of these names, in `Authorize` |
| `create_user`, `update_user`, `delete_user` up to the first call | `Refuse` (no admin, bad body), `Check` (`get_item` and its 404 or 409, or the 500 for a value that boto3 refuses) |
| `put_item`, `update_item`, `delete_item` and the answer | `Put`, `Update`, `Delete` |
| `list_users`, `get_user` | `Read` |
| the timeout of 30 s of either Lambda | `LambdaTimesOut`, and the 502 of a `Write` whose answer is lost |

The table keeps which request wrote an attribute rather than the value, which is
all a property about lost or stale writes needs. Two kinds of value are told
apart: a JSON integer, as an email or as a name, which boto3 returns as a `Decimal` on which
`json.dumps` raises (`IsNumber`, `Serializable`), and a float, which boto3 does not store
(`Unwritable`). A body is an object or one of the shapes on which a handler
fails: none, malformed, a scalar, a list, without a username, with a username
that is no string.
Two status codes are kept apart from others of their number: 401 stands for the 403 API Gateway
gives for a denial, and 503 for the 500 after a DynamoDB call that failed.
`history` and `seenAt` are histories: the effective writes of a user in order, and
how many of them there were when a request looked. Roles are joined with commas
on their way from one Lambda to the other; the model has them as a set and so
assumes that no role name has a comma. Reads are taken as consistent (DynamoDB's
default may be stale; against LocalStack's own table it is not).

### PrometheusMetrics (`prometheus/localstack_prometheus/`)

| Code | Model |
|---|---|
| `RequestMetricsHandler`, `ResponseMetricsHandler` | `RequestEnters`, `ResponseLeaves` |
| `tracked_poll_events` | `PollBegins`, `PollReturns`, `PollMisses`, `PollFails` |
| the batches a poll hands to its sender | `PollSends` |
| `tracked_send_events` | `SendNothing`, `DelayUnreadable`, `SendBegins`, `SendSucceeds`, `SendFails` |
| `tracked_get_environment` | `CountStart`, before `ReuseEnvironment`, `StartEnvironment` or `StartFails` |
| `tracked_docker_start`, `tracked_docker_stop` | `StartEnvironment`, `StartFails`, `StopIdle` |

What a patched function does between the two halves of its patch is LocalStack's; the model
lets it do whatever the patch can tell apart. A poll may send any number of batches, none
too, and end in any way after any of them: a send that raises, for its target or for a
timestamp that is no number, may be sent again, kept from the caller, or raised. The two
gauges whose halves are functions of their own can miss one of them: a start that
raised is not counted, yet the stop of it is; a stop that raises is not counted; and
what the two handlers of the chain see of a request need not agree. The model lets each
of these happen (`MaxUnpaired` bounds how often) and `ghost` counts them.
One function is the target of all pollers. Labels and histograms are left out, and with
them `tracked_get_records` and `tracked_sqs_handle_messages`, which only observe
histograms. `ghost` counts what really happened, for the properties to compare with.

## 3. What the runs check

Runs that pass:

| Run | Instance | Shows |
|---|---|---|
| `tcp_router` | 1 connection, 2 extensions, 3 chunks of 4 or 8 bytes, 2 replies, 2 registrations | `StreamInv` (where the bytes are at every moment), `RepliesFromSink`, `PausedForAReason`, `PeerIsLive`; `StreamSwitched` (refines `StreamSwitch`); `SentIsRead` and `LegsCloseTogether` (liveness: when one leg is lost, the other is gone or told to close) |
| `h2_stream` | 1 connection, 3 chunks of any kind, 2 replies | `StreamSwitched` (refines `StreamSwitch` across blocked and failed sends); `SentIsRead` |
| `h2_pool` | 2 connections, 2 pool threads | `LoopsEnd`, `RepliesArrive`, `ReactorFreed`: no thread is lost, replies arrive, and the reactor gets out of a blocked send |
| `docker_lifecycle` | 2 extensions of all configurations that exist or that the base class accepts, 2 starts, 1 retry | `CleanExit`, `FreshContainer`, `AllOrNothing`, `StartupEnds` (startup ends, unless a health check without a timeout is never answered) |
| `miniflare_deploys` | 3 deployments, 2 accounts, 1 name, 1 secret, 2 ports | `ForgottenOnlyByOverlap` (a server is registered, about to be, or had its `shutdown()` called, unless deployments overlapped), `RegisteredIsStored` (script and secret), `ShutForASuccessor`, `DeployedStaysKnown` |
| `keycloak_setup` | 3 runs of the setup | `FreshSetupCompletes`, `CaughtFaultsStayLocal`, `KeepsPassword`, `ExistingRealmUntouched` |
| `users_api` | 3 requests on 1 user, 17 inputs, 2 authorizer environments | `WritesJudgedAsSeen` (a write acts on what its look-up saw), `OrphansComeFromRaces` (a record without its creation only after an update was overtaken by a deletion), `AnswerTellsEffect` (2xx: once; 4xx: not at all), `AnsweredValueStays` (overlapping updates of different attributes both stay), `InternalErrorsExplained` (the code itself fails only for the body of the request that fails, or for a number stored as an email or a name) |
| `prometheus_metrics` | 2 pollers, 3 environments (1 provisioned), 1 request, 3 polls, 3 sends, batches of 0 or 2, 2 halves without a counterpart | `GaugesMatch` (batches in flight exactly; requests and containers but for the halves without a counterpart), `EventsAddUp`, `PollsAddUp` (nothing is counted twice or not at all, whatever was sent again or not sent), `FirstStartIsCold` |

Each run also checks the type invariant of its module, `h2_pool` excepted,
which shares a module with `h2_stream`.

Runs that end in a violation: each states what the repository says of the
program and finds a behaviour of the code that contradicts it.

| Run | What is said | What the code does |
|---|---|---|
| `h2_starved` (`RepliesArrive`) | "Simple helper class for bidirectional forwarding of TCP traffic." (h2_proxy.py:21) | every open HTTP/2 connection holds a pool thread, so once the pool is exhausted a further connection forwards requests and none of the replies, for as long as the others stay |
| `h2_passthrough` (`DefaultHandlerAlone`) | data is sent to the backend or left to the default handler (h2_proxy.py:86-88) | the backend connection of a passed-through client stays open, and what the backend writes on it, its HTTP/2 preface for one, still goes to the client |
| `miniflare_ports` (`OwnWorkerAnswers`) | "Once deployed, the Cloudflare worker can be easily invoked" (miniflare/README.md:29) | a port is picked long before it is bound; two deployments may pick the same, and one worker then answers for both names |
| `keycloak_client` (`DefaultClientIsThere`) | "The extension creates a default client" (keycloak/README.md:144) | a realm that is found is taken for complete: after an interrupted setup no later run adds the client or its role |

Gaps that one reading shows, on which no run is spent: the HTTP/2 patches assert
that they are applied once per process, so a second of `http2_ports`, of the same
extension or of another, fails the hook half way (docker.py:157; the model has
the step, `PatchAssertionFails`, and `AllOrNothing` excepts it);
`request_to_port_router` is stored and never called (docker.py:70); openai's
stream ends with `[done]` and never sends the `data: [DONE]` that its chunk
reader has ready (mock_openai.py:166-177); mailhog's documented path `/mailhog/`
is served as `/_extension/mailhog/` (mailhog/README.md:7, server.py:32); only the first of
`tcp_ports` is registered (docker.py:193); an HTTP extension without a host is
silently not routed (docker.py:145); matchers documented to see up to 512 bytes
are called with all that was collected (docker.py:87); the default health check,
which typedb uses, sets no timeout (docker.py:263-266), so a container that accepts
and never answers keeps LocalStack from starting; the buffer of an undecided
HTTP/2 connection grows without a limit and is parsed from its start at every chunk
(h2_proxy.py:119); every redeployment of a Miniflare script leaves the wrangler of the
one before running (miniflare's extension.py:85-117); the
setup of Keycloak's default user may reset the password of another user whose
name contains that one (keycloak's extension.py:249-256), and a failure of its token request, which is
outside the `try`, keeps the provider from IAM (extension.py:222); the gauge of
Lambda containers falls for the stop of a start that was never counted and may
become negative (lambda_.py:55-62); and docs/event_analysis.md:41 calls the gauge
of batches in flight the number of events.

## 4. Bounds, and why they are enough

- **Connections.** Channels of the TCP router share nothing but the registry,
  whose content changes freely in the one-connection instance. HTTP/2 connections share
  the pool and the reactor thread: the stream properties are checked with one,
  what concerns threads with two, with as many threads and with one.
- **Chunks.** Three chunks of 4 or 8 bytes reach every branch of detection
  (too short, reached exactly, passed) with data before, during and after
  dialling. Chunks of an HTTP/2 stream are of three kinds; three of them give data
  before, at and after the decision, and a send after a failed one.
- **SockCap = 1.** A backend can be one chunk ahead, so that it can block.
- **Starts.** Two starts cover a crash followed by a start that finds the old
  container, and by the shutdown that must remove it. Two extensions are enough
  for every conflict of ports, since conflicts are between pairs.
- **Deployments.** Three: an old server and two deployments that overlap. With
  two ports a server may be replaced while it still serves, and both ports may
  be in use. The configuration of `docker_lifecycle` has a single retry: a check that
  fails and is repeated, and one that gives up.
- **Requests of the users API.** Three on one user: two that overlap and one that
  made the record they meet, or a deletion between the look-up and the write
  of an update. Users share nothing but `list`, which reads all of them.
  Two authorizer environments, one with a cached key set and one without. The
  17 inputs are one for each branch of the handlers (operation, role, token,
  shape of the body, attributes named, a number as an email or as a name, a float).
- **Metrics.** Two pollers that overlap in all their steps, and three polls, so that
  one of them polls again after whatever happened. Three batches handed to senders:
  two that overlap and one that follows a failure in the same poll. A
  batch of 2 tells the counting of events from that of batches, one of 0
  is not tracked. Two on-demand environments: one held, one free or not yet
  started; a provisioned one beside them that must not count. Two halves without a
  counterpart, of one gauge or of both, and in both directions.
- **Runs of the setup.** Three: one that is interrupted, one that meets its
  remains, one that meets those. One other user is enough: the search has
  one first result.
- **Symmetry** is used in `miniflare_deploys` and `users_api`, where all properties are safety
  properties and the permuted values (deployments, accounts, ports; requests,
  environments) are interchangeable: no definition chooses among them.
- `CHECK_DEADLOCK FALSE` except in `users_api` and `prometheus_metrics`, where something can always
  happen: elsewhere clients may stop sending, the process may be down for good, and bounds end
  behaviours.

## 5. Fairness

Fairness is assumed of what the reactor, the pool and the hooks do once they can,
never of what clients, backends, containers or users do.

- `TcpRouter`: the reactor delivers data that arrived on a descriptor it reads
  (WF); a dial is answered or times out (WF; Twisted's `connectTCP` has a
  timeout of 30 s). Nothing makes a transport that was told to close report that it
  closed, so a leg may stay "closing" for ever.
- `H2Proxy`: pool threads run (WF); the reactor delivers data (WF). A blocked
  `sendall` completes if the backend can read again and again (SF): a backend that
  is itself blocked writing does not read, and the receive loop can unblock it
  repeatedly, so weak fairness would not do. A backend that never reads is
  excluded; `sendall` has no timeout, and such a backend would block the gateway.
- `DockerExtension`: the hooks proceed, except while one of them waits for a health
  check that sets no timeout (WF; retries are counted, and Docker's own calls are
  taken to return), and the process gets on from one phase to the next. Nothing makes a
  container serve, stay or answer.
- `KeycloakSetup`, `MiniflareDeploy`, `UsersApi`, `PrometheusMetrics`: none; every
  property is a safety property.

## 6. Assumptions

Assumptions about the environment; those on constants are the `ASSUME`s of the
modules, which the proofs of section 7 use and TLC evaluates.

- The ports an extension passes to the base class are lists of numbers, and
  `container_ports` is not empty (`__init__` refuses an empty one).
- Of an object in the body of a request the users API sees only the fields it looks for:
  `username`, `email` and `name`.
- LocalStack calls the hooks of one extension after another, and routes no
  request before they are done; the patches are applied before connections
  exist.
- Removing a container succeeds, or finds it gone: a failure of the removal
  itself (docker.py:268-272 lets it pass to the caller) is not modelled.
- The cache of `start_container` is never hit: an extension is started once per
  process.
- DynamoDB carries out one call at a time on an item, and its reads are consistent; no
  role name contains a comma.
- The batches handed to a sender are lists of events. (For Kafka they are one
  dict, whose keys `total_events` counts, sender.py:26.)
- An environment of the Lambda service that is free is reused before one is
  started, and is stopped only when no invocation holds it.
- One statement of Python that assigns to a shared dictionary is atomic.
- Writes to a transport from a pool thread, which Twisted does not support, are
  taken as atomic: the effects of that race inside Twisted are out of reach.

## 7. What is proved

TLAPS proves the following for every value of the constants that their
assumptions allow: any sets of connections, extensions, requests and threads,
finite or not, and any bounds. Every invariant, every action property and every
refinement that a passing run checks is the statement of a theorem; the run
shows it on an instance small enough to look at, and finds counterexamples in
the faulty variants. The larger inductive invariants were themselves checked by
TLC on such instances before they were proved.

All safety proofs have one shape: a lemma `...Step` says that one step keeps the
invariant, with a case for each action; the theorem adds the initial states
and the induction over time. A `...Frame` or `Other...` lemma says what a step of
one connection or request leaves alone, so that the cases speak of one only.

### TcpRouterProofs, from `TcpAssumption`

- `TypeCorrect`: `Spec => []TypeOK`.
- `StreamCorrect`: `Spec => []StreamInv`. `StreamSwitched` is not inductive: to
  know that the backend gets the right bytes one must know where the bytes are
  before it has any. `StreamInv` says so for each phase: in the detection buffer
  while detecting, in `initial_data` and nowhere else while dialling (with the
  client paused), and with the consumer afterwards, in full as long as the client
  is there. It is shown per connection (`StreamStep`), with one step for each
  handler, a frame lemma for the other connections (`OtherConns`) and one for the
  registry (`RegistryStep`).
- `PeersAreLive`, `PausesAreJustified`, `RepliesAreFromSink`: the safety
  invariants of the run; the last with a lemma that a consumer, once chosen, is
  kept (`SinkStep`).
- `ImplementsStreamSwitch`: `Spec => StreamSwitched`. The refinement maps
  `received` to `nread`, `sink` to `SinkOf`, and `delivered` to what HTTP and the
  backend were given; `StreamInv` turns every handler into a step of
  `StreamSwitch` or a stutter (`DeliveryStep`, `StreamAdvances`).

### H2ProxyProofs, from `H2Assumption`

- `H2TypeCorrect`: `Spec => []TypeOK`, with the bound on what a socket holds.
- `H2StreamCorrect`: `Spec => []StreamInv`. The counterpart of the router's
  invariant has one more place for bytes to be in: while the reactor is blocked in
  `sendall`, the chunks that are still to be written (`outgoing`, of the
  connection `stuck`) follow what the backend has, and nothing else of that
  connection may move. Where a backend hung up, what it has is a prefix and the
  rest is lost. Since `stuck` and `outgoing` belong to the reactor and not to a
  connection, a step of one connection could disturb another's stream; `Spares`
  says what it must leave alone, and `OtherConns` that it does.
- `H2ImplementsStreamSwitch`: `Spec => StreamSwitched`, with any number of
  connections; the runs check it with one. `SendDelivers` carries a send from the
  moment it blocks to the moment it completes or fails.
- `H2PoolCorrect`: `Spec => []PoolInv`. The queue of the pool holds exactly the
  receive loops that wait, each once, and at most `PoolSize` of them run. This is
  the safety half of `LoopsEnd` and `RepliesArrive`: a loop is not lost from the
  queue, nor run twice.

### StreamSwitchProofs

What the two refinements are worth. `SwitchDeliversPrefixes`: what a consumer has
been given is a prefix of what was taken from the client, and nobody was given
anything before a consumer was chosen. `SwitchHasOneConsumer`: a consumer, once
chosen, stays, and what it was given is only ever extended. Both hold of the router
and of the proxy because both implement `StreamSwitch`.

### DockerExtensionProofs, from `DockerAssumption` and `ConfigAssumption`

- `DockerTypeCorrect`: `Spec => []TypeOK`.
- `ShutdownsAreClean`: `Spec => []CleanExit`. What carries it through shutdown is
  `LifeInv`: an extension is stopped only while the process is stopping, one
  that is stopped has no container, and a process that is down has no hook
  under way.
- `ContainersAreFresh`: `Spec => []FreshContainer`. The hook sees a container
  two steps after it ran it, so `FreshInv` says from there on whose it is.
- `RegistrationIsAllOrNothing`: `Spec => []AllOrNothing`. It needs `PatchesInv`:
  whoever applied the HTTP/2 patches asked for an HTTP/2 port. When only one is
  asked for, an extension that is about to register finds them not applied
  (`NobodyPatchedYet`), and the assertion at docker.py:157, which would leave its
  routes without its backends, cannot fail. With two it can; the property
  excepts that, as section 3 says.

### MiniflareDeployProofs, from `MiniflareAssumption`

- `DeployTypeCorrect`: `Spec => []TypeOK`, together with `Shape`, which says at
  which places of a handler a server exists, may be shut down, or is registered.
- `OverlapsAloneForget`: `Spec => []ForgottenOnlyByOverlap`. `OverlapInv` says that of
  two handlers of a name that run at once both are marked; from it,
  `ReplacedIsShut`: when a handler has passed the step that stops its predecessor,
  what is registered under its name is shut, or a handler overlapped. Without it
  nothing is known, at the moment of registration, of the server that is dropped.
- `ShutdownsHaveSuccessors`: `Spec => []ShutForASuccessor`, inductive with `Shape`.
- `RegisteredServersRunTheStored`: `Spec => []RegisteredIsStored`. `StoredInv`
  says it of handlers under way too: one that did not overlap with another still
  finds its own script stored, until the next handler of the name is past storing its own.
  For the secret, `BoundInv` says that what a handler bound is its own upload or a
  secret of its own account.
- `DeployedNamesStayKnown`: the action property `DeployedStaysKnown`.

### KeycloakSetupProofs, from `MaxRunsAssumption`

- `SetupTypeCorrect`: `Spec => []TypeOK`.
- `CaughtFaultsAreLocal`: `Spec => []CaughtFaultsStayLocal`, inductive as it stands.
- `PasswordIsKept` and `RealmIsLeftAlone`: the action properties `KeepsPassword`
  and `ExistingRealmUntouched`, from the invariant `FoundIsKept`: Keycloak keeps
  the realm and the user that a run found, and the run is at the requests that
  make a client or set a password only if it found none. It is what carries a fact
  about the start of a run to the moment of the request.
- `FreshSetupIsComplete`: `Spec => []FreshSetupCompletes`, from the invariant
  `FreshProgress`, which says how far a run without faults has come at each step.

### UsersApiProofs, from `AbsentAssumption` and `InputsAssumption`

Every step either leaves the table as it is or is the write of one request, which
then is answered or lost (`StepIsEither`); the proofs have these two cases in
place of an action each.

- `UsersApiTypeCorrect`: `Spec => []TypeOK`.
- `AnswersTellEffects`: `Spec => []AnswerTellsEffect`, from `HistoryOfAnswered`: the
  writes of a user are those of answered requests, each once, and a write that was
  answered with 2xx is among them.
- `WritesAreJudgedAsSeen`: `Spec => []WritesJudgedAsSeen`, from `JudgedAsSeen`: a
  record exists exactly if the history so far leaves one, and a request between
  its look-up and its write was right about the history when it looked. The
  table may have changed since; this is why the property speaks of the past.
- `OrphansAreRaces`: `Spec => []OrphansComeFromRaces`, from the same invariants.
- `AnsweredValuesStay`: `Spec => []AnsweredValueStays`, from `ValuesStay`, which says it
  of every write in the history, answered or lost.
- `InternalErrorsHaveCauses`: the action property `InternalErrorsExplained`: what
  fails before the write has a body the code cannot take apart or boto3 refuses (`OfBody`), and
  what fails after it has a number in its answer (`OfNumber`).

### PrometheusMetricsProofs, from `EnvironmentsAssumption` and `BoundsAssumption`

- `PrometheusTypeCorrect`: `Spec => []TypeOK`. That the gauge of batches in flight is not
  negative is not inductive: it follows from `GaugesMatch`, so the induction is on
  `Shape`, which leaves the sign out. The other two gauges may be negative.
- `GaugesAlwaysMatch`, `EventsAlwaysAddUp`, `PollsAlwaysAddUp`: the sums of the
  run. `SendsCounted`, `PollsCounted` and `RestCounted` (requests and containers, with the
  halves that have no counterpart) take each
  sum by itself, with the finiteness of the set counted as part of the
  invariant, so that no set of pollers or requests need be finite; only the
  provisioned environments are assumed to be, since they exist from the start.
  A step starts, ends or leaves alone one send (`SendsStep`) or one poll
  (`PollsStep`), and these three cases are all the sums need.
- `FirstStartIsCountedCold`: `Spec => []FirstStartIsCold`, from `ColdFirst`: a
  poller past the count has seen a cold start counted, and an environment exists
  only after a start.

### Model-checked only

- Liveness: `SentIsRead` and `LegsCloseTogether` (`tcp_router`), `SentIsRead`
  (`h2_stream`), `LoopsEnd`, `RepliesArrive` and `ReactorFreed` (`h2_pool`),
  `StartupEnds` (`docker_lifecycle`). Fairness is defined by `ENABLED`, which the
  prover does not support.
- The four properties that are violated, which have counterexamples and no proofs.

## 8. What is not modelled

- **Within modelled parts**: `ProxyResource` and the rewriting of headers
  (stateless); the frame parser of the HTTP/2 proxy beyond whether headers
  come out; the bytes that matchers look at; Miniflare's handlers that answer with a
  constant, and the installation of wrangler beyond its failing; logging.
- **mailhog, httpbin and stripe (extensions)** start a child process at
  platform start, route to its port and stop it. The process is held by LocalStack's `Server` and
  `ShellCommandThread`, or by `multiprocessing`, and ports come from LocalStack's
  allocators: nearly every action of a model would be one of those classes or of the
  child's own, none of which is in this repository, and what is left
  (a port picked before it is bound) is the hazard `MiniflareDeploy` has.
- **openai** makes up an answer for each request. A streamed one is driven by one generator, in one
  thread, over a reader of its own; `read` of the module is never called.
- **httpbin's service** is vendored third-party code. **terraform-init** runs
  two commands in order. **diagnosis-viewer**, **hello-world**, the **templates**,
  **aws-proxy** (a README that points elsewhere), the paradedb sample and the extension-table
  script keep no state that interacts.

## 9. Plan

What is left, in this order:

1. The safety facts that the liveness properties rest on, as further invariants:
   for `H2Proxy`, which closing of a socket ends which receive loop, and that a
   blocked reactor has a backend that can still read or has gone; for
   `TcpRouter`, that a leg that has ended leaves the other closing.
2. `SwitchDeliversPrefixes` and `SwitchHasOneConsumer` restated in the variables of
   the router and of the proxy.
3. `Gateway`: `DockerExtension`'s registrations feeding the registry of
   `TcpRouter`, for properties across the two (a claimed connection belongs to an
   extension whose hook completed).
