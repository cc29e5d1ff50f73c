------------------------ MODULE ContainerExtensions ------------------------
(***************************************************************************)
(* The extensions of the repository that are built on the base class, as   *)
(* the arguments their constructors give to it.  What the environment      *)
(* decides is a parameter; image names, commands, environment variables    *)
(* and volumes only reach Docker and are left out.                         *)
(***************************************************************************)
EXTENDS DockerExtension

(* The defaults of ProxiedDockerContainerExtension.__init__, with the      *)
(* _default_health_check, which sets no timeout.                           *)
Defaults(ports) ==
  [ports |-> ports, http2 |-> <<>>, tcp |-> <<>>, host |-> FALSE, path |-> FALSE,
   matcher |-> FALSE, dev |-> FALSE, timed |-> FALSE]

(* {NAME}_DEV_MODE is set: a local server may stand in for the container.  *)
InDevMode(g) == [g EXCEPT !.dev = TRUE]

(* typedb/localstack_typedb/extension.py; proxied is TYPEDB_HTTP2_PROXY.   *)
TypeDb(proxied) ==
  [Defaults(<<8000, 1729>>) EXCEPT
     !.host = TRUE, !.http2 = IF proxied THEN <<1729>> ELSE <<>>]

(* paradedb/localstack_paradedb/extension.py: a TCP port and its matcher.  *)
ParadeDb == [Defaults(<<5432>>) EXCEPT !.tcp = <<5432>>, !.matcher = TRUE, !.timed = TRUE]

(* wiremock/localstack_wiremock/extension.py; runner: WIREMOCK_API_TOKEN   *)
(* is set, and WIREMOCK_CONFIG_DIR with it (the constructor insists).      *)
WireMock(runner) ==
  [Defaults(IF runner THEN <<8080, 9999>> ELSE <<8080>>) EXCEPT
     !.host = TRUE, !.timed = TRUE]

(* keycloak/localstack_keycloak/extension.py                               *)
Keycloak == [Defaults(<<8080, 9000>>) EXCEPT !.host = TRUE, !.timed = TRUE]

Shipped ==
  {TypeDb(b) : b \in BOOLEAN} \cup {WireMock(b) : b \in BOOLEAN} \cup {ParadeDb, Keycloak}
=============================================================================
