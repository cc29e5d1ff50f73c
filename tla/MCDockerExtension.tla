------------------------- MODULE MCDockerExtension -------------------------
(***************************************************************************)
(* Small instances of DockerExtension for TLC: the extensions of the       *)
(* repository, and what else the base class accepts.                       *)
(***************************************************************************)
EXTENDS ContainerExtensions

TcpBesideHttp ==
  [Defaults(<<80, 81>>) EXCEPT !.tcp = <<81>>, !.host = TRUE, !.matcher = TRUE]
NoMatcher == [ParadeDb EXCEPT !.matcher = FALSE]
WithPath == [Defaults(<<80>>) EXCEPT !.path = TRUE]
TwoGrpcPorts == [TypeDb(TRUE) EXCEPT !.http2 = <<8000, 1729>>]
Accepted == {TcpBesideHttp, NoMatcher, WithPath, TwoGrpcPorts}

AllConfigs == Shipped \cup Accepted \cup {InDevMode(Keycloak)}
=============================================================================
