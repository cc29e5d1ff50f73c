SPECIFICATION Spec
CONSTANTS
  Accounts = {a1, a2}
  Names = {n1}
  Deploys = {d1, d2, d3}
  Calls = {i1}
  Secrets = {s1}
  Ports = {p1, p2}
  None = None
INVARIANTS TypeOK ForgottenOnlyByOverlap RegisteredIsStored ShutForASuccessor
PROPERTIES DeployedStaysKnown
SYMMETRY Symmetry
CHECK_DEADLOCK FALSE
