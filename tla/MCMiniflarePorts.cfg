SPECIFICATION Spec
CONSTANTS
  Accounts = {a1}
  Names = {n1, n2}
  Deploys = {d1, d2}
  Calls = {i1}
  Secrets = {}
  Ports = {p1, p2}
  None = None
INVARIANTS OwnWorkerAnswers
CHECK_DEADLOCK FALSE
