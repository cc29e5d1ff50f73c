SPECIFICATION Spec
CONSTANTS
  Exts = {e1, e2}
  Configs <- AllConfigs
  Retries = 1
  MaxStarts = 2
INVARIANTS TypeOK CleanExit FreshContainer AllOrNothing
PROPERTY StartupEnds
CHECK_DEADLOCK FALSE
