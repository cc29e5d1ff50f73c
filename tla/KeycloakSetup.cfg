SPECIFICATION Spec
CONSTANTS
  MaxRuns = 3
INVARIANTS TypeOK FreshSetupCompletes CaughtFaultsStayLocal
PROPERTIES KeepsPassword ExistingRealmUntouched
CHECK_DEADLOCK FALSE
