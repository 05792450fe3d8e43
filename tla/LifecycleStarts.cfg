CONSTANTS
  Accounts = {"a", "b"}
  MaxEdits = 2
  Configured <- MCConfigured
SPECIFICATION FairSpec
INVARIANTS MapIsLive NeverForgotten
PROPERTY EventuallyRuns
CHECK_DEADLOCK FALSE
