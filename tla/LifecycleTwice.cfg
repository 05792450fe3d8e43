CONSTANTS
  Accounts = {"a"}
  MaxEdits = 1
  Configured <- MCConfiguredOne
SPECIFICATION Spec
INVARIANT OnePipeline
CHECK_DEADLOCK FALSE
