\* A message and a connection test over two connections and a kill of the app.
CONSTANTS
  Msgs = {"text", "ping"}
  Pings = {"ping"}
  MaxUps = 2
  MaxErrors = 1
  MaxKills = 1
SPECIFICATION FairSpec
INVARIANTS TypeOK Attended Honest Persisted
PROPERTIES NeverBack Settles
CHECK_DEADLOCK FALSE
