\* Two connections and three Tasks, at work on one connection or on two; one
\* stop that throws.
SPECIFICATION FairSpec
CONSTANTS
  MaxConns = 2
  MaxTasks = 3
  MaxTries = 2
  MaxWedges = 1
INVARIANTS TypeOK NoOrphans
PROPERTIES FreshWithin Concludes
CHECK_DEADLOCK FALSE
