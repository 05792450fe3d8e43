\* Attachments, no shared secret: a handler runs to its scan in one turn.
CONSTANTS
  Msgs = {"pic", "big"}
  Calls = {c1, c2}
  KindOf <- MCKindMedia
  ChunksOf <- MCChunksMedia
  Worded = {"pic"}
  Signed = {}
  Allowed = {"pic", "big"}
  HasSecret = FALSE
  Lag = 1
  MaxSkew = 4
  ReassemblyTtl = 1
  RecentTtl = 1
  GcEvery = 1
  MaxHeldText = 2
  MaxHeldMedia = 2
  MaxMedia = 2
  MaxTime = 3
  MaxPosts = 1
  MaxCrashes = 1
  MaxWriteFailures = 1
SPECIFICATION Spec
INVARIANTS TypeOK AcceptedWhole NoneSwallowed
SYMMETRY MCSymmetry
CHECK_DEADLOCK FALSE
