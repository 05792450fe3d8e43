\* Texts under a shared secret: the HMAC check separates a handler's arrival from its work.
CONSTANTS
  Msgs = {"text", "ctl"}
  Calls = {c1, c2}
  KindOf <- MCKindText
  ChunksOf <- MCChunksText
  Worded = {}
  Signed = {"text"}
  Allowed = {"ctl"}
  HasSecret = TRUE
  Lag <- MCAhead
  MaxSkew = 2
  ReassemblyTtl = 1
  RecentTtl = 1
  GcEvery = 1
  MaxHeldText = 2
  MaxHeldMedia = 1
  MaxMedia = 2
  MaxTime = 4
  MaxPosts = 2
  MaxCrashes = 0
  MaxWriteFailures = 0
SPECIFICATION Spec
INVARIANTS OncePerWindow NoGhostParts HeldBriefly
SYMMETRY MCSymmetry
CHECK_DEADLOCK FALSE
