SPECIFICATION FairSpec
CONSTANTS
  p1 = p1  p2 = p2
  m1 = m1  m2 = m2  m3 = m3
  Peers = {p1}
  Msgs = {m1, m2}
  Drains = {d1, d2}
  DestOf <- MCDest
  ChunksOf <- MCChunks
  MaxPerPeer = 2
  Ttl = 0
  SettlesInTurn = FALSE
  MaxTime = 1
  MaxCrashes = 1
  MaxSaveFailures = 0
INVARIANTS CapHolds AgeOrdered
PROPERTY EventuallyDrained
CHECK_DEADLOCK FALSE
