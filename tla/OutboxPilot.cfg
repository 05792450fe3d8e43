SPECIFICATION Spec
CONSTANTS
  p1 = p1  p2 = p2
  m1 = m1  m2 = m2  m3 = m3
  Peers = {p1, p2}
  Msgs = {m1, m2, m3}
  Drains = {d1}
  DestOf <- MCDest3
  ChunksOf <- MCChunks3
  MaxPerPeer = 2
  Ttl = 0
  SettlesInTurn = TRUE
  MaxTime = 1
  MaxCrashes = 1
  MaxSaveFailures = 1
INVARIANTS TypeOK Retained
PROPERTY KeepsPromises
CHECK_DEADLOCK FALSE
