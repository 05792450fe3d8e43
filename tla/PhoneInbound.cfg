\* Three messages for two seen ids, and a second connection.
SPECIFICATION Spec
CONSTANTS
  m1 = m1  m2 = m2  m3 = m3
  Msgs = {m1, m2, m3}
  Chunks <- MCChunks
  SeenCap = 2
  MaxConns = 2
  MaxForgets = 1
INVARIANTS TypeOK ShownWhole ShownOnce NoneMissed
SYMMETRY MCSymmetry
CHECK_DEADLOCK FALSE
