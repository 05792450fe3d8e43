SPECIFICATION Spec
CONSTANTS
  MaxBlocks = 3
  Run = 6
  Texts <- MCTexts
  Media <- MCMedia
  TextHead <- MCTextHead
  SoleHead <- MCSoleHead
  MediaHead <- MCMediaHead
  Limit = 44
  Safety = 3
  MediaSafety <- MCMediaSafety
  MinRoom = 4
  UnknownHead = 12
  HmacBytes = 6
  Powers <- MCPowers
INVARIANTS TypeOK Seamless OverByUnmeasured
PROPERTIES CutsGreedily
CHECK_DEADLOCK FALSE
