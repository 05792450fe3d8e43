SPECIFICATION Spec
CONSTANTS
  MaxBlocks = 3
  Run = 6
  Texts <- MCPlain
  Media = {}
  TextHead <- MCTextHead
  SoleHead <- MCSoleHead
  MediaHead <- MCMediaHead
  Limit = 44
  Safety = 3
  MediaSafety <- MCMediaSafety
  MinRoom = 4
  UnknownHead = 12
  HmacBytes = 6
  Powers = {1, 10}
INVARIANT EnvelopesFit
CHECK_DEADLOCK FALSE
