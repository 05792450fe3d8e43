SPECIFICATION Spec
CONSTANTS
  r1 = r1  r2 = r2  r3 = r3
  Replies = {r1, r2, r3}
  Urls <- MCUrls
INVARIANTS TypeOK SettledAtReturn
PROPERTIES NoLateAnswers
CHECK_DEADLOCK FALSE
