SPECIFICATION Spec
CONSTANTS
  a = a
  b = b
  c = c
  Ids = {a, b, c}
  Absent = Absent
  Blank = Blank
  Me = Me
  Messages <- MCMessages
  MaxAge = 1
  HistorySize = 2
  HistoryTTL = 2
  HomeIsSet = FALSE
  MaxClock = 3
  MaxRestarts = 1
INVARIANTS TypeOK AckIsEvidence
PROPERTIES NotRunTwice
