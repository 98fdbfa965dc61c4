SPECIFICATION Spec
CONSTANTS
  Requests = {r1, r2, r3, r4}
  Principals = {p1, p2}
  None = None
  MaxTrouble = 1
SYMMETRY Symmetry
INVARIANTS
  TypeOK
  AnswersAreDurable
  TimelineIsComplete
  PrincipalsAreIsolated
  ReadsLastWrite
PROPERTY TimelineIsAJournal
CHECK_DEADLOCK FALSE
