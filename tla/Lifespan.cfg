SPECIFICATION FairLifespan
CONSTANTS
  Calls = {c1, c2, down}
  Streams = {s1, s2}
  Workers = {w1, w2}
  Loop = loop
  None = None
  MaxChunks = 0
  Disconnects = TRUE
  Shutdown = down
  Others = {o1}
INVARIANTS
  NothingLeftOpen
PROPERTIES
  EveryRequestIsAnswered
  ShutdownEnds
CHECK_DEADLOCK FALSE
