SPECIFICATION Spec
CONSTANTS
  Calls = {c1, c2, c3}
  Streams = {s1, s2}
  Workers = {w1, w2}
  Loop = loop
  None = None
  MaxChunks = 1
  Disconnects = TRUE
SYMMETRY Symmetry
INVARIANT UnloadWaitsForGenerationOnly
CHECK_DEADLOCK FALSE
