SPECIFICATION Spec
CONSTANTS
  Clients = {c1, c2, c3}
  Limit = 2
  Window = 2
  MaxClients = 2
  MaxDelay = 1
  MaxRequests = 5
  MaxTime = 4
SYMMETRY Symmetry
INVARIANTS
  TypeOK
  AdmissionsBounded
  NoFalseRefusal
PROPERTY EvictsLeastRecent
CHECK_DEADLOCK FALSE
