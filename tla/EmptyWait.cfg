CONSTANTS
  Clients = 3
  MAX_FDS = 2
SPECIFICATION Spec
INVARIANT EmptyMeansNoClients
CHECK_DEADLOCK FALSE
