CONSTANTS
  Clients = 3
  MAX_FDS = 2
SPECIFICATION Spec
INVARIANTS SlotInBounds BlockedOnlyByLostUpdate AloneKeepsSlot
PROPERTIES AloneIsShutDown RegistrationEnds TerminateEnds
CHECK_DEADLOCK FALSE
