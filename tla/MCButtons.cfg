SPECIFICATION Spec
CONSTANTS
  MaxAge = 3
  ButtonIds = {"hw", "soft"}
  Mapped <- MCMapped
  Bound <- MCBound
  Rooms = {"kitchen"}
  Window = 1
  Suppression = 2
  MaxLag = 1
  MaxInbox = 2
INVARIANTS PressesAccounted
PROPERTIES NoPressAfterDoubleTap PressResolves
CHECK_DEADLOCK TRUE
