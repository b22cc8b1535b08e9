SPECIFICATION Spec
CONSTANTS
  Devices <- MCDevices
  Wanted <- MCWanted
  Rooms <- MCRooms
  Nodes = {"n1", "n2"}
  Joined = {"n1"}
  Optioned = {"d1", "d3"}
  StartNames <- MCStartNames
  StartGroups <- MCStartGroups
  Attempts = 2
  MaxFaults = 3
INVARIANTS SuccessMeansProvisioned CleanPassSucceeds
PROPERTIES Converges
CHECK_DEADLOCK TRUE
