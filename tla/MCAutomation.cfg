SPECIFICATION AutoSpec
CONSTANTS
  Keys = {"hall", "valve", "pump", "stairs"}
  Kind <- MCKind
  Options <- MCOptions
  Deployments <- MCDeployments
  LegacyRows <- MCLegacy
  Scenes = {1, 2}
  Temps = {20, 21}
  Durations = {1}
  Deployed <- MCDeployed
  Day = 2
  MaxEpoch = 1
  MaxNow = 2
  Hours = 2
  Minutes = 2
  Catalog <- MCCatalog
  Manual <- MCManual
  Metered = {"p1"}
  ModelButtons <- MCButtonsOf
  DayLists <- MCDayLists
  SlotMaps <- MCSlotMaps
  RoomLists <- MCRoomLists
  ZoneLists <- MCZoneLists
  GroupLists <- MCGroupLists
  RuleLists <- MCRuleLists
  StepMaps <- MCStepMaps
  BindingLists <- MCBindingLists
INVARIANTS MemoryFollowsStore BoostBounded StartsAsAssumed
PROPERTIES DurableRegister TimedFiresOnce
CHECK_DEADLOCK TRUE
