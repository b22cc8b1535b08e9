\* An on-off rule over the inner of two nested rooms and an on-only rule over the
\* other bulb; motion can be switched off per room.
SPECIFICATION Spec
CONSTANTS
  a = a
  b = b
  p = p
  c = c
  m = m
  n = n
  s1 = s1
  s2 = s2
  MaxAge = 1
  LightIds = {a, b}
  Rooms = {p, c}
  Members <- Nested
  Descendants <- NestedDown
  Scenes = {1}
  Slots = {"day", "night"}
  Schedules <- JustPlain
  Deployed <- AllPlain
  Rules = {m, n}
  Mode <- OnOffOnOnly
  Sensors = {s1}
  SensorsOf <- SharedOne
  CycleWindow = 1
  LightStale = 1
  TargetsBySlot <- ByDay
  MotionScene <- FirstScene
  Cooldown = 1
  SensorStale = 1
  Inputs = {"group_state", "enable", "restart", "slot"}
INVARIANTS DisabledReleased
PROPERTIES StartupSparesDisabled
