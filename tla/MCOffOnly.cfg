\* An off-only rule with one sensor and one bulb.
SPECIFICATION FairSpec
CONSTANTS
  a = a
  b = b
  p = p
  c = c
  m = m
  n = n
  s1 = s1
  s2 = s2
  MaxAge = 1
  LightIds = {a}
  Rooms = {p}
  Members <- Single
  Descendants <- Alone
  Scenes = {1}
  Slots = {"day"}
  Schedules <- JustPlain
  Deployed <- AllPlain
  Rules = {m}
  Mode <- OffOnly
  Sensors = {s1}
  SensorsOf <- OneSensor
  CycleWindow = 1
  LightStale = 1
  TargetsBySlot <- WholeRoom
  MotionScene <- FirstScene
  Cooldown = 1
  SensorStale = 1
  Inputs = {"light_state", "toggle", "dim", "group_cycle", "all_off", "group_state", "restart"}
INVARIANTS OffOnlyClaimHeld
PROPERTIES SessionsEnd
