\* An on-off rule with two sensors and one bulb.
SPECIFICATION Spec
CONSTANTS
  a = a
  b = b
  p = p
  c = c
  m = m
  n = n
  s1 = s1
  s2 = s2
  MaxAge = 1
  LightIds = {a}
  Rooms = {p}
  Members <- Single
  Descendants <- Alone
  Scenes = {1}
  Slots = {"day"}
  Schedules <- JustPlain
  Deployed <- AllPlain
  Rules = {m}
  Mode <- OnOff
  Sensors = {s1, s2}
  SensorsOf <- TwoSensors
  CycleWindow = 1
  LightStale = 1
  TargetsBySlot <- WholeRoom
  MotionScene <- FirstScene
  Cooldown = 1
  SensorStale = 1
  Inputs = {"light_state", "toggle", "off", "dim", "recall", "web_off", "all_off", "bright", "group_state", "restart"}
INVARIANTS SessionOccupied MotionLitIsClaimed
PROPERTIES VacancySparesManual
