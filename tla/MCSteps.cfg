\* Switch steps of one room with two bulbs; overrides change the steps.
SPECIFICATION Spec
CONSTANTS
  a = a
  b = b
  p = p
  c = c
  m = m
  n = n
  s1 = s1
  s2 = s2
  MaxAge = 1
  LightIds = {a, b}
  Rooms = {p}
  Members <- Both
  Descendants <- Alone
  Scenes = {1}
  Slots = {"day", "night"}
  Schedules <- StepTables
  Deployed <- AllStepped
  Rules = {}
  Mode <- NoRule
  Sensors = {}
  SensorsOf <- NoRule
  CycleWindow = 1
  LightStale = 1
  TargetsBySlot <- NoRule
  MotionScene <- FirstScene
  Cooldown = 1
  SensorStale = 1
  Inputs = {"light_state", "cycle", "toggle_cycle", "step_down", "dim", "group_cycle", "override", "group_state", "slot"}
INVARIANTS CursorValid
PROPERTIES StepConfirmedByReports
