\* Two zones share the pump; one valve each.
SPECIFICATION Spec
CONSTANTS
  a = a
  b = b
  MaxAge = 2
  Zones = {1, 2}
  Trvs = {a, b}
  ZoneOf <- TwoZones
  Groups = {}
  Temps = {"T1"}
  MinCycle = 2
  MinPause = 2
  ZoneStale = 1
  Grace = 1
  InhibitFor = 1
  WindowTrvs = {}
  SilentTrvs = {}
  AdjustableTrvs = {}
INVARIANTS PumpClocks HoldReleased ConfirmedOff
PROPERTIES StartRespectsPause FlowPath
