\* One zone whose two valves form a pressure group.  Both may meet an open
\* window; valve a may stop reporting; the dashboard changes the settings of valve b.
SPECIFICATION Spec
CONSTANTS
  a = a
  b = b
  MaxAge = 1
  Zones = {1}
  Trvs = {a, b}
  ZoneOf <- OneZone
  Groups <- Group
  Temps = {"T1"}
  MinCycle = 1
  MinPause = 1
  ZoneStale = 1
  Grace = 1
  InhibitFor = 1
  WindowTrvs = {a, b}
  SilentTrvs = {a}
  AdjustableTrvs = {b}
PROPERTIES PressureJustified PlaceholderReplaced InhibitionLasts
