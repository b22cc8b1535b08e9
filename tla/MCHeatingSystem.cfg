SPECIFICATION SysSpec
CONSTANTS
  a = a
  MaxAge = 2
  Zones = {1}
  Trvs = {a}
  ZoneOf <- AllInZone1
  Groups = {}
  Temps = {"T1"}
  MinCycle = 2
  MinPause = 2
  ZoneStale = 1
  Grace = 1
  InhibitFor = 1
  WindowTrvs = {}
  SilentTrvs = {}
  AdjustableTrvs = {}
PROPERTIES PumpStops OnCommandLands DemandServed
