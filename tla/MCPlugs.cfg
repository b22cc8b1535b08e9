SPECIFICATION FairSpec
CONSTANTS
  MaxAge = 2
  DeployedRules = {1, 2}
  OverrideRule = 3
  Watts <- MCWatts
  Holdoff <- MCHoldoff
  Readings <- MCReadings
  TargetStale = 1
  PlugStale = 2
  ConfirmOff = 1
INVARIANTS RulesComplete
PROPERTIES HoldoffResolves KillAfterHoldoff SuppressionHolds
CHECK_DEADLOCK TRUE
