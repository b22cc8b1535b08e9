SPECIFICATION FairSpec
CONSTANTS
  MaxReports = 3
  MaxChanges = 1
  MaxFaults = 1
  QueueCap = 1
  RingCap = 2
  AskCap = 2
  MaxMissed = 2
INVARIANTS DrainedIsCurrent NothingSkipped
PROPERTIES AnsweredKept SilentIsClosed ScreenSettles
