SPECIFICATION FairSpec
CONSTANTS
  Jobs = {j1}
  Instances = {i1}
  Poison = {}
  LeaseTicks = 2
  MaxBackoff = 2
  MaxAttempts = 2
  HandlerTicks = 1
  MaxFailures = 0
  MaxRestarts = 1
  NoJob = NoJob
PROPERTIES
  WorkGetsDone
