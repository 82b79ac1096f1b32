SPECIFICATION BackgroundSpec
CONSTANTS
  Jobs = {j1, j2}
  Instances = {i1}
  Poison = {j2}
  LeaseTicks = 2
  MaxBackoff = 2
  MaxAttempts = 2
  HandlerTicks = 2
  MaxFailures = 1
  MaxRestarts = 1
  NoJob = NoJob
  Pollers = {p1, p2}
  Refused = {2}
  MaxMail = 3
  PageMax = 2
  MaxStops = 1
  MaxLosses = 1
  NoLink = NoLink
  Tasks = {1, 2, 3}
  Channels = {"EMAIL", "PORTAL", "WHATSAPP"}
  ModelFailures = 1
  ThreadRestarts = 1
  MaxSwitches = 1
  Nobody = Nobody
  Deliveries = {1, 2, 3, 4, 5}
  Messages = {1, 2, 3}
  Emergency = {2, 3}
  Calls = {c1, c2, c3}
  Office = {"close", "flag", "rescue", "duplicate", "elsewhere"}
  MaxInHand = 1
  MaxRefusals = 1
  MaxDoorStops = 1
  Null = Null
  MaxExtra = 1
  Pending = Pending
  Filtered1 = 1
  Spare = c3
CHECK_DEADLOCK FALSE
INVARIANTS
  DoneIsEarned
  CursorSkipsNoMail
  ThreadTellsTheCall
  OneThreadOneCall
  FlaggedIsAnsweredOnce
PROPERTIES
  DoneIsFinal
  BoundWorkGetsDone
  MailIsReadOrTold
  SkippedStaysSilent
  EveryMessageSettles
