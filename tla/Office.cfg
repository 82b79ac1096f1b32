SPECIFICATION OfficeSpec
CONSTANTS
  a1 = a1
  s1 = s1
  i1 = i1
  l1 = l1
  l2 = l2
  k1 = k1
  n1 = n1
  n2 = n2
  y1 = y1
  x1 = x1
  x2 = x2
  Uploads = {r1, r2, r3}
  TermDays = {1, 2, 3}
  Never = 9
  Addresses = {x1, x2}
  Subjects = {s1, s2}
  Browsers = {b1, b2}
  Roles = {r1}
  NoOne = none
  OfficeAbsolute = 1
  OfficeIdle = 0
  MaxTickets = 2
  MaxHour = 1
  AskTabs = {b1, b2}
  MaxAsks = 4
  MaxThreads = 2
  Admins = {b1, b2}
  WaitingCalls = {c1}
  GoalPairs <- OfficeGoals
  FreeDates = {3, 4}
  Unset = none
  MaxSaves = 3
  LastSettingDay = 8
  Papers = {x1, x2}
  Flats = {y1, y2}
  Loose = loose
  Nowhere = none
  Filers = {b1, b2}
  UploadsPerDay = 2
  MaxThrown = 1
  Folk = {a1, a2}
  Companies = {a2}
  Numbers = {n1}
  Idents = {i1}
  NoIdent = none
  Rows = {r1, r2}
  Terms <- OfficeTerms
  Desks = {b1, b2}
  LastDay = 2
  MaxReads = 2
  Homes = {y1, y2}
  HomesHere = {y1, y2}
  Signers = {s1}
  LettingIds = {l1, l2}
  Sheets = {x1}
  FieldKeys = {k1}
  SeededKeys = {k1}
  Editors = {b1, b2}
  LastDeclDay = 4
  FlatNames = {y1, y2}
  BayNames = {x1}
  Leases = {l1}
  Hands = {b1, b2}
  NoBay = none
  FiledLeases = {l1, l2}
  LeaseReading <- OfficeReading
  FlatOf <- OfficeFlat
  Registered = {a1}
  NationalKeys = {k1}
  Phones = {n1, n2}
  Nobody = none
  Jobs = {d1}
  Instances = {v1}
  Poison = {}
  LeaseTicks = 1
  MaxBackoff = 1
  MaxAttempts = 1
  HandlerTicks = 1
  MaxFailures = 1
  MaxRestarts = 1
  NoJob = none
  Fields = {k1}
  Pages = {1, 2}
  MaxRows = 2
  MaxSigned = 1
  Clerks = {u1, u2}
  Confidants = {u1}
  LeaseKeys = {"main_tenant_name", "start_date"}
  OtherKeys = {"tenant_id_number", "rent_amount"}
  RequiredDates = {"start_date"}
  Corrections = {}
  BlurredKeys = {"rent_amount"}
  LedgerFlats = {f1, f2}
  MaxReadings = 2
  MaxStamps = 2
  NoFlat = none
  Readers = {n1}
  Languages = {he, en}
  Fallback = he
  MaxVersion = 2
  MaxPages = 1
SYMMETRY OfficeSymmetry
CHECK_DEADLOCK FALSE
INVARIANTS
  InForceHolds
  ThreadTellsItsTurns
  FilingHolds
  PeopleHold
  EstateHolds
  OneRunnerPerJob
  ReadingIsWhole
  LedgerHolds
  OpensOnSeenTexts
PROPERTIES
  RowIsBoundOnce
  SettingsHold
  HouseholdIsWhole
