SPECIFICATION PortalSpec
CONSTANTS
  Requests = {b1, b2}
  Phones = {p1}
  ClientAddresses = {a1, a2}
  CodeChannels = {whatsapp, sms}
  ResendWait = 1
  CodeTtl = 2
  Day = 3
  CodeAttempts = 1
  SendsPerNumber = 2
  SendsPerAddress = 1
  MaxTime = 4
  MaxLost = 1
  Tenants = {t1, t2}
  Credentials = {k1}
  Tabs = {b1, b2}
  CeremonyTtl = 1
  SessionAbsolute = 1
  SessionIdle = 0
  MaxChallenges = 3
  MaxSessions = 3
  MaxCount = 2
  MaxDay = 1
  Files = {f1, f2, f3}
  Sends = {b1, b2}
  Clerks = {b1, b2}
  ReportFileMax = 2
  MaxOffers = 1
  Persons = {p1, n1}
  Caller = p1
  Homes = {a1, a2}
  PostKeys = {whatsapp, sms}
  Presses = {b1, b2}
  Nothing = Nothing
  MaxTickets = 3
  MaxMoves = 2
SYMMETRY PortalSymmetry
CHECK_DEADLOCK FALSE
INVARIANTS
  CodesEndWell
  PasskeysAreSpentOnce
  FilesKeepTheirWord
  TenantsAreAnswered
