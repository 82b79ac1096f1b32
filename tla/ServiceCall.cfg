SPECIFICATION OfficeSpec
CONSTANTS
  Calls = {c1, c2}
  Parties = {p1, p2}
  Categories = {k1}
  Staff = {s1}
  Addresses = {a1}
  Channels = {"EMAIL", "PHONE", "PORTAL"}
  Replies = {r1}
  MaxTimeline = 2
  Nobody = Nobody
  DeskCalls = {d1, d2}
  Notes = {n1}
  Exits = {"ANSWERED", "CANCELLED"}
  Window = 2
  AmberAge = 0
  RedAge = 1
  LastTick = 5
  NoPage = none
  EstateFlats = {"g1"}
  EstateLettings = {"t1", "t2"}
  FlatLet <- EstateFlatLet
  TermLet <- EstateTermLet
  Designations = {"FOR_SALE"}
  Desktops = {b1, b2}
  QueueDays = 1
  HeldRoles = {"PRIMARY_TENANT"}
  ExceptedRules = {"handover_protocol"}
  NoticeDays = {0, 3}
  LastOfficeDay = 4
  NoTask = none
SYMMETRY Symmetry
CHECK_DEADLOCK FALSE
INVARIANTS
  CallsNameTheirFacts
  RestsOnThePast
  TimelineTellsTheCall
  PageAgrees
  ListsHold
  EstateAgrees
  SoldFlatIsNotLet
PROPERTIES
  ClosedCallIsFrozen
