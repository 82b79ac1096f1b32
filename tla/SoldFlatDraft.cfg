SPECIFICATION EstateSpec
CONSTANTS
  EstateFlats = {"g1"}
  EstateLettings = {"t1", "t2"}
  FlatLet <- DraftedFlatLet
  TermLet <- DraftedTermLet
  Designations = {"FOR_RENT", "FOR_SALE"}
  Desktops = {b1}
  QueueDays = 1
  HeldRoles = {"PRIMARY_TENANT"}
  ExceptedRules = {"handover_protocol"}
  NoticeDays = {0, 3}
  LastOfficeDay = 4
  NoTask = none
CHECK_DEADLOCK FALSE
INVARIANT NoLettingOnASoldFlat
