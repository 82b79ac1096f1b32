SPECIFICATION FilteredSpec
CONSTANTS
  Messages = {m1, m2}
  Calls = {c1, c2}
  KeepMonths = 1
  Nobody = Nobody
CHECK_DEADLOCK FALSE
PROPERTIES
  RescuedMessageStays
