SPECIFICATION FilingSpec
CONSTANTS
  Papers = {p1}
  Flats = {f1}
  Loose = loose
  Nowhere = none
  Filers = {b1, b2}
  UploadsPerDay = 2
  MaxThrown = 1
CHECK_DEADLOCK FALSE
INVARIANT ObjectIsInvisible
