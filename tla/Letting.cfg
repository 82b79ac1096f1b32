SPECIFICATION Spec
CONSTANTS
  Requests = {r1, r2}
  Leases = {lease1, lease2}
  Amendments = {addendum}
  MaxDay = 2
  MaxSignings = 2
  MaxPaperless = 1
  Nobody = Nobody
SYMMETRY InstanceSymmetry
INVARIANTS
  OneHouseholdPerDay
  ActivationIsEarned
  BooksAgree
CHECK_DEADLOCK FALSE
