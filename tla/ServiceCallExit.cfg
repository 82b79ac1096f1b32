SPECIFICATION Spec
CONSTANTS
  Calls = {c1, c2}
  Parties = {p1}
  Categories = {k1}
  Staff = {s1}
  Addresses = {a1}
  Channels = {"EMAIL", "PHONE"}
  Replies = {}
  MaxTimeline = 2
  Nobody = Nobody
CHECK_DEADLOCK FALSE
INVARIANTS
  OpenCallCanExit
