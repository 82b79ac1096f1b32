SPECIFICATION DoorRunSpec
CONSTANTS
  Deliveries = {1, 2, 3}
  Messages = {1, 2}
  Emergency = {2}
  Calls = {c1, c2}
  Office = {"close", "duplicate", "return", "rescue", "flag", "clear", "elsewhere"}
  MaxInHand = 2
  MaxDoorStops = 1
  MaxRefusals = 1
  MaxExtra = 1
  Pending = Pending
  Null = Null
SYMMETRY Symmetry
CHECK_DEADLOCK FALSE
INVARIANTS
  SettledOnce
PROPERTIES
  MessagesLandWell
  ImplementsIntake
