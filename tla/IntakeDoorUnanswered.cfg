SPECIFICATION DoorRunSpec
CONSTANTS
  Deliveries = {1, 2, 3}
  Messages = {1, 2}
  Emergency = {2}
  Calls = {c1, c2}
  Office = {}
  MaxInHand = 1
  MaxDoorStops = 1
  MaxRefusals = 0
  MaxExtra = 0
  Pending = Pending
  Null = Null
SYMMETRY Symmetry
CHECK_DEADLOCK FALSE
INVARIANTS
  EmergencyIsAnswered
