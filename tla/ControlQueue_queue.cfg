SPECIFICATION Spec
CONSTANTS
  Interactions = {"i", "j"}
  NoId = "-"
  Shapes <- Clients
  Capacity = 2
  MaxRequests = 4
  MaxSessions = 2
CHECK_DEADLOCK FALSE
INVARIANTS Accounted OwnerIsAlive
PROPERTIES NeverCarriedOver Exclusive PressOrder
