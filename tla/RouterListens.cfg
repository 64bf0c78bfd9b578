SPECIFICATION Spec
CONSTANTS
  Sources = {"RCU_PTT", "MICROPHONE"}
  Requested = {"MICROPHONE"}
  None = None
  Blocked = Blocked
  ResourceMgmt = FALSE
  Fallible = {}
  Protocol <- Protocols
  MsgqMax = 4
  Uuids = {u1, u2, u3}
  RouteTables <- AllRoutes
SYMMETRY Symmetry
INVARIANTS Listens
CHECK_DEADLOCK FALSE
