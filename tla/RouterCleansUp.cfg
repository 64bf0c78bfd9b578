SPECIFICATION Spec
CONSTANTS
  Sources = {"RCU_PTT", "MICROPHONE"}
  Requested = {"MICROPHONE"}
  None = None
  Blocked = Blocked
  ResourceMgmt = FALSE
  Fallible = {}
  Protocol <- Protocols
  MsgqMax = 2
  Uuids = {u1, u2, u3}
  RouteTables <- Tables
SYMMETRY Symmetry
PROPERTIES CleansUp
CHECK_DEADLOCK FALSE
