SPECIFICATION Spec
CONSTANTS
  Sources = {"RCU_PTT", "MICROPHONE"}
  Requested = {"MICROPHONE"}
  None = None
  Blocked = Blocked
  ResourceMgmt = FALSE
  Fallible = {"stream_stop", "detect_keyword", "detect_stop"}
  Protocol <- Protocols
  MsgqMax = 2
  Uuids = {u1, u2, u3}
  RouteTables <- Tables
SYMMETRY Symmetry
INVARIANTS TypeOK Exclusive StreamOwned 
PROPERTIES Contract ConfiguredOnce
CHECK_DEADLOCK FALSE
