SPECIFICATION Spec
CONSTANTS
  Sources = {"MICROPHONE", "MICROPHONE_TAP"}
  Requested = {"MICROPHONE_TAP"}
  None = None
  Blocked = Blocked
  ResourceMgmt = TRUE
  Fallible = {"stream_stop"}
  Protocol <- Protocols
  MsgqMax = 2
  Uuids = {u1, u2, u3}
  RouteTables <- Tables
SYMMETRY Symmetry
INVARIANTS Exclusive StreamOwned DeviceTruth
PROPERTIES Contract
CHECK_DEADLOCK FALSE
