SPECIFICATION SessionSpec
CONSTANTS
  None = None
  W8 = 6
  W16 = 36
  ID = {client1}
  Window = 8
  GET_LEN = 4
  BodyLen <- MCBodyLen
  Segments = {}
  IssValues = {300, 600, 900}
  FirstSeq = 216
  Requests = {1, 4}
  MaxCalls = 4
  MaxDeliveries = 5
INVARIANTS
  HandshakeAgrees
  ResponsesDisjoint
  InStep
CHECK_DEADLOCK FALSE
