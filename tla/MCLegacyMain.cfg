SPECIFICATION MainSpec
CONSTANTS
  None = None
  IcmpTypes = {"echo_request", "echo_reply"}
  W8 = 2
  W16 = 4
  ID = {c1, c2, c3}
  Talkers = {c1, c2}
  Window = 4
  GET_LEN = 8
  BodyLen <- MCBodyLen
  Segments <- MCSegments
  SegSeq = 8
  RstSeqs = {8, 9}
  SegAcks = {0}
  IssValues = {15, 7}
INVARIANTS
  ListSound
  MainReleases
PROPERTIES
  Isolation
CHECK_DEADLOCK FALSE
