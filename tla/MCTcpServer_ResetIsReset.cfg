SPECIFICATION Spec
CONSTANTS
  c1 = c1
  c2 = c2
  c3 = c3
  NULL = NULL
  None = None
  W16 = 4
  TCP_WIN_DEF = 4
  HT_SIZE = 1
  DEF_CAP = 1
  ID = {c1}
  Ptr = {p1}
  HashOf <- MCHashOf
  Listening <- MCListening
  Segments <- MCSegments
  SynSeqs = {0, 15}
  RstSeqs = {0}
  SegAcks = {0}
  SegLens = {0, 1}
  IssValues = {15}
  Garbage = {0}
  GarbageFlags <- MCGarbageFlags
INVARIANT
  ResetIsReset
