SPECIFICATION Spec
CONSTANTS
  c1 = c1
  c2 = c2
  c3 = c3
  NULL = NULL
  None = None
  W16 = 4
  TCP_WIN_DEF = 3
  HT_SIZE = 2
  DEF_CAP = 1
  ID = {c1, c2, c3}
  Ptr = {p1, p2, p3}
  HashOf <- MCHashOf
  Listening <- MCListening
  Segments <- MCSegments
  SynSeqs = {0, 14, 15}
  RstSeqs = {0, 1, 2, 3, 4, 7, 8, 9, 13, 14, 15}
  SegAcks = {0, 1}
  SegLens = {0}
  IssValues = {15}
  Garbage = {0}
  GarbageFlags <- MCGarbageFlags
SYMMETRY Addresses
INVARIANTS
  TypeOK
  TableSound
  OnlyListeningBlocks
  HandshakeNumbers
PROPERTIES
  ImplementsListener
