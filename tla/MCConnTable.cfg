SPECIFICATION TableSpec
CONSTANTS
  c1 = c1
  c2 = c2
  c3 = c3
  c4 = c4
  NULL = NULL
  W16 = 2
  TCP_WIN_DEF = 1
  HT_SIZE = 2
  DEF_CAP = 1
  ID <- MCID
  Listening <- MCListening
  Garbage <- MCGarbage
  GarbageFlags <- MCGarbageFlags
  HashOf <- MCHashOf
  Ptr = {p1, p2, p3, p4}
INVARIANTS
  TableOwnsBlocks
  TableUnique
  TableLookup
  TableCapacity
  TableSize
