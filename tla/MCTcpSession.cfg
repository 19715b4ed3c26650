SPECIFICATION SessionSpec
CONSTANTS
  NULL = NULL
  None = None
  W16 = 16
  TCP_WIN_DEF = 8
  HT_SIZE = 1
  DEF_CAP = 1
  ID = {client1}
  Ptr = {p1}
  HashOf <- MCHashOf
  Listening = {client1}
  Segments = {}
  IssValues = {100, 150, 200}
  Garbage = {0}
  GarbageFlags <- MCGarbageFlags
  FirstSeq = 64
  Requests = {1}
  MaxCalls = 4
  MaxDeliveries = 4
INVARIANTS
  EstablishedWasHeard
  RetrySucceeds
  LinkAgrees
CHECK_DEADLOCK FALSE
