SPECIFICATION Spec
CONSTANTS
  num_threads = 2
  LOAD_BOUND = 3
  Caller = {a, b}
  Job = {j1, j2}
  MaxSpurious = 1
  Main = Main
  Free = Free
  NoJob = NoJob
PROPERTIES
  DestroyReturns
  AcceptedAreHandled
