SPECIFICATION Safe
CONSTANTS
  num_threads = 3
  LOAD_BOUND = 3
  Caller = {a, b}
  Job = {j1, j2, j3}
  MaxSpurious = 1
  Main = Main
  Free = Free
  NoJob = NoJob
SYMMETRY Symmetry
INVARIANTS
  TypeOK
  LockDiscipline
  JobsInOrder
  NoLostWakeup
  DrainedBeforeExit
