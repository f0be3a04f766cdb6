CONSTANTS
  N_threads = 2
  N_MAX = 2
  Batch = 1
SPECIFICATION Spec
INVARIANTS
  EveryBatchCounted
