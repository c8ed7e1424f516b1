SPECIFICATION FairSpec
CONSTANTS
  Assets = {a1, a2, a3}
  NoAsset = none
  Concurrency = 2
  CleanupConcurrency = 2
  AuthThreshold = 1
  CircuitThreshold = 2
  MaxStarts = 1
  PipeFaults = {"transfer", "auth", "url", "disk", "shutdown"}
INVARIANT SuccessMeansOnDisk
 
CHECK_DEADLOCK FALSE
