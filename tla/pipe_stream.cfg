SPECIFICATION Spec
CONSTANTS
  Assets = {a1, a2}
  NoAsset = none
  Concurrency = 1
  CleanupConcurrency = 2
  AuthThreshold = 2
  CircuitThreshold = 1
  MaxStarts = 2
  PipeFaults = {"db", "marker", "exif", "transfer", "enum", "noToken", "crash", "provider", "unrefreshed", "exhausted", "panic", "url"}
SYMMETRY AssetSymmetry
INVARIANTS PInv UntrackedBounded
PROPERTY KeepsPromise
CHECK_DEADLOCK FALSE
