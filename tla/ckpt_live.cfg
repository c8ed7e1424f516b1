SPECIFICATION FairSpec
CONSTANTS
  z1 = z1
  z2 = z2
  cA = cA
  cB = cB
  NoHash = NoHash
  Zones = {z1}
  Configs = {cA, cB}
  Eligible <- MCEligible
  MaxChanges = 2
  MaxStarts = 2
  MaxDrifts = 0
  Faults = {"stop", "transfer", "engine", "oneShot"}
PROPERTIES EventuallyMirrored ReconciliationCompletes
