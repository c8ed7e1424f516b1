SPECIFICATION Spec
CONSTANTS
  z1 = z1
  z2 = z2
  cA = cA
  cB = cB
  NoHash = NoHash
  Zones = {z1, z2}
  Configs = {cA, cB}
  Eligible <- MCEligible
  MaxChanges = 1
  MaxStarts = 3
  MaxDrifts = 0
  Faults = {"stop", "earlyShutdown"}
INVARIANTS DbTokenSound
