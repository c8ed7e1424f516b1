SPECIFICATION Spec
CONSTANTS
  z1 = z1
  z2 = z2
  cA = cA
  cB = cB
  NoHash = NoHash
  Zones = {z1}
  Configs = {cA, cB}
  Eligible <- MCEligible
  MaxChanges = 1
  MaxStarts = 4
  MaxDrifts = 1
  Faults = {"stop", "db", "engine", "drift", "exclude", "reset", "expiry"}
INVARIANTS IInv
PROPERTIES TokensNeverRegress
