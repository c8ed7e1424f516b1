SPECIFICATION DeltaFairSpec
CONSTANTS
  m1 = m1  m2 = m2  a1 = a1  b1 = b1  a2 = a2
  Masters = {m1}
  Assets = {a1, b1}
  MasterOf <- MCMasterOf
  Setups <- MCSetups
  PageSize = 2
  ChannelCap = 1
  PipeCap = 1
  Faults = {"error", "odd", "db", "crash", "stop"}
  MaxMishaps = 1
  Null = Null
INVARIANTS DeltaTypeOK DeltaTokenSound MembershipSound
PROPERTIES TombstonesLand EventuallyKnown
