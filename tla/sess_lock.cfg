SPECIFICATION Spec
CONSTANTS
  Null = null
  w = w
  c1 = c1
  Watch = w
  Commands = {c1}
  MaxIssued = 2
  MaxGen = 2
  MaxRuns = 3
  SessFaults = {"crash", "torn", "remove", "unlock"}
INVARIANTS SessTypeOK OneTalker ResetWins ResetStopsWatch
 
CHECK_DEADLOCK FALSE
