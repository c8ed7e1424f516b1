SPECIFICATION FairSpec
CONSTANTS
  t1 = t1
  t2 = t2
  Tasks = {t1}
  Size = 2
  EmbedModes = {TRUE, FALSE}
  MaxInodes = 4
  MaxEdits = 2
  MaxFailures = 2
  LandFaults = {"repair", "http", "break", "link", "db", "crash"}
INVARIANTS LandTypeOK EditStays RowIsWhole
PROPERTY Lands
CHECK_DEADLOCK FALSE
