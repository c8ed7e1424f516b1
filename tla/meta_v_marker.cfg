SPECIFICATION Spec
CONSTANTS
  Null = null
  v1 = v1
  v2 = v2
  p1 = p1
  p2 = p2
  Versions = {v1}
  Passes = {p1}
  MaxHash = 1
  MaxMedia = 1
  MaxFaults = 2
  Plain = {}
  MetaFaults = {"exif", "db"}
INVARIANT MarkerSurvives
