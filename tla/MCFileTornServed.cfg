CONSTANTS
  p1 = p1  p2 = p2  g1 = g1  r1 = r1  r2 = r2
  chat = chat  creator = creator
  Absent = Absent  Empty = Empty  Garbage = Garbage  NoData = NoData
  Procs = {p1, p2}
  Collectors = {}
  Replicas = {r1, r2}
  Home <- TwoHomes
  Tokens = {t1}
  Fields <- BothFields
  Values = {0, 1}
  Registered <- Blank
  Patches <- OnePatch
  TTL = 1
  MaxTime = 1
  MaxCrashes = 0
  IOErrors = FALSE
SPECIFICATION Spec
PROPERTIES MissMeansExpired
