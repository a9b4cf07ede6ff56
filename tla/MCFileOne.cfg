CONSTANTS
  p1 = p1  p2 = p2  g1 = g1  r1 = r1  r2 = r2
  chat = chat  creator = creator
  Absent = Absent  Empty = Empty  Garbage = Garbage  NoData = NoData
  Procs = {p1, p2, g1}
  Collectors = {g1}
  Replicas = {r1}
  Home <- OneHome
  Tokens = {t1}
  Fields <- BothFields
  Values = {0, 1}
  Registered <- Blank
  Patches <- TwoPatches
  TTL = 1
  MaxTime = 2
  MaxCrashes = 1
  IOErrors = FALSE
SPECIFICATION FairSpec
INVARIANTS TypeOK
PROPERTIES Linearizable CallReturns ExpiredCollected
