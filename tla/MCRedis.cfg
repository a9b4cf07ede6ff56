CONSTANTS
  chat = chat  creator = creator  rule = rule
  Absent = Absent  NoData = NoData  Forever = Forever
  Procs = {p1, p2}
  Tokens = {t1}
  Fields <- EntryFields
  Values = {0, 1}
  Registered <- Blank
  Patches <- ChatPatches
  TTL = 1
  Unit = 2
  MaxTime = 3
  IOErrors = TRUE
SYMMETRY Symmetry
SPECIFICATION Spec
INVARIANTS TypeOK EveryKeyExpires
PROPERTIES Promised
\* The tokens are all drawn, and the last GenToken has died: nobody has a token to ask for.
CHECK_DEADLOCK FALSE
