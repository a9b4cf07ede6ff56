CONSTANTS
  chat = chat  creator = creator  rule = rule
  Absent = Absent  NoData = NoData  Forever = Forever
  Procs = {p1}
  Tokens = {t1}
  Fields <- EntryFields
  Values = {0, 1}
  Registered <- Blank
  Patches <- ChatPatches
  TTL = 1
  Unit = 3
  MaxTime = 4
  IOErrors = FALSE
SPECIFICATION Spec
PROPERTIES ExpiredStaysGone
\* The tokens are all drawn, and the last GenToken has died: nobody has a token to ask for.
CHECK_DEADLOCK FALSE
