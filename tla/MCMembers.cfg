CONSTANTS
  r1 = r1  t1 = t1  a = a  b = b
  NoChat = NoChat  NoToken = NoToken
  Workers = {w1, w2}
  Replicas = {r1}
  Home <- OneHome
  Operators = {u1, u2}
  Tokens = {t1}
  Credentials = {t1}
  Chats = {c1, c2}
  GcWindow = 0
  HandlerTime = 1
  TaskTime = 1
  MaxTime = 0
  MaxCrashes = 1
  Emails = {a, b}
  Invited <- AllOfThem
  Admin = {b}
SYMMETRY Symmetry
SPECIFICATION MembersSpec
INVARIANTS MembersTypeOK ReleasedNotRecorded CardMatchesMembers
