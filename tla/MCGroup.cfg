CONSTANTS
  r1 = r1
  NoChat = NoChat  NoToken = NoToken
  Workers = {w1, w2}
  Replicas = {r1}
  Home <- OneHome
  Operators = {u1, u2}
  Tokens = {t1}
  Credentials = {t1}
  Chats = {c1, c2}
  GcWindow = 1
  HandlerTime = 1
  TaskTime = 2
  MaxTime = 2
  MaxCrashes = 1
SYMMETRY Symmetry
SPECIFICATION Spec
INVARIANTS TypeOK TasksSpaced SecondChatHasCause UnrecordedHasCause
PROPERTIES ErasesOwnChat
