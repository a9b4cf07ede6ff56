CONSTANTS
  e1 = e1  e2 = e2  i1 = i1  b1 = b1
  t1 = t1  t2 = t2  app1 = app1  app2 = app2
  NoId = NoId  Nothing = Nothing
  Replicas = {r1, r2}
  Keys = {i1, b1}
  Window = 1
  MaxTime = 2
  MaxRestarts = 1
  Workers = {w1, w2}
  Events = {e1, e2}
  Id <- Ids
  Button <- Buttons
  Tokens = {t1, t2}
  Apps = {app1, app2}
  Own <- Carried
  Configured <- NotSet
  HandlerTime = 2
  Grace = 1
SYMMETRY Symmetry
CHECK_DEADLOCK FALSE
SPECIFICATION CallbackSpec
INVARIANTS CallbackTypeOK RefusesExactlyWindow AnsweredWasHandled HandlingsBounded CredentialsFit
