CONSTANTS
  t1 = t1
  Workers = {w1, w2}
  Replicas = {r1}
  Tokens = {t1}
  Operators = {u1}
  Webhook = Webhook
  Hooks <- OneHook
  Deployment <- Environments
  AiWindow = 3
  AITimeout = 1
  FeishuTimeout = 1
  MaxTime = 5
  MaxCrashes = 1
SPECIFICATION FairSpec
INVARIANTS AnalysisTypeOK RunningSpaced OverlapBounded CardTruthful ConfigSound AnswerShown
PROPERTY AnalysisEnds
