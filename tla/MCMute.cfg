CONSTANTS
  a1 = a1  a2 = a2  i1 = i1  i2 = i2  g = g
  NoAlert = NoAlert  NoInstance = NoInstance
  Workers = {w1, w2}
  Alerts = {a1, a2}
  Instances = {i1, i2}
  Group <- OneGroup
  Named <- SameName
  Tagged <- OwnTag
  Instance <- OwnTag
  Members <- Gathering
  RuleIds = {1, 2}
  MaxAttempts = 2
SPECIFICATION FairSpec
INVARIANTS TypeOK MutedMeansRuleMade DeletedMeansGone UnmuteIsFinal
PROPERTIES ClickEnds
