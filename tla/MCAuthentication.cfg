SPECIFICATION FairSpec
CONSTANTS
  Tabs = {t1, t2}
  k1 = k1
  k2 = k2
  Keys = {k1, k2}
  NoKey = NoKey
  Configs <- MCConfigs
  FailureLimit = 2
  Window = 1
  Lifetime = 1
  MaxLogins = 2
  MaxStarts = 2
INVARIANTS
  AcceptedSessions
  SecretReadable
  OnlyStaleTokensRefused
PROPERTIES
  RefusalEnds
