SPECIFICATION FairSpec
CONSTANTS
  s1 = s1
  s2 = s2
  s3 = s3
  Scopes = {s1, s2, s3}
  MaxLost = 1
INVARIANTS
  TypeOK
  ReadyInside
  LastScopeCloses
PROPERTIES
  NeverRestarted
  NobodyStuck
