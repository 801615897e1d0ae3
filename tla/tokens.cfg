SPECIFICATION FairSpec
CONSTANTS
  g1 = g1
  g2 = g2
  g3 = g3
  f1 = f1
  i1 = i1
  i2 = i2
  i3 = i3
  i4 = i4
  NoToken = NoToken
  NoSecret = NoSecret
  Workers = {w1, w2}
  Generated = {g1, g2, g3}
  Foreign = {f1}
  Ids = {i1, i2, i3, i4}
  IdOf <- OwnId
  FailureThreshold = 2
INVARIANTS
  TypeOK
  GivenTokensAreStored
  TokensDoNotPileUp
PROPERTIES
  CallsRunOut
  EveryRequestEnds
  ShortLived
