SPECIFICATION Spec
CONSTANTS
  g1 = g1
  g2 = g2
  g3 = g3
  f1 = f1
  i1 = i1
  i2 = i2
  i3 = i3
  i4 = i4
  NoToken = NoToken
  NoSecret = NoSecret
  Workers = {w1, w2}
  Generated = {g1, g2}
  Foreign = {f1}
  Ids = {i1}
  IdOf <- OneId
  FailureThreshold = 5
PROPERTIES
  FailsIfExists
