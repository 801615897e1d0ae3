SPECIFICATION Spec
CONSTANTS
  k1 = k1
  k2 = k2
  x1 = x1
  x2 = x2
  n1 = n1
  n2 = n2
  a1 = a1
  a2 = a2
  Keys = {k1}
  Names = {x1}
  NodeNames = {n1}
  Addresses = {a1}
  NameOf <- OneName
  SpecsOf <- OneSpec
  BadAddresses = {}
  MaxWrites = 3
  Workers = {w1}
  NoKey = NoKey
  NoObject = NoObject
  NoSpec = NoSpec
  NoName = NoName
  NoAddress = NoAddress
PROPERTIES
  ErrorRequeues
