SPECIFICATION FairSpec
CONSTANTS
  k1 = k1
  k2 = k2
  x1 = x1
  x2 = x2
  n1 = n1
  n2 = n2
  a1 = a1
  a2 = a2
  Keys = {k1, k2}
  Names = {x1, x2}
  NodeNames = {n1, n2}
  Addresses = {a1, a2}
  NameOf <- OwnName
  SpecsOf <- OwnSpec
  BadAddresses = {}
  MaxWrites = 3
  Workers = {w1, w2}
  NoKey = NoKey
  NoObject = NoObject
  NoSpec = NoSpec
  NoName = NoName
  NoAddress = NoAddress
CONSTRAINT OneProcess
INVARIANTS
  MachineExclusive
PROPERTIES
  JoinsAsSpecified
  CleanDelete
  ImplementsItemQueue
  ImplementsReconciler
  EventuallyQuiet
  HungWorkerIsolated
