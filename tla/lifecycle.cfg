SPECIFICATION FairSpec
CONSTANTS
  Workers = {w1, w2}
  MaxItems = 2
  Types = {KylinNode}
  KylinNode = KylinNode
  Alive = Alive
INVARIANTS
  TypeOK
  NoWorkBeforeSync
  StartRunsAll
PROPERTIES
  EventuallyServes
  SignalEndsProcess
CHECK_DEADLOCK FALSE
