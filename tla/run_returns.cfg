SPECIFICATION Spec
CONSTANTS
  Workers = {w1, w2}
  MaxItems = 2
  Types = {KylinNode}
  KylinNode = KylinNode
  Alive = Alive
INVARIANTS
  RunWaitsForWorkers
CHECK_DEADLOCK FALSE
