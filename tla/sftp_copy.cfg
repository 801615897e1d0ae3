SPECIFICATION Spec
CONSTANTS
  Bytes = {a, b}
  MaxLen = 7
  BufSize = 3
  Zero = Zero
INVARIANTS
  TypeOK
  ArrivesPadded
CHECK_DEADLOCK FALSE
