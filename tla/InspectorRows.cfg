SPECIFICATION Spec
CONSTANTS
  MaxPid = 3
  MaxProcess = 4
  Odd = {3}
INVARIANTS
  TypeOK
  RowsRight
