CONSTANTS
  SubFields = 2
  Values = 4
  ForestWidth = 1
  MaxCount = 2
  Count <- MCCount
  ShardNums = {1, 2}
  Capacity = 2
  Reader = {r1, r2}
  Amount = {2}
SPECIFICATION Spec
INVARIANTS
  TypeOK
  ServedRight
PROPERTY
  ImplementsMirror
SYMMETRY ReaderSymmetry
