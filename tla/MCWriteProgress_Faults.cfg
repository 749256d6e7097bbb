SPECIFICATION Spec
CONSTANTS
  a = a
  b = b
  Tables = 2
  Partition = {a, b}
  TableOf <- TwoTables
  Stops = {0, 1}
  MaxSeq = 2
  MaxFailures = 1
  MaxRestarts = 1
INVARIANTS
  UndisturbedStatusHonest
  AppliedIsReadable
