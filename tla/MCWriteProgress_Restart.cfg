SPECIFICATION Spec
CONSTANTS
  a = a
  b = b
  Tables = 2
  Partition = {a, b}
  TableOf <- TwoTables
  Stops = {1}
  MaxSeq = 3
  MaxFailures = 0
  MaxRestarts = 1
INVARIANTS
  StatusHonestBetweenWrites
