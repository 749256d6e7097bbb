SPECIFICATION Spec
CONSTANTS
  a = a
  b = b
  Tables = 2
  Partition = {a, b}
  TableOf <- TwoTables
  Stops = {0}
  MaxSeq = 3
  MaxFailures = 0
  MaxRestarts = 0
INVARIANTS
  DurableMeansUnprocessed
