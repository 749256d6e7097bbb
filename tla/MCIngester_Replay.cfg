SPECIFICATION Spec
CONSTANTS
  k1 = k1
  k2 = k2
  t1 = t1
  t2 = t2
  p1 = p1
  p2 = p2
  Sequencer = {k1}
  Table = {t1, t2}
  Partition = {p1, p2}
  SequencerOf <- OneSequencer
  TableOf <- TwoTables
  Sizes = {1}
  Stops = {0}
  PauseSize = 2
  MemThreshold = 1
  PartSize = 5
  MaxSeq = 3
  MaxCrashes = 1
  MaxFailures = 0
SYMMETRY Renaming
INVARIANTS
  TypeOK
  Recoverable
  NothingLost
  CoveredOnce
PROPERTIES
  MinUnpersistedNeverRetreats
  ImplementsDurableIngest
