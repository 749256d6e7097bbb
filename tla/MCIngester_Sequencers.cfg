SPECIFICATION Spec
CONSTANTS
  k1 = k1
  k2 = k2
  t1 = t1
  t2 = t2
  p1 = p1
  p2 = p2
  Sequencer = {k1, k2}
  Table = {t1}
  Partition = {p1, p2}
  SequencerOf <- TwoSequencers
  TableOf <- OneTable
  Sizes = {1}
  Stops = {}
  PauseSize = 2
  MemThreshold = 1
  PartSize = 5
  MaxSeq = 3
  MaxCrashes = 0
  MaxFailures = 0
INVARIANTS
  IndInv
  BytesAccounted
PROPERTIES
  MinUnpersistedNeverRetreats
