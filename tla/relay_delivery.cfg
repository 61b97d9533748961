SPECIFICATION FairSpec
CONSTANTS
  a = a
  b = b
  e1 = e1
  e2 = e2
  Replicas = {a, b}
  Events = {e1, e2}
  Created <- PairCreated
  BatchSize = 2
  MaxBatches = 2
  NoReplica = NoReplica
  MaxFaults = 1
PROPERTIES KeepsPromise DrainsEnd EventuallyPublished
INVARIANTS BatchesDisjoint DuplicatesNeedFaults
