SPECIFICATION FairSpec
CONSTANTS
  Replicas = {a, b}
  Clients = {p}
  Numbers = {1, 2, 3}
  Wanted <- AskedNumbers
  SeedSize = 3
  Job = Job
  MaxFaults = 1
  WorkerCount = 2
  Total = 3
  Opening <- MCOpening
  NoKey = NoKey
  NoOrder = NoOrder
  NoReplica = NoReplica
INVARIANTS SeedWhole CreatedOnce ReportAddsUp AlarmHasCause
PROPERTIES Finishes EveryReplicaStarts
CHECK_DEADLOCK FALSE
