SPECIFICATION FairSpec
CONSTANTS
  i1 = i1
  i2 = i2
  t1 = t1
  t2 = t2
  Items = {i1, i2}
  Tasks = {t1, t2}
  TaskOf <- TwoTasks
  HashOf <- OwnHashes
  SeedOf <- Seeds
  None = None
  MaxEvents = 2
  MaxCrashes = 1
INVARIANTS TypeOK MappedBitWasWritten ExcludedByOwnEvent
PROPERTIES Converges
