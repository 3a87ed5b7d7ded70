SPECIFICATION Spec
CONSTANTS
  i1 = i1
  i2 = i2
  t1 = t1
  t2 = t2
  Items = {i1, i2}
  Tasks = {t1, t2}
  TaskOf <- TwoTasks
  HashOf <- OwnHashes
  SeedOf <- Seeds
  None = None
  MaxEvents = 1
  MaxCrashes = 0
INVARIANTS SetBitMeansOutOfStock
