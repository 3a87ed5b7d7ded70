SPECIFICATION FairSpec
CONSTANTS
  u1 = u1
  u2 = u2
  Users = {u1, u2}
  Partitions = {0, 1}
  PartitionOf <- TwoPartitions
  MaxParallelism = 3
  Slide = 1
  Slides = 2
  OutOfOrder = 1
  Kinds <- SomeKinds
  MaxEvents = 4
  MaxBacklog = 1
  MaxCrashes = 1
INVARIANTS TypeOK CountsWindow
PROPERTIES WindowsGoForward WindowsFire
CHECK_DEADLOCK FALSE
