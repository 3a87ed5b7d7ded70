SPECIFICATION FairSpec
CONSTANTS
  sess = sess
  nosession = nosession
  p1 = p1
  p2 = p2
  t1 = t1
  t2 = t2
  Sessions = {sess, nosession}
  Partitions = {p1, p2}
  PartitionsOf <- UserPartitions
  Tasks = {t1, t2}
  TaskOf <- TwoTasks
  TTL = 2
  MaxEvents = 3
  MaxCrashes = 1
INVARIANTS TypeOK UnlimitedIsExplained
PROPERTIES DroppedWhenIdle RunsOn
