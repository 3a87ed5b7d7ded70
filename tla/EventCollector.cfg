SPECIFICATION SimFairSpec
CONSTANTS
  Slots = {g1, g2}
  Capacity = 1
  MaxEvents = 3
  Total = 3
  Concurrency = 1
INVARIANTS SimTypeOK NoSilentLoss LossesAreCounted ReportAddsUp
PROPERTIES HandlersReturn SimulatorEnds
CHECK_DEADLOCK FALSE
