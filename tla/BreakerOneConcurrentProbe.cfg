SPECIFICATION HSpec
CONSTANTS
  Goroutines = {g1, g2, g3, g4}
  Threshold = 1
  ResetTimeout = 2
  ClockMoves = FALSE
SYMMETRY Slots
INVARIANTS OneConcurrentProbe
