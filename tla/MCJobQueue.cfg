CONSTANTS
  JobId = {b1, b2, b3}
  Inputs = {in1, in2}
  NStages = 1
SPECIFICATION Spec
SYMMETRY Symmetry
INVARIANTS OneActive PauseConsistent
PROPERTIES PauseHolds FinishedStaysFinished
