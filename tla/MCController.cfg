CONSTANTS
  JobId = {b1, b2}
  Inputs = {in1}
  NStages = 1
  ReviewStage = 1
  NoJob = NoJob
  ProfileFits = FALSE
SPECIFICATION ControllerSpec
SYMMETRY Symmetry
INVARIANTS QueueStaysSound WorkerStaysSound RecoveryFaithful
PROPERTIES PauseHoldsInHandlers CancelHonoured
