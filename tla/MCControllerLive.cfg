CONSTANTS
  JobId = {b1, b2}
  Inputs = {in1}
  NStages = 2
  ReviewStage = 1
  NoJob = NoJob
  ProfileFits = TRUE
SPECIFICATION LiveSpec
PROPERTIES WorkersComeAndGo QueueAdvances
