CONSTANTS
  ProfileTable <- MCProfileTable
  CustomWorkers <- MCCustomWorkers
  PostedConfigs <- MCPosted
  StartRequests <- MCRequests
  DefaultConfig <- MCDefault
  MaxPools = 3
SPECIFICATION Spec
INVARIANTS LoopRunsWhileRunning
