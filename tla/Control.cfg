CONSTANTS
  ProfileTable <- MCProfileTable
  CustomWorkers <- MCCustomWorkers
  PostedConfigs <- MCPosted
  StartRequests <- MCRequests
  DefaultConfig <- MCDefault
  MaxPools = 3
SPECIFICATION Spec
INVARIANTS TypeOK NoOrphanPool FlagTellsTruth CollectorServesEveryRun OptimizerLostOnlyByFailedInit
PROPERTIES StartUsesCurrentConfig PoolsLiveOnce LoopEndsAfterStop HandlersReturn
