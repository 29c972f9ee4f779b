CONSTANTS
  N = 2
  MetricsCap = 4
  Modes <- MCModes
  SettleCoversStart = FALSE
SPECIFICATION Spec
INVARIANTS StopReleasesWorkers
