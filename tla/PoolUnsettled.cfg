CONSTANTS
  N = 2
  MetricsCap = 1
  Modes <- MCModes
  SettleCoversStart = FALSE
SPECIFICATION Spec
INVARIANTS StopJoinsPool
PROPERTIES StopTerminates StoppedPoolDrains
