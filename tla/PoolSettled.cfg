CONSTANTS
  N = 2
  MetricsCap = 4
  Modes <- MCModes
  SettleCoversStart = TRUE
SPECIFICATION Spec
INVARIANTS TypeOK StopReleasesWorkers NoSendOnClosedSocket
PROPERTIES NoAddDuringWait ImplementsLifecycle
