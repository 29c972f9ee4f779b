CONSTANTS
  CommandLines <- MCCommandLines
  Workers <- MCWorkers
  MaxSent = 2
SPECIFICATION Spec
INVARIANTS TypeOK NothingLeftAtExit CollectedWhileUsed SteadyRateIsNonNegative
PROPERTIES ReportIsFinal ProgramEnds RateSettles
