CONSTANTS
  Cores = 8
  Requests <- LargeBatchRequests
  MaxOutages = 1
SPECIFICATION Spec
PROPERTIES Settles
