CONSTANTS
  Cores = 8
  Requests <- MCRequests
  MaxOutages = 1
SPECIFICATION Spec
INVARIANTS TypeOK FitsPreallocatedBuffer KeepsUp
PROPERTIES Settles ClosesIn
