CONSTANTS
  N = 2
  ChannelCap = 2
  MaxSent = 1
SPECIFICATION Spec
INVARIANTS NoConcurrentMapAccess
