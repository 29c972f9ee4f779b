CONSTANTS
  Conns <- MCConns
  QueueCap = 1
SPECIFICATION Spec
INVARIANTS TypeOK WritesToRegistered RegisteredAreHandled
PROPERTIES GoneClientsLeave StopTerminates ImplementsLifecycle
