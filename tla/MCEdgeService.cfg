SPECIFICATION Spec
CONSTANTS
  Sessions <- MCSessions
  IdOf <- MCIdOf
  Configured <- MCConfigured
  Operators = {o1, o2}
  Sinks = {k1, k2}
  ResultCapacity = 1
  MaxStarts = 2
  MaxCalls = 2
  NoSession = NoSession
  NoId = NoId
SYMMETRY Symmetry
INVARIANTS NothingLeftRunning SinksReady EveryCameraStarted ManagerConsistent
CHECK_DEADLOCK FALSE
