SPECIFICATION Spec
CONSTANTS
  Connects <- PortConnects
  Execs <- SomeExecs
  TcpCloses <- SomeCloses
  Lookups <- SomeLookups
  BpfCalls <- SomeBpfCalls
  Forks <- SomeForks
  Receives <- SomeReceives
  MaxCalls = 2
INVARIANT OtherSocketsOnly
