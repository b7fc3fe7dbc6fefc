SPECIFICATION Spec
CONSTANTS
  Connects <- SomeConnects
  Execs <- SomeExecs
  TcpCloses <- SomeCloses
  Lookups <- SomeLookups
  BpfCalls <- SomeBpfCalls
  Forks <- SomeForks
  Receives <- SomeReceives
  MaxCalls = 2
INVARIANTS FieldsInPlace PayloadLongEnough NumbersShown ConnectReportedOnce
