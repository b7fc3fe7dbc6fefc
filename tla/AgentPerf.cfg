SPECIFICATION FairSpec
CONSTANTS
  Probes <- OnePerfMap
  Modules <- MCModules
  Registering <- MCRegistering
  Maps <- MCMaps
  Owner <- MCOwner
  EventMaps <- MCEventMaps
  HandlerMaps <- MCHandlerMaps
  MapType <- MCMapType
  ErrChanCap = 8
  StopperCap = 1
  BufCap <- OverflowCap
  Outputs <- OverflowOutputs
  MaxSamples = 4
INVARIANTS TypeOK OneFate AtMostOneLateReport
PROPERTIES ImplementsStream AcceptedIsSettled
