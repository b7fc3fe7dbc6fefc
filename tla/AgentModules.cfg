SPECIFICATION FairSpec
CONSTANTS
  Probes <- TwoModules
  Modules <- MCModules
  Registering <- MCRegistering
  Maps <- MCMaps
  Owner <- MCOwner
  EventMaps <- MCEventMaps
  HandlerMaps <- MCHandlerMaps
  MapType <- MCMapType
  ErrChanCap = 8
  StopperCap = 1
  BufCap <- MixedCap
  Outputs <- MixedOutputs
  MaxSamples = 4
INVARIANT OneFate
PROPERTIES SignalEndsProcess AcceptedIsSettled
