SPECIFICATION FairSpec
CONSTANTS
  Probes <- ThreePerfMaps
  Modules <- MCModules
  Registering <- MCRegistering
  Maps <- MCMaps
  Owner <- MCOwner
  EventMaps <- MCEventMaps
  HandlerMaps <- MCHandlerMaps
  MapType <- MCMapType
  ErrChanCap = 3
  StopperCap = 1
  BufCap <- SingleCap
  Outputs <- SingleOutputs
  MaxSamples = 1
INVARIANT NoErrorSendBlocks
PROPERTY AcceptedIsSettled
