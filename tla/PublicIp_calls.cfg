SPECIFICATION Spec
CONSTANTS
  A = A
  B = B
  eth0 = eth0
  ga = ga
  gb = gb
  gc = gc
  Nothing = Nothing
  NoIface = NoIface
  Requests <- MCRequests
  Resolutions <- MCResolutions
  LocalPort <- MCLocalPort
  Endpoints = {ga, gb, gc}
  Defaults <- MCDefaults
  EndpointLists <- MCEndpointLists
  Params <- MCParams
  Conf <- MCConf
  InterfaceOf <- MCInterfaceOf
  MaxInFlight = 1
  MaxClock = 2
  MaxCalls = 2
INVARIANT TypeOK
INVARIANT SocketsAccounted
INVARIANT FirstAnswerKept
PROPERTY VerdictSound
PROPERTY PromiseKept
PROPERTY BusServed
CHECK_DEADLOCK FALSE
