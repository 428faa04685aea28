SPECIFICATION Spec
CONSTANTS
  A = A
  B = B
  eth0 = eth0
  ga = ga
  gb = gb
  gc = gc
  Nothing = Nothing
  NoIface = NoIface
  Requests <- MCRequests
  Resolutions <- MCResolutions
  LocalPort <- MCOwnPorts
  Endpoints = {ga, gb, gc}
  Defaults <- MCDefaults
  EndpointLists = {}
  Params <- MCParams
  Conf <- MCConf
  InterfaceOf <- MCInterfaceOf
  MaxInFlight = 1
  MaxClock = 2
  MaxCalls = 3
PROPERTY AnswerOfTheseParams
CHECK_DEADLOCK FALSE
