SPECIFICATION Spec
CONSTANTS
  Callers = {iarm}
  IrThread = ir
  Networks <- MCNetworks
  Airs <- MCAirs
  Legacy <- MCLegacy
  LnfSSID = "lnf"
  MaxCalls = 2
  MaxFaults = 2
  MaxInputs = 3
INVARIANTS TypeOK StoredWhenNew ClearedStaysCleared
PROPERTIES Reconnects WpsReturns
CHECK_DEADLOCK FALSE
