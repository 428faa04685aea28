\* Does a stop reach every scan that is under way?
SPECIFICATION Spec
CONSTANTS
    MaxScans = 2
    MaxStops = 1
    DualBand = TRUE
INVARIANTS StopsAnyScan
CHECK_DEADLOCK FALSE
