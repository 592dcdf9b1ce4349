SPECIFICATION Spec
CONSTANTS
    h1 = h1
    h2 = h2
    btn = btn
    Handlers <- TwoHandlers
    Button = btn
    NoThread = none
    JobsOf <- StartStop
    MaxUsers = 1
    MaxUart = 1
    MaxStops = 1
    FaultKinds <- AllFaults
    MaxFaults = 0
INVARIANT CallStopEndsCall
