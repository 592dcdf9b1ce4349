SPECIFICATION FairSpec
CONSTANTS
    h1 = h1
    h2 = h2
    btn = btn
    Handlers <- TwoHandlers
    Button = btn
    NoThread = none
    JobsOf <- CallsAndStreams
    MaxUsers = 1
    MaxUart = 1
    MaxStops = 1
    FaultKinds <- WriteFaults
    MaxFaults = 1
INVARIANT CallTestHolds
PROPERTY LocksReleased
PROPERTY ListenersEnd
CHECK_DEADLOCK FALSE
