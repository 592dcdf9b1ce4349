SPECIFICATION Spec
CONSTANTS
    h1 = h1
    h2 = h2
    btn = btn
    Handlers <- OneHandler
    Button = btn
    NoThread = none
    JobsOf <- Everything
    MaxUsers = 2
    MaxUart = 2
    MaxStops = 1
    FaultKinds <- AllFaults
    MaxFaults = 1
INVARIANT TypeOK
INVARIANT MicAgreement
INVARIANT AtMostOneSlip
INVARIANT StreamsAccounted
