SPECIFICATION FairSpec
CONSTANTS
    Handlers = {h1}
    Reader = reader
    Conns <- Ids
    None = none
    States = {"listening"}
    Lens = {2, 4}
    MaxClients = 2
    RxCap = 2
    MaxCmds = 1
    MaxClicks = 1
    MaxFaults = 1
INVARIANT TypeOK
INVARIANT Undisturbed
PROPERTY Reattaches
PROPERTY CommandsEnd
PROPERTY ButtonHeard
CHECK_DEADLOCK FALSE
