SPECIFICATION Spec
CONSTANTS
    Clients <- TwoClients
    Nobody <- NoNumber
    MaxPipe = 1
    MaxFaults = 1
CHECK_DEADLOCK FALSE
INVARIANT TypeOK
INVARIANT NoCallLeft
PROPERTY OwnCallOnly
PROPERTY VoiceOfCaller
PROPERTY HandlersEnd
