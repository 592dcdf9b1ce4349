SPECIFICATION FairSpec
CONSTANTS
    RingSize = 8
    CallLimit = 4
    DrainMax = 4
    PacketLens <- EvenLens
    Rates = {8, 16}
    DefaultRate = 16
    Tags = 4
    MaxUp = 2
    MaxFaults = 1
INVARIANT TypeOK
INVARIANT FlagsAgree
INVARIANT CallBudget
INVARIANT MicAtAnnouncedRate
INVARIANT AlignedPlayback
PROPERTY RingIsQueue
PROPERTY RingDrains
