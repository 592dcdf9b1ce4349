SPECIFICATION Spec
CONSTANTS
    t1 = t1
    t2 = t2
    Threads = {t1, t2}
    NoPacket = NoPacket
    Packets <- SomePackets
    ByteXor <- MCByteXor
    SYNC_0 = 170
    SYNC_1 = 85
    MAX_PAYLOAD = 4
    Noise <- SomeNoise
    MaxDamage = 2
SYMMETRY Swap
INVARIANT TypeOK
INVARIANT Exact
