SPECIFICATION Spec
CONSTANTS
    Rates = {8000, 16000}
    MaxWire = 2
    MaxChunks = 3
INVARIANT RecordingWhole
INVARIANT WavRate
PROPERTY HeaderRate
