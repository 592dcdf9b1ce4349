SPECIFICATION Spec
CONSTANTS
    stream = stream
    call_rx = call_rx
    Listeners <- TwoListeners
    RxListeners = {call_rx}
    QUEUE_MAX = 2
    BATCH = 2
    MaxChunks = 5
INVARIANT TypeOK
PROPERTY ListenersPromised
PROPERTY Flushed
