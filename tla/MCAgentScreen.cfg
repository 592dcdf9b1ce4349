SPECIFICATION ScreenFairSpec
CONSTANTS
    States = {"idle", "listening", "thinking", "speaking", "error"}
    BlinkTicks = 3
INVARIANT ScreenTypeOK
INVARIANT OneScreen
PROPERTY FaceSettles
PROPERTY EyesOpen
