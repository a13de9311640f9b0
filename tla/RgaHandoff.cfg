SPECIFICATION FairSpec
CONSTANTS
    Buffers = {b1, b2, b3, b4}
    NoBuffer = NoBuffer
INVARIANTS
    CameraBufferStable
    ConvertedOnce
    NoMissedSignal
PROPERTIES
    FrameReturns
