SPECIFICATION CaptureFairSpec
CONSTANTS
    Buffers = {b1, b2, b3, b4}
    NoBuffer = NoBuffer
    MaxFrame = 3
INVARIANTS
    InferFollowsStream
PROPERTIES
    StreamChannelSpec
    InferChannelSpec
    HandoffFairSpec
    StreamKeepsFlowing
