SPECIFICATION InferFairSpec
CONSTANTS
    Pictures <- MCPictures
    Pixels <- MCPixels
    PIXEL_THRESHOLD = 1
    RATIO_PERCENT = 50
    Torn = Torn
    FRAME_NUM = 2
    MaxFrame = 5
INVARIANTS
    EncodesTheFrameItNames
PROPERTIES
    PassesOnlyChanges
    LlmFairSpec
    FrameIsReleased
