SPECIFICATION Spec
CONSTANTS
    Pictures <- MCPictures
    Pixels <- MCPixels
    PIXEL_THRESHOLD = 80
    RATIO_PERCENT = 10
    Torn = Torn
    FRAME_NUM = 2
    MaxFrame = 2
PROPERTIES
    DropsBelowThreePercent
