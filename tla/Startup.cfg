SPECIFICATION Spec
CONSTANTS
    NB_BUFFER = 4
    RGA_DMA_BUF_COUNT = 2
    INFER_DMA_BUF_COUNT = 2
    DriverSizes = {1920, 640}
INVARIANTS
    EveryDescriptorOwned
    PollCanReturn
CHECK_DEADLOCK FALSE
