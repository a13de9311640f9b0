SPECIFICATION FairSpec
CONSTANTS
    FRAME_NUM = 3
    MaxFrame = 8
INVARIANTS
    EncoderLlmExclusive
    NoJobDropped
    JobInOrder
    NoMissedSignal
    ModelsOutliveThread
PROPERTIES
    ExitReturns
    JobIsAnswered
