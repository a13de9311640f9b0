SPECIFICATION FfmpegSpec
CONSTANTS
    MaxAttempts = 3
    MaxFrames = 3
    MaxRetry = 5
    EncodeMs = 4
    MaxPushes = 3
    MaxMs = 14
INVARIANTS
    RegistryWhole
    PushFindsItsBackend
    ReturnedMeansDrained
PROPERTIES
    SoftStreamSpec
    PacketStreamSpec
CHECK_DEADLOCK FALSE
