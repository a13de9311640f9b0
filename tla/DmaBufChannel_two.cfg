SPECIFICATION FairSpec
CONSTANTS
    Count = 2
    Wait = TRUE
    MaxFrame = 4
INVARIANTS
    TypeOK
    BuffersOwned
    FrameHeldStill
    OfferIsNewest
    WriterNeverBlocks
PROPERTIES
    OfferIsAnswered
    MailboxSpec
CHECK_DEADLOCK FALSE
