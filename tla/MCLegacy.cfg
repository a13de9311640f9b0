SPECIFICATION LegacySpec
CONSTANTS
    MaxNum = 2
    PagesWithID = {1}
    PagesWithoutID = {2, 3}
    Width = 3
    Height = 2
    SourceWidths = {1, 2, 4}
    SourceHeights = {1, 2, 3}
    Colours = {16744512, 789}
    UIntRange = 64
    Bases = {8, 56, 128}
    Levels = {0, 7, 64, 82, 128, 223, 235, 255}
INVARIANTS
    DeviceMemKept
    PictureKept
PROPERTIES
    PageShown
    DrawnAsNamed
CHECK_DEADLOCK FALSE
