SPECIFICATION LegacySpec
CONSTANTS
    MaxNum = 1
    PagesWithID = {1}
    PagesWithoutID = {2}
    Width = 2
    Height = 2
    SourceWidths = {1}
    SourceHeights = {1}
    Colours = {16744512, 789}
    UIntRange = 64
    Bases = {128}
    Levels = {0, 255}
PROPERTY
    RegionCleared
CHECK_DEADLOCK FALSE
