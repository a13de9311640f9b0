------------------------------- MODULE MCLegacy -------------------------------
(***************************************************************************)
(* The folders display/, render/ and convert/, which README.md:67 calls    *)
(* legacy: the video memories (VideoMem), drawing (PixelMem) and the       *)
(* converters (VideoConvert).  They share no state, so that a behaviour is *)
(* one of the three, with the others at rest.                              *)
(***************************************************************************)
EXTENDS VideoMem

CONSTANTS
    Width, Height, SourceWidths, SourceHeights, Colours,    \* see PixelMem
    UIntRange, Bases,
    Levels                                                  \* see VideoConvert

ASSUME LevelsAssumption == Levels \subseteq 0 .. 255

\* Pictures are not empty.
ASSUME DrawingAssumption ==
    /\ Width \in Nat \ {0} /\ Height \in Nat \ {0}
    /\ UIntRange \in Nat \ {0} /\ Bases \subseteq Nat
    /\ SourceWidths \subseteq Nat \ {0} /\ SourceHeights \subseteq Nat \ {0}

VARIABLES
    part,                                                   \* which of the three
    iBpp, base, memory, size, source, drawn,                \* PixelMem
    list, chosen, colours, iPixelFormatIn, iPixelFormatOut, \* VideoConvert
    out, dangling, returned, killed

drawVars == <<iBpp, base, memory, size, source, drawn>>
convertVars ==
    <<list, chosen, colours, iPixelFormatIn, iPixelFormatOut, out, dangling,
      returned, killed>>

Drawing == INSTANCE PixelMem
Converting == INSTANCE VideoConvert

NothingToDraw ==
    /\ iBpp = 8 /\ base = 0 /\ memory = <<>> /\ size = <<1, 1>> /\ source = <<>> /\ drawn = TRUE

NothingToConvert ==
    /\ list = NoneRegistered({}) /\ chosen = NULL /\ colours = <<>>
    /\ iPixelFormatIn = "RGB32" /\ iPixelFormatOut = "RGB32"
    /\ out = <<>> /\ dangling = FALSE /\ returned = 0 /\ killed = FALSE

LegacyInit ==
    /\ Init
    /\ \/ part = "memories" /\ NothingToDraw /\ NothingToConvert
       \/ part = "drawing" /\ Drawing!Init /\ NothingToConvert
       \/ part = "converting" /\ NothingToDraw /\ Converting!Init

UseMemories ==
    part = "memories" /\ Next /\ UNCHANGED <<part, drawVars, convertVars>>

DrawOnce ==
    part = "drawing" /\ Drawing!Next /\ UNCHANGED <<part, vars, convertVars>>

ConvertOne ==
    part = "converting" /\ Converting!Next /\ UNCHANGED <<part, vars, drawVars>>

LegacyNext == UseMemories \/ DrawOnce \/ ConvertOne

LegacySpec == LegacyInit /\ [][LegacyNext]_<<part, vars, drawVars, convertVars>>

-----------------------------------------------------------------------------
\* PixelMem's properties: each drawing function changes the pixels it is told
\* to, to what it is told, and no other; but for ClearVideoMemRegion in memory
\* that an unsigned int cannot address.
DrawnAsNamed == Drawing!DrawnAsNamed

\* What disp_manager.c:463 says of ClearVideoMemRegion in any memory.
RegionCleared == Drawing!RegionCleared

\* VideoConvert's property: a conversion that returns 0 keeps the picture, to
\* the precision of the formats; of YUYV's green nothing is said.
PictureKept == Converting!PictureKept

=============================================================================
