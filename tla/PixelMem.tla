------------------------------ MODULE PixelMem ------------------------------
(***************************************************************************)
(* The functions that draw into pixel memory: FBShowPixel and              *)
(* FBCleanScreen of display/fb.c, ClearVideoMem and ClearVideoMemRegion of *)
(* display/disp_manager.c, PicMerge and PicMergeRegion of render/merge.c   *)
(* and PicZoom of render/zoom.c.  The memory is bytes in a line, at 8, 16  *)
(* or 32 bits per pixel, without padding; colours are 0x00RRGGBB.  Words   *)
(* have their low byte first.                                              *)
(*                                                                         *)
(* The callers are external (the program draws nothing any more).  Their   *)
(* areas lie inside the pictures, and both pictures have the same iBpp:    *)
(* of the areas PicMerge and PicMergeRegion compare the sizes or the       *)
(* starts only, and PicMergeRegion does not compare iBpp.                  *)
(***************************************************************************)
EXTENDS Integers

CONSTANTS
    Width, Height,          \* of the memory, in pixels
    SourceWidths, SourceHeights,    \* of the picture merged or zoomed
    Colours,                \* 0x00RRGGBB
    UIntRange,              \* how many values an unsigned int has
    Bases                   \* the addresses a memory may be at

VARIABLES
    iBpp,
    base,                   \* aucPixelDatas itself, an address of 64 bits
    memory,                 \* aucPixelDatas, or pucDispMem, by byte
    size, source,           \* the size of the other picture, and its bytes
    drawn                   \* bound: one operation is carried out

vars == <<iBpp, base, memory, size, source, drawn>>

Bytes == iBpp \div 8

iLineBytes == Width * Bytes
sourceLineBytes == size[1] * Bytes

\* Every byte of the two pictures differs from every other, so that one
\* operation on each tells whatever it mixes up.
Init ==
    /\ iBpp \in {8, 16, 32}
    /\ base \in Bases
    /\ memory = [a \in 0 .. Width * Height * (iBpp \div 8) - 1 |-> 128 + a]
    /\ size \in SourceWidths \X SourceHeights
    /\ source = [a \in 0 .. size[1] * size[2] * (iBpp \div 8) - 1 |-> a + 1]
    /\ drawn = FALSE

\* Byte k of what one pixel of a colour is stored as: the low byte at 8 bits,
\* 5, 6 and 5 bits of red, green and blue at 16, the colour at 32.
PixelByte(dwColor, k) ==
    LET iRed   == (dwColor \div 2 ^ 19) % 32
        iGreen == (dwColor \div 2 ^ 10) % 64
        iBlue  == (dwColor \div 2 ^ 3) % 32
        stored == IF iBpp = 16 THEN iRed * 2 ^ 11 + iGreen * 2 ^ 5 + iBlue ELSE dwColor
    IN  (stored \div 256 ^ k) % 256

\* Where rows start, as byte addresses within the memory, if a pointer goes
\* from one to the next ...
Rows(start, rows) == [row \in 0 .. rows - 1 |-> start + row * iLineBytes]

\* ... and if the pointer is an unsigned int each time a line is added to it.
TruncatedRows(start, rows) ==
    [row \in 0 .. rows - 1 |->
        IF row = 0 THEN start ELSE ((base + start + row * iLineBytes) % UIntRange) - base]

\* Fill so many pixels from each of the addresses at.  What is outside the
\* memory is some other memory, or none and the process is killed.
FillRows(at, pixels, dwColor) ==
    memory' = [a \in DOMAIN memory |->
        IF \E row \in DOMAIN at : a - at[row] \in 0 .. pixels * Bytes - 1
        THEN PixelByte(dwColor, a % Bytes)
        ELSE memory[a]]

\* Copy rows of so many bytes, from address src of the source to address dst.
CopyRows(dst, src, rows, bytes) ==
    LET Row(a) == (a - dst) \div iLineBytes
        Column(a) == (a - dst) % iLineBytes
        Copied(a) == a >= dst /\ Row(a) < rows /\ Column(a) < bytes
    IN  memory' = [a \in DOMAIN memory |->
            IF Copied(a) THEN source[src + Row(a) * sourceLineBytes + Column(a)]
            ELSE memory[a]]

Operation == ~drawn /\ drawn' = TRUE /\ UNCHANGED <<iBpp, base, size, source>>

\* ClearVideoMem, and FBCleanScreen for the framebuffer's memory.
ClearVideoMem(dwColor) == Operation /\ FillRows(Rows(0, Height), Width, dwColor)

\* The rows of a region: the pointers to 16 and 32 bits are truncated.
RegionRows(left, top, bottom) ==
    LET start == top * iLineBytes + left * Bytes
        rows == bottom - top + 1
    IN  IF iBpp = 8 THEN Rows(start, rows) ELSE TruncatedRows(start, rows)

\* Faulty: the right edge is left out.
ClearsOneColumnLess(left, top, right, bottom, dwColor) ==
    /\ Operation
    /\ FillRows(RegionRows(left, top, bottom), right - left, dwColor)

\* ptLayout names the corners, both inside the area.
ClearVideoMemRegion(left, top, right, bottom, dwColor) ==
    /\ Operation
    /\ FillRows(RegionRows(left, top, bottom), right - left + 1, dwColor)

\* A pixel outside the screen is refused.
FBShowPixel(iX, iY, dwColor) ==
    /\ iX < Width /\ iY < Height
    /\ Operation
    /\ FillRows(Rows(iLineBytes * iY + Bytes * iX, 1), 1, dwColor)

PicMerge(iX, iY) ==
    /\ size[1] <= Width /\ size[2] <= Height
    /\ Operation
    /\ CopyRows(iY * iLineBytes + iX * Bytes, 0, size[2], sourceLineBytes)

PicMergeRegion(newX, newY, oldX, oldY, iWidth, iHeight) ==
    /\ newX < size[1] /\ newY < size[2]
    /\ oldX < Width /\ oldY < Height
    /\ Operation
    /\ CopyRows(oldY * iLineBytes + oldX * Bytes, newY * sourceLineBytes + newX * Bytes,
                iHeight, iWidth * Bytes)

\* Each pixel is the one of the source at the same place, rounded down.
PicZoom ==
    /\ Operation
    /\ memory' = [a \in DOMAIN memory |->
           LET x == (a % iLineBytes) \div Bytes
               y == a \div iLineBytes
               dwSrcX == (x * size[1]) \div Width
               dwSrcY == (y * size[2]) \div Height
           IN  source[dwSrcY * sourceLineBytes + dwSrcX * Bytes + (a % Bytes)]]

\* The areas inside both pictures.
Areas(w, h) ==
    {r \in (0 .. w - 1) \X (0 .. h - 1) \X (0 .. w - 1) \X (0 .. h - 1) :
        r[1] <= r[3] /\ r[2] <= r[4]}

Merges ==
    {r \in (0 .. size[1] - 1) \X (0 .. size[2] - 1) \X (0 .. Width - 1) \X (0 .. Height - 1)
           \X (1 .. Width) \X (1 .. Height) :
        /\ r[1] + r[5] <= size[1] /\ r[2] + r[6] <= size[2]
        /\ r[3] + r[5] <= Width /\ r[4] + r[6] <= Height}

Next ==
    \/ \E c \in Colours : ClearVideoMem(c)
    \/ \E c \in Colours, r \in Areas(Width, Height) :
           ClearVideoMemRegion(r[1], r[2], r[3], r[4], c)
    \/ \E c \in Colours, x \in 0 .. Width, y \in 0 .. Height : FBShowPixel(x, y, c)
    \/ \E x \in 0 .. Width - size[1], y \in 0 .. Height - size[2] : PicMerge(x, y)
    \/ \E r \in Merges : PicMergeRegion(r[1], r[2], r[3], r[4], r[5], r[6])
    \/ PicZoom

Spec == Init /\ [][Next]_vars

-----------------------------------------------------------------------------

\* The pixel at <<x, y>> of a picture, as the bytes it is stored in.
Pixel(bytes, width, p) ==
    [k \in 0 .. Bytes - 1 |-> bytes[(p[2] * width + p[1]) * Bytes + k]]

Points == (0 .. Width - 1) \X (0 .. Height - 1)

Now(p) == Pixel(memory, Width, p)
Later(p) == Pixel(memory', Width, p)
OfSource(x, y) == Pixel(source, size[1], <<x, y>>)

Filled(area, dwColor) ==
    \A p \in Points :
        Later(p) = IF p \in area THEN [k \in 0 .. Bytes - 1 |-> PixelByte(dwColor, k)]
                   ELSE Now(p)

\* The pixel at (x + i, y + j) is the source's at (sx + i, sy + j).
Placed(x, y, sx, sy, w, h) ==
    \A p \in Points :
        Later(p) = IF p[1] - x \in 0 .. w - 1 /\ p[2] - y \in 0 .. h - 1
                   THEN OfSource(sx + p[1] - x, sy + p[2] - y)
                   ELSE Now(p)

\* Nearest neighbour: the source's pixel below the corner of this one.
Scaled ==
    \A p \in Points :
        \E x \in 0 .. size[1] - 1, y \in 0 .. size[2] - 1 :
            /\ x * Width <= p[1] * size[1] /\ p[1] * size[1] < (x + 1) * Width
            /\ y * Height <= p[2] * size[2] /\ p[2] * size[2] < (y + 1) * Height
            /\ Later(p) = OfSource(x, y)

\* The whole memory is at addresses an unsigned int can hold.
Reachable == base + Width * Height * Bytes <= UIntRange

\* Seen as a picture of pixels, each function changes the pixels its arguments
\* name, to what they name, and no other: at every depth the byte arithmetic
\* with strides of two pictures neither shears a row nor touches a neighbour.
\* Of ClearVideoMemRegion that is so at 8 bits, for a single row, and in
\* memories below the range of an unsigned int; see RegionCleared.
DrawnAsNamed ==
    [][Operation =>
       /\ \A c \in Colours :
             /\ ClearVideoMem(c) => Filled(Points, c)
             /\ \A r \in Areas(Width, Height) :
                   ClearVideoMemRegion(r[1], r[2], r[3], r[4], c)
                       /\ (iBpp = 8 \/ r[2] = r[4] \/ Reachable) =>
                           Filled((r[1] .. r[3]) \X (r[2] .. r[4]), c)
             /\ \A p \in Points : FBShowPixel(p[1], p[2], c) => Filled({p}, c)
       /\ \A x \in 0 .. Width - size[1], y \in 0 .. Height - size[2] :
             PicMerge(x, y) => Placed(x, y, 0, 0, size[1], size[2])
       /\ \A r \in Merges :
             PicMergeRegion(r[1], r[2], r[3], r[4], r[5], r[6]) =>
                 Placed(r[3], r[4], r[1], r[2], r[5], r[6])
       /\ PicZoom => Scaled]_vars

\* What the comment at disp_manager.c:463 says of ClearVideoMemRegion: the
\* region is set to the colour, wherever the memory is.  It is not: with 64-bit
\* addresses the rows after the first one miss the memory at 16 and 32 bits.
RegionCleared ==
    [][\A c \in Colours, r \in Areas(Width, Height) :
          ClearVideoMemRegion(r[1], r[2], r[3], r[4], c) =>
              Filled((r[1] .. r[3]) \X (r[2] .. r[4]), c)]_vars

=============================================================================
