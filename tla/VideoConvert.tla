---------------------------- MODULE VideoConvert ----------------------------
(***************************************************************************)
(* The converters of convert/: their registration and choice, the lookup   *)
(* tables of color.c, the YUYV, MJPEG and RGB565 converters, and the       *)
(* memory of the picture they make.                                        *)
(*                                                                         *)
(* The client is external (the pipeline converts with the RGA instead): it *)
(* sets the format and iBpp of the output picture, converts frames into    *)
(* it, after an error as well, and calls ConvertExit.  libjpeg is          *)
(* external: it decodes every pixel as it was, or fails.  malloc may fail. *)
(* What is done to freed memory is undefined: the process is killed, or    *)
(* goes on.                                                                *)
(*                                                                         *)
(* A frame is two pixels, what one YUYV word holds.  A camera's YUYV frame *)
(* is made with color.c's own RGB24_TO_Y, YB_TO_U and YR_TO_V.             *)
(***************************************************************************)
EXTENDS Integers, Sequences, Registry

CONSTANTS
    Levels                  \* the values of red, green and blue that are tried, of 0 .. 255

Converters == {"yuv2rgb", "mjpeg2rgb", "rgb2rgb"}
Formats == {"YUYV", "MJPEG", "RGB565", "RGB32"}

VARIABLES
    list,                   \* g_ptVideoConvertHead and every ptNext
    chosen,                 \* the converter the client got
    colours,                \* of the frame's two pixels, as <<r, g, b>>
    iPixelFormatIn, iPixelFormatOut,
    out,                    \* the pixels in the memory at aucPixelDatas; <<>> if there is none
    dangling,               \* is aucPixelDatas a pointer to memory that was freed?
    returned,               \* by the last Convert: 0, or -1
    killed                  \* was the process?

formats == <<colours, iPixelFormatIn, iPixelFormatOut>>
picture == <<out, dangling, returned, killed>>
vars == <<list, chosen, formats, picture>>

\* The second pixel is the first one, or a brighter one.
Init ==
    /\ list = NoneRegistered(Converters)
    /\ chosen = NULL
    /\ \E rgb \in Levels \X Levels \X Levels, more \in {0, 20} :
          /\ \A i \in 1 .. 3 : rgb[i] + more <= 255
          /\ colours = <<rgb, [i \in 1 .. 3 |-> rgb[i] + more]>>
    /\ iPixelFormatIn \in Formats
    /\ iPixelFormatOut \in Formats
    /\ out = <<>>
    /\ dangling = FALSE
    /\ returned = 0
    /\ killed = FALSE

\* C's division of integers.
Quotient(a, b) == IF a >= 0 THEN a \div b ELSE -((-a) \div b)

\* initLut: what each table holds for a byte.
LutYr(i) == Quotient(i * 299, 1000)
LutYg(i) == Quotient(i * 587, 1000)
LutYb(i) == Quotient(i * 114, 1000)
LutVr(i) == Quotient(i * 711, 1000)
LutUb(i) == Quotient(i * 560, 1000)
LutVrY(i) == 128 - Quotient(i * 711, 1000)
LutUbY(i) == 128 - Quotient(i * 560, 1000)
LutRv(i) == Quotient((i - 128) * 1402, 1000)
LutBu(i) == Quotient((i - 128) * 1772, 1000)
LutGu(i) == Quotient((128 - i) * 714, 1000)
LutGv(i) == Quotient((128 - i) * 344, 1000)

\* The encoding sums are returned as bytes ...
RGB24_TO_Y(r, g, b) == (LutYr(r) + LutYg(g) + LutYb(b)) % 256
YR_TO_V(r, y) == (LutVr(r) + LutVrY(y)) % 256
YB_TO_U(b, y) == (LutUb(b) + LutUbY(y)) % 256

CLIP(color) == IF color > 255 THEN 255 ELSE IF color < 0 THEN 0 ELSE color

\* Faulty: returns the sum as a byte, as the encoding functions do.
R_FROMYV_Unclipped(y, v) == (y + LutRv(v)) % 256

\* ... the decoding sums are clipped.
R_FROMYV(y, v) == CLIP(y + LutRv(v))

G_FROMYUV(y, u, v) == CLIP(y + LutGu(u) + LutGv(v))

B_FROMYU(y, u) == CLIP(y + LutBu(u))

Rgb32(r, g, b) == r * 2 ^ 16 + g * 2 ^ 8 + b
Rgb565(r, g, b) == (r \div 8) * 2 ^ 11 + (g \div 4) * 2 ^ 5 + b \div 8

Stored(r, g, b) == IF iPixelFormatOut = "RGB565" THEN Rgb565(r, g, b) ELSE Rgb32(r, g, b)

isSupportYuv2Rgb == iPixelFormatIn = "YUYV" /\ iPixelFormatOut \in {"RGB565", "RGB32"}
isSupportMjpeg2Rgb == iPixelFormatIn = "MJPEG" /\ iPixelFormatOut \in {"RGB565", "RGB32"}
isSupportRgb2Rgb == iPixelFormatIn = "RGB565" /\ iPixelFormatOut \in {"RGB565", "RGB32"}

VideoConvertInit ==
    /\ Registered(list) = {}
    /\ list' = Register(Register(Register(list, "yuv2rgb"), "mjpeg2rgb"), "rgb2rgb")
    /\ UNCHANGED <<chosen, formats, picture>>

GetVideoConvertForFormats ==
    /\ Registered(list) # {}
    /\ chosen = NULL
    /\ chosen' = FirstNode(list, {c \in Converters :
                     \/ c = "yuv2rgb" /\ isSupportYuv2Rgb
                     \/ c = "mjpeg2rgb" /\ isSupportMjpeg2Rgb
                     \/ c = "rgb2rgb" /\ isSupportRgb2Rgb})
    /\ chosen' # NULL
    /\ UNCHANGED <<list, formats, picture>>

\* Pixels are written to the memory there is, or to a new one.  None of the
\* converters asks whether malloc gave one, nor whether the memory was freed.
Write(pixels) ==
    /\ returned' = 0
    /\ UNCHANGED dangling
    /\ \/ ~dangling /\ out' = pixels /\ UNCHANGED killed
       \/ ~dangling /\ out = <<>> /\ killed' = TRUE /\ UNCHANGED out
       \/ dangling /\ killed' \in BOOLEAN /\ UNCHANGED out

\* Pyuv422torgb565 and Pyuv422torgb32: the two pixels share U and V.
Yuv2RgbConvert ==
    LET Y(k) == RGB24_TO_Y(colours[k][1], colours[k][2], colours[k][3])
        U == YB_TO_U(colours[1][3], Y(1))
        V == YR_TO_V(colours[1][1], Y(1))
    IN  /\ chosen = "yuv2rgb"
        /\ Write([k \in 1 .. 2 |->
                     Stored(R_FROMYV(Y(k), V), G_FROMYUV(Y(k), U, V), B_FROMYU(Y(k), U))])

\* What libjpeg does on an error, before there is a memory or after: the
\* memory is freed, a second time if it was, and the pointer stays.
MyErrorExit ==
    /\ returned' = -1
    /\ out' = <<>>
    /\ dangling' \in IF out = <<>> /\ ~dangling THEN BOOLEAN ELSE {TRUE}
    /\ killed' \in IF dangling THEN BOOLEAN ELSE {FALSE}

\* No memory for a line: the call returns without changing the picture.
NoLineBuffer == returned' = -1 /\ UNCHANGED <<out, dangling, killed>>

\* CovertOneLine packs the lines of libjpeg's.
Mjpeg2RgbConvert ==
    /\ chosen = "mjpeg2rgb"
    /\ \/ Write([k \in 1 .. 2 |-> Stored(colours[k][1], colours[k][2], colours[k][3])])
       \/ MyErrorExit
       \/ NoLineBuffer

\* The frame's own words are copied or widened.
Rgb2RgbConvert ==
    LET Word(k) == Rgb565(colours[k][1], colours[k][2], colours[k][3])
        r(k) == Word(k) \div 2 ^ 11
        g(k) == (Word(k) \div 2 ^ 5) % 64
        b(k) == Word(k) % 32
    IN  /\ chosen = "rgb2rgb"
        /\ Write([k \in 1 .. 2 |-> IF iPixelFormatOut = "RGB565" THEN Word(k)
                                   ELSE Rgb32(r(k) * 8, g(k) * 4, b(k) * 8)])

Convert ==
    /\ ~killed
    /\ Yuv2RgbConvert \/ Mjpeg2RgbConvert \/ Rgb2RgbConvert
    /\ UNCHANGED <<list, chosen, formats>>

\* Memory that was freed is freed again.
ConvertExit ==
    /\ ~killed
    /\ out # <<>> \/ dangling
    /\ out' = <<>>
    /\ dangling' = FALSE
    /\ killed' \in IF dangling THEN BOOLEAN ELSE {FALSE}
    /\ UNCHANGED <<list, chosen, formats, returned>>

Next == VideoConvertInit \/ GetVideoConvertForFormats \/ Convert \/ ConvertExit

Spec == Init /\ [][Next]_vars

-----------------------------------------------------------------------------

\* Red, green and blue of an output pixel, the low bits of RGB565 zero.
Channels(pixel) ==
    IF iPixelFormatOut = "RGB565"
    THEN <<(pixel \div 2 ^ 11) * 8, ((pixel \div 2 ^ 5) % 64) * 4, (pixel % 32) * 8>>
    ELSE <<pixel \div 2 ^ 16, (pixel \div 2 ^ 8) % 256, pixel % 256>>

\* How far off a channel may be: the bits RGB565 has no room for, and for YUYV
\* what the tables round, 4 in a pixel of its own and 2 more in the second
\* one, whose U and V are the first one's.
Lost(channel) ==
    LET packed == IF "RGB565" \notin {iPixelFormatIn, iPixelFormatOut} THEN 0
                  ELSE IF channel = 2 THEN 3 ELSE 7
    IN  packed + IF iPixelFormatIn = "YUYV" THEN 6 ELSE 0

\* Whatever converter the formats select, and whatever failed before, a picture
\* that a Convert said it made is the one that went in, to the precision of the
\* formats: no channel wraps around a byte, is swapped, or comes from the other
\* pixel.  For YUYV that is red and blue; of green nothing is claimed, as
\* color.c:88-89 have its two coefficients the other way round.  Nor is it of
\* what is written to memory after it was freed.
PictureKept ==
    returned = 0 =>
        \A k \in DOMAIN out, channel \in 1 .. 3 :
            ~(iPixelFormatIn = "YUYV" /\ channel = 2) =>
                Channels(out[k])[channel] - colours[k][channel]
                    \in -Lost(channel) .. Lost(channel)

=============================================================================
