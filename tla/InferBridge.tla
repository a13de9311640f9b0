----------------------------- MODULE InferBridge -----------------------------
(***************************************************************************)
(* The bridge of infer/infer_bridge.c between InferThread and InferLlm: it *)
(* maps the DMA-BUF it is given, keeping one mapping cached, and lets a    *)
(* frame pass when enough of its pixels differ from the frame it compared  *)
(* before.                                                                 *)
(*                                                                         *)
(* The module holds the bridge's state and operations; InferPath has the   *)
(* thread that calls them.  A picture is a function from Pixels to         *)
(* brightness: the three channel differences FrameDiffShouldSend adds up   *)
(* are one difference here.  The size of a mapping is left out: main feeds *)
(* buffers of one size.  The counters serve logging only.                  *)
(***************************************************************************)
EXTENDS Integers, FiniteSets

CONSTANTS
    Pictures,               \* the pictures the camera may show
    Pixels,
    PIXEL_THRESHOLD,        \* INFER_FRAME_DIFF_PIXEL_THRESHOLD
    RATIO_PERCENT,          \* INFER_FRAME_DIFF_RATIO_THRESHOLD * 100
    Torn                    \* a buffer that is not a whole picture

ASSUME PicturesAssumption ==
    /\ Pictures \subseteq [Pixels -> Nat]
    /\ IsFiniteSet(Pixels) /\ Pixels # {}
    /\ PIXEL_THRESHOLD \in Nat /\ RATIO_PERCENT \in 0 .. 100
    /\ Torn \notin Pictures

VARIABLES
    mapped_fd,              \* the buffer mapped_ptr shows, or -1
    prev_rgb, prev_valid    \* the frame compared last

bridgeVars == <<mapped_fd, prev_rgb, prev_valid>>

NoFd == -1

BridgeInit == mapped_fd = NoFd /\ prev_rgb = Torn /\ prev_valid = FALSE

-----------------------------------------------------------------------------
\* Faulty: whatever is mapped is used.
MapDmaOnce(fd) ==
    /\ mapped_fd' = IF mapped_fd # NoFd THEN mapped_fd ELSE fd
    /\ UNCHANGED <<prev_rgb, prev_valid>>

\* InferBridgeMapDma returns the cached mapping, if it is of fd, or a new one.
MapDma(fd) ==
    /\ mapped_fd' = fd
    /\ UNCHANGED <<prev_rgb, prev_valid>>

\* InferBridgeMapDma returns NULL: mmap failed, after the mapping of another
\* buffer was removed.
MapDmaFails(fd) ==
    /\ mapped_fd # fd
    /\ mapped_fd' = NoFd
    /\ UNCHANGED <<prev_rgb, prev_valid>>

AbsDiff(a, b) == IF a > b THEN a - b ELSE b - a

ChangedPixels(cur, prev, threshold) ==
    {p \in Pixels : AbsDiff(cur[p], prev[p]) > threshold}

\* ratio >= percent / 100, in integers: 10% of 224 * 224 pixels is not a whole
\* number of pixels, so rounding of the float quotient decides nothing.
AtLeast(changed, percent) == Cardinality(changed) * 100 >= percent * Cardinality(Pixels)

Changed(cur, prev) == AtLeast(ChangedPixels(cur, prev, PIXEL_THRESHOLD), RATIO_PERCENT)

\* What FrameDiffShouldSend returns.
ShouldSend(rgb) == prev_valid => Changed(rgb, prev_rgb)

\* Faulty: a frame that is dropped does not become the baseline.
SampleKeepsBaseline(rgb) ==
    /\ prev_rgb' = IF ShouldSend(rgb) THEN rgb ELSE prev_rgb
    /\ prev_valid' = TRUE
    /\ UNCHANGED mapped_fd

\* What FrameDiffShouldSend leaves behind: the frame is the next one's
\* baseline, whether it passes or not.
Sample(rgb) ==
    /\ prev_rgb' = rgb
    /\ prev_valid' = TRUE
    /\ UNCHANGED mapped_fd

=============================================================================
