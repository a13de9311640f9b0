--------------------------- MODULE StreamManager ---------------------------
(***************************************************************************)
(* FFmpeg/Ffmpeg_stream.c with its three backends: registration at every   *)
(* FfmpegStreamInit, the choice of a backend, what each backend's Init     *)
(* acquires step by step and leaves behind when a step fails, pushing      *)
(* through the software encoders of rtsp_stream.c and srt_stream.c, and    *)
(* Exit.  Pushing through rtmp_stream.c is the module RtmpStream.          *)
(*                                                                         *)
(* Every function here runs with the manager's mutex held, so each is one  *)
(* action, but for a push, which is one action per packet it receives.     *)
(* The caller tries FfmpegStreamInit until it returns 0, pushes from then  *)
(* on, and calls FfmpegStreamExit at most once: Exit destroys the mutex.   *)
(* (main gives up after the first failure and never calls Exit.)           *)
(*                                                                         *)
(* libavformat, libavcodec and MPP are external.  The software encoder     *)
(* gives its packets in the order of the frames, as many and as late as it *)
(* likes.  Any allocation may fail, also one the backends do not check.    *)
(***************************************************************************)
EXTENDS Integers, Sequences, Registry

CONSTANTS
    MaxAttempts,            \* bound: calls of FfmpegStreamInit
    MaxFrames               \* bound: frames pushed

ASSUME StreamAssumption == MaxAttempts \in Nat /\ MaxFrames \in Nat

Backends == {"rtmp_stream", "rtsp_stream", "srt_stream"}
SoftBackends == {"rtsp_stream", "srt_stream"}

\* iStreamType, and iFmtIn: V4L2 codes, and the numbers srt_stream.c defines.
StreamTypes == {"RTMP", "RTSP", "SRT", "UDP"}
Formats == {"V4L2_PIX_FMT_NV12", "PIXEL_FMT_NV12", "PIXEL_FMT_YUYV422"}

VARIABLES
    list,                   \* g_ptFfmpegStream and every ptNext
    selected,               \* g_ptSelected
    iFmtIn,                 \* of the last FfmpegStreamInit
    held,                   \* what each backend's pointers hold
    caller,                 \* "new", "failed", "ready", "gone" or "killed"
    attempts,               \* calls of FfmpegStreamInit
    pushed,                 \* frames pushed to a software backend
    g_pts, queue,           \* its next timestamp; the frames in its encoder
    receiving,              \* is a push in its receive loop?
    sent                    \* history: the last packet written

softVars == <<pushed, g_pts, queue, receiving, sent>>
vars == <<list, selected, iFmtIn, held, caller, attempts, softVars>>

Init ==
    /\ list = NoneRegistered(Backends)
    /\ selected = NULL
    /\ iFmtIn \in Formats
    /\ held = [b \in Backends |-> {}]
    /\ caller = "new"
    /\ attempts = 0
    /\ pushed = 0
    /\ g_pts = 0
    /\ queue = <<>>
    /\ receiving = FALSE
    /\ sent = [frame |-> 0, pts |-> -1]

\* The stream type decides, the format is not looked at.
rtmp_isSupport(type) == type = "RTMP"
rtsp_isSupport(type) == type = "RTSP"
srt_isSupport(type) == type = "SRT"

isSupport(b, type) ==
    \/ b = "rtmp_stream" /\ rtmp_isSupport(type)
    \/ b = "rtsp_stream" /\ rtsp_isSupport(type)
    \/ b = "srt_stream" /\ srt_isSupport(type)

GetStream(l, type) == FirstNode(l, {b \in Backends : isSupport(b, type)})

\* The formats with which a backend's Init can succeed.
Accepts(b, fmt) ==
    \/ b = "rtmp_stream" /\ fmt = "V4L2_PIX_FMT_NV12"
    \/ b = "rtsp_stream"
    \/ b = "srt_stream" /\ fmt \in {"PIXEL_FMT_NV12", "PIXEL_FMT_YUYV422"}

\* What each Init acquires, in order ("format" is its check of iFmtIn).
mpp_encoder_initSteps == <<"ctx", "mpp_init", "cfg", "get_cfg", "set_cfg", "buf_grp">>

rtmp_InitSteps ==
    <<"format">> \o mpp_encoder_initSteps \o <<"ofmt", "st", "extradata", "pb", "header">>

\* The RTSP muxer has AVFMT_NOFILE and opens its connection in write_header.
rtsp_InitSteps ==
    <<"ofmt", "codec", "st", "cc", "open", "header", "frame", "image", "sws">>

srt_InitSteps ==
    <<"ofmt", "codec", "st", "cc", "open", "pb", "header", "nv12_buf", "frame", "format">>

InitSteps == [rtmp_stream |-> rtmp_InitSteps, rtsp_stream |-> rtsp_InitSteps,
              srt_stream |-> srt_InitSteps]

\* Allocations of which Init ignores the result, and uses it at once: without
\* one the process is killed.
UsedAtOnce == {"cc", "frame"}

\* Allocations of which Init ignores the result, and returns 0.
Unnoticed == {"image", "sws", "nv12_buf"}

Passes(b, fmt, step) == step = "format" => Accepts(b, fmt)

MayFail(b, fmt, step) == step \notin Unnoticed /\ (step = "format" => ~Accepts(b, fmt))

\* The first k steps of b's Init.
Steps(b, k) == {InitSteps[b][i] : i \in 1 .. k}

\* Faulty: nobody looks at what avformat_write_header returns.
InitBackendIgnoresHeader(b, fmt) ==
    \E k \in 0 .. Len(InitSteps[b]) :
        /\ \A i \in 1 .. k : Passes(b, fmt, InitSteps[b][i])
        /\ k < Len(InitSteps[b]) => MayFail(b, fmt, InitSteps[b][k + 1])
        /\ held' = [held EXCEPT ![b] = @ \union Steps(b, k)]
        /\ caller' = IF k = Len(InitSteps[b]) \/ InitSteps[b][k + 1] = "header"
                     THEN "ready" ELSE "failed"

\* A backend's Init gets through its first k steps, some of them with a NULL it
\* does not notice.  A failure it notices returns -1 at once: what was acquired,
\* now or in an earlier attempt, stays in the pointers, and the manager keeps
\* the backend selected.
InitBackend(b, fmt) ==
    \E k \in 0 .. Len(InitSteps[b]) :
        /\ \A i \in 1 .. k : Passes(b, fmt, InitSteps[b][i])
        /\ k < Len(InitSteps[b]) => MayFail(b, fmt, InitSteps[b][k + 1])
        /\ \E lost \in SUBSET (Unnoticed \intersect Steps(b, k)) :
              LET failed == IF k < Len(InitSteps[b]) THEN {InitSteps[b][k + 1]} ELSE {}
              IN  held' = [held EXCEPT ![b] = ((@ \ failed) \union Steps(b, k)) \ lost]
        /\ caller' = IF k = Len(InitSteps[b]) THEN "ready"
                     ELSE IF InitSteps[b][k + 1] \in UsedAtOnce THEN "killed"
                     ELSE "failed"

\* RtmpStreamRegister, RtspStreamRegister and SrtStreamRegister, at every
\* FfmpegStreamInit anew.
RegisterAll(l) ==
    Register(Register(Register(l, "rtmp_stream"), "rtsp_stream"), "srt_stream")

FfmpegStreamInit ==
    /\ caller \in {"new", "failed"}
    /\ attempts < MaxAttempts
    /\ attempts' = attempts + 1
    /\ list' = RegisterAll(list)
    /\ iFmtIn' \in Formats
    /\ \E type \in StreamTypes :
          /\ selected' = GetStream(list', type)
          /\ IF selected' = NULL
             THEN caller' = "failed" /\ UNCHANGED held
             ELSE InitBackend(selected', iFmtIn')
    /\ UNCHANGED softVars

\* What a push, or the packets it writes, dereference.
Used ==
    [rtmp_stream |-> {"ctx", "mpp_init", "set_cfg", "buf_grp", "ofmt", "st", "pb", "header"},
     rtsp_stream |-> {"sws", "frame", "image", "cc", "open", "st", "ofmt", "header"},
     srt_stream |-> {"nv12_buf", "format", "frame", "cc", "open", "st", "ofmt", "pb", "header"}]

\* What of it Init did not get.
Missing == Used[selected] \ held[selected]

\* srt_Push copies an NV12 frame before anything else.
CopiesToNull ==
    selected = "srt_stream" /\ iFmtIn = "PIXEL_FMT_NV12" /\ "nv12_buf" \in Missing

\* Faulty: every frame gets the same timestamp.
PushForgetsPts ==
    /\ caller = "ready"
    /\ ~receiving
    /\ pushed < MaxFrames
    /\ selected \in SoftBackends
    /\ pushed' = pushed + 1
    /\ \/ queue' = Append(queue, [frame |-> pushed + 1, pts |-> g_pts]) /\ receiving' = TRUE
       \/ UNCHANGED <<queue, receiving>>
    /\ UNCHANGED <<list, selected, iFmtIn, held, caller, attempts, g_pts, sent>>

\* rtsp_Push or srt_Push up to the receive loop: the conversion to NV12,
\* which only srt_stream.c checks, and avcodec_send_frame, after the
\* timestamp was taken.  (rtmp_Push only returns -1.)
FfmpegStreamPush ==
    /\ caller = "ready"
    /\ ~receiving
    /\ pushed < MaxFrames
    /\ selected \in SoftBackends
    /\ ~CopiesToNull
    /\ pushed' = pushed + 1
    /\ \/ /\ selected = "srt_stream" /\ iFmtIn # "PIXEL_FMT_NV12"
          /\ UNCHANGED <<g_pts, queue, receiving>>
       \/ /\ g_pts' = g_pts + 1
          /\ \/ UNCHANGED <<queue, receiving>>
             \/ /\ queue' = Append(queue, [frame |-> pushed + 1, pts |-> g_pts])
                /\ receiving' = TRUE
    /\ UNCHANGED <<list, selected, iFmtIn, held, caller, attempts, sent>>

\* rtsp_Push or srt_Push uses a NULL that Init left.  swscale, the encoder and
\* the RGA may also refuse it, which is a FfmpegStreamPush.
PushIsKilled ==
    /\ caller = "ready"
    /\ ~receiving
    /\ pushed < MaxFrames
    /\ selected \in SoftBackends
    /\ Missing # {}
    /\ caller' = "killed"
    /\ UNCHANGED <<list, selected, iFmtIn, held, attempts, softVars>>

\* avcodec_receive_packet gives a packet; av_interleaved_write_frame, whose
\* result is ignored, writes it or loses it.
ReceivePacket ==
    /\ receiving
    /\ queue # <<>>
    /\ queue' = Tail(queue)
    /\ sent' \in {sent, Head(queue)}
    /\ UNCHANGED <<list, selected, iFmtIn, held, caller, attempts, pushed, g_pts, receiving>>

\* It has none, or fails: the push ends.
ReceiveNothing ==
    /\ receiving
    /\ receiving' = FALSE
    /\ UNCHANGED <<list, selected, iFmtIn, held, caller, attempts, pushed, g_pts, queue, sent>>

\* What each Exit releases.
rtmp_Exit == {"header", "cfg", "buf_grp", "ctx", "mpp_init", "pb", "ofmt", "st", "extradata"}
rtsp_Exit == {"header", "frame", "image", "cc", "open", "sws", "ofmt", "st"}
srt_Exit == {"header", "nv12_buf", "frame", "cc", "open", "pb", "ofmt", "st"}

Released == [rtmp_stream |-> rtmp_Exit, rtsp_stream |-> rtsp_Exit, srt_stream |-> srt_Exit]

FfmpegStreamExit ==
    /\ caller = "ready"
    /\ ~receiving
    /\ held' = [held EXCEPT ![selected] = @ \ Released[selected]]
    /\ selected' = NULL
    /\ caller' = "gone"
    /\ UNCHANGED <<list, iFmtIn, attempts, softVars>>

Next ==
    \/ FfmpegStreamInit \/ FfmpegStreamPush \/ PushIsKilled
    \/ ReceivePacket \/ ReceiveNothing \/ FfmpegStreamExit

Spec == Init /\ [][Next]_vars

-----------------------------------------------------------------------------

\* However often the static nodes are registered again, which cuts the list
\* short in between, every initialisation ends with a list that has all three
\* backends in order and that a loop over it can leave.  (RegisterFfmpegStream,
\* called three times by every FfmpegStreamInit.)
RegistryWhole ==
    caller # "new" =>
        /\ Ends(list)
        /\ list.head = "rtmp_stream"
        /\ list.next["rtmp_stream"] = "rtsp_stream"
        /\ list.next["rtsp_stream"] = "srt_stream"

\* After whatever failed attempts, also with other backends or formats, a
\* caller that was told 0 pushes into a backend that has all a push uses but
\* for the three allocations of the software backends that Init never looks
\* at: the picture and the scaler of rtsp_stream.c, the buffer of srt_stream.c.
\* The hardware backend, the one main uses, lacks nothing.  (The Init functions,
\* and g_ptSelected, which stays set when Init fails.)
PushFindsItsBackend ==
    caller = "ready" =>
        /\ selected \in Backends
        /\ Missing \subseteq Unnoticed
        /\ selected = "rtmp_stream" => Missing = {}

Stream == INSTANCE PacketStream WITH offered <- pushed, last <- sent

\* The software backends promise what the hardware one does: packets in the
\* order of the frames, with increasing timestamps, whatever fails.
\* (rtsp_Push and srt_Push: g_pts and the receive loop.)
SoftStreamSpec == Stream!Spec

=============================================================================
