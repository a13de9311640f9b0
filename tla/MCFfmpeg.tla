------------------------------- MODULE MCFfmpeg -------------------------------
(***************************************************************************)
(* The folder FFmpeg/: the manager with its backends (StreamManager), and  *)
(* the RTMP backend once it is initialised (RtmpStream).  They share no    *)
(* state: FfmpegStreamPushDma calls rtmp_PushDma with the manager's mutex  *)
(* held and looks at nothing else.  So a behaviour is one of the two, with *)
(* the other at rest.                                                      *)
(***************************************************************************)
EXTENDS RtmpStream, StreamManager

VARIABLE part               \* which of the two

FfmpegInit ==
    /\ part \in {"rtmp", "manager"}
    /\ RtmpInit /\ Init
    /\ part = "rtmp" => iFmtIn = "V4L2_PIX_FMT_NV12"

StreamByRtmp == part = "rtmp" /\ RtmpNext /\ UNCHANGED <<part, vars>>

Manage == part = "manager" /\ Next /\ UNCHANGED <<part, rtmpVars>>

FfmpegNext == StreamByRtmp \/ Manage

FfmpegSpec == FfmpegInit /\ [][FfmpegNext]_<<part, vars, rtmpVars>>

=============================================================================
