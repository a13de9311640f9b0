---------------------------- MODULE VideoPipeline ----------------------------
(***************************************************************************)
(* The threads of main.c together: the camera loop and RgaThread           *)
(* (RgaHandoff), the stream pool between RgaThread and PushThread, and the *)
(* infer pool between RgaThread and InferThread (two DmaBufChannels).      *)
(*                                                                         *)
(* What RgaThread does with a camera frame, one step in RgaHandoff, is     *)
(* spread out here: claim a stream buffer, convert to NV12, publish; when  *)
(* an inference is due, claim an infer buffer, convert to RGB888, publish; *)
(* report the frame done.  A conversion may fail.                          *)
(*                                                                         *)
(* Two outcomes are left out because with two buffers in each pool they    *)
(* cannot occur (DmaBufChannel!WriterNeverBlocks): blocking for a stream   *)
(* buffer, and going without an infer buffer.                              *)
(***************************************************************************)
EXTENDS Integers

CONSTANTS
    Buffers, NoBuffer,      \* see RgaHandoff
    MaxFrame                \* bound on g_rga_count

ASSUME PipelineAssumption == NoBuffer \notin Buffers /\ MaxFrame \in Nat

RGA_DMA_BUF_COUNT == 2
INFER_DMA_BUF_COUNT == 2

VARIABLES
    g_exit_flag,                                        \* 0; nothing changes it
    running, queued, cap_pc, tVideoBuf,
    g_rga_job, g_rga_job_pending, g_rga_job_done, job_wait, done_wait,
    rga_pc, raw_buf, conversions,                       \* RgaHandoff
    rga_stage,                                          \* within RgaThread's loop
    infer_due,                                          \* INFER_INTERVAL_MS are over
    stream_state, stream_id, stream_wait,               \* g_stream_dma_pool
    dma_idx, g_rga_count, push_pc, push_idx, pushed,
    infer_state, infer_id, infer_wait,                  \* g_infer_dma_pool
    infer_idx, infer_count, feed_pc, feed_idx, fed

handoffVars == <<running, queued, cap_pc, tVideoBuf, g_rga_job, g_rga_job_pending,
                 g_rga_job_done, job_wait, done_wait, rga_pc, raw_buf, conversions>>
streamVars  == <<stream_state, stream_id, stream_wait, dma_idx, g_rga_count,
                 push_pc, push_idx, pushed>>
inferVars   == <<infer_state, infer_id, infer_wait, infer_idx, infer_count,
                 feed_pc, feed_idx, fed>>
stageVars   == <<rga_stage, infer_due, g_exit_flag>>
vars        == <<handoffVars, stageVars, streamVars, inferVars>>

Handoff == INSTANCE RgaHandoff

\* DmaPoolInit: DmaBufPoolInit with &g_exit_flag, which stays 0.
Stream == INSTANCE DmaBufChannel WITH
    Count <- RGA_DMA_BUF_COUNT, Wait <- TRUE, exit_flag <- g_exit_flag,
    state <- stream_state, frame_id <- stream_id, waiters <- stream_wait,
    wpc <- IF rga_stage = "nv12" THEN "writing" ELSE "idle", widx <- dma_idx,
    rpc <- push_pc, ridx <- push_idx,
    published <- g_rga_count, last_read <- pushed

\* InferDmaPoolInit.
Infer == INSTANCE DmaBufChannel WITH
    Count <- INFER_DMA_BUF_COUNT, Wait <- FALSE, exit_flag <- g_exit_flag,
    state <- infer_state, frame_id <- infer_id, waiters <- infer_wait,
    wpc <- IF rga_stage = "rgb" THEN "writing" ELSE "idle", widx <- infer_idx,
    rpc <- feed_pc, ridx <- feed_idx,
    published <- infer_count, last_read <- fed

\* main up to its loop: the threads are created, the first call of
\* ShouldRunInfer will return 1.
Init ==
    /\ g_exit_flag = FALSE
    /\ rga_stage = "idle"
    /\ infer_due = TRUE
    /\ Handoff!Init
    /\ stream_state = [i \in 0 .. RGA_DMA_BUF_COUNT - 1 |-> "FREE"]
    /\ stream_id = [i \in 0 .. RGA_DMA_BUF_COUNT - 1 |-> 0]
    /\ stream_wait = {}
    /\ dma_idx = 0 /\ g_rga_count = 0
    /\ push_pc = "idle" /\ push_idx = 0 /\ pushed = 0
    /\ infer_state = [i \in 0 .. INFER_DMA_BUF_COUNT - 1 |-> "FREE"]
    /\ infer_id = [i \in 0 .. INFER_DMA_BUF_COUNT - 1 |-> 0]
    /\ infer_wait = {}
    /\ infer_idx = 0 /\ infer_count = 0
    /\ feed_pc = "idle" /\ feed_idx = 0 /\ fed = 0

-----------------------------------------------------------------------------
(* main.                                                                   *)

\* The bound on frames is on the camera, the source of them all.
GetFrame ==
    /\ g_rga_count < MaxFrame
    /\ Handoff!GetFrame
    /\ UNCHANGED <<stageVars, streamVars, inferVars>>

CaptureFails == Handoff!CaptureFails /\ UNCHANGED <<stageVars, streamVars, inferVars>>
CaptureStep  == Handoff!CaptureStep /\ UNCHANGED <<stageVars, streamVars, inferVars>>

-----------------------------------------------------------------------------
(* RgaThread.                                                              *)

TakeJob ==
    /\ Handoff!TakeJob
    /\ rga_stage' = "claim"
    /\ UNCHANGED <<infer_due, g_exit_flag, streamVars, inferVars>>

AwaitJob == Handoff!AwaitJob /\ UNCHANGED <<stageVars, streamVars, inferVars>>

\* DmaBufPoolGetWriteIndex(&g_stream_dma_pool, 1, 1) returns an index.
ClaimStream ==
    /\ running
    /\ rga_stage = "claim"
    /\ rga_stage' = "nv12"
    /\ Stream!BeginWrite
    /\ UNCHANGED <<handoffVars, infer_due, g_exit_flag, inferVars>>

\* RgaYuyvToNv12 succeeds: g_rga_count++ and DmaBufPoolPublish.
ConvertNv12 ==
    /\ running
    /\ rga_stage = "nv12"
    /\ rga_stage' = "sample"
    /\ g_rga_count' = g_rga_count + 1
    /\ Stream!EndWrite
    /\ UNCHANGED <<handoffVars, infer_due, g_exit_flag, inferVars>>

\* Faulty: the frame is sampled all the same.
FailNv12SamplesAnyway ==
    /\ running
    /\ rga_stage = "nv12"
    /\ rga_stage' = "sample"
    /\ Stream!AbortWrite
    /\ UNCHANGED <<handoffVars, infer_due, g_exit_flag, inferVars>>

\* Faulty: the stream buffer is not released.
FailNv12Leaks ==
    /\ running
    /\ rga_stage = "nv12"
    /\ rga_stage' = "done"
    /\ UNCHANGED <<handoffVars, infer_due, g_exit_flag, streamVars, inferVars>>

\* RgaYuyvToNv12 fails: the frame is not sampled for inference either.
FailNv12 ==
    /\ running
    /\ rga_stage = "nv12"
    /\ rga_stage' = "done"
    /\ Stream!AbortWrite
    /\ UNCHANGED <<handoffVars, infer_due, g_exit_flag, inferVars>>

\* ShouldRunInfer returns 0.
SkipInfer ==
    /\ running
    /\ rga_stage = "sample"
    /\ ~infer_due
    /\ rga_stage' = "done"
    /\ UNCHANGED <<handoffVars, infer_due, g_exit_flag, streamVars, inferVars>>

\* ShouldRunInfer returns 1 and starts a new interval, whatever becomes of the
\* frame; DmaBufPoolGetWriteIndex(&g_infer_dma_pool, 0, 1) returns an index.
ClaimInfer ==
    /\ running
    /\ rga_stage = "sample"
    /\ infer_due
    /\ rga_stage' = "rgb"
    /\ infer_due' = FALSE
    /\ Infer!BeginWrite
    /\ UNCHANGED <<handoffVars, g_exit_flag, streamVars>>

\* RgaYuyvToRgb888Infer succeeds: published under the stream frame's id.
ConvertRgb ==
    /\ running
    /\ rga_stage = "rgb"
    /\ rga_stage' = "done"
    /\ infer_count' = g_rga_count
    /\ Infer!EndWrite
    /\ UNCHANGED <<handoffVars, infer_due, g_exit_flag, streamVars>>

\* Faulty: the infer buffer is not released.
FailRgbLeaks ==
    /\ running
    /\ rga_stage = "rgb"
    /\ rga_stage' = "done"
    /\ UNCHANGED <<handoffVars, infer_due, g_exit_flag, streamVars, inferVars>>

\* RgaYuyvToRgb888Infer fails.
FailRgb ==
    /\ running
    /\ rga_stage = "rgb"
    /\ rga_stage' = "done"
    /\ Infer!AbortWrite
    /\ UNCHANGED <<handoffVars, infer_due, g_exit_flag, streamVars>>

ReportDone ==
    /\ rga_stage = "done"
    /\ rga_stage' = "idle"
    /\ Handoff!ReportDone
    /\ UNCHANGED <<infer_due, g_exit_flag, streamVars, inferVars>>

RgaStep ==
    \/ TakeJob \/ AwaitJob
    \/ ClaimStream \/ ConvertNv12 \/ FailNv12
    \/ SkipInfer \/ ClaimInfer \/ ConvertRgb \/ FailRgb
    \/ ReportDone

-----------------------------------------------------------------------------
\* PushThread: FfmpegStreamPushDma is between a BeginRead and its EndRead.
PushStep ==
    /\ running
    /\ UNCHANGED <<handoffVars, stageVars, inferVars>>
    /\ Stream!ReaderStep

\* InferThread: InferBridgeFeedRgb888Dma is between a BeginRead and its EndRead.
InferStep ==
    /\ running
    /\ UNCHANGED <<handoffVars, stageVars, streamVars>>
    /\ Infer!ReaderStep

\* CLOCK_MONOTONIC moves INFER_INTERVAL_MS on.
IntervalElapses ==
    /\ running
    /\ ~infer_due
    /\ infer_due' = TRUE
    /\ UNCHANGED <<handoffVars, rga_stage, g_exit_flag, streamVars, inferVars>>

SpuriousWakeup ==
    \/ Handoff!SpuriousWakeup /\ UNCHANGED <<stageVars, streamVars, inferVars>>
    \/ /\ running
       /\ UNCHANGED <<handoffVars, stageVars, inferVars>>
       /\ Stream!WakeForNothing
    \/ /\ running
       /\ UNCHANGED <<handoffVars, stageVars, streamVars>>
       /\ Infer!WakeForNothing

Exited == ~running /\ UNCHANGED vars

Next ==
    \/ GetFrame \/ CaptureStep \/ CaptureFails \/ RgaStep
    \/ PushStep \/ InferStep \/ IntervalElapses \/ SpuriousWakeup \/ Exited

Spec == Init /\ [][Next]_vars

\* The camera loop and RgaThread run; the other threads may stop anywhere.
CaptureFairSpec == Spec /\ WF_vars(CaptureStep) /\ WF_vars(RgaStep)

-----------------------------------------------------------------------------
\* Inference sees frames the stream saw: never one whose NV12 conversion
\* failed, never ahead of the stream.
InferFollowsStream ==
    /\ infer_count <= g_rga_count
    /\ rga_stage = "rgb" => infer_count < g_rga_count

\* Seen from one of its pools the pipeline is the channel modelled on its own:
\* what is shown of the channel, that no buffer is in two hands first of all,
\* holds of both pools.
StreamChannelSpec == Stream!Spec

InferChannelSpec == Infer!Spec

\* Under CaptureFairSpec RgaThread always gets to the end of a job, as
\* RgaHandoff assumes: a network that blocks PushThread for ever and an LLM
\* that blocks InferThread for ever do not stop the camera loop, and the camera
\* does not own its buffer during either conversion.
HandoffFairSpec == Handoff!FairSpec

\* If PushThread runs and FfmpegStreamPushDma returns, every frame on offer is
\* pushed or replaced while another one is, though InferThread may be blocked
\* for ever.
StreamKeepsFlowing ==
    WF_vars(PushStep) =>
        (Stream!InState("READY") # {} ~> (push_pc = "reading" \/ ~running))

=============================================================================
