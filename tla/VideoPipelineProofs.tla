------------------------- MODULE VideoPipelineProofs -------------------------
(***************************************************************************)
(* Proofs that the pipeline implements the hand-over and both channels, so *)
(* that what is proved of each on its own holds of the threads together.   *)
(*                                                                         *)
(* The proofs of the parts are instantiated with the pipeline's variables  *)
(* and their lemmas used: the invariant of the pipeline is the three       *)
(* invariants and what ties rga_stage to them.                             *)
(***************************************************************************)
EXTENDS VideoPipeline, TLAPS

\* What is proved of the three parts, about the pipeline's variables.
HandoffProofs == INSTANCE RgaHandoffProofs

StreamProofs == INSTANCE DmaBufChannelProofs WITH
    Count <- RGA_DMA_BUF_COUNT, Wait <- TRUE, exit_flag <- g_exit_flag,
    state <- stream_state, frame_id <- stream_id, waiters <- stream_wait,
    wpc <- IF rga_stage = "nv12" THEN "writing" ELSE "idle", widx <- dma_idx,
    rpc <- push_pc, ridx <- push_idx,
    published <- g_rga_count, last_read <- pushed

InferProofs == INSTANCE DmaBufChannelProofs WITH
    Count <- INFER_DMA_BUF_COUNT, Wait <- FALSE, exit_flag <- g_exit_flag,
    state <- infer_state, frame_id <- infer_id, waiters <- infer_wait,
    wpc <- IF rga_stage = "rgb" THEN "writing" ELSE "idle", widx <- infer_idx,
    rpc <- feed_pc, ridx <- feed_idx,
    published <- infer_count, last_read <- fed

\* Where RgaThread is, and how far inference may be at that point.
Stages ==
    /\ rga_stage \in {"idle", "claim", "nv12", "sample", "rgb", "done"}
    /\ rga_pc = "idle" <=> rga_stage = "idle"
    /\ infer_count <= g_rga_count
    /\ rga_stage \in {"sample", "rgb"} => infer_count < g_rga_count

-----------------------------------------------------------------------------
(* Each step of the pipeline is a step of each part, or none.              *)

\* Of the hand-over between main and RgaThread,
LEMMA HandoffStep == Stages /\ [Next]_vars => [Handoff!Next]_(Handoff!vars)
<1> SUFFICES ASSUME Stages, [Next]_vars PROVE [Handoff!Next]_(Handoff!vars)
  OBVIOUS
<1>1. ASSUME UNCHANGED handoffVars PROVE UNCHANGED Handoff!vars
  BY <1>1 DEF handoffVars, Handoff!vars, Handoff!capVars, Handoff!jobVars, Handoff!rgaVars
<1>2. CASE GetFrame
  BY <1>2 DEF GetFrame, Handoff!Next
<1>3. CASE CaptureStep
  BY <1>3 DEF CaptureStep, Handoff!Next
<1>4. CASE CaptureFails
  BY <1>4 DEF CaptureFails, Handoff!Next
<1>5. CASE TakeJob \/ AwaitJob \/ ReportDone
  BY <1>5 DEF TakeJob, AwaitJob, ReportDone, Handoff!Next, Handoff!RgaStep
<1>6. CASE ClaimStream \/ ConvertNv12 \/ FailNv12 \/ SkipInfer \/ ClaimInfer
           \/ ConvertRgb \/ FailRgb
  BY <1>6, <1>1 DEF ClaimStream, ConvertNv12, FailNv12, SkipInfer, ClaimInfer,
     ConvertRgb, FailRgb
<1>7. CASE PushStep \/ InferStep \/ IntervalElapses
  BY <1>7, <1>1 DEF PushStep, InferStep, IntervalElapses
<1>8. CASE SpuriousWakeup
  BY <1>8, <1>1 DEF SpuriousWakeup, Handoff!Next
<1>9. CASE Exited \/ UNCHANGED vars
  BY <1>9, <1>1 DEF Exited, vars
<1> QED
  BY <1>2, <1>3, <1>4, <1>5, <1>6, <1>7, <1>8, <1>9 DEF Next, RgaStep

\* of the channel from RgaThread to PushThread,
LEMMA StreamStep == Stages /\ [Next]_vars => [Stream!Next]_(Stream!vars)
<1> SUFFICES ASSUME Stages, [Next]_vars PROVE [Stream!Next]_(Stream!vars)
  OBVIOUS
<1>1. ASSUME UNCHANGED <<streamVars, g_exit_flag>>,
             (rga_stage = "nv12") <=> (rga_stage' = "nv12")
      PROVE  UNCHANGED Stream!vars
  BY <1>1 DEF streamVars, Stream!vars, Stream!poolVars, Stream!writerVars,
     Stream!readerVars
<1>2. CASE GetFrame \/ CaptureStep \/ CaptureFails
  BY <1>2, <1>1 DEF GetFrame, CaptureStep, CaptureFails, stageVars
<1>3. CASE TakeJob
  <2>1. rga_stage = "idle" /\ rga_stage' = "claim"
    BY <1>3 DEF TakeJob, Handoff!TakeJob, Stages
  <2> QED
    BY <1>3, <2>1, <1>1 DEF TakeJob
<1>4. CASE AwaitJob
  BY <1>4, <1>1 DEF AwaitJob, stageVars
<1>5. CASE ClaimStream
  BY <1>5 DEF ClaimStream, Stream!Next, Stream!WriterStep
<1>6. CASE ConvertNv12
  BY <1>6 DEF ConvertNv12, Stream!Next, Stream!WriterStep
<1>7. CASE FailNv12
  BY <1>7 DEF FailNv12, Stream!Next, Stream!WriterStep
<1>8. CASE SkipInfer \/ ClaimInfer \/ ConvertRgb \/ FailRgb \/ ReportDone
  BY <1>8, <1>1 DEF SkipInfer, ClaimInfer, ConvertRgb, FailRgb, ReportDone
<1>9. CASE PushStep
  BY <1>9 DEF PushStep, Stream!Next
<1>10. CASE InferStep \/ IntervalElapses
  BY <1>10, <1>1 DEF InferStep, IntervalElapses, stageVars
<1>11. CASE SpuriousWakeup
  BY <1>11, <1>1 DEF SpuriousWakeup, stageVars, Stream!Next
<1>12. CASE Exited \/ UNCHANGED vars
  BY <1>12, <1>1 DEF Exited, vars, stageVars
<1> QED
  BY <1>2, <1>3, <1>4, <1>5, <1>6, <1>7, <1>8, <1>9, <1>10, <1>11, <1>12
     DEF Next, RgaStep

\* and of the channel from RgaThread to InferThread.
LEMMA InferStepMaps == Stages /\ [Next]_vars => [Infer!Next]_(Infer!vars)
<1> SUFFICES ASSUME Stages, [Next]_vars PROVE [Infer!Next]_(Infer!vars)
  OBVIOUS
<1>1. ASSUME UNCHANGED <<inferVars, g_exit_flag>>,
             (rga_stage = "rgb") <=> (rga_stage' = "rgb")
      PROVE  UNCHANGED Infer!vars
  BY <1>1 DEF inferVars, Infer!vars, Infer!poolVars, Infer!writerVars,
     Infer!readerVars
<1>2. CASE GetFrame \/ CaptureStep \/ CaptureFails
  BY <1>2, <1>1 DEF GetFrame, CaptureStep, CaptureFails, stageVars
<1>3. CASE TakeJob
  <2>1. rga_stage = "idle" /\ rga_stage' = "claim"
    BY <1>3 DEF TakeJob, Handoff!TakeJob, Stages
  <2> QED
    BY <1>3, <2>1, <1>1 DEF TakeJob
<1>4. CASE AwaitJob
  BY <1>4, <1>1 DEF AwaitJob, stageVars
<1>5. CASE ClaimStream \/ ConvertNv12 \/ FailNv12 \/ SkipInfer \/ ReportDone
  BY <1>5, <1>1 DEF ClaimStream, ConvertNv12, FailNv12, SkipInfer, ReportDone
<1>6. CASE ClaimInfer
  BY <1>6 DEF ClaimInfer, Infer!Next, Infer!WriterStep
<1>7. CASE ConvertRgb
  BY <1>7 DEF ConvertRgb, Infer!Next, Infer!WriterStep
<1>8. CASE FailRgb
  BY <1>8 DEF FailRgb, Infer!Next, Infer!WriterStep
<1>9. CASE PushStep \/ IntervalElapses
  BY <1>9, <1>1 DEF PushStep, IntervalElapses, stageVars
<1>10. CASE InferStep
  BY <1>10 DEF InferStep, Infer!Next
<1>11. CASE SpuriousWakeup
  BY <1>11, <1>1 DEF SpuriousWakeup, stageVars, Infer!Next
<1>12. CASE Exited \/ UNCHANGED vars
  BY <1>12, <1>1 DEF Exited, vars, stageVars
<1> QED
  BY <1>2, <1>3, <1>4, <1>5, <1>6, <1>7, <1>8, <1>9, <1>10, <1>11, <1>12
     DEF Next, RgaStep

-----------------------------------------------------------------------------
(* An instance of a proof module defines every operator a second time.     *)

\* The hand-over's actions, seen directly and through its proofs, are the same,
LEMMA SameHandoff ==
    /\ Handoff!Init <=> HandoffProofs!Init
    /\ [Handoff!Next]_(Handoff!vars) <=> [HandoffProofs!Next]_(HandoffProofs!vars)
BY DEF Handoff!Init, HandoffProofs!Init, Handoff!Next, HandoffProofs!Next,
   Handoff!vars, HandoffProofs!vars, Handoff!capVars, HandoffProofs!capVars,
   Handoff!jobVars, HandoffProofs!jobVars, Handoff!rgaVars,
   HandoffProofs!rgaVars, Handoff!GetFrame, HandoffProofs!GetFrame,
   Handoff!CaptureStep, HandoffProofs!CaptureStep, Handoff!SubmitJob,
   HandoffProofs!SubmitJob, Handoff!AwaitDone, HandoffProofs!AwaitDone,
   Handoff!PutFrame, HandoffProofs!PutFrame, Handoff!CaptureFails,
   HandoffProofs!CaptureFails, Handoff!RgaStep, HandoffProofs!RgaStep,
   Handoff!TakeJob, HandoffProofs!TakeJob, Handoff!AwaitJob,
   HandoffProofs!AwaitJob, Handoff!ReportDone, HandoffProofs!ReportDone,
   Handoff!SpuriousWakeup, HandoffProofs!SpuriousWakeup, Handoff!Exited,
   HandoffProofs!Exited

\* and so are the stream channel's
LEMMA SameStream ==
    /\ Stream!Init <=> StreamProofs!Init
    /\ [Stream!Next]_(Stream!vars) <=> [StreamProofs!Next]_(StreamProofs!vars)
BY DEF Stream!Init, StreamProofs!Init, Stream!Next, StreamProofs!Next,
   Stream!WriterStep, StreamProofs!WriterStep, Stream!ReaderStep,
   StreamProofs!ReaderStep, Stream!vars, StreamProofs!vars, Stream!BeginWrite,
   StreamProofs!BeginWrite, Stream!BlockWrite, StreamProofs!BlockWrite,
   Stream!RefuseWrite, StreamProofs!RefuseWrite, Stream!EndWrite,
   StreamProofs!EndWrite, Stream!AbortWrite, StreamProofs!AbortWrite,
   Stream!BeginRead, StreamProofs!BeginRead, Stream!BlockRead,
   StreamProofs!BlockRead, Stream!StopRead, StreamProofs!StopRead,
   Stream!EndRead, StreamProofs!EndRead, Stream!RequestExit,
   StreamProofs!RequestExit, Stream!ShutDown, StreamProofs!ShutDown,
   Stream!WakeForNothing, StreamProofs!WakeForNothing, Stream!GetWriteIndex,
   StreamProofs!GetWriteIndex, Stream!WaitWriteIndex,
   StreamProofs!WaitWriteIndex, Stream!NoWriteIndex, StreamProofs!NoWriteIndex,
   Stream!Publish, StreamProofs!Publish, Stream!ReleaseIndex,
   StreamProofs!ReleaseIndex, Stream!GetReadIndex, StreamProofs!GetReadIndex,
   Stream!WaitReadIndex, StreamProofs!WaitReadIndex, Stream!NoReadIndex,
   StreamProofs!NoReadIndex, Stream!WakeAll, StreamProofs!WakeAll,
   Stream!SpuriousWakeup, StreamProofs!SpuriousWakeup, Stream!WriteCandidate,
   StreamProofs!WriteCandidate, Stream!NoWriteCandidate,
   StreamProofs!NoWriteCandidate, Stream!IsFirst, StreamProofs!IsFirst,
   Stream!InState, StreamProofs!InState, Stream!Signal, StreamProofs!Signal,
   Stream!CondWait, StreamProofs!CondWait, Stream!PoolInit,
   StreamProofs!PoolInit, Stream!Idx, StreamProofs!Idx, Stream!Writer,
   StreamProofs!Writer, Stream!Reader, StreamProofs!Reader, Stream!poolVars,
   StreamProofs!poolVars, Stream!writerVars, StreamProofs!writerVars,
   Stream!readerVars, StreamProofs!readerVars, Stream!DMA_BUF_FREE,
   StreamProofs!DMA_BUF_FREE, Stream!DMA_BUF_WRITING,
   StreamProofs!DMA_BUF_WRITING, Stream!DMA_BUF_READY,
   StreamProofs!DMA_BUF_READY, Stream!DMA_BUF_READING,
   StreamProofs!DMA_BUF_READING

\* and the infer channel's.
LEMMA SameInfer ==
    /\ Infer!Init <=> InferProofs!Init
    /\ [Infer!Next]_(Infer!vars) <=> [InferProofs!Next]_(InferProofs!vars)
BY DEF Infer!Init, InferProofs!Init, Infer!Next, InferProofs!Next,
   Infer!WriterStep, InferProofs!WriterStep, Infer!ReaderStep,
   InferProofs!ReaderStep, Infer!vars, InferProofs!vars, Infer!BeginWrite,
   InferProofs!BeginWrite, Infer!BlockWrite, InferProofs!BlockWrite,
   Infer!RefuseWrite, InferProofs!RefuseWrite, Infer!EndWrite,
   InferProofs!EndWrite, Infer!AbortWrite, InferProofs!AbortWrite,
   Infer!BeginRead, InferProofs!BeginRead, Infer!BlockRead,
   InferProofs!BlockRead, Infer!StopRead, InferProofs!StopRead, Infer!EndRead,
   InferProofs!EndRead, Infer!RequestExit, InferProofs!RequestExit,
   Infer!ShutDown, InferProofs!ShutDown, Infer!WakeForNothing,
   InferProofs!WakeForNothing, Infer!GetWriteIndex, InferProofs!GetWriteIndex,
   Infer!WaitWriteIndex, InferProofs!WaitWriteIndex, Infer!NoWriteIndex,
   InferProofs!NoWriteIndex, Infer!Publish, InferProofs!Publish,
   Infer!ReleaseIndex, InferProofs!ReleaseIndex, Infer!GetReadIndex,
   InferProofs!GetReadIndex, Infer!WaitReadIndex, InferProofs!WaitReadIndex,
   Infer!NoReadIndex, InferProofs!NoReadIndex, Infer!WakeAll,
   InferProofs!WakeAll, Infer!SpuriousWakeup, InferProofs!SpuriousWakeup,
   Infer!WriteCandidate, InferProofs!WriteCandidate, Infer!NoWriteCandidate,
   InferProofs!NoWriteCandidate, Infer!IsFirst, InferProofs!IsFirst,
   Infer!InState, InferProofs!InState, Infer!Signal, InferProofs!Signal,
   Infer!CondWait, InferProofs!CondWait, Infer!PoolInit, InferProofs!PoolInit,
   Infer!Idx, InferProofs!Idx, Infer!Writer, InferProofs!Writer, Infer!Reader,
   InferProofs!Reader, Infer!poolVars, InferProofs!poolVars, Infer!writerVars,
   InferProofs!writerVars, Infer!readerVars, InferProofs!readerVars,
   Infer!DMA_BUF_FREE, InferProofs!DMA_BUF_FREE, Infer!DMA_BUF_WRITING,
   InferProofs!DMA_BUF_WRITING, Infer!DMA_BUF_READY, InferProofs!DMA_BUF_READY,
   Infer!DMA_BUF_READING, InferProofs!DMA_BUF_READING

-----------------------------------------------------------------------------
\* The assumptions of the parts.
LEMMA PartsAssumptions ==
    /\ NoBuffer \notin Buffers
    /\ RGA_DMA_BUF_COUNT \in Nat \ {0}
    /\ INFER_DMA_BUF_COUNT \in Nat \ {0}
    /\ MaxFrame \in Nat
BY PipelineAssumption DEF RGA_DMA_BUF_COUNT, INFER_DMA_BUF_COUNT

\* The invariants of the three parts and RgaThread's place among them.
PipelineInv ==
    /\ Stages
    /\ HandoffProofs!HandoffInv
    /\ StreamProofs!ChannelInv
    /\ InferProofs!ChannelInv

\* The pipeline begins where each part begins.
LEMMA PartsInit == Init => Handoff!Init /\ Stream!Init /\ Infer!Init
BY DEF Init, Stream!Init, Stream!PoolInit, Stream!Idx, Stream!DMA_BUF_FREE,
   Infer!Init, Infer!PoolInit, Infer!Idx, Infer!DMA_BUF_FREE

\* The invariant holds initially,
LEMMA InitInv == Init => PipelineInv
<1> SUFFICES ASSUME Init PROVE PipelineInv
  OBVIOUS
<1>1. Stages
  BY DEF Init, Handoff!Init, Stages
<1>2. HandoffProofs!HandoffInv
  BY PartsInit, SameHandoff, HandoffProofs!InitInv, PartsAssumptions
<1>3. StreamProofs!ChannelInv
  BY PartsInit, SameStream, StreamProofs!InitInv, PartsAssumptions
<1>4. InferProofs!ChannelInv
  BY PartsInit, SameInfer, InferProofs!InitInv, PartsAssumptions
<1> QED
  BY <1>1, <1>2, <1>3, <1>4 DEF PipelineInv

\* The readers and wake-ups change no counter.
LEMMA ReadersKeepCounts ==
    /\ Stream!ReaderStep \/ Stream!WakeForNothing => UNCHANGED g_rga_count
    /\ Infer!ReaderStep \/ Infer!WakeForNothing => UNCHANGED infer_count
BY DEF Stream!ReaderStep, Stream!BeginRead, Stream!BlockRead, Stream!StopRead,
   Stream!EndRead, Stream!WakeForNothing, Stream!writerVars,
   Infer!ReaderStep, Infer!BeginRead, Infer!BlockRead, Infer!StopRead,
   Infer!EndRead, Infer!WakeForNothing, Infer!writerVars

\* RgaThread goes through its stages in order, whatever the others do.
LEMMA StagesNext == PipelineInv /\ [Next]_vars => Stages'
<1> SUFFICES ASSUME PipelineInv, [Next]_vars PROVE Stages'
  OBVIOUS
<1>0. Stages /\ rga_pc \in {"idle", "converting"}
  BY DEF PipelineInv, HandoffProofs!HandoffInv, HandoffProofs!TypeOK
<1>ok. g_rga_count \in 0 .. MaxFrame /\ infer_count \in 0 .. MaxFrame
  BY DEF PipelineInv, StreamProofs!ChannelInv, StreamProofs!TypeOK,
     InferProofs!ChannelInv, InferProofs!TypeOK
<1> USE <1>0, <1>ok, PipelineAssumption DEF Stages
<1>1. CASE GetFrame \/ CaptureStep \/ CaptureFails
  BY <1>1 DEF GetFrame, CaptureStep, CaptureFails, Handoff!GetFrame,
     Handoff!CaptureStep, Handoff!SubmitJob, Handoff!AwaitDone, Handoff!PutFrame,
     Handoff!CaptureFails, Handoff!rgaVars, stageVars, streamVars, inferVars
<1>2. CASE TakeJob
  BY <1>2 DEF TakeJob, Handoff!TakeJob, streamVars, inferVars
<1>3. CASE AwaitJob
  BY <1>3 DEF AwaitJob, Handoff!AwaitJob, Handoff!rgaVars, stageVars, streamVars, inferVars
<1>4. CASE ClaimStream
  BY <1>4 DEF ClaimStream, Stream!BeginWrite, handoffVars, inferVars
<1>5. CASE ConvertNv12
  BY <1>5 DEF ConvertNv12, handoffVars, inferVars
<1>6. CASE FailNv12
  BY <1>6 DEF FailNv12, Stream!AbortWrite, handoffVars, inferVars
<1>7. CASE SkipInfer
  BY <1>7 DEF SkipInfer, handoffVars, streamVars, inferVars
<1>8. CASE ClaimInfer
  BY <1>8 DEF ClaimInfer, Infer!BeginWrite, handoffVars, streamVars
<1>9. CASE ConvertRgb
  BY <1>9 DEF ConvertRgb, handoffVars, streamVars
<1>10. CASE FailRgb
  BY <1>10 DEF FailRgb, Infer!AbortWrite, handoffVars, streamVars
<1>11. CASE ReportDone
  BY <1>11 DEF ReportDone, Handoff!ReportDone, streamVars, inferVars
<1>12. CASE PushStep
  BY <1>12, ReadersKeepCounts DEF PushStep, handoffVars, stageVars, inferVars
<1>13. CASE InferStep
  BY <1>13, ReadersKeepCounts DEF InferStep, handoffVars, stageVars, streamVars
<1>14. CASE IntervalElapses
  BY <1>14 DEF IntervalElapses, handoffVars, streamVars, inferVars
<1>15. CASE SpuriousWakeup
  <2>1. UNCHANGED <<rga_stage, rga_pc, g_rga_count, infer_count>>
    BY <1>15, ReadersKeepCounts DEF SpuriousWakeup, Handoff!SpuriousWakeup,
       Handoff!rgaVars, handoffVars, stageVars, streamVars, inferVars
  <2> QED
    BY <2>1
<1>16. CASE Exited \/ UNCHANGED vars
  BY <1>16 DEF Exited, vars, handoffVars, stageVars, streamVars, inferVars
<1> QED
  BY <1>1, <1>2, <1>3, <1>4, <1>5, <1>6, <1>7, <1>8, <1>9, <1>10, <1>11, <1>12,
     <1>13, <1>14, <1>15, <1>16 DEF Next, RgaStep

\* every step keeps it,
LEMMA NextInv == PipelineInv /\ [Next]_vars => PipelineInv'
<1> SUFFICES ASSUME PipelineInv, [Next]_vars PROVE PipelineInv'
  OBVIOUS
<1>1. Stages /\ Stages'
  BY StagesNext DEF PipelineInv
<1>2. HandoffProofs!HandoffInv'
  BY <1>1, HandoffStep, SameHandoff, HandoffProofs!NextInv, PartsAssumptions
     DEF PipelineInv
<1>3. StreamProofs!ChannelInv'
  BY <1>1, StreamStep, SameStream, StreamProofs!NextInv, PartsAssumptions
     DEF PipelineInv
<1>4. InferProofs!ChannelInv'
  BY <1>1, InferStepMaps, SameInfer, InferProofs!NextInv, PartsAssumptions
     DEF PipelineInv
<1> QED
  BY <1>1, <1>2, <1>3, <1>4 DEF PipelineInv

\* and so it holds always.
LEMMA PipelineInvariant == Spec => []PipelineInv
BY InitInv, NextInv, PTL DEF Spec

-----------------------------------------------------------------------------
(* What the pipeline implements.                                           *)

\* The camera loop and RgaThread, with all that RgaThread does to a frame,
\* hand over one frame at a time as RgaHandoff says.
THEOREM ImplementsHandoff == Spec => Handoff!Spec
<1>1. Init => Handoff!Init
  BY DEF Init
<1>2. PipelineInv /\ [Next]_vars => [Handoff!Next]_(Handoff!vars)
  BY HandoffStep DEF PipelineInv
<1> QED
  BY <1>1, <1>2, PipelineInvariant, PTL DEF Spec, Handoff!Spec

\* RgaThread and PushThread use the stream pool as DmaBufChannel says, through
\* every failed conversion and whatever inference does.
THEOREM ImplementsStreamChannel == Spec => StreamChannelSpec
<1>1. PipelineInv /\ [Next]_vars => [Stream!Next]_(Stream!vars)
  BY StreamStep DEF PipelineInv
<1>2. StreamChannelSpec <=> Stream!Init /\ [][Stream!Next]_(Stream!vars)
  BY DEF StreamChannelSpec, Stream!Spec
<1>3. Init => Stream!Init
  BY PartsInit
<1> QED
  BY <1>1, <1>2, <1>3, PipelineInvariant, PTL DEF Spec

\* And RgaThread and InferThread the infer pool.
THEOREM ImplementsInferChannel == Spec => InferChannelSpec
<1>1. PipelineInv /\ [Next]_vars => [Infer!Next]_(Infer!vars)
  BY InferStepMaps DEF PipelineInv
<1>2. InferChannelSpec <=> Infer!Init /\ [][Infer!Next]_(Infer!vars)
  BY DEF InferChannelSpec, Infer!Spec
<1>3. Init => Infer!Init
  BY PartsInit
<1> QED
  BY <1>1, <1>2, <1>3, PipelineInvariant, PTL DEF Spec

\* The mailbox each channel is mapped to is the same seen either way.
LEMMA SameStreamMailbox ==
    /\ Stream!Mailbox!Init <=> StreamProofs!Mailbox!Init
    /\ [Stream!Mailbox!Next]_(Stream!Mailbox!vars)
           <=> [StreamProofs!Mailbox!Next]_(StreamProofs!Mailbox!vars)
BY DEF Stream!Mailbox!Init, StreamProofs!Mailbox!Init, Stream!Mailbox!Next,
   StreamProofs!Mailbox!Next, Stream!Mailbox!vars, StreamProofs!Mailbox!vars,
   Stream!Mailbox!PublishFrame, StreamProofs!Mailbox!PublishFrame,
   Stream!Mailbox!Withdraw, StreamProofs!Mailbox!Withdraw, Stream!Mailbox!Take,
   StreamProofs!Mailbox!Take, Stream!Mailbox!Finish,
   StreamProofs!Mailbox!Finish, Stream!IdOf, StreamProofs!IdOf, Stream!InState,
   StreamProofs!InState, Stream!Idx, StreamProofs!Idx, Stream!DMA_BUF_READY,
   StreamProofs!DMA_BUF_READY, Stream!DMA_BUF_READING,
   StreamProofs!DMA_BUF_READING

\* The same for the infer channel.
LEMMA SameInferMailbox ==
    /\ Infer!Mailbox!Init <=> InferProofs!Mailbox!Init
    /\ [Infer!Mailbox!Next]_(Infer!Mailbox!vars)
           <=> [InferProofs!Mailbox!Next]_(InferProofs!Mailbox!vars)
BY DEF Infer!Mailbox!Init, InferProofs!Mailbox!Init, Infer!Mailbox!Next,
   InferProofs!Mailbox!Next, Infer!Mailbox!vars, InferProofs!Mailbox!vars,
   Infer!Mailbox!PublishFrame, InferProofs!Mailbox!PublishFrame,
   Infer!Mailbox!Withdraw, InferProofs!Mailbox!Withdraw, Infer!Mailbox!Take,
   InferProofs!Mailbox!Take, Infer!Mailbox!Finish, InferProofs!Mailbox!Finish,
   Infer!IdOf, InferProofs!IdOf, Infer!InState, InferProofs!InState, Infer!Idx,
   InferProofs!Idx, Infer!DMA_BUF_READY, InferProofs!DMA_BUF_READY,
   Infer!DMA_BUF_READING, InferProofs!DMA_BUF_READING

\* PushThread sees a mailbox that holds the newest frame, though the frames
\* lie in buffers that RgaThread reuses, and though RgaThread may fail, be
\* slow, or wait for inference.
THEOREM ImplementsStreamMailbox == Spec => Stream!MailboxSpec
<1>1. PipelineInv /\ [Next]_vars => [Stream!Mailbox!Next]_(Stream!Mailbox!vars)
  <2> SUFFICES ASSUME PipelineInv, [Next]_vars
               PROVE  [Stream!Mailbox!Next]_(Stream!Mailbox!vars)
    OBVIOUS
  <2>1. [StreamProofs!Next]_(StreamProofs!vars)
    BY StreamStep, SameStream DEF PipelineInv
  <2>2. StreamProofs!ChannelInv /\ StreamProofs!ChannelInv'
    BY NextInv DEF PipelineInv
  <2> QED
    BY <2>1, <2>2, StreamProofs!MailboxStep, SameStreamMailbox, PartsAssumptions
       DEF RGA_DMA_BUF_COUNT
<1>2. Init => Stream!Mailbox!Init
  BY PartsInit, SameStream, StreamProofs!MailboxInit, SameStreamMailbox, PartsAssumptions
<1>3. Stream!MailboxSpec <=> Stream!Mailbox!Init /\ [][Stream!Mailbox!Next]_(Stream!Mailbox!vars)
  BY DEF Stream!MailboxSpec, Stream!Mailbox!Spec
<1> QED
  BY <1>1, <1>2, <1>3, PipelineInvariant, PTL DEF Spec

\* And so does InferThread.
THEOREM ImplementsInferMailbox == Spec => Infer!MailboxSpec
<1>1. PipelineInv /\ [Next]_vars => [Infer!Mailbox!Next]_(Infer!Mailbox!vars)
  <2> SUFFICES ASSUME PipelineInv, [Next]_vars
               PROVE  [Infer!Mailbox!Next]_(Infer!Mailbox!vars)
    OBVIOUS
  <2>1. [InferProofs!Next]_(InferProofs!vars)
    BY InferStepMaps, SameInfer DEF PipelineInv
  <2>2. InferProofs!ChannelInv /\ InferProofs!ChannelInv'
    BY NextInv DEF PipelineInv
  <2> QED
    BY <2>1, <2>2, InferProofs!MailboxStep, SameInferMailbox, PartsAssumptions
       DEF INFER_DMA_BUF_COUNT
<1>2. Init => Infer!Mailbox!Init
  BY PartsInit, SameInfer, InferProofs!MailboxInit, SameInferMailbox, PartsAssumptions
<1>3. Infer!MailboxSpec <=> Infer!Mailbox!Init /\ [][Infer!Mailbox!Next]_(Infer!Mailbox!vars)
  BY DEF Infer!MailboxSpec, Infer!Mailbox!Spec
<1> QED
  BY <1>1, <1>2, <1>3, PipelineInvariant, PTL DEF Spec

-----------------------------------------------------------------------------
(* Safety of the threads together.                                         *)

\* Inference never gets a frame whose NV12 conversion failed, nor one the
\* stream does not have yet.
THEOREM InferAlwaysFollows == Spec => []InferFollowsStream
<1>1. PipelineInv => InferFollowsStream
  BY DEF PipelineInv, Stages, InferFollowsStream
<1> QED
  BY <1>1, PipelineInvariant, PTL

\* Whatever PushThread and InferThread do with the buffers they hold, RgaThread
\* finds a buffer in both pools: the two outcomes of DmaBufPoolGetWriteIndex
\* that ClaimStream and ClaimInfer leave out cannot occur.
THEOREM WritersNeverBlock ==
    Spec => [](Stream!WriterNeverBlocks /\ Infer!WriterNeverBlocks)
<1>1. PipelineInv => Stream!WriterNeverBlocks
  BY StreamProofs!WriterServed, PartsAssumptions
     DEF PipelineInv, Stream!WriterNeverBlocks, StreamProofs!WriterNeverBlocks,
     Stream!NoWriteCandidate, StreamProofs!NoWriteCandidate,
     Stream!InState, StreamProofs!InState, Stream!Idx, StreamProofs!Idx,
     Stream!Writer, StreamProofs!Writer, Stream!DMA_BUF_FREE,
     StreamProofs!DMA_BUF_FREE, Stream!DMA_BUF_READY,
     StreamProofs!DMA_BUF_READY
<1>2. PipelineInv => Infer!WriterNeverBlocks
  BY InferProofs!WriterServed, PartsAssumptions
     DEF PipelineInv, Infer!WriterNeverBlocks, InferProofs!WriterNeverBlocks,
     Infer!NoWriteCandidate, InferProofs!NoWriteCandidate, Infer!InState,
     InferProofs!InState, Infer!Idx, InferProofs!Idx, Infer!Writer,
     InferProofs!Writer, Infer!DMA_BUF_FREE, InferProofs!DMA_BUF_FREE,
     Infer!DMA_BUF_READY, InferProofs!DMA_BUF_READY
<1> QED
  BY <1>1, <1>2, PipelineInvariant, PTL

\* The camera, the RGA, the encoder and the image encoder work on buffers of
\* their own: what the RGA converts is not queued, what it converts into is not
\* being read, and what is read keeps the frame it was taken with.
MemoryApart ==
    /\ rga_stage \in {"nv12", "rgb"} => raw_buf \notin queued
    /\ rga_stage = "nv12" /\ push_pc = "reading" => dma_idx # push_idx
    /\ rga_stage = "rgb" /\ feed_pc = "reading" => infer_idx # feed_idx
    /\ push_pc = "reading" => stream_id[push_idx] = pushed
    /\ feed_pc = "reading" => infer_id[feed_idx] = fed

\* No buffer, of the camera or of either pool, is ever used from two sides.
THEOREM MemoryAlwaysApart == Spec => []MemoryApart
<1>1. PipelineInv => MemoryApart
  <2> SUFFICES ASSUME PipelineInv PROVE MemoryApart
    OBVIOUS
  <2>1. ASSUME rga_stage \in {"nv12", "rgb"} PROVE raw_buf \notin queued
    <3>1. rga_pc = "converting"
      BY <2>1 DEF PipelineInv, Stages, HandoffProofs!HandoffInv, HandoffProofs!TypeOK
    <3> QED
      BY <3>1, HandoffProofs!CameraApart, PartsAssumptions
         DEF PipelineInv, HandoffProofs!CameraBufferStable
  <2>2. rga_stage = "nv12" /\ push_pc = "reading" => dma_idx # push_idx
    BY DEF PipelineInv, StreamProofs!ChannelInv, StreamProofs!BuffersOwned,
       StreamProofs!InState, StreamProofs!DMA_BUF_WRITING, StreamProofs!DMA_BUF_READING
  <2>3. rga_stage = "rgb" /\ feed_pc = "reading" => infer_idx # feed_idx
    BY DEF PipelineInv, InferProofs!ChannelInv, InferProofs!BuffersOwned,
       InferProofs!InState, InferProofs!DMA_BUF_WRITING, InferProofs!DMA_BUF_READING
  <2>4. push_pc = "reading" => stream_id[push_idx] = pushed
    BY DEF PipelineInv, StreamProofs!ChannelInv, StreamProofs!FrameHeldStill
  <2>5. feed_pc = "reading" => infer_id[feed_idx] = fed
    BY DEF PipelineInv, InferProofs!ChannelInv, InferProofs!FrameHeldStill
  <2> QED
    BY <2>1, <2>2, <2>3, <2>4, <2>5 DEF MemoryApart
<1> QED
  BY <1>1, PipelineInvariant, PTL

\* PushThread and InferThread each take the newest frame that is complete in
\* their pool, and one newer than all they took before: the encoder and the LLM
\* see time go forward.
ReadersGoForward ==
    [][/\ Stream!BeginRead => pushed < pushed' /\ pushed' = g_rga_count
       /\ Infer!BeginRead => fed < fed' /\ fed' = infer_count]_vars

\* No frame is encoded or asked about twice or after a newer one, although
\* either reader may be slow and its writer reuses buffers meanwhile.
THEOREM ReadersAlwaysGoForward == Spec => ReadersGoForward
<1>1. PipelineInv /\ Stream!BeginRead => pushed < pushed' /\ pushed' = g_rga_count
  BY StreamProofs!ReadForward, PartsAssumptions
     DEF PipelineInv, Stream!BeginRead, StreamProofs!BeginRead,
     Stream!GetReadIndex, StreamProofs!GetReadIndex, Stream!IsFirst,
     StreamProofs!IsFirst, Stream!InState, StreamProofs!InState, Stream!Idx,
     StreamProofs!Idx, Stream!Reader, StreamProofs!Reader,
     Stream!DMA_BUF_READY, StreamProofs!DMA_BUF_READY,
     Stream!DMA_BUF_READING, StreamProofs!DMA_BUF_READING,
     Stream!writerVars, StreamProofs!writerVars
<1>2. PipelineInv /\ Infer!BeginRead => fed < fed' /\ fed' = infer_count
  BY InferProofs!ReadForward, PartsAssumptions
     DEF PipelineInv, Infer!BeginRead, InferProofs!BeginRead,
     Infer!GetReadIndex, InferProofs!GetReadIndex, Infer!IsFirst,
     InferProofs!IsFirst, Infer!InState, InferProofs!InState, Infer!Idx,
     InferProofs!Idx, Infer!Reader, InferProofs!Reader,
     Infer!DMA_BUF_READY, InferProofs!DMA_BUF_READY,
     Infer!DMA_BUF_READING, InferProofs!DMA_BUF_READING,
     Infer!writerVars, InferProofs!writerVars
<1>3. PipelineInv /\ [Next]_vars
        => [/\ Stream!BeginRead => pushed < pushed' /\ pushed' = g_rga_count
            /\ Infer!BeginRead => fed < fed' /\ fed' = infer_count]_vars
  BY <1>1, <1>2
<1> QED
  BY <1>3, PipelineInvariant, PTL DEF Spec, ReadersGoForward

=============================================================================
