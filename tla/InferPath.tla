------------------------------ MODULE InferPath ------------------------------
(***************************************************************************)
(* The way of a frame to the language model: RgaThread converts it into a  *)
(* buffer of the infer pool (DmaBufChannel), InferThread takes it out, the *)
(* bridge compares it with the one before (InferBridge), and InferLlm      *)
(* encodes it, to be answered by LlmThread with others.                    *)
(*                                                                         *)
(* pixels is the memory of the pool's buffers.  RgaThread overwrites it    *)
(* while its buffer is WRITING, and the bridge and the image encoder read  *)
(* it through a mapping that is cached by file descriptor.  The            *)
(* descriptors of a pool stay open, so they are the buffers' indices here. *)
(*                                                                         *)
(* main calls InferBridgeInit once, before the threads exist; when it      *)
(* fails main returns.  (That main may also return later, with the camera, *)
(* is in VideoPipeline.)  Neither InferBridgeExit nor InferLlmExit is ever *)
(* called, and no exit flag is ever set.                                   *)
(***************************************************************************)
EXTENDS InferBridge

CONSTANTS
    FRAME_NUM,              \* see InferLlm
    MaxFrame                \* bound on frame ids

ASSUME PathAssumption == FRAME_NUM \in Nat \ {0} /\ MaxFrame \in Nat

INFER_DMA_BUF_COUNT == 2

VARIABLES
    running,                                            \* main has not returned
    exit_flag,                                          \* main's; 0 for ever
    state, frame_id, waiters,                           \* g_infer_dma_pool
    rga_pc, infer_idx, published,                       \* RgaThread
    infer_pc, read_idx, last_read,                      \* InferThread
    pixels,                                             \* what the buffers hold
    bridge_pc,                                          \* InferThread in the bridge
    g_inited, g_exit_flag, exiting,                     \* InferLlm
    g_frame_index, g_packed_img_vec, g_llm_job_vec, g_llm_job_pending, g_llm_busy,
    feed_pc, last_frame, llm_pc, llm_wait, local_job, answered,
    last_sample             \* history: the picture compared last

poolVars == <<state, frame_id, waiters, exit_flag, rga_pc, infer_idx, published,
              infer_pc, read_idx, last_read>>
llmVars  == <<g_inited, g_exit_flag, exiting, g_frame_index, g_packed_img_vec,
              g_llm_job_vec, g_llm_job_pending, g_llm_busy, feed_pc, last_frame,
              llm_pc, llm_wait, local_job, answered>>
pathVars == <<bridge_pc, last_sample>>
vars     == <<running, poolVars, pixels, pathVars, bridgeVars, llmVars>>

Pool == INSTANCE DmaBufChannel WITH
    Count <- INFER_DMA_BUF_COUNT, Wait <- FALSE,
    wpc <- rga_pc, widx <- infer_idx, rpc <- infer_pc, ridx <- read_idx

Llm == INSTANCE InferLlm

Init ==
    /\ running = TRUE
    /\ Pool!Init /\ Llm!Init
    /\ pixels = [i \in Pool!Idx |-> Torn]
    /\ bridge_pc = "out" /\ last_sample = Torn
    /\ BridgeInit

-----------------------------------------------------------------------------
\* InferBridgeInit as main calls it.  Without the memory for prev_rgb, or
\* without the models, it fails and main returns.
InferBridgeInit ==
    /\ running
    /\ ~g_inited
    /\ \/ Llm!InferLlmInit /\ running' = g_inited'
       \/ UNCHANGED llmVars /\ running' = FALSE
    /\ UNCHANGED <<poolVars, pixels, pathVars, bridgeVars>>

\* The threads exist.
Started == running /\ g_inited

-----------------------------------------------------------------------------
(* RgaThread.                                                              *)

BeginConvert ==
    /\ Started
    /\ Pool!BeginWrite
    /\ pixels' = [pixels EXCEPT ![infer_idx'] = Torn]
    /\ UNCHANGED <<running, pathVars, bridgeVars, llmVars>>

EndConvert ==
    /\ Started
    /\ Pool!EndWrite
    /\ \E picture \in Pictures : pixels' = [pixels EXCEPT ![infer_idx] = picture]
    /\ UNCHANGED <<running, pathVars, bridgeVars, llmVars>>

FailConvert ==
    /\ Started
    /\ Pool!AbortWrite
    /\ UNCHANGED <<running, pixels, pathVars, bridgeVars, llmVars>>

-----------------------------------------------------------------------------
(* InferThread.                                                            *)

GetFrame ==
    /\ Started
    /\ Pool!BeginRead
    /\ bridge_pc' = "map"
    /\ UNCHANGED <<running, pixels, last_sample, bridgeVars, llmVars>>

AwaitFrame ==
    /\ Started
    /\ Pool!BlockRead
    /\ UNCHANGED <<running, pixels, pathVars, bridgeVars, llmVars>>

\* InferBridgeFeedRgb888Dma maps the buffer, or returns -1.
MapFrame ==
    /\ bridge_pc = "map"
    /\ \/ MapDma(read_idx) /\ bridge_pc' = "diff"
       \/ MapDmaFails(read_idx) /\ bridge_pc' = "return"
    /\ UNCHANGED <<running, poolVars, pixels, last_sample, llmVars>>

\* FrameDiffShouldSend reads the mapping.
CompareFrame ==
    /\ bridge_pc = "diff"
    /\ bridge_pc' = IF ShouldSend(pixels[mapped_fd]) THEN "send" ELSE "return"
    /\ Sample(pixels[mapped_fd])
    /\ last_sample' = pixels[mapped_fd]
    /\ UNCHANGED <<running, poolVars, pixels, llmVars>>

\* Faulty: the frame waits for the LLM.
FeedLlmWaits ==
    /\ bridge_pc = "send"
    /\ Llm!BeginEncode(last_read)
    /\ bridge_pc' = "llm"
    /\ UNCHANGED <<running, poolVars, pixels, last_sample, bridgeVars>>

\* Faulty: the frame goes under the id published last.
FeedLlmNewestId ==
    /\ bridge_pc = "send"
    /\ Llm!Skip(published) \/ Llm!BeginEncode(published)
    /\ bridge_pc' = "llm"
    /\ UNCHANGED <<running, poolVars, pixels, last_sample, bridgeVars>>

\* InferLlmFeedRgb888 is called with the mapping and the frame's id; it skips
\* the frame or starts the image encoder.
FeedLlm ==
    /\ bridge_pc = "send"
    /\ Llm!Skip(last_read) \/ Llm!BeginEncode(last_read)
    /\ bridge_pc' = "llm"
    /\ UNCHANGED <<running, poolVars, pixels, last_sample, bridgeVars>>

\* The rest of InferLlmFeedRgb888 ...
EncodeFrame ==
    /\ bridge_pc = "llm"
    /\ Llm!FeedStep
    /\ UNCHANGED <<running, poolVars, pixels, pathVars, bridgeVars>>

\* ... after which InferThread releases the buffer, whatever came of it.
ReleaseFrame ==
    /\ \/ bridge_pc = "return"
       \/ bridge_pc = "llm" /\ feed_pc = "idle"
    /\ Pool!EndRead
    /\ bridge_pc' = "out"
    /\ UNCHANGED <<running, pixels, last_sample, bridgeVars, llmVars>>

InferStep ==
    GetFrame \/ AwaitFrame \/ MapFrame \/ CompareFrame \/ FeedLlm \/ EncodeFrame \/ ReleaseFrame

-----------------------------------------------------------------------------
LlmStep ==
    /\ Started
    /\ Llm!LlmStep
    /\ UNCHANGED <<running, poolVars, pixels, pathVars, bridgeVars>>

SpuriousWakeup ==
    \/ Pool!WakeForNothing /\ UNCHANGED <<running, pixels, pathVars, bridgeVars, llmVars>>
    \/ Llm!SpuriousWakeup /\ UNCHANGED <<running, poolVars, pixels, pathVars, bridgeVars>>

Exited == ~running /\ UNCHANGED vars

Next ==
    \/ InferBridgeInit
    \/ BeginConvert \/ EndConvert \/ FailConvert
    \/ InferStep \/ LlmStep \/ SpuriousWakeup \/ Exited

Spec == Init /\ [][Next]_vars

\* InferThread runs and run_imgenc returns.  rkllm_run need not.
InferFairSpec == Spec /\ WF_vars(InferStep)

-----------------------------------------------------------------------------
\* What the gate and the image encoder read, through a mapping cached from
\* earlier frames, is the whole picture of the frame InferThread took, in a
\* buffer that stays InferThread's until they are done.  What is encoded is
\* the picture the gate let pass, under its own id.
EncodesTheFrameItNames ==
    /\ bridge_pc = "diff" \/ feed_pc = "encode" =>
        /\ state[mapped_fd] = "READING"
        /\ frame_id[mapped_fd] = last_read
        /\ pixels[mapped_fd] \in Pictures
    /\ feed_pc = "encode" => pixels[mapped_fd] = prev_rgb /\ last_frame = last_read

\* A frame is passed on only if it is the first or differs enough from the
\* one compared before it (README.md:130): a scene that changes slowly never
\* gets through, however far it drifts.
PassesOnlyChanges ==
    [][bridge_pc = "diff" /\ bridge_pc' = "send" =>
           last_sample = Torn \/ Changed(last_sample', last_sample)]_vars

\* What README.md:126-127 gives as the gate's defaults: a frame is dropped only
\* if less than 3% of its pixels differ by more than 45.
DropsBelowThreePercent ==
    [][bridge_pc = "diff" /\ bridge_pc' = "return" =>
           ~AtLeast(ChangedPixels(last_sample', last_sample, 45), 3)]_vars

\* The ids InferLlm is fed only grow, as it assumes and nowhere checks: the path,
\* which feeds the id InferThread took from the pool, implements it, with the
\* fairness it asks of InferThread.
LlmFairSpec == Llm!FeedFairSpec

\* Under InferFairSpec InferThread gives its buffer back, though the LLM may
\* be busy for ever: the frame is skipped, not kept waiting.
FrameIsReleased == infer_pc = "reading" ~> infer_pc = "idle"

=============================================================================
