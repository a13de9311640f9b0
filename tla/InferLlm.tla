------------------------------ MODULE InferLlm ------------------------------
(***************************************************************************)
(* The image encoder and the language model of infer/infer_llm.cpp.        *)
(*                                                                         *)
(* The thread that feeds frames (InferThread, through InferBridge) runs    *)
(* the image encoder on each and packs FRAME_NUM embeddings into a job;    *)
(* LlmThread answers one job at a time.  The two share the NPU runtime and *)
(* must not use it together: frames that come while a job is pending or    *)
(* being answered are skipped.                                             *)
(*                                                                         *)
(* An embedding is the id of the frame it was made from.  InferLlmInit and *)
(* InferLlmExit are called by the feeding thread's owner, never while a    *)
(* frame is being fed; main calls the first once and nothing under src/    *)
(* calls the second, which is modelled as the interface it offers.         *)
(***************************************************************************)
EXTENDS Integers

CONSTANTS
    FRAME_NUM,              \* frames in a job
    MaxFrame                \* bound on frame ids

ASSUME FrameAssumption == FRAME_NUM \in Nat \ {0} /\ MaxFrame \in Nat

VARIABLES
    g_inited, g_exit_flag,
    g_frame_index,          \* the slot the next embedding goes to
    g_packed_img_vec,       \* the job being packed
    g_llm_job_vec,          \* the job handed over
    g_llm_job_pending, g_llm_busy,
    feed_pc,                \* where the feeding thread is
    last_frame,             \* the last frame id fed
    llm_pc,                 \* where LlmThread is
    llm_wait,               \* LlmThread is blocked on g_llm_cond
    local_job,              \* LlmThread's copy of the job
    exiting,                \* InferLlmExit is in pthread_join
    answered                \* history: the last frame of the last answered job

packVars == <<g_frame_index, g_packed_img_vec>>
jobVars  == <<g_llm_job_vec, g_llm_job_pending, g_llm_busy>>
feedVars == <<feed_pc, last_frame>>
llmVars  == <<llm_pc, local_job, answered>>
lifeVars == <<g_inited, g_exit_flag, exiting>>
vars     == <<packVars, jobVars, feedVars, llmVars, llm_wait, lifeVars>>

Slots   == 0 .. FRAME_NUM - 1
NoEmbed == 0                \* a slot without a whole embedding
Frames  == 1 .. MaxFrame
Job     == [Slots -> Frames \cup {NoEmbed}]
NoJob   == [i \in Slots |-> NoEmbed]

TypeOK ==
    /\ g_inited \in BOOLEAN /\ g_exit_flag \in BOOLEAN /\ exiting \in BOOLEAN
    /\ g_frame_index \in Slots
    /\ g_packed_img_vec \in Job /\ g_llm_job_vec \in Job /\ local_job \in Job
    /\ g_llm_job_pending \in BOOLEAN /\ g_llm_busy \in BOOLEAN
    /\ feed_pc \in {"idle", "encode", "submit"}
    /\ last_frame \in 0 .. MaxFrame /\ answered \in 0 .. MaxFrame
    /\ llm_pc \in {"none", "loop", "running", "stopped"}
    /\ llm_wait \in BOOLEAN

Init ==
    /\ g_inited = FALSE /\ g_exit_flag = FALSE /\ exiting = FALSE
    /\ g_frame_index = 0
    /\ g_packed_img_vec = NoJob /\ g_llm_job_vec = NoJob /\ local_job = NoJob
    /\ g_llm_job_pending = FALSE /\ g_llm_busy = FALSE
    /\ feed_pc = "idle" /\ last_frame = 0 /\ answered = 0
    /\ llm_pc = "none" /\ llm_wait = FALSE

-----------------------------------------------------------------------------
\* InferLlmInit.  It fails without a trace of the models it loaded; when only
\* pthread_create fails, the variables have been reset already.
InferLlmInit ==
    /\ ~g_inited
    /\ g_packed_img_vec' = NoJob
    /\ g_llm_job_vec' = NoJob
    /\ g_frame_index' = 0
    /\ g_exit_flag' = FALSE
    /\ g_llm_job_pending' = FALSE
    /\ g_llm_busy' = FALSE
    /\ \/ g_inited' = TRUE /\ llm_pc' = "loop"
       \/ UNCHANGED <<g_inited, llm_pc>>
    /\ UNCHANGED <<feedVars, llm_wait, local_job, exiting, answered>>

\* Faulty: a job not yet taken by LlmThread is overlooked.
CanAcceptWhilePending == ~g_llm_busy /\ ~g_exit_flag

\* Faulty: a job being answered is overlooked.
CanAcceptWhileBusy == ~g_llm_job_pending /\ ~g_exit_flag

LlmCanAcceptImgencFrame == ~g_llm_busy /\ ~g_llm_job_pending /\ ~g_exit_flag

\* InferLlmFeedRgb888 gets a frame and gives it up.  It looks at no id.
Skip(frame) ==
    /\ feed_pc = "idle"
    /\ ~exiting
    /\ ~g_inited \/ ~LlmCanAcceptImgencFrame
    /\ last_frame' = frame
    /\ UNCHANGED <<packVars, jobVars, feed_pc, llmVars, llm_wait, lifeVars>>

\* InferLlmFeedRgb888 gets a frame, finds the LLM idle and starts run_imgenc.
BeginEncode(frame) ==
    /\ feed_pc = "idle"
    /\ ~exiting
    /\ g_inited
    /\ LlmCanAcceptImgencFrame
    /\ last_frame' = frame
    /\ feed_pc' = "encode"
    /\ UNCHANGED <<packVars, jobVars, llmVars, llm_wait, lifeVars>>

\* The caller's part, which nothing here checks: a frame is newer than the one
\* fed before it.
NewerFrames == last_frame + 1 .. MaxFrame

SkipFrame   == \E frame \in NewerFrames : Skip(frame)
StartEncode == \E frame \in NewerFrames : BeginEncode(frame)

\* run_imgenc succeeds; the eighth embedding completes the job.
EndEncode ==
    /\ feed_pc = "encode"
    /\ g_packed_img_vec' = [g_packed_img_vec EXCEPT ![g_frame_index] = last_frame]
    /\ IF g_frame_index + 1 >= FRAME_NUM
       THEN g_frame_index' = 0 /\ feed_pc' = "submit"
       ELSE g_frame_index' = g_frame_index + 1 /\ feed_pc' = "idle"
    /\ UNCHANGED <<jobVars, last_frame, llmVars, llm_wait, lifeVars>>

\* Faulty: the slot counts as filled.
FailEncodeCounts ==
    /\ feed_pc = "encode"
    /\ g_packed_img_vec' = [g_packed_img_vec EXCEPT ![g_frame_index] = NoEmbed]
    /\ IF g_frame_index + 1 >= FRAME_NUM
       THEN g_frame_index' = 0 /\ feed_pc' = "submit"
       ELSE g_frame_index' = g_frame_index + 1 /\ feed_pc' = "idle"
    /\ UNCHANGED <<jobVars, last_frame, llmVars, llm_wait, lifeVars>>

\* run_imgenc fails, perhaps after writing part of the slot.
FailEncode ==
    /\ feed_pc = "encode"
    /\ \/ g_packed_img_vec' = [g_packed_img_vec EXCEPT ![g_frame_index] = NoEmbed]
       \/ UNCHANGED g_packed_img_vec
    /\ feed_pc' = "idle"
    /\ UNCHANGED <<g_frame_index, jobVars, last_frame, llmVars, llm_wait, lifeVars>>

\* Faulty: LlmThread is not told.
SubmitSilently ==
    /\ feed_pc = "submit"
    /\ g_llm_job_vec' = g_packed_img_vec
    /\ g_llm_job_pending' = TRUE
    /\ feed_pc' = "idle"
    /\ UNCHANGED <<packVars, g_llm_busy, llm_wait, last_frame, llmVars, lifeVars>>

\* SubmitLlmJobOrDrop.
SubmitLlmJobOrDrop ==
    /\ feed_pc = "submit"
    /\ IF ~g_llm_busy /\ ~g_llm_job_pending
       THEN /\ g_llm_job_vec' = g_packed_img_vec
            /\ g_llm_job_pending' = TRUE
            /\ llm_wait' = FALSE
       ELSE UNCHANGED <<g_llm_job_vec, g_llm_job_pending, llm_wait>>
    /\ feed_pc' = "idle"
    /\ UNCHANGED <<packVars, g_llm_busy, last_frame, llmVars, lifeVars>>

-----------------------------------------------------------------------------
(* LlmThread.                                                              *)

AwaitJob ==
    /\ llm_pc = "loop"
    /\ ~llm_wait
    /\ ~g_llm_job_pending /\ ~g_exit_flag
    /\ llm_wait' = TRUE
    /\ UNCHANGED <<packVars, jobVars, feedVars, llmVars, lifeVars>>

TakeJob ==
    /\ llm_pc = "loop"
    /\ ~llm_wait
    /\ g_llm_job_pending /\ ~g_exit_flag
    /\ local_job' = g_llm_job_vec
    /\ g_llm_job_pending' = FALSE
    /\ g_llm_busy' = TRUE
    /\ llm_pc' = "running"
    /\ UNCHANGED <<packVars, g_llm_job_vec, feedVars, llm_wait, answered, lifeVars>>

\* Faulty: the LLM counts as busy for ever after its first answer.
EndRunStaysBusy ==
    /\ llm_pc = "running"
    /\ llm_pc' = "loop"
    /\ answered' = local_job[FRAME_NUM - 1]
    /\ UNCHANGED <<packVars, jobVars, feedVars, llm_wait, local_job, lifeVars>>

\* RunLlmWithImages returns.
EndRun ==
    /\ llm_pc = "running"
    /\ g_llm_busy' = FALSE
    /\ llm_pc' = "loop"
    /\ answered' = local_job[FRAME_NUM - 1]
    /\ UNCHANGED <<packVars, g_llm_job_vec, g_llm_job_pending, feedVars, llm_wait,
                   local_job, lifeVars>>

StopLlm ==
    /\ llm_pc = "loop"
    /\ ~llm_wait
    /\ g_exit_flag
    /\ llm_pc' = "stopped"
    /\ UNCHANGED <<packVars, jobVars, feedVars, llm_wait, local_job, answered, lifeVars>>

SpuriousWakeup ==
    /\ llm_wait
    /\ llm_wait' = FALSE
    /\ UNCHANGED <<packVars, jobVars, feedVars, llmVars, lifeVars>>

-----------------------------------------------------------------------------
\* Faulty: LlmThread is not told.
RequestExitSilently ==
    /\ g_inited
    /\ ~exiting
    /\ feed_pc = "idle"
    /\ g_exit_flag' = TRUE
    /\ exiting' = TRUE
    /\ UNCHANGED <<packVars, jobVars, feedVars, llmVars, llm_wait, g_inited>>

\* Faulty: the models are released without pthread_join.
FinishExitEarly ==
    /\ exiting
    /\ g_packed_img_vec' = NoJob
    /\ g_llm_job_vec' = NoJob
    /\ g_inited' = FALSE
    /\ exiting' = FALSE
    /\ UNCHANGED <<g_frame_index, g_llm_job_pending, g_llm_busy, feedVars, llmVars,
                   llm_wait, g_exit_flag>>

\* InferLlmExit up to pthread_join ...
RequestExit ==
    /\ g_inited
    /\ ~exiting
    /\ feed_pc = "idle"
    /\ g_exit_flag' = TRUE
    /\ llm_wait' = FALSE
    /\ exiting' = TRUE
    /\ UNCHANGED <<packVars, jobVars, feedVars, llmVars, g_inited>>

\* ... and from there on, when LlmThread has ended: the models are released.
FinishExit ==
    /\ exiting
    /\ llm_pc = "stopped"
    /\ g_packed_img_vec' = NoJob
    /\ g_llm_job_vec' = NoJob
    /\ g_inited' = FALSE
    /\ exiting' = FALSE
    /\ llm_pc' = "none"
    /\ UNCHANGED <<g_frame_index, g_llm_job_pending, g_llm_busy, feedVars, local_job,
                   llm_wait, answered, g_exit_flag>>

FeedStep == EndEncode \/ FailEncode \/ SubmitLlmJobOrDrop
LlmStep  == AwaitJob \/ TakeJob \/ EndRun \/ StopLlm

Next ==
    \/ InferLlmInit \/ SkipFrame \/ StartEncode \/ FeedStep
    \/ LlmStep \/ SpuriousWakeup \/ RequestExit \/ FinishExit

Spec == Init /\ [][Next]_vars

\* run_imgenc returns, and InferThread goes on.
FeedFairSpec == Spec /\ WF_vars(FeedStep)

\* LlmThread runs and rkllm_run returns.  No frame need be fed and no exit need
\* be asked for; one that is asked for goes through.
FairSpec == FeedFairSpec /\ WF_vars(LlmStep) /\ WF_vars(FinishExit)

-----------------------------------------------------------------------------
\* The encoder and the LLM never use the runtime together, although the check
\* is made and the lock given up before run_imgenc starts.
EncoderLlmExclusive ==
    feed_pc = "encode" => llm_pc # "running" /\ ~g_llm_busy /\ ~g_llm_job_pending

\* A packed job always finds the LLM free: the branch of SubmitLlmJobOrDrop
\* that would throw FRAME_NUM encoded frames away is never taken.
NoJobDropped == feed_pc = "submit" => ~g_llm_busy /\ ~g_llm_job_pending

\* What the LLM is asked about is FRAME_NUM whole embeddings of frames in the
\* order they were captured, all of them newer than the job before: a failed
\* encoding or a skipped frame leaves no gap and no leftover in a job.
JobInOrder ==
    llm_pc = "running" =>
        /\ \A i, j \in Slots : i < j => local_job[i] < local_job[j]
        /\ \A i \in Slots : local_job[i] > answered

\* LlmThread is asleep only when there is nothing to do.
NoMissedSignal == llm_wait => llm_pc = "loop" /\ ~g_llm_job_pending /\ ~g_exit_flag

\* LlmThread runs, and a job is in the LLM, only while the models are loaded.
ModelsOutliveThread ==
    /\ llm_pc # "none" => g_inited
    /\ g_llm_busy <=> llm_pc = "running"

\* InferLlmExit returns.
ExitReturns == exiting ~> ~exiting

\* A job once submitted is answered and the LLM is free again for the next
\* frames, unless an exit comes first.  A job is named by its last frame.
JobIsAnswered ==
    \A frame \in Frames :
        (g_llm_job_pending /\ g_llm_job_vec[FRAME_NUM - 1] = frame)
            ~> ((answered = frame /\ ~g_llm_busy) \/ g_exit_flag)

=============================================================================
