--------------------------- MODULE InferLlmProofs ---------------------------
(***************************************************************************)
(* Proofs, for every FRAME_NUM, of what the run of InferLlm checks on jobs *)
(* of three frames.                                                        *)
(***************************************************************************)
EXTENDS InferLlm, TLAPS

\* The turn is the encoder's while a job is packed, the LLM's while one is
\* pending or answered.
Turns ==
    /\ feed_pc \in {"encode", "submit"} =>
           g_inited /\ ~exiting /\ ~g_llm_busy /\ ~g_llm_job_pending /\ ~g_exit_flag
    /\ g_llm_busy <=> llm_pc = "running"
    /\ ~(g_llm_busy /\ g_llm_job_pending)
    /\ llm_pc # "none" <=> g_inited
    /\ exiting => g_inited /\ g_exit_flag
    /\ g_inited /\ g_exit_flag => exiting
    /\ llm_pc = "stopped" => exiting
    /\ feed_pc = "submit" => g_frame_index = 0

Asleep == llm_wait => llm_pc = "loop" /\ ~g_llm_job_pending /\ ~g_exit_flag

\* The first n slots of vec hold frames in order, newer than the last answer
\* and no newer than the last frame fed.
Ordered(vec, n) ==
    /\ \A i, j \in Slots : i < j /\ j < n => vec[i] < vec[j]
    /\ \A i \in Slots : i < n => answered < vec[i] /\ vec[i] <= last_frame

\* What is in the three vectors.
JobsOrdered ==
    /\ answered <= last_frame
    /\ feed_pc = "encode" => answered < last_frame
    /\ g_inited /\ ~exiting /\ g_frame_index > 0 =>
           ~g_llm_busy /\ ~g_llm_job_pending
    /\ g_inited /\ ~exiting => Ordered(g_packed_img_vec, g_frame_index)
    /\ g_inited /\ feed_pc = "encode" =>
           \A i \in Slots : i < g_frame_index => g_packed_img_vec[i] < last_frame
    /\ feed_pc = "submit" => Ordered(g_packed_img_vec, FRAME_NUM)
    /\ g_inited /\ g_llm_job_pending => Ordered(g_llm_job_vec, FRAME_NUM)
    /\ llm_pc = "running" => Ordered(local_job, FRAME_NUM)

LlmInv == TypeOK /\ Turns /\ Asleep

USE FrameAssumption DEF Slots, NoEmbed, Frames, Job, NoJob

LEMMA InitInv == Init => LlmInv
<1> SUFFICES ASSUME Init PROVE LlmInv
  OBVIOUS
<1>1. NoJob \in Job /\ 0 \in Slots
  OBVIOUS
<1>2. g_packed_img_vec \in Job /\ g_llm_job_vec \in Job /\ local_job \in Job
  BY <1>1 DEF Init
<1>3. g_frame_index \in Slots /\ last_frame \in 0 .. MaxFrame
        /\ answered \in 0 .. MaxFrame
  BY <1>1 DEF Init
<1>4. TypeOK
  BY <1>2, <1>3 DEF Init, TypeOK
<1> QED
  BY <1>4 DEF Init, LlmInv, Turns, Asleep

LEMMA NextInv == LlmInv /\ [Next]_vars => LlmInv'
<1> SUFFICES ASSUME LlmInv, [Next]_vars PROVE LlmInv'
  OBVIOUS
<1>0. NoJob \in Job /\ 0 \in Slots /\ FRAME_NUM - 1 \in Slots
  OBVIOUS
<1> USE DEF LlmInv, packVars, jobVars, feedVars, llmVars, lifeVars
<1>1. CASE InferLlmInit
  <2> USE <1>1 DEF InferLlmInit
  <2>1. TypeOK'
    BY <1>0 DEF TypeOK
  <2>2. Turns'
    BY DEF Turns, TypeOK
  <2>3. Asleep'
    BY DEF Asleep, Turns, TypeOK
  <2> QED
    BY <2>1, <2>2, <2>3
<1>2. CASE SkipFrame
  <2> USE <1>2 DEF SkipFrame, Skip, NewerFrames, LlmCanAcceptImgencFrame
  <2>1. TypeOK'
    BY <1>0 DEF TypeOK
  <2>2. Turns'
    BY DEF Turns, TypeOK
  <2>3. Asleep'
    BY DEF Asleep, Turns, TypeOK
  <2> QED
    BY <2>1, <2>2, <2>3
<1>3. CASE StartEncode
  <2> USE <1>3 DEF StartEncode, BeginEncode, NewerFrames,
                 LlmCanAcceptImgencFrame
  <2>1. TypeOK'
    BY <1>0 DEF TypeOK
  <2>2. Turns'
    BY DEF Turns, TypeOK
  <2>3. Asleep'
    BY DEF Asleep, Turns, TypeOK
  <2> QED
    BY <2>1, <2>2, <2>3
<1>4. CASE EndEncode
  <2> USE <1>4 DEF EndEncode
  <2>1. TypeOK'
    BY <1>0 DEF TypeOK
  <2>2. Turns'
    BY DEF Turns, TypeOK
  <2>3. Asleep'
    BY DEF Asleep, Turns, TypeOK
  <2> QED
    BY <2>1, <2>2, <2>3
<1>5. CASE FailEncode
  <2> USE <1>5 DEF FailEncode
  <2>1. TypeOK'
    BY <1>0 DEF TypeOK
  <2>2. Turns'
    BY DEF Turns, TypeOK
  <2>3. Asleep'
    BY DEF Asleep, Turns, TypeOK
  <2> QED
    BY <2>1, <2>2, <2>3
<1>6. CASE SubmitLlmJobOrDrop
  <2> USE <1>6 DEF SubmitLlmJobOrDrop
  <2>1. TypeOK'
    BY <1>0 DEF TypeOK
  <2>2. Turns'
    BY DEF Turns, TypeOK
  <2>3. Asleep'
    BY DEF Asleep, Turns, TypeOK
  <2> QED
    BY <2>1, <2>2, <2>3
<1>7. CASE AwaitJob
  <2> USE <1>7 DEF AwaitJob
  <2>1. TypeOK'
    BY <1>0 DEF TypeOK
  <2>2. Turns'
    BY DEF Turns, TypeOK
  <2>3. Asleep'
    BY DEF Asleep, Turns, TypeOK
  <2> QED
    BY <2>1, <2>2, <2>3
<1>8. CASE TakeJob
  <2> USE <1>8 DEF TakeJob
  <2>1. TypeOK'
    BY <1>0 DEF TypeOK
  <2>2. Turns'
    BY DEF Turns, TypeOK
  <2>3. Asleep'
    BY DEF Asleep, Turns, TypeOK
  <2> QED
    BY <2>1, <2>2, <2>3
<1>9. CASE EndRun
  <2> USE <1>9 DEF EndRun
  <2>1. TypeOK'
    <3>1. local_job[FRAME_NUM - 1] \in Frames \cup {NoEmbed}
      BY <1>0 DEF TypeOK
    <3>2. answered' \in 0 .. MaxFrame
      BY <3>1
    <3> QED
      BY <3>2 DEF TypeOK
  <2>2. Turns'
    BY DEF Turns, TypeOK
  <2>3. Asleep'
    BY DEF Asleep, Turns, TypeOK
  <2> QED
    BY <2>1, <2>2, <2>3
<1>10. CASE StopLlm
  <2> USE <1>10 DEF StopLlm
  <2>1. TypeOK'
    BY <1>0 DEF TypeOK
  <2>2. Turns'
    BY DEF Turns, TypeOK
  <2>3. Asleep'
    BY DEF Asleep, Turns, TypeOK
  <2> QED
    BY <2>1, <2>2, <2>3
<1>11. CASE SpuriousWakeup
  <2> USE <1>11 DEF SpuriousWakeup
  <2>1. TypeOK'
    BY <1>0 DEF TypeOK
  <2>2. Turns'
    BY DEF Turns, TypeOK
  <2>3. Asleep'
    BY DEF Asleep, Turns, TypeOK
  <2> QED
    BY <2>1, <2>2, <2>3
<1>12. CASE RequestExit
  <2> USE <1>12 DEF RequestExit
  <2>1. TypeOK'
    BY <1>0 DEF TypeOK
  <2>2. Turns'
    BY DEF Turns, TypeOK
  <2>3. Asleep'
    BY DEF Asleep, Turns, TypeOK
  <2> QED
    BY <2>1, <2>2, <2>3
<1>13. CASE FinishExit
  <2> USE <1>13 DEF FinishExit
  <2>1. TypeOK'
    BY <1>0 DEF TypeOK
  <2>2. Turns'
    BY DEF Turns, TypeOK
  <2>3. Asleep'
    BY DEF Asleep, Turns, TypeOK
  <2> QED
    BY <2>1, <2>2, <2>3
<1>14. CASE UNCHANGED vars
  BY <1>14 DEF vars, TypeOK, Turns, Asleep
<1> QED
  BY <1>1, <1>2, <1>3, <1>4, <1>5, <1>6, <1>7,
     <1>8, <1>9, <1>10, <1>11, <1>12, <1>13, <1>14 DEF Next, FeedStep, LlmStep

LEMMA LlmInvariant == Spec => []LlmInv
BY InitInv, NextInv, PTL DEF Spec

LEMMA JobsInit == Init => JobsOrdered
BY DEF Init, JobsOrdered, Ordered

\* What is no newer than the last frame fed is older than the next one.
LEMMA OlderThanNext ==
    ASSUME NEW vec \in Job, NEW n \in Int, NEW old \in Nat, NEW next \in Nat, old < next,
           \A i \in Slots : i < n => vec[i] <= old
    PROVE  \A i \in Slots : i < n => vec[i] <= next /\ vec[i] < next
<1> SUFFICES ASSUME NEW i \in Slots, i < n PROVE vec[i] <= next /\ vec[i] < next
  OBVIOUS
<1>1. vec[i] \in Nat /\ vec[i] <= old
  OBVIOUS
<1> QED
  BY <1>1

\* A newer frame is fed: the vectors stay as they are, in order.
LEMMA FeedKeepsOrder ==
    ASSUME TypeOK, last_frame' \in Nat, last_frame < last_frame', JobsOrdered,
           UNCHANGED <<packVars, jobVars, llmVars>>
    PROVE  /\ answered' < last_frame' /\ answered' <= last_frame'
           /\ Ordered(g_packed_img_vec, g_frame_index) =>
                  /\ Ordered(g_packed_img_vec, g_frame_index)'
                  /\ \A i \in Slots : i < g_frame_index' => g_packed_img_vec'[i] < last_frame'
           /\ Ordered(g_llm_job_vec, FRAME_NUM) => Ordered(g_llm_job_vec, FRAME_NUM)'
           /\ Ordered(local_job, FRAME_NUM) => Ordered(local_job, FRAME_NUM)'
<1>1. /\ last_frame \in Nat /\ answered \in Nat /\ answered <= last_frame
      /\ g_packed_img_vec \in Job /\ g_llm_job_vec \in Job /\ local_job \in Job
      /\ g_frame_index \in Int /\ FRAME_NUM \in Int
  BY DEF TypeOK, JobsOrdered
<1>2. UNCHANGED <<answered, g_packed_img_vec, g_frame_index, g_llm_job_vec, local_job>>
  BY DEF packVars, jobVars, llmVars
<1>3. answered' < last_frame' /\ answered' <= last_frame'
  BY <1>1, <1>2
<1>4. ASSUME NEW vec \in Job, NEW n \in Int, Ordered(vec, n)
      PROVE  /\ \A i \in Slots : i < n => answered < vec[i] /\ vec[i] <= last_frame'
             /\ \A i \in Slots : i < n => vec[i] < last_frame'
             /\ \A i, j \in Slots : i < j /\ j < n => vec[i] < vec[j]
  <2>1. \A i \in Slots : i < n => vec[i] <= last_frame' /\ vec[i] < last_frame'
    <3>1. \A i \in Slots : i < n => vec[i] <= last_frame
      BY <1>4 DEF Ordered
    <3> QED
      BY <1>1, <3>1, OlderThanNext
  <2> QED
    BY <1>4, <2>1 DEF Ordered
<1> HIDE DEF Slots, Job
<1>5. Ordered(g_packed_img_vec, g_frame_index) =>
          /\ Ordered(g_packed_img_vec, g_frame_index)'
          /\ \A i \in Slots : i < g_frame_index' => g_packed_img_vec'[i] < last_frame'
  BY <1>1, <1>2, <1>4 DEF Ordered
<1>6. Ordered(g_llm_job_vec, FRAME_NUM) => Ordered(g_llm_job_vec, FRAME_NUM)'
  BY <1>1, <1>2, <1>4 DEF Ordered
<1>7. Ordered(local_job, FRAME_NUM) => Ordered(local_job, FRAME_NUM)'
  BY <1>1, <1>2, <1>4 DEF Ordered
<1> QED
  BY <1>3, <1>5, <1>6, <1>7

LEMMA JobsNext == LlmInv /\ LlmInv' /\ JobsOrdered /\ [Next]_vars => JobsOrdered'
<1> SUFFICES ASSUME LlmInv, LlmInv', JobsOrdered, [Next]_vars PROVE JobsOrdered'
  OBVIOUS
<1>1. CASE SkipFrame
  <2>1. last_frame < last_frame' /\ last_frame' \in Nat
    BY <1>1 DEF SkipFrame, Skip, NewerFrames, LlmInv, TypeOK
  <2>2. UNCHANGED <<packVars, jobVars, llmVars, lifeVars>> /\ feed_pc' = "idle"
    BY <1>1 DEF SkipFrame, Skip
  <2>3. TypeOK
    BY DEF LlmInv
  <2> QED
    BY <2>1, <2>2, <2>3, FeedKeepsOrder
       DEF JobsOrdered, packVars, jobVars, llmVars, lifeVars
<1>2. CASE StartEncode
  <2>1. last_frame < last_frame' /\ last_frame' \in Nat
    BY <1>2 DEF StartEncode, BeginEncode, NewerFrames, LlmInv, TypeOK
  <2>2. UNCHANGED <<packVars, jobVars, llmVars, lifeVars>> /\ feed_pc' = "encode"
    BY <1>2 DEF StartEncode, BeginEncode
  <2>3. ~exiting /\ ~g_llm_busy /\ ~g_llm_job_pending
    BY <1>2 DEF StartEncode, BeginEncode, LlmCanAcceptImgencFrame
  <2>4. TypeOK
    BY DEF LlmInv
  <2> QED
    BY <2>1, <2>2, <2>3, <2>4, FeedKeepsOrder
       DEF JobsOrdered, packVars, jobVars, llmVars, lifeVars
<1> USE DEF LlmInv, TypeOK, Turns, JobsOrdered, Ordered,
            packVars, jobVars, feedVars, llmVars, lifeVars
<1>3. CASE InferLlmInit
  BY <1>3 DEF InferLlmInit
<1>4. CASE EndEncode
  BY <1>4 DEF EndEncode
<1>5. CASE FailEncode
  BY <1>5 DEF FailEncode
<1>6. CASE SubmitLlmJobOrDrop
  BY <1>6 DEF SubmitLlmJobOrDrop
<1>7. CASE AwaitJob
  BY <1>7 DEF AwaitJob
<1>8. CASE TakeJob
  BY <1>8 DEF TakeJob
<1>9. CASE EndRun
  BY <1>9 DEF EndRun
<1>10. CASE StopLlm
  BY <1>10 DEF StopLlm
<1>11. CASE SpuriousWakeup
  BY <1>11 DEF SpuriousWakeup
<1>12. CASE RequestExit
  BY <1>12 DEF RequestExit
<1>13. CASE FinishExit
  BY <1>13 DEF FinishExit
<1>14. CASE UNCHANGED vars
  BY <1>14 DEF vars
<1> QED
  BY <1>1, <1>2, <1>3, <1>4, <1>5, <1>6, <1>7,
     <1>8, <1>9, <1>10, <1>11, <1>12, <1>13, <1>14 DEF Next, FeedStep, LlmStep

LEMMA JobsInvariant == Spec => []JobsOrdered
BY JobsInit, JobsNext, LlmInvariant, PTL DEF Spec

LEMMA TurnsExclude == LlmInv => EncoderLlmExclusive /\ NoJobDropped
BY DEF LlmInv, Turns, EncoderLlmExclusive, NoJobDropped

LEMMA JobsAreInOrder == JobsOrdered => JobInOrder
BY DEF JobsOrdered, Ordered, JobInOrder

-----------------------------------------------------------------------------
\* Every variable keeps its type; g_frame_index stays within the job.
THEOREM TypeCorrect == Spec => []TypeOK
<1>1. LlmInv => TypeOK
  BY DEF LlmInv
<1> QED
  BY <1>1, LlmInvariant, PTL

\* The encoder and the LLM never use the runtime together.
THEOREM EncoderLlmAlwaysExclusive == Spec => []EncoderLlmExclusive
BY TurnsExclude, LlmInvariant, PTL

\* A packed job is never thrown away.
THEOREM NoJobEverDropped == Spec => []NoJobDropped
BY TurnsExclude, LlmInvariant, PTL

\* LlmThread never sleeps through a job or an exit.
THEOREM SignalsSuffice == Spec => []NoMissedSignal
<1>1. LlmInv => NoMissedSignal
  BY DEF LlmInv, Asleep, NoMissedSignal
<1> QED
  BY <1>1, LlmInvariant, PTL

\* LlmThread never runs on released models.
THEOREM ModelsAlwaysOutliveThread == Spec => []ModelsOutliveThread
<1>1. LlmInv => ModelsOutliveThread
  BY DEF LlmInv, Turns, ModelsOutliveThread
<1> QED
  BY <1>1, LlmInvariant, PTL

\* Every job holds FRAME_NUM frames in order, newer than the job before.
THEOREM JobsAlwaysInOrder == Spec => []JobInOrder
BY JobsAreInOrder, JobsInvariant, PTL

=============================================================================
