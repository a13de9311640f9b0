--------------------------- MODULE InferPathProofs ---------------------------
(***************************************************************************)
(* Proofs, for every set of pictures, every threshold and every FRAME_NUM, *)
(* of what the run of InferPath checks: the path uses the pool and the LLM *)
(* as their modules say, and what is encoded is what was captured.         *)
(*                                                                         *)
(* The proofs of the parts are instantiated with the path's variables.     *)
(***************************************************************************)
EXTENDS InferPath, TLAPS

\* What is proved of the pool and of the LLM, about the path's variables.
PoolProofs == INSTANCE DmaBufChannelProofs WITH
    Count <- INFER_DMA_BUF_COUNT, Wait <- FALSE,
    wpc <- rga_pc, widx <- infer_idx, rpc <- infer_pc, ridx <- read_idx

LlmProofs == INSTANCE InferLlmProofs

\* InferThread's place in the bridge goes with its place in its own loop, and
\* with the place of the frame it feeds.
Places ==
    /\ bridge_pc \in {"out", "map", "diff", "send", "llm", "return"}
    /\ infer_pc = "reading" <=> bridge_pc # "out"
    /\ feed_pc # "idle" => bridge_pc = "llm"
    /\ bridge_pc \in {"diff", "send", "llm"} => mapped_fd = read_idx

\* The frame taken is newer than the last one fed until it is fed itself.
FedIds ==
    /\ last_frame <= last_read
    /\ bridge_pc \in {"map", "diff", "send"} => last_frame < last_read
    /\ bridge_pc = "llm" => last_frame = last_read

\* Whoever can see a buffer sees a whole picture, and the picture that passed
\* the gate stays there.
Whole ==
    /\ pixels \in [Pool!Idx -> Pictures \cup {Torn}]
    /\ \A i \in Pool!Idx : state[i] \in {"READY", "READING"} => pixels[i] \in Pictures
    /\ bridge_pc \in {"send", "llm"} => prev_rgb = pixels[read_idx]

\* The gate's baseline is the picture compared last.
Baseline ==
    /\ prev_valid => prev_rgb = last_sample
    /\ ~prev_valid => last_sample = Torn

\* The invariants of the two parts and what ties the path to them.
PathInv ==
    /\ PoolProofs!ChannelInv
    /\ LlmProofs!LlmInv /\ LlmProofs!JobsOrdered
    /\ Places
    /\ FedIds
    /\ Whole
    /\ Baseline

-----------------------------------------------------------------------------
(* An instance of a proof module defines every operator a second time.     *)

\* The pool's actions, seen directly and through its proofs, are the same,
LEMMA SamePool ==
    /\ Pool!Init <=> PoolProofs!Init
    /\ [Pool!Next]_(Pool!vars) <=> [PoolProofs!Next]_(PoolProofs!vars)
BY DEF Pool!Init, PoolProofs!Init, Pool!Next, PoolProofs!Next, Pool!vars,
   PoolProofs!vars, Pool!WriterStep, PoolProofs!WriterStep, Pool!ReaderStep,
   PoolProofs!ReaderStep, Pool!BeginWrite, PoolProofs!BeginWrite,
   Pool!BlockWrite, PoolProofs!BlockWrite, Pool!RefuseWrite,
   PoolProofs!RefuseWrite, Pool!EndWrite, PoolProofs!EndWrite, Pool!AbortWrite,
   PoolProofs!AbortWrite, Pool!BeginRead, PoolProofs!BeginRead, Pool!BlockRead,
   PoolProofs!BlockRead, Pool!StopRead, PoolProofs!StopRead, Pool!EndRead,
   PoolProofs!EndRead, Pool!RequestExit, PoolProofs!RequestExit, Pool!ShutDown,
   PoolProofs!ShutDown, Pool!WakeForNothing, PoolProofs!WakeForNothing,
   Pool!GetWriteIndex, PoolProofs!GetWriteIndex, Pool!WaitWriteIndex,
   PoolProofs!WaitWriteIndex, Pool!NoWriteIndex, PoolProofs!NoWriteIndex,
   Pool!Publish, PoolProofs!Publish, Pool!ReleaseIndex,
   PoolProofs!ReleaseIndex, Pool!GetReadIndex, PoolProofs!GetReadIndex,
   Pool!WaitReadIndex, PoolProofs!WaitReadIndex, Pool!NoReadIndex,
   PoolProofs!NoReadIndex, Pool!WakeAll, PoolProofs!WakeAll,
   Pool!SpuriousWakeup, PoolProofs!SpuriousWakeup, Pool!WriteCandidate,
   PoolProofs!WriteCandidate, Pool!NoWriteCandidate,
   PoolProofs!NoWriteCandidate, Pool!IsFirst, PoolProofs!IsFirst, Pool!InState,
   PoolProofs!InState, Pool!Signal, PoolProofs!Signal, Pool!CondWait,
   PoolProofs!CondWait, Pool!PoolInit, PoolProofs!PoolInit, Pool!Idx,
   PoolProofs!Idx, Pool!Writer, PoolProofs!Writer, Pool!Reader,
   PoolProofs!Reader, Pool!poolVars, PoolProofs!poolVars, Pool!writerVars,
   PoolProofs!writerVars, Pool!readerVars, PoolProofs!readerVars,
   Pool!DMA_BUF_FREE, PoolProofs!DMA_BUF_FREE, Pool!DMA_BUF_WRITING,
   PoolProofs!DMA_BUF_WRITING, Pool!DMA_BUF_READY, PoolProofs!DMA_BUF_READY,
   Pool!DMA_BUF_READING, PoolProofs!DMA_BUF_READING

\* and so are the LLM's.
LEMMA SameLlm ==
    /\ Llm!Init <=> LlmProofs!Init
    /\ [Llm!Next]_(Llm!vars) <=> [LlmProofs!Next]_(LlmProofs!vars)
BY DEF Llm!Init, LlmProofs!Init, Llm!Next, LlmProofs!Next, Llm!vars,
   LlmProofs!vars, Llm!InferLlmInit, LlmProofs!InferLlmInit, Llm!SkipFrame,
   LlmProofs!SkipFrame, Llm!StartEncode, LlmProofs!StartEncode, Llm!Skip,
   LlmProofs!Skip, Llm!BeginEncode, LlmProofs!BeginEncode, Llm!NewerFrames,
   LlmProofs!NewerFrames, Llm!EndEncode,
   LlmProofs!EndEncode, Llm!FailEncode, LlmProofs!FailEncode,
   Llm!SubmitLlmJobOrDrop, LlmProofs!SubmitLlmJobOrDrop, Llm!AwaitJob,
   LlmProofs!AwaitJob, Llm!TakeJob, LlmProofs!TakeJob, Llm!EndRun,
   LlmProofs!EndRun, Llm!StopLlm, LlmProofs!StopLlm, Llm!SpuriousWakeup,
   LlmProofs!SpuriousWakeup, Llm!RequestExit, LlmProofs!RequestExit,
   Llm!FinishExit, LlmProofs!FinishExit, Llm!FeedStep, LlmProofs!FeedStep,
   Llm!LlmStep, LlmProofs!LlmStep, Llm!LlmCanAcceptImgencFrame,
   LlmProofs!LlmCanAcceptImgencFrame, Llm!Slots, LlmProofs!Slots, Llm!NoEmbed,
   LlmProofs!NoEmbed, Llm!NoJob, LlmProofs!NoJob, Llm!packVars,
   LlmProofs!packVars, Llm!jobVars, LlmProofs!jobVars, Llm!feedVars,
   LlmProofs!feedVars, Llm!llmVars, LlmProofs!llmVars, Llm!lifeVars,
   LlmProofs!lifeVars

\* The assumptions of the parts.
LEMMA PartsAssumptions ==
    /\ INFER_DMA_BUF_COUNT \in Nat \ {0}
    /\ FRAME_NUM \in Nat \ {0}
    /\ MaxFrame \in Nat
BY PathAssumption DEF INFER_DMA_BUF_COUNT

\* What the path needs to know of the pool.
LEMMA PoolFacts ==
    ASSUME PoolProofs!ChannelInv
    PROVE  /\ state \in [Pool!Idx -> {"FREE", "WRITING", "READY", "READING"}]
           /\ frame_id \in [Pool!Idx -> Nat]
           /\ infer_idx \in Pool!Idx /\ read_idx \in Pool!Idx
           /\ published \in Nat /\ last_read \in Nat /\ published <= MaxFrame
           /\ last_read <= published
           /\ infer_pc = "reading" => state[read_idx] = "READING"
           /\ infer_pc = "reading" => frame_id[read_idx] = last_read
           /\ rga_pc = "writing" => state[infer_idx] = "WRITING"
           /\ \A i \in Pool!Idx : state[i] = "READY" =>
                  frame_id[i] = published /\ last_read < published
BY PartsAssumptions
   DEF PoolProofs!ChannelInv, PoolProofs!TypeOK, PoolProofs!BuffersOwned,
       PoolProofs!FrameHeldStill, PoolProofs!OfferIsNewest, PoolProofs!ReadWasPublished,
       PoolProofs!InState, PoolProofs!Idx, PoolProofs!BufState, PoolProofs!DMA_BUF_FREE,
       PoolProofs!DMA_BUF_WRITING, PoolProofs!DMA_BUF_READY, PoolProofs!DMA_BUF_READING,
       Pool!Idx

\* A frame that passed the gate finds the feeding thread free and is newer than
\* the one fed before it, which nothing in InferLlmFeedRgb888 checks.
FeedsNewer ==
    bridge_pc = "send" => feed_pc = "idle" /\ last_read \in Llm!NewerFrames

LEMMA InvFeedsNewer == PathInv => FeedsNewer
<1> SUFFICES ASSUME PathInv, bridge_pc = "send"
             PROVE  feed_pc = "idle" /\ last_read \in Llm!NewerFrames
  BY DEF FeedsNewer
<1>1. last_frame \in Nat
  BY PartsAssumptions DEF PathInv, LlmProofs!LlmInv, LlmProofs!TypeOK
<1>2. last_read \in Nat /\ published \in Nat /\ last_read <= published /\ published <= MaxFrame
  BY PoolFacts DEF PathInv
<1> QED
  BY <1>1, <1>2, PartsAssumptions DEF PathInv, Places, FedIds, Llm!NewerFrames

-----------------------------------------------------------------------------
(* Each step of the path is a step of each part, or none.                  *)

\* Of the infer pool,
LEMMA PoolStep == [Next]_vars => [Pool!Next]_(Pool!vars)
<1> SUFFICES ASSUME [Next]_vars PROVE [Pool!Next]_(Pool!vars)
  OBVIOUS
<1>1. ASSUME UNCHANGED poolVars PROVE UNCHANGED Pool!vars
  BY <1>1 DEF poolVars, Pool!vars, Pool!poolVars, Pool!writerVars, Pool!readerVars
<1>2. CASE BeginConvert \/ EndConvert \/ FailConvert
  BY <1>2 DEF BeginConvert, EndConvert, FailConvert, Pool!Next, Pool!WriterStep
<1>3. CASE GetFrame \/ AwaitFrame \/ ReleaseFrame
  BY <1>3 DEF GetFrame, AwaitFrame, ReleaseFrame, Pool!Next, Pool!ReaderStep
<1>4. CASE InferBridgeInit \/ MapFrame \/ CompareFrame \/ FeedLlm \/ EncodeFrame \/ LlmStep
  BY <1>4, <1>1 DEF InferBridgeInit, MapFrame, CompareFrame, FeedLlm, EncodeFrame, LlmStep
<1>5. CASE SpuriousWakeup
  BY <1>5, <1>1 DEF SpuriousWakeup, Pool!Next
<1>6. CASE Exited \/ UNCHANGED vars
  BY <1>6, <1>1 DEF Exited, vars
<1> QED
  BY <1>2, <1>3, <1>4, <1>5, <1>6 DEF Next, InferStep

\* and of the image encoder and the LLM.
LEMMA LlmStepMaps == PathInv /\ [Next]_vars => [Llm!Next]_(Llm!vars)
<1> SUFFICES ASSUME PathInv, [Next]_vars PROVE [Llm!Next]_(Llm!vars)
  OBVIOUS
<1>1. ASSUME UNCHANGED llmVars PROVE UNCHANGED Llm!vars
  BY <1>1 DEF llmVars, Llm!vars, Llm!packVars, Llm!jobVars, Llm!feedVars,
     Llm!llmVars, Llm!lifeVars
<1>2. CASE InferBridgeInit
  BY <1>2, <1>1 DEF InferBridgeInit, Llm!Next
<1>3. CASE FeedLlm
  BY <1>3, InvFeedsNewer DEF FeedLlm, FeedsNewer, Llm!SkipFrame, Llm!StartEncode, Llm!Next
<1>4. CASE LlmStep
  BY <1>4 DEF LlmStep, Llm!Next
<1>5. CASE BeginConvert \/ EndConvert \/ FailConvert \/ GetFrame \/ AwaitFrame
           \/ MapFrame \/ CompareFrame \/ ReleaseFrame
  BY <1>5, <1>1 DEF BeginConvert, EndConvert, FailConvert, GetFrame, AwaitFrame,
     MapFrame, CompareFrame, ReleaseFrame
<1>6. CASE SpuriousWakeup
  BY <1>6, <1>1 DEF SpuriousWakeup, Llm!Next
<1>7. CASE Exited \/ UNCHANGED vars
  BY <1>7, <1>1 DEF Exited, vars
<1>8. CASE EncodeFrame
  BY <1>8 DEF EncodeFrame, Llm!Next
<1> QED
  BY <1>2, <1>3, <1>4, <1>5, <1>6, <1>7, <1>8 DEF Next, InferStep

\* So the path keeps the invariants of both parts.
LEMMA PartsNext ==
    PathInv /\ [Next]_vars =>
        PoolProofs!ChannelInv' /\ LlmProofs!LlmInv' /\ LlmProofs!JobsOrdered'
<1> SUFFICES ASSUME PathInv, [Next]_vars
             PROVE  PoolProofs!ChannelInv' /\ LlmProofs!LlmInv' /\ LlmProofs!JobsOrdered'
  OBVIOUS
<1>1. PoolProofs!ChannelInv'
  BY PoolStep, SamePool, PoolProofs!NextInv, PartsAssumptions DEF PathInv
<1>2. LlmProofs!LlmInv'
  BY LlmStepMaps, SameLlm, LlmProofs!NextInv, PartsAssumptions DEF PathInv
<1>3. LlmProofs!JobsOrdered'
  BY <1>2, LlmStepMaps, SameLlm, LlmProofs!JobsNext, PartsAssumptions DEF PathInv
<1> QED
  BY <1>1, <1>2, <1>3

-----------------------------------------------------------------------------
(* What each action does to the buffers and to the frame being fed.        *)

\* The path's invariant holds initially.
LEMMA InitInv == Init => PathInv
<1> SUFFICES ASSUME Init PROVE PathInv
  OBVIOUS
<1>1. PoolProofs!ChannelInv
  BY SamePool, PoolProofs!InitInv, PartsAssumptions DEF Init
<1>2. LlmProofs!LlmInv /\ LlmProofs!JobsOrdered
  BY SameLlm, LlmProofs!InitInv, LlmProofs!JobsInit, PartsAssumptions DEF Init
<1>3. Places /\ FedIds /\ Baseline
  BY DEF Init, Pool!Init, Llm!Init, BridgeInit, Places, FedIds, Baseline
<1>4. Whole
  BY DEF Init, Pool!Init, Pool!PoolInit, Pool!DMA_BUF_FREE, Whole
<1> QED
  BY <1>1, <1>2, <1>3, <1>4 DEF PathInv

\* InferThread's places go together in every step,
LEMMA PlacesNext == PathInv /\ [Next]_vars => Places'
<1> SUFFICES ASSUME PathInv, [Next]_vars PROVE Places'
  OBVIOUS
<1> USE DEF PathInv, Places
<1>1. CASE InferBridgeInit
  BY <1>1 DEF InferBridgeInit, Llm!InferLlmInit, Llm!feedVars, poolVars, pathVars,
     bridgeVars, llmVars
<1>2. CASE BeginConvert \/ EndConvert \/ FailConvert
  BY <1>2 DEF BeginConvert, EndConvert, FailConvert, Pool!BeginWrite, Pool!EndWrite,
     Pool!AbortWrite, Pool!readerVars, pathVars, bridgeVars, llmVars
<1>3. CASE GetFrame
  BY <1>3 DEF GetFrame, Pool!BeginRead, llmVars
<1>4. CASE AwaitFrame
  BY <1>4 DEF AwaitFrame, Pool!BlockRead, Pool!readerVars, pathVars, bridgeVars, llmVars
<1>5. CASE MapFrame
  BY <1>5 DEF MapFrame, MapDma, MapDmaFails, poolVars, llmVars
<1>6. CASE CompareFrame
  BY <1>6 DEF CompareFrame, Sample, poolVars, llmVars
<1>7. CASE FeedLlm
  BY <1>7 DEF FeedLlm, poolVars, bridgeVars
<1>8. CASE EncodeFrame
  BY <1>8 DEF EncodeFrame, poolVars, pathVars, bridgeVars
<1>9. CASE ReleaseFrame
  BY <1>9 DEF ReleaseFrame, Pool!EndRead, bridgeVars, llmVars
<1>10. CASE LlmStep
  BY <1>10 DEF LlmStep, Llm!LlmStep, Llm!AwaitJob, Llm!TakeJob, Llm!EndRun,
     Llm!StopLlm, Llm!feedVars, poolVars, pathVars, bridgeVars
<1>11. CASE SpuriousWakeup
  BY <1>11 DEF SpuriousWakeup, Pool!WakeForNothing, Pool!readerVars,
     Llm!SpuriousWakeup, Llm!feedVars, poolVars, pathVars, bridgeVars, llmVars
<1>12. CASE Exited \/ UNCHANGED vars
  BY <1>12 DEF Exited, vars, poolVars, pathVars, bridgeVars, llmVars
<1> QED
  BY <1>1, <1>2, <1>3, <1>4, <1>5, <1>6, <1>7, <1>8, <1>9, <1>10, <1>11, <1>12
     DEF Next, InferStep

\* the id of the frame taken stays ahead of the last one fed,
LEMMA FedIdsNext == PathInv /\ [Next]_vars => FedIds'
<1> SUFFICES ASSUME PathInv, [Next]_vars PROVE FedIds'
  OBVIOUS
<1> USE DEF PathInv, Places, FedIds
<1>0. last_frame \in Nat /\ last_read \in Nat
  BY PoolFacts, PartsAssumptions DEF LlmProofs!LlmInv, LlmProofs!TypeOK
<1>1. CASE InferBridgeInit
  BY <1>1 DEF InferBridgeInit, Llm!InferLlmInit, Llm!feedVars, poolVars, pathVars, llmVars
<1>2. CASE BeginConvert \/ EndConvert \/ FailConvert
  BY <1>2 DEF BeginConvert, EndConvert, FailConvert, Pool!BeginWrite, Pool!EndWrite,
     Pool!AbortWrite, Pool!readerVars, pathVars, llmVars
<1>3. CASE GetFrame
  <2>1. PICK i \in Pool!Idx : Pool!GetReadIndex(Pool!Reader, i) /\ last_read' = frame_id[i]
    BY <1>3 DEF GetFrame, Pool!BeginRead
  <2>2. state[i] = "READY"
    BY <2>1 DEF Pool!GetReadIndex, Pool!IsFirst, Pool!InState, Pool!DMA_BUF_READY
  <2>3. last_read < last_read' /\ last_read' \in Nat
    BY <2>1, <2>2, PoolFacts
  <2> QED
    BY <1>0, <1>3, <2>3 DEF GetFrame, llmVars
<1>4. CASE AwaitFrame
  BY <1>4 DEF AwaitFrame, Pool!BlockRead, Pool!readerVars, pathVars, llmVars
<1>5. CASE MapFrame
  BY <1>5 DEF MapFrame, poolVars, llmVars
<1>6. CASE CompareFrame
  BY <1>6 DEF CompareFrame, poolVars, llmVars
<1>7. CASE FeedLlm
  BY <1>0, <1>7 DEF FeedLlm, Llm!Skip, Llm!BeginEncode, poolVars
<1>8. CASE EncodeFrame
  BY <1>8 DEF EncodeFrame, Llm!FeedStep, Llm!EndEncode, Llm!FailEncode,
     Llm!SubmitLlmJobOrDrop, poolVars, pathVars
<1>9. CASE ReleaseFrame
  BY <1>9 DEF ReleaseFrame, Pool!EndRead, llmVars
<1>10. CASE LlmStep
  BY <1>10 DEF LlmStep, Llm!LlmStep, Llm!AwaitJob, Llm!TakeJob, Llm!EndRun,
     Llm!StopLlm, Llm!feedVars, poolVars, pathVars
<1>11. CASE SpuriousWakeup
  BY <1>11 DEF SpuriousWakeup, Pool!WakeForNothing, Pool!readerVars,
     Llm!SpuriousWakeup, Llm!feedVars, poolVars, pathVars, llmVars
<1>12. CASE Exited \/ UNCHANGED vars
  BY <1>12 DEF Exited, vars, poolVars, pathVars, llmVars
<1> QED
  BY <1>1, <1>2, <1>3, <1>4, <1>5, <1>6, <1>7, <1>8, <1>9, <1>10, <1>11, <1>12
     DEF Next, InferStep

\* The pool's operations, as far as the contents of its buffers depend on them.
LEMMA PoolEffects ==
    ASSUME PoolProofs!ChannelInv
    PROVE  /\ Pool!BeginWrite => /\ infer_idx' \in Pool!Idx
                                 /\ state[infer_idx'] \in {"FREE", "READY"}
                                 /\ state' = [state EXCEPT ![infer_idx'] = "WRITING"]
                                 /\ UNCHANGED <<read_idx, infer_pc>>
           /\ Pool!EndWrite => /\ rga_pc = "writing"
                               /\ \A i \in Pool!Idx : i # infer_idx =>
                                      state'[i] \in {state[i], "FREE"}
                               /\ UNCHANGED <<read_idx, infer_pc>>
           /\ Pool!AbortWrite => /\ state' = [state EXCEPT ![infer_idx] = "FREE"]
                                 /\ UNCHANGED <<read_idx, infer_pc>>
           /\ Pool!BeginRead => /\ read_idx' \in Pool!Idx
                                /\ state[read_idx'] = "READY"
                                /\ state' = [state EXCEPT ![read_idx'] = "READING"]
           /\ Pool!EndRead => /\ state' = [state EXCEPT ![read_idx] = "FREE"]
                              /\ UNCHANGED read_idx
           /\ Pool!BlockRead \/ Pool!WakeForNothing => UNCHANGED <<state, read_idx>>
<1> USE DEF Pool!readerVars, Pool!IsFirst, Pool!InState, Pool!DMA_BUF_FREE,
            Pool!DMA_BUF_WRITING, Pool!DMA_BUF_READY, Pool!DMA_BUF_READING
<1>1. ASSUME Pool!BeginWrite
      PROVE  /\ infer_idx' \in Pool!Idx
             /\ state[infer_idx'] \in {"FREE", "READY"}
             /\ state' = [state EXCEPT ![infer_idx'] = "WRITING"]
             /\ UNCHANGED <<read_idx, infer_pc>>
  BY <1>1 DEF Pool!BeginWrite, Pool!GetWriteIndex, Pool!WriteCandidate
<1>2. ASSUME Pool!EndWrite
      PROVE  /\ rga_pc = "writing"
             /\ \A i \in Pool!Idx : i # infer_idx => state'[i] \in {state[i], "FREE"}
             /\ UNCHANGED <<read_idx, infer_pc>>
  BY <1>2 DEF Pool!EndWrite, Pool!Publish
<1>3. ASSUME Pool!AbortWrite
      PROVE  /\ state' = [state EXCEPT ![infer_idx] = "FREE"]
             /\ UNCHANGED <<read_idx, infer_pc>>
  BY <1>3 DEF Pool!AbortWrite, Pool!ReleaseIndex
<1>4. ASSUME Pool!BeginRead
      PROVE  /\ read_idx' \in Pool!Idx
             /\ state[read_idx'] = "READY"
             /\ state' = [state EXCEPT ![read_idx'] = "READING"]
  BY <1>4 DEF Pool!BeginRead, Pool!GetReadIndex
<1>5. ASSUME Pool!EndRead
      PROVE  state' = [state EXCEPT ![read_idx] = "FREE"] /\ UNCHANGED read_idx
  BY <1>5 DEF Pool!EndRead, Pool!ReleaseIndex
<1>6. ASSUME Pool!BlockRead \/ Pool!WakeForNothing
      PROVE  UNCHANGED <<state, read_idx>>
  BY <1>6 DEF Pool!BlockRead, Pool!WaitReadIndex, Pool!WakeForNothing, Pool!SpuriousWakeup
<1> QED
  BY <1>1, <1>2, <1>3, <1>4, <1>5, <1>6

\* pictures stay whole where somebody can see them,
LEMMA WholeNext == PathInv /\ [Next]_vars => Whole'
<1> SUFFICES ASSUME PathInv, [Next]_vars PROVE Whole'
  OBVIOUS
<1>0. /\ Whole /\ Places
      /\ state \in [Pool!Idx -> {"FREE", "WRITING", "READY", "READING"}]
      /\ infer_idx \in Pool!Idx /\ read_idx \in Pool!Idx
      /\ infer_pc = "reading" => state[read_idx] = "READING"
      /\ rga_pc = "writing" => state[infer_idx] = "WRITING"
  BY PoolFacts DEF PathInv
<1> USE <1>0 DEF Whole
\* A step that keeps the buffers' contents and nobody looks at the pictures.
<1>1. ASSUME UNCHANGED <<pixels, state, read_idx, prev_rgb>>,
             bridge_pc' \in {"send", "llm"} => bridge_pc \in {"send", "llm"}
      PROVE  Whole'
  BY <1>1
<1>2. CASE BeginConvert
  <2>1. /\ infer_idx' \in Pool!Idx
        /\ state[infer_idx'] \in {"FREE", "READY"}
        /\ state' = [state EXCEPT ![infer_idx'] = "WRITING"]
        /\ pixels' = [pixels EXCEPT ![infer_idx'] = Torn]
        /\ UNCHANGED <<read_idx, infer_pc, bridge_pc, prev_rgb>>
    BY <1>2, PoolEffects DEF BeginConvert, PathInv, pathVars, bridgeVars
  <2>2. bridge_pc \in {"send", "llm"} => infer_idx' # read_idx
    BY <2>1 DEF Places
  <2> QED
    BY <2>1, <2>2
<1>3. CASE EndConvert
  <2>1. PICK picture \in Pictures : pixels' = [pixels EXCEPT ![infer_idx] = picture]
    BY <1>3 DEF EndConvert
  <2>2. /\ rga_pc = "writing"
        /\ \A i \in Pool!Idx : i # infer_idx => state'[i] \in {state[i], "FREE"}
        /\ UNCHANGED <<read_idx, infer_pc, bridge_pc, prev_rgb>>
    BY <1>3, PoolEffects DEF EndConvert, PathInv, pathVars, bridgeVars
  <2>3. bridge_pc \in {"send", "llm"} => infer_idx # read_idx
    BY <2>2 DEF Places
  <2> QED
    BY <2>1, <2>2, <2>3
<1>4. CASE FailConvert
  <2>1. /\ state' = [state EXCEPT ![infer_idx] = "FREE"]
        /\ UNCHANGED <<pixels, read_idx, bridge_pc, prev_rgb>>
    BY <1>4, PoolEffects DEF FailConvert, PathInv, pathVars, bridgeVars
  <2> QED
    BY <2>1
<1>5. CASE GetFrame
  <2>1. /\ read_idx' \in Pool!Idx
        /\ state[read_idx'] = "READY"
        /\ state' = [state EXCEPT ![read_idx'] = "READING"]
        /\ bridge_pc' = "map"
        /\ UNCHANGED pixels
    BY <1>5, PoolEffects DEF GetFrame, PathInv
  <2> QED
    BY <2>1
<1>6. CASE AwaitFrame
  BY <1>6, <1>1, PoolEffects DEF AwaitFrame, PathInv, pathVars, bridgeVars
<1>7. CASE InferBridgeInit \/ EncodeFrame \/ LlmStep
  BY <1>7, <1>1 DEF InferBridgeInit, EncodeFrame, LlmStep, poolVars, pathVars, bridgeVars
<1>8. CASE MapFrame
  BY <1>8, <1>1 DEF MapFrame, MapDma, MapDmaFails, poolVars
<1>9. CASE CompareFrame
  BY <1>9 DEF CompareFrame, Sample, Places, poolVars
<1>10. CASE FeedLlm
  BY <1>10, <1>1 DEF FeedLlm, poolVars, bridgeVars
<1>11. CASE ReleaseFrame
  <2>1. /\ state' = [state EXCEPT ![read_idx] = "FREE"]
        /\ bridge_pc' = "out"
        /\ UNCHANGED <<pixels, read_idx>>
    BY <1>11, PoolEffects DEF ReleaseFrame, PathInv
  <2> QED
    BY <2>1
<1>12. CASE SpuriousWakeup
  BY <1>12, <1>1, PoolEffects DEF SpuriousWakeup, PathInv, poolVars, pathVars, bridgeVars
<1>13. CASE Exited \/ UNCHANGED vars
  BY <1>13, <1>1 DEF Exited, vars, poolVars, pathVars, bridgeVars
<1> QED
  BY <1>2, <1>3, <1>4, <1>5, <1>6, <1>7, <1>8, <1>9, <1>10, <1>11, <1>12, <1>13
     DEF Next, InferStep

\* the baseline follows the comparisons,
LEMMA BaselineNext == PathInv /\ [Next]_vars => Baseline'
<1> SUFFICES ASSUME PathInv, [Next]_vars PROVE Baseline'
  OBVIOUS
<1>1. CASE CompareFrame
  BY <1>1 DEF CompareFrame, Sample, Baseline
<1>2. ASSUME ~CompareFrame PROVE UNCHANGED <<prev_rgb, prev_valid, last_sample>>
  BY <1>2 DEF Next, InferStep, InferBridgeInit, BeginConvert, EndConvert, FailConvert,
     GetFrame, AwaitFrame, MapFrame, MapDma, MapDmaFails, FeedLlm, EncodeFrame,
     ReleaseFrame, LlmStep, SpuriousWakeup, Exited, vars, pathVars, bridgeVars
<1> QED
  BY <1>1, <1>2 DEF PathInv, Baseline

\* and with that every step keeps the whole invariant,
LEMMA NextInv == PathInv /\ [Next]_vars => PathInv'
BY PartsNext, PlacesNext, FedIdsNext, WholeNext, BaselineNext DEF PathInv

\* which holds always.
LEMMA PathInvariant == Spec => []PathInv
BY InitInv, NextInv, PTL DEF Spec

-----------------------------------------------------------------------------
(* What the path implements.                                               *)

\* RgaThread and InferThread use the infer pool as DmaBufChannel says.
THEOREM ImplementsPool == Spec => Pool!Spec
<1>1. Init => Pool!Init
  BY DEF Init
<1> QED
  BY <1>1, PoolStep, PTL DEF Spec, Pool!Spec

\* InferThread, through the bridge, and LlmThread use the encoder and the LLM
\* as InferLlm says.  In particular the ids InferLlm is given only grow: FeedLlm
\* hands over whatever it took from the pool, and the invariant shows it newer.
THEOREM ImplementsLlm == Spec => Llm!Spec
<1>1. Init => Llm!Init
  BY DEF Init
<1> QED
  BY <1>1, LlmStepMaps, PathInvariant, PTL DEF Spec, Llm!Spec

\* A frame is fed at once and newer than the last one fed, and RgaThread always
\* finds a buffer.
Unhindered == FeedsNewer /\ Pool!WriterNeverBlocks

\* The ids given to InferLlmFeedRgb888 only grow, and no frame is lost for want
\* of a buffer.
THEOREM AlwaysUnhindered == Spec => []Unhindered
<1>1. PathInv => Pool!WriterNeverBlocks
  BY PoolProofs!WriterServed, PartsAssumptions
     DEF PathInv, Pool!WriterNeverBlocks, PoolProofs!WriterNeverBlocks,
     Pool!NoWriteCandidate, PoolProofs!NoWriteCandidate, Pool!InState,
     PoolProofs!InState, Pool!Idx, PoolProofs!Idx, Pool!Writer, PoolProofs!Writer,
     Pool!DMA_BUF_FREE, PoolProofs!DMA_BUF_FREE, Pool!DMA_BUF_READY,
     PoolProofs!DMA_BUF_READY
<1> QED
  BY <1>1, InvFeedsNewer, PathInvariant, PTL DEF Unhindered

-----------------------------------------------------------------------------
(* Safety of the path as a whole.                                          *)

\* The gate compares and the encoder encodes the whole picture of the frame
\* InferThread took, and the encoder the one that passed, under its own id.
THEOREM AlwaysEncodesTheFrameItNames == Spec => []EncodesTheFrameItNames
<1>1. PathInv => EncodesTheFrameItNames
  <2> SUFFICES ASSUME PathInv PROVE EncodesTheFrameItNames
    OBVIOUS
  <2>1. bridge_pc = "diff" \/ feed_pc = "encode" =>
            mapped_fd = read_idx /\ infer_pc = "reading"
    BY DEF PathInv, Places
  <2>2. /\ infer_pc = "reading" => state[read_idx] = "READING"
        /\ infer_pc = "reading" => frame_id[read_idx] = last_read
        /\ read_idx \in Pool!Idx
    BY PoolFacts DEF PathInv
  <2> QED
    BY <2>1, <2>2 DEF PathInv, Places, FedIds, Whole, EncodesTheFrameItNames
<1> QED
  BY <1>1, PathInvariant, PTL

\* Whatever the thresholds are, what the gate lets through is the first frame
\* or differs enough from the one compared before it.
THEOREM AlwaysPassesOnlyChanges == Spec => PassesOnlyChanges
<1> DEFINE Passed == bridge_pc = "diff" /\ bridge_pc' = "send" =>
                         last_sample = Torn \/ Changed(last_sample', last_sample)
<1>1. PathInv /\ [Next]_vars => [Passed]_vars
  <2> SUFFICES ASSUME PathInv, [Next]_vars, bridge_pc = "diff", bridge_pc' = "send"
               PROVE  last_sample = Torn \/ Changed(last_sample', last_sample)
    OBVIOUS
  <2>1. CompareFrame
    BY DEF Next, InferStep, InferBridgeInit, BeginConvert, EndConvert, FailConvert,
       GetFrame, AwaitFrame, MapFrame, FeedLlm, EncodeFrame, ReleaseFrame, LlmStep,
       SpuriousWakeup, Exited, vars, pathVars
  <2>2. prev_valid => Changed(last_sample', prev_rgb)
    BY <2>1 DEF CompareFrame, ShouldSend
  <2> QED
    BY <2>2 DEF PathInv, Baseline
<1>2. PassesOnlyChanges <=> [][Passed]_vars
  BY DEF PassesOnlyChanges
<1> QED
  BY <1>1, <1>2, PathInvariant, PTL DEF Spec

\* With frames captured, gated and fed by the threads of main.c, the runtime is
\* never used by encoder and LLM together, no job is dropped, and each holds
\* whole embeddings in order.
THEOREM JobsAlwaysWhole ==
    Spec => [](Llm!EncoderLlmExclusive /\ Llm!NoJobDropped /\ Llm!JobInOrder)
<1>1. PathInv => LlmProofs!EncoderLlmExclusive /\ LlmProofs!NoJobDropped
                    /\ LlmProofs!JobInOrder
  BY LlmProofs!TurnsExclude, LlmProofs!JobsAreInOrder, PartsAssumptions DEF PathInv
<1>2. /\ LlmProofs!EncoderLlmExclusive <=> Llm!EncoderLlmExclusive
      /\ LlmProofs!NoJobDropped <=> Llm!NoJobDropped
      /\ LlmProofs!JobInOrder <=> Llm!JobInOrder
  BY DEF LlmProofs!EncoderLlmExclusive, Llm!EncoderLlmExclusive, LlmProofs!NoJobDropped,
     Llm!NoJobDropped, LlmProofs!JobInOrder, Llm!JobInOrder, LlmProofs!Slots, Llm!Slots
<1> QED
  BY <1>1, <1>2, PathInvariant, PTL

=============================================================================
