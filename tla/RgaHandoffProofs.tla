-------------------------- MODULE RgaHandoffProofs --------------------------
(***************************************************************************)
(* Proofs, for any number of V4L2 buffers, of RgaHandoff's safety.         *)
(***************************************************************************)
EXTENDS RgaHandoff, TLAPS

\* Where the frame is: with main, in g_rga_job, with RgaThread, or done with.
\* The two flags and the two positions are never in any other combination.
WithMain ==
    /\ rga_pc = "idle"
    /\ ~g_rga_job_pending
    /\ cap_pc = "submit" => conversions = 0

InJob ==
    /\ rga_pc = "idle"
    /\ g_rga_job_pending /\ ~g_rga_job_done
    /\ g_rga_job = tVideoBuf
    /\ conversions = 0

WithRga ==
    /\ rga_pc = "converting"
    /\ ~g_rga_job_pending /\ ~g_rga_job_done
    /\ raw_buf = tVideoBuf
    /\ conversions = 0

Done ==
    /\ rga_pc = "idle"
    /\ ~g_rga_job_pending /\ g_rga_job_done
    /\ raw_buf = tVideoBuf
    /\ conversions = 1

FramePlace ==
    /\ cap_pc \in {"get", "submit"} => WithMain
    /\ cap_pc = "wait" => InJob \/ WithRga \/ Done
    /\ cap_pc = "put" => Done
    /\ cap_pc # "get" => tVideoBuf \in Buffers

\* A blocked thread is at its wait and its flag is down.
Asleep ==
    /\ job_wait => rga_pc = "idle" /\ ~g_rga_job_pending
    /\ done_wait => cap_pc = "wait" /\ ~g_rga_job_done

HandoffInv == TypeOK /\ FramePlace /\ OneBufferOut /\ Asleep

LEMMA InitInv == Init => HandoffInv
BY DEF Init, HandoffInv, TypeOK, FramePlace, WithMain, OneBufferOut, Asleep

LEMMA NextInv == HandoffInv /\ [Next]_vars => HandoffInv'
<1> SUFFICES ASSUME HandoffInv, [Next]_vars PROVE HandoffInv'
  OBVIOUS
<1> USE DEF HandoffInv, TypeOK, FramePlace, WithMain, InJob, WithRga, Done,
            OneBufferOut, Asleep, capVars, jobVars, rgaVars
<1>1. CASE GetFrame
  BY <1>1 DEF GetFrame
<1>2. CASE SubmitJob
  BY <1>2 DEF SubmitJob
<1>3. CASE AwaitDone
  <2>1. TypeOK'
    BY <1>3 DEF AwaitDone
  <2>2. FramePlace'
    BY <1>3 DEF AwaitDone
  <2>3. OneBufferOut'
    BY <1>3 DEF AwaitDone
  <2>4. Asleep'
    BY <1>3 DEF AwaitDone
  <2> QED
    BY <2>1, <2>2, <2>3, <2>4
<1>4. CASE PutFrame
  BY <1>4 DEF PutFrame
<1>5. CASE CaptureFails
  BY <1>5 DEF CaptureFails
<1>6. CASE TakeJob
  BY <1>6 DEF TakeJob
<1>7. CASE AwaitJob
  BY <1>7 DEF AwaitJob
<1>8. CASE ReportDone
  <2>1. TypeOK'
    <3>1. WithRga
      BY <1>8 DEF ReportDone
    <3>2. conversions' = 1
      BY <1>8, <3>1 DEF ReportDone
    <3> QED
      BY <1>8, <3>2 DEF ReportDone
  <2>2. FramePlace'
    <3>1. cap_pc = "wait" /\ WithRga
      BY <1>8 DEF ReportDone
    <3>2. Done'
      BY <1>8, <3>1 DEF ReportDone
    <3> QED
      BY <1>8, <3>1, <3>2 DEF ReportDone
  <2>3. OneBufferOut'
    BY <1>8 DEF ReportDone
  <2>4. Asleep'
    BY <1>8 DEF ReportDone
  <2> QED
    BY <2>1, <2>2, <2>3, <2>4
<1>9. CASE SpuriousWakeup
  <2>1. TypeOK'
    BY <1>9 DEF SpuriousWakeup
  <2>2. FramePlace'
    BY <1>9 DEF SpuriousWakeup
  <2>3. OneBufferOut'
    BY <1>9 DEF SpuriousWakeup
  <2>4. Asleep'
    BY <1>9 DEF SpuriousWakeup
  <2> QED
    BY <2>1, <2>2, <2>3, <2>4
<1>10. CASE Exited \/ UNCHANGED vars
  BY <1>10 DEF Exited, vars
<1> QED
  BY <1>1, <1>2, <1>3, <1>4, <1>5, <1>6, <1>7, <1>8, <1>9, <1>10
     DEF Next, CaptureStep, RgaStep

LEMMA HandoffInvariant == Spec => []HandoffInv
BY InitInv, NextInv, PTL DEF Spec

-----------------------------------------------------------------------------
\* Every variable keeps its type; conversions never passes 1.
THEOREM TypeCorrect == Spec => []TypeOK
<1>1. HandoffInv => TypeOK
  BY DEF HandoffInv
<1> QED
  BY <1>1, HandoffInvariant, PTL

LEMMA CameraApart == HandoffInv => CameraBufferStable
BY DEF HandoffInv, TypeOK, FramePlace, WithMain, InJob, WithRga, Done,
   OneBufferOut, CameraBufferStable

\* The RGA never reads a buffer the camera may write.
THEOREM CameraBufferAlwaysStable == Spec => []CameraBufferStable
BY CameraApart, HandoffInvariant, PTL

\* No frame goes back unconverted, none is converted twice.
THEOREM AlwaysConvertedOnce == Spec => []ConvertedOnce
<1>1. HandoffInv => ConvertedOnce
  BY DEF HandoffInv, FramePlace, Done, ConvertedOnce
<1> QED
  BY <1>1, HandoffInvariant, PTL

\* main and RgaThread never sleep through a signal or on each other.
THEOREM SignalsSuffice == Spec => []NoMissedSignal
<1>1. HandoffInv => NoMissedSignal
  BY DEF HandoffInv, FramePlace, InJob, WithRga, Done, Asleep, NoMissedSignal
<1> QED
  BY <1>1, HandoffInvariant, PTL

\* The wait for !g_rga_job_pending at the top of RgaSubmitAndWait never blocks.
THEOREM SubmitNeverBlocks == Spec => [](cap_pc = "submit" => ~g_rga_job_pending)
<1>1. HandoffInv => (cap_pc = "submit" => ~g_rga_job_pending)
  BY DEF HandoffInv, FramePlace, WithMain
<1> QED
  BY <1>1, HandoffInvariant, PTL

\* The driver has every buffer but the one main works on.
THEOREM AlwaysOneBufferOut == Spec => []OneBufferOut
<1>1. HandoffInv => OneBufferOut
  BY DEF HandoffInv
<1> QED
  BY <1>1, HandoffInvariant, PTL

=============================================================================
