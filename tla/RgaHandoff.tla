----------------------------- MODULE RgaHandoff -----------------------------
(***************************************************************************)
(* The camera loop of main.c and its hand-over of one frame at a time to   *)
(* RgaThread.                                                              *)
(*                                                                         *)
(* main dequeues a V4L2 buffer (GetFrame), hands it over and waits         *)
(* (RgaSubmitAndWait), and queues it again (PutFrame).  The buffer is      *)
(* shared memory: once queued, the camera writes it.  Only the handshake   *)
(* g_rga_job_pending / g_rga_job_done keeps it out of the queue while the  *)
(* RGA reads it.                                                           *)
(*                                                                         *)
(* g_exit_flag is 0 for ever (nothing under src/ assigns it), so its       *)
(* branches are left out; so is the wait for !g_rga_job_pending at the top *)
(* of RgaSubmitAndWait: RgaHandoffProofs proves that it never blocks.      *)
(* The process ends when GetFrame or PutFrame fails: main returns and      *)
(* every thread dies with it.                                              *)
(***************************************************************************)
EXTENDS Integers

CONSTANTS
    Buffers,                \* the V4L2 buffers, iVideoBufCnt of them
    NoBuffer                \* a T_VideoBuf full of zeroes

ASSUME BuffersAssumption == NoBuffer \notin Buffers

VARIABLES
    running,                \* FALSE once main has returned
    queued,                 \* the buffers the driver owns
    cap_pc,                 \* where main is
    tVideoBuf,              \* main's buffer, iVideoBufCurIndex of the device
    g_rga_job, g_rga_job_pending, g_rga_job_done,
    job_wait, done_wait,    \* blocked on g_rga_job_cond, g_rga_done_cond
    rga_pc,                 \* where RgaThread is
    raw_buf,                \* RgaThread's copy of the job
    conversions             \* history: jobs done with since the last GetFrame

jobVars == <<g_rga_job, g_rga_job_pending, g_rga_job_done>>
capVars == <<running, queued, cap_pc, tVideoBuf>>
rgaVars == <<rga_pc, raw_buf, conversions>>
vars    == <<capVars, jobVars, job_wait, done_wait, rgaVars>>

TypeOK ==
    /\ running \in BOOLEAN
    /\ queued \subseteq Buffers
    /\ cap_pc \in {"get", "submit", "wait", "put"}
    /\ tVideoBuf \in Buffers \cup {NoBuffer}
    /\ g_rga_job \in Buffers \cup {NoBuffer}
    /\ g_rga_job_pending \in BOOLEAN
    /\ g_rga_job_done \in BOOLEAN
    /\ job_wait \in BOOLEAN
    /\ done_wait \in BOOLEAN
    /\ rga_pc \in {"idle", "converting"}
    /\ raw_buf \in Buffers \cup {NoBuffer}
    /\ conversions \in {0, 1}

\* main has started the device and created RgaThread.
Init ==
    /\ running = TRUE
    /\ queued = Buffers
    /\ cap_pc = "get"
    /\ tVideoBuf = NoBuffer
    /\ g_rga_job = NoBuffer
    /\ g_rga_job_pending = FALSE
    /\ g_rga_job_done = FALSE
    /\ job_wait = FALSE
    /\ done_wait = FALSE
    /\ rga_pc = "idle"
    /\ raw_buf = NoBuffer
    /\ conversions = 0

-----------------------------------------------------------------------------
(* main.                                                                   *)

\* V4l2GetFrameForStreaming: the driver gives out a buffer it has filled.
GetFrame ==
    /\ running
    /\ cap_pc = "get"
    /\ \E b \in queued :
           /\ queued' = queued \ {b}
           /\ tVideoBuf' = b
    /\ cap_pc' = "submit"
    /\ conversions' = 0
    /\ UNCHANGED <<running, jobVars, job_wait, done_wait, rga_pc, raw_buf>>

\* Faulty: g_rga_job_done is not cleared.
SubmitJobKeepsDone ==
    /\ running
    /\ cap_pc = "submit"
    /\ ~g_rga_job_pending
    /\ g_rga_job' = tVideoBuf
    /\ g_rga_job_pending' = TRUE
    /\ job_wait' = FALSE
    /\ done_wait' = ~g_rga_job_done
    /\ cap_pc' = "wait"
    /\ UNCHANGED <<running, queued, tVideoBuf, g_rga_job_done, rgaVars>>

\* Faulty: RgaThread is not told.
SubmitJobSilently ==
    /\ running
    /\ cap_pc = "submit"
    /\ ~g_rga_job_pending
    /\ g_rga_job' = tVideoBuf
    /\ g_rga_job_done' = FALSE
    /\ g_rga_job_pending' = TRUE
    /\ done_wait' = TRUE
    /\ cap_pc' = "wait"
    /\ UNCHANGED <<running, queued, tVideoBuf, job_wait, rgaVars>>

\* RgaSubmitAndWait up to its second wait, one critical section: the done
\* flag was just cleared, so main always blocks.
SubmitJob ==
    /\ running
    /\ cap_pc = "submit"
    /\ ~g_rga_job_pending
    /\ g_rga_job' = tVideoBuf
    /\ g_rga_job_done' = FALSE
    /\ g_rga_job_pending' = TRUE
    /\ job_wait' = FALSE
    /\ done_wait' = TRUE
    /\ cap_pc' = "wait"
    /\ UNCHANGED <<running, queued, tVideoBuf, rgaVars>>

\* Faulty: `if` for `while` around the wait.
AwaitDoneOnce ==
    /\ running
    /\ cap_pc = "wait"
    /\ ~done_wait
    /\ cap_pc' = "put"
    /\ UNCHANGED <<running, queued, tVideoBuf, jobVars, job_wait, done_wait, rgaVars>>

\* main is awake and looks at g_rga_job_done: it returns or blocks again.
AwaitDone ==
    /\ running
    /\ cap_pc = "wait"
    /\ ~done_wait
    /\ \/ g_rga_job_done /\ cap_pc' = "put" /\ UNCHANGED done_wait
       \/ ~g_rga_job_done /\ done_wait' = TRUE /\ UNCHANGED cap_pc
    /\ UNCHANGED <<running, queued, tVideoBuf, jobVars, job_wait, rgaVars>>

\* V4l2PutFrameForStreaming: the buffer is the camera's again.
PutFrame ==
    /\ running
    /\ cap_pc = "put"
    /\ queued' = queued \cup {tVideoBuf}
    /\ cap_pc' = "get"
    /\ UNCHANGED <<running, tVideoBuf, jobVars, job_wait, done_wait, rgaVars>>

\* poll, VIDIOC_DQBUF or VIDIOC_QBUF fails: main returns -1.
CaptureFails ==
    /\ running
    /\ cap_pc \in {"get", "put"}
    /\ running' = FALSE
    /\ UNCHANGED <<queued, cap_pc, tVideoBuf, jobVars, job_wait, done_wait, rgaVars>>

-----------------------------------------------------------------------------
(* RgaThread.                                                              *)

\* RgaThread is awake and looks at g_rga_job_pending: it takes the job ...
TakeJob ==
    /\ running
    /\ rga_pc = "idle"
    /\ ~job_wait
    /\ g_rga_job_pending
    /\ raw_buf' = g_rga_job
    /\ g_rga_job_pending' = FALSE
    /\ rga_pc' = "converting"
    /\ UNCHANGED <<capVars, g_rga_job, g_rga_job_done, job_wait, done_wait, conversions>>

\* ... or blocks.
AwaitJob ==
    /\ running
    /\ rga_pc = "idle"
    /\ ~job_wait
    /\ ~g_rga_job_pending
    /\ job_wait' = TRUE
    /\ UNCHANGED <<capVars, jobVars, done_wait, rgaVars>>

\* Faulty: main is not told.
ReportDoneSilently ==
    /\ running
    /\ rga_pc = "converting"
    /\ g_rga_job_done' = TRUE
    /\ rga_pc' = "idle"
    /\ conversions' = conversions + 1
    /\ UNCHANGED <<capVars, g_rga_job, g_rga_job_pending, job_wait, done_wait, raw_buf>>

\* RgaThread is done with the camera's buffer, whether or not it could
\* convert it.  (What it does in between is in VideoPipeline.)
ReportDone ==
    /\ running
    /\ rga_pc = "converting"
    /\ g_rga_job_done' = TRUE
    /\ done_wait' = FALSE
    /\ rga_pc' = "idle"
    /\ conversions' = conversions + 1
    /\ UNCHANGED <<capVars, g_rga_job, g_rga_job_pending, job_wait, raw_buf>>

\* pthread_cond_wait may return although nobody signalled.
SpuriousWakeup ==
    /\ running
    /\ \/ job_wait /\ job_wait' = FALSE /\ UNCHANGED done_wait
       \/ done_wait /\ done_wait' = FALSE /\ UNCHANGED job_wait
    /\ UNCHANGED <<capVars, jobVars, rgaVars>>

Exited == ~running /\ UNCHANGED vars

RgaStep == TakeJob \/ AwaitJob \/ ReportDone
CaptureStep == SubmitJob \/ AwaitDone \/ PutFrame

Next ==
    \/ GetFrame \/ CaptureStep \/ CaptureFails
    \/ RgaStep \/ SpuriousWakeup \/ Exited

Spec == Init /\ [][Next]_vars

\* Both threads run and the RGA's conversions end.  The camera need not
\* deliver another frame.
FairSpec == Spec /\ WF_vars(CaptureStep) /\ WF_vars(RgaStep)

-----------------------------------------------------------------------------
\* The camera never owns the buffer the RGA reads.
CameraBufferStable == rga_pc = "converting" => raw_buf \notin queued

\* A frame goes back to the camera after RgaThread has been through it once:
\* a g_rga_job_done left over from the frame before does not let it pass.
ConvertedOnce == cap_pc = "put" => conversions = 1 /\ raw_buf = tVideoBuf

\* main holds at most one buffer and loses none: the driver has the others.
OneBufferOut == queued = IF cap_pc = "get" THEN Buffers ELSE Buffers \ {tVideoBuf}

\* Whoever is blocked has nothing to wake up for, and the two are not both
\* blocked waiting for each other.
NoMissedSignal ==
    /\ job_wait => rga_pc = "idle" /\ ~g_rga_job_pending
    /\ done_wait => cap_pc = "wait" /\ ~g_rga_job_done
    /\ ~(job_wait /\ done_wait)

\* Every buffer main takes out of the queue goes back.
FrameReturns == cap_pc = "submit" ~> (cap_pc = "get" \/ ~running)

=============================================================================
