---------------------------- MODULE DmaBufChannel ----------------------------
(***************************************************************************)
(* A DMA-BUF pool between one writing and one reading thread, the way      *)
(* main.c uses both of its pools: RgaThread writes the stream pool that    *)
(* PushThread reads, and the infer pool that InferThread reads.            *)
(*                                                                         *)
(* Both writers ask for a buffer with allow_overwrite_ready = 1 and        *)
(* publish with drop_other_ready = 1; they differ in the wait argument,    *)
(* which is the constant Wait.                                             *)
(*                                                                         *)
(* g_exit_flag is the pools' exit flag.  Nothing under src/ sets it or     *)
(* calls DmaBufPoolWakeAll, so RequestExit and the call in ShutDown stand  *)
(* for the owner of the flag: first the flag, then the wake-up.            *)
(***************************************************************************)
EXTENDS DmaBufPool

CONSTANTS
    Wait,                   \* the wait argument of DmaBufPoolGetWriteIndex
    MaxFrame                \* bound on frame ids

ASSUME ChannelAssumption == Wait \in BOOLEAN /\ MaxFrame \in Nat

VARIABLES
    wpc, widx,              \* the writer's position and its dma_idx
    rpc, ridx,              \* the reader's position and its dma_idx
    published,              \* the last frame id published
    last_read               \* history: the last frame id the reader took

poolVars   == <<state, frame_id, waiters>>
writerVars == <<wpc, widx, published>>
readerVars == <<rpc, ridx, last_read>>
vars       == <<poolVars, exit_flag, writerVars, readerVars>>

Writer == "writer"
Reader == "reader"

TypeOK ==
    /\ state \in [Idx -> BufState]
    /\ frame_id \in [Idx -> 0 .. MaxFrame]
    /\ waiters \subseteq {Writer, Reader}
    /\ exit_flag \in BOOLEAN
    /\ wpc \in {"idle", "writing", "stopped"}
    /\ widx \in Idx
    /\ rpc \in {"idle", "reading", "stopped"}
    /\ ridx \in Idx
    /\ published \in 0 .. MaxFrame
    /\ last_read \in 0 .. MaxFrame

Init ==
    /\ PoolInit
    /\ exit_flag = FALSE
    /\ wpc = "idle" /\ widx = 0 /\ published = 0
    /\ rpc = "idle" /\ ridx = 0 /\ last_read = 0

-----------------------------------------------------------------------------
(* RgaThread, as far as one pool sees it.                                  *)

\* The writer gets a buffer to convert into.
BeginWrite ==
    /\ wpc = "idle"
    /\ published < MaxFrame
    /\ \E i \in Idx : GetWriteIndex(Writer, i, TRUE) /\ widx' = i
    /\ wpc' = "writing"
    /\ UNCHANGED <<exit_flag, published, readerVars>>

\* The writer blocks until a buffer comes back.
BlockWrite ==
    /\ wpc = "idle"
    /\ published < MaxFrame
    /\ Wait
    /\ WaitWriteIndex(Writer, TRUE)
    /\ UNCHANGED <<exit_flag, writerVars, readerVars>>

\* The writer gets no buffer.  When an exit was requested it leaves its loop;
\* otherwise it gives the frame up and goes on.  (Its index is -1 now, and not
\* used again.)
RefuseWrite ==
    /\ wpc = "idle"
    /\ NoWriteIndex(Writer, Wait, TRUE)
    /\ wpc' = IF exit_flag THEN "stopped" ELSE "idle"
    /\ UNCHANGED <<exit_flag, widx, published, readerVars>>

\* The conversion succeeded.  Ids only grow; the infer pool skips most.
EndWrite ==
    /\ wpc = "writing"
    /\ \E id \in published + 1 .. MaxFrame :
           Publish(widx, id, TRUE) /\ published' = id
    /\ wpc' = "idle"
    /\ UNCHANGED <<exit_flag, widx, readerVars>>

\* Faulty: the error path keeps the buffer.
AbortWriteLeaks ==
    /\ wpc = "writing"
    /\ wpc' = "idle"
    /\ UNCHANGED <<poolVars, exit_flag, widx, published, readerVars>>

\* The conversion failed.
AbortWrite ==
    /\ wpc = "writing"
    /\ ReleaseIndex(widx)
    /\ wpc' = "idle"
    /\ UNCHANGED <<exit_flag, widx, published, readerVars>>

-----------------------------------------------------------------------------
(* PushThread and InferThread.                                             *)

\* The reader gets a frame.
BeginRead ==
    /\ rpc = "idle"
    /\ \E i \in Idx :
           /\ GetReadIndex(Reader, i)
           /\ ridx' = i
           /\ last_read' = frame_id[i]
    /\ rpc' = "reading"
    /\ UNCHANGED <<exit_flag, writerVars>>

\* The reader blocks until a frame is published.
BlockRead ==
    /\ rpc = "idle"
    /\ WaitReadIndex(Reader)
    /\ UNCHANGED <<exit_flag, writerVars, readerVars>>

\* Faulty: the index is used without looking whether there is one.
StopReadUnchecked ==
    /\ rpc = "idle"
    /\ NoReadIndex(Reader)
    /\ rpc' = "reading"
    /\ ridx' = -1
    /\ UNCHANGED <<exit_flag, writerVars, last_read>>

\* The reader gets -1 and leaves its loop.
StopRead ==
    /\ rpc = "idle"
    /\ NoReadIndex(Reader)
    /\ rpc' = "stopped"
    /\ UNCHANGED <<exit_flag, writerVars, ridx, last_read>>

\* Faulty: a failed push skips the release.
EndReadLeaks ==
    /\ rpc = "reading"
    /\ ReleaseIndex(ridx) \/ UNCHANGED poolVars
    /\ rpc' = "idle"
    /\ UNCHANGED <<exit_flag, writerVars, ridx, last_read>>

\* The reader has pushed or fed the frame, whatever came of it.
EndRead ==
    /\ rpc = "reading"
    /\ ReleaseIndex(ridx)
    /\ rpc' = "idle"
    /\ UNCHANGED <<exit_flag, writerVars, ridx, last_read>>

-----------------------------------------------------------------------------
\* The owner of the exit flag sets it, without the pool's mutex ...
RequestExit ==
    /\ ~exit_flag
    /\ exit_flag' = TRUE
    /\ UNCHANGED <<poolVars, writerVars, readerVars>>

\* ... and wakes whoever is blocked.
ShutDown ==
    /\ exit_flag
    /\ waiters # {}
    /\ WakeAll
    /\ UNCHANGED <<exit_flag, writerVars, readerVars>>

WakeForNothing ==
    /\ SpuriousWakeup
    /\ UNCHANGED <<exit_flag, writerVars, readerVars>>

WriterStep == BeginWrite \/ BlockWrite \/ RefuseWrite \/ EndWrite \/ AbortWrite
ReaderStep == BeginRead \/ BlockRead \/ StopRead \/ EndRead

Next == WriterStep \/ ReaderStep \/ RequestExit \/ ShutDown \/ WakeForNothing

Spec == Init /\ [][Next]_vars

\* Both threads run and their work on a frame ends; an exit is carried through.
FairSpec == Spec /\ WF_vars(WriterStep) /\ WF_vars(ReaderStep) /\ WF_vars(ShutDown)

-----------------------------------------------------------------------------
(* Safety.                                                                 *)

\* A buffer is in WRITING exactly while the writer converts into it and in
\* READING exactly while the reader works on it: the two never share one, and
\* no path of either loop leaves a buffer behind in a state nobody owns.
BuffersOwned ==
    /\ InState(DMA_BUF_WRITING) = IF wpc = "writing" THEN {widx} ELSE {}
    /\ InState(DMA_BUF_READING) = IF rpc = "reading" THEN {ridx} ELSE {}

\* The buffer the reader works on keeps the frame the reader took: what the
\* encoder or the image encoder reads from the fd is not overwritten.
FrameHeldStill == rpc = "reading" => frame_id[ridx] = last_read

\* At most one frame is on offer, it is the newest one published, and the
\* reader has not had it: GetReadIndex, which takes the first READY index
\* rather than the newest frame, never returns an old frame or one twice.
OfferIsNewest ==
    /\ \A i, j \in InState(DMA_BUF_READY) : i = j
    /\ \A i \in InState(DMA_BUF_READY) :
           frame_id[i] = published /\ last_read < published

\* A blocked thread has nothing to wake up for: the one condition variable
\* and pthread_cond_signal never wake the wrong thread and leave the right one
\* asleep.
NoMissedSignal ==
    /\ Reader \in waiters => rpc = "idle" /\ InState(DMA_BUF_READY) = {}
    /\ Writer \in waiters => wpc = "idle" /\ NoWriteCandidate(TRUE)

\* With two buffers or more the writer always finds one: RgaThread never
\* blocks in DmaBufPoolGetWriteIndex, however long the reader keeps its buffer.
WriterNeverBlocks ==
    Count >= 2 => /\ Writer \notin waiters
                  /\ wpc = "idle" => ~NoWriteCandidate(TRUE)

\* The writer takes a published frame back only while the reader is busy with
\* another one.  (Two buffers or more.)
ReclaimsOnlyFromBusyReader ==
    [][Count >= 2 /\ rpc # "reading"
        => \A i \in InState(DMA_BUF_READY) : state'[i] # DMA_BUF_WRITING]_vars

-----------------------------------------------------------------------------
(* Liveness.                                                               *)

\* Under FairSpec: a published frame gets the reader to work, if only because
\* it is still busy with the one before.
OfferIsAnswered ==
    InState(DMA_BUF_READY) # {} ~> (rpc = "reading" \/ exit_flag)

\* Under FairSpec: a requested exit stops both threads.
ExitStopsThreads == exit_flag ~> (wpc = "stopped" /\ rpc = "stopped")

-----------------------------------------------------------------------------
\* The channel implements the mailbox.
IdOf(S) == IF S = {} THEN 0 ELSE frame_id[CHOOSE i \in S : TRUE]

Mailbox == INSTANCE LatestFrame WITH
    last  <- published,
    slot  <- IdOf(InState(DMA_BUF_READY)),
    inUse <- IdOf(InState(DMA_BUF_READING))

MailboxSpec == Mailbox!Spec

=============================================================================
