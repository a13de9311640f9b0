----------------------------- MODULE DmaBufPool -----------------------------
(***************************************************************************)
(* The DMA-BUF pool of dmabuf/dmabuf_manager.c.                            *)
(*                                                                         *)
(* A pool is Count buffers, each in one of four states, and one mutex with *)
(* one condition variable shared by every caller.  Each function takes the *)
(* mutex, scans or changes the states and returns, so its critical section *)
(* is one step here; only pthread_cond_wait gives the mutex up, and a      *)
(* thread blocked in it is a member of waiters.  A thread that is woken    *)
(* runs its loop again from the top, which is the same step as a new call. *)
(*                                                                         *)
(* The module holds the pool's state and operations.  The threads that     *)
(* call them are in DmaBufChannel and VideoPipeline.                       *)
(***************************************************************************)
EXTENDS Integers

CONSTANT Count              \* pool->count

ASSUME CountAssumption == Count \in Nat \ {0}

VARIABLES
    state,                  \* bufs[i].state
    frame_id,               \* bufs[i].frame_id
    waiters,                \* threads blocked on pool->cond
    exit_flag               \* *pool->exit_flag, owned by the pool's user

DMA_BUF_FREE    == "FREE"
DMA_BUF_WRITING == "WRITING"
DMA_BUF_READY   == "READY"
DMA_BUF_READING == "READING"

Idx == 0 .. Count - 1
BufState == {DMA_BUF_FREE, DMA_BUF_WRITING, DMA_BUF_READY, DMA_BUF_READING}

InState(s) == {i \in Idx : state[i] = s}

\* i is where a loop from 0 to Count-1 that looks for a member of S stops.
IsFirst(i, S) == i \in S /\ \A j \in S : i <= j

\* DmaBufPoolInit, when every DmaHeapAlloc succeeds.
PoolInit ==
    /\ state = [i \in Idx |-> DMA_BUF_FREE]
    /\ frame_id = [i \in Idx |-> 0]
    /\ waiters = {}

-----------------------------------------------------------------------------
\* Faulty: the signal is forgotten.
SignalForgotten == UNCHANGED waiters

\* pthread_cond_signal: wakes one thread blocked on the condition, if any.
Signal ==
    \/ waiters = {} /\ UNCHANGED waiters
    \/ \E t \in waiters : waiters' = waiters \ {t}

\* Thread t blocks in pthread_cond_wait.
CondWait(t) == waiters' = waiters \cup {t}

\* Faulty: any buffer but one being written may be overwritten.
WriteCandidateStealsRead(i, allow_overwrite_ready) ==
    \/ IsFirst(i, InState(DMA_BUF_FREE))
    \/ /\ InState(DMA_BUF_FREE) = {}
       /\ allow_overwrite_ready
       /\ IsFirst(i, InState(DMA_BUF_READY) \cup InState(DMA_BUF_READING))

\* Faulty: allow_overwrite_ready is ignored.
WriteCandidateFreeOnly(i, allow_overwrite_ready) == IsFirst(i, InState(DMA_BUF_FREE))

\* The buffer GetWriteIndex settles on: the first free one; when none is free
\* and the caller allows it, the first ready one, whose frame is given up.
WriteCandidate(i, allow_overwrite_ready) ==
    \/ IsFirst(i, InState(DMA_BUF_FREE))
    \/ /\ InState(DMA_BUF_FREE) = {}
       /\ allow_overwrite_ready
       /\ IsFirst(i, InState(DMA_BUF_READY))

NoWriteCandidate(allow_overwrite_ready) ==
    /\ InState(DMA_BUF_FREE) = {}
    /\ allow_overwrite_ready => InState(DMA_BUF_READY) = {}

\* Thread t's DmaBufPoolGetWriteIndex returns the index i.
GetWriteIndex(t, i, allow_overwrite_ready) ==
    /\ t \notin waiters
    /\ ~exit_flag
    /\ WriteCandidate(i, allow_overwrite_ready)
    /\ state' = [state EXCEPT ![i] = DMA_BUF_WRITING]
    /\ UNCHANGED <<frame_id, waiters>>

\* Thread t's DmaBufPoolGetWriteIndex blocks.
WaitWriteIndex(t, allow_overwrite_ready) ==
    /\ t \notin waiters
    /\ ~exit_flag
    /\ NoWriteCandidate(allow_overwrite_ready)
    /\ CondWait(t)
    /\ UNCHANGED <<state, frame_id>>

\* Thread t's DmaBufPoolGetWriteIndex returns -1: an exit was requested, or
\* there is no buffer and the caller does not wait.
NoWriteIndex(t, wait, allow_overwrite_ready) ==
    /\ t \notin waiters
    /\ exit_flag \/ (~wait /\ NoWriteCandidate(allow_overwrite_ready))
    /\ UNCHANGED <<state, frame_id, waiters>>

\* Faulty: frames published before stay on offer.
PublishKeepsOthers(idx, id, drop_other_ready) ==
    /\ state' = [state EXCEPT ![idx] = DMA_BUF_READY]
    /\ frame_id' = [frame_id EXCEPT ![idx] = id]
    /\ Signal

\* DmaBufPoolPublish.
Publish(idx, id, drop_other_ready) ==
    /\ state' = [i \in Idx |->
                    IF i = idx THEN DMA_BUF_READY
                    ELSE IF drop_other_ready /\ state[i] = DMA_BUF_READY
                    THEN DMA_BUF_FREE
                    ELSE state[i]]
    /\ frame_id' = [frame_id EXCEPT ![idx] = id]
    /\ Signal

\* Thread t's DmaBufPoolGetReadIndex returns the index i.
GetReadIndex(t, i) ==
    /\ t \notin waiters
    /\ ~exit_flag
    /\ IsFirst(i, InState(DMA_BUF_READY))
    /\ state' = [state EXCEPT ![i] = DMA_BUF_READING]
    /\ UNCHANGED <<frame_id, waiters>>

\* Faulty: the wait does not look at the exit flag.
WaitReadIndexAnyway(t) ==
    /\ t \notin waiters
    /\ InState(DMA_BUF_READY) = {}
    /\ CondWait(t)
    /\ UNCHANGED <<state, frame_id>>

\* Thread t's DmaBufPoolGetReadIndex blocks.
WaitReadIndex(t) ==
    /\ t \notin waiters
    /\ ~exit_flag
    /\ InState(DMA_BUF_READY) = {}
    /\ CondWait(t)
    /\ UNCHANGED <<state, frame_id>>

\* Thread t's DmaBufPoolGetReadIndex returns -1.
NoReadIndex(t) ==
    /\ t \notin waiters
    /\ exit_flag
    /\ UNCHANGED <<state, frame_id, waiters>>

\* Faulty: nobody is told.
ReleaseIndexSilently(idx) ==
    /\ state' = [state EXCEPT ![idx] = DMA_BUF_FREE]
    /\ UNCHANGED <<frame_id, waiters>>

\* DmaBufPoolReleaseIndex.
ReleaseIndex(idx) ==
    /\ state' = [state EXCEPT ![idx] = DMA_BUF_FREE]
    /\ Signal
    /\ UNCHANGED frame_id

\* DmaBufPoolWakeAll.
WakeAll ==
    /\ waiters' = {}
    /\ UNCHANGED <<state, frame_id>>

\* pthread_cond_wait may return although nobody signalled.
SpuriousWakeup ==
    /\ \E t \in waiters : waiters' = waiters \ {t}
    /\ UNCHANGED <<state, frame_id>>

=============================================================================
