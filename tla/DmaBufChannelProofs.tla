------------------------- MODULE DmaBufChannelProofs -------------------------
(***************************************************************************)
(* Proofs, for every Count, Wait and MaxFrame, of what the runs of         *)
(* DmaBufChannel check on two buffers or one.                              *)
(***************************************************************************)
EXTENDS DmaBufChannel, TLAPS

\* What the reader took was published before, and ids start at 1.
ReadWasPublished ==
    /\ last_read <= published
    /\ rpc = "reading" => last_read > 0

\* The inductive invariant: the safety properties lean on one another.
ChannelInv ==
    /\ TypeOK
    /\ BuffersOwned
    /\ FrameHeldStill
    /\ OfferIsNewest
    /\ NoMissedSignal
    /\ ReadWasPublished

USE CountAssumption, ChannelAssumption DEF DMA_BUF_FREE, DMA_BUF_WRITING,
    DMA_BUF_READY, DMA_BUF_READING, Writer, Reader, Idx, BufState

-----------------------------------------------------------------------------
(* BuffersOwned and NoMissedSignal, buffer by buffer.                      *)

Owned ==
    \A i \in Idx : /\ state[i] = DMA_BUF_WRITING <=> wpc = "writing" /\ i = widx
                   /\ state[i] = DMA_BUF_READING <=> rpc = "reading" /\ i = ridx

LEMMA OwnedPointwise == TypeOK => (BuffersOwned <=> Owned)
<1> SUFFICES ASSUME TypeOK PROVE BuffersOwned <=> Owned
  OBVIOUS
<1> USE DEF TypeOK, InState
<1>1. (InState(DMA_BUF_WRITING) = IF wpc = "writing" THEN {widx} ELSE {})
        <=> \A i \in Idx : state[i] = DMA_BUF_WRITING <=> wpc = "writing" /\ i = widx
  <2>1. CASE wpc = "writing"
    BY <2>1
  <2>2. CASE wpc # "writing"
    BY <2>2
  <2> QED
    BY <2>1, <2>2
<1>2. (InState(DMA_BUF_READING) = IF rpc = "reading" THEN {ridx} ELSE {})
        <=> \A i \in Idx : state[i] = DMA_BUF_READING <=> rpc = "reading" /\ i = ridx
  <2>1. CASE rpc = "reading"
    BY <2>1
  <2>2. CASE rpc # "reading"
    BY <2>2
  <2> QED
    BY <2>1, <2>2
<1> QED
  BY <1>1, <1>2, Zenon DEF BuffersOwned, Owned

LEMMA OwnedPointwiseNext == (TypeOK => (BuffersOwned <=> Owned))'
BY OwnedPointwise, PTL

LEMMA InitInv == Init => ChannelInv
<1> SUFFICES ASSUME Init PROVE ChannelInv
  OBVIOUS
<1>1. TypeOK
  <2>1. state \in [Idx -> BufState]
    BY DEF Init, PoolInit
  <2>2. 0 \in 0 .. MaxFrame /\ 0 \in Idx
    OBVIOUS
  <2>3. frame_id \in [Idx -> 0 .. MaxFrame]
    BY <2>2 DEF Init, PoolInit
  <2> QED
    BY <2>1, <2>2, <2>3 DEF Init, PoolInit, TypeOK
<1>2. BuffersOwned
  BY DEF Init, PoolInit, BuffersOwned, InState
<1>3. FrameHeldStill /\ OfferIsNewest /\ NoMissedSignal /\ ReadWasPublished
  BY DEF Init, PoolInit, FrameHeldStill, OfferIsNewest, NoMissedSignal,
         ReadWasPublished, InState
<1> QED
  BY <1>1, <1>2, <1>3 DEF ChannelInv

LEMMA BeginWriteInv == ChannelInv /\ BeginWrite => ChannelInv'
<1> SUFFICES ASSUME ChannelInv, BeginWrite PROVE ChannelInv'
  OBVIOUS
<1> USE DEF ChannelInv, BeginWrite, GetWriteIndex, WriteCandidate, IsFirst, readerVars
<1>1. TypeOK'
  BY DEF TypeOK
<1>2. BuffersOwned'
  <2>1. Owned
    BY OwnedPointwise
  <2>2. Owned'
    BY <2>1 DEF Owned, TypeOK, InState
  <2> QED
    BY <1>1, <2>2, OwnedPointwiseNext
<1>3. FrameHeldStill'
  BY DEF FrameHeldStill, TypeOK, BuffersOwned, InState
<1>4. OfferIsNewest'
  BY DEF OfferIsNewest, TypeOK, ReadWasPublished, InState
<1>5. NoMissedSignal'
  BY DEF NoMissedSignal, NoWriteCandidate, TypeOK, InState
<1>6. ReadWasPublished'
  BY DEF ReadWasPublished, OfferIsNewest, TypeOK, InState
<1> QED
  BY <1>1, <1>2, <1>3, <1>4, <1>5, <1>6

LEMMA BlockWriteInv == ChannelInv /\ BlockWrite => ChannelInv'
<1> SUFFICES ASSUME ChannelInv, BlockWrite PROVE ChannelInv'
  OBVIOUS
<1> USE DEF ChannelInv, BlockWrite, WaitWriteIndex, CondWait, writerVars, readerVars
<1>1. TypeOK'
  BY DEF TypeOK
<1>2. BuffersOwned'
  <2>1. Owned
    BY OwnedPointwise
  <2>2. Owned'
    BY <2>1 DEF Owned, TypeOK, InState
  <2> QED
    BY <1>1, <2>2, OwnedPointwiseNext
<1>3. FrameHeldStill'
  BY DEF FrameHeldStill, TypeOK, BuffersOwned, InState
<1>4. OfferIsNewest'
  BY DEF OfferIsNewest, TypeOK, ReadWasPublished, InState
<1>5. NoMissedSignal'
  BY DEF NoMissedSignal, NoWriteCandidate, TypeOK, InState
<1>6. ReadWasPublished'
  BY DEF ReadWasPublished, OfferIsNewest, TypeOK, InState
<1> QED
  BY <1>1, <1>2, <1>3, <1>4, <1>5, <1>6

LEMMA RefuseWriteInv == ChannelInv /\ RefuseWrite => ChannelInv'
<1> SUFFICES ASSUME ChannelInv, RefuseWrite PROVE ChannelInv'
  OBVIOUS
<1> USE DEF ChannelInv, RefuseWrite, NoWriteIndex, readerVars
<1>1. TypeOK'
  BY DEF TypeOK
<1>2. BuffersOwned'
  <2>1. Owned
    BY OwnedPointwise
  <2>2. Owned'
    BY <2>1 DEF Owned, TypeOK, InState
  <2> QED
    BY <1>1, <2>2, OwnedPointwiseNext
<1>3. FrameHeldStill'
  BY DEF FrameHeldStill, TypeOK, BuffersOwned, InState
<1>4. OfferIsNewest'
  BY DEF OfferIsNewest, TypeOK, ReadWasPublished, InState
<1>5. NoMissedSignal'
  BY DEF NoMissedSignal, NoWriteCandidate, TypeOK, InState
<1>6. ReadWasPublished'
  BY DEF ReadWasPublished, OfferIsNewest, TypeOK, InState
<1> QED
  BY <1>1, <1>2, <1>3, <1>4, <1>5, <1>6

LEMMA EndWriteInv == ChannelInv /\ EndWrite => ChannelInv'
<1> SUFFICES ASSUME ChannelInv, EndWrite PROVE ChannelInv'
  OBVIOUS
<1> USE DEF ChannelInv, EndWrite, Publish, Signal, readerVars
<1>1. TypeOK'
  <2>1. PICK id \in published + 1 .. MaxFrame :
            Publish(widx, id, TRUE) /\ published' = id
    OBVIOUS
  <2>2. state' \in [Idx -> BufState]
    BY <2>1 DEF TypeOK
  <2>3. id \in 0 .. MaxFrame
    BY DEF TypeOK
  <2>4. frame_id' \in [Idx -> 0 .. MaxFrame]
    BY <2>1, <2>3 DEF TypeOK
  <2> QED
    BY <2>1, <2>2, <2>3, <2>4 DEF TypeOK
<1>2. BuffersOwned'
  <2>1. Owned
    BY OwnedPointwise
  <2>2. Owned'
    BY <2>1 DEF Owned, TypeOK, InState
  <2> QED
    BY <1>1, <2>2, OwnedPointwiseNext
<1>3. FrameHeldStill'
  BY DEF FrameHeldStill, TypeOK, BuffersOwned, InState
<1>4. OfferIsNewest'
  BY DEF OfferIsNewest, TypeOK, ReadWasPublished, InState
<1>5. NoMissedSignal'
  BY DEF NoMissedSignal, NoWriteCandidate, TypeOK, InState
<1>6. ReadWasPublished'
  BY DEF ReadWasPublished, OfferIsNewest, TypeOK, InState
<1> QED
  BY <1>1, <1>2, <1>3, <1>4, <1>5, <1>6

LEMMA AbortWriteInv == ChannelInv /\ AbortWrite => ChannelInv'
<1> SUFFICES ASSUME ChannelInv, AbortWrite PROVE ChannelInv'
  OBVIOUS
<1> USE DEF ChannelInv, AbortWrite, ReleaseIndex, Signal, readerVars
<1>1. TypeOK'
  BY DEF TypeOK
<1>2. BuffersOwned'
  <2>1. Owned
    BY OwnedPointwise
  <2>2. Owned'
    BY <2>1 DEF Owned, TypeOK, InState
  <2> QED
    BY <1>1, <2>2, OwnedPointwiseNext
<1>3. FrameHeldStill'
  BY DEF FrameHeldStill, TypeOK, BuffersOwned, InState
<1>4. OfferIsNewest'
  BY DEF OfferIsNewest, TypeOK, ReadWasPublished, InState
<1>5. NoMissedSignal'
  BY DEF NoMissedSignal, NoWriteCandidate, TypeOK, InState
<1>6. ReadWasPublished'
  BY DEF ReadWasPublished, OfferIsNewest, TypeOK, InState
<1> QED
  BY <1>1, <1>2, <1>3, <1>4, <1>5, <1>6

LEMMA BeginReadInv == ChannelInv /\ BeginRead => ChannelInv'
<1> SUFFICES ASSUME ChannelInv, BeginRead PROVE ChannelInv'
  OBVIOUS
<1> USE DEF ChannelInv, BeginRead, GetReadIndex, IsFirst, writerVars
<1>1. TypeOK'
  BY DEF TypeOK
<1>2. BuffersOwned'
  <2>1. Owned
    BY OwnedPointwise
  <2>2. Owned'
    BY <2>1 DEF Owned, TypeOK, InState
  <2> QED
    BY <1>1, <2>2, OwnedPointwiseNext
<1>3. FrameHeldStill'
  BY DEF FrameHeldStill, TypeOK, BuffersOwned, InState
<1>4. OfferIsNewest'
  BY DEF OfferIsNewest, TypeOK, ReadWasPublished, InState
<1>5. NoMissedSignal'
  BY DEF NoMissedSignal, NoWriteCandidate, TypeOK, InState
<1>6. ReadWasPublished'
  BY DEF ReadWasPublished, OfferIsNewest, TypeOK, InState
<1> QED
  BY <1>1, <1>2, <1>3, <1>4, <1>5, <1>6

LEMMA BlockReadInv == ChannelInv /\ BlockRead => ChannelInv'
<1> SUFFICES ASSUME ChannelInv, BlockRead PROVE ChannelInv'
  OBVIOUS
<1> USE DEF ChannelInv, BlockRead, WaitReadIndex, CondWait, writerVars, readerVars
<1>1. TypeOK'
  BY DEF TypeOK
<1>2. BuffersOwned'
  <2>1. Owned
    BY OwnedPointwise
  <2>2. Owned'
    BY <2>1 DEF Owned, TypeOK, InState
  <2> QED
    BY <1>1, <2>2, OwnedPointwiseNext
<1>3. FrameHeldStill'
  BY DEF FrameHeldStill, TypeOK, BuffersOwned, InState
<1>4. OfferIsNewest'
  BY DEF OfferIsNewest, TypeOK, ReadWasPublished, InState
<1>5. NoMissedSignal'
  BY DEF NoMissedSignal, NoWriteCandidate, TypeOK, InState
<1>6. ReadWasPublished'
  BY DEF ReadWasPublished, OfferIsNewest, TypeOK, InState
<1> QED
  BY <1>1, <1>2, <1>3, <1>4, <1>5, <1>6

LEMMA StopReadInv == ChannelInv /\ StopRead => ChannelInv'
<1> SUFFICES ASSUME ChannelInv, StopRead PROVE ChannelInv'
  OBVIOUS
<1> USE DEF ChannelInv, StopRead, NoReadIndex, writerVars
<1>1. TypeOK'
  BY DEF TypeOK
<1>2. BuffersOwned'
  <2>1. Owned
    BY OwnedPointwise
  <2>2. Owned'
    BY <2>1 DEF Owned, TypeOK, InState
  <2> QED
    BY <1>1, <2>2, OwnedPointwiseNext
<1>3. FrameHeldStill'
  BY DEF FrameHeldStill, TypeOK, BuffersOwned, InState
<1>4. OfferIsNewest'
  BY DEF OfferIsNewest, TypeOK, ReadWasPublished, InState
<1>5. NoMissedSignal'
  BY DEF NoMissedSignal, NoWriteCandidate, TypeOK, InState
<1>6. ReadWasPublished'
  BY DEF ReadWasPublished, OfferIsNewest, TypeOK, InState
<1> QED
  BY <1>1, <1>2, <1>3, <1>4, <1>5, <1>6

LEMMA EndReadInv == ChannelInv /\ EndRead => ChannelInv'
<1> SUFFICES ASSUME ChannelInv, EndRead PROVE ChannelInv'
  OBVIOUS
<1> USE DEF ChannelInv, EndRead, ReleaseIndex, Signal, writerVars
<1>1. TypeOK'
  BY DEF TypeOK
<1>2. BuffersOwned'
  <2>1. Owned
    BY OwnedPointwise
  <2>2. Owned'
    BY <2>1 DEF Owned, TypeOK, InState
  <2> QED
    BY <1>1, <2>2, OwnedPointwiseNext
<1>3. FrameHeldStill'
  BY DEF FrameHeldStill, TypeOK, BuffersOwned, InState
<1>4. OfferIsNewest'
  BY DEF OfferIsNewest, TypeOK, ReadWasPublished, InState
<1>5. NoMissedSignal'
  BY DEF NoMissedSignal, NoWriteCandidate, TypeOK, InState
<1>6. ReadWasPublished'
  BY DEF ReadWasPublished, OfferIsNewest, TypeOK, InState
<1> QED
  BY <1>1, <1>2, <1>3, <1>4, <1>5, <1>6

LEMMA ShutDownInv == ChannelInv /\ ShutDown => ChannelInv'
<1> SUFFICES ASSUME ChannelInv, ShutDown PROVE ChannelInv'
  OBVIOUS
<1> USE DEF ChannelInv, ShutDown, WakeAll, writerVars, readerVars
<1>1. TypeOK'
  BY DEF TypeOK
<1>2. BuffersOwned'
  <2>1. Owned
    BY OwnedPointwise
  <2>2. Owned'
    BY <2>1 DEF Owned, TypeOK, InState
  <2> QED
    BY <1>1, <2>2, OwnedPointwiseNext
<1>3. FrameHeldStill'
  BY DEF FrameHeldStill, TypeOK, BuffersOwned, InState
<1>4. OfferIsNewest'
  BY DEF OfferIsNewest, TypeOK, ReadWasPublished, InState
<1>5. NoMissedSignal'
  BY DEF NoMissedSignal, NoWriteCandidate, TypeOK, InState
<1>6. ReadWasPublished'
  BY DEF ReadWasPublished, OfferIsNewest, TypeOK, InState
<1> QED
  BY <1>1, <1>2, <1>3, <1>4, <1>5, <1>6

LEMMA WakeForNothingInv == ChannelInv /\ WakeForNothing => ChannelInv'
<1> SUFFICES ASSUME ChannelInv, WakeForNothing PROVE ChannelInv'
  OBVIOUS
<1> USE DEF ChannelInv, WakeForNothing, SpuriousWakeup, writerVars, readerVars
<1>1. TypeOK'
  BY DEF TypeOK
<1>2. BuffersOwned'
  <2>1. Owned
    BY OwnedPointwise
  <2>2. Owned'
    BY <2>1 DEF Owned, TypeOK, InState
  <2> QED
    BY <1>1, <2>2, OwnedPointwiseNext
<1>3. FrameHeldStill'
  BY DEF FrameHeldStill, TypeOK, BuffersOwned, InState
<1>4. OfferIsNewest'
  BY DEF OfferIsNewest, TypeOK, ReadWasPublished, InState
<1>5. NoMissedSignal'
  BY DEF NoMissedSignal, NoWriteCandidate, TypeOK, InState
<1>6. ReadWasPublished'
  BY DEF ReadWasPublished, OfferIsNewest, TypeOK, InState
<1> QED
  BY <1>1, <1>2, <1>3, <1>4, <1>5, <1>6

LEMMA NextInv == ChannelInv /\ [Next]_vars => ChannelInv'
<1> SUFFICES ASSUME ChannelInv, [Next]_vars PROVE ChannelInv'
  OBVIOUS
<1>1. CASE WriterStep
  BY <1>1, BeginWriteInv, BlockWriteInv, RefuseWriteInv, EndWriteInv,
     AbortWriteInv DEF WriterStep
<1>2. CASE ReaderStep
  BY <1>2, BeginReadInv, BlockReadInv, StopReadInv, EndReadInv DEF ReaderStep
<1>3. CASE RequestExit
  BY <1>3 DEF RequestExit, poolVars, writerVars, readerVars, ChannelInv, TypeOK,
     BuffersOwned, FrameHeldStill, OfferIsNewest, NoMissedSignal,
     ReadWasPublished, InState, NoWriteCandidate
<1>4. CASE ShutDown \/ WakeForNothing
  BY <1>4, ShutDownInv, WakeForNothingInv
<1>5. CASE UNCHANGED vars
  BY <1>5 DEF vars, poolVars, writerVars, readerVars, ChannelInv, TypeOK,
     BuffersOwned, FrameHeldStill, OfferIsNewest, NoMissedSignal,
     ReadWasPublished, InState, NoWriteCandidate
<1> QED
  BY <1>1, <1>2, <1>3, <1>4, <1>5 DEF Next

LEMMA ChannelInvariant == Spec => []ChannelInv
BY InitInv, NextInv, PTL DEF Spec

-----------------------------------------------------------------------------
\* Every variable keeps its type.
THEOREM TypeCorrect == Spec => []TypeOK
<1>1. ChannelInv => TypeOK
  BY DEF ChannelInv
<1> QED
  BY <1>1, ChannelInvariant, PTL

\* Reader and writer never share a buffer and none is left behind: WRITING
\* and READING are exactly the buffers the two loops hold.
THEOREM BuffersAlwaysOwned == Spec => []BuffersOwned
<1>1. ChannelInv => BuffersOwned
  BY DEF ChannelInv
<1> QED
  BY <1>1, ChannelInvariant, PTL

\* The frame being encoded is not overwritten.
THEOREM FrameAlwaysHeldStill == Spec => []FrameHeldStill
<1>1. ChannelInv => FrameHeldStill
  BY DEF ChannelInv
<1> QED
  BY <1>1, ChannelInvariant, PTL

\* GetReadIndex can only return the newest frame, and one not read before.
THEOREM OfferAlwaysNewest == Spec => []OfferIsNewest
<1>1. ChannelInv => OfferIsNewest
  BY DEF ChannelInv
<1> QED
  BY <1>1, ChannelInvariant, PTL

\* One condition variable and pthread_cond_signal are enough for a reader and
\* a writer, in a pool of any size.
THEOREM SignalsSuffice == Spec => []NoMissedSignal
<1>1. ChannelInv => NoMissedSignal
  BY DEF ChannelInv
<1> QED
  BY <1>1, ChannelInvariant, PTL

\* In a pool of two buffers or more, RgaThread never blocks for one.
LEMMA CandidateExists ==
    ChannelInv /\ Count >= 2 /\ wpc # "writing" => ~NoWriteCandidate(TRUE)
<1> SUFFICES ASSUME ChannelInv, Count >= 2, wpc # "writing",
                    NoWriteCandidate(TRUE)
             PROVE  FALSE
  OBVIOUS
<1>1. \A i \in Idx : state[i] = DMA_BUF_READING
  BY DEF ChannelInv, TypeOK, BuffersOwned, InState, NoWriteCandidate
<1>2. \A i \in Idx : i = ridx
  BY <1>1, OwnedPointwise DEF ChannelInv, Owned
<1>3. 0 \in Idx /\ 1 \in Idx
  OBVIOUS
<1> QED
  BY <1>2, <1>3

LEMMA WriterServed == ChannelInv => WriterNeverBlocks
BY CandidateExists DEF WriterNeverBlocks, ChannelInv, NoMissedSignal

THEOREM WriterAlwaysServed == Spec => []WriterNeverBlocks
BY WriterServed, ChannelInvariant, PTL

LEMMA OnlyReadyMeansBusy ==
    ASSUME ChannelInv, Count >= 2, wpc = "idle", InState(DMA_BUF_FREE) = {}
    PROVE  rpc = "reading"
<1>1. SUFFICES ASSUME rpc # "reading" PROVE FALSE
  OBVIOUS
<1>2. \A i \in Idx : state[i] = DMA_BUF_READY
  BY <1>1 DEF ChannelInv, TypeOK, BuffersOwned, InState
<1>3. 0 \in InState(DMA_BUF_READY) /\ 1 \in InState(DMA_BUF_READY)
  BY <1>2 DEF InState
<1> QED
  BY <1>3 DEF ChannelInv, OfferIsNewest

\* A frame is taken back from the reader only while it is busy.
THEOREM ReclaimsFromBusyReader == Spec => ReclaimsOnlyFromBusyReader
<1> DEFINE Reclaim == Count >= 2 /\ rpc # "reading"
        => \A i \in InState(DMA_BUF_READY) : state'[i] # DMA_BUF_WRITING
<1>1. ChannelInv /\ [Next]_vars => [Reclaim]_vars
  <2> SUFFICES ASSUME ChannelInv, Next, Count >= 2, rpc # "reading",
                      NEW i \in InState(DMA_BUF_READY)
               PROVE  state'[i] # DMA_BUF_WRITING
    BY DEF Reclaim
  <2> USE DEF InState
  <2>1. CASE BeginWrite
    <3>1. InState(DMA_BUF_FREE) # {}
      BY <2>1, OnlyReadyMeansBusy DEF BeginWrite
    <3>2. PICK j \in Idx : GetWriteIndex(Writer, j, TRUE)
      BY <2>1 DEF BeginWrite
    <3>3. state[j] = DMA_BUF_FREE
      BY <3>1, <3>2 DEF GetWriteIndex, WriteCandidate, IsFirst
    <3> QED
      BY <3>2, <3>3 DEF GetWriteIndex, ChannelInv, TypeOK
  <2>2. CASE EndWrite
    BY <2>2 DEF EndWrite, Publish, ChannelInv, TypeOK
  <2>3. CASE AbortWrite \/ EndRead
    BY <2>3 DEF AbortWrite, EndRead, ReleaseIndex, ChannelInv, TypeOK
  <2>4. CASE BeginRead
    BY <2>4 DEF BeginRead, GetReadIndex, ChannelInv, TypeOK
  <2>5. CASE BlockWrite \/ RefuseWrite \/ BlockRead \/ StopRead \/ RequestExit
             \/ ShutDown \/ WakeForNothing
    BY <2>5 DEF BlockWrite, WaitWriteIndex, RefuseWrite, NoWriteIndex, BlockRead,
       WaitReadIndex, StopRead, NoReadIndex, RequestExit, ShutDown, WakeAll,
       WakeForNothing, SpuriousWakeup, poolVars
  <2> QED
    BY <2>1, <2>2, <2>3, <2>4, <2>5 DEF Next, WriterStep, ReaderStep
<1>2. ReclaimsOnlyFromBusyReader <=> [][Reclaim]_vars
  BY DEF ReclaimsOnlyFromBusyReader
<1> QED
  BY <1>1, <1>2, ChannelInvariant, PTL DEF Spec

\* Each read takes the newest frame there is, and one the reader has not had:
\* PushThread pushes every frame at most once and in order, whatever
\* the writer reclaims and whichever index GetReadIndex meets first.
ReadsGoForward ==
    [][BeginRead => last_read < last_read' /\ last_read' = published]_vars

LEMMA ReadForward ==
    ChannelInv /\ BeginRead => last_read < last_read' /\ last_read' = published
<1> SUFFICES ASSUME ChannelInv, BeginRead
             PROVE  last_read < last_read' /\ last_read' = published
  OBVIOUS
<1>1. PICK i \in InState(DMA_BUF_READY) : last_read' = frame_id[i]
  BY DEF BeginRead, GetReadIndex, IsFirst
<1> QED
  BY <1>1 DEF ChannelInv, OfferIsNewest

\* The reader's frames only get newer, and each is the newest published.
THEOREM ReadsAlwaysGoForward == Spec => ReadsGoForward
<1>1. ChannelInv /\ [Next]_vars
        => [BeginRead => last_read < last_read' /\ last_read' = published]_vars
  BY ReadForward
<1> QED
  BY <1>1, ChannelInvariant, PTL DEF Spec, ReadsGoForward

-----------------------------------------------------------------------------
(* The channel implements the mailbox.                                     *)

\* What the mailbox's variables are, without CHOOSE.
MailboxView ==
    /\ IdOf(InState(DMA_BUF_READY)) =
           IF InState(DMA_BUF_READY) = {} THEN 0 ELSE published
    /\ IdOf(InState(DMA_BUF_READING)) =
           IF rpc = "reading" THEN last_read ELSE 0

LEMMA MailboxIs == ChannelInv => MailboxView
<1> SUFFICES ASSUME ChannelInv PROVE MailboxView
  OBVIOUS
<1> USE DEF ChannelInv
<1>1. IdOf(InState(DMA_BUF_READY)) =
          IF InState(DMA_BUF_READY) = {} THEN 0 ELSE published
  <2>1. CASE InState(DMA_BUF_READY) = {}
    BY <2>1 DEF IdOf
  <2>2. CASE InState(DMA_BUF_READY) # {}
    <3>1. (CHOOSE i \in InState(DMA_BUF_READY) : TRUE) \in InState(DMA_BUF_READY)
      BY <2>2
    <3> QED
      BY <2>2, <3>1 DEF IdOf, OfferIsNewest
  <2> QED
    BY <2>1, <2>2
<1>2. IdOf(InState(DMA_BUF_READING)) = IF rpc = "reading" THEN last_read ELSE 0
  <2>1. CASE rpc = "reading"
    <3>1. InState(DMA_BUF_READING) = {ridx}
      BY <2>1 DEF BuffersOwned
    <3>2. (CHOOSE i \in InState(DMA_BUF_READING) : TRUE) = ridx
      BY <3>1
    <3> QED
      BY <2>1, <3>1, <3>2 DEF IdOf, FrameHeldStill
  <2>2. CASE rpc # "reading"
    BY <2>2 DEF IdOf, BuffersOwned
  <2> QED
    BY <2>1, <2>2
<1> QED
  BY <1>1, <1>2 DEF MailboxView

LEMMA MailboxIsNext == ChannelInv' => MailboxView'
BY MailboxIs, PTL

LEMMA MailboxInit == Init => Mailbox!Init
BY InitInv, MailboxIs DEF MailboxView, Init, PoolInit, Mailbox!Init, InState

LEMMA MailboxStep ==
    ASSUME Count >= 2, ChannelInv, ChannelInv', [Next]_vars
    PROVE  [Mailbox!Next]_(Mailbox!vars)
<1> DEFINE Ready == InState(DMA_BUF_READY)
<1>0. MailboxView /\ MailboxView'
  BY MailboxIs, MailboxIsNext
<1>ok. TypeOK /\ TypeOK'
  BY DEF ChannelInv
<1> USE <1>0, <1>ok DEF MailboxView, Mailbox!vars
\* A step that leaves the offer and the reader's frame alone is a stutter.
<1>1. ASSUME (Ready = {}) <=> (Ready' = {}), UNCHANGED <<published, rpc, last_read>>
      PROVE  UNCHANGED Mailbox!vars
  BY <1>1
<1>2. CASE BeginWrite
  <2>1. UNCHANGED <<published, rpc, last_read>>
    BY <1>2 DEF BeginWrite, readerVars
  <2>2. PICK j \in Idx : GetWriteIndex(Writer, j, TRUE)
    BY <1>2 DEF BeginWrite
  <2>3. CASE InState(DMA_BUF_FREE) # {}
    <3>1. state[j] = DMA_BUF_FREE
      BY <2>2, <2>3 DEF GetWriteIndex, WriteCandidate, IsFirst, InState
    <3>2. Ready' = Ready
      BY <2>2, <3>1 DEF GetWriteIndex, InState, TypeOK
    <3> QED
      BY <1>1, <2>1, <3>2
  <2>4. CASE InState(DMA_BUF_FREE) = {}
    <3>1. rpc = "reading"
      BY <1>2, <2>4, OnlyReadyMeansBusy DEF BeginWrite
    <3>2. j \in Ready
      BY <2>2, <2>4 DEF GetWriteIndex, WriteCandidate, IsFirst
    <3>3. Ready' = {}
      BY <2>2, <3>2 DEF GetWriteIndex, InState, TypeOK, ChannelInv, OfferIsNewest
    <3>4. published # 0 /\ last_read # 0
      BY <3>1, <3>2 DEF ChannelInv, OfferIsNewest, ReadWasPublished, TypeOK
    <3> QED
      BY <2>1, <3>1, <3>2, <3>3, <3>4 DEF Mailbox!Next, Mailbox!Withdraw
  <2> QED
    BY <2>3, <2>4
<1>3. CASE EndWrite
  <2>1. PICK id \in published + 1 .. MaxFrame :
            Publish(widx, id, TRUE) /\ published' = id
    BY <1>3 DEF EndWrite
  <2>2. Ready' # {}
    BY <2>1 DEF Publish, InState, TypeOK
  <2> QED
    BY <1>3, <2>1, <2>2 DEF EndWrite, readerVars, Mailbox!Next, Mailbox!PublishFrame
<1>4. CASE AbortWrite
  <2>1. widx \notin Ready
    BY <1>4 DEF AbortWrite, ChannelInv, BuffersOwned, InState
  <2>2. Ready' = Ready
    BY <1>4, <2>1 DEF AbortWrite, ReleaseIndex, InState, TypeOK
  <2> QED
    BY <1>1, <1>4, <2>2 DEF AbortWrite, readerVars
<1>5. CASE BeginRead
  <2>1. PICK i \in Ready : GetReadIndex(Reader, i) /\ last_read' = frame_id[i]
    BY <1>5 DEF BeginRead, GetReadIndex, IsFirst
  <2>2. last_read' = published
    BY <2>1 DEF ChannelInv, OfferIsNewest
  <2>3. Ready' = {}
    BY <2>1 DEF GetReadIndex, InState, TypeOK, ChannelInv, OfferIsNewest
  <2>4. published # 0
    BY <2>1 DEF ChannelInv, OfferIsNewest, TypeOK
  <2> QED
    BY <1>5, <2>1, <2>2, <2>3, <2>4
       DEF BeginRead, writerVars, Mailbox!Next, Mailbox!Take
<1>6. CASE EndRead
  <2>1. ridx \notin Ready
    BY <1>6 DEF EndRead, ChannelInv, BuffersOwned, InState
  <2>2. Ready' = Ready
    BY <1>6, <2>1 DEF EndRead, ReleaseIndex, InState, TypeOK
  <2> QED
    BY <1>6, <2>2
       DEF EndRead, writerVars, ChannelInv, ReadWasPublished, Mailbox!Next, Mailbox!Finish
<1>7. CASE BlockWrite \/ RefuseWrite \/ BlockRead \/ StopRead \/ RequestExit
           \/ ShutDown \/ WakeForNothing \/ UNCHANGED vars
  <2>1. UNCHANGED <<state, published, last_read>>
    BY <1>7 DEF BlockWrite, WaitWriteIndex, RefuseWrite, NoWriteIndex, BlockRead,
       WaitReadIndex, StopRead, NoReadIndex, RequestExit, ShutDown, WakeAll,
       WakeForNothing, SpuriousWakeup, poolVars, writerVars, readerVars, vars
  <2>2. (rpc = "reading") <=> (rpc' = "reading")
    BY <1>7 DEF BlockWrite, WaitWriteIndex, RefuseWrite, NoWriteIndex, BlockRead,
       WaitReadIndex, StopRead, NoReadIndex, RequestExit, ShutDown, WakeAll,
       WakeForNothing, SpuriousWakeup, poolVars, writerVars, readerVars, vars
  <2> QED
    BY <2>1, <2>2 DEF InState
<1> QED
  BY <1>2, <1>3, <1>4, <1>5, <1>6, <1>7 DEF Next, WriterStep, ReaderStep

\* With two buffers or more the pool is a mailbox of one frame, from which the
\* writer withdraws only while the reader is busy.
THEOREM ChannelImplementsMailbox == ASSUME Count >= 2 PROVE Spec => MailboxSpec
<1>1. ChannelInv /\ ChannelInv' /\ [Next]_vars => [Mailbox!Next]_(Mailbox!vars)
  BY MailboxStep
<1>2. MailboxSpec <=> Mailbox!Init /\ [][Mailbox!Next]_(Mailbox!vars)
  BY DEF MailboxSpec, Mailbox!Spec
<1> QED
  BY <1>1, <1>2, MailboxInit, ChannelInvariant, PTL DEF Spec

=============================================================================
