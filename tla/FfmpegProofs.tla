---------------------------- MODULE FfmpegProofs ----------------------------
(***************************************************************************)
(* Proofs about the folder FFmpeg: RtmpStream, for every MaxRetry and      *)
(* EncodeMs, and StreamManager, for every number of attempts and frames.   *)
(*                                                                         *)
(* RtmpStream: Waited carries the drain loop's budget.  After retry empty  *)
(* polls in a row at least retry milliseconds have passed since any frame  *)
(* still in the encoder arrived, because each of them was followed by a    *)
(* sleep; if the encoder is faster than MaxRetry milliseconds, the last    *)
(* poll finds it empty.  StretchesInOrder says that what was written, what *)
(* is ready and what is being encoded are three stretches of the frame     *)
(* numbers, in that order.                                                 *)
(*                                                                         *)
(* StreamManager: Walk is a recursive function over the four positions of  *)
(* a list of three backends, so WalkIs can give its values, and            *)
(* registering all three again goes through two lists that are cut short,  *)
(* with a stale link behind the cut, and ends where it began.  Then come   *)
(* three invariants: the list, what a backend holds once its Init returned *)
(* 0, and the order of the frames in the software encoder.                 *)
(***************************************************************************)
EXTENDS RtmpStream, StreamManager, SequenceTheorems, FiniteSetTheorems, TLAPS

-----------------------------------------------------------------------------
(* RtmpStream. *)

\* Every frame in the encoder is as old as the polling, and not too old.
Waited ==
    /\ \A i \in 1 .. Len(encoding) :
          /\ encoding[i].since <= clock
          /\ clock - encoding[i].since <= EncodeMs
          /\ pc = "poll" => clock >= encoding[i].since + retry
          /\ pc = "sleep" => wake >= encoding[i].since + retry
    /\ retry <= MaxRetry \/ pc = "idle"

\* The frame numbers, from what was written to what was handed over last.
StretchesInOrder ==
    /\ written.frame <= g_frame_count
    /\ written.pts <= g_last_packet_pts
    /\ \A i \in 1 .. Len(packets) :
          written.frame < packets[i] /\ packets[i] <= g_frame_count
    /\ \A i, j \in 1 .. Len(packets) : i < j => packets[i] < packets[j]
    /\ \A i \in 1 .. Len(encoding) :
          written.frame < encoding[i].frame /\ encoding[i].frame <= g_frame_count
    /\ \A i, j \in 1 .. Len(encoding) : i < j => encoding[i].frame < encoding[j].frame
    /\ \A i \in 1 .. Len(packets), j \in 1 .. Len(encoding) : packets[i] < encoding[j].frame

\* What rtmp_PushDma puts in the encoder's queue.
Handed == [frame |-> g_frame_count + 1, since |-> clock]

\* What a frame's record holds.
LEMMA EncodingFields ==
    ASSUME NEW s \in Seq(Encoding), NEW i \in 1 .. Len(s)
    PROVE  s[i] \in Encoding /\ s[i].frame \in Nat /\ s[i].since \in Nat
<1>1. s[i] \in Encoding
  OBVIOUS
<1> QED
  BY <1>1 DEF Encoding

\* A push appends to the encoder's queue.
LEMMA QueueGrows ==
    ASSUME TypeOK, encoding' = Append(encoding, Handed)
    PROVE  /\ Handed \in Encoding
           /\ encoding' \in Seq(Encoding)
           /\ Len(encoding') = Len(encoding) + 1
           /\ \A i \in 1 .. Len(encoding) : encoding'[i] = encoding[i]
           /\ encoding'[Len(encoding) + 1] = Handed
<1>1. Handed \in Encoding
  BY DEF TypeOK, Handed, Encoding
<1>2. encoding \in Seq(Encoding)
  BY DEF TypeOK
<1> HIDE DEF Handed
<1> QED
  BY <1>1, <1>2, AppendProperties

\* The encoder takes the head.
LEMMA QueueShrinks ==
    ASSUME TypeOK, Encode
    PROVE  /\ Head(encoding) = encoding[1]
           /\ Len(encoding) \in Nat \ {0}
           /\ encoding[1] \in Encoding
           /\ encoding' \in Seq(Encoding)
           /\ Len(encoding') = Len(encoding) - 1
           /\ \A i \in 1 .. Len(encoding') : encoding'[i] = encoding[i + 1]
<1>1. encoding \in Seq(Encoding) /\ encoding # <<>> /\ encoding' = Tail(encoding)
  BY DEF TypeOK, Encode
<1> QED
  BY <1>1, HeadTailProperties

\* The variables hold values of their types in every reachable state.
THEOREM Typing == RtmpSpec => []TypeOK
<1>1. RtmpInit => TypeOK
  BY DEF RtmpInit, TypeOK
<1>2. TypeOK /\ [RtmpNext]_rtmpVars => TypeOK'
  <2> SUFFICES ASSUME TypeOK, [RtmpNext]_rtmpVars
               PROVE  TypeOK'
    OBVIOUS
  <2> USE RtmpAssumption DEF streamVars, encoderVars, pushVars
  <2>1. CASE rtmp_PushDma
    <3>1. encoding' \in Seq(Encoding)
      <4>1. CASE encoding' = encoding
        BY <4>1 DEF TypeOK
      <4>2. CASE encoding' = Append(encoding, Handed)
        BY <4>2, QueueGrows
      <4> QED
        BY <2>1, <4>1, <4>2 DEF rtmp_PushDma, Handed
    <3> QED
      BY <2>1, <3>1 DEF rtmp_PushDma, TypeOK
  <2>2. CASE GetPacket
    BY <2>2 DEF GetPacket, write_packet_to_rtmp, get_stream_pts_ms, TypeOK
  <2>3. CASE GetNothing
    BY <2>3 DEF GetNothing, TypeOK
  <2>4. CASE GetFails
    BY <2>4 DEF GetFails, TypeOK
  <2>5. CASE Wake
    BY <2>5 DEF Wake, TypeOK
  <2>6. CASE Encode
    <3>1. Head(encoding).frame \in Nat /\ encoding' \in Seq(Encoding)
      BY <2>6, QueueShrinks DEF Encoding
    <3>2. packets' \in Seq(Nat)
      BY <2>6, <3>1 DEF Encode, TypeOK
    <3> QED
      BY <2>6, <3>1, <3>2 DEF Encode, TypeOK
  <2>7. CASE Tick
    BY <2>7 DEF Tick, TypeOK
  <2>8. CASE UNCHANGED rtmpVars
    BY <2>8 DEF rtmpVars, TypeOK
  <2> QED
    BY <2>1, <2>2, <2>3, <2>4, <2>5, <2>6, <2>7, <2>8 DEF RtmpNext
<1> QED
  BY <1>1, <1>2, PTL DEF RtmpSpec

\* The drain loop's budget is kept by every step.
LEMMA WaitedStep ==
    ASSUME TypeOK, TypeOK', Waited, [RtmpNext]_rtmpVars
    PROVE  Waited'
<1>0. /\ \A i \in 1 .. Len(encoding) : encoding[i].since \in Nat
      /\ \A i \in 1 .. Len(encoding') : encoding'[i].since \in Nat
  BY EncodingFields DEF TypeOK
<1>t. /\ clock \in Nat /\ retry \in Nat /\ wake \in Nat
      /\ clock' \in Nat /\ retry' \in Nat /\ wake' \in Nat
      /\ Len(encoding) \in Nat /\ Len(encoding') \in Nat
  BY DEF TypeOK
<1> USE RtmpAssumption, <1>0, <1>t DEF streamVars, encoderVars, pushVars
<1>1. CASE rtmp_PushDma
  <2>1. CASE UNCHANGED <<encoding, pc, retry, wake, clock>>
    BY <2>1 DEF Waited
  <2>2. CASE encoding' = Append(encoding, Handed) /\ pc' = "poll" /\ retry' = 0
    <3>1. /\ Len(encoding') = Len(encoding) + 1
          /\ \A i \in 1 .. Len(encoding) : encoding'[i] = encoding[i]
          /\ encoding'[Len(encoding) + 1] = Handed
      BY <2>2, QueueGrows
    <3>2. Handed.since = clock
      BY DEF Handed
    <3>3. clock' = clock
      BY <1>1 DEF rtmp_PushDma
    <3>4. ASSUME NEW i \in 1 .. Len(encoding')
          PROVE  encoding'[i].since <= clock /\ clock - encoding'[i].since <= EncodeMs
      <4>1. CASE i = Len(encoding) + 1
        BY <3>1, <3>2, <4>1
      <4>2. CASE i \in 1 .. Len(encoding)
        BY <3>1, <4>2 DEF Waited
      <4> QED
        BY <3>1, <4>1, <4>2
    <3> QED
      BY <2>2, <3>3, <3>4 DEF Waited
  <2> QED
    BY <1>1, <2>1, <2>2 DEF rtmp_PushDma, Handed
<1>2. CASE GetPacket
  BY <1>2 DEF GetPacket, Waited
<1>3. CASE GetNothing
  BY <1>3 DEF GetNothing, Waited
<1>4. CASE GetFails
  BY <1>4 DEF GetFails, Waited
<1>5. CASE Wake
  BY <1>5 DEF Wake, Waited
<1>6. CASE Encode
  <2>1. \A i \in 1 .. Len(encoding') :
           i + 1 \in 1 .. Len(encoding) /\ encoding'[i] = encoding[i + 1]
    BY <1>6, QueueShrinks
  <2>2. UNCHANGED <<pc, retry, wake, clock>>
    BY <1>6 DEF Encode
  <2> QED
    BY <2>1, <2>2 DEF Waited
<1>7. CASE Tick
  BY <1>7 DEF Tick, Waited
<1>8. CASE UNCHANGED rtmpVars
  BY <1>8 DEF rtmpVars, Waited
<1> QED
  BY <1>1, <1>2, <1>3, <1>4, <1>5, <1>6, <1>7, <1>8 DEF RtmpNext

\* A push that returns 0 leaves nothing of its frame in the encoder, whatever
\* the number of polls, as long as the encoder is faster than their sleeps.
\* (rtmp_PushDma's drain loop.)
THEOREM Drained ==
    ASSUME EncodeMs < MaxRetry
    PROVE  RtmpSpec => []ReturnedMeansDrained
<1>1. RtmpInit => Waited /\ ReturnedMeansDrained
  BY RtmpAssumption DEF RtmpInit, Waited, ReturnedMeansDrained
<1>2. TypeOK /\ TypeOK' /\ Waited /\ ReturnedMeansDrained /\ [RtmpNext]_rtmpVars
        => Waited' /\ ReturnedMeansDrained'
  <2> SUFFICES ASSUME TypeOK, TypeOK', Waited, ReturnedMeansDrained, [RtmpNext]_rtmpVars
               PROVE  Waited' /\ ReturnedMeansDrained'
    OBVIOUS
  <2>0. Waited'
    BY WaitedStep
  <2> USE RtmpAssumption DEF streamVars, encoderVars, pushVars, ReturnedMeansDrained
  <2>1. CASE rtmp_PushDma
    BY <2>0, <2>1 DEF rtmp_PushDma
  <2>2. CASE GetPacket
    BY <2>0, <2>2 DEF GetPacket
  <2>3. CASE GetNothing
    <3>1. CASE retry < MaxRetry
      BY <2>0, <2>3, <3>1 DEF GetNothing
    <3>2. CASE ~(retry < MaxRetry)
      <4>1. ASSUME NEW i \in 1 .. Len(encoding)
            PROVE  FALSE
        <5>1. encoding[i].since \in Nat
          BY EncodingFields DEF TypeOK
        <5>2. retry \in Nat /\ clock \in Nat
          BY DEF TypeOK
        <5> QED
          BY <2>3, <3>2, <5>1, <5>2 DEF GetNothing, Waited
      <4>2. encoding = <<>>
        BY <4>1 DEF TypeOK
      <4> QED
        BY <2>0, <2>3, <4>2 DEF GetNothing
    <3> QED
      BY <3>1, <3>2
  <2>4. CASE GetFails
    BY <2>0, <2>4 DEF GetFails
  <2>5. CASE Wake
    BY <2>0, <2>5 DEF Wake
  <2>6. CASE Encode
    BY <2>0, <2>6 DEF Encode
  <2>7. CASE Tick
    BY <2>0, <2>7 DEF Tick
  <2>8. CASE UNCHANGED rtmpVars
    BY <2>0, <2>8 DEF rtmpVars
  <2> QED
    BY <2>1, <2>2, <2>3, <2>4, <2>5, <2>6, <2>7, <2>8 DEF RtmpNext
<1> QED
  BY <1>1, <1>2, Typing, PTL DEF RtmpSpec

\* Frame numbers go from the encoder to the packets to the muxer in order.
LEMMA StretchesStep ==
    ASSUME TypeOK, TypeOK', StretchesInOrder, [RtmpNext]_rtmpVars
    PROVE  StretchesInOrder'
<1>0. /\ \A i \in 1 .. Len(encoding) : encoding[i].frame \in Nat
      /\ \A i \in 1 .. Len(encoding') : encoding'[i].frame \in Nat
  BY EncodingFields DEF TypeOK
<1>t. /\ clock \in Nat /\ g_last_packet_pts \in Int /\ g_frame_count \in Nat
      /\ written.frame \in Nat /\ written.pts \in Int
      /\ written'.frame \in Nat /\ written'.pts \in Int
      /\ Len(encoding) \in Nat /\ Len(encoding') \in Nat
      /\ packets \in Seq(Nat) /\ packets' \in Seq(Nat)
  BY DEF TypeOK
<1> USE DEF streamVars, encoderVars, pushVars
<1>p. /\ \A i \in 1 .. Len(packets) : packets[i] \in Nat
      /\ \A i \in 1 .. Len(packets') : packets'[i] \in Nat
  <2>1. packets \in Seq(Nat) /\ packets' \in Seq(Nat)
    BY DEF TypeOK
  <2> QED
    BY <2>1
<1>a. written.frame <= g_frame_count /\ written.pts <= g_last_packet_pts
  BY DEF StretchesInOrder
<1>b. \A i \in 1 .. Len(packets) : written.frame < packets[i] /\ packets[i] <= g_frame_count
  BY DEF StretchesInOrder
<1>c. \A i \in 1 .. Len(encoding) :
         written.frame < encoding[i].frame /\ encoding[i].frame <= g_frame_count
  BY DEF StretchesInOrder
<1>1. CASE rtmp_PushDma
  <2>0. g_frame_count' = g_frame_count + 1
    BY <1>1 DEF rtmp_PushDma
  <2>1. CASE UNCHANGED <<encoding, packets, written, g_last_packet_pts>>
    BY <1>0, <1>p, <1>t, <2>0, <2>1 DEF StretchesInOrder
  <2>2. CASE encoding' = Append(encoding, Handed) /\ UNCHANGED <<packets, written, g_last_packet_pts>>
    <3>1. /\ Len(encoding') = Len(encoding) + 1
          /\ \A i \in 1 .. Len(encoding) : encoding'[i] = encoding[i]
          /\ encoding'[Len(encoding) + 1] = Handed
      BY <2>2, QueueGrows
    <3>2. Handed.frame = g_frame_count + 1
      BY DEF Handed
    <3>a. \A i \in 1 .. Len(encoding) : encoding'[i].frame = encoding[i].frame
      BY <3>1
    <3>b. encoding'[Len(encoding) + 1].frame = g_frame_count + 1
      BY <3>1, <3>2
    <3>c. \A i \in 1 .. Len(encoding') : i \in 1 .. Len(encoding) \/ i = Len(encoding) + 1
      BY <1>t, <3>1
    <3>4. ASSUME NEW i \in 1 .. Len(encoding')
          PROVE  written.frame < encoding'[i].frame /\ encoding'[i].frame <= g_frame_count'
      <4>1. CASE i = Len(encoding) + 1
        BY <1>a, <1>t, <2>0, <3>b, <4>1
      <4>2. CASE i \in 1 .. Len(encoding)
        <5>1. encoding'[i].frame = encoding[i].frame
          BY <3>a, <4>2
        <5>2. /\ encoding[i].frame \in Nat
              /\ written.frame < encoding[i].frame /\ encoding[i].frame <= g_frame_count
          BY <1>0, <1>c, <4>2
        <5> QED
          BY <1>t, <2>0, <5>1, <5>2
      <4> QED
        BY <3>c, <4>1, <4>2
    <3>5. ASSUME NEW i \in 1 .. Len(encoding'), NEW j \in 1 .. Len(packets)
          PROVE  packets[j] < encoding'[i].frame
      <4>1. packets[j] \in Nat /\ packets[j] <= g_frame_count
        BY <1>p DEF StretchesInOrder
      <4>2. CASE i = Len(encoding) + 1
        BY <1>t, <3>b, <4>1, <4>2
      <4>3. CASE i \in 1 .. Len(encoding)
        BY <3>a, <4>3 DEF StretchesInOrder
      <4> QED
        BY <3>c, <4>2, <4>3
    <3>6. ASSUME NEW i \in 1 .. Len(encoding'), NEW j \in 1 .. Len(encoding'), i < j
          PROVE  encoding'[i].frame < encoding'[j].frame
      <4>1. i \in 1 .. Len(encoding) /\ encoding'[i].frame = encoding[i].frame
        BY <1>t, <3>1, <3>a, <3>6
      <4>2. encoding[i].frame \in Nat /\ encoding[i].frame <= g_frame_count
        BY <1>0, <4>1 DEF StretchesInOrder
      <4>3. CASE j = Len(encoding) + 1
        BY <1>t, <3>b, <4>1, <4>2, <4>3
      <4>4. CASE j \in 1 .. Len(encoding)
        BY <3>a, <3>6, <4>1, <4>4 DEF StretchesInOrder
      <4> QED
        BY <3>c, <4>3, <4>4
    <3>7. written.frame <= g_frame_count' /\ written.pts <= g_last_packet_pts
      BY <1>t, <2>0 DEF StretchesInOrder
    <3>8. \A i \in 1 .. Len(packets) : written.frame < packets[i] /\ packets[i] <= g_frame_count'
      BY <1>b, <1>p, <1>t, <2>0
    <3>9. \A i, j \in 1 .. Len(packets) : i < j => packets[i] < packets[j]
      BY DEF StretchesInOrder
    <3> QED
      BY <2>2, <3>4, <3>5, <3>6, <3>7, <3>8, <3>9 DEF StretchesInOrder
  <2> QED
    BY <1>1, <2>1, <2>2 DEF rtmp_PushDma, Handed
<1>2. CASE GetPacket
  <2>1. /\ Head(packets) = packets[1] /\ 1 \in 1 .. Len(packets)
        /\ Len(packets') = Len(packets) - 1
        /\ \A i \in 1 .. Len(packets') : packets'[i] = packets[i + 1]
    BY <1>2, <1>t, HeadTailProperties DEF GetPacket
  <2>2. UNCHANGED <<encoding, g_frame_count>>
    BY <1>2 DEF GetPacket
  <2>3. \/ UNCHANGED <<g_last_packet_pts, written>>
        \/ g_last_packet_pts' > g_last_packet_pts /\ UNCHANGED written
        \/ written'.pts = g_last_packet_pts' /\ written'.frame = packets[1]
    BY <1>2, <1>t, <2>1 DEF GetPacket, write_packet_to_rtmp, get_stream_pts_ms
  <2>4. g_last_packet_pts' \in Int
    BY DEF TypeOK
  <2>5. /\ written'.frame <= g_frame_count'
        /\ written'.pts <= g_last_packet_pts'
        /\ written'.frame <= packets[1]
    BY <1>0, <1>p, <1>t, <2>1, <2>2, <2>3, <2>4 DEF StretchesInOrder
  <2>m. \A i \in 1 .. Len(packets') : i + 1 \in 1 .. Len(packets) /\ 1 < i + 1
    BY <1>t, <2>1
  <2>6. ASSUME NEW i \in 1 .. Len(packets')
        PROVE  packets[1] < packets'[i] /\ packets'[i] <= g_frame_count'
    BY <2>1, <2>2, <2>m DEF StretchesInOrder
  <2>10. ASSUME NEW i \in 1 .. Len(packets'), NEW j \in 1 .. Len(packets'), i < j
         PROVE  packets'[i] < packets'[j]
    <3>1. i + 1 < j + 1
      BY <1>t, <2>10
    <3> QED
      BY <2>1, <2>m, <3>1 DEF StretchesInOrder
  <2>7. \A i \in 1 .. Len(encoding') :
           packets[1] < encoding'[i].frame /\ encoding'[i].frame <= g_frame_count'
    BY <1>0, <1>p, <1>t, <2>1, <2>2 DEF StretchesInOrder
  <2>8. ASSUME NEW i \in 1 .. Len(packets'), NEW j \in 1 .. Len(encoding')
        PROVE  packets'[i] < encoding'[j].frame
    BY <2>1, <2>2, <2>m DEF StretchesInOrder
  <2>11. ASSUME NEW i \in 1 .. Len(packets')
         PROVE  written'.frame < packets'[i]
    <3>1. packets[1] \in Nat /\ packets'[i] \in Nat
      BY <1>p, <2>1
    <3> QED
      BY <1>t, <2>5, <2>6, <3>1
  <2>12. ASSUME NEW i \in 1 .. Len(encoding')
         PROVE  written'.frame < encoding'[i].frame
    <3>1. packets[1] \in Nat /\ encoding'[i].frame \in Nat
      BY <1>0, <1>p, <2>1
    <3> QED
      BY <1>t, <2>5, <2>7, <3>1
  <2>9. \A i, j \in 1 .. Len(encoding') : i < j => encoding'[i].frame < encoding'[j].frame
    BY <1>0, <1>p, <1>t, <2>2 DEF StretchesInOrder
  <2> QED
    BY <2>5, <2>6, <2>7, <2>8, <2>9, <2>10, <2>11, <2>12 DEF StretchesInOrder
<1>3. CASE GetNothing
  BY <1>3 DEF GetNothing, StretchesInOrder
<1>4. CASE GetFails
  BY <1>4 DEF GetFails, StretchesInOrder
<1>5. CASE Wake
  BY <1>5 DEF Wake, StretchesInOrder
<1>6. CASE Encode
  <2>1. /\ 1 \in 1 .. Len(encoding)
        /\ Head(encoding) = encoding[1]
        /\ Len(encoding') = Len(encoding) - 1
        /\ \A i \in 1 .. Len(encoding') :
              i + 1 \in 1 .. Len(encoding) /\ encoding'[i] = encoding[i + 1]
    BY <1>6, QueueShrinks
  <2>2. packets' = Append(packets, encoding[1].frame)
    BY <1>6, <2>1 DEF Encode
  <2>3. /\ Len(packets') = Len(packets) + 1
        /\ \A i \in 1 .. Len(packets) : packets'[i] = packets[i]
        /\ packets'[Len(packets) + 1] = encoding[1].frame
    BY <1>0, <1>t, <2>1, <2>2, AppendProperties
  <2>4. \A i \in 1 .. Len(packets') :
           \/ i \in 1 .. Len(packets) /\ packets'[i] = packets[i]
           \/ i = Len(packets) + 1 /\ packets'[i] = encoding[1].frame
    BY <1>t, <2>3
  <2>5. UNCHANGED <<written, g_last_packet_pts, g_frame_count>>
    BY <1>6 DEF Encode
  <2>6. \A i \in 1 .. Len(packets') :
           written'.frame < packets'[i] /\ packets'[i] <= g_frame_count'
    BY <1>0, <1>p, <1>t, <2>1, <2>4, <2>5 DEF StretchesInOrder
  <2>7. ASSUME NEW i \in 1 .. Len(packets'), NEW j \in 1 .. Len(packets'), i < j
        PROVE  packets'[i] < packets'[j]
    <3>1. Len(packets) \in Nat /\ Len(packets') = Len(packets) + 1
      BY <1>t, <2>3
    <3>2. i \in 1 .. Len(packets)
      BY <2>7, <3>1
    <3>3. packets'[i] = packets[i]
      BY <2>3, <3>2
    <3>4. CASE j = Len(packets) + 1
      BY <1>p, <2>1, <2>4, <3>2, <3>3, <3>4 DEF StretchesInOrder
    <3>5. CASE j \in 1 .. Len(packets)
      BY <1>p, <2>4, <2>7, <3>2, <3>3, <3>5 DEF StretchesInOrder
    <3> QED
      BY <2>4, <3>4, <3>5
  <2>8. \A i \in 1 .. Len(encoding') :
           written'.frame < encoding'[i].frame /\ encoding'[i].frame <= g_frame_count'
    BY <1>0, <1>p, <1>t, <2>1, <2>5 DEF StretchesInOrder
  <2>9. ASSUME NEW i \in 1 .. Len(encoding'), NEW j \in 1 .. Len(encoding'), i < j
        PROVE  encoding'[i].frame < encoding'[j].frame
    <3>1. i + 1 < j + 1
      BY <1>t, <2>9
    <3> QED
      BY <2>1, <3>1 DEF StretchesInOrder
  <2>10. ASSUME NEW i \in 1 .. Len(packets'), NEW j \in 1 .. Len(encoding')
         PROVE  packets'[i] < encoding'[j].frame
    <3>1. j + 1 \in 1 .. Len(encoding) /\ encoding'[j] = encoding[j + 1] /\ 1 < j + 1
      BY <1>t, <2>1
    <3>2. CASE i = Len(packets) + 1
      BY <2>1, <2>4, <3>1, <3>2 DEF StretchesInOrder
    <3>3. CASE i \in 1 .. Len(packets)
      BY <2>3, <3>1, <3>3 DEF StretchesInOrder
    <3> QED
      BY <2>4, <3>2, <3>3
  <2> QED
    BY <1>0, <1>p, <1>t, <2>5, <2>6, <2>7, <2>8, <2>9, <2>10 DEF StretchesInOrder
<1>7. CASE Tick
  BY <1>7 DEF Tick, StretchesInOrder
<1>8. CASE UNCHANGED rtmpVars
  BY <1>8 DEF rtmpVars, StretchesInOrder
<1> QED
  BY <1>1, <1>2, <1>3, <1>4, <1>5, <1>6, <1>7, <1>8 DEF RtmpNext

\* Every run of the backend is a run of the abstract packet stream: packets
\* in frame order, none twice, each later than the one before.
\* (get_stream_pts_ms and the drain loop.)
THEOREM Refinement == RtmpSpec => PacketStreamSpec
<1>1. RtmpInit => StretchesInOrder /\ Player!Init
  BY RtmpAssumption DEF RtmpInit, StretchesInOrder, Player!Init
<1>2. TypeOK /\ TypeOK' /\ StretchesInOrder /\ [RtmpNext]_rtmpVars
        => StretchesInOrder' /\ [Player!Next]_<<g_frame_count, written>>
  <2> SUFFICES ASSUME TypeOK, TypeOK', StretchesInOrder, [RtmpNext]_rtmpVars
               PROVE  StretchesInOrder' /\ [Player!Next]_<<g_frame_count, written>>
    OBVIOUS
  <2>0. StretchesInOrder'
    BY StretchesStep
  <2> USE DEF streamVars, encoderVars, pushVars
  <2>1. CASE rtmp_PushDma
    BY <2>0, <2>1 DEF rtmp_PushDma, Player!Next, Player!Offer
  <2>2. CASE GetPacket
    <3>0. /\ clock \in Int /\ g_last_packet_pts \in Int /\ g_frame_count \in Int
          /\ written.pts \in Int /\ written.frame \in Int
      BY DEF TypeOK
    <3>1. Head(packets) = packets[1] /\ 1 \in 1 .. Len(packets) /\ packets[1] \in Nat
      BY <2>2 DEF GetPacket, TypeOK
    <3>2. written.frame < packets[1] /\ packets[1] <= g_frame_count
      BY <3>1 DEF StretchesInOrder
    <3>3. get_stream_pts_ms > written.pts
      <4>1. written.pts <= g_last_packet_pts
        BY DEF StretchesInOrder
      <4> QED
        BY <3>0, <4>1 DEF get_stream_pts_ms
    <3>4. CASE UNCHANGED written
      BY <2>0, <2>2, <3>4 DEF GetPacket
    <3>5. CASE written' = [frame |-> packets[1], pts |-> get_stream_pts_ms]
      <4>1. DOMAIN written' = {"frame", "pts"} /\ written'.frame = packets[1]
              /\ written'.pts = get_stream_pts_ms
        BY <3>5
      <4>2. written'.frame \in written.frame + 1 .. g_frame_count
        BY <3>0, <3>1, <3>2, <4>1
      <4> QED
        BY <2>0, <2>2, <3>3, <4>1, <4>2 DEF GetPacket, Player!Next, Player!Send
    <3> QED
      BY <2>2, <3>1, <3>4, <3>5 DEF GetPacket, write_packet_to_rtmp
  <2>3. CASE GetNothing
    BY <2>0, <2>3 DEF GetNothing
  <2>4. CASE GetFails
    BY <2>0, <2>4 DEF GetFails
  <2>5. CASE Wake
    BY <2>0, <2>5 DEF Wake
  <2>6. CASE Encode
    BY <2>0, <2>6 DEF Encode
  <2>7. CASE Tick
    BY <2>0, <2>7 DEF Tick
  <2>8. CASE UNCHANGED rtmpVars
    BY <2>0, <2>8 DEF rtmpVars
  <2> QED
    BY <2>1, <2>2, <2>3, <2>4, <2>5, <2>6, <2>7, <2>8 DEF RtmpNext
<1> QED
  BY <1>1, <1>2, Typing, PTL DEF RtmpSpec, PacketStreamSpec, Player!Spec

-----------------------------------------------------------------------------
(* StreamManager. *)

\* What a pointer of the list can hold.
Link == Backends \union {NULL}
Lists == [head : Link, next : [Backends -> Link]]

\* One step of the loops over the list.
Follow(l, x) == IF x = NULL THEN NULL ELSE l.next[x]

\* The loops go as far as the backends are many.
LEMMA ThreeBackends == Cardinality(Backends) = 3 /\ NULL \notin Backends
<1>1. Cardinality({}) = 0 /\ IsFiniteSet({})
  BY FS_EmptySet
<1>2. Cardinality({"rtmp_stream"}) = 1 /\ IsFiniteSet({"rtmp_stream"})
  BY FS_Singleton
<1>3. {"rtmp_stream"} \union {"rtsp_stream"} = {"rtmp_stream", "rtsp_stream"}
  OBVIOUS
<1>4. Cardinality({"rtmp_stream", "rtsp_stream"}) = 2
        /\ IsFiniteSet({"rtmp_stream", "rtsp_stream"})
  BY <1>2, <1>3, FS_AddElement
<1>5. {"rtmp_stream", "rtsp_stream"} \union {"srt_stream"} = Backends
  BY DEF Backends
<1>6. Cardinality(Backends) = 3
  BY <1>4, <1>5, FS_AddElement
<1> QED
  BY <1>6 DEF Backends, NULL

\* Where a loop over a list is after 0, 1, 2 and 3 steps.
LEMMA WalkIs ==
    ASSUME NEW l \in Lists
    PROVE  /\ DOMAIN Walk(l) = 0 .. 3
           /\ Walk(l)[0] = l.head
           /\ Walk(l)[1] = Follow(l, l.head)
           /\ Walk(l)[2] = Follow(l, Follow(l, l.head))
           /\ Walk(l)[3] = Follow(l, Follow(l, Follow(l, l.head)))
<1> DEFINE Eq(w) == w = [k \in 0 .. 3 |->
                IF k = 0 THEN l.head
                ELSE IF w[k - 1] = NULL THEN NULL
                ELSE l.next[w[k - 1]]]
<1> DEFINE seen == [k \in 0 .. 3 |->
                IF k = 0 THEN l.head
                ELSE IF k = 1 THEN Follow(l, l.head)
                ELSE IF k = 2 THEN Follow(l, Follow(l, l.head))
                ELSE Follow(l, Follow(l, Follow(l, l.head)))]
<1>1. DOMAIN l.next = Backends
  BY DEF Lists
<1>2. Eq(seen)
  BY DEF Follow
<1>3. Walk(l) = CHOOSE w : Eq(w)
  BY <1>1, ThreeBackends DEF Walk
<1> HIDE DEF Eq, seen
<1>c. Eq(CHOOSE w : Eq(w))
  BY <1>2
<1>4. Eq(Walk(l))
  BY <1>3, <1>c
<1> USE DEF Eq
<1>5. DOMAIN Walk(l) = 0 .. 3 /\ Walk(l)[0] = l.head
  BY <1>4
<1>6. Walk(l)[1] = Follow(l, l.head)
  BY <1>4, <1>5 DEF Follow
<1>7. Walk(l)[2] = Follow(l, Follow(l, l.head))
  BY <1>4, <1>6 DEF Follow
<1>8. Walk(l)[3] = Follow(l, Follow(l, Follow(l, l.head)))
  BY <1>4, <1>7 DEF Follow
<1> QED
  BY <1>5, <1>6, <1>7, <1>8

\* The list with this head and these ptNext of the three backends.
List(head, r, t, s) ==
    [head |-> head,
     next |-> [b \in Backends |-> IF b = "rtmp_stream" THEN r
                                  ELSE IF b = "rtsp_stream" THEN t ELSE s]]

\* The list every initialisation leaves.
Whole == List("rtmp_stream", "rtsp_stream", "srt_stream", NULL)

\* The fields of such a list.
LEMMA ListFields ==
    ASSUME NEW h \in Link, NEW r \in Link, NEW t \in Link, NEW s \in Link
    PROVE  /\ List(h, r, t, s) \in Lists
           /\ List(h, r, t, s).head = h
           /\ List(h, r, t, s).next["rtmp_stream"] = r
           /\ List(h, r, t, s).next["rtsp_stream"] = t
           /\ List(h, r, t, s).next["srt_stream"] = s
  BY DEF List, Lists, Backends

\* Where the loop for the last node stops, in the lists that registering the
\* backends goes through: at the first NULL link.
LEMMA LastIs ==
    ASSUME NEW l \in Lists, l.head = "rtmp_stream", NEW last \in Backends,
           l.next[last] = NULL,
           \/ last = "rtmp_stream"
           \/ last = "rtsp_stream" /\ l.next["rtmp_stream"] = "rtsp_stream"
           \/ /\ last = "srt_stream" /\ l.next["rtmp_stream"] = "rtsp_stream"
              /\ l.next["rtsp_stream"] = "srt_stream"
    PROVE  Ends(l) /\ LastNode(l) = last
<1>1. "rtmp_stream" \in Backends /\ "rtsp_stream" \in Backends /\ "srt_stream" \in Backends
  BY DEF Backends
<1>2. Cardinality(DOMAIN l.next) = 3
  BY ThreeBackends DEF Lists
<1>3. /\ DOMAIN Walk(l) = 0 .. 3
      /\ Walk(l)[0] = l.head
      /\ Walk(l)[1] = Follow(l, l.head)
      /\ Walk(l)[2] = Follow(l, Follow(l, l.head))
      /\ Walk(l)[3] = Follow(l, Follow(l, Follow(l, l.head)))
  BY WalkIs
<1>4. Ends(l)
  BY <1>1, <1>2, <1>3, ThreeBackends DEF Ends, Follow
<1>5. last \in Registered(l)
  BY <1>1, <1>3, ThreeBackends DEF Registered, Follow
<1>6. ASSUME NEW n \in Registered(l), l.next[n] = NULL
      PROVE  n = last
  <2>1. PICK k \in 0 .. 3 : n = Walk(l)[k] /\ n # NULL
    BY <1>3, <1>6 DEF Registered
  <2>2. k = 0 \/ k = 1 \/ k = 2 \/ k = 3
    BY <2>1
  <2> QED
    BY <1>1, <1>3, <1>6, <2>1, <2>2, ThreeBackends DEF Follow
<1> QED
  BY <1>4, <1>5, <1>6 DEF LastNode

\* What Register then does to the links.
LEMMA RegisterIs ==
    ASSUME NEW r \in Link, NEW t \in Link, NEW s \in Link,
           NEW last \in Backends, NEW n \in Backends,
           LastNode(List("rtmp_stream", r, t, s)) = last
    PROVE  Register(List("rtmp_stream", r, t, s), n)
             = List("rtmp_stream",
                    IF n = "rtmp_stream" THEN NULL ELSE IF last = "rtmp_stream" THEN n ELSE r,
                    IF n = "rtsp_stream" THEN NULL ELSE IF last = "rtsp_stream" THEN n ELSE t,
                    IF n = "srt_stream" THEN NULL ELSE IF last = "srt_stream" THEN n ELSE s)
<1> DEFINE l == List("rtmp_stream", r, t, s)
           links == [[l.next EXCEPT ![last] = n] EXCEPT ![n] = NULL]
<1>1. Register(l, n) = [l EXCEPT !.next = links]
  BY DEF Register, List, NULL
<1>2. [l EXCEPT !.next = links] = [head |-> "rtmp_stream", next |-> links]
  BY DEF List
<1>3. links = [b \in Backends |->
        IF b = "rtmp_stream"
        THEN IF n = "rtmp_stream" THEN NULL ELSE IF last = "rtmp_stream" THEN n ELSE r
        ELSE IF b = "rtsp_stream"
        THEN IF n = "rtsp_stream" THEN NULL ELSE IF last = "rtsp_stream" THEN n ELSE t
        ELSE IF n = "srt_stream" THEN NULL ELSE IF last = "srt_stream" THEN n ELSE s]
  BY DEF List, Backends
<1> HIDE DEF links
<1> QED
  BY <1>1, <1>2, <1>3 DEF List

\* Every initialisation leaves the list whole, whether the nodes were in it
\* before or not.
LEMMA RegisterAllIs ==
    ASSUME NEW l, l = NoneRegistered(Backends) \/ l = Whole
    PROVE  RegisterAll(l) = Whole
<1> DEFINE one == List("rtmp_stream", NULL, NULL, NULL)
           cut == List("rtmp_stream", NULL, "srt_stream", "rtmp_stream")
           two(s) == List("rtmp_stream", "rtsp_stream", NULL, s)
<1>0. /\ "rtmp_stream" \in Backends /\ "rtsp_stream" \in Backends /\ "srt_stream" \in Backends
      /\ "rtmp_stream" \in Link /\ "rtsp_stream" \in Link /\ "srt_stream" \in Link
      /\ NULL \in Link
  BY DEF Backends, Link
<1>1. Register(l, "rtmp_stream") \in {one, cut}
  <2>1. CASE l = NoneRegistered(Backends)
    <3>1. Register(l, "rtmp_stream") = one
      BY <2>1 DEF Register, NoneRegistered, List, Backends
    <3> QED
      BY <3>1
  <2>2. CASE l = Whole
    <3>1. LastNode(Whole) = "srt_stream"
      <4>1. /\ Whole \in Lists
            /\ Whole.head = "rtmp_stream"
            /\ Whole.next["rtmp_stream"] = "rtsp_stream"
            /\ Whole.next["rtsp_stream"] = "srt_stream"
            /\ Whole.next["srt_stream"] = NULL
        BY <1>0, ListFields DEF Whole
      <4> QED
        BY <1>0, <4>1, LastIs
    <3>2. Register(Whole, "rtmp_stream") = cut
      BY <1>0, <3>1, RegisterIs DEF Whole
    <3> QED
      BY <2>2, <3>2
  <2> QED
    BY <2>1, <2>2
<1>2. ASSUME NEW m \in {one, cut}
      PROVE  Register(m, "rtsp_stream") \in {two(NULL), two("rtmp_stream")}
  <2>1. LastNode(one) = "rtmp_stream"
    BY <1>0, ListFields, LastIs
  <2>2. Register(one, "rtsp_stream") = two(NULL)
    BY <1>0, <2>1, RegisterIs
  <2>3. LastNode(cut) = "rtmp_stream"
    BY <1>0, ListFields, LastIs
  <2>4. Register(cut, "rtsp_stream") = two("rtmp_stream")
    BY <1>0, <2>3, RegisterIs
  <2> QED
    BY <2>2, <2>4
<1>3. ASSUME NEW s \in {NULL, "rtmp_stream"}
      PROVE  Register(two(s), "srt_stream") = Whole
  <2>1. s \in Link
    BY <1>0
  <2>2. LastNode(two(s)) = "rtsp_stream"
    <3>1. /\ two(s) \in Lists
          /\ two(s).head = "rtmp_stream"
          /\ two(s).next["rtmp_stream"] = "rtsp_stream"
          /\ two(s).next["rtsp_stream"] = NULL
      BY <1>0, <2>1, ListFields
    <3> HIDE DEF two
    <3> QED
      BY <1>0, <3>1, LastIs
  <2> QED
    BY <1>0, <2>1, <2>2, RegisterIs DEF Whole
<1> HIDE DEF one, cut, two
<1> QED
  BY <1>1, <1>2, <1>3 DEF RegisterAll

\* Whom a loop over the list can select.
LEMMA FirstNodeIs ==
    ASSUME NEW l \in Lists, NEW wanted \in SUBSET Backends
    PROVE  FirstNode(l, wanted) \in wanted \union {NULL}
<1> DEFINE found == {k \in DOMAIN Walk(l) : Walk(l)[k] \in wanted}
           first == CHOOSE k \in found : \A j \in found : k <= j
<1>1. CASE found = {}
  BY <1>1 DEF FirstNode
<1>2. CASE found # {}
  <2>1. found \subseteq 0 .. 3
    BY WalkIs
  <2>2. \E k \in found : \A j \in found : k <= j
    <3>1. \A k \in found : k = 0 \/ k = 1 \/ k = 2 \/ k = 3
      BY <2>1
    <3> HIDE DEF found
    <3> QED
      BY <1>2, <3>1
  <2>3. first \in found
    <3> HIDE DEF found
    <3> QED
      BY <2>2
  <2>4. FirstNode(l, wanted) = Walk(l)[first]
    BY <1>2 DEF FirstNode
  <2> QED
    BY <2>3, <2>4
<1> QED
  BY <1>1, <1>2

\* The elements of a concatenation.
LEMMA Joined ==
    ASSUME NEW S, NEW s \in Seq(S), NEW t \in Seq(S)
    PROVE  /\ s \o t \in Seq(S)
           /\ Len(s \o t) = Len(s) + Len(t)
           /\ \A i \in 1 .. Len(s) : (s \o t)[i] = s[i]
           /\ \A i \in 1 .. Len(t) : (s \o t)[Len(s) + i] = t[i]
  BY ConcatProperties

\* The steps of RtmpStreamInit, those of mpp_encoder_init among them.
LEMMA rtmp_Steps ==
    /\ Len(rtmp_InitSteps) = 12
    /\ rtmp_InitSteps[2] = "ctx" /\ rtmp_InitSteps[3] = "mpp_init"
    /\ rtmp_InitSteps[6] = "set_cfg" /\ rtmp_InitSteps[7] = "buf_grp"
    /\ rtmp_InitSteps[8] = "ofmt" /\ rtmp_InitSteps[9] = "st"
    /\ rtmp_InitSteps[11] = "pb" /\ rtmp_InitSteps[12] = "header"
<1> DEFINE S == {"format", "ctx", "mpp_init", "cfg", "get_cfg", "set_cfg", "buf_grp",
                 "ofmt", "st", "extradata", "pb", "header"}
           first == <<"format">>
           rest == <<"ofmt", "st", "extradata", "pb", "header">>
           most == first \o mpp_encoder_initSteps
<1>1. first \in Seq(S) /\ rest \in Seq(S) /\ mpp_encoder_initSteps \in Seq(S)
  BY DEF mpp_encoder_initSteps
<1>2. Len(first) = 1 /\ Len(rest) = 5 /\ Len(mpp_encoder_initSteps) = 6
  BY DEF mpp_encoder_initSteps
<1>3. /\ rest[1] = "ofmt" /\ rest[2] = "st" /\ rest[4] = "pb" /\ rest[5] = "header"
      /\ mpp_encoder_initSteps[1] = "ctx" /\ mpp_encoder_initSteps[2] = "mpp_init"
      /\ mpp_encoder_initSteps[5] = "set_cfg" /\ mpp_encoder_initSteps[6] = "buf_grp"
  BY DEF mpp_encoder_initSteps
<1>5. rtmp_InitSteps = most \o rest
  BY DEF rtmp_InitSteps
<1> HIDE DEF S, first, rest
<1>4. /\ most \in Seq(S)
      /\ Len(most) = Len(first) + Len(mpp_encoder_initSteps)
      /\ \A i \in 1 .. Len(mpp_encoder_initSteps) :
            most[Len(first) + i] = mpp_encoder_initSteps[i]
  <2>1. most \in Seq(S)
    BY <1>1, Joined
  <2>2. Len(most) = Len(first) + Len(mpp_encoder_initSteps)
    BY <1>1, Joined
  <2>3. \A i \in 1 .. Len(mpp_encoder_initSteps) :
            most[Len(first) + i] = mpp_encoder_initSteps[i]
    BY <1>1, Joined
  <2> QED
    BY <2>1, <2>2, <2>3
<1> HIDE DEF most
<1>6. /\ Len(most) = 7
      /\ most[2] = "ctx" /\ most[3] = "mpp_init" /\ most[6] = "set_cfg" /\ most[7] = "buf_grp"
  BY <1>2, <1>3, <1>4
<1>7. /\ Len(rtmp_InitSteps) = Len(most) + Len(rest)
      /\ \A i \in 1 .. Len(most) : rtmp_InitSteps[i] = most[i]
      /\ \A i \in 1 .. Len(rest) : rtmp_InitSteps[Len(most) + i] = rest[i]
  <2>1. Len(most \o rest) = Len(most) + Len(rest)
    BY <1>1, <1>4, Joined
  <2>2. \A i \in 1 .. Len(most) : (most \o rest)[i] = most[i]
    BY <1>1, <1>4, Joined
  <2>3. \A i \in 1 .. Len(rest) : (most \o rest)[Len(most) + i] = rest[i]
    BY <1>1, <1>4, Joined
  <2> QED
    BY <1>5, <2>1, <2>2, <2>3
<1> QED
  BY <1>2, <1>3, <1>6, <1>7

\* An Init that gets through all its steps has what a push uses.
LEMMA StepsSuffice ==
    ASSUME NEW b \in Backends
    PROVE  Used[b] \subseteq Steps(b, Len(InitSteps[b]))
<1> DEFINE done == {InitSteps[b][i] : i \in 1 .. Len(InitSteps[b])}
<1> SUFFICES Used[b] \subseteq done
  BY DEF Steps
<1>1. CASE b = "rtmp_stream"
  <2>1. Len(InitSteps[b]) = 12
    BY <1>1, rtmp_Steps DEF InitSteps
  <2>2. \A i \in 1 .. 12 : InitSteps[b][i] \in done
    BY <2>1
  <2> HIDE DEF done
  <2>3. /\ InitSteps[b][2] = "ctx" /\ InitSteps[b][3] = "mpp_init"
        /\ InitSteps[b][6] = "set_cfg" /\ InitSteps[b][7] = "buf_grp"
        /\ InitSteps[b][8] = "ofmt" /\ InitSteps[b][9] = "st"
        /\ InitSteps[b][11] = "pb" /\ InitSteps[b][12] = "header"
    BY <1>1, rtmp_Steps DEF InitSteps
  <2>4. /\ "ctx" \in done /\ "mpp_init" \in done /\ "set_cfg" \in done /\ "buf_grp" \in done
        /\ "ofmt" \in done /\ "st" \in done /\ "pb" \in done /\ "header" \in done
    BY <2>2, <2>3
  <2> QED
    BY <1>1, <2>4 DEF Used
<1>2. CASE b = "rtsp_stream"
  <2>1. Len(InitSteps[b]) = 9
    BY <1>2 DEF InitSteps, rtsp_InitSteps
  <2>2. \A i \in 1 .. 9 : InitSteps[b][i] \in done
    BY <2>1
  <2> HIDE DEF done
  <2>3. /\ InitSteps[b][1] = "ofmt" /\ InitSteps[b][3] = "st"
        /\ InitSteps[b][4] = "cc" /\ InitSteps[b][5] = "open"
        /\ InitSteps[b][6] = "header" /\ InitSteps[b][7] = "frame"
        /\ InitSteps[b][8] = "image" /\ InitSteps[b][9] = "sws"
    BY <1>2 DEF InitSteps, rtsp_InitSteps
  <2>4. /\ "ofmt" \in done /\ "st" \in done /\ "cc" \in done /\ "open" \in done
        /\ "header" \in done /\ "frame" \in done /\ "image" \in done /\ "sws" \in done
    BY <2>2, <2>3
  <2> QED
    BY <1>2, <2>4 DEF Used
<1>3. CASE b = "srt_stream"
  <2>1. Len(InitSteps[b]) = 10
    BY <1>3 DEF InitSteps, srt_InitSteps
  <2>2. \A i \in 1 .. 10 : InitSteps[b][i] \in done
    BY <2>1
  <2> HIDE DEF done
  <2>3. /\ InitSteps[b][1] = "ofmt" /\ InitSteps[b][3] = "st"
        /\ InitSteps[b][4] = "cc" /\ InitSteps[b][5] = "open"
        /\ InitSteps[b][6] = "pb" /\ InitSteps[b][7] = "header"
        /\ InitSteps[b][8] = "nv12_buf" /\ InitSteps[b][9] = "frame"
        /\ InitSteps[b][10] = "format"
    BY <1>3 DEF InitSteps, srt_InitSteps
  <2>4. /\ "ofmt" \in done /\ "st" \in done /\ "cc" \in done /\ "open" \in done
        /\ "pb" \in done /\ "header" \in done /\ "nv12_buf" \in done /\ "frame" \in done
        /\ "format" \in done
    BY <2>2, <2>3
  <2> QED
    BY <1>3, <2>4 DEF Used
<1> QED
  BY <1>1, <1>2, <1>3 DEF Backends

-----------------------------------------------------------------------------

\* What the encoder gets and gives.
Packet == [frame : Nat, pts : Int]

\* The list is untouched, or as an initialisation leaves it.
ListInv == list = IF caller = "new" THEN NoneRegistered(Backends) ELSE Whole

\* What is held does not change between a successful Init and Exit.
HeldInv ==
    /\ caller \in {"new", "failed", "ready", "gone", "killed"}
    /\ DOMAIN held = Backends
    /\ PushFindsItsBackend

\* What is written, and what waits in the encoder, are two stretches of the
\* frames pushed, and of the timestamps taken, in that order.
InOrder ==
    /\ pushed \in Nat /\ g_pts \in Nat
    /\ sent \in Packet /\ queue \in Seq(Packet)
    /\ sent.frame <= pushed /\ sent.pts < g_pts
    /\ \A i \in 1 .. Len(queue) :
          /\ sent.frame < queue[i].frame /\ queue[i].frame <= pushed
          /\ sent.pts < queue[i].pts /\ queue[i].pts < g_pts
    /\ \A i, j \in 1 .. Len(queue) :
          i < j => queue[i].frame < queue[j].frame /\ queue[i].pts < queue[j].pts

\* What the list looks like then.
LEMMA WholeIs ==
    /\ Whole \in Lists
    /\ Ends(Whole)
    /\ Whole.head = "rtmp_stream"
    /\ Whole.next["rtmp_stream"] = "rtsp_stream"
    /\ Whole.next["rtsp_stream"] = "srt_stream"
    /\ Whole.next["srt_stream"] = NULL
<1>0. "rtmp_stream" \in Backends /\ "rtsp_stream" \in Backends /\ "srt_stream" \in Backends
  BY DEF Backends
<1>1. /\ Whole \in Lists
      /\ Whole.head = "rtmp_stream"
      /\ Whole.next["rtmp_stream"] = "rtsp_stream"
      /\ Whole.next["rtsp_stream"] = "srt_stream"
      /\ Whole.next["srt_stream"] = NULL
  BY <1>0, ListFields DEF Whole, Link
<1> QED
  BY <1>0, <1>1, LastIs

\* Every step leaves the list untouched or whole.
LEMMA ListInvStep == ListInv /\ [Next]_vars => ListInv'
<1> SUFFICES ASSUME ListInv, [Next]_vars
             PROVE  ListInv'
  OBVIOUS
<1>1. CASE FfmpegStreamInit
  <2>1. list' = Whole
    BY <1>1, RegisterAllIs DEF FfmpegStreamInit, ListInv
  <2>2. caller' # "new"
    BY <1>1 DEF FfmpegStreamInit, InitBackend
  <2> QED
    BY <2>1, <2>2 DEF ListInv
<1>2. CASE FfmpegStreamPush
  BY <1>2 DEF FfmpegStreamPush, ListInv
<1>3. CASE PushIsKilled
  BY <1>3 DEF PushIsKilled, ListInv
<1>7. CASE ReceivePacket
  BY <1>7 DEF ReceivePacket, ListInv
<1>4. CASE ReceiveNothing
  BY <1>4 DEF ReceiveNothing, ListInv
<1>5. CASE FfmpegStreamExit
  BY <1>5 DEF FfmpegStreamExit, ListInv
<1>6. CASE UNCHANGED vars
  BY <1>6 DEF vars, ListInv
<1> QED
  BY <1>1, <1>2, <1>3, <1>4, <1>5, <1>6, <1>7 DEF Next

\* The registry survives every initialisation.  (RegisterFfmpegStream.)
THEOREM RegistryAlwaysWhole == Spec => []RegistryWhole
<1>1. Init => ListInv
  BY DEF Init, ListInv
<1>2. ListInv => RegistryWhole
  BY WholeIs DEF ListInv, RegistryWhole
<1> QED
  BY <1>1, <1>2, ListInvStep, PTL DEF Spec

\* A caller that was told 0 pushes into a backend that has all a push uses, but
\* for what Init never looks at, and rtmp_stream.c has all of it.
\* (FfmpegStreamInit and the three Init functions.)
THEOREM PushAlwaysFindsItsBackend == Spec => []PushFindsItsBackend
<1>1. Init => ListInv /\ HeldInv
  BY DEF Init, ListInv, HeldInv, PushFindsItsBackend, Missing
<1>2. HeldInv /\ ListInv /\ [Next]_vars => HeldInv'
  <2> SUFFICES ASSUME HeldInv, ListInv, [Next]_vars
               PROVE  HeldInv'
    OBVIOUS
  <2> USE DEF softVars
  <2>1. CASE FfmpegStreamInit
    <3>1. PICK type \in StreamTypes :
             /\ selected' = GetStream(list', type)
             /\ IF selected' = NULL
                THEN caller' = "failed" /\ UNCHANGED held
                ELSE InitBackend(selected', iFmtIn')
      BY <2>1 DEF FfmpegStreamInit
    <3>2. CASE selected' = NULL
      BY <3>1, <3>2 DEF HeldInv, PushFindsItsBackend
    <3>3. CASE selected' # NULL
      <4>1. list' = Whole
        BY <2>1, RegisterAllIs DEF FfmpegStreamInit, ListInv
      <4>2. selected' \in Backends
        <5>1. {b \in Backends : isSupport(b, type)} \in SUBSET Backends
          OBVIOUS
        <5>2. Whole \in Lists
          BY WholeIs
        <5>3. GetStream(Whole, type) \in Backends \union {NULL}
          BY <5>1, <5>2, FirstNodeIs DEF GetStream
        <5> QED
          BY <3>1, <3>3, <4>1, <5>3
      <4> DEFINE b == selected'
      <4>3. PICK k \in 0 .. Len(InitSteps[b]) :
               /\ \E lost \in SUBSET (Unnoticed \intersect Steps(b, k)) : \E failed :
                     held' = [held EXCEPT ![b] = ((@ \ failed) \union Steps(b, k)) \ lost]
               /\ caller' = IF k = Len(InitSteps[b]) THEN "ready"
                            ELSE IF InitSteps[b][k + 1] \in UsedAtOnce THEN "killed"
                            ELSE "failed"
        BY <3>1, <3>3 DEF InitBackend
      <4>4. DOMAIN held' = Backends
        BY <4>3 DEF HeldInv
      <4>5. CASE k = Len(InitSteps[b])
        <5>1. Steps(b, Len(InitSteps[b])) \ Unnoticed \subseteq held'[b]
          BY <4>2, <4>3, <4>5 DEF HeldInv
        <5>2. Used[b] \ held'[b] \subseteq Unnoticed
          BY <4>2, <5>1, StepsSuffice
        <5>3. b = "rtmp_stream" => Used[b] \intersect Unnoticed = {}
          BY DEF Used, Unnoticed
        <5>4. b = "rtmp_stream" => Used[b] \ held'[b] = {}
          BY <5>2, <5>3
        <5>5. Missing' = Used[b] \ held'[b]
          BY DEF Missing, Used
        <5> QED
          BY <4>2, <4>3, <4>4, <4>5, <5>2, <5>4, <5>5 DEF HeldInv, PushFindsItsBackend
      <4>6. CASE k # Len(InitSteps[b])
        BY <4>3, <4>4, <4>6 DEF HeldInv, PushFindsItsBackend
      <4> QED
        BY <4>5, <4>6
    <3> QED
      BY <3>2, <3>3
  <2>2. CASE FfmpegStreamPush
    BY <2>2 DEF FfmpegStreamPush, HeldInv, PushFindsItsBackend, Missing, Used
  <2>7. CASE PushIsKilled
    BY <2>7 DEF PushIsKilled, HeldInv, PushFindsItsBackend
  <2>3. CASE ReceivePacket
    BY <2>3 DEF ReceivePacket, HeldInv, PushFindsItsBackend, Missing, Used
  <2>4. CASE ReceiveNothing
    BY <2>4 DEF ReceiveNothing, HeldInv, PushFindsItsBackend, Missing, Used
  <2>5. CASE FfmpegStreamExit
    BY <2>5 DEF FfmpegStreamExit, HeldInv, PushFindsItsBackend
  <2>6. CASE UNCHANGED vars
    BY <2>6 DEF vars, HeldInv, PushFindsItsBackend, Missing, Used
  <2> QED
    BY <2>1, <2>2, <2>3, <2>4, <2>5, <2>6, <2>7 DEF Next
<1>3. HeldInv => PushFindsItsBackend
  BY DEF HeldInv
<1> QED
  BY <1>1, <1>2, <1>3, ListInvStep, PTL DEF Spec

\* The frame a push gives to the encoder.
Arrival == [frame |-> pushed + 1, pts |-> g_pts]

\* What a packet's record holds.
LEMMA Fields ==
    ASSUME NEW p \in Packet
    PROVE  p.frame \in Nat /\ p.pts \in Int /\ DOMAIN p = {"frame", "pts"}
  BY DEF Packet

\* A push appends to the encoder's queue behind everything in it.
LEMMA PushKeepsOrder ==
    ASSUME InOrder, UNCHANGED sent, pushed' = pushed + 1, g_pts' = g_pts + 1,
           queue' = Append(queue, Arrival)
    PROVE  InOrder'
<1>1. pushed \in Nat /\ g_pts \in Nat /\ queue \in Seq(Packet) /\ sent \in Packet
  BY DEF InOrder
<1>2. Arrival \in Packet /\ Arrival.frame = pushed + 1 /\ Arrival.pts = g_pts
  BY <1>1 DEF Arrival, Packet
<1> HIDE DEF Arrival
<1>3. /\ queue' \in Seq(Packet)
      /\ Len(queue') = Len(queue) + 1
      /\ \A i \in 1 .. Len(queue) : queue'[i] = queue[i]
      /\ queue'[Len(queue) + 1] = Arrival
  BY <1>1, <1>2, AppendProperties
<1>4. Len(queue) \in Nat /\ \A i \in 1 .. Len(queue) : queue[i] \in Packet
  BY <1>1
<1>5. \A i \in 1 .. Len(queue') :
         \/ i \in 1 .. Len(queue) /\ queue'[i] = queue[i]
         \/ i = Len(queue) + 1 /\ queue'[i] = Arrival
  BY <1>3, <1>4
<1>6. sent.frame \in Nat /\ sent.pts \in Int /\ sent.frame <= pushed /\ sent.pts < g_pts
  BY <1>1, Fields DEF InOrder
<1>7. ASSUME NEW i \in 1 .. Len(queue)
      PROVE  /\ queue[i].frame \in Nat /\ queue[i].pts \in Int
             /\ sent.frame < queue[i].frame /\ queue[i].frame <= pushed
             /\ sent.pts < queue[i].pts /\ queue[i].pts < g_pts
  BY <1>4, Fields DEF InOrder
<1>8. \A i \in 1 .. Len(queue') :
         /\ sent.frame < queue'[i].frame /\ queue'[i].frame <= pushed + 1
         /\ sent.pts < queue'[i].pts /\ queue'[i].pts < g_pts + 1
  BY <1>1, <1>2, <1>5, <1>6, <1>7
<1>9. ASSUME NEW i \in 1 .. Len(queue'), NEW j \in 1 .. Len(queue'), i < j
      PROVE  queue'[i].frame < queue'[j].frame /\ queue'[i].pts < queue'[j].pts
  <2>1. i \in 1 .. Len(queue) /\ queue'[i] = queue[i]
    BY <1>3, <1>4, <1>9
  <2>2. CASE j \in 1 .. Len(queue) /\ queue'[j] = queue[j]
    BY <1>9, <2>1, <2>2 DEF InOrder
  <2>3. CASE queue'[j] = Arrival
    BY <1>1, <1>2, <1>7, <2>1, <2>3
  <2> QED
    BY <1>5, <2>2, <2>3
<1> QED
  BY <1>1, <1>3, <1>6, <1>8, <1>9 DEF InOrder

\* A packet that comes out is the oldest in the encoder, and newer than the
\* one before.
LEMMA ReceiveKeepsOrder ==
    ASSUME InOrder, ReceivePacket
    PROVE  InOrder' /\ (UNCHANGED sent \/ Stream!Send)
<1>1. pushed \in Nat /\ g_pts \in Nat /\ queue \in Seq(Packet) /\ sent \in Packet
  BY DEF InOrder
<1>2. /\ Head(queue) = queue[1] /\ 1 \in 1 .. Len(queue)
      /\ queue' \in Seq(Packet)
      /\ Len(queue') = Len(queue) - 1
      /\ \A i \in 1 .. Len(queue') : queue'[i] = queue[i + 1]
  BY <1>1, HeadTailProperties DEF ReceivePacket
<1>3. Len(queue) \in Nat /\ \A i \in 1 .. Len(queue) : queue[i] \in Packet
  BY <1>1
<1>4. \A i \in 1 .. Len(queue') : i + 1 \in 1 .. Len(queue) /\ 1 < i + 1
  BY <1>2, <1>3
<1>5. sent' = sent \/ sent' = queue[1]
  BY <1>2 DEF ReceivePacket
<1>6. UNCHANGED <<pushed, g_pts>>
  BY DEF ReceivePacket
<1>7. ASSUME NEW i \in 1 .. Len(queue)
      PROVE  /\ queue[i].frame \in Nat /\ queue[i].pts \in Int
             /\ sent.frame < queue[i].frame /\ queue[i].frame <= pushed
             /\ sent.pts < queue[i].pts /\ queue[i].pts < g_pts
  BY <1>3, Fields DEF InOrder
<1>8. /\ sent' \in Packet /\ sent'.frame <= pushed /\ sent'.pts < g_pts
  BY <1>1, <1>2, <1>3, <1>5, <1>7 DEF InOrder
<1>9. ASSUME NEW i \in 1 .. Len(queue')
      PROVE  /\ sent'.frame < queue'[i].frame /\ queue'[i].frame <= pushed
             /\ sent'.pts < queue'[i].pts /\ queue'[i].pts < g_pts
  <2>1. queue'[i] = queue[i + 1] /\ i + 1 \in 1 .. Len(queue) /\ 1 < i + 1
    BY <1>2, <1>4
  <2>2. queue[1].frame < queue[i + 1].frame /\ queue[1].pts < queue[i + 1].pts
    BY <1>2, <2>1 DEF InOrder
  <2> QED
    BY <1>5, <1>7, <2>1, <2>2
<1>10. ASSUME NEW i \in 1 .. Len(queue'), NEW j \in 1 .. Len(queue'), i < j
       PROVE  queue'[i].frame < queue'[j].frame /\ queue'[i].pts < queue'[j].pts
  <2>1. i + 1 < j + 1
    BY <1>2, <1>3, <1>10
  <2> QED
    BY <1>2, <1>4, <2>1 DEF InOrder
<1>11. InOrder'
  BY <1>1, <1>2, <1>6, <1>8, <1>9, <1>10 DEF InOrder
<1>12. sent' = queue[1] => Stream!Send
  <2> HAVE sent' = queue[1]
  <2>1. DOMAIN sent' = {"frame", "pts"}
    BY <1>2, <1>3, Fields
  <2>2. sent'.frame \in sent.frame + 1 .. pushed
    BY <1>1, <1>2, <1>7, Fields
  <2>3. sent'.pts > sent.pts
    BY <1>1, <1>2, <1>7, Fields
  <2> QED
    BY <1>6, <2>1, <2>2, <2>3 DEF Stream!Send
<1> QED
  BY <1>5, <1>11, <1>12

\* The software backends implement the abstract packet stream, as the hardware
\* one does.  (rtsp_Push and srt_Push.)
THEOREM SoftRefinement == Spec => SoftStreamSpec
<1>1. Init => InOrder /\ Stream!Init
  BY DEF Init, InOrder, Packet, Stream!Init
<1>2. InOrder /\ [Next]_vars => InOrder' /\ [Stream!Next]_<<pushed, sent>>
  <2> SUFFICES ASSUME InOrder, [Next]_vars
               PROVE  InOrder' /\ [Stream!Next]_<<pushed, sent>>
    OBVIOUS
  <2> USE DEF softVars
  <2>1. CASE FfmpegStreamInit
    BY <2>1 DEF FfmpegStreamInit, InOrder
  <2>2. CASE FfmpegStreamPush
    <3>1. pushed' = pushed + 1 /\ UNCHANGED sent
      BY <2>2 DEF FfmpegStreamPush
    <3>2. CASE UNCHANGED <<g_pts, queue>>
      BY <3>1, <3>2, Fields DEF InOrder, Stream!Next, Stream!Offer
    <3>3. CASE g_pts' = g_pts + 1 /\ UNCHANGED queue
      BY <3>1, <3>3, Fields DEF InOrder, Stream!Next, Stream!Offer
    <3>4. CASE g_pts' = g_pts + 1 /\ queue' = Append(queue, Arrival)
      BY <3>1, <3>4, PushKeepsOrder DEF Stream!Next, Stream!Offer
    <3> QED
      BY <2>2, <3>2, <3>3, <3>4 DEF FfmpegStreamPush, Arrival
  <2>7. CASE PushIsKilled
    BY <2>7 DEF PushIsKilled, InOrder
  <2>3. CASE ReceivePacket
    <3>1. UNCHANGED pushed
      BY <2>3 DEF ReceivePacket
    <3> QED
      BY <2>3, <3>1, ReceiveKeepsOrder DEF Stream!Next
  <2>4. CASE ReceiveNothing
    BY <2>4 DEF ReceiveNothing, InOrder
  <2>5. CASE FfmpegStreamExit
    BY <2>5 DEF FfmpegStreamExit, InOrder
  <2>6. CASE UNCHANGED vars
    BY <2>6 DEF vars, InOrder
  <2> QED
    BY <2>1, <2>2, <2>3, <2>4, <2>5, <2>6, <2>7 DEF Next
<1> QED
  BY <1>1, <1>2, PTL DEF Spec, SoftStreamSpec, Stream!Spec

=============================================================================
