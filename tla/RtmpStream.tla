----------------------------- MODULE RtmpStream -----------------------------
(***************************************************************************)
(* FFmpeg/rtmp_stream.c once rtmp_Init has succeeded: rtmp_PushDma, called *)
(* by PushThread with one DMA-BUF frame at a time, against the MPP encoder *)
(* behind it, which works on its own.                                      *)
(*                                                                         *)
(* A push hands the frame to the encoder and then polls for packets until  *)
(* the encoder has answered MaxRetry + 1 polls in a row with nothing,      *)
(* sleeping a millisecond after each but the last.  Nothing ties a packet  *)
(* to the push that waits for it: it may come out during a later push, or  *)
(* never.  As soon as rtmp_PushDma returns, PushThread releases the buffer *)
(* to the pool and the RGA writes the next picture in it, so that what     *)
(* bounds the encoder's use of the buffer is the length of that polling.   *)
(*                                                                         *)
(* The encoder (external) takes frames in order, gives one packet for each *)
(* and is done with a frame before EncodeMs + 1 milliseconds have passed.  *)
(* Time is the millisecond clock of get_monotonic_ms, 0 at rtmp_Init.      *)
(***************************************************************************)
EXTENDS Integers, Sequences

CONSTANTS
    MaxRetry,               \* 5, the literal of the drain loop
    EncodeMs,               \* how long the encoder may take for a frame
    MaxPushes,              \* bound: frames pushed
    MaxMs                   \* bound: where the clock stops

ASSUME RtmpAssumption ==
    /\ MaxRetry \in Nat
    /\ EncodeMs \in Nat
    /\ MaxPushes \in Nat
    /\ MaxMs \in Nat

VARIABLES
    clock,                  \* get_monotonic_ms() - g_start_ms
    g_last_packet_pts,
    g_frame_count, g_packet_count,
    encoding,               \* frames inside the encoder, oldest first
    packets,                \* packets it has ready, by frame
    pc,                     \* where PushThread is in rtmp_PushDma
    retry,                  \* the local of that name
    wake,                   \* when usleep(1000) may return
    ret,                    \* what the last rtmp_PushDma returned
    written                 \* history: the last packet written

streamVars  == <<g_last_packet_pts, g_packet_count, written>>
encoderVars == <<encoding, packets>>
pushVars    == <<pc, retry, wake, ret>>
rtmpVars == <<clock, g_frame_count, streamVars, encoderVars, pushVars>>

\* What the encoder holds: a frame's number and when it got it.
Encoding == [frame : Nat, since : Nat]

TypeOK ==
    /\ clock \in Nat
    /\ g_last_packet_pts \in Int
    /\ g_frame_count \in Nat
    /\ g_packet_count \in Nat
    /\ encoding \in Seq(Encoding)
    /\ packets \in Seq(Nat)
    /\ pc \in {"idle", "poll", "sleep"}
    /\ retry \in Nat
    /\ wake \in Nat
    /\ ret \in {0, -1}
    /\ written \in [frame : Nat, pts : Int]

\* What rtmp_Init leaves when it returns 0.
RtmpInit ==
    /\ clock = 0
    /\ g_last_packet_pts = -1
    /\ g_frame_count = 0
    /\ g_packet_count = 0
    /\ encoding = <<>>
    /\ packets = <<>>
    /\ pc = "idle"
    /\ retry = 0
    /\ wake = 0
    /\ ret = 0
    /\ written = [frame |-> 0, pts |-> -1]

\* Faulty: without the correction for two packets of one millisecond.
ClockPts == clock

\* The clock, or one more than the last timestamp if that is not later.
get_stream_pts_ms ==
    IF clock <= g_last_packet_pts THEN g_last_packet_pts + 1 ELSE clock

\* write_packet_to_rtmp, whose result the caller ignores.  An empty packet
\* and one there is no memory for take no timestamp; one that av_write_frame
\* refuses has taken its timestamp and is lost.
write_packet_to_rtmp(frame) ==
    \/ UNCHANGED streamVars
    \/ /\ g_last_packet_pts' = get_stream_pts_ms
       /\ \/ UNCHANGED <<g_packet_count, written>>
          \/ /\ g_packet_count' = g_packet_count + 1
             /\ written' = [frame |-> frame, pts |-> get_stream_pts_ms]

\* rtmp_PushDma up to the drain loop.  mpp_buffer_import, mpp_frame_init or
\* encode_put_frame may fail; otherwise the encoder reads the DMA-BUF from
\* here on, the references given back by mpp_frame_deinit and mpp_buffer_put
\* notwithstanding.
rtmp_PushDma ==
    /\ pc = "idle"
    /\ g_frame_count < MaxPushes
    /\ g_frame_count' = g_frame_count + 1
    /\ \/ /\ ret' = -1
          /\ UNCHANGED <<encoding, pc, retry>>
       \/ /\ encoding' = Append(encoding, [frame |-> g_frame_count + 1, since |-> clock])
          /\ pc' = "poll"
          /\ retry' = 0
          /\ UNCHANGED ret
    /\ UNCHANGED <<clock, streamVars, packets, wake>>

\* encode_get_packet returns a packet.
GetPacket ==
    /\ pc = "poll"
    /\ packets # <<>>
    /\ packets' = Tail(packets)
    /\ write_packet_to_rtmp(Head(packets))
    /\ retry' = 0
    /\ UNCHANGED <<clock, g_frame_count, encoding, pc, wake, ret>>

\* Faulty: one poll fewer.
GivesUpEarly ==
    /\ pc = "poll"
    /\ packets = <<>>
    /\ retry' = retry + 1
    /\ IF retry < MaxRetry - 1
       THEN pc' = "sleep" /\ wake' = clock + 1 /\ UNCHANGED ret
       ELSE pc' = "idle" /\ ret' = 0 /\ UNCHANGED wake
    /\ UNCHANGED <<clock, g_frame_count, streamVars, encoderVars>>

\* It returns none: "else if (retry++ < 5) usleep(1000)", and the loop goes
\* on while retry <= 5.
GetNothing ==
    /\ pc = "poll"
    /\ packets = <<>>
    /\ retry' = retry + 1
    /\ IF retry < MaxRetry
       THEN pc' = "sleep" /\ wake' = clock + 1 /\ UNCHANGED ret
       ELSE pc' = "idle" /\ ret' = 0 /\ UNCHANGED wake
    /\ UNCHANGED <<clock, g_frame_count, streamVars, encoderVars>>

\* It fails, and the push with it; what the encoder holds stays there.
GetFails ==
    /\ pc = "poll"
    /\ pc' = "idle"
    /\ ret' = -1
    /\ UNCHANGED <<clock, g_frame_count, streamVars, encoderVars, retry, wake>>

Wake ==
    /\ pc = "sleep"
    /\ clock >= wake
    /\ pc' = "poll"
    /\ UNCHANGED <<clock, g_frame_count, streamVars, encoderVars, retry, wake, ret>>

\* The encoder finishes its oldest frame and lets go of the DMA-BUF.
Encode ==
    /\ encoding # <<>>
    /\ packets' = Append(packets, Head(encoding).frame)
    /\ encoding' = Tail(encoding)
    /\ UNCHANGED <<clock, g_frame_count, streamVars, pushVars>>

\* A millisecond passes; the encoder does not let one of its frames get
\* older than EncodeMs.
Tick ==
    /\ clock < MaxMs
    /\ \A i \in 1 .. Len(encoding) : clock - encoding[i].since < EncodeMs
    /\ clock' = clock + 1
    /\ UNCHANGED <<g_frame_count, streamVars, encoderVars, pushVars>>

RtmpNext == rtmp_PushDma \/ GetPacket \/ GetNothing \/ GetFails \/ Wake \/ Encode \/ Tick

RtmpSpec == RtmpInit /\ [][RtmpNext]_rtmpVars

-----------------------------------------------------------------------------

\* When a push returns 0, the encoder is through with the frame and with
\* every earlier one: none of their DMA-BUFs is read any more when PushThread
\* releases the buffer, and no packet is left for a later push.  Holds while
\* the encoder is faster than the MaxRetry sleeps of the drain loop: nothing in
\* the code says it is, EncodeMs is an assumption about MPP.  A push that
\* returns -1 also makes PushThread release the buffer, and promises nothing.
\* (rtmp_PushDma's polling against DmaBufPoolReleaseIndex in PushThread.)
ReturnedMeansDrained ==
    pc = "idle" /\ ret = 0 => encoding = <<>> /\ packets = <<>>

Player == INSTANCE PacketStream WITH offered <- g_frame_count, last <- written

\* Whatever fails, in the encoder or on the network, packets reach the muxer
\* in the order of their frames and with increasing timestamps.
\* (get_stream_pts_ms and the drain loop.)
PacketStreamSpec == Player!Spec

=============================================================================
