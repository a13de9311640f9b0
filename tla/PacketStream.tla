---------------------------- MODULE PacketStream ----------------------------
(***************************************************************************)
(* What a player of the stream is promised: the frames it gets arrive in   *)
(* the order they were pushed, no frame twice, and every packet is later   *)
(* than the one before.  Frames may be missing.  The encoder, its polling  *)
(* and its failures are gone; RtmpStream implements this.                  *)
(***************************************************************************)
EXTENDS Integers

VARIABLES
    offered,                \* frames pushed so far; a frame is its number
    last                    \* the newest packet out: its frame and timestamp

Init == offered = 0 /\ last = [frame |-> 0, pts |-> -1]

Offer == offered' = offered + 1 /\ UNCHANGED last

Send ==
    /\ UNCHANGED offered
    /\ DOMAIN last' = {"frame", "pts"}
    /\ last'.frame \in last.frame + 1 .. offered
    /\ last'.pts > last.pts

Next == Offer \/ Send

Spec == Init /\ [][Next]_<<offered, last>>

=============================================================================
