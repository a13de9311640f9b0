----------------------------- MODULE LatestFrame -----------------------------
(***************************************************************************)
(* What a DMA-BUF pool promises the two threads main.c puts around it: a   *)
(* mailbox of one frame.  The producer replaces what the mailbox holds,    *)
(* the consumer takes it, and whoever is slow loses frames and nothing     *)
(* else.  The buffers, their states, the lock and the waiting are gone;    *)
(* DmaBufChannel implements this with two buffers or more.                 *)
(***************************************************************************)
EXTENDS Integers

CONSTANT MaxFrame           \* bound on frame ids

VARIABLES
    last,                   \* the id of the newest frame ever published
    slot,                   \* the frame on offer, 0 when there is none
    inUse                   \* the frame the consumer works on, 0 when idle

vars == <<last, slot, inUse>>

Init == last = 0 /\ slot = 0 /\ inUse = 0

\* A newer frame replaces the one on offer.
PublishFrame ==
    /\ \E id \in last + 1 .. MaxFrame : last' = id /\ slot' = id
    /\ UNCHANGED inUse

\* The producer takes the offered frame's buffer back.  It does so only to a
\* busy consumer: an idle one could have taken the frame.
Withdraw ==
    /\ slot # 0
    /\ inUse # 0
    /\ slot' = 0
    /\ UNCHANGED <<last, inUse>>

Take ==
    /\ slot # 0
    /\ inUse = 0
    /\ inUse' = slot
    /\ slot' = 0
    /\ UNCHANGED last

Finish ==
    /\ inUse # 0
    /\ inUse' = 0
    /\ UNCHANGED <<last, slot>>

Next == PublishFrame \/ Withdraw \/ Take \/ Finish

Spec == Init /\ [][Next]_vars

=============================================================================
