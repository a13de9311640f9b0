------------------------------ MODULE Registry ------------------------------
(***************************************************************************)
(* The list of statically allocated modules that RegisterFfmpegStream,     *)
(* RegisterVideoOpr, RegisterDispOpr and RegisterVideoConvert all build in *)
(* the same way: a head pointer and a ptNext in every node.  A node may be *)
(* registered again while it is in the list: its one ptNext is then used   *)
(* twice.                                                                  *)
(***************************************************************************)
EXTENDS Naturals, FiniteSets

NULL == "NULL"

\* The state before any registration: every ptNext is zero.
NoneRegistered(nodes) == [head |-> NULL, next |-> [n \in nodes |-> NULL]]

\* Where following ptNext k times from the head leads.
Walk(list) ==
    LET walk[k \in 0 .. Cardinality(DOMAIN list.next)] ==
            IF k = 0 THEN list.head
            ELSE IF walk[k - 1] = NULL THEN NULL
            ELSE list.next[walk[k - 1]]
    IN  walk

Registered(list) == {Walk(list)[k] : k \in DOMAIN Walk(list)} \ {NULL}

\* Does a loop over the list end?
Ends(list) == Walk(list)[Cardinality(DOMAIN list.next)] = NULL

\* Where the loop for the last node stops (anywhere, if it does not).
LastNode(list) == CHOOSE n \in Registered(list) : Ends(list) => list.next[n] = NULL

\* Faulty: relies on ptNext being NULL already.
RegisterKeepsNext(list, n) ==
    IF list.head = NULL
    THEN [list EXCEPT !.head = n]
    ELSE [list EXCEPT !.next[LastNode(list)] = n]

\* Append n: the last node is linked to n first, n's own ptNext cleared after.
Register(list, n) ==
    IF list.head = NULL
    THEN [head |-> n, next |-> [list.next EXCEPT ![n] = NULL]]
    ELSE [list EXCEPT !.next = [[@ EXCEPT ![LastNode(list)] = n] EXCEPT ![n] = NULL]]

\* The first registered node of a set, as the loops that select one find it.
FirstNode(list, wanted) ==
    LET found == {k \in DOMAIN Walk(list) : Walk(list)[k] \in wanted}
    IN  IF found = {} THEN NULL
        ELSE Walk(list)[CHOOSE k \in found : \A j \in found : k <= j]

=============================================================================
