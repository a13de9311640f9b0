----------------------------- MODULE MCInferPath -----------------------------
(* Three pictures of two pixels: from Dark to Dim and from Dim to Light     *)
(* nothing changes enough, from Dark to Light both pixels do.               *)
EXTENDS InferPath

MCPixels   == 1 .. 2
MCPictures == {[p \in MCPixels |-> level] : level \in 0 .. 2}

=============================================================================
