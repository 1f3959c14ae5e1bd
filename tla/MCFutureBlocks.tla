--------------------------- MODULE MCFutureBlocks ---------------------------
(* A small instance of FutureBlocks: three headers, two due together. *)
EXTENDS FutureBlocks, TLC

CONSTANTS a, b, c, t1, t2

MCTimestamp == (a :> 1) @@ (b :> 2) @@ (c :> 2)
=============================================================================
