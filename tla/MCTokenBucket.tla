--------------------------- MODULE MCTokenBucket ---------------------------
(* A bucket of three cpu tokens and two message tokens. *)
EXTENDS TokenBucket

Maxima == [k \in Kind |-> IF k = "cpu" THEN 3 ELSE 2]
Initial == [k \in Kind |-> IF k = "cpu" THEN 2 ELSE 0]
Rates == [k \in Kind |-> IF k = "cpu" THEN 2 ELSE 1]
SomeCosts == [Kind -> 0..2] \cup {[k \in Kind |-> IF k = "cpu" THEN 4 ELSE 1]}
============================================================================
