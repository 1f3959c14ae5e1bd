-------------------------- MODULE MCEpochExecution --------------------------
(***************************************************************************)
(* Instances of EpochExecution: a chain long enough for rewards to wait for *)
(* results, two branches between which the main chain goes to and fro, and  *)
(* the same with a crash.                                                   *)
(***************************************************************************)
EXTENDS EpochExecution

\* The instance over the tree in which block b has the parent par[b].
On(par, crash, job) ==
    LET chain[b \in 0..Len(par)] == IF b = 0 THEN <<b>> ELSE Append(chain[par[b]], b)
    IN  [parent |-> par, path |-> chain, crashes |-> crash, jobs |-> job]

MCInstances ==
    {On(<<0, 1, 2, 3, 4, 5>>, 0, 1), On(<<0, 1, 2, 3, 1, 5, 6>>, 0, 0),
     On(<<0, 1, 2, 3, 1, 5>>, 0, 1), On(<<0, 1, 2, 3, 2, 5>>, 1, 0),
     On(<<0, 1, 2, 3, 4>>, 2, 0)}

\* One chain.
Straight == {On(<<0, 1, 2, 3, 4>>, 0, 0)}
=============================================================================
