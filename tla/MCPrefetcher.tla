---------------------------- MODULE MCPrefetcher ----------------------------
(* Instances of Prefetcher for TLC.                                         *)
EXTENDS Prefetcher

\* One thread with a deep execution; its task lists an account twice, once for
\* each worker.
Alone ==
    [key |-> [t \in {"e"} |-> 1], accounts |-> [t \in {"e"} |-> <<"a", "a">>],
     epochs |-> [t \in {"e"} |-> 1], workers |-> 2, ops |-> 6]

\* The same with an account that no transaction names.
Unfetched == [Alone EXCEPT !.accounts = [t \in {"e"} |-> << >>], !.workers = 1]

\* Two traces of one epoch while another one is executed.
Traces ==
    [key |-> [e |-> 1, f |-> 2, g |-> 2],
     accounts |-> [e |-> <<"a", "a">>, f |-> <<"a">>, g |-> <<"a", "a">>],
     epochs |-> [e |-> 1, f |-> 1, g |-> 1], workers |-> 2, ops |-> 1]

\* Two epochs in a row.
Rounds ==
    [key |-> [e |-> 1, f |-> 2], accounts |-> [e |-> <<"a">>, f |-> <<"a">>],
     epochs |-> [e |-> 2, f |-> 2], workers |-> 1, ops |-> 2]

MCInstances == {Alone, Unfetched, Traces, Rounds}

\* A trace of the epoch that is executed.
SameEpoch ==
    {[key |-> [e |-> 1, f |-> 1], accounts |-> [e |-> <<"a">>, f |-> <<"a">>],
      epochs |-> [e |-> 1, f |-> 1], workers |-> 1, ops |-> 1]}
=============================================================================
