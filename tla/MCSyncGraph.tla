---------------------------- MODULE MCSyncGraph ----------------------------
(* Instances of SyncGraph for TLC.                                          *)
EXTENDS SyncGraph

CONSTANTS g, o, a, b, c

MCParent == [x \in Blocks |-> CASE x = a -> g
                                [] x = b -> a
                                [] x = c -> IF o \in OldBlocks THEN o ELSE g
                                [] OTHER -> x]

\* a and b are a chain on the genesis and b refers to c, whose parent is a
\* block of an old era (or the genesis, where there is no old block).
MCReferees == [x \in Blocks |-> IF x = b THEN {c} ELSE {}]

\* A node that starts in the given phase and meets valid blocks it asked for.
Plain(start) ==
    [start |-> start, late |-> {}, mined |-> {}, pushed |-> {},
     badParams |-> {}, badLink |-> {}, badBody |-> {}, badGas |-> {}]

\* It catches up, with at most one invalid block; or has caught up, with late
\* headers and a block of its own.
Usual ==
    {Plain("headers")}
    \cup {[Plain("headers") EXCEPT !.badParams = {x}] : x \in New}
    \cup {[Plain("headers") EXCEPT !.badLink = {x}] : x \in New}
    \cup {[Plain("headers") EXCEPT !.badBody = {x}] : x \in New}
    \cup {[Plain("normal") EXCEPT !.late = {a, c}, !.badGas = {x}] : x \in New}
    \cup {[Plain("normal") EXCEPT !.late = {a, c}, !.mined = {b}]}

\* A whole block is pushed, and a header may come due, while the node catches up.
Unusual ==
    {[Plain("headers") EXCEPT !.pushed = {b}, !.badBody = {c}],
     [Plain("headers") EXCEPT !.late = {a}, !.pushed = {b}, !.badLink = {c}]}

MCScenarios == Usual \cup Unusual

\* A header comes due while the node catches up.
Due == {[Plain("headers") EXCEPT !.late = {a}]}
=============================================================================
