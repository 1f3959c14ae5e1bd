----------------------------- MODULE MCConsensus -----------------------------
(***************************************************************************)
(* The networks of the instances: every graph of three blocks, and chosen   *)
(* graphs in which forks, late references, partially invalid blocks, a      *)
(* change of the timer chain or of the difficulty, a restart, or a move of  *)
(* the era genesis interact.                                                *)
(* Blocks are numbered from 1, the genesis is 0; in every network the       *)
(* blocks arrive in every order that respects their references.             *)
(***************************************************************************)
EXTENDS ConsensusProps

\* A network of the given headers in which every block has the expected
\* difficulty; target[b + 1] is that of the children of b.
NetD(parent, refs, timer, adaptive, hash, beta, target) ==
    LET B == 0..Len(parent)
    IN  [parent |-> [b \in B |-> IF b = 0 THEN NULL ELSE parent[b]],
         refs   |-> [b \in B |-> IF b = 0 THEN {} ELSE refs[b]],
         timer  |-> timer, heavy |-> {}, adaptive |-> adaptive,
         diff   |-> [b \in B |-> IF b = 0 THEN 1 ELSE target[parent[b] + 1]],
         target |-> [b \in B |-> target[b + 1]],
         hash   |-> [b \in B |-> IF b = 0 THEN 0 ELSE hash[b]],
         blamed |-> {}, beta |-> beta, era |-> 2, restarts |-> 0, jobs |-> 0]

\* The same with the expected difficulty 1 throughout.
Net(parent, refs, timer, adaptive, hash, beta) ==
    NetD(parent, refs, timer, adaptive, hash, beta, [i \in 1..(Len(parent) + 1) |-> 1])

\* every graph of n blocks whose headers list no block twice, with every choice
\* of timer blocks and hashes in either order.
Headers(n) ==
    {[parent |-> p, refs |-> r] :
        p \in {f \in [1..n -> 0..(n - 1)] : \A i \in 1..n : f[i] < i},
        r \in {f \in [1..n -> SUBSET (1..(n - 1))] : \A i \in 1..n : \A x \in f[i] : x < i}}

Minimal(h) ==
    LET past[b \in 0..Len(h.parent)] ==
            IF b = 0 THEN {} ELSE UNION {{x} \cup past[x] : x \in {h.parent[b]} \cup h.refs[b]}
    IN  \A i \in DOMAIN h.parent : \A x \in h.refs[i] :
            /\ x \notin past[h.parent[i]] \cup {h.parent[i]}
            /\ \A y \in h.refs[i] : x \notin past[y]

Small(n) ==
    {Net(h.parent, h.refs, t, {}, s, 1) :
        h \in {h \in Headers(n) : Minimal(h)}, t \in SUBSET (1..n),
        s \in {[i \in 1..n |-> i], [i \in 1..n |-> n + 1 - i]}}

\* Chosen graphs.  Blocks under a wrong parent, and valid ones on top of them.
WrongParents == Net(<<0,0,2,3,1,0>>, <<{},{1},{},{},{},{4}>>, {3,5}, {4}, <<6,3,4,5,2,1>>, 1)

\* The same with timer_chain_beta = 2 and adaptive blocks.
WrongUnderBeta2 ==
    Net(<<0,1,0,2,3,1,1>>, <<{},{},{1},{},{},{2},{4}>>, 1..7, {4,6,7}, <<7,1,3,2,4,6,5>>, 2)

\* Two branches that take the lead in turn while a miner works on either.
Branches ==
    Net(<<0,1,1,2,3,2,5>>, <<{},{},{},{},{},{3},{}>>, 1..7, {4,5,7}, <<3,5,2,4,7,1,6>>, 2)

\* Difficulty changes along the branches; block 5 has the wrong one.
Difficulties ==
    [NetD(<<0,1,1,3,3,4>>, <<{},{},{},{},{},{}>>, 1..6, 2..6, <<6,1,3,2,4,5>>, 1,
          <<1,1,3,1,3,1,1>>) EXCEPT !.diff[5] = 2]

\* Adaptive blocks, one of them heavy.
HeavyBlock ==
    [Net(<<0,1,2,3,2,2>>, <<{},{},{},{},{},{}>>, 1..6, 3..6, <<1,2,5,6,3,4>>, 1)
        EXCEPT !.heavy = {5}]

\* Long enough for the stable block to move.
Tall == Net(<<0,1,2,2,3,5,5>>, <<{},{},{},{},{},{},{}>>, 1..7, 2..7, <<3,6,5,7,1,4,2>>, 1)
TallWithRefs ==
    Net(<<0,1,2,2,2,3,6>>, <<{},{},{},{},{},{5},{}>>, 1..7, 2..7, <<1,5,6,2,3,7,4>>, 1)

\* More terminals than a block may refer to.
Wide == Net(<<0,0,1,1,2,0>>, <<{},{},{},{2},{},{4}>>, {}, {}, <<1,6,2,5,3,4>>, 1)

\* Graphs of eight blocks with forks, late references and wrong flags.
Assorted ==
    {Net(<<0,1,2,0,3,4,6,0>>, <<{},{},{},{},{},{},{},{4}>>, 1..8, {1,7}, <<3,4,7,2,8,6,5,1>>, 2),
     Net(<<0,0,1,3,4,5,6,3>>, <<{},{},{},{2},{},{},{},{7}>>, 1..8, {4,5,6,7}, <<3,8,2,1,5,7,6,4>>, 2),
     Net(<<0,1,2,0,3,0,3,7>>, <<{},{},{},{},{},{3},{6},{4}>>, 1..8, {3,5,6,7,8}, <<7,8,4,5,2,3,6,1>>, 2),
     Net(<<0,0,1,1,4,1,6,7>>, <<{},{},{},{},{},{4},{3},{}>>, {1,4,5,6}, {3,4,5}, <<5,2,4,8,3,1,6,7>>, 1),
     Net(<<0,1,2,3,3,5,5,7>>, <<{},{},{},{},{4},{},{},{}>>, {1,3,5,6,7,8}, {2,3,4,6,7,8}, <<7,3,6,2,1,4,5,8>>, 1),
     Net(<<0,1,2,3,3,3,1,4>>, <<{},{},{},{},{},{5},{3},{}>>, {2,3,4,5,8}, {3,4,5,8}, <<7,1,5,8,6,4,2,3>>, 1)}

Mined(net)     == [net EXCEPT !.jobs = 1]
Restarted(net) == [net EXCEPT !.restarts = 1]

\* Eras of one epoch: the genesis moves.  Late blocks on a branch of the first
\* genesis, one of which the main chain refers to.
LateBranch ==
    Net(<<0,1,2,3,4,5,0,7,6>>, <<{},{},{},{},{},{},{},{4},{8}>>, {1,2,3,4,5,6,8}, {2,3,4,5,6,8,9},
        <<2,3,4,5,6,7,1,8,9>>, 1)

\* Partially invalid blocks that are out of the era by the time they are due.
LateTimers ==
    Net(<<0,1,2,0,3,4,6,2,6>>, <<{},{},{},{},{4},{2},{3},{6},{}>>, 1..8, {2,3,5,6,7,8,9},
        <<5,6,1,4,7,8,2,9,3>>, 1)

\* A block judged before a restart that comes back after the move.
BackAsStub ==
    Net(<<0,1,2,3,4,0,6>>, <<{},{},{},{},{},{},{2}>>, 1..5, {2,3,4,5,7}, <<2,3,4,5,6,1,7>>, 1)

\* Timer blocks in the outlier of the first candidates.
TimersOutside ==
    Net(<<0,0,2,2,4,5,6,7,8,9,10,11,12,13>>, [i \in 1..14 |-> CASE i = 3 -> {1} [] i = 5 -> {3} [] OTHER -> {}],
        {1,3} \cup 5..14, 5..14, <<1,14,2,13,3,4,5,6,7,8,9,10,11,12>>, 2)

AssortedEras ==
    {Net(<<0,1,1,3,2,5,6,7>>, <<{},{},{},{},{4},{},{},{}>>, {1,2,3,5,6,7,8}, 2..8, <<7,8,1,3,5,2,4,6>>, 1),
     Net(<<0,1,0,2,2,5,5,7>>, <<{},{},{},{},{3},{},{4},{}>>, 1..8, {2,4,5,6,7}, <<7,8,1,3,4,5,6,2>>, 1),
     Net(<<0,0,1,2,3,5,6,7>>, <<{},{},{},{},{2},{},{},{}>>, 1..8, 3..8, <<5,1,3,2,7,6,4,8>>, 1),
     Net(<<0,1,0,2,3,2,6,7>>, <<{},{},{},{},{},{5},{},{}>>, {1,2,3,5,6,7,8}, {2,4,5,7,8}, <<8,6,3,7,4,5,2,1>>, 1),
     Net(<<0,1,2,3,4,3,6,7>>, <<{},{},{},{},{},{},{},{5}>>, {1,2,3,4,6,7,8}, 2..8, <<7,1,3,5,2,4,8,6>>, 1)}

Eras(nets)   == {[net EXCEPT !.era = 1] : net \in nets}
Blamed(net)  == [net EXCEPT !.blamed = {4}]

MCNetworks ==
    {Mined(net) : net \in Small(3)}
        \cup {Restarted(net) : net \in {Tall, TallWithRefs, WrongParents}}
        \cup {Mined(net) : net \in {Branches, Wide, HeavyBlock, Difficulties}}
        \cup {Mined(net) : net \in Assorted}
        \cup {WrongUnderBeta2}
        \cup Eras({Mined(net) : net \in {LateBranch, Blamed(LateBranch)} \cup AssortedEras})
        \cup Eras({LateTimers, TimersOutside, Restarted(BackAsStub)})

-----------------------------------------------------------------------------
\* A fork of more timer blocks than the timer chain has, but of less difficulty.
LighterFork ==
    {NetD(<<0,1,2,3,2,5,6>>, [i \in 1..7 |-> {}], {1,2,4,5,6}, 3..7, <<1,2,3,4,5,6,7>>, 2,
          <<1,1,1,3,1,1,1,1>>)}

\* Four terminals, one of which would have to give way to blocks that also a
\* partially invalid block refers to; the blocks arrive in numerical order.
CutTerminals ==
    {Mined(Net(<<0,0,1,1,2,5,6,1,8,9,6,2,12>>,
               [i \in 1..13 |-> IF i \in {7, 13} THEN {3, 4} ELSE {}], {}, {12},
               [i \in 1..13 |-> i], 2))}

\* A child of a delayed out-of-era block comes before that block is due.
ChildOfDelayed ==
    Eras({Net(<<0,1,2,3,4,5,6,0,8,9,7>>, [i \in 1..11 |-> IF i = 9 THEN {6} ELSE {}],
              {1,3,5,6,11}, {2,3,4,5,6,7,9,10,11}, <<2,3,4,5,6,7,8,1,9,10,11>>, 1)})

\* A timer block outside the subtree of the stable block confirms a branch.
TimerOffStable ==
    Eras({Net(<<0,0,2,1,3,3,6,4,5>>, [i \in 1..9 |-> IF i = 8 THEN {5} ELSE {}], 1..8, 3..9,
              <<2,9,4,5,1,3,8,7,6>>, 1)})

InOrder == \A x \in inserted' \ inserted : \A y \in Blocks : y < x => y \in inserted

OrderedSpec == MineInit /\ [][MineNext /\ InOrder]_<<vars, mineVars>>
=============================================================================
