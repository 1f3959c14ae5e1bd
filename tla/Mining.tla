------------------------------- MODULE Mining -------------------------------
(***************************************************************************)
(* What a miner is told to build on and what it builds.  After every block  *)
(* the consensus worker publishes best_info: the tip of the main chain and  *)
(* the terminals to refer to, cut to RefBound of them (best_terminals).     *)
(* The block generator takes a copy, packs transactions without any lock of *)
(* the graph, and assembles the header against whatever graph it finds      *)
(* afterwards: choose_correct_parent and check_mining_adaptive_block.       *)
(***************************************************************************)
EXTENDS ConsensusGraph

CONSTANTS
    RefBound    \* config.referee_bound

VARIABLES
    best,           \* best_info: best_block_hash, bounded_terminal_block_hashes; with
                    \* them, for the properties, the force confirmed block at that time and
                    \* whether the terminals were cut while blocks waited for activation
    published,      \* update_best_info has run for the last block
    lcaCache,       \* best_terminals_lca_height_cache, NULL for no entry
    reorgHeight,    \* best_terminals_reorg_height
    job,            \* the copy the block generator works from
    jobs            \* copies taken so far

mineVars == <<best, published, lcaCache, reorgHeight, job, jobs>>

-----------------------------------------------------------------------------
(* The terminals a new block refers to                                      *)

\* The height at which a block leaves the main chain, from the cache when the
\* chain has not been reorganised below it since.
LcaHeight(a, tip) ==
    IF lcaCache[a] # NULL /\ lcaCache[a] < reorgHeight
    THEN lcaCache[a] ELSE dag.height[Lca(a, tip)]

\* The tips best_terminals may drop next: those that leave the main chain first,
\* out-of-era blocks after all others.
DropNext(tips, tip) ==
    IF tips \cap Era = {} THEN tips
    ELSE {x \in tips \cap Era :
            \A y \in tips \cap Era : LcaHeight(x, tip) <= LcaHeight(y, tip)}

\* The loop of best_terminals: a tip is dropped, and a block all of whose
\* successors are dropped takes its place, unless it is in the pastset of the
\* main chain's tip, which has that tip itself.  Among equal heights the arena index
\* decides; the model returns every outcome.
RECURSIVE BoundTips(_, _, _, _)
BoundTips(tips, dropped, seen, tip) ==
    IF Cardinality(tips) <= RefBound /\ (tips = {} \/ tips \cap Era # {})
    THEN {[refs |-> tips, seen |-> seen]}
    ELSE UNION {
            LET gone == dropped \cup {x}
                back == {y \in Preds(x) \ (dag.past[tip] \cup {tip}) : Successors(y) \subseteq gone}
            IN  BoundTips((tips \ {x}) \cup back, gone, seen \cup (back \cap Era), tip) :
            x \in DropNext(tips, tip)}

\* update_best_info with bounded_terminal_block_hashes; a node that is catching
\* up does not offer terminals.
UpdateBestInfo ==
    LET tip == Last(mainChain)
    IN  /\ ~published /\ queue = {} /\ Due = {}
        /\ published' = TRUE
        /\ \/ /\ recovering # {}
              /\ best' = [parent |-> tip, refs |-> {}, force |-> LastLca, cut |-> FALSE]
              /\ UNCHANGED <<lcaCache, reorgHeight>>
           \/ /\ recovering = {} /\ Cardinality(terminals) <= RefBound
              /\ best' = [parent |-> tip, refs |-> terminals \ {tip}, force |-> LastLca, cut |-> FALSE]
              /\ UNCHANGED <<lcaCache, reorgHeight>>
           \/ /\ recovering = {} /\ Cardinality(terminals) > RefBound
              /\ \E r \in BoundTips(terminals, {}, terminals, tip) :
                    /\ best' = [parent |-> tip, refs |-> r.refs \ {tip}, force |-> LastLca,
                               cut |-> inserted # activated]
                    /\ lcaCache' = [x \in Blocks |-> IF x \in r.seen THEN LcaHeight(x, tip)
                                                     ELSE NULL]
              /\ reorgHeight' = NULLU64
        /\ UNCHANGED <<vars, job, jobs>>

-----------------------------------------------------------------------------
(* Assembling a block from a copy of best_info                              *)

\* Mutant: the blocks that joined the future of the parent since are left out.
StaleMiningOutlier(p, refs) ==
    LET past == IF outlierCache[p] # NULL THEN outlierCache[p] ELSE OutlierBruteforce(p)
        walk == past \cup (inserted \ Era)
    IN  past \ ReachIn(refs \cap walk, walk)

\* The outlier of a block to come with the parent p and the referees refs.
MiningOutlier(p, refs) ==
    OutlierFrom(p, IF outlierCache[p] # NULL THEN outlierCache[p] ELSE OutlierBruteforce(p),
                refs)

\* choose_correct_parent_impl's walk to a leaf.
RECURSIVE HeaviestLeaf(_, _)
HeaviestLeaf(u, W) ==
    IF Children(u) = {} THEN u ELSE HeaviestLeaf(Heaviest(Children(u), W), W)

\* choose_correct_parent_impl: another parent is taken when the force confirmed
\* block of the new block's view is not above the tip.
ParentUnder(p, f, outlier) ==
    IF f \in dag.chain[p] THEN p ELSE HeaviestLeaf(f, WeightWithout(Barrier(outlier)))

\* choose_correct_parent, given the outlier of the block to come.
ChooseParent(p, refs, outlier) ==
    ParentUnder(p, BlockForceConfirm(TimerTuple(p, refs, outlier)), outlier)

\* The referees once the parent p has given way to new.
ChooseReferees(p, refs, new) ==
    IF new = p THEN refs
    ELSE (refs \ {new}) \cup IF Cardinality(refs \ {new}) < RefBound THEN {p} ELSE {}

\* check_mining_adaptive_block, given the outlier and the timer chain tuple.
MiningAdaptive(p, t, outlier) ==
    AdaptiveWeight(p, BlockForceConfirm(t), t, Barrier(outlier), dag.target[p])

\* assemble_new_block_impl: the parent and the referees that are still in the
\* arena, then the header.
Header(p, refs, outlier) ==
    [parent |-> p, refs |-> refs, diff |-> dag.target[p],
     adaptive |-> MiningAdaptive(p, TimerTuple(p, refs, outlier), outlier)]
HeaderOn(p, refs) == Header(p, refs, MiningOutlier(p, refs))
HeaderInstead(p, refs, new) == HeaderOn(new, ChooseReferees(p, refs, new))
HeaderFrom(p, refs) ==
    HeaderInstead(p, refs, ChooseParent(p, refs, MiningOutlier(p, refs)))
Assemble(j) == HeaderFrom(j.parent, j.refs \cap inserted)

\* The block generator takes a copy of best_info.
TakeJob ==
    /\ jobs < dag.jobs
    /\ recovering = {}
    /\ job # best
    /\ job' = best
    /\ jobs' = jobs + 1
    /\ UNCHANGED <<vars, best, published, lcaCache, reorgHeight>>

-----------------------------------------------------------------------------
\* The height below which a step leaves the main chain as it was: activate_block
\* lowers best_terminals_reorg_height when it replaces a part of the chain.
Shared == Max({GenesisHeight} \cup
              {dag.height[x] + 1 : x \in Range(mainChain) \cap Range(mainChain')})

\* Mutant: a block that leaves the chain right below the change keeps its entry.
TrackReorgLate ==
    reorgHeight' = IF Shared = MainHeight THEN reorgHeight
                   ELSE Min({reorgHeight, Shared})

TrackReorg ==
    reorgHeight' = IF Shared = MainHeight THEN reorgHeight
                   ELSE Min({reorgHeight, Shared - 1})

MineInit ==
    /\ Init
    /\ best = [parent |-> Genesis, refs |-> {}, force |-> Genesis, cut |-> FALSE] /\ published = TRUE
    /\ lcaCache = None /\ reorgHeight = NULLU64
    /\ job = NULL /\ jobs = 0

\* A step of the worker; best_info is published before the next block.  A move of
\* the era genesis empties best_terminals_lca_height_cache.
Work ==
    /\ \/ \E b \in Blocks : published /\ OnNewBlock(b) /\ published' = FALSE
       \/ /\ \/ \E b \in queue : Preactivate(b) \/ PassOutOfEra(b)
             \/ \E d \in delayed : Drain(d)
          /\ UNCHANGED published
    /\ TrackReorg
    /\ lcaCache' = IF genesis' = genesis THEN lcaCache ELSE None
    /\ UNCHANGED <<best, job, jobs>>

Restart ==
    /\ Crash
    /\ best' = [parent |-> Genesis, refs |-> {}, force |-> Genesis, cut |-> FALSE] /\ published' = TRUE
    /\ lcaCache' = None /\ reorgHeight' = NULLU64
    /\ job' = NULL
    /\ UNCHANGED jobs

MineNext == Work \/ Restart \/ UpdateBestInfo \/ TakeJob

MineSpec == MineInit /\ [][MineNext]_<<vars, mineVars>>
=============================================================================
