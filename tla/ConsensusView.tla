---------------------------- MODULE ConsensusView ----------------------------
(***************************************************************************)
(* The state of ConsensusGraphInner, and what preactivate_block computes of   *)
(* it for a block whose past is active: the blocks outside its past and      *)
(* future, the timer chain of its past, the block that chain force confirms, *)
(* and whether the block is valid.                                           *)
(*                                                                           *)
(* The arena holds the blocks of the current era, which descend from the era *)
(* genesis, and out-of-era blocks: those that were in the arena when the     *)
(* genesis moved and are neither in its past nor its descendants, and stubs  *)
(* of blocks that have come since.                                           *)
(***************************************************************************)
EXTENDS BlockDag, SequencesExt

CONSTANTS
    Networks,           \* the networks of the instance
    AdaptiveBeta,       \* inner_conf.adaptive_weight_beta
    HeavyRatio,         \* inner_conf.heavy_block_difficulty_ratio
    SetDelay,           \* EPOCH_SET_PERSISTENCE_DELAY
    MaxOutlierSize      \* OutlierCache's MAX_OUTLIER_SIZE

VARIABLES
    dag,            \* the headers
    genesis,        \* cur_era_genesis_block_arena_index
    delivered,      \* blocks consensus has taken since the node started
    inserted,       \* blocks in the arena
    stubs,          \* blocks insert_out_era_block has put there
    activated,      \* data.activated
    invalid,        \* data.partial_invalid, of blocks that left the arena too
    pending,        \* data.pending
    cnt,            \* data.inactive_dependency_cnt, NULL for a delayed block
    queue,          \* on_new_block's queue
    delayed,        \* invalid_block_queue, pairs of start timer and block
    weight,         \* weight_tree
    adaptiveTree,   \* adaptive_tree
    outlierCache,   \* outlier_cache: a set per cached block, NULL for the others
    timerChain,     \* timer_chain
    timerBase,      \* cur_era_genesis_timer_chain_height
    accLca,         \* timer_chain_accumulative_lca
    timerHeight,    \* data.ledger_view_timer_chain_height
    timerDiff,      \* data.past_view_timer_longest_difficulty
    lastTimer,      \* data.past_view_last_timer_block_arena_index
    bestTimer,      \* best_timer_chain_difficulty and best_timer_chain_hash
    forceConfirm,   \* data.force_confirm
    mainChain,      \* main_chain
    mainMeta,       \* main_chain_metadata
    lastMain,       \* data.last_main_in_past
    epochNumber,    \* data.epoch_number
    terminals,      \* terminal_hashes
    stable,         \* cur_era_stable_block_hash, its height cur_era_stable_height
    stableFuture,   \* initial_stable_future, NULL for None
    outlierTimers,  \* has_timer_block_in_outlier_cache
    db,             \* the database: terminals, status, epoch sets, stable
    torn,           \* the databases a crash within the last step leaves behind
    recovering,     \* blocks recover_graph_from_db has yet to insert
    owed,           \* the blocks in the past of the terminals that a crash left written
    crashes,        \* restarts so far
    asserted,       \* no assert! of the handler has failed
    steady          \* the force confirmed block has only moved to descendants so far

nodeVars  == <<genesis, delivered, inserted, stubs, activated, invalid, pending, cnt,
               queue, delayed>>
treeVars  == <<weight, adaptiveTree, outlierCache>>
timerVars == <<timerChain, timerBase, accLca, timerHeight, timerDiff, lastTimer, bestTimer,
               forceConfirm, outlierTimers>>
mainVars  == <<mainChain, mainMeta, lastMain, epochNumber, terminals, stable,
               stableFuture>>
vars == <<dag, nodeVars, treeVars, timerVars, mainVars, db, torn, recovering, owed,
          crashes, asserted, steady>>

-----------------------------------------------------------------------------
(* The graph as the handler sees it                                         *)

Blocks == DOMAIN dag.parent
HeaderPreds(b) == dag.referee[b] \cup ({dag.parent[b]} \ {NULL})

\* The edges of the arena: parent is NULL, and a referee left out, when it is not there.
Preds(b) == HeaderPreds(b) \cap inserted
RefsOf(b) == dag.referee[b] \cap inserted
Children(b) == {x \in inserted : dag.parent[x] = b}
Successors(b) == {x \in inserted : b \in Preds(x)}
Beta == dag.beta

\* The blocks of the arena that are in the current era: era_block is not NULL.
Era == {x \in inserted : genesis \in dag.chain[x]}

\* main_chain by height: its first block is the era genesis.
GenesisHeight == dag.height[genesis]
MainHeight == GenesisHeight + Len(mainChain)
MainAt(h) == mainChain[h - GenesisHeight + 1]

\* blockset_in_own_view_of_epoch: the part of the epoch that is in the arena.
Blockset(b) == dag.blockset[b] \cap inserted

\* A block that has been judged: active, or delayed as partially invalid.
Preactivated == activated \cup {b \in inserted : cnt[b] = NULL}

AncestorAt(b, h) ==
    IF h > dag.height[b] THEN NULL
    ELSE CHOOSE x \in dag.chain[b] : dag.height[x] = h

\* NULL when a block is not in the era.
Lca(x, y) ==
    LET common == dag.chain[x] \cap dag.chain[y]
    IN  IF x \notin Era \/ y \notin Era THEN NULL
        ELSE CHOOSE a \in common : \A c \in common : dag.height[c] <= dag.height[a]

\* The lca of the blocks of a sequence, as the loops over the timer chain fold it.
LcaOf(s) == FoldLeft(Lca, Last(s), Front(s))

IsHeavier(w1, x, w2, y) ==
    \/ w1 > w2
    \/ w1 = w2 /\ dag.hash[x] > dag.hash[y]

\* The heaviest block of a set under the weights W.
Heaviest(S, W) ==
    CHOOSE x \in S : \A y \in S \ {x} : IsHeavier(W[x], x, W[y], y)

\* block_weight, given the active blocks.
BlockWeight(b, active) ==
    IF b \notin active \/ genesis \notin dag.chain[b] THEN 0
    ELSE IF b \notin dag.adaptive THEN dag.diff[b]
    ELSE IF b \in dag.heavy THEN HeavyRatio * dag.diff[b] ELSE 0

\* The path from b to the root of its tree, the era genesis.
RootPath(b) == {x \in dag.chain[b] : genesis \in dag.chain[x]}

\* path_apply of a link-cut tree: the value is added on the path to the root.
PathApply(T, b, w) == [x \in DOMAIN T |-> IF x \in RootPath(b) THEN T[x] + w ELSE T[x]]

\* Mutant: the children off the path are left out.
CaterpillarOnPath(T, b, w) == PathApply(T, b, w)

\* caterpillar_apply: the value is added to every child of the path to the root.
CaterpillarApply(T, b, w) ==
    [x \in DOMAIN T |->
        IF x \in RootPath(b) \/ dag.parent[x] \in RootPath(b) THEN T[x] + w ELSE T[x]]

-----------------------------------------------------------------------------
(* The outlier of a block: the judged blocks neither in its past nor in its *)
(* future                                                                   *)

\* The blocks of S reachable from a set of blocks over predecessor edges inside S.
RECURSIVE ReachIn(_, _)
ReachIn(from, S) ==
    LET next == (UNION {Preds(x) : x \in from} \cap S) \ from
    IN  IF next = {} THEN from ELSE ReachIn(from \cup next, S)

\* compute_future_bitset: only judged blocks are walked.
RECURSIVE FutureIn(_, _)
FutureIn(from, S) ==
    LET next == (UNION {Successors(x) : x \in from} \cap S) \ from
    IN  IF next = {} THEN from ELSE FutureIn(from \cup next, S)

\* compute_outlier_bruteforce: a block in an epoch up to the last main block
\* in the past of b is in that past and is not looked at.
OutlierBruteforce(b) ==
    IF dag.parent[b] \notin inserted THEN {}
    ELSE LET last  == Max({lastMain[p] : p \in Preds(b)})
             later == {x \in inserted : epochNumber[x] > last}
             past  == ReachIn({b}, later)
         IN  (later \cap Preactivated \cap Era) \ (past \cup FutureIn({b}, inserted))

\* The outlier of a block to come with the given parent and referees: the
\* outlier and the future of the parent without what the referees reach, through
\* out-of-era blocks too.
OutlierFrom(p, parentOutlier, refs) ==
    LET wide == parentOutlier \cup (FutureIn({p}, Preactivated) \ {p})
        walk == wide \cup (inserted \ Era)
    IN  wide \ ReachIn(refs \cap walk, walk)

\* compute_and_update_outlier.
ComputeOutlier(b) ==
    LET p == dag.parent[b]
    IN  IF outlierCache[p] = NULL THEN OutlierBruteforce(b)
        ELSE (OutlierFrom(p, outlierCache[p], RefsOf(b)) \ {b}) \cap Era

\* OutlierCache::update: b's own set is cached when it is small, and b joins
\* the cached sets of its outlier, which are dropped when they grow too large.
CacheUpdate(b, outlier) ==
    [x \in Blocks |->
        IF x = b
        THEN IF Cardinality(outlier) < MaxOutlierSize THEN outlier ELSE NULL
        ELSE IF x \notin outlier \/ outlierCache[x] = NULL THEN outlierCache[x]
        ELSE IF Cardinality(outlierCache[x] \cup {b}) > MaxOutlierSize THEN NULL
        ELSE outlierCache[x] \cup {b}]

\* outlier_barrier: the roots of the outlier's subtrees.
Barrier(outlier) == {x \in outlier \cap Era : dag.parent[x] \notin outlier}

\* Both trees with the weight of the outlier's subtrees taken out.
WeightWithout(barrier) ==
    FoldSet(LAMBDA i, T : PathApply(T, i, -weight[i]), weight, barrier)

AdaptiveWithout(barrier) ==
    FoldSet(LAMBDA i, T :
                PathApply(CaterpillarApply(T, dag.parent[i], weight[i]), i, -2 * weight[i]),
            adaptiveTree, barrier)

-----------------------------------------------------------------------------
(* The timer chain.  Positions in the chain count from 0: the block at      *)
(* position i is timerChain[i + 1] and has the timer height timerBase + i.  *)

IsTimer(b) == b \in dag.timer \ (invalid \cup stubs)

\* get_timer_chain_index, given a chain and the heights that go with it.
TimerIndex(b, chain, height) ==
    LET i == height[b] - timerBase
    IN  IF IsTimer(b) /\ i \in 0..(Len(chain) - 1) /\ chain[i + 1] = b THEN i ELSE NULL

OnTimerChain(b) == TimerIndex(b, timerChain, timerHeight) # NULL

\* compute_timer_chain_past_view_info: the predecessor with the longest timer
\* chain, that chain's difficulty and its last timer block.
PastViewTimer(p, refs) ==
    LET diff(x) == timerDiff[x] + IF IsTimer(x) THEN dag.diff[x] ELSE 0
        S == {p} \cup refs
        longest == CHOOSE x \in S :
                      \A y \in S \ {x} : IsHeavier(diff(x), x, diff(y), y)
    IN  [diff |-> diff(longest),
         last |-> IF IsTimer(longest) THEN longest ELSE lastTimer[longest]]

\* The timer blocks from b back to the timer chain, oldest first, and the
\* block of the chain they hang from.
RECURSIVE OffChain(_)
OffChain(b) ==
    IF b = NULL \/ OnTimerChain(b) THEN << >>
    ELSE Append(OffChain(lastTimer[b]), b)

RECURSIVE ForkPoint(_)
ForkPoint(b) == IF b = NULL \/ OnTimerChain(b) THEN b ELSE ForkPoint(lastTimer[b])

\* The timer heights in the view of a block whose timer chain leaves the
\* current one at position fork with the blocks of tmp: recomputed for the
\* future of the fork point outside the outlier, in topological order.
ViewHeights(start, fork, tmp, outlier) ==
    LET visited == FutureIn({start}, inserted \ outlier)
        counts(x) == \/ x \in Range(tmp)
                     \/ OnTimerChain(x) /\ timerHeight[x] - timerBase < fork
        h[x \in visited] ==
            Max({0} \cup
                {(IF p \in visited THEN h[p] ELSE timerHeight[p])
                    + (IF counts(p) THEN 1 ELSE 0) : p \in Preds(x)})
    IN  h

LastLca == IF accLca = << >> THEN genesis ELSE Last(accLca)

Deeper(lca, last) ==
    IF lca # NULL /\ dag.height[last] < dag.height[lca] THEN lca ELSE last

\* The accumulative lca list continued over old blocks of the chain that only
\* the longer fork tmp buries deep enough.
ExtraOldLca(fork, tmp) ==
    LET from == Max({Len(timerChain), Beta})
        to   == fork + Min({Len(tmp), Beta})
        step(acc, i) ==
            LET end == i - Beta
            IN  IF end < Beta THEN [last |-> acc.last, list |-> Append(acc.list, genesis)]
                ELSE LET lca == LcaOf(SubSeq(timerChain, end - Beta + 2, end + 1))
                         new == Deeper(lca, acc.last)
                     IN  [last |-> new, list |-> Append(acc.list, new)]
    IN  IF /\ Len(tmp) > Len(timerChain) - fork
           /\ Len(timerChain) - fork < Beta
        THEN FoldLeft(step, [last |-> LastLca, list |-> << >>],
                      [k \in 1..Max({0, to - from}) |-> from + k - 1]).list
        ELSE << >>

\* The list continued over the blocks of the fork itself.
ExtraNewLca(fork, tmp, old) ==
    LET chain == SubSeq(timerChain, 1, fork) \o tmp
        first == IF old # << >> THEN Last(old)
                 ELSE IF fork = 0 THEN genesis ELSE accLca[fork]
        step(acc, i) ==
            IF fork + i + 1 < Beta
            THEN [last |-> acc.last, list |-> Append(acc.list, genesis)]
            ELSE LET lca == LcaOf(SubSeq(chain, fork + i + 2 - Beta, fork + i + 1))
                     new == Deeper(lca, acc.last)
                 IN  [last |-> new, list |-> Append(acc.list, new)]
    IN  IF Len(tmp) > Beta
        THEN FoldLeft(step, [last |-> first, list |-> << >>],
                      [k \in 1..(Len(tmp) - Beta) |-> k - 1]).list
        ELSE << >>

\* compute_timer_chain_tuple: the timer chain in the view of a block with the
\* given parent and referees, relative to the current one; at is the timer height of the fork.
TimerTuple(p, refs, outlier) ==
    LET last  == PastViewTimer(p, refs).last
        tmp   == OffChain(last)
        point == ForkPoint(last)
        fork  == IF point = NULL THEN 0 ELSE timerHeight[point] + 1 - timerBase
        old   == ExtraOldLca(fork, tmp)
    IN  [fork    |-> fork,
         at      |-> fork + timerBase,
         tmp     |-> tmp,
         lca     |-> old \o ExtraNewLca(fork, tmp, old),
         heights |-> IF fork >= Len(timerChain) THEN << >>
                     ELSE ViewHeights(IF point = NULL THEN genesis ELSE timerChain[fork],
                                      fork, tmp, outlier)]

\* compute_block_force_confirm.
BlockForceConfirm(t) ==
    LET end == t.fork + Len(t.tmp)
    IN  IF t.lca # << >> THEN Last(t.lca)
        ELSE IF end > Beta THEN accLca[end - Beta]
        ELSE genesis

\* get_timer_tick, and the assertion it makes of a block outside the map.
TimerTick(b, t) == IF b \in DOMAIN t.heights THEN t.heights[b] ELSE timerHeight[b]
TickInBound(b, t) == b \in DOMAIN t.heights \/ timerHeight[b] <= t.at

\* get_best_timer_tick.
BestTick(t) == t.at + Len(t.tmp)

-----------------------------------------------------------------------------
(* Judging a block against its past                                         *)

\* The search of adaptive_weight_impl for the highest ancestor of p above low
\* that is at least Beta timer blocks old; base when there is none.
RECURSIVE OldEnough(_, _, _, _, _)
OldEnough(p, t, low, high, best) ==
    IF low > high THEN best
    ELSE LET mid == (low + high) \div 2
             age == BestTick(t) - TimerTick(AncestorAt(p, mid), t)
         IN  IF age >= Beta THEN OldEnough(p, t, mid + 1, high, mid)
             ELSE OldEnough(p, t, low, mid - 1, best)

\* adaptive_weight_impl: whether a block of difficulty d under p, which has f
\* as its force confirmed block, is to be adaptive.
AdaptiveWeight(p, f, t, barrier, d) ==
    LET base == dag.height[f]
        best == OldEnough(p, t, base + 1, dag.height[p], base)
        tree == AdaptiveWithout(barrier)
    IN  /\ f \in dag.chain[p]
        /\ best # base
        /\ Min({tree[AncestorAt(p, h)] : h \in (base + 1)..best}) < AdaptiveBeta * d

\* The assertions adaptive_weight_impl makes of the timer ticks on the way.
TicksAsserted(p, f, t) ==
    f \in dag.chain[p] =>
        \A x \in dag.chain[p] \ dag.chain[f] :
            TickInBound(x, t) /\ TimerTick(x, t) <= BestTick(t)

\* The blocks check_correct_parent compares with the parent: the epoch of the
\* block, and those of the parental ancestors up to the first valid one, which
\* the era genesis is at the latest (ActivationExact).
RECURSIVE UncheckedEpochs(_)
UncheckedEpochs(p) ==
    IF p \notin invalid \cup pending THEN {}
    ELSE Blockset(p) \cup UncheckedEpochs(dag.parent[p])

\* Mutant: only the epoch of the block itself is looked at.
OwnEpochOnly(b) == Blockset(b)

ParentCandidates(b) == Blockset(b) \cup UncheckedEpochs(dag.parent[b])

\* check_correct_parent: no candidate is below the parent, and where a
\* candidate of the era forks off at or above f, its fork is not the heavier one.
CorrectParent(b, f, barrier) ==
    LET p == dag.parent[b]
        W == WeightWithout(barrier)
    IN  \A c \in ParentCandidates(b) :
            LET a == Lca(c, p)
                h == dag.height[a] + 1
                fork == AncestorAt(c, h)
                main == AncestorAt(p, h)
            IN  a # NULL /\ dag.height[a] >= dag.height[f] =>
                    /\ a # p
                    /\ ~IsHeavier(W[fork], fork, W[main], main)

\* check_block_full_validity.  dag.target is expected_difficulty, which depends
\* on the parent alone.
FullyValid(b, f, t, barrier) ==
    /\ Lca(dag.parent[b], f) = f
    /\ CorrectParent(b, f, barrier)
    /\ dag.diff[b] = dag.target[dag.parent[b]]
    /\ (b \in dag.adaptive)
          = AdaptiveWeight(dag.parent[b], f, t, barrier, dag.diff[b])

\* preactivate_block: a block outside the future of the stable block is not judged.
InStableFuture(b) ==
    IF stableFuture # NULL
    THEN b = stable \/ Preds(b) \cap stableFuture # {}
    ELSE Max({lastMain[p] : p \in Preds(b)}) >= dag.height[stable]

\* The status preactivate_block gives: computed in the future of the stable
\* block, taken from the database elsewhere.
Status(b, f, t, barrier) ==
    IF ~InStableFuture(b) THEN db.status[b]
    ELSE IF FullyValid(b, f, t, barrier) THEN "Valid" ELSE "PartialInvalid"

\* compute_invalid_block_start_timer.
StartTimer(b, last, chain, height) ==
    IF last[b] = NULL THEN Beta
    ELSE height[last[b]] + Beta
           + IF TimerIndex(last[b], chain, height) # NULL THEN 1 ELSE 0

\* The timer on_new_block compares the start timers with.
CurrentTimer == IF timerChain = << >> THEN timerBase ELSE timerHeight[Last(timerChain)] + 1

Due == {d \in delayed : d[1] <= CurrentTimer}
=============================================================================
