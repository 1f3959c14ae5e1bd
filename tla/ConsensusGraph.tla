--------------------------- MODULE ConsensusGraph ---------------------------
(***************************************************************************)
(* ConsensusNewBlockHandler.  Every block is inserted and waits until its   *)
(* predecessors are active; it is then judged against its past and either   *)
(* activated or, when it is partially invalid, delayed until enough timer   *)
(* blocks have been seen.  Activation maintains the weight trees, the timer *)
(* chain, the main chain with its epochs, the terminals and the stable      *)
(* block, moves the era genesis, and writes what a restart recovers from.   *)
(***************************************************************************)
EXTENDS ConsensusView

-----------------------------------------------------------------------------
(* What activation changes                                                  *)

\* The tips of the active graph once b is active.
NewTerminals(b) == (terminals \ Preds(b)) \cup {b}

\* update_timer_chain: the chain in the view of b becomes the timer chain and
\* b its last block.
NewChain(t) == SubSeq(timerChain, 1, t.fork) \o t.tmp

\* The list of accumulative lcas that the view of b leaves, for a chain of len
\* blocks before b.  What the two lists leave open is filled with arena index 0.
KeptAccLca(t, len) ==
    LET size  == Max({0, len - Beta})
        keep  == size - Len(t.lca)
    IN  [i \in 1..size |->
            IF i > keep THEN t.lca[i - keep]
            ELSE IF i <= Len(accLca) THEN accLca[i] ELSE Genesis]

\* The same list with the entry that b adds, which ends the chain full.
NewAccLca(base, full) ==
    LET last == IF base = << >> THEN genesis ELSE Last(base)
        len  == Len(full)
    IN  IF len >= 2 * Beta
        THEN Append(base, Deeper(LcaOf(SubSeq(full, len - 2 * Beta + 1, len - Beta)), last))
        ELSE IF len > Beta THEN Append(base, genesis)
        ELSE base

NewTimerHeights(b, t) ==
    [x \in Blocks |->
        IF x \in DOMAIN t.heights THEN t.heights[x]
        ELSE IF x = b THEN t.at ELSE timerHeight[x]]

\* The timer height of a block that does not become the end of the timer chain.
InheritedTimerHeight(b) ==
    Max({timerHeight[p] + IF OnTimerChain(p) THEN 1 ELSE 0 : p \in Preds(b)})

\* The timer chain once b is active: it is b's when that is the heaviest.
TimersAfter(b, diff, t) ==
    IF IsTimer(b) /\ \/ diff > bestTimer.diff
                     \/ diff = bestTimer.diff /\ dag.hash[b] > bestTimer.hash
    THEN [chain |-> Append(NewChain(t), b),
          acc |-> NewAccLca(KeptAccLca(t, t.fork + Len(t.tmp)), Append(NewChain(t), b)),
          height |-> NewTimerHeights(b, t), top |-> [diff |-> diff, hash |-> dag.hash[b]],
          asserted |-> /\ b \notin DOMAIN t.heights => t.tmp = << >>
                       /\ Len(t.lca) <= Max({0, t.fork + Len(t.tmp) - Beta})]
    ELSE [chain |-> timerChain, acc |-> accLca, top |-> bestTimer, asserted |-> TRUE,
          height |-> [timerHeight EXCEPT ![b] = InheritedTimerHeight(b)]]

\* The loop that rebuilds the main chain from u: along the path to the force
\* confirmed block, then to the heaviest active child.
RECURSIVE Descend(_, _, _, _)
Descend(u, force, W, active) ==
    LET kids == {c \in Children(u) : c \in active}
    IN  <<u>> \o IF dag.height[u] >= dag.height[force] /\ kids = {} THEN << >>
                 ELSE Descend(IF dag.height[u] < dag.height[force]
                              THEN AncestorAt(force, dag.height[u] + 1)
                              ELSE Heaviest(kids, W), force, W, active)

\* The height above the lca of two blocks of the era.
ForkHeight(x, y) == dag.height[Lca(x, y)] + 1

\* The main chain replaced from height h on by the chain from u.
ReplaceFrom(h, u, force, W, active) ==
    [fork |-> h - GenesisHeight, new |-> Descend(u, force, W, active)]

\* b's branch takes over at height h, where it leaves the main chain, when it
\* is heavier there and low is below.
TakeOver(b, h, low, force, W, active) ==
    IF h > low /\ IsHeavier(W[AncestorAt(b, h)], AncestorAt(b, h), W[MainAt(h)], MainAt(h))
    THEN ReplaceFrom(h, AncestorAt(b, h), force, W, active)
    ELSE [fork |-> Len(mainChain), new |-> << >>]

\* Mutant: a heavier branch takes over although it forks below the force
\* confirmed block.
MainByWeight(b, force, W, active) ==
    IF dag.parent[b] = Last(mainChain) THEN [fork |-> Len(mainChain), new |-> <<b>>]
    ELSE TakeOver(b, ForkHeight(Last(mainChain), b), 0, genesis, W, active)

\* The number of blocks of the main chain that activating b leaves, and the
\* blocks that take over from there; << >> when nothing changes.
MainUpdate(b, force, W, active) ==
    LET last == Last(mainChain)
    IN  IF force \notin dag.chain[last]
        THEN ReplaceFrom(ForkHeight(force, last), AncestorAt(force, ForkHeight(force, last)),
                         force, W, active)
        ELSE IF dag.parent[b] = last THEN [fork |-> Len(mainChain), new |-> <<b>>]
        ELSE TakeOver(b, ForkHeight(last, b), dag.height[force], force, W, active)

\* The blocks whose last_main_in_past recompute_metadata computes again: b and,
\* when the chain is replaced, those recorded at or above the block before the fork.
ToUpdate(b, u) ==
    {b} \cup IF u.fork = Len(mainChain) THEN {}
             ELSE UNION {mainMeta[i].blocks : i \in u.fork..Len(mainChain)}

NewLastMain(todo, new) ==
    LET lm[x \in Blocks] ==
            IF x \in Range(new) THEN dag.height[x]
            ELSE IF x \in todo THEN Max({lm[p] : p \in Preds(x)})
            ELSE lastMain[x]
    IN  lm

\* main_chain_metadata of the chain that u leaves: the entries of the new
\* blocks are rebuilt, the other blocks are added where they now belong.
NewMainMeta(moved, u, chain, lm, active) ==
    LET w(x)  == BlockWeight(x, active)
        past[i \in 0..Len(chain)] ==
            IF i = 0 THEN 0
            ELSE IF i <= u.fork THEN mainMeta[i].weight
            ELSE past[i - 1] + MapThenSumSet(w, Blockset(chain[i]) \cup {chain[i]})
    IN  [i \in 1..Len(chain) |->
            [blocks |-> (IF i <= u.fork THEN mainMeta[i].blocks ELSE {chain[i]})
                            \cup {x \in moved : lm[x] = GenesisHeight + i - 1},
             weight |-> past[i]]]

EpochOf(m) == Blockset(m) \cup {m}

\* Mutant: the epochs of the replaced blocks are not reset.
KeptEpochNumber(u) ==
    [x \in Blocks |->
        LET own == {m \in Range(u.new) : x \in EpochOf(m)}
        IN  IF own # {} THEN dag.height[CHOOSE m \in own : TRUE] ELSE epochNumber[x]]

\* set_epoch_number_in_epoch over the new blocks, after
\* reset_epoch_number_in_epoch over those they replace.
NewEpochNumber(u) ==
    LET gone == {mainChain[i] : i \in (u.fork + 1)..Len(mainChain)}
    IN  [x \in Blocks |->
            IF \E m \in Range(u.new) : x \in EpochOf(m)
            THEN dag.height[CHOOSE m \in Range(u.new) : x \in EpochOf(m)]
            ELSE IF \E m \in gone : x \in EpochOf(m) THEN NULLU64
            ELSE epochNumber[x]]

\* The epoch sets persisted once they are SetDelay blocks deep.
NewSets(fork, chain) ==
    LET old    == Len(mainChain)
        capped == Max({dag.height[stable] + 1 - GenesisHeight, fork})
        from   == IF old >= SetDelay THEN Min({capped, old - SetDelay}) ELSE capped
        i(h)   == h - GenesisHeight
        set(m) == [dag.epoch[m] EXCEPT !.skipped = @ \cap inserted]
    IN  [h \in DOMAIN db.sets |->
            IF i(h) \in from..(Len(chain) - SetDelay - 1) THEN set(chain[i(h) + 1])
            ELSE db.sets[h]]

\* should_move_stable_height: the next era boundary, when a further era is
\* above it and it is force confirmed.
NewStable(chain, lcas) ==
    LET h    == dag.height[stable] - GenesisHeight
        next == h + dag.era
    IN  IF /\ Len(chain) - 1 > h
           /\ chain[h + 1] = stable
           /\ next + dag.era <= Len(chain) - 1
           /\ lcas # << >>
           /\ chain[next + 1] \in dag.chain[Last(lcas)]
        THEN chain[next + 1] ELSE stable

InStableSubtree(b) ==
    dag.height[b] > dag.height[stable] /\ AncestorAt(b, dag.height[stable]) = stable

-----------------------------------------------------------------------------
(* The move of the era genesis.  s is the state that activation leaves.     *)

\* The main blocks on the era boundaries between the genesis and the stable
\* block that the view of the stable block force confirms.
Candidates(s) ==
    {c \in Range(s.main) :
        /\ dag.height[c] \in (GenesisHeight + 1)..(dag.height[s.stable] - 1)
        /\ (dag.height[c] - GenesisHeight) % dag.era = 0
        /\ Lca(c, s.confirm[s.stable]) = c}

\* Whether a block of the timer chain is in neither the past nor the future of c.
TimerInOutlier(c, s) ==
    \E i \in (s.height[c] - s.base + 1)..Len(s.timers) :
        s.timers[i] \notin FutureIn({c}, inserted)

\* should_form_checkpoint_at: the lowest candidate without a timer block in its
\* outlier, and the candidates below it, which are not looked at again.
ShouldFormCheckpointAt(s) ==
    LET bad  == {c \in Candidates(s) : c \in outlierTimers \/ TimerInOutlier(c, s)}
        good == Candidates(s) \ bad
        low  == CHOOSE c \in good : \A d \in good : dag.height[c] <= dag.height[d]
    IN  IF \/ dag.height[s.stable] >= dag.height[Last(s.main)]
           \/ s.stable \notin Range(s.main) \/ s.stable \in dag.blamed
        THEN [genesis |-> genesis, skip |-> {}]
        ELSE IF good = {} THEN [genesis |-> genesis, skip |-> bad]
        ELSE [genesis |-> low, skip |-> {c \in bad : dag.height[c] < dag.height[low]}]

\* Mutant: the list is cut at the wrong end.
CutAccLcaEnd(acc, k, g) ==
    [i \in 1..Max({0, Len(acc) - k}) |->
        IF i < Beta \/ g \notin dag.chain[acc[i]] THEN g ELSE acc[i]]

\* The accumulative lca list of the timer chain without its first k blocks:
\* what is not below g, or lacks a window of Beta blocks, becomes g.
CutAccLca(acc, k, g) ==
    [i \in 1..Max({0, Len(acc) - k}) |->
        IF i < Beta \/ g \notin dag.chain[acc[i + k]] THEN g ELSE acc[i + k]]

\* The past weights of the chain that starts at g, over its subtree.
CutWeights(main, g, active) ==
    LET w(x) == IF g \in dag.chain[x] THEN BlockWeight(x, active) ELSE 0
        past[i \in 0..Len(main)] ==
            IF i = 0 THEN 0
            ELSE past[i - 1] + w(main[i])
                    + IF i = 1 THEN 0 ELSE MapThenSumSet(w, Blockset(main[i]))
    IN  past

CutMain(s, g, n, kept) ==
    LET main == SubSeq(s.main, n + 1, Len(s.main))
        past == CutWeights(main, g, s.active)
    IN  [s EXCEPT !.main = main,
                  !.meta = [i \in 1..Len(main) |->
                                [blocks |-> s.meta[n + i].blocks \cap kept, weight |-> past[i]]]]

\* make_checkpoint_at: the past of g leaves the arena; what is neither there nor
\* below g stays as an out-of-era block with its edges and leaves the trees.
CheckpointAt(s, g, kept, k) ==
    [CutMain(s, g, dag.height[g] - GenesisHeight, kept) EXCEPT
        !.genesis   = g,
        !.inserted  = kept,
        !.active    = @ \cap kept,
        !.terminals = {x \in @ \cap kept : g \in dag.chain[x]},
        !.weight    = [x \in Blocks |-> IF g \in dag.chain[x] THEN s.weight[x] ELSE 0],
        !.adaptive  = [x \in Blocks |-> IF g \in dag.chain[x] THEN s.adaptive[x] ELSE 0],
        !.outlier   = [x \in Blocks |->
                        IF s.outlier[x] = NULL \/ x \notin kept THEN NULL
                        ELSE {y \in s.outlier[x] : y \in kept /\ g \in dag.chain[y]}],
        !.timers    = SubSeq(@, k + 1, Len(@)),
        !.base      = @ + k,
        !.acc       = CutAccLca(@, k, g),
        !.last      = [x \in Blocks |-> IF s.last[x] \in kept THEN s.last[x] ELSE NULL],
        !.confirm   = [x \in Blocks |-> IF s.confirm[x] \in kept THEN s.confirm[x] ELSE g],
        !.skip      = {},
        !.asserted  = /\ @
                      /\ s.base + k = s.height[g]
                      /\ \A d \in s.delayed : d[2] \in kept]

MakeCheckpointAt(s, c) ==
    IF c.genesis = genesis THEN [s EXCEPT !.skip = @ \cup c.skip]
    ELSE LET kept == inserted \ dag.past[c.genesis]
         IN  CheckpointAt(s, c.genesis, kept,
                          Cardinality({i \in 1..Len(s.timers) :
                              \A j \in 1..i : s.timers[j] \notin kept}))

-----------------------------------------------------------------------------
(* activate_block                                                           *)

\* The writes to the database are not one transaction: the states between them.
Torn(dbs) == IF crashes < dag.restarts THEN dbs ELSE {}

Counted(b) ==
    [x \in Blocks |-> IF x \in Successors(b) THEN cnt[x] - 1 ELSE IF x = b THEN 0 ELSE cnt[x]]

CountsAsserted(b) == \A x \in Successors(b) : cnt[x] # 0

ReadyAfter(b) == (queue \ {b}) \cup {x \in Successors(b) : cnt[x] = 1}

\* An out-of-era block only counts for the blocks that wait for it.
ActivateOutOfEra(b) ==
    /\ activated' = activated \cup {b}
    /\ cnt' = Counted(b)
    /\ queue' = ReadyAfter(b)
    /\ asserted' = (asserted /\ CountsAsserted(b))
    /\ torn' = {}

\* The graph once b is active, before the era genesis may move: a is the timer
\* chain, u the change of the main chain, of the state j that judging b has left.
Updated(b, j, a, u, W, T, active) ==
    LET main == SubSeq(mainChain, 1, u.fork) \o u.new
        todo == ToUpdate(b, u) \ {genesis}
        lm   == NewLastMain(todo, u.new)
    IN  [genesis |-> genesis, inserted |-> inserted, active |-> active,
         terminals |-> NewTerminals(b), weight |-> W, adaptive |-> T, outlier |-> j.outlier,
         timers |-> a.chain, base |-> timerBase, acc |-> a.acc, height |-> a.height,
         last |-> j.last, confirm |-> j.confirm, main |-> main, lastMain |-> lm,
         meta |-> NewMainMeta(todo \ Range(u.new), u, main, lm, active),
         stable |-> IF InStableSubtree(b) THEN NewStable(main, a.acc) ELSE stable,
         delayed |-> IF a.chain = timerChain THEN j.delayed
                     ELSE {<<StartTimer(d[2], j.last, a.chain, a.height), d[2]>> :
                            d \in j.delayed},
         skip |-> outlierTimers,
         asserted |-> j.asserted /\ a.asserted /\ CountsAsserted(b)]

\* The database after told (the status of b), then the epoch sets, the era
\* genesis and the stable block, and the terminals.
Persist(told, sets, s) ==
    LET wrote == [told EXCEPT !.sets = sets]
        fixed == [wrote EXCEPT !.stable = s.stable]
    IN  /\ db' = [fixed EXCEPT !.terminals = s.terminals]
        /\ torn' = Torn({told, wrote, fixed})

Become(s) ==
    /\ genesis' = s.genesis /\ inserted' = s.inserted /\ activated' = s.active
    /\ terminals' = s.terminals /\ weight' = s.weight /\ adaptiveTree' = s.adaptive
    /\ outlierCache' = s.outlier /\ outlierTimers' = s.skip
    /\ timerChain' = s.timers /\ timerBase' = s.base /\ accLca' = s.acc
    /\ timerHeight' = s.height /\ lastTimer' = s.last /\ forceConfirm' = s.confirm
    /\ mainChain' = s.main /\ mainMeta' = s.meta /\ lastMain' = s.lastMain
    /\ stable' = s.stable /\ delayed' = s.delayed /\ asserted' = s.asserted

Activate(b, j) ==
    \E active \in {activated \cup {b}} :
    \E w \in {BlockWeight(b, active)}, p \in {dag.parent[b]} :
    \E a \in {TimersAfter(b, j.diff[b] + (IF IsTimer(b) THEN dag.diff[b] ELSE 0),
                          TimerTuple(p, RefsOf(b), {}))} :
    \E force \in {IF a.acc = << >> THEN genesis ELSE Last(a.acc)} :
    \E W \in {PathApply(weight, b, w)},
       T \in {CaterpillarApply(
                PathApply([adaptiveTree EXCEPT ![b] = BlockWeight(p, active) - weight[p]],
                          b, 2 * w), p, -w)} :
    \E u \in {MainUpdate(b, force, W, active)} :
    \E s \in {Updated(b, j, a, u, W, T, active)} :
        /\ cnt' = Counted(b)
        /\ queue' = ReadyAfter(b)
        /\ timerDiff' = j.diff
        /\ bestTimer' = a.top
        /\ epochNumber' = NewEpochNumber(u)
        /\ stableFuture' = IF s.stable = stable THEN j.future ELSE NULL
        /\ steady' = (steady /\ LastLca \in dag.chain[force])
        /\ Become(IF InStableSubtree(b) THEN MakeCheckpointAt(s, ShouldFormCheckpointAt(s))
                  ELSE s)
        /\ Persist([db EXCEPT !.status = j.status],
                   IF u.new # << >> /\ InStableSubtree(b) THEN NewSets(u.fork, s.main) ELSE db.sets,
                   [stable |-> stable', terminals |-> terminals'])

-----------------------------------------------------------------------------
(* The steps of the worker                                                  *)

\* Mutant: the referees are not counted.
InactiveParent(b) == IF dag.parent[b] \in activated THEN 0 ELSE 1

InactiveDependencies(b) == Cardinality(Preds(b) \ activated)

\* on_new_block up to its loop.  The synchronization graph delivers a block
\* after its past; after a restart it delivers what the database has before
\* anything else.
Deliverable(b) ==
    /\ queue = {} /\ Due = {}
    /\ b \notin delivered
    /\ HeaderPreds(b) \subseteq delivered
    /\ recovering = {} \/ b \in recovering

\* insert and update_lcts_initial: the parent is in the era.
InsertInEra(b) ==
    /\ dag.parent[b] \in Era
    /\ inserted' = inserted \cup {b}
    /\ cnt' = [cnt EXCEPT ![b] = InactiveDependencies(b)]
    /\ queue' = IF cnt'[b] = 0 THEN {b} ELSE {}
    /\ UNCHANGED <<stubs, pending, invalid>>

\* insert_out_era_block: a stub, which has its status from the database and
\* waits for its referees only.
InsertOutEra(b) ==
    /\ dag.parent[b] \notin Era
    /\ Preds(b) # {}
    /\ inserted' = inserted \cup {b}
    /\ stubs' = stubs \cup {b}
    /\ pending' = pending \cup {b}
    /\ invalid' = IF db.status[b] = "PartialInvalid" THEN invalid \cup {b} ELSE invalid
    /\ cnt' = [cnt EXCEPT ![b] = Cardinality(RefsOf(b) \ activated)]
    /\ queue' = IF cnt'[b] = 0 THEN {b} ELSE {}

\* insert_out_era_block: nothing of the arena is next to the block.
Ignore(b) ==
    /\ Preds(b) = {}
    /\ UNCHANGED <<inserted, stubs, pending, invalid, cnt, queue>>

OnNewBlock(b) ==
    /\ Deliverable(b)
    /\ delivered' = delivered \cup {b}
    /\ recovering' = recovering \ {b}
    /\ torn' = {}
    /\ InsertInEra(b) \/ InsertOutEra(b) \/ Ignore(b)
    /\ UNCHANGED <<dag, genesis, activated, delayed, treeVars, timerVars, mainVars, db,
                   owed, crashes, asserted, steady>>

\* preactivate_block: what judging b leaves, given its outlier and the timer
\* chain in its view.
Judged(b, outlier, t) ==
    LET p      == dag.parent[b]
        view   == PastViewTimer(p, RefsOf(b))
        f      == BlockForceConfirm(t)
        judged == InStableFuture(b)
    IN  [status  |-> Status(b, f, t, Barrier(outlier)),
         diff    |-> [timerDiff EXCEPT ![b] = view.diff],
         last    |-> [lastTimer EXCEPT ![b] = view.last],
         confirm |-> [forceConfirm EXCEPT ![b] = IF judged THEN f ELSE genesis],
         outlier |-> CacheUpdate(b, outlier),
         future  |-> IF stableFuture # NULL /\ judged THEN stableFuture \cup {b}
                     ELSE stableFuture,
         asserted |-> /\ asserted
                      /\ judged => /\ TicksAsserted(p, f, t)
                                   /\ \A c \in ParentCandidates(b) : c \notin dag.chain[p]]

\* The block is partially invalid and waits for its timer.
Delay(b, j) ==
    /\ invalid' = invalid \cup {b}
    /\ cnt' = [cnt EXCEPT ![b] = NULL]
    /\ queue' = queue \ {b}
    /\ delayed' = delayed \cup {<<StartTimer(b, j.last, timerChain, timerHeight), b>>}
    /\ timerDiff' = j.diff /\ lastTimer' = j.last /\ forceConfirm' = j.confirm
    /\ outlierCache' = j.outlier /\ stableFuture' = j.future /\ asserted' = j.asserted
    /\ db' = [db EXCEPT !.status[b] = "PartialInvalid"]
    /\ torn' = {}
    /\ UNCHANGED <<genesis, inserted, pending, activated, weight, adaptiveTree, timerChain,
                   timerBase, accLca, timerHeight, bestTimer, outlierTimers, mainChain,
                   mainMeta, lastMain, epochNumber, terminals, stable, steady>>

\* One turn of the loop over a block of the era: preactivate_block, then the
\* block is delayed or activated.
Preactivate(b) ==
    /\ b \in queue \cap Era /\ Due = {}
    /\ \E outlier \in {ComputeOutlier(b)} :
       \E t \in {TimerTuple(dag.parent[b], RefsOf(b), outlier)} :
       \E j \in {Judged(b, outlier, t)} :
            \/ j.status = "PartialInvalid" /\ Delay(b, j)
            \/ /\ j.status # "PartialInvalid"
               /\ pending' = IF j.status = "Pending" THEN pending \cup {b} ELSE pending
               /\ Activate(b, [j EXCEPT !.status = [db.status EXCEPT ![b] = j.status]]
                                @@ [delayed |-> delayed])
               /\ UNCHANGED invalid
    /\ UNCHANGED <<dag, delivered, stubs, recovering, owed, crashes>>

\* One turn over an out-of-era block, which is not judged.
PassOutOfEra(b) ==
    /\ b \in queue \ Era /\ Due = {}
    /\ \/ /\ b \notin invalid
          /\ pending' = pending \cup {b}
          /\ ActivateOutOfEra(b)
          /\ UNCHANGED delayed
       \/ /\ b \in invalid
          /\ cnt' = [cnt EXCEPT ![b] = NULL]
          /\ queue' = queue \ {b}
          /\ delayed' = delayed \cup {<<StartTimer(b, lastTimer, timerChain, timerHeight), b>>}
          /\ torn' = {}
          /\ UNCHANGED <<activated, pending, asserted>>
    /\ UNCHANGED <<dag, genesis, delivered, inserted, stubs, invalid, treeVars, timerVars,
                   mainVars, db, recovering, owed, crashes, steady>>

\* The rest of the turn: a partially invalid block whose timer is up is activated.
\* Among equal timers the arena index decides; the model takes either.
Drain(d) ==
    /\ d \in Due
    /\ \A e \in Due : d[1] <= e[1]
    /\ \/ /\ d[2] \in Era
          /\ Activate(d[2], [status |-> db.status, diff |-> timerDiff, last |-> lastTimer,
                             confirm |-> forceConfirm, outlier |-> outlierCache,
                             future |-> stableFuture, asserted |-> asserted,
                             delayed |-> delayed \ {d}])
       \/ /\ d[2] \notin Era
          /\ ActivateOutOfEra(d[2])
          /\ delayed' = delayed \ {d}
          /\ UNCHANGED <<genesis, inserted, treeVars, timerVars, mainVars, db, steady>>
    /\ UNCHANGED <<dag, delivered, stubs, invalid, pending, recovering, owed, crashes>>

\* with_era_genesis: the graph of a node that starts holds the genesis only.
Zero == [b \in Blocks |-> 0]
None == [b \in Blocks |-> NULL]
FirstTimers == IF Genesis \in dag.timer THEN <<Genesis>> ELSE << >>
FirstBest   == [diff |-> IF Genesis \in dag.timer THEN dag.diff[Genesis] ELSE 0, hash |-> 0]
FirstMeta   == <<[blocks |-> {Genesis}, weight |-> dag.diff[Genesis]]>>
FirstEpochs == [b \in Blocks |-> IF b = Genesis THEN 0 ELSE NULLU64]

Init ==
    /\ dag \in {Graph(net) : net \in Networks}
    /\ genesis = Genesis /\ delivered = {Genesis} /\ stubs = {}
    /\ inserted = {Genesis} /\ activated = {Genesis} /\ invalid = {} /\ pending = {}
    /\ cnt = Zero /\ queue = {} /\ delayed = {}
    /\ weight = [Zero EXCEPT ![Genesis] = dag.diff[Genesis]] /\ adaptiveTree = Zero
    /\ outlierCache = [None EXCEPT ![Genesis] = {}] /\ outlierTimers = {}
    /\ timerChain = FirstTimers /\ timerBase = 0 /\ accLca = << >> /\ bestTimer = FirstBest
    /\ timerHeight = Zero /\ timerDiff = Zero /\ lastTimer = None /\ forceConfirm = None
    /\ mainChain = <<Genesis>> /\ mainMeta = FirstMeta /\ lastMain = Zero
    /\ epochNumber = FirstEpochs /\ terminals = {}
    /\ stable = Genesis /\ stableFuture = {Genesis}
    /\ db = [terminals |-> {}, status |-> [b \in Blocks |-> "Pending"],
             stable |-> Genesis, sets |-> [h \in Range(dag.height) |-> NULL]]
    /\ torn = {} /\ recovering = {} /\ owed = {} /\ crashes = 0 /\ asserted = TRUE /\ steady = TRUE

\* Mutant: the referees are not followed.
RecoverParents(S) == UNION {dag.chain[b] : b \in S}

\* recover_graph_from_db: the walk back from the stored terminals over parents
\* and referees.
RECURSIVE RecoverFrom(_)
RecoverFrom(S) ==
    LET more == UNION {HeaderPreds(b) : b \in S} \ S
    IN  IF more = {} THEN S ELSE RecoverFrom(S \cup more)

\* The node stops, possibly between two writes of the last step, and starts
\* again from its database.  It does so before its era genesis has moved.
Crash ==
    /\ crashes < dag.restarts
    /\ genesis = Genesis
    /\ crashes' = crashes + 1
    /\ db' \in torn \cup {db} /\ torn' = {}
    /\ genesis' = Genesis /\ delivered' = {Genesis} /\ stubs' = {}
    /\ inserted' = {Genesis} /\ activated' = {Genesis} /\ invalid' = {} /\ pending' = {}
    /\ cnt' = Zero /\ queue' = {} /\ delayed' = {}
    /\ weight' = [Zero EXCEPT ![Genesis] = dag.diff[Genesis]] /\ adaptiveTree' = Zero
    /\ outlierCache' = [None EXCEPT ![Genesis] = {}] /\ outlierTimers' = {}
    /\ timerChain' = FirstTimers /\ timerBase' = 0 /\ accLca' = << >> /\ bestTimer' = FirstBest
    /\ timerHeight' = Zero /\ timerDiff' = Zero /\ lastTimer' = None /\ forceConfirm' = None
    /\ mainChain' = <<Genesis>> /\ mainMeta' = FirstMeta /\ lastMain' = Zero
    /\ epochNumber' = FirstEpochs /\ terminals' = {}
    /\ stable' = db'.stable
    /\ stableFuture' = IF db'.stable = Genesis THEN {Genesis} ELSE {}
    /\ recovering' = RecoverFrom(db'.terminals) \ {Genesis}
    /\ owed' = activated \ (terminals \ db'.terminals)
    /\ UNCHANGED <<dag, asserted, steady>>

Next ==
    \/ \E b \in Blocks : OnNewBlock(b)
    \/ \E b \in queue : Preactivate(b) \/ PassOutOfEra(b)
    \/ \E d \in delayed : Drain(d)
    \/ Crash

Spec == Init /\ [][Next]_vars
=============================================================================
