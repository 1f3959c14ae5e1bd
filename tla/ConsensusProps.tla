--------------------------- MODULE ConsensusProps ---------------------------
(***************************************************************************)
(* What the consensus graph promises, stated from the headers and the set   *)
(* of active blocks, without the incremental structures the handler keeps:  *)
(* the definitions of the documentation of ConsensusGraphInner.             *)
(***************************************************************************)
EXTENDS Mining

Idle == queue = {} /\ Due = {}

\* The era genesis has not moved, or what led to the move has stayed confirmed.
Settled == genesis = Genesis \/ steady

\* The past of a block with the predecessors P.
View(P) == P \cup UNION {dag.past[x] : x \in P}

\* What a block of the graph S weighs, in the era or not.
WeightIn(b, S) ==
    IF b \notin S THEN 0
    ELSE IF b \notin dag.adaptive THEN dag.diff[b]
    ELSE IF b \in dag.heavy THEN HeavyRatio * dag.diff[b] ELSE 0

\* SubTW(S, x) of the documentation: the weight of the blocks of S under x.
SubTW(S, x) ==
    MapThenSumSet(LAMBDA b : WeightIn(b, S), {b \in S : x \in dag.chain[b]})

\* The value the documentation gives adaptive_weight_tree, in the graph S.
AdaptiveValue(S, x) ==
    2 * SubTW(S, x) - SubTW(S, dag.parent[x]) + WeightIn(dag.parent[x], S)

\* The heaviest chain of the graph S from u on.
RECURSIVE GhostFrom(_, _)
GhostFrom(u, S) ==
    LET kids == {c \in S : dag.parent[c] = u}
        W    == [c \in kids |-> SubTW(S, c)]
    IN  IF kids = {} THEN <<u>> ELSE <<u>> \o GhostFrom(Heaviest(kids, W), S)

\* The longest timer chain in the past of every block and its difficulty; a
\* tie goes to the larger hash among the blocks through which the chains are seen.
LongestOf(P, info) ==
    LET own(x)  == IF IsTimer(x) THEN dag.diff[x] ELSE 0
        diff(x) == info[x].diff + own(x)
        longest == CHOOSE x \in P : \A y \in P \ {x} : IsHeavier(diff(x), x, diff(y), y)
    IN  [diff  |-> diff(longest),
         chain |-> info[longest].chain \o IF IsTimer(longest) THEN <<longest>> ELSE << >>]

LongestTimer ==
    LET info[b \in Blocks] ==
            IF b = Genesis THEN [diff |-> 0, chain |-> << >>] ELSE LongestOf(HeaderPreds(b), info)
    IN  info

\* The force confirmed block of a timer chain: the deepest block with Beta
\* consecutive timer chain blocks in its subtree and Beta more after those.
Confirmed(chain) ==
    LET windows == {{chain[i] : i \in (k - Beta + 1)..k} : k \in Beta..(Len(chain) - Beta)}
        over    == {Genesis} \cup {x \in Blocks : \E w \in windows :
                                        \A y \in w : x \in dag.chain[y]}
    IN  CHOOSE x \in over : \A y \in over : dag.height[y] <= dag.height[x]

\* A block as the arena has it: the era genesis stands for what has left.
InArena(x) == IF x \in inserted THEN x ELSE genesis

\* The number of blocks of a timer chain in the past of b.
TimersInPast(b, chain) == Cardinality({i \in 1..Len(chain) : chain[i] \in dag.past[b]})

\* The validity of a block that has the parent p and the referees refs, from
\* its past alone.
ValidInView(p, refs, adaptive, diff) ==
    LET S  == View({p} \cup refs)
        tc == LongestOf({p} \cup refs, LongestTimer).chain
        f  == Confirmed(tc)
    IN  /\ p = Last(GhostFrom(f, S))
        /\ diff = dag.target[p]
        /\ adaptive = \E a \in dag.chain[p] \ dag.chain[f] :
                          /\ Len(tc) - TimersInPast(a, tc) >= Beta
                          /\ AdaptiveValue(S, a) < AdaptiveBeta * diff

ValidHeader(b) == ValidInView(b.parent, b.refs, b.adaptive, b.diff)

-----------------------------------------------------------------------------
\* The two link-cut trees hold the subtree weights and the adaptive values of
\* the active blocks of the era, whatever the order in which blocks arrived and
\* were activated, and however often the era genesis has moved.
TreesExact ==
    \A x \in activated \cap Era :
        /\ weight[x] = SubTW(activated, x)
        /\ x # genesis => adaptiveTree[x] = AdaptiveValue(activated, x)

OutlierRef(b) ==
    {x \in Preactivated \cap Era : /\ x # b /\ x \notin dag.past[b]
                                   /\ b \notin dag.past[x]}

\* What is cached agrees with its definition now: the outliers that OutlierCache
\* extends with every block, the brute force that skips old epochs, and the
\* height at which best_terminals says a block leaves the main chain.
CachesExact ==
    /\ \A b \in Preactivated \cap Era :
        /\ outlierCache[b] # NULL => outlierCache[b] = OutlierRef(b)
        /\ b # genesis => OutlierBruteforce(b) = OutlierRef(b)
    /\ Idle => \A x \in Era :
                LcaHeight(x, Last(mainChain)) = dag.height[Lca(x, Last(mainChain))]

\* The longest timer chain of the active blocks, from the genesis the node started
\* from: those that have left the arena as well.
WholeTimerChain ==
    LET tips == {b \in activated \cap Era : IsTimer(b)}
        d(b) == LongestTimer[b].diff + dag.diff[b]
        tip  == CHOOSE b \in tips : \A y \in tips \ {b} : IsHeavier(d(b), b, d(y), y)
    IN  IF tips = {} THEN << >> ELSE Append(LongestTimer[tip].chain, tip)

\* The timer chain is the part of the longest one that is outside the past of the
\* era genesis, every block of the era counts the blocks of the whole chain in its
\* past, and the accumulative lca list ends in the block the documentation calls
\* force confirmed.
TimersAs(whole) ==
    /\ timerChain = SubSeq(whole, timerBase + 1, Len(whole))
    /\ \A b \in activated \cap Era : timerHeight[b] = TimersInPast(b, whole)
    /\ LastLca = Confirmed(whole)
TimerChainExact == Settled => TimersAs(WholeTimerChain)

\* As long as the force confirmed block has only moved to descendants, the
\* main chain is the path to it continued by the heaviest chain of the active
\* blocks: the comparison at one fork that activate_block makes is enough.
MainChainExact ==
    Idle /\ steady =>
        LET path == [i \in 1..(dag.height[LastLca] - GenesisHeight) |->
                        AncestorAt(LastLca, GenesisHeight + i - 1)]
        IN  mainChain = path \o GhostFrom(LastLca, activated)

\* Every block has the number of the epoch of the main chain it is in, the past
\* weights of the chain add up, and the epoch sets in the database are those of
\* the main chain as far as they are SetDelay deep: no reorganisation, and no
\* restart between two writes, leaves a number or a set of a chain that is gone.
EpochsExact ==
    /\ \A x \in inserted :
        LET e == {i \in 1..Len(mainChain) :
                    x \in dag.blockset[mainChain[i]] \cup {mainChain[i]}}
        IN  epochNumber[x] = IF e = {} THEN NULLU64 ELSE GenesisHeight + Max(e) - 1
    /\ \A i \in 1..Len(mainChain) :
        mainMeta[i].weight = MapThenSumSet(LAMBDA b : BlockWeight(b, activated),
                                dag.past[mainChain[i]] \cup {mainChain[i]})
    /\ Idle /\ recovering = {} /\ steady /\ stable \in Range(mainChain) =>
        \A h \in (GenesisHeight + 1)..(MainHeight - 1 - SetDelay) :
            /\ db.sets[h] # NULL
            /\ db.sets[h].executed = dag.epoch[MainAt(h)].executed
            /\ db.sets[h].skipped = dag.epoch[MainAt(h)].skipped \ (delivered \ inserted)

\* A block is judged by its past alone, whatever else the graph holds.
JudgedByPast ==
    Settled => \A b \in (Preactivated \cap Era) \ ({genesis} \cup pending) :
        /\ crashes = 0 => forceConfirm[b] = InArena(Confirmed(LongestTimer[b].chain))
        /\ (b \notin invalid) = ValidInView(dag.parent[b], dag.referee[b],
                                            b \in dag.adaptive, dag.diff[b])

\* A block waits for exactly the blocks it depends on that are not active, a
\* delayed one for its timer, and none that could be active is forgotten; the
\* assertions the handler makes on the way hold.  The era genesis is neither
\* partially invalid nor pending: check_correct_parent, whose walk over the
\* ancestors looks at a block before it asks for NULL, ends there.
ActivationExact ==
    /\ asserted
    /\ genesis \notin invalid \cup pending
    /\ \A b \in inserted :
        /\ cnt[b] # NULL =>
            cnt[b] = Cardinality((IF b \in stubs THEN RefsOf(b) ELSE Preds(b)) \ activated)
        /\ cnt[b] = NULL => b \in invalid /\ \E d \in delayed : d[2] = b
        /\ Idle /\ b \notin activated => cnt[b] # 0

\* The tips of the active graph, out of which a graph S takes its successors.
TipsWithin(S) ==
    {b \in (activated \cap Era) \ {genesis} : Successors(b) \cap activated \cap S = {}}

\* The terminals are the tips of the active graph (a tip that only out-of-era blocks
\* refer to may be among them), and the stored ones lead back to all of it: after a
\* restart every block that was active is inserted again, and is active again
\* unless a partially invalid block in its past has to wait for its timer once more.
Recovered ==
    /\ TipsWithin(inserted) \subseteq terminals
    /\ terminals \subseteq TipsWithin(Era)
    /\ recovering # {} => \E b \in recovering : HeaderPreds(b) \subseteq delivered
    /\ recovering = {} => owed \subseteq delivered
    /\ Idle /\ recovering = {} =>
        \A b \in owed \cap inserted : (dag.past[b] \cup {b}) \cap invalid = {} => b \in activated

\* A block the generator assembles is valid in its own past, however many blocks
\* the graph has taken in since best_info was copied, as long as the view of the
\* block force confirms what the graph did then, no terminals were cut while
\* blocks waited for activation, and that block and the tip are still in the era.
MinedValid ==
    Idle /\ steady /\ job # NULL /\ {job.parent, job.force} \subseteq Era =>
        LET tc == LongestOf({job.parent} \cup (job.refs \cap inserted), LongestTimer).chain
        IN  Confirmed(tc) = job.force /\ ~job.cut => ValidHeader(Assemble(job))

-----------------------------------------------------------------------------
(* What the documentation says and the code does not do                     *)

\* The referees best_terminals leaves "still hold best_index as their parent",
\* whether or not blocks wait for activation when the terminals are cut.
MinedOnTip ==
    Idle /\ steady /\ job # NULL /\ {job.parent, job.force} \subseteq Era =>
        LET tc == LongestOf({job.parent} \cup (job.refs \cap inserted), LongestTimer).chain
        IN  Confirmed(tc) = job.force => ValidHeader(Assemble(job))

\* "It denotes the height of the last main chain in the past set of this block."
LastMainExact ==
    \A x \in activated :
        lastMain[x] = Max({dag.height[m] : m \in Range(mainChain) \cap (dag.past[x] \cup {x})})

\* Nodes ignore a partially invalid block b until TimerDis(b, new_block) has
\* reached Beta: it is activated no earlier.
DelayRespected ==
    [][\A x \in (activated' \ activated) \cap invalid :
          Len(WholeTimerChain) - TimersInPast(x, WholeTimerChain) >= Beta]_vars
=============================================================================
