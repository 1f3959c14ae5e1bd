----------------------------- MODULE SyncGraph -----------------------------
(***************************************************************************)
(* The synchronization graph: the DAG of block headers and bodies received *)
(* so far, the status each block has in it, and the consensus worker the   *)
(* ready blocks are sent to, under the phases of catching up.              *)
(*                                                                         *)
(* crates/mazzecore/core/src/sync/synchronization_graph.rs                 *)
(* crates/mazzecore/core/src/sync/synchronization_phases.rs                *)
(*                                                                         *)
(* A block is its hash.  The header's parent, its referees and whether     *)
(* each verification accepts it are functions of the block.  The links     *)
(* between arena nodes (parent, children, referees, referrers and the two  *)
(* by-hash tables of nodes whose parent or referee has not arrived) are    *)
(* not state of their own: a node is linked to each parent and referee     *)
(* that is in the arena, whichever of the two came first.                  *)
(*                                                                         *)
(* The model starts after CatchUpRecoverBlockHeaderFromDB, with one era    *)
(* genesis that does not move; OldBlocks are the blocks the database has   *)
(* ordered before it.                                                      *)
(***************************************************************************)
EXTENDS Integers, Sequences, FiniteSets, SequencesExt

CONSTANTS
    Blocks,         \* the blocks that may be met
    Genesis,        \* the genesis of the current era
    OldBlocks,      \* blocks the database has ordered before the genesis
    Parent,         \* the parent of a block; itself for Genesis and OldBlocks
    Referees,       \* the set of blocks a header refers to
    Scenarios,      \* what the node may meet: see the variable scenario
    MaxUnprocessed, \* bound on consensus_unprocessed_count
    None            \* the consensus worker is between two blocks

ASSUME SyncConstants ==
    /\ IsFiniteSet(Blocks)
    /\ Genesis \in Blocks /\ OldBlocks \subseteq Blocks \ {Genesis}
    /\ Parent \in [Blocks -> Blocks] /\ Referees \in [Blocks -> SUBSET Blocks]
    /\ \A b \in OldBlocks \cup {Genesis} : Parent[b] = b /\ Referees[b] = {}
    /\ LET Some == SUBSET (Blocks \ (OldBlocks \cup {Genesis}))
       IN  Scenarios \subseteq
               [start : {"headers", "normal"}, late : Some, mined : Some, pushed : Some,
                badParams : Some, badLink : Some, badBody : Some, badGas : Some]
    /\ MaxUnprocessed \in Nat
    /\ None \notin Blocks

VARIABLES
    scenario,    \* which blocks are late, mined, pushed or bad; never changes
    phase,       \* SynchronizationPhaseManagerInner.current_phase
    starting,    \* update_sync_phase is inside CatchUpCheckpointPhase::start
    timer,       \* what the future-block timer read of the phase, or "idle"
    status,      \* graph_status of the node, ABSENT if not in the arena
    ready,       \* nodes with block_ready
    frontier,    \* not_ready_blocks_frontier
    oldEra,      \* old_era_blocks_frontier
    oldEraSet,   \* old_era_blocks_frontier_set
    toFill,      \* block_to_fill_set
    locked,      \* locked_for_catchup
    headers,     \* block headers the data manager has
    bodies,      \* block bodies the data manager has
    invalid,     \* blocks recorded as invalid
    info,        \* blocks with the local block info consensus writes
    asked,       \* blocks with an outstanding body request
    channel,     \* new_block_hashes, not yet received by the worker
    waits,       \* the worker's reverse_map and counter_map
    working,     \* the block in on_new_block
    unprocessed, \* consensus_unprocessed_count
    consensus    \* blocks consensus has been given

control == <<phase, starting, timer, locked>>
graph == <<status, ready, frontier, oldEra, oldEraSet, toFill>>
store == <<headers, bodies, invalid, info>>
worker == <<channel, waits, working, unprocessed, consensus>>
vars == <<scenario, control, graph, store, asked, worker>>

Phases == {"headers", "checkpoint", "fill", "blocks", "normal"}

ABSENT == -1
INVALID == 0
HEADER_ONLY == 1
HEADER_GRAPH_READY == 2
GRAPH_READY == 3

New == Blocks \ (OldBlocks \cup {Genesis})

BadParams == scenario.badParams  \* fails verify_header_params
BadLink == scenario.badLink      \* fails verify_header_graph_ready_block
BadBody == scenario.badBody      \* fails verify_sync_graph_block_basic
BadGas == scenario.badGas        \* fails verify_graph_ready_block
Mined == scenario.mined          \* this node mines
Pushed == scenario.pushed        \* a peer pushes with NewBlock
Late == scenario.late            \* the header waits in future_blocks first

Deps(b) == ({Parent[b]} \cup Referees[b]) \ {b}

-----------------------------------------------------------------------------
(* The graph as a value: the operators below take the statuses explicitly,  *)
(* because an insertion changes them several times under one lock.          *)

Arena(st) == {b \in Blocks : st[b] # ABSENT}
Children(st, S) == {c \in Arena(st) \ {Genesis} : Parent[c] \in S \ {c}}

\* A future that follows children and forgets referrers.
FutureOfChildren(st, S) ==
    {b \in Arena(st) :
        \A T \in SUBSET Arena(st) :
            (/\ S \subseteq T
             /\ \A x \in Arena(st) : Parent[x] \in T => x \in T) => b \in T}

\* The nodes of S and everything linked after them.
Future(st, S) ==
    {b \in Arena(st) :
        \A T \in SUBSET Arena(st) :
            (/\ S \subseteq T
             /\ \A x \in Arena(st) : Deps(x) \cap T # {} => x \in T) => b \in T}

\* A parent or referee that is in the arena must have the status; one that is
\* not must have been processed by consensus.
DepReady(st, level, d) ==
    IF st[d] # ABSENT THEN st[d] >= level ELSE d \in info

\* A propagation that follows children and forgets referrers.
RaisedChildren(st, level, start, good) ==
    UNION {S \in SUBSET {b \in good : st[b] \in HEADER_ONLY .. level - 1} :
              \A b \in S : /\ b \in start \/ Parent[b] \in S
                           /\ \A d \in Deps(b) \ S : DepReady(st, level, d)}

\* The nodes below the level that the breadth-first propagation from start
\* raises to it: start itself or successors of raised nodes, all of whose
\* parents and referees have the level.
Raised(st, level, start, good) ==
    UNION {S \in SUBSET {b \in good : st[b] \in HEADER_ONLY .. level - 1} :
              \A b \in S : /\ b \in start \/ Deps(b) \cap S # {}
                           /\ \A d \in Deps(b) \ S : DepReady(st, level, d)}

\* The nodes the propagation reaches, finds connected and fails to verify.
Rejected(st, level, start, raised, bad) ==
    {b \in bad : /\ st[b] \in HEADER_ONLY .. level - 1
                 /\ b \in start \/ Deps(b) \cap raised # {}
                 /\ \A d \in Deps(b) \ raised : DepReady(st, level, d)}

\* What a propagation does: raised nodes, and nodes that become INVALID.
Propagate(st, level, start, good, bad) ==
    LET up == Raised(st, level, start, good)
        no == Rejected(st, level, start, up, bad)
    IN  [up |-> up,
         invalid |-> Future(st, no \cup {b \in start : st[b] = INVALID}),
         status |-> [b \in Blocks |-> IF b \in up THEN level ELSE st[b]]]

HeaderPropagate(st, start) ==
    Propagate(st, HEADER_GRAPH_READY, start, Blocks \ BadLink, BadLink)

BlockPropagate(st, start, rdy) ==
    Propagate(st, GRAPH_READY, start, rdy \ BadGas, rdy \cap BadGas)

\* The orders in which a propagation may visit the nodes it raises.
Topological(S) ==
    {s \in SetToSeqs(S) :
        \A i, j \in DOMAIN s : s[i] \in Deps(s[j]) => i < j}

\* Blocks in the subtree of the era genesis.
InEra ==
    {b \in Blocks :
        \A T \in SUBSET Blocks :
            (/\ Genesis \in T
             /\ \A x \in Blocks : Parent[x] \in T => x \in T) => b \in T}

\* get_blocks_needing_bodies.
NeedingBodies(cons, bods) == (cons \cap InEra) \ (bods \cup {Genesis})

-----------------------------------------------------------------------------
(* try_clear_old_era_blocks: the end of every insertion of a header.        *)

MaxCleared == 2

ClearStep(g) ==
    IF g.queue = <<>> \/ g.cleared = MaxCleared THEN g
    ELSE LET x == Head(g.queue)
             rest == Tail(g.queue)
             kids == Children(g.status, {x})
         IN  IF x = Genesis
             THEN [g EXCEPT !.queue = rest, !.genesis = TRUE]
             ELSE IF x \notin g.set \/ x \notin info
             THEN [g EXCEPT !.queue = rest]
             ELSE [g EXCEPT !.status[x] = ABSENT,
                            !.queue = rest \o SetToSeq(kids),
                            !.set = (@ \ {x}) \cup kids,
                            !.cleared = @ + 1]

TryClear(st, queue, set) ==
    LET pops == Len(queue) + Cardinality(Blocks)
        loop[n \in 0 .. pops] ==
            IF n = 0
            THEN [status |-> st, queue |-> queue, set |-> set, cleared |-> 0,
                  genesis |-> FALSE]
            ELSE ClearStep(loop[n - 1])
        end == loop[pops]
    IN  [end EXCEPT !.queue = IF end.genesis THEN <<Genesis>> \o @ ELSE @]

-----------------------------------------------------------------------------
(* insert_block_header.                                                     *)

Send(order) ==
    /\ channel' = channel \o order
    /\ unprocessed' = unprocessed + Len(order)
    /\ UNCHANGED <<waits, working, consensus>>

\* The data manager forgets a dropped block unless consensus has seen it.
Forget(S) ==
    /\ headers' = headers \ (S \ info)
    /\ bodies' = bodies \ (S \ info)

Acceptable(b) ==
    /\ ~locked
    /\ b \notin invalid
    /\ b \notin info
    /\ status[b] = ABSENT

\* Only the header itself is looked at.
HeaderFailsAlone(b) == b \in BadParams

HeaderFails(b) == b \in BadParams \/ Deps(b) \cap invalid # {}

\* Children that waited for the block stay in the frontier.
FrontierWithChildren(st, b, toConsensus) ==
    IF \/ st[Parent[b]] \in {ABSENT, GRAPH_READY}
       \/ st[b] = INVALID
       \/ toConsensus /\ st[Parent[b]] = HEADER_GRAPH_READY
    THEN frontier \cup {b}
    ELSE frontier

\* The frontier once the node is in the arena, before any propagation.
FrontierWith(st, b, toConsensus) ==
    (IF \/ st[Parent[b]] \in {ABSENT, GRAPH_READY}
        \/ st[b] = INVALID
        \/ toConsensus /\ st[Parent[b]] = HEADER_GRAPH_READY
     THEN frontier \cup {b}
     ELSE frontier) \ Children(st, {b})

InsertHeader(b, toConsensus) ==
    /\ Acceptable(b)
    /\ LET st == [status EXCEPT ![b] = IF HeaderFails(b) THEN INVALID
                                                         ELSE HEADER_ONLY]
           p == HeaderPropagate(st, {b})
           left == [x \in Blocks |-> IF x \in p.invalid THEN ABSENT ELSE p.status[x]]
           fr == FrontierWith(st, b, toConsensus)
       IN  /\ toConsensus => unprocessed + Cardinality(p.up) <= MaxUnprocessed
           /\ frontier' = (IF toConsensus
                           THEN (fr \cup Children(st, p.up)) \ p.up
                           ELSE fr) \ p.invalid
           /\ invalid' = invalid \cup p.invalid
           /\ toFill' = toFill \ p.invalid
           /\ headers' = (headers \cup ({b} \ p.invalid)) \ (p.invalid \ info)
           /\ bodies' = bodies \ (p.invalid \ info)
           /\ \E order \in Topological(p.up) :
                LET reclaimed == SelectSeq(order, LAMBDA x : st[Parent[x]] = ABSENT)
                    set == (oldEraSet \cup ToSet(reclaimed)) \ p.invalid
                    queue == oldEra \o reclaimed
                    end == IF b \in p.invalid
                           THEN [status |-> left, queue |-> queue, set |-> set]
                           ELSE TryClear(left, queue, set)
                IN  /\ status' = end.status
                    /\ oldEra' = end.queue
                    /\ oldEraSet' = end.set
                    /\ ready' = ready \cap Arena(end.status)
                    /\ Send(IF toConsensus THEN order ELSE <<>>)
    /\ UNCHANGED info

-----------------------------------------------------------------------------
(* insert_block.                                                            *)

InsertBody(b) ==
    /\ status[b] # ABSENT
    /\ b \notin ready
    /\ LET st == [status EXCEPT ![b] = IF b \in BadBody THEN INVALID ELSE @]
           rdy == ready \cup {b}
           p == IF locked /\ st[b] # INVALID
                THEN [up |-> {}, invalid |-> {}, status |-> st]
                ELSE BlockPropagate(st, {b}, rdy)
           got == IF st[b] = INVALID THEN {} ELSE {b}
       IN  /\ unprocessed + Cardinality(p.up) <= MaxUnprocessed
           /\ status' = [x \in Blocks |-> IF x \in p.invalid THEN ABSENT
                                                             ELSE p.status[x]]
           /\ ready' = rdy \ p.invalid
           /\ frontier' = ((frontier \cup Children(st, p.up)) \ p.up) \ p.invalid
           /\ oldEraSet' = oldEraSet \ p.invalid
           /\ toFill' = (IF locked THEN toFill \ {b} ELSE toFill) \ p.invalid
           /\ invalid' = invalid \cup p.invalid
           /\ headers' = headers \ (p.invalid \ info)
           /\ bodies' = (bodies \cup got) \ (p.invalid \ info)
           /\ \E order \in Topological(p.up) : Send(order)
    /\ UNCHANGED <<info, oldEra>>

\* remove_blocks.
RemoveBlocks(S) ==
    /\ status' = [x \in Blocks |-> IF x \in S THEN ABSENT ELSE status[x]]
    /\ ready' = ready \ S
    /\ frontier' = frontier \ S
    /\ oldEraSet' = oldEraSet \ S
    /\ toFill' = toFill \ S
    /\ Forget(S)
    /\ UNCHANGED <<oldEra, invalid, info>>

-----------------------------------------------------------------------------
(* The callers.  phase_manager_lock is held over a header response and over *)
(* a whole update_sync_phase, so starting excludes the first.               *)

InRecoverPhase == phase = "fill"
HeaderToConsensus == phase \in {"headers", "checkpoint"}
NeedRequestingBlocks == phase \in {"blocks", "normal"}

HeaderResponse(b) ==
    /\ ~starting /\ ~InRecoverPhase
    /\ InsertHeader(b, HeaderToConsensus)
    /\ asked' = IF NeedRequestingBlocks /\ status'[b] # ABSENT
                THEN asked \cup {b} ELSE asked
    /\ UNCHANGED control

\* In CatchUpSyncBlock whole epochs are requested, before their headers.
RequestBlock(b) ==
    /\ phase = "blocks"
    /\ b \notin ready \cup info \cup invalid \cup asked
    /\ asked' = asked \cup {b}
    /\ UNCHANGED <<control, graph, store, worker>>

\* on_blocks_inner, for a block whose header is not in the graph ...
BlockHeader(b) ==
    /\ b \in asked
    /\ InsertHeader(b, FALSE)
    /\ asked' = IF status'[b] = ABSENT THEN asked \ {b} ELSE asked
    /\ UNCHANGED control

\* ... and once it is; a body that does not match the root changes nothing.
BlockBody(b) ==
    /\ b \in asked \/ (phase = "fill" /\ b \in toFill)
    /\ InsertBody(b)
    /\ asked' = asked \ {b}
    /\ UNCHANGED control

\* NewBlock and mined blocks come with header and body, inserted one after
\* the other.
NewBlock(b) ==
    /\ \/ b \in Pushed /\ ~InRecoverPhase
       \/ b \in Mined /\ phase = "normal" /\ Deps(b) \subseteq consensus
    /\ InsertHeader(b, FALSE) \/ InsertBody(b)
    /\ UNCHANGED <<control, asked>>

\* The future-block timer reads the phase, without phase_manager_lock, ...
TimerRead ==
    /\ timer = "idle"
    /\ timer' = IF HeaderToConsensus THEN "header" ELSE "block"
    /\ UNCHANGED <<phase, starting, locked, graph, store, asked, worker>>

\* ... then inserts a header that is due: check_future_blocks ...
TimerHeader(b) ==
    /\ timer # "idle"
    /\ InsertHeader(b, timer = "header")
    /\ asked' = IF status'[b] # ABSENT THEN asked \cup {b} ELSE asked
    /\ timer' = "idle"
    /\ UNCHANGED <<phase, starting, locked>>

\* ... or looks at the frontier: check_not_ready_frontier, which leaves the
\* blocks it finds invalid in the arena.
TimerFrontier ==
    /\ timer # "idle" /\ timer' = "idle"
    /\ ~locked
    /\ LET toConsensus == timer = "header"
           able(st, level, b) == /\ st[b] \in INVALID .. level - 1
                                 /\ \A d \in Deps(b) : DepReady(st, level, d)
           mark(p) == [x \in Blocks |-> IF x \in p.invalid THEN INVALID
                                                           ELSE p.status[x]]
           p == HeaderPropagate(status,
                    {b \in frontier : able(status, HEADER_GRAPH_READY, b)})
           st == mark(p)
           q == BlockPropagate(st,
                    {b \in frontier \cap ready : able(st, GRAPH_READY, b)}, ready)
           sent == IF toConsensus THEN p.up ELSE q.up
       IN  /\ unprocessed + Cardinality(sent) <= MaxUnprocessed
           /\ status' = IF toConsensus THEN st ELSE mark(q)
           /\ frontier' = (frontier \cup Children(status, sent)) \ sent
           /\ \E order \in Topological(p.up) :
                LET reclaimed == SelectSeq(order, LAMBDA x : status[Parent[x]] = ABSENT)
                IN  /\ oldEra' = oldEra \o reclaimed
                    /\ oldEraSet' = oldEraSet \cup ToSet(reclaimed)
           /\ \E order \in Topological(sent) : Send(order)
    /\ UNCHANGED <<phase, starting, locked, ready, toFill, store, asked>>

TimerSkip ==
    /\ timer # "idle" /\ timer' = "idle"
    /\ locked
    /\ UNCHANGED <<phase, starting, locked, graph, store, asked, worker>>

\* remove_expire_blocks: a block that has not been updated for long, and its
\* future.
Expire(b) ==
    /\ ~InRecoverPhase
    /\ b \in Future(status, frontier)
    /\ RemoveBlocks(Future(status, {b}))
    /\ UNCHANGED <<control, asked, worker>>

\* A cancelled request leaves its blocks in the graph.
CancelOnly(b) ==
    /\ phase = "normal"
    /\ b \in asked
    /\ asked' = asked \ {b}
    /\ UNCHANGED <<control, graph, store, worker>>

\* handle_cancelled_requests: the request manager gives a request up, which it
\* does only out of catch-up.
Cancel(b) ==
    /\ phase = "normal"
    /\ b \in asked
    /\ asked' = asked \ {b}
    /\ RemoveBlocks(Future(status, {b} \cap Arena(status)))
    /\ UNCHANGED <<control, worker>>

-----------------------------------------------------------------------------
(* update_sync_phase.                                                       *)

EnterCheckpoint ==
    /\ phase = "headers"
    /\ phase' = "checkpoint" /\ starting' = TRUE
    /\ UNCHANGED <<timer, locked, graph, store, asked, worker>>

LockForCatchUp ==
    /\ starting /\ ~locked
    /\ locked' = TRUE
    /\ UNCHANGED <<phase, starting, timer, graph, store, asked, worker>>

\* The phase starts only when is_consensus_worker_busy is false.
CheckpointStarted ==
    /\ starting /\ locked
    /\ unprocessed = 0
    /\ starting' = FALSE
    /\ UNCHANGED <<phase, timer, locked, graph, store, asked, worker>>

EnterFillBlockBody ==
    /\ phase = "checkpoint" /\ ~starting
    /\ phase' = "fill"
    /\ toFill' = NeedingBodies(consensus, bodies)
    /\ UNCHANGED <<starting, timer, locked, status, ready, frontier, oldEra,
                   oldEraSet, store, asked, worker>>

\* complete_filling_block_bodies.
CompleteFilling ==
    /\ phase = "fill" /\ toFill = {}
    /\ LET drop == {b \in Arena(status) : status[b] < HEADER_GRAPH_READY}
           keep == Arena(status) \ drop
           cons == IF NeedingBodies(consensus, bodies) = {} THEN consensus ELSE keep
           more == NeedingBodies(cons, bodies')
       IN  /\ status' = [b \in Blocks |-> IF b \in keep THEN GRAPH_READY ELSE ABSENT]
           /\ ready' = keep
           /\ frontier' = frontier \ drop
           /\ oldEraSet' = oldEraSet \ drop
           /\ Forget(drop)
           /\ consensus' = cons
           /\ toFill' = more
           /\ locked' = (more # {})
           /\ phase' = IF more = {} THEN "blocks" ELSE "fill"
    /\ UNCHANGED <<starting, timer, oldEra, invalid, info, asked, channel, waits,
                   working, unprocessed>>

EnterNormal ==
    /\ phase = "blocks"
    /\ phase' = "normal"
    /\ UNCHANGED <<starting, timer, locked, graph, store, asked, worker>>

-----------------------------------------------------------------------------
(* The consensus worker thread.                                             *)

\* Only the parent is waited for.
WorkerReceiveParent ==
    /\ working = None
    /\ channel # <<>>
    /\ channel' = Tail(channel)
    /\ LET h == Head(channel)
       IN  waits' = IF h \in DOMAIN waits THEN waits
                    ELSE [x \in DOMAIN waits \cup {h} |->
                            IF x = h THEN {Parent[h]} \cap DOMAIN waits ELSE waits[x]]
    /\ UNCHANGED <<control, graph, store, asked, working, unprocessed, consensus>>

\* A hash already held is dropped, without touching the count.
WorkerReceive ==
    /\ working = None
    /\ channel # <<>>
    /\ channel' = Tail(channel)
    /\ LET h == Head(channel)
       IN  waits' = IF h \in DOMAIN waits THEN waits
                    ELSE [x \in DOMAIN waits \cup {h} |->
                            IF x = h THEN Deps(h) \cap DOMAIN waits ELSE waits[x]]
    /\ UNCHANGED <<control, graph, store, asked, working, unprocessed, consensus>>

\* Which of the blocks that wait for nothing goes first depends on epoch
\* numbers, left out here.
WorkerPop(h) ==
    /\ working = None
    /\ channel = <<>>
    /\ h \in DOMAIN waits /\ waits[h] = {}
    /\ working' = h
    /\ waits' = [x \in DOMAIN waits \ {h} |-> waits[x] \ {h}]
    /\ UNCHANGED <<control, graph, store, asked, channel, unprocessed, consensus>>

WorkerDone ==
    /\ working # None
    /\ consensus' = consensus \cup {working}
    /\ unprocessed' = unprocessed - 1
    /\ working' = None
    /\ UNCHANGED <<control, graph, store, asked, channel, waits>>

\* Consensus writes the local block info when it activates the block.
Activate(b) ==
    /\ b \in consensus \ (info \cup invalid)
    /\ info' = info \cup {b}
    /\ UNCHANGED <<control, graph, headers, bodies, invalid, asked, worker>>

-----------------------------------------------------------------------------
Init ==
    /\ scenario \in Scenarios
    /\ phase = scenario.start /\ starting = FALSE /\ timer = "idle" /\ locked = FALSE
    /\ status = [b \in Blocks |-> IF b = Genesis THEN GRAPH_READY ELSE ABSENT]
    /\ ready = {Genesis}
    /\ frontier = {} /\ oldEra = <<>> /\ oldEraSet = {} /\ toFill = {}
    /\ headers = OldBlocks \cup {Genesis}
    /\ bodies = OldBlocks \cup {Genesis}
    /\ invalid = {}
    /\ info = OldBlocks \cup {Genesis}
    /\ asked = {}
    /\ channel = <<>> /\ waits = <<>> /\ working = None /\ unprocessed = 0
    /\ consensus = {Genesis}

Network ==
    \/ \E b \in New \ Mined : \/ HeaderResponse(b)
                              \/ RequestBlock(b)
    \/ \E b \in New : BlockHeader(b) \/ BlockBody(b)
    \/ \E b \in New : NewBlock(b)
    \/ \E b \in New : Cancel(b)

Timers ==
    \/ TimerRead
    \/ \E b \in Late : TimerHeader(b)
    \/ TimerFrontier
    \/ TimerSkip
    \/ \E b \in New : Expire(b)

PhaseStep ==
    \/ EnterCheckpoint
    \/ LockForCatchUp
    \/ CheckpointStarted
    \/ EnterFillBlockBody
    \/ CompleteFilling
    \/ EnterNormal

Worker ==
    \/ WorkerReceive
    \/ \E h \in New : WorkerPop(h)
    \/ WorkerDone
    \/ \E b \in New : Activate(b)

Next == (Network \/ Timers \/ PhaseStep \/ Worker) /\ UNCHANGED scenario

Spec == Init /\ [][Next]_vars

\* The worker and the phase timer keep running, and the network delivers every
\* header, and every body asked for, that it is given the chance to deliver
\* again and again: the request manager asks again when a request fails.
Fairness ==
    /\ WF_worker(WorkerReceive)
    /\ WF_worker(\E h \in New : WorkerPop(h))
    /\ WF_worker(WorkerDone)
    /\ WF_<<control, graph>>(PhaseStep)
    /\ \A b \in New :
        /\ []<>(b \notin Mined /\ ~starting /\ ~InRecoverPhase /\ Acceptable(b)) =>
               []<><<HeaderResponse(b)>>_status
        /\ []<>(b \in asked \cup toFill /\ status[b] # ABSENT /\ b \notin ready) =>
               []<><<BlockBody(b)>>_ready

FairSpec == Spec /\ Fairness

-----------------------------------------------------------------------------
(* Properties.                                                              *)

\* No header comes due while the node catches up, and no peer pushes a whole
\* block: the handlers may then act for a phase that has not come or has passed,
\* and the cancellation of a request may remove a block that came another way.
Undisturbed == Pushed = {} /\ (scenario.start = "headers" => scenario.late = {})

\* A block is never ahead of its past: every parent and referee of a node has
\* at least the node's status, or has left the arena after consensus took it.
\* (new_to_be_graph_ready and every removal)
ReadyClosed ==
    \A b \in New : status[b] >= HEADER_GRAPH_READY =>
        \A d \in Deps(b) : DepReady(status, status[b], d)

\* No block is left behind in an undisturbed scenario: one that could be raised now
\* has been raised, so whatever order headers and bodies came in,
\* the propagations reached it; and out of the catch-up a ready block has been
\* given to consensus.
\* (propagate_header_graph_status, propagate_graph_status, set_graph_ready)
NothingLeftBehind ==
    Undisturbed => \A b \in New : status[b] # ABSENT =>
        /\ (\A d \in Deps(b) : DepReady(status, HEADER_GRAPH_READY, d)) =>
               status[b] >= HEADER_GRAPH_READY
        /\ (/\ ~locked /\ b \in ready
            /\ \A d \in Deps(b) : DepReady(status, GRAPH_READY, d)) =>
               status[b] = GRAPH_READY
        /\ (~locked /\ phase \in {"blocks", "normal"} /\ status[b] = GRAPH_READY) =>
               b \in consensus \cup DOMAIN waits \cup ToSet(channel) \cup {working}

\* The status the current phase counts as ready.
Level == IF phase \in {"headers", "checkpoint", "fill"} THEN HEADER_GRAPH_READY
                                                        ELSE GRAPH_READY

\* The frontier is the set of the roots of the parental forest that the
\* blocks that are not ready form, as remove_expire_blocks describes it; a
\* block outside it would never expire.
FrontierExact ==
    Undisturbed =>
      frontier = {b \in New : /\ status[b] \in INVALID .. Level - 1
                              /\ \/ status[Parent[b]] = ABSENT
                                 \/ status[Parent[b]] >= Level}

\* An invalid block leaves the arena with everything after it, and nothing
\* that depends on it ever comes back.
InvalidGone ==
    \A b \in New : status[b] # ABSENT =>
        status[b] # INVALID /\ b \notin invalid /\ Deps(b) \cap invalid = {}

\* The worker gives a block to consensus only after the block's past, and finds
\* the header of every hash it holds or will receive, as the two expect()s in its
\* loop claim, and in the block phases the body too. In a disturbed scenario
\* a header that is on its way to the worker may be removed.
WorkerInOrder ==
    Undisturbed =>
        LET held == DOMAIN waits \cup ToSet(channel)
        IN  /\ working # None => Deps(working) \subseteq consensus \cup info
            /\ held \subseteq headers
            /\ ~locked /\ phase \in {"blocks", "normal"} => held \subseteq bodies

\* Consensus looks busy only while the worker has something to do: the count is
\* what CatchUpCheckpointPhase::start waits on.
BusyMeansWork ==
    unprocessed # 0 => channel # <<>> \/ DOMAIN waits # {} \/ working # None

\* The valid blocks with a valid past.
GoodBlocks ==
    LET bad == BadParams \cup BadLink \cup BadBody \cup BadGas
    IN  {b \in New \ (bad \cup Mined) : Deps(b) \cap bad = {}
                                       /\ \A x \in Deps(b) : Deps(x) \cap bad = {}}

\* Catching up comes to an end, in particular CatchUpCheckpointPhase::start,
\* which waits for the worker, returns; and whatever expires, is cancelled or is
\* dropped between two phases, a valid block with a valid past that the network
\* has ends in consensus. A block that comes due while the node catches up may be
\* counted twice, and then the wait does not end: see BusyMeansWork.
Delivered ==
    Undisturbed => <>[](phase = "normal" /\ GoodBlocks \subseteq consensus)
=============================================================================
