# Verification of the Mazze node

TLA+ models of parts of the Mazze node, the TLC configurations that check them on
small instances, and TLAPS proofs about them. A component has a module; a module
`MC<Component>` gives it small constants; a module `<Component>Proofs` holds theorems
about it. `PROJECT.json` lists the runs, the lines of code behind every definition, the
hazards the properties are aimed at, and the mutants: for each property a plausible bug
that makes TLC report it.

    tlc -config MCSyncGraph.cfg MCSyncGraph      # one run
    tlapm TxPoolProofs.tla                       # one module of proofs

## 1. The system

The node is a Rust workspace; paths below are relative to `src/crates/`, and `core`
stands for `mazzecore/core/src`.

| Part | Where | State | Operations | With whom |
|---|---|---|---|---|
| Synchronization graph | `core/sync/synchronization_graph.rs` | arena of blocks with a status, not-ready frontier, old-era queue, blocks to fill | insert header, insert body, two propagations, invalidate, expire, clear, complete filling | request manager, phases, consensus worker, data manager |
| Consensus worker | same file, `new` | channel, counted map, unprocessed count | receive, pop, process | graph, consensus, phases |
| Synchronization phases | `core/sync/synchronization_phases.rs` | current phase, catch-up lock | next, start | graph, consensus, handlers |
| Request manager | `core/sync/request_manager/` | keys in flight, waiting requests, one container per peer, timers | request, match, time out, resend, connect, disconnect | message handlers, timers, network |
| Protocol handler | `core/sync/synchronization_protocol_handler.rs`, `core/sync/message/` | received-block queue, future blocks | message handlers, timers | all of the above |
| Future block container | protocol handler, lines 259-365 | two maps and a size | insert, get_before | header handler, timer |
| Snapshot synchronization | `core/sync/state/` | candidates, manifest, chunks | request, receive, time out, restore | phases, storage |
| Transaction pool | `core/transaction_pool/` | nonce pools, hash index, readiness cache, garbage collector, packing pool | insert, evict, notify, drop, pack | RPC, sync, executor, block generator |
| Packing pool | `mazzecore/packing-pool/` | batches and the weights cached for sampling | insert, replace, split off, sample | transaction pool |
| Consensus graph | `core/consensus/` | DAG, main chain, timer chain, weight trees, epochs, checkpoints | on_new_block, best_info, move checkpoint, recover | executor, data manager, pools, block generator |
| Consensus executor | `core/consensus/consensus_inner/consensus_executor/` | task queue, executed epochs, availability boundary | enqueue, execute ahead, wait, rebuild | consensus, storage, transaction pool, block generator |
| State object | `mazzecore/executor/src/state/` | cache of accounts, layers of checkpoints | read, write, checkpoint, discard, revert, commit | virtual machine, state database, prefetcher |
| State prefetcher | `core/state_prefetcher.rs`, `mazze_utils/src/cancellable_task_channel.rs` | queue of tasks, waits, workers | add, wait, cancel, dispatch | execution and RPC threads, state object |
| Block data manager | `core/block_data_manager/` | caches over a key-value store | insert, remove, invalidate, gc | everything |
| State storage | `dbs/storage/` | snapshots, delta tries | commit, snapshot, maintain | executor, snapshot sync |
| Network | `network/` | sessions, node table, send queues | connect, read, write, disconnect | protocol handlers |
| Request throttling | `util/throttling/` | tokens, last update, throttled period | throttle, acquire | network, RPC |
| Mining | `blockgen/`, `stratum/`, `bins/mazze-miner` | current problem, workers | new problem, solution | consensus, pools, graph |
| Light protocol | `core/light_protocol/` | sync managers, witnesses | query, verify | network, consensus |

What makes them hard: handlers run on several worker threads and release locks between
their steps; answers are late, wrong, doubled or never come; peers leave and come back;
blocks arrive in any order and turn out invalid after others were built on them; a phase
is read and then changes; several structures are views of one another and are kept in
step by hand; increments replace recomputation, and caches outlive what they were computed
from; the node stops between two writes; counters are unsigned.

What correctness means here: views of one pool agree; nothing asked for is forgotten or
asked for twice; consensus gets each block once and after its past; nothing is built on an
invalid block; catching up ends; every node judges a block by its past alone, whatever else
it has seen and in which order; an epoch is executed on the state of its parent, and what a
restart finds is enough to go on; a reverted call leaves no trace; no thread waits for
ever; limits hold and unsigned counters do not wrap.

## 2. The modules

**TokenBucket** (`util/throttling/src/token_bucket.rs`). `tokens`, `last_update` and the
throttled period for both kinds of token; time is in ticks, several to the second, because
refresh counts whole seconds. `throttle` reads the clock and `try_acquire_cost` reads it
again: `Acquire` takes both readings.

**PackingBatch, PackingPool** (`mazzecore/packing-pool`). A batch is the set of its
transactions; the operators follow each branch of `PackingBatch::insert` and
`split_off_*`. PackingPool adds the gas total as the code computes it on each path (added to,
taken from the running sum of `check_acceptable_batch`, or recomputed), and the cached sort key and weight of each node. `AppendRun`, a
closed form of the loops that fill a batch, is checked against the loop itself
(`LoopGivesLongestRun`). The treap and random sampling are not modelled.

**TxPool** (`core/transaction_pool/transaction_pool_inner.rs` and `nonce_pool/`,
`garbage_collector.rs`). Five views of the same transactions: nonce pools, hash index with
its counters, readiness cache, garbage collector nodes, packing batches. Every operation
holds the pool's write lock; an insertion is several steps, one for each turn of the
eviction loop of `collect_garbage`, and nothing else can start in between (`job`). It uses
PackingBatch. Account states come with the operations, as any nonce and balance.

**RequestManager** (`core/sync/request_manager/`, the response handlers, parts of the
protocol handler). Each worker thread has in `todo` the rest of the handler it runs; a
step runs one critical section, so every interleaving of critical sections is a behaviour.
Requests are types and sets of hashes. Peers connect, exchange a status, leave and come
back between any two steps; answers may be complete, partial, wrong or of a mismatching
type, and a compact answer may bring full blocks nobody asked for or that it also has in
compact form. `waiting` is a set of entries whose number tells equal ones apart, as the heap keeps
both; where the code walks through a hash map, the model takes any order (`Orders`).
`asked`, `lost` and `extra` are history variables. Epoch requests are the header requests
with other keys. A batch is not cut into messages of at most 50 blocks or 100 headers, which
exceeds the sets of hashes of the runs.

**FutureBlocks** (protocol handler, lines 259-365 and 1520-1566). Two handlers check the
clock and the graph before they insert; the timer takes what is due.

**SyncGraph** (`synchronization_graph.rs`, `synchronization_phases.rs`, parts of the
protocol handler). `status`, `ready`, `frontier`, `oldEra` and `toFill` are the inner
graph, `channel`, `waits`, `working` and `unprocessed` the worker. Links between blocks are
derived from the headers: a node is linked to each parent and referee in the arena. One
insertion is one action, because it holds the inner lock throughout: verification, both
propagations, removal of what becomes invalid, the sends to the worker, and the clearing
of old-era blocks. The breadth-first propagations are written as what they compute, the
largest set that can be raised. `TimerRead` and `TimerHeader` are two steps because
`check_future_blocks` reads the phase before it takes the lock. `scenario` fixes which
blocks are bad, late, mined or pushed. Limits: one era whose genesis does not move and is
also the stable genesis; the worker takes any block that waits for nothing (the code takes
the one with the highest epoch number); reuse of arena slots is not modelled.

**BlockDag, ConsensusView, ConsensusGraph** (`core/consensus/consensus_inner/mod.rs`,
`consensus_new_block_handler.rs`, `outlier_cache.rs`). BlockDag computes once, from the
headers, what never changes: paths, pasts, epoch sets and their order. ConsensusView has the
state and what is computed to judge a block; ConsensusGraph is the handler. `OnNewBlock` takes
a block whose past has been delivered: it is inserted into the era, inserted as a stub next to
what is left of earlier eras, or ignored. `Preactivate` judges a block of the era when everything it depends on is active (outlier, timer chain of
its view, force confirmed block, correct parent, difficulty, adaptive flag), and activates
it at once or delays it; `Drain` activates a delayed block whose time has come. An
activation is one step with everything it does: both weight trees, timer heights and
timer chain, accumulative lcas, main chain with epoch numbers and past weights,
terminals, stable block, the writes to the database, and the move of the era genesis:
`ShouldFormCheckpointAt` looks for a main block that the stable block's view force confirms and
that has no timer block in its outlier, `MakeCheckpointAt` takes the past of that block out of
the arena, turns what does not descend from it into out-of-era blocks (`PassOutOfEra` and the
second case of `Drain` only count these down), and cuts the trees, both chains, the lca list and
the caches. The incremental computations
(path and caterpillar updates, cached outliers, subtraction of a barrier from the trees,
continuation of the lca list over a fork) are modelled as such, because the properties
compare them with their definitions. `torn` holds the databases a stop between two writes
leaves; `Crash` goes back to one of them and `recovering` is what `recover_graph_from_db`
then inserts again. The work queue of `on_new_block` is a set: which ready block it takes
first is left open. Whether the stable block's state is blamed (`dag.blamed`), which holds the
move back, is an input. A node stops only before its genesis has moved. Not modelled are the
paths for an outlier barrier of `OUTLIER_BARRIER_CAP` (100) blocks or more
(`consensus_new_block_handler.rs:1008`), which compute the same weights without the trees. Two
lines are harmless only because of what the run shows: `check_correct_parent` would index the
arena with NULL above an era genesis that is partially invalid or pending (line 529; there is none,
`ActivationExact`), and `update_timer_chain` fills a gap in the lca list with arena index 0
(`mod.rs:3267`; the runs have no gap). BlockDag drops a referee when it is in the past of
another along the headers, where the code asks for an lca and gets NULL out of the era.

**Mining** (`best_terminals`, `update_best_info`, `choose_correct_parent`,
`check_mining_adaptive_block`, `blockgen`). `UpdateBestInfo` publishes tip and bounded
terminals after a block; `TakeJob` is the generator's copy of them; `Assemble` is the header
it builds from the copy against the graph of any later state. The generator takes the graph's
lock twice on the way (`blockgen/src/lib.rs:220` and `226`); `Assemble` reads one state for both.

**ConsensusProps** states what a block is worth, which block is force confirmed, which
chain is the main one and what makes a block valid from the headers and a set of blocks
alone, after the documentation of `ConsensusGraphInner`, and compares.

**EpochExecution** (`consensus_executor/mod.rs`, the tail of `activate_block`,
`construct_main_state`, `state_availability_boundary.rs`). Threads: the worker, which under
the graph's lock moves the main chain, rewrites the boundary, enqueues epochs and waits for
the results rewards depend on; the execution thread, which polls its channel, tries the lock
to run ahead, and else blocks; the block generator; the thread that rebuilds the state after
a restart. A state is absent, torn, whole, or built on a torn one. What storage keeps of the
last states after a crash is an assumption (`Damaged`): from some write on, all of the last
`Deferred` ones may be missing or torn, none before, which is what the code counts on when it
computes the "last 5 epochs" again. The commit of a state, its commitment in the database and the
one in memory are one step, and `Damaged` then loses commitment and state independently. The
recovery of a snapshot and the height from which the configuration forces recomputation are left
out of `ForceComputeIndex`: they only lower the index it starts from.

**StateStack, StateObject** (`mazzecore/executor/src/state/`). StateStack is the promise: a
map from addresses to accounts and a stack of full copies. StateObject is the cache with
dirty bits, created and removed contracts whose storage hides or clears that of the database,
and layers that hold an old version only of what was changed since. The abstract stack is
computed by looking through the layers (`Version`). A contract is created together with its code,
which the code sets afterwards (`init_code`); owners and collateral of storage entries, built-in
addresses with storage in the database and the genesis accounts, which are always written, are
left out.

**Prefetcher** (`state_prefetcher.rs`, `cancellable_task_channel.rs`) composes with
StateObject: threads hand over tasks, wait and cancel; the controller and its workers load
accounts into the cache of the execution thread's State. The critical sections of channel,
task info, worker and cache are steps of their own; a worker reads and resets its cancel mark in
one of them. A database error, which ends a worker's part early, is left out: the part that
remains would be loaded by the execution.

## 3. The runs

| Run | Instance | Shows |
|---|---|---|
| `token_bucket` | 2 ticks a second, up to tick 10, clock skew up to 1 tick | the rate bound; waits are positive; waiting as told is enough |
| `packing_pool` | a sender with nonces 0-4 at two prices and several gas limits, another with one transaction; limits 4 gas and 3 transactions | batches well formed and within limits, cached weights current, no transaction lost, the loop equals its closed form |
| `tx_pool` | 2 senders, capacity 3, 2 balances, 3 account nonces | the five views agree; the eviction loop never gets stuck (deadlock is checked) |
| `requests` | 2 threads, 1 peer that comes back once or sends one block too many, 2 hashes, 2 requests for blocks or compact blocks, outside catching up | the keys in flight are exactly those asked for, each block the graph lacks and no answer brought unasked has one holder; queued requests are served and every request in flight is timed |
| `request_live` | 2 peers that do not come back, 1 hash, 2 header requests | while a peer is known, a header asked for is received or given up |
| `future_blocks` | 3 headers, 2 due together, capacity 2, 2 handlers | the container keeps its bound; what is due is inserted |
| `sync_graph` | 3 blocks over genesis and an old block, 16 scenarios, with pushed and late blocks | the graph stays closed, its frontier exact, consensus gets each block after its past, and every valid block |
| `consensus` | every graph of 3 blocks, chosen ones of 6 to 14, in every order of arrival; a miner or a restart in some; eras of 1 epoch in ten of them | trees, caches, timer chain, main chain and epochs equal their definitions; blocks are judged by their past; nothing is forgotten; restarts lose nothing; mined blocks are valid |
| `execution` | chains and forks of 5 to 7 blocks, deferred by 2, rewards after 1; up to 2 crashes, a generator | no unwrap fails; available states are executed ones of the main chain; no torn state is built on; nobody waits for ever |
| `state` | 1 address with balance, slot and code, 2 frames, 6 operations; 1 to 3 threads, 1 or 2 workers, up to 2 epochs each | the State is a map with a stack of copies; prefetching is over when the execution begins; no wait is lost |
| `consensus_fork`, `request_starved` | as above | the code and its comments disagree: see section 6 |

Why the bounds are enough for the cases that matter: the pool's capacity is below the
number of transactions, so evictions, self-evictions and refusals happen; a peer's limit
is one request, so requests queue behind it; the received-block queue holds one average
block, so it overfills; the container has room for two headers of three; the block DAG of
`sync_graph` has a parent chain and a referee whose parent is in an old era, and each block is
invalid in each way in some scenario. Retries grow up to a delay bound of one unit, after which
a request is cancelled. The networks of `consensus` were chosen from random ones so that each
branch of the handler is taken: blocks under a wrong parent, with a wrong difficulty or flag,
heavy ones, changes of timer chain and main chain at several depths, outliers above and below
the cache limit, more terminals than the bound, a move of the stable block, a stop in
each write; and, with eras of one epoch, several moves of the genesis, blocks that come late for an
era that is gone, delayed ones that have left the era when they are due, candidates passed over
for a timer block in their outlier, a blamed stable block. In `execution` the chain is longer than what is deferred and rewarded together, so
that the worker has to wait. `MaxUnprocessed`, `MaxAsks`, `MaxSurprises`, `MaxTime`, `MaxNonce`
and the operations left to the executor (`ops`) only bound the exploration.

These limits of the passing runs matter, because properties fail beyond them (section 6).
Two scenarios of `sync_graph` push a block to a node that catches up, or have a header come
due then; NothingLeftBehind, FrontierExact, WorkerInOrder and Delivered are not
claimed in those (`Undisturbed`). `requests` asks for blocks and compact blocks only, and
`OneHolderPerKey` is about blocks the graph lacks and that no answer brought beside what it had
to (`extra`): an answer may bring more than was asked for and release keys that other requests
hold. Reconnections and such blocks share the bound `MaxSurprises`, so a behaviour of `requests` has
one or the other; the theorems about the other properties have no bound. `PeerRequestsServed` leaves out the container of a peer
that is in its handshake, which may be left over from its last session. The peers
of `request_live` do not come back after leaving. `InflightExact` and `RequestsSettle` make an
exception for keys in `lost`, whose request the code has discarded without asking again.
`MainChainExact`, the part of `EpochsExact` about stored sets, and `MinedValid` are stated for as
long as the force confirmed block has only moved to descendants (`steady`): after another move
the one comparison `activate_block` makes does not revisit the forks above it. `MinedValid`
leaves out blocks whose terminals were cut while others waited for activation, and a tip or
force confirmed block that has left the era. `TimerChainExact` and `JudgedByPast` assume `steady`
once the genesis has moved: `update_timer_chain` says that it relies on "the assumption that the
force confirmation point will always move along parental edges" (`mod.rs:3315`), and a view that
forks at the new genesis counts timer heights from 0 otherwise. `Recovered` bounds the terminals
from both sides instead of fixing them, because `make_checkpoint_at` drops out-of-era terminals
and does not make the blocks only they refer to terminals again. In `state` no
other thread works on the epoch that is executed.

Deadlock is not checked where a run ends because its bounded requests, headers, blocks or
operations are used up.

### Fairness

- `request_live`: worker threads go on with a handler they began; the request timer fires;
  time passes, so a request in flight expires or a waiting one is due at some check; a
  peer is not throttled for ever. The first is thread scheduling, the second
  `register_timer` with `CHECK_REQUEST_TIMER`, the third the clock.
- `future_blocks`: the timer fires and time passes.
- `sync_graph`: the worker thread and the phase timer run; a header the graph would accept
  again and again is delivered again and again, and a body asked for again and again
  arrives. The request manager asks again when a request fails, which is what
  `request_live` checks. That phases end assumes peers that agree on what the node has.
  Nothing is assumed of expiry, cancellation or activation: they may happen at any time or never.
- `execution` and `state`: weak fairness of each thread, that is, one that is not blocked runs;
  and in `state` the frames of an execution end. Blocks and crashes are under no fairness.

## 4. What is proved

The theorems hold for every value of the constants that satisfies the assumptions stated
in the modules.

**TokenBucketProofs.** `BucketInv` (types, rate bound, positive waits) is inductive as it
stands. The argument is arithmetic: whole seconds credited move `last_update` by exactly
those seconds (`RefreshBound`), and a shortage needs at least one more second while refresh
leaves less than one (`WaitPositive`). `BucketRetry` adds to it what the history variable
`refused` remembers: nobody takes tokens in a throttled period, and by its end, give or take
the time between the two clock reads of a call (`MaxSkew`), the recharge has brought what was
missing of every kind (`RechargeCovers`).

**TxPoolProofs.** `TxPoolInv` joins the types, the agreement of index and pools, the
counters, the garbage collector counts and the containment of the packing batches with
what holds of the node an insertion has skipped: while the eviction loop runs, its sender
has no node in the collector, is in the readiness cache, and has as many executed
transactions as the skipped node counts. That part makes it inductive: `GcDone` puts the
node back after evictions that may have touched other senders, and only this says that
its count is still right. There is one lemma per action; cardinalities change by one element at a time (`UnpackedAdd`, `SpaceCountRemove`, ...).
Consequences: the index theorem, the counters theorem, the assertion in `collect_garbage`
cannot fail, no space exceeds its capacity, packing is within the pool.

**FutureBlocksProofs.** `FutureInv` (types, agreement of the maps, size bounds contents) is
inductive; the eviction theorem is an action property that follows from it.

**StateObjectProofs.** `StateRefines`: StateObject implements StateStack, for any addresses,
bounds and depth; `CacheCoversTheorem`: the branch of `revert_to_checkpoint` marked
`unreachable!` is. The inductive invariant `StateInv` says that a clean entry, in the cache or
in a layer, repeats the database; that an account without code, or created in this State, has
no storage below unless it is cleared; that what has an entry in a layer is in the cache; and
that an account recorded as unchanged has no entry in an earlier layer. The last two let a
revert remove an entry from the cache. The core is `RecordKeepsVersions`: when an account
changes, writing its old entry to the top layer, unless one is there, keeps every version the
layers stand for. Discarding merges two layers without changing what lies below; reverting
makes the version of the top layer the current one. The theorem assumes that prefetching comes
before the execution (`Untouched` in `Prefetch`); the next module discharges that, for
an executor that has its epoch to itself.

**PrefetcherProofs.** `PrefetchInv` says where a task can be: queued at most once, then the
current one until its owner, which has joined it, cancels it; every signal has its task in the
queue; a worker has parts of the current task only. It
gives `OnePendingTheorem` for any threads and workers, and `JoinedTheorem` for every thread whose
epoch is its own. That condition, `OwnKey`, is the case the code is written for; the
configuration MCPrefetchSame shows that without it the property fails (section 6). With
it, `ExecutorInv` adds that nothing was executed while the prefetcher had the State, so every
insertion of a worker is a `Prefetch` of StateObject: `PrefetchedRefines` and `PrefetchedCovers`
carry the results of StateObjectProofs over to the composition.

**EpochStepProofs, EpochExecutionProofs.** `ExecInv` is the invariant of the four threads, for
any tree of blocks, any number of crashes and headers, and any deferral of at least two epochs
(with one, the optimistic height would lie beyond the main chain; the code has five).
`UnwrapsTheorem`, `AvailableTheorem` and `IntactTheorem` follow from it. TLC finds `ExecInv` to
hold on the instance of `execution` too (add it to the INVARIANTS of MCEpochExecution.cfg). Its parts:

- A commitment in memory comes with those of all epochs below it (`MemInv`), so that one epoch
  stands for a whole beginning of the chain (`ClosedChain`, `BelowIn`).
- A task waits in the channel only behind what it needs (`QueueInv`): the parent of an epoch to
  execute, and the epoch a question is about, is in memory or executed further ahead.
  `Covered`, what will be executed once the channel is empty, only grows, except at a crash
  (`AppendTask`, `TakeTask`, `ExecutorMoves`).
- The worker's next epoch follows a covered one, and what its reward depends on is in memory or
  among the results still waited for (`WorkerInv`). After `Finish` the epochs that are deep
  enough are covered, which is why `state_at` may start above the fork (`ActivateStep`), and why
  the generator's questions have an answer (`GeneratorInv`).
- A thread has one question out, about the head of its list (`AskInv`): an answer is
  never taken for that of another question.
- For `Intact`: the writes a crash may undo are, along any chain, in the order of the epochs
  (`StorageInv`), and storage has nothing of the epochs `Deferred` or more above one whose
  state is missing, torn or may still be lost (`FarInv`). So more than `Deferred` states in a
  row vouch for the lowest one, and with it for all below (`Trusted`); this is the argument behind
  `get_force_compute_index`. `RecoverInv` follows the loop of `construct_main_state` up to the
  point where every loaded commitment has its state again.

EpochStepProofs has the lemmas on the operators and one lemma per step of a thread;
EpochExecutionProofs has crash and recovery, the initial state and the theorems.
That a crash undoes at most the last `Deferred` writes (`Damaged`) is an assumption of the model
and so of `IntactTheorem`.

**RequestProofs.** `RequestInv` is the invariant of the request manager, for any threads, peers,
hashes, types of request and limits. `InflightExactHolds` and
`PeerRequestsServedHolds` follow from it. TLC finds it to hold on the instance of `requests` too,
and on one with two peers and header requests. Its parts:

- A key in flight is held by a waiting request, the container of a known peer, a task of the
  queue of received blocks or a call some handler still has to make (`Held`), unless its request was discarded
  (`lost`). Whoever takes a key out of one of these puts it in another in the same critical
  section, or keeps the call that will (`CarrierInv`); a key asked for is in flight or about to be asked
  for (`AskedInv`).
- What a handler still has to do is a list of calls, and some come in pairs: the requests a batch
  was made of are sent by the call after it, a peer that left is removed by the call after that
  (`Paired` in `TodoInv`). Without this, the keys of a batch would have no holder between the two.
- A container has each id at most once and keeps its limit (`FlightInv`). If requests are queued, the limit is reached or a call is to
  come that serves the peer (`ServedInv`); every request sent has its timer in the heap or in the
  hands of the thread that took it out (`TimedInv`).

There is one lemma per call. Calls that let go of keys share `Release`, those that put requests back
share `AgainAll`, and answers share `Answer`. `RequestAssumption` asks that the sets are finite and the bounds
are numbers, nothing about their size: the limit of a container may be zero.
`OneHolderPerKey` is not proved: uniqueness ranges over places in lists of calls that shift with every step,
and the exceptions for what answers bring unasked would have to be followed through them.

Only model-checked: `OneHolderPerKey`; everything about SyncGraph, PackingPool, ConsensusGraph
and Mining; all liveness, `DeferredExecuted` among it, which is beyond the prover;
`GcSizeExact`, `BatchWellFormed` and `LoopGivesLongestRun`, which are about sums and recursion
over data. The modules of the consensus graph use RECURSIVE operators, which the prover does
not handle.

## 5. Not modelled

The reasons are with the components in `PROJECT.json`. In the modelled parts these are left out:

- what follows a move of the era genesis outside the consensus graph (snapshots, state
  synchronization, deletion of old blocks), and a restart in a later era;
- the layer above TransactionPoolInner: the account cache, propagation and recycling lists;
- transaction relay, snapshot requests and the light protocol;
- sockets, sessions, discovery and the node table;
- rewards, fees, blame vectors, the virtual machine, tries, cryptography, RPC.

The virtual machine, the tries and cryptography compute on byte strings and 256-bit words;
instances TLC can enumerate would say little about them.

## 6. Where code and comments disagree

Two disagreements have a run in `PROJECT.json`:

- `consensus_fork`: when a view's timer chain forks from the graph's, `compute_timer_chain_tuple`
  continues the list of accumulative lcas with an off-by-one in the first window, and a block gets a
  force confirmed block below the one its past determines
  (`core/consensus/consensus_inner/mod.rs:3141`). Two nodes that have seen different timer
  chains can thus judge the same block differently.
- `request_starved`: a batched block request whose peer has just gone keeps its network
  slots; they count against the limit that holds the request itself back.

Others have a configuration of their own, in which TLC finds the property violated:

    tlc -config MCTxPoolGc.cfg MCTxPool             # GcCoversPool
    tlc -config MCTxPoolBatch.cfg MCTxPool          # BatchPaidFor
    tlc -config MCPackingPrice.cfg MCPackingPool    # MinPriceFollows
    tlc -config MCSyncBusy.cfg MCSyncGraph          # BusyMeansWork
    tlc -config MCConsensusCut.cfg MCConsensus      # MinedOnTip
    tlc -config MCConsensusLate.cfg MCConsensus     # ActivationExact
    tlc -config MCConsensusSkip.cfg MCConsensus     # EpochsExact
    tlc -config MCEpochOptimistic.cfg MCEpochExecution   # BehindOptimistic
    tlc -config MCPrefetchSame.cfg MCPrefetcher     # PrefetchJoined

- GcCoversPool: `collect_garbage` returns early without putting back the node of
  the new transaction's sender, which the garbage collector can then no longer choose.
- BatchPaidFor: `make_packing_batch` tests the last affordable nonce after it has
  inserted, so a batch may hold a transaction the balance does not pay for.
- MinPriceFollows: `make_apply_outcome` never refreshes `min_gas_price` of a node, so the
  search that is to "guarantee the searched result can be packed" (`packing-pool/src/pool.rs`)
  goes by the price of an earlier batch.
- BusyMeansWork: a block sent to the worker twice is dropped without being counted down, so
  consensus looks busy for ever and `CatchUpCheckpointPhase::start` never returns.
- MinedOnTip: `best_terminals` does not let a block become a terminal again whose successors
  include one that waits for activation; the referees that are left need no longer hold the
  tip as the heaviest chain of their past, although the comment at
  `consensus_inner/mod.rs:3642` says so.
- ActivationExact: `insert_out_era_block` (`consensus_inner/mod.rs:1572`) counts the inactive
  referees of a block but not its parent, and enters the block as a child of the parent all the
  same. When the parent is an out-of-era block that is delayed as partially invalid, its
  activation counts the child down once too often and
  `assert!(inner.arena[*succ].data.inactive_dependency_cnt > 0)`
  (`consensus_new_block_handler.rs:1071`) fails.
- EpochsExact: a timer block outside the subtree of the stable block can move the force confirmed
  block and with it the main chain. `activate_block` then returns before it stores epoch sets
  (`consensus_new_block_handler.rs:1334`), and later calls start at the length the chain had
  before them, which is to ensure that "no epochs will be skipped" (line 1377): the epochs in
  between stay without a set. The network has `timer_chain_beta` 1; larger values make such a change of
  the force confirmed block unlikely.
- BehindOptimistic: with `DEFERRED_STATE_EPOCH_COUNT` of 3 or more the thread that runs ahead
  stops although the parent's state is executed, for a main chain that has grown meanwhile;
  the comment (`consensus_executor/mod.rs:338`) knows only the other case. It costs speed, not
  correctness: the epoch's own task comes.
- PrefetchJoined: the key of a prefetch task is its epoch. When another thread traces the epoch
  that is being executed, its handle cancels the task of the execution, whose wait then ends
  before the workers have let go of the State; `epoch_execution.rs:109` says the handle "is used
  to join all threads before the exit of this function".

`LastMainExact` and `DelayRespected` (ConsensusProps) also fail: `last_main_in_past` is not
recomputed for blocks outside the part of the graph a reorganisation visits, where its
documentation (`mod.rs:162`) makes no such exception; and a block whose start timer was computed
from its own past view may be activated earlier than the timer distance the documentation
gives (`mod.rs:297`), since the view can lag behind the graph.

Some were seen in the code or with other constants:

- `activate_block` moves the stable block in the same call as a reorganisation and waits
  (`consensus_new_block_handler.rs:1424`) for the state of an epoch that it enqueues only below.
- `global_stat` (issued tokens, collateral) is not part of a checkpoint although internal contracts
  change it in frames that may be reverted (`state_object/collateral.rs:213`,
  `internal_contract/impls/admin.rs:53`); `checkpoints.rs:54` promises "any old value".
- `storage_at` and `storage_entry_at` "will return incorrect value" when a contract is removed and
  balance is then transferred to it, say their comments (`overlay_account/storage.rs:146` and `155`).
  The comments are stale: the removed account keeps `pending_db_clear` through the transfer, so
  `fresh_storage` holds and the slot reads 0, as it should. StateObject has this sequence
  (`RemoveContract`, then `AddBalance`), and `Refines` compares its slots with those of StateStack.
- `set_current_task` removes from the list it walks over by index; only the mutex that a waiting
  thread keeps (`OnePending`) saves it from running past the end.
- The `Drop` of ExecutionStatePrefetcher never runs, for its own thread holds a reference.
- `AsyncTaskQueue::dispatch` drops a task that does not fit after its request was matched,
  `GetBlockTxnResponse` returns early when signatures cannot be recovered, and `add_peer`
  overwrites the container of a peer that comes back early: the keys stay in flight. This is
  what fills `lost`.
- `request_live` with `MaxSurprises = 1`: when `remove_peer` of the old session runs after
  `add_peer` of the new one, the peer is known but has no container; a request for which
  it is chosen fails to be sent and waits again, for ever if it is the only peer.
- `requests` with `MaxSurprises = 2`: a peer that comes back twice may be in its handshake while
  the container and the state of an earlier session are still there, and nothing is about to send
  what is queued in it until the new status arrives.
- An answer that has a block or header nobody asked that peer for releases its key, although
  another request holds it (`headers_received`, `blocks_received`): the item may be asked for twice,
  although `inflight_keys` is there "to avoid send duplicated requests"
  (`request_manager/mod.rs:122`). `GetCompactBlocksResponse` does so with every full block of the
  answer: they become the requested set of the task without a comparison with the request
  (`get_compact_blocks_response.rs:152-158` and `170-179`), also when the answer has the block in
  compact form too and its transactions are being asked for. `OneHolderPerKey` fails without its
  exception for `extra`.
- `GetBlocksWithPublicResponse` tries a downcast that resends the request it is
  answering (`AskTypes = {"public"}`, `CatchUp = TRUE`: `OneHolderPerKey` fails).
- `FutureBlockContainer::get_before` does not decrease `size`, so after as many deliveries
  as the capacity each insertion evicts a header from a container with room.
- SyncGraph with `late = {b}` while catching up: the phase the timer read is stale when the
  header is inserted (`WorkerInOrder` fails), and a header that comes with a body in the
  header phase may miss the frontier (`FrontierExact`).
- SyncGraph with `pushed = {a}` in the normal phase: a cancelled request removes a block
  that arrived meanwhile and is on its way to consensus.
- `try_clear_old_era_blocks` pops blocks consensus has not activated yet and leaves them in
  the set only. In CatchUpCheckpoint the locked graph skips every header, although
  `insert_header_to_consensus` is documented as moving the target checkpoint then.
- `check_not_ready_frontier` ignores the invalid set it collects.
