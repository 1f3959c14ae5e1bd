--------------------------- MODULE EpochExecution ---------------------------
(***************************************************************************)
(* The execution of epochs.  Four threads meet here: the consensus worker,  *)
(* which holds the lock of the graph while activate_block moves the main    *)
(* chain, enqueues the epochs that have become DEFERRED_STATE_EPOCH_COUNT   *)
(* deep and waits for the results their rewards depend on; the execution    *)
(* thread, which takes tasks from a channel and runs ahead of them when it  *)
(* is empty; the block generator, which waits for the state a new block     *)
(* commits to; and the thread that rebuilds the state of the main chain     *)
(* when the node starts.                                                    *)
(*                                                                          *)
(* The blocks are those that can be on the main chain; which chain wins is  *)
(* left open.  All of them are in the first era, whose stable block is the  *)
(* genesis, and the lower bound of the available states is 0.               *)
(***************************************************************************)
EXTENDS Integers, Sequences, FiniteSets, FiniteSetsExt, Functions

CONSTANTS
    Instances,      \* records of parent (the parent of every block; the genesis is 0),
                    \* path (the chain that leads to every block), crashes (of the node)
                    \* and jobs (headers the generator prepares)
    Deferred,       \* DEFERRED_STATE_EPOCH_COUNT
    RewardEpochs    \* REWARD_EPOCH_COUNT

\* With Deferred = 1 the optimistic height would lie beyond the main chain, where
\* get_main_block_arena_index has no block; the code has 5.
ASSUME ExecutionAssumption ==
    /\ \A i \in Instances :
        /\ DOMAIN i.parent \subseteq Nat \ {0}
        /\ \A b \in DOMAIN i.parent : i.parent[b] \in {0} \cup DOMAIN i.parent /\ i.parent[b] < b
        /\ DOMAIN i.path = {0} \cup DOMAIN i.parent
        /\ i.path[0] = <<0>>
        /\ \A b \in DOMAIN i.parent : i.path[b] = Append(i.path[i.parent[b]], b)
        /\ i.crashes \in Nat /\ i.jobs \in Nat
    /\ Deferred \in Nat \ {0, 1} /\ RewardEpochs \in Nat \ {0}

VARIABLES
    parent, path,       \* the parent of every block and the chain that leads to it
    arrived,    \* the blocks of the graph
    mainChain,  \* main_chain, by height from 0
    saved,      \* the main chain and the blocks of the terminals in the database
    mem, disk,  \* the epochs with an execution commitment in memory, in the database
    states,     \* what storage holds of every state: "none", "torn", "ok", "bad"
    recent,     \* the last Deferred epochs whose state was written
    valid,      \* the blocks whose state_valid is computed
    boundary,   \* state_availability_boundary
    tasks,      \* the channel of the execution thread
    executor, worker, generator,
    failed,     \* an unwrap or expect of the code has met no value
    crashes, jobs       \* what is left of either

vars == <<parent, path, arrived, mainChain, saved, mem, disk, states, recent, valid, boundary, tasks,
          executor, worker, generator, failed, crashes, jobs>>

Genesis == 0
Blocks  == {Genesis} \cup DOMAIN parent
NULL    == -1
NoTask  == [kind |-> "none", block |-> NULL, for |-> "none"]

-----------------------------------------------------------------------------
(* The tree                                                                 *)

Height(b) == Len(path[b]) - 1
AncestorAt(b, h) == path[b][h + 1]

Leaves(S) == {b \in S : \A c \in S \ {Genesis} : parent[c] # b}

\* The first height at which two chains differ.
ForkAt(c, d) == Max({n \in 0..Len(c) : n <= Len(d) /\ \A i \in 1..n : c[i] = d[i]})

TipOf(chain) == chain[Len(chain)]

-----------------------------------------------------------------------------
(* Rewards need the validity of older states                                *)

\* get_deferred_state_arena_index.
DeferredOf(b) == IF Height(b) <= Deferred THEN Genesis ELSE AncestorAt(b, Height(b) - Deferred)

\* collect_defer_blocks_missing_execution_commitments: from the deferred state
\* block upwards as far as there is no commitment.
Missing(b) ==
    LET d    == DeferredOf(b)
        last == Max({h \in 0..Height(d) : AncestorAt(d, h) \in mem \cup {Genesis}})
    IN  SubSeq(path[d], last + 2, Height(d) + 1)

\* get_main_reward_index: no epoch is rewarded in the first RewardEpochs ones.
Rewarded(b) == Height(b) > RewardEpochs
RewardBlock(b) == AncestorAt(b, Height(b) - RewardEpochs)
RewardWaits(b) == IF Rewarded(b) THEN Missing(RewardBlock(b)) ELSE << >>

\* compute_state_valid_and_blame_info: the blocks above b that still need it,
\* and whether the commitments it expects are there.
NoStateValid(b) ==
    LET last == Max({i \in 1..Len(path[b]) : path[b][i] \in valid})
    IN  Range(SubSeq(path[b], last + 1, Len(path[b])))
CommitmentsExist(b) == \A x \in NoStateValid(b) : DeferredOf(x) \in mem

\* The rest of get_reward_execution_info, when nothing is waited for any more.
RewardInfo(b) ==
    IF Rewarded(b)
    THEN /\ valid' = valid \cup NoStateValid(RewardBlock(b))
         /\ failed' = (failed \/ ~CommitmentsExist(RewardBlock(b)))
    ELSE UNCHANGED <<valid, failed>>

-----------------------------------------------------------------------------
(* One epoch                                                                *)

LastOf(s) == SubSeq(s, Max({1, Len(s) - Deferred + 1}), Len(s))

\* compute_epoch on the state of the parent: new_state unwraps its commitment.
\* A state written before stays durable when it is computed again.
Compute(b) ==
    /\ states' = [states EXCEPT ![b] = IF states[parent[b]] = "ok" THEN "ok" ELSE "bad"]
    /\ recent' = IF states[b] = "ok" THEN recent ELSE LastOf(Append(recent, b))
    /\ mem' = mem \cup {b}
    /\ disk' = disk \cup {b}

\* Mutant: any block of the right height counts.
AdjustByHeight(b) ==
    IF boundary.upper + 1 < Len(boundary.chain) /\ Height(b) = boundary.upper + 1
    THEN boundary.upper + 1 ELSE boundary.upper

\* adjust_upper_bound.
AdjustUpperBound(b) ==
    IF /\ boundary.upper + 1 < Len(boundary.chain)
       /\ Height(b) = boundary.upper + 1
       /\ b = boundary.chain[boundary.upper + 2]
    THEN boundary.upper + 1 ELSE boundary.upper

-----------------------------------------------------------------------------
(* The consensus worker                                                     *)

Locked == worker.pc # "idle"

\* to_state_pos: the first height that is not deep enough to be executed.
ToStatePos(chain) == IF Len(chain) < Deferred THEN 0 ELSE Len(chain) - Deferred + 1

\* Mutant: only the epochs from the fork on are enqueued.
StateAtFork(fork, old) == Max({fork, 1})

\* state_at: the first height to enqueue after a change at the height fork of a
\* chain that had the length old.
StateAt(fork, old) ==
    LET from == IF fork + Deferred > old
                THEN IF old > Deferred THEN old - Deferred + 1 ELSE 1
                ELSE fork
    IN  Max({from, 1})

\* The update of the boundary after the main chain has become chain.
NewBoundary(chain, fork) ==
    LET to   == ToStatePos(chain)
        opt  == IF to > 0 THEN to ELSE NULL
    IN  CASE chain = mainChain -> boundary
          [] chain # mainChain /\ fork = Len(mainChain) ->
                [boundary EXCEPT !.chain = Append(@, TipOf(chain)), !.opt = opt]
          [] OTHER ->
                [chain |-> SubSeq(boundary.chain, 1, fork) \o SubSeq(chain, fork + 1, Len(chain)),
                 upper |-> Min({boundary.upper, fork - 1}), opt |-> opt]

\* activate_block as far as the boundary: a block of the tree arrives, and the
\* main chain afterwards leads to some leaf.
Activate(b) ==
    /\ ~Locked
    /\ b \notin arrived /\ parent[b] \in arrived
    /\ arrived' = arrived \cup {b}
    /\ \E tip \in Leaves(arrived') :
        LET chain == path[tip]
            fork  == ForkAt(chain, mainChain)
        IN  /\ mainChain' = chain
            /\ boundary' = NewBoundary(chain, fork)
            /\ worker' = [pc |-> "enqueue", next |-> StateAt(fork, Len(mainChain)), from |-> 0,
                          to |-> ToStatePos(chain), todo |-> << >>, asked |-> FALSE]
    /\ UNCHANGED <<parent, path, saved, mem, disk, states, recent, valid, tasks, executor, generator,
                   failed, crashes, jobs>>

\* The loop over the heights to execute: get_reward_execution_info first finds
\* out which results to wait for.
Collect ==
    /\ worker.pc = "enqueue" /\ worker.next < worker.to
    /\ worker' = [worker EXCEPT !.pc = "wait", !.todo = RewardWaits(mainChain[worker.next + 1])]
    /\ UNCHANGED <<parent, path, arrived, mainChain, saved, mem, disk, states, recent, valid, boundary, tasks,
                   executor, generator, failed, crashes, jobs>>

Enqueue ==
    LET b == mainChain[worker.next + 1]
    IN  /\ worker.pc = "wait" /\ worker.todo = << >>
        /\ RewardInfo(b)
        /\ tasks' = Append(tasks, [kind |-> "execute", block |-> b, for |-> "none"])
        /\ worker' = [worker EXCEPT !.pc = "enqueue", !.next = @ + 1]
        /\ UNCHANGED <<parent, path, arrived, mainChain, saved, mem, disk, states, recent, boundary, executor,
                       generator, crashes, jobs>>

\* persist_terminals, and the end of activate_block.
Finish ==
    /\ worker.pc = "enqueue" /\ worker.next >= worker.to
    /\ saved' = [chain |-> mainChain, blocks |-> arrived]
    /\ worker' = [worker EXCEPT !.pc = "idle"]
    /\ UNCHANGED <<parent, path, arrived, mainChain, mem, disk, states, recent, valid, boundary, tasks,
                   executor, generator, failed, crashes, jobs>>

\* wait_for_result of a thread: the commitment is in memory, or the execution
\* thread is asked for it behind everything that is in the channel.
WaitForResult(t, name) ==
    /\ t.todo # << >> /\ ~t.asked
    /\ IF Head(t.todo) \in mem
       THEN UNCHANGED tasks
       ELSE tasks' = Append(tasks, [kind |-> "get", block |-> Head(t.todo), for |-> name])

AfterWait(t) ==
    IF Head(t.todo) \in mem THEN [t EXCEPT !.todo = Tail(@)] ELSE [t EXCEPT !.asked = TRUE]

WorkerWaits ==
    /\ worker.pc = "wait" /\ WaitForResult(worker, "worker")
    /\ worker' = AfterWait(worker)
    /\ UNCHANGED <<parent, path, arrived, mainChain, saved, mem, disk, states, recent, valid, boundary,
                   executor, generator, failed, crashes, jobs>>

-----------------------------------------------------------------------------
(* The block generator: get_blame_and_deferred_state_for_generation         *)

\* A copy of best_info, which was published when the worker was done last.
Prepare ==
    /\ generator.pc = "idle" /\ jobs > 0
    /\ worker.pc # "recover"
    /\ jobs' = jobs - 1
    /\ LET p == TipOf(saved.chain)
       IN  generator' = [pc |-> "state", parent |-> p, asked |-> FALSE,
                         todo |-> <<AncestorAt(p, Max({0, Height(p) - Deferred + 1}))>>]
    /\ UNCHANGED <<parent, path, arrived, mainChain, saved, mem, disk, states, recent, valid, boundary, tasks,
                   executor, worker, failed, crashes>>

GeneratorWaits ==
    /\ generator.pc # "idle" /\ WaitForResult(generator, "generator")
    /\ generator' = AfterWait(generator)
    /\ UNCHANGED <<parent, path, arrived, mainChain, saved, mem, disk, states, recent, valid, boundary,
                   executor, worker, failed, crashes, jobs>>

\* With a read lock: which results the validity of the parent needs.
GeneratorCollects ==
    /\ generator.pc = "state" /\ generator.todo = << >> /\ ~Locked
    /\ generator' = [generator EXCEPT !.pc = "blame", !.todo = Missing(generator.parent)]
    /\ UNCHANGED <<parent, path, arrived, mainChain, saved, mem, disk, states, recent, valid, boundary, tasks,
                   executor, worker, failed, crashes, jobs>>

\* With a write lock: the validity of the parent and the blame of the new block.
GeneratorBlames ==
    /\ generator.pc = "blame" /\ generator.todo = << >> /\ ~Locked
    /\ generator' = [generator EXCEPT !.pc = "idle"]
    /\ valid' = valid \cup NoStateValid(generator.parent)
    /\ failed' = (failed \/ ~CommitmentsExist(generator.parent))
    /\ UNCHANGED <<parent, path, arrived, mainChain, saved, mem, disk, states, recent, boundary, tasks,
                   executor, worker, crashes, jobs>>

-----------------------------------------------------------------------------
(* The execution thread                                                     *)

\* recv or try_recv with a task in the channel.
Take ==
    /\ executor.pc \in {"poll", "recv"} /\ tasks # << >>
    /\ executor' = [pc |-> Head(tasks).kind, task |-> Head(tasks)]
    /\ tasks' = Tail(tasks)
    /\ UNCHANGED <<parent, path, arrived, mainChain, saved, mem, disk, states, recent, valid, boundary,
                   worker, generator, failed, crashes, jobs>>

\* try_recv on an empty channel.
Empty ==
    /\ executor.pc = "poll" /\ tasks = << >>
    /\ executor' = [executor EXCEPT !.pc = "try"]
    /\ UNCHANGED <<parent, path, arrived, mainChain, saved, mem, disk, states, recent, valid, boundary, tasks,
                   worker, generator, failed, crashes, jobs>>

\* Mutant: the thread waits for the lock of the graph.
BlockForLock ==
    /\ executor.pc = "try" /\ ~Locked
    /\ boundary.opt # boundary.upper + 1
    /\ executor' = [executor EXCEPT !.pc = "recv"]
    /\ UNCHANGED <<parent, path, arrived, mainChain, saved, mem, disk, states, recent, valid, boundary, tasks,
                   worker, generator, failed, crashes, jobs>>

\* No task to run ahead with: try_write fails, or get_optimistic_execution_task
\* finds nothing.  Any other thread may hold the lock, so it may always fail.
NoOptimistic ==
    /\ executor.pc = "try"
    /\ executor' = [executor EXCEPT !.pc = "recv"]
    /\ UNCHANGED <<parent, path, arrived, mainChain, saved, mem, disk, states, recent, valid, boundary, tasks,
                   worker, generator, failed, crashes, jobs>>

\* get_optimistic_execution_task.  The thread holds the lock and would wait for
\* itself if a result its reward needs were missing.
Optimistic ==
    /\ executor.pc = "try" /\ ~Locked
    /\ boundary.opt # NULL /\ boundary.opt = boundary.upper + 1
    /\ boundary' = [boundary EXCEPT
            !.opt = IF @ + 1 >= Len(mainChain) THEN NULL ELSE @ + 1]
    /\ LET b == mainChain[boundary.opt + 1]
       IN  /\ executor' = [pc |-> "execute", task |-> [kind |-> "execute", block |-> b, for |-> "none"]]
           /\ IF RewardWaits(b) = << >> THEN RewardInfo(b) ELSE failed' = TRUE /\ UNCHANGED valid
    /\ UNCHANGED <<parent, path, arrived, mainChain, saved, mem, disk, states, recent, tasks, worker,
                   generator, crashes, jobs>>

\* compute_epoch: an epoch with a commitment and all its receipts is skipped;
\* the receipts may have been replaced by those of another fork.
Execute ==
    LET b == executor.task.block
    IN  /\ executor.pc = "execute"
        /\ executor' = [executor EXCEPT !.pc = "adjust"]
        /\ \/ b \in mem /\ UNCHANGED <<mem, disk, states, recent, failed>>
           \/ /\ Compute(b)
              /\ failed' = (failed \/ parent[b] \notin mem)
        /\ UNCHANGED <<parent, path, arrived, mainChain, saved, valid, boundary, tasks, worker, generator,
                       crashes, jobs>>

Adjust ==
    /\ executor.pc = "adjust"
    /\ boundary' = [boundary EXCEPT !.upper = AdjustUpperBound(executor.task.block)]
    /\ executor' = [executor EXCEPT !.pc = "poll"]
    /\ UNCHANGED <<parent, path, arrived, mainChain, saved, mem, disk, states, recent, valid, tasks, worker,
                   generator, failed, crashes, jobs>>

\* handle_get_result_task; every caller unwraps the answer.
Answer ==
    /\ executor.pc = "get"
    /\ failed' = (failed \/ executor.task.block \notin mem \cup disk)
    /\ IF executor.task.for = "worker"
       THEN /\ worker' = [worker EXCEPT !.todo = Tail(@), !.asked = FALSE]
            /\ UNCHANGED generator
       ELSE /\ generator' = [generator EXCEPT !.todo = Tail(@), !.asked = FALSE]
            /\ UNCHANGED worker
    /\ executor' = [executor EXCEPT !.pc = "poll"]
    /\ UNCHANGED <<parent, path, arrived, mainChain, saved, mem, disk, states, recent, valid, boundary, tasks,
                   crashes, jobs>>

-----------------------------------------------------------------------------
(* Crash and restart                                                        *)

\* The heights of the main chain that construct_main_state brings back.
EndIndex(chain) == IF Len(chain) < Deferred THEN 0 ELSE Len(chain) - Deferred + 1

\* The commitments load_epoch_execution_commitment_from_db finds, up to the first gap.
Loaded(chain, db) ==
    {chain[h + 1] : h \in {h \in 1..(EndIndex(chain) - 1) :
                            \A i \in 1..h : chain[i + 1] \in db}}

\* Mutant: one state less is computed again.
ForceIndexLate(chain, found, st) ==
    LET heights == {h \in 1..(EndIndex(chain) - 1) : chain[h + 1] \in found}
        intact(h) == {i \in heights : i >= h /\ \A j \in heights :
                                            j >= h /\ j <= i => st[chain[j + 1]] # "none"}
    IN  {1} \cup {h + 1 : h \in {h \in heights : Cardinality(intact(h)) >= Deferred}}

\* get_force_compute_index: counting the states storage has from the top, the
\* one below which Deferred others follow without a gap is trusted if its
\* receipts are there, otherwise one further down may be.
ForceComputeIndex(chain, found, st) ==
    LET heights == {h \in 1..(EndIndex(chain) - 1) : chain[h + 1] \in found}
        intact(h) == {i \in heights : i >= h /\ \A j \in heights :
                                            j >= h /\ j <= i => st[chain[j + 1]] # "none"}
    IN  {1} \cup {h + 1 : h \in {h \in heights : Cardinality(intact(h)) > Deferred}}

\* What a crash leaves of the states: of those written last, all but the first n
\* are torn or missing.
\* That no state before the last Deferred ones suffers is the assumption under
\* which the code computes the "last 5 epochs" again.
Damaged(n) ==
    LET hit == Range(SubSeq(recent, n + 1, Len(recent)))
    IN  {[b \in Blocks |-> IF b \in hit THEN f[b] ELSE states[b]] : f \in [hit -> {"none", "torn"}]}

\* A crash, and construct_main_state as far as its loop over the epochs.  The
\* commitments written last may be lost as well.
Crash ==
    /\ crashes > 0
    /\ crashes' = crashes - 1
    /\ arrived' = saved.blocks /\ mainChain' = saved.chain
    /\ \E n \in 0..Len(recent) : states' \in Damaged(n) /\ recent' = SubSeq(recent, 1, n)
    /\ \E n \in 0..Len(recent) : disk' = disk \ Range(SubSeq(recent, n + 1, Len(recent)))
    /\ LET chain == saved.chain
           found == Loaded(chain, disk')
           lost  == {h \in 1..(EndIndex(chain) - 1) : chain[h + 1] \notin found}
       IN  /\ mem' = found \cup {Genesis}
           /\ \E force \in ForceComputeIndex(chain, found, states') :
                worker' = [pc |-> "recover", next |-> 1, to |-> EndIndex(chain),
                           from |-> Min({force} \cup lost), todo |-> << >>, asked |-> FALSE]
           /\ boundary' = [chain |-> chain, upper |-> 0, opt |-> NULL]
    /\ valid' = {Genesis}
    /\ tasks' = << >>
    /\ executor' = [pc |-> "poll", task |-> NoTask]
    /\ generator' = [pc |-> "idle", parent |-> Genesis, todo |-> << >>, asked |-> FALSE]
    /\ UNCHANGED <<parent, path, saved, failed, jobs>>

\* The loop of construct_main_state: an epoch that has a commitment counts as
\* available, and is computed again from worker.from on.
Recover ==
    LET b  == mainChain[worker.next + 1]
        up == IF b \in mem THEN boundary.upper + 1 ELSE boundary.upper
    IN  /\ worker.pc = "recover" /\ worker.next < worker.to
        /\ worker' = [worker EXCEPT !.next = @ + 1]
        /\ \/ /\ worker.next < worker.from
              /\ boundary' = [boundary EXCEPT !.upper = up]
              /\ UNCHANGED <<mem, disk, states, recent, valid, failed>>
           \/ /\ worker.next >= worker.from
              /\ Compute(b)
              /\ boundary' = [boundary EXCEPT !.upper =
                                IF b \in mem THEN up ELSE AdjustUpperBound(b)]
              /\ IF RewardWaits(b) = << >> /\ parent[b] \in mem
                 THEN RewardInfo(b) ELSE failed' = TRUE /\ UNCHANGED valid
        /\ UNCHANGED <<parent, path, arrived, mainChain, saved, tasks, executor, generator, crashes, jobs>>

Recovered ==
    /\ worker.pc = "recover" /\ worker.next >= worker.to
    /\ worker' = [worker EXCEPT !.pc = "idle"]
    /\ UNCHANGED <<parent, path, arrived, mainChain, saved, mem, disk, states, recent, valid, boundary, tasks,
                   executor, generator, failed, crashes, jobs>>

-----------------------------------------------------------------------------
Init ==
    /\ \E i \in Instances : /\ parent = i.parent /\ path = i.path
                           /\ crashes = i.crashes /\ jobs = i.jobs
    /\ arrived = {Genesis} /\ mainChain = <<Genesis>>
    /\ saved = [chain |-> <<Genesis>>, blocks |-> {Genesis}]
    /\ mem = {Genesis} /\ disk = {Genesis}
    /\ states = [b \in Blocks |-> IF b = Genesis THEN "ok" ELSE "none"]
    /\ recent = << >> /\ valid = {Genesis}
    /\ boundary = [chain |-> <<Genesis>>, upper |-> 0, opt |-> NULL]
    /\ tasks = << >>
    /\ executor = [pc |-> "poll", task |-> NoTask]
    /\ worker = [pc |-> "idle", next |-> 0, to |-> 0, from |-> 0, todo |-> << >>, asked |-> FALSE]
    /\ generator = [pc |-> "idle", parent |-> Genesis, todo |-> << >>, asked |-> FALSE]
    /\ failed = FALSE

WorkerStep    == Collect \/ WorkerWaits \/ Enqueue \/ Finish \/ Recover \/ Recovered
GeneratorStep == GeneratorWaits \/ GeneratorCollects \/ GeneratorBlames
ExecutorStep  == Take \/ Empty \/ NoOptimistic \/ Optimistic \/ Execute \/ Adjust \/ Answer

Next ==
    \/ \E b \in DOMAIN parent : Activate(b)
    \/ WorkerStep \/ ExecutorStep
    \/ Prepare \/ GeneratorStep
    \/ Crash

Spec == Init /\ [][Next]_vars

\* The threads run: what is not waiting for another thread goes on.
FairSpec == Spec /\ WF_vars(WorkerStep) /\ WF_vars(ExecutorStep) /\ WF_vars(GeneratorStep)

-----------------------------------------------------------------------------
(* Properties                                                               *)

\* Nothing the code takes for granted is missing: the commitment of the parent
\* when an epoch is computed (new_state), a result when one is waited for, the
\* commitments the validity of a block is computed from, and, for the thread
\* that runs ahead, every result its rewards need, for it would wait for itself.
Unwraps == ~failed

\* Every state the boundary offers is one of the main chain and is executed,
\* although an epoch of a chain that has just been left may finish at any time.
AvailableExecuted ==
    worker.pc # "recover" =>
        /\ boundary.chain = mainChain
        /\ \A h \in 0..boundary.upper : h < Len(mainChain) /\ mainChain[h + 1] \in mem

\* After a restart no epoch builds on a state the crash has torn: whatever has a
\* commitment in memory has a complete state.
Intact == worker.pc # "recover" => \A b \in mem : states[b] = "ok"

\* No thread waits for ever, and every epoch that is Deferred deep is executed.
DeferredExecuted ==
    []<>(/\ ~Locked /\ generator.pc = "idle" /\ tasks = << >>
         /\ boundary.upper >= Len(mainChain) - Deferred)

\* "The `opt_height` parent's state has not been executed", says the comment of
\* the case in which there is nothing to run ahead with.
BehindOptimistic ==
    executor.pc = "try" /\ ~Locked /\ boundary.opt \notin {NULL, boundary.upper + 1}
        => mainChain[boundary.opt] \notin mem

-----------------------------------------------------------------------------
(* The inductive invariant                                                  *)

Tree == \E i \in Instances : parent = i.parent /\ path = i.path

\* x is z or an ancestor of z.
Above(x, z) == Height(x) <= Height(z) /\ AncestorAt(z, Height(x)) = x

Closed(S) == \A b \in S \ {Genesis} : parent[b] \in S

Task      == [kind : {"none", "execute", "get"}, block : Blocks \cup {NULL},
              for : {"none", "worker", "generator"}]
Saved     == [chain : Seq(Blocks), blocks : SUBSET Blocks]
Boundary  == [chain : Seq(Blocks), upper : Nat, opt : Nat \cup {NULL}]
Executor  == [pc : {"poll", "try", "recv", "execute", "adjust", "get"}, task : Task]
Worker    == [pc : {"idle", "enqueue", "wait", "recover"}, next : Nat, to : Nat, from : Nat,
              todo : Seq(Blocks), asked : BOOLEAN]
Generator == [pc : {"idle", "state", "blame"}, parent : Blocks, todo : Seq(Blocks), asked : BOOLEAN]

ExecTypes ==
    /\ arrived \subseteq Blocks /\ mainChain \in Seq(Blocks) /\ saved \in Saved
    /\ mem \subseteq Blocks /\ disk \subseteq Blocks /\ valid \subseteq Blocks
    /\ states \in [Blocks -> {"none", "torn", "ok"}] /\ recent \in Seq(DOMAIN parent)
    /\ boundary \in Boundary /\ tasks \in Seq(Task)
    /\ executor \in Executor /\ worker \in Worker /\ generator \in Generator

\* The graph is a tree from the genesis on, and chain leads to one of its leaves.
Leads(chain, S) == Genesis \in S /\ Closed(S) /\ \E tip \in Leaves(S) : chain = path[tip]

ChainInv ==
    /\ Leads(mainChain, arrived) /\ Leads(saved.chain, saved.blocks)
    /\ worker.pc \in {"idle", "recover"} => mainChain = saved.chain /\ arrived = saved.blocks

\* A commitment in memory comes with those of all the epochs before it.
MemInv ==
    /\ Genesis \in mem /\ Closed(mem) /\ Genesis \in valid
    /\ Unwraps

BoundaryInv ==
    /\ boundary.chain = mainChain
    /\ boundary.upper < Len(mainChain) /\ mainChain[boundary.upper + 1] \in mem
    /\ boundary.opt # NULL => boundary.opt < Len(mainChain)

\* The epochs that are executed by the time the task at place i is taken.
Running   == IF executor.pc = "execute" THEN {executor.task.block} ELSE {}
Before(i) == mem \cup Running
             \cup {tasks[k].block : k \in {k \in DOMAIN tasks : k < i /\ tasks[k].kind = "execute"}}
Covered   == Before(Len(tasks) + 1)

\* What a task takes for granted is among the epochs S.
Ready(task, S) ==
    /\ task.kind \in {"execute", "get"} /\ task.block \in Blocks
    /\ task.kind = "execute" => task.block # Genesis /\ parent[task.block] \in S
    /\ task.kind = "get" => task.block \in S /\ task.for \in {"worker", "generator"}

QueueInv ==
    /\ \A i \in DOMAIN tasks : Ready(tasks[i], Before(i))
    /\ executor.pc \in {"execute", "get"} =>
        executor.task.kind = executor.pc /\ Ready(executor.task, mem)
    /\ executor.pc = "adjust" => executor.task.block \in mem

\* A thread has one question out at a time, and it is about what it waits for.
Awaits(t, b) == t.asked /\ t.todo # << >> /\ Head(t.todo) = b
Awaited(task) ==
    IF task.for = "worker" THEN worker.pc = "wait" /\ Awaits(worker, task.block)
    ELSE generator.pc # "idle" /\ Awaits(generator, task.block)
AskInv ==
    /\ \A i \in DOMAIN tasks : tasks[i].kind = "get" =>
        /\ Awaited(tasks[i])
        /\ executor.pc = "get" => executor.task.for # tasks[i].for
        /\ \A j \in DOMAIN tasks \ {i} : tasks[j].kind = "get" => tasks[j].for # tasks[i].for
    /\ executor.pc = "get" => Awaited(executor.task)

\* The last height of a chain that is deep enough to be executed.
TopOf(chain) == IF ToStatePos(chain) > 1 THEN ToStatePos(chain) - 1 ELSE 0

\* What get_reward_execution_info needs for b is there or still waited for.
RewardReady(b, S) == Rewarded(b) => DeferredOf(RewardBlock(b)) \in S

WorkerInv ==
    /\ worker.pc \in {"enqueue", "wait"} =>
        /\ worker.next \in 1..Len(mainChain) /\ worker.to = ToStatePos(mainChain)
        /\ mainChain[worker.next] \in Covered
    /\ worker.pc = "wait" =>
        /\ worker.next < worker.to
        /\ Range(worker.todo) \subseteq Covered
        /\ RewardReady(mainChain[worker.next + 1], mem \cup Range(worker.todo))
    /\ worker.pc # "recover" => saved.chain[TopOf(saved.chain) + 1] \in Covered

GeneratorInv ==
    /\ generator.pc # "idle" =>
        /\ Range(generator.todo) \subseteq Covered
        /\ DeferredOf(generator.parent) \in Covered
    /\ generator.pc = "blame" => DeferredOf(generator.parent) \in mem \cup Range(generator.todo)

\* While the node recovers nothing else runs; the states below worker.from are
\* trusted, those from there to worker.next are computed again.
RecoverInv ==
    worker.pc = "recover" =>
        /\ tasks = << >> /\ executor.pc \in {"poll", "try", "recv"} /\ generator.pc = "idle"
        /\ worker.to = ToStatePos(mainChain)
        /\ worker.next \in 1..(TopOf(mainChain) + 1) /\ boundary.upper = worker.next - 1
        /\ mem \subseteq {mainChain[h + 1] : h \in 0..TopOf(mainChain)}
        /\ states[mainChain[worker.next]] = "ok"
        /\ \A h \in 1..(worker.to - 1) : h < worker.from =>
            mainChain[h + 1] \in mem /\ states[mainChain[h + 1]] = "ok"

\* Complete states build on complete ones, and the writes a crash may undo are
\* in the order in which the epochs follow each other.
StorageInv ==
    /\ states[Genesis] = "ok"
    /\ \A b \in Blocks \ {Genesis} : states[b] = "ok" => states[parent[b]] = "ok"
    /\ Len(recent) <= Deferred
    /\ \A i \in DOMAIN recent :
        /\ states[recent[i]] = "ok"
        /\ \A j \in DOMAIN recent \ {i} : recent[i] # recent[j]
        /\ \A z \in Blocks : Above(recent[i], z) /\ states[z] = "ok" =>
            \E j \in DOMAIN recent : recent[j] = z /\ j - i >= Height(z) - Height(recent[i])

\* Storage has nothing of the epochs Deferred or more above one whose state is
\* missing, torn or may still be lost: that is why Deferred states in a row make
\* the one below them trustworthy.
FarInv ==
    \A x, z \in Blocks :
        (states[x] # "ok" \/ x \in Range(recent)) /\ Above(x, z) /\ Height(z) >= Height(x) + Deferred
            => states[z] = "none"

ExecInv ==
    /\ Tree /\ ExecTypes /\ ChainInv /\ MemInv /\ BoundaryInv /\ QueueInv /\ AskInv
    /\ WorkerInv /\ GeneratorInv /\ RecoverInv /\ StorageInv /\ FarInv /\ Intact
=============================================================================
