----------------------------- MODULE Prefetcher -----------------------------
(***************************************************************************)
(* ExecutionStatePrefetcher and its cancellable task channel.  A thread     *)
(* that is about to execute an epoch hands its State and the accounts of    *)
(* the epoch to the prefetcher, waits, drops the handle (which cancels what *)
(* is left of the task) and executes.  The controller takes one task after  *)
(* another and splits it among worker threads, which load accounts into the *)
(* State's cache through a reference whose lifetime was transmuted away.    *)
(*                                                                         *)
(* The execution thread and the RPC threads that trace epochs share one     *)
(* prefetcher; a task is known by the hash of its epoch.  Executor stands   *)
(* for the thread whose State is modelled, with StateObject; of the other   *)
(* threads only the use of the prefetcher is.  parking_lot's condition      *)
(* variables do not wake up spuriously.                                     *)
(***************************************************************************)
EXTENDS StateObject

CONSTANTS
    Instances,      \* sets of threads, workers and tasks to consider
    Executor,       \* the thread whose State is modelled
    Nobody          \* no thread, no task, no key

\* An instance has the epoch hash of every thread's task, the accounts of the
\* task, the epochs a thread executes, the workers and the executor's operations.
ASSUME PrefetchAssumption ==
    \A i \in Instances :
        /\ Executor \in DOMAIN i.key /\ Nobody \notin DOMAIN i.key
        /\ \A t \in DOMAIN i.key : /\ i.key[t] # Nobody
                                   /\ i.accounts[t] \in Seq(Addr)
                                   /\ i.epochs[t] \in Nat
        /\ i.workers \in Nat \ {0}

VARIABLES
    inst,           \* the instance
    queue,          \* CancelableTaskSender::queue: owners, Nobody for a cancelled task
    signals,        \* the values in the mpsc channel beside it
    sender,         \* holder of the mutex around the task sender
    info,           \* TaskInfo: current key, current and pending waits
    controller,     \* pc and the task in hand
    worker,         \* the worker threads
    thread,         \* pc, epochs to go and, while it cancels, workers to tell
    ops             \* operations the executor may still do

chanVars == <<queue, signals, sender, info>>
vars == <<stateVars, inst, chanVars, controller, worker, thread, ops>>

Threads == DOMAIN inst.key
Workers == 1..inst.workers
Key(t)  == IF t = Nobody THEN Nobody ELSE inst.key[t]

-----------------------------------------------------------------------------
(* The channel                                                              *)

\* TaskInfo::set_current_task: waits for the previous task end, those for the
\* new one become the current waits.  One wait per key is pending.
SetCurrent(k) ==
    info' = [key     |-> k,
             waits   |-> LET w == {p \in info.pending : Key(p) = k /\ k # Nobody}
                         IN  IF w = {} THEN Nobody ELSE CHOOSE p \in w : TRUE,
             pending |-> {p \in info.pending : Key(p) # k}]

\* The threads a step on TaskInfo wakes up: their condition variable is notified.
Woken == {t \in Threads : /\ thread[t].pc = "waiting"
                          /\ t = info.waits \/ t \in info.pending
                          /\ t # info'.waits /\ t \notin info'.pending}

WakeUp ==
    thread' = [t \in Threads |-> IF t \in Woken THEN [thread[t] EXCEPT !.pc = "woken"]
                                 ELSE thread[t]]

\* add_task and CancelableTaskSender::send, under the mutex: the task is queued ...
Push(t) ==
    /\ thread[t].pc = "idle" /\ thread[t].epochs > 0
    /\ sender = Nobody
    /\ sender' = t
    /\ queue' = Append(queue, t)
    /\ thread' = [thread EXCEPT ![t].pc = "pushed"]
    /\ UNCHANGED <<stateVars, inst, signals, info, controller, worker, ops>>

\* ... and then signalled.
Send(t) ==
    /\ thread[t].pc = "pushed"
    /\ signals' = signals + 1
    /\ sender' = Nobody
    /\ thread' = [thread EXCEPT ![t].pc = "wait"]
    /\ UNCHANGED <<stateVars, inst, queue, info, controller, worker, ops>>

Queued(k) == \E i \in DOMAIN queue : queue[i] # Nobody /\ Key(queue[i]) = k

\* Mutant: only the task that runs is looked at.
WaitForCurrent(t) ==
    IF info.key = Key(t) THEN [info EXCEPT !.waits = t] ELSE info

\* CancelableTaskSender::wait_for: the entry that is made for the waiting thread.
WaitFor(t) ==
    IF info.key = Key(t) THEN [info EXCEPT !.waits = t]
    ELSE IF Queued(Key(t)) THEN [info EXCEPT !.pending = @ \cup {t}]
    ELSE info

\* Mutant: the mutex is free while a thread waits.
WaitUnlocked(t) ==
    /\ thread[t].pc = "wait"
    /\ sender = Nobody
    /\ info' = WaitFor(t)
    /\ thread' = [thread EXCEPT ![t].pc = IF info' = info THEN "drop" ELSE "waiting"]
    /\ UNCHANGED <<stateVars, inst, queue, signals, sender, controller, worker, ops>>

\* wait_for_task; the guard of the mutex lives until the wait is over.
Wait(t) ==
    /\ thread[t].pc = "wait"
    /\ sender = Nobody
    /\ info' = WaitFor(t)
    /\ \/ /\ info' = info
          /\ thread' = [thread EXCEPT ![t].pc = "drop"]
          /\ UNCHANGED sender
       \/ /\ info' # info
          /\ thread' = [thread EXCEPT ![t].pc = "waiting"]
          /\ sender' = t
    /\ UNCHANGED <<stateVars, inst, queue, signals, controller, worker, ops>>

WaitOver(t) ==
    /\ thread[t].pc = "woken"
    /\ sender' = Nobody
    /\ thread' = [thread EXCEPT ![t].pc = "drop"]
    /\ UNCHANGED <<stateVars, inst, queue, signals, info, controller, worker, ops>>

\* The drop of the handle: cancel_task and CancelableTaskSender::remove.  Tasks of
\* the key leave the queue; when the key is the current one the workers are told.
Cancel(t) ==
    LET k == Key(t)
    IN  /\ thread[t].pc = "drop"
        /\ sender = Nobody
        /\ queue' = [i \in DOMAIN queue |-> IF Key(queue[i]) = k THEN Nobody ELSE queue[i]]
        /\ \/ /\ info.key = k
              /\ info' = [info EXCEPT !.key = Nobody]
              /\ thread' = [thread EXCEPT ![t].pc = "tell", ![t].tell = Workers]
           \/ /\ info.key # k
              /\ info' = [info EXCEPT !.pending = IF Queued(k) THEN {p \in @ : Key(p) # k} ELSE @]
              /\ thread' = [thread EXCEPT ![t].pc = "run"]
        /\ UNCHANGED <<stateVars, inst, signals, sender, controller, worker, ops>>

\* signal_current_task_cancellation, one worker after the other.
Tell(t, w) ==
    /\ thread[t].pc = "tell" /\ w = First(thread[t].tell)
    /\ worker' = IF worker[w].current.key = Key(t)
                 THEN [worker EXCEPT ![w].cancel = worker[w].current.id] ELSE worker
    /\ thread' = [thread EXCEPT ![t].tell = @ \ {w},
                                ![t].pc = IF thread[t].tell = {w} THEN "run" ELSE "tell"]
    /\ UNCHANGED <<stateVars, inst, chanVars, controller, ops>>

\* Mutant: the controller blocks with the finished task as the current one.
RecvBlockKept ==
    /\ controller.pc = "recv" /\ signals = 0 /\ queue = << >>
    /\ controller' = [controller EXCEPT !.pc = "blocked"]
    /\ UNCHANGED <<stateVars, inst, chanVars, worker, thread, ops>>

\* recv_impl without a signal and with an empty queue: the previous task is over,
\* and the controller blocks without a lock.  With a task in the queue whose
\* sender is about to signal it blocks until then.
RecvBlock ==
    /\ controller.pc = "recv" /\ signals = 0 /\ queue = << >>
    /\ SetCurrent(Nobody)
    /\ WakeUp
    /\ controller' = [controller EXCEPT !.pc = "blocked"]
    /\ UNCHANGED <<stateVars, inst, queue, signals, sender, worker, ops>>

\* recv_impl takes a signal and the head of the queue, a cancelled task is passed over.
Recv ==
    /\ controller.pc \in {"recv", "blocked"} /\ signals > 0
    /\ signals' = signals - 1
    /\ queue' = Tail(queue)
    /\ \/ /\ Head(queue) = Nobody
          /\ controller' = [controller EXCEPT !.pc = "recv"]
          /\ UNCHANGED <<info, thread>>
       \/ /\ Head(queue) # Nobody
          /\ SetCurrent(Key(Head(queue)))
          /\ WakeUp
          /\ controller' = [controller EXCEPT !.pc = "dispatch", !.task = Head(queue)]
    /\ UNCHANGED <<stateVars, inst, sender, worker, ops>>

-----------------------------------------------------------------------------
(* Controller and workers                                                   *)

\* The part of the accounts that worker w gets.
Slice(accounts, w) ==
    LET n == Len(accounts)
    IN  SubSeq(accounts, (n * (w - 1)) \div inst.workers + 1, (n * w) \div inst.workers)

Dispatch ==
    LET t == controller.task
    IN  /\ controller.pc = "dispatch"
        /\ controller' = [controller EXCEPT !.pc = "collect", !.id = @ + 1]
        /\ worker' = [w \in Workers |->
                        [worker[w] EXCEPT !.pc = "start", !.owner = t,
                                          !.id = controller.id + 1,
                                          !.left = Slice(inst.accounts[t], w)]]
        /\ UNCHANGED <<stateVars, inst, chanVars, thread, ops>>

\* wait_for_current_task.
Collect ==
    /\ controller.pc = "collect"
    /\ \A w \in Workers : worker[w].pc = "idle"
    /\ controller' = [controller EXCEPT !.pc = "recv", !.task = Nobody]
    /\ UNCHANGED <<stateVars, inst, chanVars, worker, thread, ops>>

\* A worker takes its part: current_task_id ...
Start(w) ==
    /\ worker[w].pc = "start"
    /\ worker' = [worker EXCEPT ![w].pc = "reset",
                                ![w].current = [key |-> Key(worker[w].owner), id |-> worker[w].id]]
    /\ UNCHANGED <<stateVars, inst, chanVars, controller, thread, ops>>

\* ... and cancel_task_id.
Reset(w) ==
    /\ worker[w].pc = "reset"
    /\ worker' = [worker EXCEPT ![w].pc = "next", ![w].cancel = 0]
    /\ UNCHANGED <<stateVars, inst, chanVars, controller, thread, ops>>

Cancelled(w) == worker[w].cancel = worker[w].id

\* The finish signal after the last account or a cancellation.
Finish(w) ==
    /\ worker[w].pc = "next"
    /\ worker[w].left = << >> \/ Cancelled(w)
    /\ worker' = [worker EXCEPT ![w].pc = "idle", ![w].owner = Nobody, ![w].left = << >>]
    /\ UNCHANGED <<stateVars, inst, chanVars, controller, thread, ops>>

\* State::prefetch looks the account up under the read lock ...
Look(w) ==
    /\ worker[w].pc = "next" /\ worker[w].left # << >> /\ ~Cancelled(w)
    /\ worker' = IF worker[w].owner = Executor /\ PrefetchNeeded(Head(worker[w].left))
                 THEN [worker EXCEPT ![w].pc = "insert", ![w].cancel = 0]
                 ELSE [worker EXCEPT ![w].left = Tail(@), ![w].cancel = 0]
    /\ UNCHANGED <<stateVars, inst, chanVars, controller, thread, ops>>

\* ... loads it without a lock and inserts it.
Insert(w) ==
    /\ worker[w].pc = "insert"
    /\ PrefetchInsert(Head(worker[w].left))
    /\ worker' = [worker EXCEPT ![w].pc = "next", ![w].left = Tail(@)]
    /\ UNCHANGED <<inst, chanVars, controller, thread, ops>>

-----------------------------------------------------------------------------
(* Execution                                                                *)

\* At the bound of its operations the executor only returns from open frames.
Operate ==
    /\ thread[Executor].pc = "run"
    /\ \/ ops > 0 /\ Execute /\ ops' = ops - 1
       \/ ops = 0 /\ (DiscardCheckpoint \/ RevertToCheckpoint) /\ UNCHANGED ops
    /\ UNCHANGED <<inst, chanVars, controller, worker, thread>>

\* The executor stores the State, the others drop theirs.
Complete(t) ==
    /\ thread[t].pc = "run"
    /\ IF t = Executor THEN Commit ELSE UNCHANGED stateVars
    /\ thread' = [thread EXCEPT ![t].pc = "idle", ![t].epochs = @ - 1]
    /\ UNCHANGED <<inst, chanVars, controller, worker, ops>>

Init ==
    /\ inst \in Instances
    /\ StateInit
    /\ queue = << >> /\ signals = 0 /\ sender = Nobody
    /\ info = [key |-> Nobody, waits |-> Nobody, pending |-> {}]
    /\ controller = [pc |-> "recv", task |-> Nobody, id |-> 0]
    /\ worker = [w \in Workers |-> [pc |-> "idle", owner |-> Nobody, id |-> 0, left |-> << >>,
                                    current |-> [key |-> Nobody, id |-> 0], cancel |-> 0]]
    /\ thread = [t \in Threads |-> [pc |-> "idle", epochs |-> inst.epochs[t], tell |-> {}]]
    /\ ops = inst.ops

ThreadStep(t) ==
    \/ Push(t) \/ Send(t) \/ Wait(t) \/ WaitOver(t) \/ Cancel(t) \/ Complete(t)
    \/ \E w \in Workers : Tell(t, w)

ControllerStep == RecvBlock \/ Recv \/ Dispatch \/ Collect

WorkerStep(w) == Start(w) \/ Reset(w) \/ Finish(w) \/ Look(w) \/ Insert(w)

Next ==
    \/ \E t \in Threads : ThreadStep(t)
    \/ ControllerStep
    \/ \E w \in Workers : WorkerStep(w)
    \/ Operate

Spec == Init /\ [][Next]_vars

\* Every thread that can go on does; frames end.
FairSpec ==
    /\ Spec
    /\ WF_vars(\E t \in Threads : ThreadStep(t))
    /\ WF_vars(ControllerStep)
    /\ WF_vars(\E w \in Workers : WorkerStep(w))
    /\ WF_vars(Operate)

-----------------------------------------------------------------------------
\* No part of a task is queued, in hand or with a worker once wait_for_task of
\* its owner has returned: the State is free of the prefetcher when the execution
\* takes it over, as long as no other thread works on the same epoch.
Prefetching(t) == thread[t].pc \in {"pushed", "wait", "waiting"}

JoinedBy(t) ==
    ~Prefetching(t) =>
        /\ \A i \in DOMAIN queue : queue[i] # t
        /\ controller.task # t
        /\ \A w \in Workers : worker[w].owner # t

PrefetchJoined == JoinedBy(Executor)

\* At most one wait is pending: set_current_task removes from the list it walks
\* over and would run past its end with two.
OnePending == \A t, u \in info.pending : t = u

\* No thread waits forever, not even for a task that another thread with the same
\* epoch cancels.
WaitsEnd == <>[](\A t \in Threads : thread[t].pc = "idle" /\ thread[t].epochs = 0)

-----------------------------------------------------------------------------
(* The inductive invariant                                                  *)

Owners == Threads \cup {Nobody}
Keys   == {Key(t) : t \in Owners}

TaskInfo == [key : Keys, waits : Owners, pending : SUBSET Threads]

ControllerState ==
    [pc : {"recv", "blocked", "dispatch", "collect"}, task : Owners, id : Nat]

WorkerState ==
    [pc : {"idle", "start", "reset", "next", "insert"}, owner : Owners, id : Nat,
     left : Seq(Addr), current : [key : Keys, id : Nat], cancel : Nat]

ThreadState ==
    [pc : {"idle", "pushed", "wait", "waiting", "woken", "drop", "tell", "run"},
     epochs : Int, tell : SUBSET Workers]

PrefetchTypes ==
    /\ inst \in Instances
    /\ queue \in Seq(Owners) /\ signals \in Nat /\ sender \in Owners
    /\ info \in TaskInfo
    /\ controller \in ControllerState
    /\ worker \in [Workers -> WorkerState]
    /\ thread \in [Threads -> ThreadState]

\* The mutex around the task sender is held from the push to the signal and as
\* long as a thread waits, only a waiting thread has a wait entry, and there is a
\* task in the queue for every signal.
ChannelInv ==
    /\ \A t \in Threads : thread[t].pc \in {"pushed", "waiting", "woken"} => sender = t
    /\ \A t \in Threads : t = info.waits \/ t \in info.pending => thread[t].pc = "waiting"
    /\ signals <= Len(queue)
    /\ \A t \in Threads : thread[t].pc = "pushed" => signals < Len(queue)

\* The workers have parts of the one task in hand, and insert for the executor only.
ControllerInv ==
    /\ controller.pc \in {"recv", "blocked"} <=> controller.task = Nobody
    /\ \A w \in Workers :
        /\ worker[w].owner # Nobody => controller.pc = "collect" /\ controller.task = worker[w].owner
        /\ worker[w].pc = "idle" => worker[w].owner = Nobody
        /\ worker[w].pc = "insert" => worker[w].owner = Executor /\ worker[w].left # << >>

\* No other thread works on the epoch of t.
OwnKey(t) == \A u \in Threads : Key(u) = Key(t) => u = t

\* Where the task of such a thread is: queued at most once, then the current one
\* until its owner, which has joined it, cancels it.
OwnerInv(t) ==
    /\ JoinedBy(t)
    /\ \A i, j \in DOMAIN queue : queue[i] = t /\ queue[j] = t => i = j
    /\ info.key = Key(t) => \A i \in DOMAIN queue : queue[i] # t
    /\ controller.task = t \/ info.waits = t => info.key = Key(t)
    /\ thread[t].pc \in {"idle", "tell", "run"} => info.key # Key(t)

PrefetchInv ==
    /\ PrefetchTypes
    /\ ChannelInv
    /\ ControllerInv
    /\ \A t \in Threads : OwnKey(t) => OwnerInv(t)

\* Nothing has been executed while the prefetcher has the State.
ExecutesJoined == thread[Executor].pc # "run" => Untouched
=============================================================================
