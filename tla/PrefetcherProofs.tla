------------------------- MODULE PrefetcherProofs -------------------------
(***************************************************************************)
(* The prefetcher's channel, for any number of threads, workers, epochs and *)
(* accounts: one wait at most is pending; a thread whose epoch no other     *)
(* thread works on has its State to itself when it executes; and therefore  *)
(* the State that the prefetcher fills behaves like a stack of copies.      *)
(***************************************************************************)
EXTENDS Prefetcher, StateObjectProofs

(* The threads and their keys are not Nobody.                               *)
LEMMA ThreadFacts ==
  ASSUME inst \in Instances
  PROVE  /\ Nobody \notin Threads /\ Executor \in Threads
         /\ \A t \in Threads : Key(t) # Nobody /\ inst.accounts[t] \in Seq(Addr)
         /\ Key(Nobody) = Nobody
         /\ inst.workers \in Nat \ {0}
BY PrefetchAssumption DEF Threads, Key

(* The instance does not change, so neither do threads, workers and keys.   *)
LEMMA SameInstance ==
  ASSUME inst' = inst
  PROVE  /\ Threads' = Threads /\ Workers' = Workers
         /\ \A t : Key(t)' = Key(t)
         /\ \A t : OwnKey(t)' <=> OwnKey(t)
         /\ Owners' = Owners /\ TaskInfo' = TaskInfo /\ ControllerState' = ControllerState
         /\ WorkerState' = WorkerState /\ ThreadState' = ThreadState
<1>1. /\ Threads' = Threads /\ Workers' = Workers
      /\ \A t : Key(t)' = Key(t)
      /\ \A t : OwnKey(t)' <=> OwnKey(t)
  BY DEF Threads, Workers, Key, OwnKey
<1>2. Owners' = Owners /\ Keys' = Keys
  BY <1>1 DEF Owners, Keys
<1>3. QED
  BY <1>1, <1>2 DEF TaskInfo, ControllerState, WorkerState, ThreadState

(* What a thread's change of its pc does.                                   *)
LEMMA ThreadMoves ==
  ASSUME PrefetchTypes, NEW t \in Threads,
         NEW p \in {"idle", "pushed", "wait", "waiting", "woken", "drop", "tell", "run"},
         thread' = [thread EXCEPT ![t].pc = p]
  PROVE  /\ thread' \in [Threads -> ThreadState]
         /\ \A u \in Threads : thread'[u].pc = IF u = t THEN p ELSE thread[u].pc
BY DEF PrefetchTypes, ThreadState

-----------------------------------------------------------------------------
(* Steps of the threads                                                     *)

(* A push takes the mutex; the task is the thread's only one.               *)
LEMMA PushInv ==
  ASSUME PrefetchInv, NEW t \in Threads, Push(t)
  PROVE  PrefetchInv'
<1> USE DEF PrefetchInv
<1>0. /\ inst \in Instances /\ inst' = inst /\ UNCHANGED <<signals, info, controller, worker>>
      /\ thread[t].pc = "idle" /\ sender = Nobody /\ sender' = t
      /\ queue' = Append(queue, t) /\ thread' = [thread EXCEPT ![t].pc = "pushed"]
  BY DEF Push, PrefetchTypes
<1>1. /\ thread' \in [Threads -> ThreadState]
      /\ \A u \in Threads : thread'[u].pc = IF u = t THEN "pushed" ELSE thread[u].pc
  BY <1>0, ThreadMoves, Zenon
<1>2. PrefetchTypes'
  BY <1>0, <1>1, SameInstance DEF PrefetchTypes, Owners
<1>3. ChannelInv'
  <2>1. Len(queue') = Len(queue) + 1 /\ Len(queue) \in Nat /\ signals \in Nat
    BY <1>0 DEF PrefetchTypes
  <2>2. QED BY <1>0, <1>1, <2>1, ThreadFacts, SameInstance DEF ChannelInv
<1>4. ControllerInv'
  BY <1>0, SameInstance DEF ControllerInv
<1>5. ASSUME NEW u \in Threads, OwnKey(u) PROVE OwnerInv(u)'
  BY <1>0, <1>1, <1>5, SameInstance DEF PrefetchTypes, OwnerInv, JoinedBy, Prefetching
<1>6. QED BY <1>0, <1>2, <1>3, <1>4, <1>5, SameInstance

(* The signal releases the mutex.                                           *)
LEMMA SendInv ==
  ASSUME PrefetchInv, NEW t \in Threads, Send(t)
  PROVE  PrefetchInv'
<1> USE DEF PrefetchInv
<1>0. /\ inst \in Instances /\ inst' = inst /\ UNCHANGED <<queue, info, controller, worker>>
      /\ thread[t].pc = "pushed" /\ sender' = Nobody /\ signals' = signals + 1
      /\ thread' = [thread EXCEPT ![t].pc = "wait"]
  BY DEF Send, PrefetchTypes
<1>1. /\ thread' \in [Threads -> ThreadState]
      /\ \A u \in Threads : thread'[u].pc = IF u = t THEN "wait" ELSE thread[u].pc
  BY <1>0, ThreadMoves, Zenon
<1>2. PrefetchTypes'
  BY <1>0, <1>1, SameInstance DEF PrefetchTypes, Owners
<1>3. ChannelInv'
  <2>1. Len(queue) \in Nat /\ signals \in Nat
    BY <1>0 DEF PrefetchTypes
  <2>2. QED BY <1>0, <1>1, <2>1, ThreadFacts, SameInstance DEF ChannelInv
<1>4. ControllerInv'
  BY <1>0, SameInstance DEF ControllerInv
<1>5. ASSUME NEW u \in Threads, OwnKey(u) PROVE OwnerInv(u)'
  BY <1>0, <1>1, <1>5, SameInstance DEF OwnerInv, JoinedBy, Prefetching
<1>6. QED BY <1>0, <1>2, <1>3, <1>4, <1>5, SameInstance

(* The end of a wait releases the mutex.                                    *)
LEMMA WaitOverInv ==
  ASSUME PrefetchInv, NEW t \in Threads, WaitOver(t)
  PROVE  PrefetchInv'
<1> USE DEF PrefetchInv
<1>0. /\ inst \in Instances /\ inst' = inst
      /\ UNCHANGED <<queue, signals, info, controller, worker>>
      /\ thread[t].pc = "woken" /\ sender' = Nobody
      /\ thread' = [thread EXCEPT ![t].pc = "drop"]
  BY DEF WaitOver, PrefetchTypes
<1>1. /\ thread' \in [Threads -> ThreadState]
      /\ \A u \in Threads : thread'[u].pc = IF u = t THEN "drop" ELSE thread[u].pc
  BY <1>0, ThreadMoves, Zenon
<1>2. PrefetchTypes'
  BY <1>0, <1>1, SameInstance DEF PrefetchTypes, Owners
<1>3. ChannelInv'
  BY <1>0, <1>1, ThreadFacts, SameInstance DEF ChannelInv
<1>4. ControllerInv'
  BY <1>0, SameInstance DEF ControllerInv
<1>5. ASSUME NEW u \in Threads, OwnKey(u) PROVE OwnerInv(u)'
  BY <1>0, <1>1, <1>5, SameInstance DEF OwnerInv, JoinedBy, Prefetching
<1>6. QED BY <1>0, <1>2, <1>3, <1>4, <1>5, SameInstance

(* wait_for_task returns at once only when the task is neither queued nor   *)
(* the current one.                                                         *)
LEMMA WaitInv ==
  ASSUME PrefetchInv, NEW t \in Threads, Wait(t)
  PROVE  PrefetchInv'
<1> USE DEF PrefetchInv
<1>0. /\ inst \in Instances /\ inst' = inst
      /\ UNCHANGED <<queue, signals, controller, worker>>
      /\ thread[t].pc = "wait" /\ sender = Nobody /\ info' = WaitFor(t)
      /\ info \in TaskInfo
  BY DEF Wait, PrefetchTypes
<1>1. CASE info' = info /\ thread' = [thread EXCEPT ![t].pc = "drop"] /\ UNCHANGED sender
  <2>1. /\ thread' \in [Threads -> ThreadState]
        /\ \A u \in Threads : thread'[u].pc = IF u = t THEN "drop" ELSE thread[u].pc
    BY <1>1, ThreadMoves, Zenon
  <2>2. PrefetchTypes'
    BY <1>0, <1>1, <2>1, SameInstance DEF PrefetchTypes
  <2>3. ChannelInv'
    BY <1>0, <1>1, <2>1, ThreadFacts, SameInstance DEF ChannelInv
  <2>4. ControllerInv'
    BY <1>0, SameInstance DEF ControllerInv
  <2>5. info.key # Key(t) /\ ~Queued(Key(t))
    BY <1>0, <1>1 DEF WaitFor, ChannelInv, TaskInfo
  <2>6. \A i \in DOMAIN queue : queue[i] # t
    BY <1>0, <2>5, ThreadFacts DEF Queued
  <2>7. ASSUME NEW u \in Threads, OwnKey(u) PROVE OwnerInv(u)'
    <3>1. OwnerInv(u)
      BY <2>7
    <3>2. CASE u = t
      <4>1. controller.task # t
        BY <2>5, <3>1, <3>2 DEF OwnerInv
      <4>2. \A w \in Workers : worker[w].owner # t
        BY <1>0, <4>1, ThreadFacts DEF ControllerInv
      <4>3. QED
        BY <1>0, <1>1, <2>1, <2>6, <3>1, <3>2, <4>1, <4>2, SameInstance
        DEF OwnerInv, JoinedBy, Prefetching
    <3>3. CASE u # t
      BY <1>0, <1>1, <2>1, <3>1, <3>3, SameInstance DEF OwnerInv, JoinedBy, Prefetching
    <3>4. QED BY <3>2, <3>3
  <2>8. QED BY <1>0, <2>2, <2>3, <2>4, <2>7, SameInstance
<1>2. CASE info' # info /\ thread' = [thread EXCEPT ![t].pc = "waiting"] /\ sender' = t
  <2>1. /\ thread' \in [Threads -> ThreadState]
        /\ \A u \in Threads : thread'[u].pc = IF u = t THEN "waiting" ELSE thread[u].pc
    BY <1>2, ThreadMoves, Zenon
  <2>2. /\ info' \in TaskInfo
        /\ info'.key = info.key
        /\ \/ info.key = Key(t) /\ info'.waits = t /\ info'.pending = info.pending
           \/ info'.waits = info.waits /\ info'.pending = info.pending \cup {t}
    BY <1>0, <1>2 DEF WaitFor, TaskInfo, Owners
  <2>3. PrefetchTypes'
    BY <1>0, <1>2, <2>1, <2>2, SameInstance DEF PrefetchTypes, Owners
  <2>4. ChannelInv'
    BY <1>0, <1>2, <2>1, <2>2, ThreadFacts, SameInstance DEF ChannelInv
  <2>5. ControllerInv'
    BY <1>0, SameInstance DEF ControllerInv
  <2>6. ASSUME NEW u \in Threads, OwnKey(u) PROVE OwnerInv(u)'
    BY <1>0, <1>2, <2>1, <2>2, <2>6, SameInstance DEF OwnerInv, JoinedBy, Prefetching
  <2>7. QED BY <1>0, <2>3, <2>4, <2>5, <2>6, SameInstance
<1>3. QED BY <1>1, <1>2 DEF Wait

(* Cancelling removes what is left of the thread's own task.  Nobody waits  *)
(* meanwhile, for the mutex is free.                                        *)
LEMMA CancelInv ==
  ASSUME PrefetchInv, NEW t \in Threads, Cancel(t)
  PROVE  PrefetchInv'
<1> USE DEF PrefetchInv
<1>0. /\ inst \in Instances /\ inst' = inst /\ UNCHANGED <<signals, sender, controller, worker>>
      /\ thread[t].pc = "drop" /\ sender = Nobody
      /\ info \in TaskInfo /\ queue \in Seq(Owners)
      /\ queue' = [i \in DOMAIN queue |-> IF Key(queue[i]) = Key(t) THEN Nobody ELSE queue[i]]
  BY DEF Cancel, PrefetchTypes
<1>1. \E p \in {"tell", "run"} :
        /\ thread' \in [Threads -> ThreadState]
        /\ \A u \in Threads : thread'[u].pc = IF u = t THEN p ELSE thread[u].pc
  <2>1. CASE thread' = [thread EXCEPT ![t].pc = "tell", ![t].tell = Workers]
    <3>1. /\ thread' \in [Threads -> ThreadState]
          /\ \A u \in Threads : thread'[u].pc = IF u = t THEN "tell" ELSE thread[u].pc
      BY <2>1, Zenon DEF PrefetchTypes, ThreadState
    <3>2. QED BY <3>1
  <2>2. CASE thread' = [thread EXCEPT ![t].pc = "run"]
    <3>1. /\ thread' \in [Threads -> ThreadState]
          /\ \A u \in Threads : thread'[u].pc = IF u = t THEN "run" ELSE thread[u].pc
      BY <2>2, ThreadMoves, Zenon
    <3>2. QED BY <3>1
  <2>3. QED BY <2>1, <2>2 DEF Cancel
<1>2. /\ info' \in TaskInfo /\ info'.waits = info.waits /\ info'.pending \subseteq info.pending
      /\ info'.key = IF info.key = Key(t) THEN Nobody ELSE info.key
  <2>1. Nobody \in Keys
    BY <1>0, ThreadFacts DEF Keys, Owners
  <2>2. QED BY <1>0, <2>1 DEF Cancel, TaskInfo
<1>3. /\ queue' \in Seq(Owners) /\ Len(queue') = Len(queue) /\ DOMAIN queue' = DOMAIN queue
      /\ \A i \in DOMAIN queue : queue'[i] \in {queue[i], Nobody}
      /\ \A i \in DOMAIN queue : queue'[i] # t
  BY <1>0, ThreadFacts DEF Owners
<1>4. PrefetchTypes'
  BY <1>0, <1>1, <1>2, <1>3, SameInstance DEF PrefetchTypes
<1>5. ChannelInv'
  BY <1>0, <1>1, <1>2, <1>3, ThreadFacts, SameInstance, Zenon DEF ChannelInv
<1>6. ControllerInv'
  BY <1>0, SameInstance DEF ControllerInv
<1>7. ASSUME NEW u \in Threads, OwnKey(u) PROVE OwnerInv(u)'
  <2>1. OwnerInv(u) /\ Key(u) # Nobody /\ u # Nobody
    BY <1>0, <1>7, ThreadFacts
  <2>2. CASE u = t
    <3>1. /\ controller.task # t /\ \A w \in Workers : worker[w].owner # t
          /\ info.waits # t
      BY <1>0, <2>1, <2>2 DEF OwnerInv, JoinedBy, Prefetching, ChannelInv
    <3>2. info'.key # Key(t)
      BY <1>2, <2>1, <2>2
    <3>3. QED
      BY <1>0, <1>1, <1>2, <1>3, <2>2, <3>1, <3>2, SameInstance
      DEF OwnerInv, JoinedBy, Prefetching
  <2>3. CASE u # t
    <3>1. Key(u) # Key(t)
      BY <1>7, <2>3 DEF OwnKey
    <3>2. info'.key = Key(u) <=> info.key = Key(u)
      BY <1>2, <2>1, <3>1
    <3>3. QED
      BY <1>0, <1>1, <1>2, <1>3, <2>1, <2>3, <3>2, SameInstance
      DEF OwnerInv, JoinedBy, Prefetching
  <2>4. QED BY <2>2, <2>3
<1>8. QED BY <1>0, <1>4, <1>5, <1>6, <1>7, SameInstance

-----------------------------------------------------------------------------
(* Steps of the controller                                                  *)

(* What the next task, or none, does to TaskInfo and to the waiting threads.*)
LEMMA SetCurrentFacts ==
  ASSUME PrefetchInv, NEW k \in Keys, SetCurrent(k), WakeUp
  PROVE  /\ info' \in TaskInfo /\ info'.key = k
         /\ info'.waits # Nobody => info'.waits \in info.pending /\ Key(info'.waits) = k
         /\ info'.pending \subseteq info.pending
         /\ \A u \in info.pending :
                 u \in info'.pending \/ (Key(u) = k /\ (k # Nobody => \E p \in info.pending :
                                                         Key(p) = k /\ info'.waits = p))
         /\ thread' \in [Threads -> ThreadState]
         /\ \A u \in Threads :
                 \/ thread'[u].pc = thread[u].pc
                 \/ /\ thread[u].pc = "waiting" /\ thread'[u].pc = "woken"
                    /\ u = info.waits \/ u \in info.pending
                    /\ u # info'.waits /\ u \notin info'.pending
<1> DEFINE w == {p \in info.pending : Key(p) = k /\ k # Nobody}
<1>0. info \in TaskInfo /\ thread \in [Threads -> ThreadState]
  BY DEF PrefetchInv, PrefetchTypes
<1>1. /\ info'.key = k
      /\ info'.waits = IF w = {} THEN Nobody ELSE CHOOSE p \in w : TRUE
      /\ info'.pending = {p \in info.pending : Key(p) # k}
      /\ info' = [key |-> info'.key, waits |-> info'.waits, pending |-> info'.pending]
  BY DEF SetCurrent
<1>2. (info'.waits = Nobody /\ w = {}) \/ info'.waits \in w
  BY <1>1
<1>3. info' \in TaskInfo
  <2>1. info'.waits \in Owners /\ info'.pending \in SUBSET Threads
    BY <1>0, <1>1, <1>2 DEF TaskInfo, Owners
  <2>2. QED BY <1>1, <2>1, Zenon DEF TaskInfo
<1>4. thread' = [t \in Threads |-> IF t \in Woken THEN [thread[t] EXCEPT !.pc = "woken"]
                                   ELSE thread[t]]
  BY DEF WakeUp
<1>5. thread' \in [Threads -> ThreadState]
  BY <1>0, <1>4 DEF ThreadState
<1>6. \A u \in Threads : u \notin Woken => thread'[u].pc = thread[u].pc
  BY <1>4
<1>7. \A u \in Threads : u \in Woken => thread'[u].pc = "woken"
  BY <1>0, <1>4 DEF ThreadState
<1>8. QED BY <1>1, <1>2, <1>3, <1>5, <1>6, <1>7 DEF Woken

(* recv_impl on an empty queue ends the previous task.                      *)
LEMMA RecvBlockInv ==
  ASSUME PrefetchInv, RecvBlock
  PROVE  PrefetchInv'
<1> USE DEF PrefetchInv
<1>0. /\ inst \in Instances /\ inst' = inst /\ UNCHANGED <<queue, signals, sender, worker>>
      /\ controller.pc = "recv" /\ queue = << >>
      /\ controller' = [controller EXCEPT !.pc = "blocked"] /\ controller \in ControllerState
      /\ SetCurrent(Nobody) /\ WakeUp
  BY DEF RecvBlock, PrefetchTypes
<1>1. Nobody \in Keys
  BY <1>0, ThreadFacts DEF Keys, Owners
<1>2. /\ info' \in TaskInfo /\ info'.key = Nobody
      /\ info'.waits = Nobody /\ info'.pending = info.pending
      /\ thread' \in [Threads -> ThreadState]
      /\ \A u \in Threads : \/ thread'[u].pc = thread[u].pc
                             \/ /\ thread[u].pc = "waiting" /\ thread'[u].pc = "woken"
                                /\ u \notin info'.pending
  <2>1. info.pending \subseteq Threads
    BY DEF PrefetchTypes, TaskInfo
  <2>2. \A u \in info.pending : Key(u) # Nobody
    BY <1>0, <2>1, ThreadFacts
  <2>3. /\ info' \in TaskInfo /\ info'.key = Nobody
        /\ info'.waits # Nobody => info'.waits \in info.pending /\ Key(info'.waits) = Nobody
        /\ info'.pending \subseteq info.pending
        /\ \A u \in info.pending : u \in info'.pending \/ Key(u) = Nobody
        /\ thread' \in [Threads -> ThreadState]
        /\ \A u \in Threads : \/ thread'[u].pc = thread[u].pc
                               \/ /\ thread[u].pc = "waiting" /\ thread'[u].pc = "woken"
                                  /\ u \notin info'.pending
    BY <1>0, <1>1, SetCurrentFacts
  <2>4. QED BY <2>2, <2>3, Zenon
<1>3. /\ controller' \in ControllerState /\ controller'.pc = "blocked"
      /\ controller'.task = controller.task
  BY <1>0 DEF ControllerState
<1>4. PrefetchTypes'
  BY <1>0, <1>2, <1>3, SameInstance DEF PrefetchTypes
<1>5. ChannelInv'
  BY <1>0, <1>2, ThreadFacts, SameInstance DEF ChannelInv
<1>6. ControllerInv'
  BY <1>0, <1>3, SameInstance DEF ControllerInv
<1>7. ASSUME NEW u \in Threads, OwnKey(u) PROVE OwnerInv(u)'
  <2>1. OwnerInv(u) /\ Key(u) # Nobody /\ u # Nobody
    BY <1>0, <1>7, ThreadFacts
  <2>2. /\ controller'.task # u /\ \A w \in Workers : worker[w].owner # u
    BY <1>0, <1>3, <2>1 DEF ControllerInv
  <2>3. QED
    BY <1>0, <1>2, <2>1, <2>2, SameInstance DEF OwnerInv, JoinedBy, Prefetching
<1>8. QED BY <1>0, <1>4, <1>5, <1>6, <1>7, SameInstance

(* What taking the head off the queue leaves.                               *)
LEMMA TailFacts ==
  ASSUME NEW S, NEW q \in Seq(S), q # << >>
  PROVE  /\ Head(q) \in S /\ Head(q) = q[1] /\ 1 \in DOMAIN q
         /\ Tail(q) \in Seq(S) /\ Len(Tail(q)) = Len(q) - 1
         /\ \A i \in DOMAIN Tail(q) : i + 1 \in DOMAIN q /\ Tail(q)[i] = q[i + 1]
OBVIOUS

(* A received task becomes the current one; the wait for it goes with it,   *)
(* and the waits for the previous task end.                                 *)
LEMMA RecvInv ==
  ASSUME PrefetchInv, Recv
  PROVE  PrefetchInv'
<1> USE DEF PrefetchInv
<1>0. /\ inst \in Instances /\ inst' = inst /\ UNCHANGED <<sender, worker>>
      /\ controller.pc \in {"recv", "blocked"} /\ controller \in ControllerState
      /\ signals \in Nat /\ signals > 0 /\ signals' = signals - 1
      /\ queue \in Seq(Owners) /\ queue' = Tail(queue)
      /\ signals <= Len(queue)
  BY DEF Recv, PrefetchTypes, ChannelInv
<1>1. /\ queue # << >> /\ Len(queue) \in Nat
      /\ Head(queue) \in Owners /\ Head(queue) = queue[1] /\ 1 \in DOMAIN queue
      /\ queue' \in Seq(Owners) /\ Len(queue') = Len(queue) - 1
      /\ \A i \in DOMAIN queue' : i + 1 \in DOMAIN queue /\ queue'[i] = queue[i + 1]
  <2>1. queue # << >> /\ Len(queue) \in Nat
    BY <1>0
  <2>2. QED BY <1>0, <2>1, TailFacts
<1>2. controller.task = Nobody /\ \A w \in Workers : worker[w].owner = Nobody
  BY <1>0 DEF ControllerInv
<1>3. DOMAIN queue' \subseteq Nat
  BY <1>1
<1>4. \A i, j \in DOMAIN queue' : i + 1 = j + 1 => i = j
  BY <1>3
<1>5. \A i \in DOMAIN queue' : i + 1 # 1
  BY <1>1
<1>6. CASE /\ Head(queue) = Nobody /\ UNCHANGED <<info, thread>>
           /\ controller' = [controller EXCEPT !.pc = "recv"]
  <2>1. /\ controller' \in ControllerState /\ controller'.pc = "recv"
        /\ controller'.task = controller.task
    BY <1>0, <1>6 DEF ControllerState
  <2>2. PrefetchTypes'
    BY <1>0, <1>1, <1>6, <2>1, SameInstance DEF PrefetchTypes
  <2>3. ChannelInv'
    BY <1>0, <1>1, <1>6, SameInstance DEF ChannelInv
  <2>4. ControllerInv'
    BY <1>0, <1>2, <2>1, SameInstance DEF ControllerInv
  <2>5. ASSUME NEW u \in Threads, OwnKey(u) PROVE OwnerInv(u)'
    <3>1. OwnerInv(u)
      BY <2>5
    <3>2. QED
      BY <1>0, <1>1, <1>4, <1>6, <2>1, <3>1, SameInstance DEF OwnerInv, JoinedBy, Prefetching
  <2>6. QED BY <1>0, <2>2, <2>3, <2>4, <2>5, SameInstance
<1>7. CASE /\ Head(queue) # Nobody /\ SetCurrent(Key(Head(queue))) /\ WakeUp
           /\ controller' = [controller EXCEPT !.pc = "dispatch", !.task = Head(queue)]
  <2> DEFINE h == Head(queue)
  <2>0. h \in Threads /\ Key(h) \in Keys /\ Key(h) # Nobody
    BY <1>0, <1>1, <1>7, ThreadFacts DEF Owners, Keys
  <2>1. /\ controller' \in ControllerState /\ controller'.pc = "dispatch"
        /\ controller'.task = h
    BY <1>0, <1>1, <1>7, Zenon DEF ControllerState
  <2> HIDE DEF h
  <2>2. /\ info' \in TaskInfo /\ info'.key = Key(h)
        /\ info'.waits # Nobody => info'.waits \in info.pending /\ Key(info'.waits) = Key(h)
        /\ info'.pending \subseteq info.pending
        /\ \A u \in info.pending :
              u \in info'.pending \/ (Key(u) = Key(h) /\ \E p \in info.pending :
                                                 Key(p) = Key(h) /\ info'.waits = p)
        /\ thread' \in [Threads -> ThreadState]
        /\ \A u \in Threads :
                \/ thread'[u].pc = thread[u].pc
                \/ /\ thread[u].pc = "waiting" /\ thread'[u].pc = "woken"
                   /\ u = info.waits \/ u \in info.pending
                   /\ u # info'.waits /\ u \notin info'.pending
    BY <1>7, <2>0, SetCurrentFacts DEF h
  <2>3. PrefetchTypes'
    BY <1>0, <1>1, <2>1, <2>2, SameInstance DEF PrefetchTypes
  <2>4. ChannelInv'
    <3>1. \A u \in Threads : u = info'.waits \/ u \in info'.pending => u \in info.pending
      BY <1>0, <2>2, ThreadFacts
    <3>2. \A u \in Threads : u = info'.waits \/ u \in info'.pending => thread'[u].pc = "waiting"
      BY <2>2, <3>1 DEF ChannelInv
    <3>3. QED BY <1>0, <1>1, <2>2, <3>2, SameInstance DEF ChannelInv
  <2>5. ControllerInv'
    BY <1>0, <1>2, <2>0, <2>1, ThreadFacts, SameInstance DEF ControllerInv
  <2>6. ASSUME NEW u \in Threads, OwnKey(u) PROVE OwnerInv(u)'
    <3>1. OwnerInv(u) /\ u # Nobody
      BY <1>0, <2>6, ThreadFacts
    <3>2. Key(h) = Key(u) => h = u
      BY <2>0, <2>6 DEF OwnKey
    <3>3. h = u => \A i \in DOMAIN queue' : queue'[i] # u
      BY <1>1, <1>5, <3>1 DEF OwnerInv, h
    <3>4. \A i, j \in DOMAIN queue' : queue'[i] = u /\ queue'[j] = u => i = j
      BY <1>1, <1>4, <3>1 DEF OwnerInv
    <3>5. info'.waits = u => info'.key = Key(u)
      BY <2>2, <3>1
    <3>6. Prefetching(u) \/ h # u
      BY <1>1, <3>1 DEF OwnerInv, JoinedBy, h
    <3>7. ASSUME ~Prefetching(u)'
          PROVE  h # u /\ \A i \in DOMAIN queue' : queue'[i] # u
      <4>1. CASE thread'[u].pc = thread[u].pc
        BY <1>1, <3>1, <3>6, <3>7, <4>1 DEF OwnerInv, JoinedBy, Prefetching
      <4>2. CASE /\ u = info.waits \/ u \in info.pending
                 /\ u # info'.waits /\ u \notin info'.pending
        <5>1. u \notin info.pending
          <6> SUFFICES ASSUME u \in info.pending PROVE FALSE
            OBVIOUS
          <6>1. Key(u) = Key(h) /\ \E p \in info.pending : Key(p) = Key(h) /\ info'.waits = p
            BY <2>2, <4>2
          <6>2. \A p \in info.pending : p \in Threads
            BY DEF PrefetchTypes, TaskInfo
          <6>3. QED BY <2>6, <4>2, <6>1, <6>2 DEF OwnKey
        <5>2. info.key = Key(u)
          BY <3>1, <4>2, <5>1 DEF OwnerInv
        <5>3. \A i \in DOMAIN queue : queue[i] # u
          BY <3>1, <5>2 DEF OwnerInv
        <5>4. QED BY <1>1, <5>3 DEF h
      <4>3. QED BY <2>2, <4>1, <4>2
    <3>8. JoinedBy(u)'
      BY <1>0, <1>2, <2>1, <3>1, <3>7, SameInstance DEF JoinedBy
    <3>9. thread'[u].pc \in {"idle", "tell", "run"} => info'.key # Key(u)
      BY <2>2, <3>2, <3>7 DEF Prefetching
    <3>10. QED
      BY <1>0, <2>1, <2>2, <3>2, <3>3, <3>4, <3>5, <3>8, <3>9, SameInstance DEF OwnerInv
  <2>7. QED BY <1>0, <2>3, <2>4, <2>5, <2>6, SameInstance
<1>8. QED BY <1>6, <1>7 DEF Recv

(* Truncated division.                                                      *)
LEMMA Quotient ==
  ASSUME NEW d \in Nat, NEW n \in Nat \ {0}
  PROVE  d \div n \in Nat /\ n * (d \div n) <= d /\ d < n * (d \div n) + n
OBVIOUS

(* The bounds of a worker's part lie within the accounts.                   *)
LEMMA SliceBounds ==
  ASSUME NEW n \in Nat, NEW ws \in Nat \ {0}, NEW w \in 1..ws
  PROVE  (n * (w - 1)) \div ws \in Nat /\ (n * w) \div ws \in 0..n
<1>1. n * (w - 1) \in Nat /\ n * w \in Nat /\ n * w <= n * ws
  OBVIOUS
<1>2. (n * (w - 1)) \div ws \in Nat
  BY <1>1, Quotient
<1> DEFINE q == (n * w) \div ws
<1>3. q \in Nat /\ ws * q <= n * w
  BY <1>1, Quotient
<1> HIDE DEF q
<1>4. q <= n
  <2> SUFFICES ASSUME n + 1 <= q PROVE FALSE
    BY <1>3
  <2>1. ws * (n + 1) <= ws * q
    BY <1>3
  <2>2. ws * (n + 1) = n * ws + ws
    OBVIOUS
  <2>3. QED BY <1>1, <1>3, <2>1, <2>2
<1>5. QED BY <1>2, <1>3, <1>4 DEF q

(* A worker's part of a task is a sequence of accounts.                     *)
LEMMA SliceType ==
  ASSUME inst \in Instances, NEW t \in Threads, NEW w \in Workers
  PROVE  Slice(inst.accounts[t], w) \in Seq(Addr)
<1> DEFINE s == inst.accounts[t]
           m == (Len(s) * (w - 1)) \div inst.workers + 1
           n == (Len(s) * w) \div inst.workers
<1>1. s \in Seq(Addr) /\ inst.workers \in Nat \ {0} /\ w \in 1..inst.workers
  BY ThreadFacts DEF Workers
<1>2. Len(s) \in Nat /\ \A i \in 1..Len(s) : s[i] \in Addr
  BY <1>1
<1> HIDE DEF s
<1>3. m \in Nat \ {0} /\ n \in 0..Len(s)
  <2>1. /\ (Len(s) * (w - 1)) \div inst.workers \in Nat
        /\ (Len(s) * w) \div inst.workers \in 0..Len(s)
    BY <1>1, <1>2, SliceBounds, Zenon
  <2>2. QED BY <2>1
<1> HIDE DEF m, n
<1>4. m \in Int /\ n \in Int /\ \A i \in m..n : s[i] \in Addr
  BY <1>2, <1>3
<1>5. SubSeq(s, m, n) \in Seq(Addr)
  BY <1>4, SubSeqProperties
<1>6. QED BY <1>5 DEF Slice, s, m, n

(* A task goes to all workers.                                              *)
LEMMA DispatchInv ==
  ASSUME PrefetchInv, Dispatch
  PROVE  PrefetchInv'
<1> USE DEF PrefetchInv
<1> PICK t : t = controller.task
  OBVIOUS
<1>0. /\ inst \in Instances /\ inst' = inst
      /\ UNCHANGED <<queue, signals, sender, info, thread>>
      /\ controller.pc = "dispatch" /\ controller \in ControllerState
  BY Zenon DEF Dispatch, PrefetchTypes, chanVars
<1>1. t \in Threads /\ t \in Owners /\ controller.id + 1 \in Nat
  <2>1. controller.task # Nobody
    BY <1>0 DEF ControllerInv
  <2>2. controller.id \in Nat
    BY <1>0 DEF ControllerState
  <2>3. QED BY <1>0, <2>1, <2>2 DEF ControllerState, Owners
<1>2. /\ controller' \in ControllerState /\ controller'.pc = "collect"
      /\ controller'.task = controller.task
  <2>1. controller' = [controller EXCEPT !.pc = "collect", !.id = controller.id + 1]
    BY Zenon DEF Dispatch
  <2>2. QED BY <1>0, <1>1, <2>1, Zenon DEF ControllerState
<1>3. ASSUME NEW w \in Workers
      PROVE  worker'[w] \in WorkerState /\ worker'[w].pc = "start" /\ worker'[w].owner = t
  <2>1. Slice(inst.accounts[t], w) \in Seq(Addr)
    BY <1>0, <1>1, SliceType
  <2>2. worker[w] \in WorkerState
    BY DEF PrefetchTypes
  <2>3. worker'[w] = [worker[w] EXCEPT !.pc = "start", !.owner = t, !.id = controller.id + 1,
                                       !.left = Slice(inst.accounts[t], w)]
    BY Zenon DEF Dispatch
  <2>4. QED BY <1>1, <2>1, <2>2, <2>3, Zenon DEF WorkerState
<1>4. worker' \in [Workers -> WorkerState]
  <2>1. /\ DOMAIN worker' = Workers
        /\ worker' = [w \in Workers |-> worker'[w]]
    BY Zenon DEF Dispatch
  <2>2. QED BY <1>3, <2>1
<1>5. PrefetchTypes'
  BY <1>0, <1>2, <1>4, SameInstance DEF PrefetchTypes
<1>6. ChannelInv'
  BY <1>0, SameInstance DEF ChannelInv
<1>7. ControllerInv'
  BY <1>0, <1>1, <1>2, <1>3, ThreadFacts, SameInstance DEF ControllerInv
<1>8. ASSUME NEW u \in Threads, OwnKey(u) PROVE OwnerInv(u)'
  BY <1>0, <1>2, <1>3, <1>8, SameInstance DEF OwnerInv, JoinedBy, Prefetching
<1>9. QED BY <1>0, <1>5, <1>6, <1>7, <1>8, SameInstance

(* When all workers have finished nothing of the task is left.              *)
LEMMA CollectInv ==
  ASSUME PrefetchInv, Collect
  PROVE  PrefetchInv'
<1> USE DEF PrefetchInv
<1>0. /\ inst \in Instances /\ inst' = inst
      /\ UNCHANGED <<queue, signals, sender, info, worker, thread>>
      /\ controller \in ControllerState
      /\ controller' = [controller EXCEPT !.pc = "recv", !.task = Nobody]
      /\ \A w \in Workers : worker[w].pc = "idle"
  BY DEF Collect, PrefetchTypes, chanVars
<1>1. controller' \in ControllerState /\ controller'.pc = "recv" /\ controller'.task = Nobody
  BY <1>0, Zenon DEF ControllerState, Owners
<1>2. PrefetchTypes'
  BY <1>0, <1>1, SameInstance DEF PrefetchTypes
<1>3. ChannelInv'
  BY <1>0, SameInstance DEF ChannelInv
<1>4. ControllerInv'
  BY <1>0, <1>1, SameInstance DEF ControllerInv
<1>5. ASSUME NEW u \in Threads, OwnKey(u) PROVE OwnerInv(u)'
  BY <1>0, <1>1, <1>5, ThreadFacts, SameInstance DEF OwnerInv, JoinedBy, Prefetching
<1>6. QED BY <1>0, <1>2, <1>3, <1>4, <1>5, SameInstance

-----------------------------------------------------------------------------
(* Steps that leave the channel and the controller alone                    *)

(* Such a step keeps the invariant when the workers at most finish, and the *)
(* threads only move outside of prefetching.                                *)
LEMMA QuietInv ==
  ASSUME PrefetchInv, inst' = inst, UNCHANGED <<queue, signals, sender, info, controller>>,
         thread' \in [Threads -> ThreadState],
         \A u \in Threads : \/ thread'[u].pc = thread[u].pc
                            \/ /\ thread[u].pc \in {"idle", "tell", "run"}
                               /\ thread'[u].pc \in {"idle", "tell", "run"},
         worker' \in [Workers -> WorkerState],
         \A w \in Workers :
            /\ worker'[w].owner \in {worker[w].owner, Nobody}
            /\ worker'[w].pc = "idle" => worker'[w].owner = Nobody
            /\ worker'[w].pc = "insert" => worker'[w].owner = Executor /\ worker'[w].left # << >>
  PROVE  PrefetchInv'
<1> USE DEF PrefetchInv
<1>0. inst \in Instances
  BY DEF PrefetchTypes
<1>1. PrefetchTypes'
  BY SameInstance DEF PrefetchTypes
<1>2. ChannelInv'
  <2>1. \A u \in Threads : thread'[u].pc = thread[u].pc
                            \/ /\ thread'[u].pc \notin {"pushed", "waiting", "woken"}
                               /\ thread[u].pc # "waiting"
    OBVIOUS
  <2>2. QED BY <2>1, SameInstance DEF ChannelInv
<1>3. ControllerInv'
  BY SameInstance DEF ControllerInv
<1>4. ASSUME NEW u \in Threads, OwnKey(u) PROVE OwnerInv(u)'
  <2>1. OwnerInv(u) /\ u # Nobody
    BY <1>0, <1>4, ThreadFacts
  <2>2. ~Prefetching(u)' => ~Prefetching(u)
    BY SameInstance DEF Prefetching
  <2>3. \A w \in Workers : worker[w].owner # u => worker'[w].owner # u
    BY <2>1
  <2>4. JoinedBy(u)'
    BY <2>1, <2>2, <2>3, SameInstance DEF OwnerInv, JoinedBy
  <2>5. thread'[u].pc \in {"idle", "tell", "run"} => info.key # Key(u)
    BY <2>1 DEF OwnerInv
  <2>6. QED BY <2>1, <2>4, <2>5, SameInstance DEF OwnerInv
<1>5. QED BY <1>1, <1>2, <1>3, <1>4, SameInstance

(* What a worker's own step changes.                                        *)
LEMMA WorkerMoves ==
  ASSUME PrefetchInv, inst' = inst, UNCHANGED <<chanVars, controller, thread>>,
         NEW w \in Workers, NEW e \in WorkerState, worker' = [worker EXCEPT ![w] = e],
         e.owner \in {worker[w].owner, Nobody},
         e.pc = "idle" => e.owner = Nobody,
         e.pc = "insert" => e.owner = Executor /\ e.left # << >>
  PROVE  PrefetchInv'
<1>1. worker \in [Workers -> WorkerState] /\ thread \in [Threads -> ThreadState]
  BY DEF PrefetchInv, PrefetchTypes
<1>2. worker' \in [Workers -> WorkerState]
  BY <1>1
<1>3. \A v \in Workers : worker'[v] = IF v = w THEN e ELSE worker[v]
  BY <1>1
<1>4. \A v \in Workers :
        /\ worker'[v].owner \in {worker[v].owner, Nobody}
        /\ worker'[v].pc = "idle" => worker'[v].owner = Nobody
        /\ worker'[v].pc = "insert" => worker'[v].owner = Executor /\ worker'[v].left # << >>
  BY <1>3 DEF PrefetchInv, ControllerInv
<1>5. UNCHANGED <<queue, signals, sender, info, controller>> /\ thread' = thread
  BY DEF chanVars
<1>6. QED BY <1>1, <1>2, <1>4, <1>5, QuietInv

(* The steps of a worker.                                                   *)
LEMMA WorkerInv ==
  ASSUME PrefetchInv, NEW w \in Workers, WorkerStep(w)
  PROVE  PrefetchInv'
<1>0. /\ worker \in [Workers -> WorkerState] /\ worker[w] \in WorkerState
      /\ inst \in Instances /\ Nobody \in Owners
      /\ worker[w].pc = "insert" => worker[w].owner = Executor /\ worker[w].left # << >>
  BY DEF PrefetchInv, PrefetchTypes, ControllerInv, Owners
<1>1. CASE Start(w)
  <2>1. [key |-> Key(worker[w].owner), id |-> worker[w].id] \in [key : Keys, id : Nat]
    BY <1>0 DEF WorkerState, Keys
  <2> DEFINE f == [worker[w] EXCEPT !.pc = "reset",
                     !.current = [key |-> Key(worker[w].owner), id |-> worker[w].id]]
  <2>2. f \in WorkerState /\ f.owner = worker[w].owner /\ f.pc = "reset"
    BY <1>0, <2>1, Zenon DEF WorkerState
  <2>3. worker' = [worker EXCEPT ![w] = f]
    BY <1>0, <1>1, Zenon DEF Start
  <2> HIDE DEF f
  <2>4. QED BY <1>1, <2>2, <2>3, WorkerMoves, Zenon DEF Start
<1>2. CASE Reset(w)
  <2> DEFINE f == [worker[w] EXCEPT !.pc = "next", !.cancel = 0]
  <2>2. f \in WorkerState /\ f.owner = worker[w].owner /\ f.pc = "next"
    BY <1>0, Zenon DEF WorkerState
  <2>3. worker' = [worker EXCEPT ![w] = f]
    BY <1>0, <1>2, Zenon DEF Reset
  <2> HIDE DEF f
  <2>4. QED BY <1>2, <2>2, <2>3, WorkerMoves, Zenon DEF Reset
<1>3. CASE Finish(w)
  <2> DEFINE f == [worker[w] EXCEPT !.pc = "idle", !.owner = Nobody, !.left = << >>]
  <2>1. << >> \in Seq(Addr)
    OBVIOUS
  <2>2. f \in WorkerState /\ f.owner = Nobody /\ f.pc = "idle"
    BY <1>0, <2>1, Zenon DEF WorkerState
  <2>3. worker' = [worker EXCEPT ![w] = f]
    BY <1>0, <1>3, Zenon DEF Finish
  <2> HIDE DEF f
  <2>4. QED BY <1>3, <2>2, <2>3, WorkerMoves, Zenon DEF Finish
<1>4. CASE Look(w)
  <2>1. worker[w].left # << >> /\ Tail(worker[w].left) \in Seq(Addr)
    BY <1>0, <1>4 DEF Look, WorkerState
  <2> DEFINE f == [worker[w] EXCEPT !.pc = "insert", !.cancel = 0]
             g == [worker[w] EXCEPT !.left = Tail(@), !.cancel = 0]
  <2>2. f \in WorkerState /\ f.owner = worker[w].owner /\ f.pc = "insert" /\ f.left # << >>
    BY <1>0, <2>1, Zenon DEF WorkerState
  <2>3. g \in WorkerState /\ g.owner = worker[w].owner /\ g.pc = "next"
    BY <1>0, <1>4, <2>1, Zenon DEF WorkerState, Look
  <2>4. \/ worker[w].owner = Executor /\ worker' = [worker EXCEPT ![w] = f]
        \/ worker' = [worker EXCEPT ![w] = g]
    BY <1>0, <1>4, Zenon DEF Look
  <2> HIDE DEF f, g
  <2>5. QED BY <1>4, <2>2, <2>3, <2>4, WorkerMoves, Zenon DEF Look
<1>5. CASE Insert(w)
  <2>1. worker[w].left # << >> /\ Tail(worker[w].left) \in Seq(Addr)
    BY <1>0, <1>5 DEF Insert, WorkerState
  <2> DEFINE f == [worker[w] EXCEPT !.pc = "next", !.left = Tail(@)]
  <2>2. f \in WorkerState /\ f.owner = worker[w].owner /\ f.pc = "next"
    BY <1>0, <2>1, Zenon DEF WorkerState
  <2>3. worker' = [worker EXCEPT ![w] = f]
    BY <1>0, <1>5, Zenon DEF Insert
  <2> HIDE DEF f
  <2>4. QED BY <1>5, <2>2, <2>3, WorkerMoves, Zenon DEF Insert
<1>6. QED BY <1>1, <1>2, <1>3, <1>4, <1>5 DEF WorkerStep

(* The steps of a thread outside of prefetching.                            *)
LEMMA ThreadQuietInv ==
  ASSUME PrefetchInv, NEW t \in Threads,
         Complete(t) \/ \E w \in Workers : Tell(t, w)
  PROVE  PrefetchInv'
<1>0. /\ worker \in [Workers -> WorkerState] /\ thread \in [Threads -> ThreadState]
      /\ \A w \in Workers :
            /\ worker[w].pc = "idle" => worker[w].owner = Nobody
            /\ worker[w].pc = "insert" => worker[w].owner = Executor /\ worker[w].left # << >>
  BY DEF PrefetchInv, PrefetchTypes, ControllerInv
<1>1. CASE Complete(t)
  <2>1. /\ inst' = inst /\ UNCHANGED <<queue, signals, sender, info, controller, worker>>
        /\ thread[t].pc = "run"
        /\ thread' = [thread EXCEPT ![t].pc = "idle", ![t].epochs = @ - 1]
    BY <1>1 DEF Complete, chanVars
  <2>2. thread[t] \in ThreadState /\ thread[t].epochs - 1 \in Int
    BY <1>0 DEF ThreadState
  <2> DEFINE f == [thread[t] EXCEPT !.pc = "idle", !.epochs = thread[t].epochs - 1]
  <2>3. f \in ThreadState /\ f.pc = "idle"
    BY <2>2, Zenon DEF ThreadState
  <2>4. thread' = [thread EXCEPT ![t] = f]
    BY <1>0, <2>1, Zenon
  <2> HIDE DEF f
  <2>5. /\ thread' \in [Threads -> ThreadState]
        /\ \A u \in Threads : thread'[u].pc = IF u = t THEN "idle" ELSE thread[u].pc
    BY <1>0, <2>3, <2>4
  <2>6. QED BY <1>0, <2>1, <2>5, QuietInv
<1>2. ASSUME NEW w \in Workers, Tell(t, w) PROVE PrefetchInv'
  <2>1. /\ inst' = inst /\ UNCHANGED <<queue, signals, sender, info, controller>>
        /\ thread[t].pc = "tell"
        /\ worker' = IF worker[w].current.key = Key(t)
                     THEN [worker EXCEPT ![w].cancel = worker[w].current.id] ELSE worker
    BY <1>2 DEF Tell, chanVars
  <2> DEFINE f == [thread[t] EXCEPT !.tell = @ \ {w},
                                    !.pc = IF thread[t].tell = {w} THEN "run" ELSE "tell"]
  <2>2. f \in ThreadState /\ f.pc \in {"run", "tell"}
    BY <1>0, Zenon DEF ThreadState
  <2>3. thread' = [thread EXCEPT ![t] = f]
    BY <1>0, <1>2, Zenon DEF Tell
  <2> HIDE DEF f
  <2>4. /\ thread' \in [Threads -> ThreadState]
        /\ \A u \in Threads : thread'[u].pc = IF u = t THEN f.pc ELSE thread[u].pc
    BY <1>0, <2>2, <2>3
  <2>5. \A v \in Workers : /\ worker'[v] \in WorkerState
                           /\ worker'[v].owner = worker[v].owner
                           /\ worker'[v].pc = worker[v].pc
                           /\ worker'[v].left = worker[v].left
    BY <1>0, <2>1, Zenon DEF WorkerState
  <2>6. worker' \in [Workers -> WorkerState]
    BY <1>0, <2>1, <2>5
  <2>7. \A u \in Threads : \/ thread'[u].pc = thread[u].pc
                           \/ /\ thread[u].pc \in {"idle", "tell", "run"}
                              /\ thread'[u].pc \in {"idle", "tell", "run"}
    BY <2>1, <2>2, <2>4
  <2>8. QED BY <1>0, <2>1, <2>4, <2>5, <2>6, <2>7, QuietInv
<1>3. QED BY <1>1, <1>2

-----------------------------------------------------------------------------
(* The initial states satisfy the invariant.                                *)
LEMMA PrefetchInit ==
  ASSUME Init
  PROVE  PrefetchInv
<1>0. /\ inst \in Instances /\ queue = << >> /\ signals = 0 /\ sender = Nobody
      /\ info = [key |-> Nobody, waits |-> Nobody, pending |-> {}]
      /\ controller = [pc |-> "recv", task |-> Nobody, id |-> 0]
      /\ worker = [w \in Workers |->
                     [pc |-> "idle", owner |-> Nobody, id |-> 0, left |-> << >>,
                      current |-> [key |-> Nobody, id |-> 0], cancel |-> 0]]
      /\ thread = [t \in Threads |-> [pc |-> "idle", epochs |-> inst.epochs[t], tell |-> {}]]
  BY DEF Init
<1>1. Nobody \in Owners /\ Nobody \in Keys /\ << >> \in Seq(Addr) /\ << >> \in Seq(Owners)
  BY <1>0, ThreadFacts DEF Owners, Keys
<1>2. \A t \in Threads : inst.epochs[t] \in Int
  BY <1>0, PrefetchAssumption DEF Threads
<1>3. thread \in [Threads -> ThreadState]
  BY <1>0, <1>2 DEF ThreadState
<1>4. worker \in [Workers -> WorkerState]
  BY <1>0, <1>1 DEF WorkerState
<1>5. info \in TaskInfo /\ controller \in ControllerState
  BY <1>0, <1>1 DEF TaskInfo, ControllerState
<1>6. PrefetchTypes
  BY <1>0, <1>1, <1>3, <1>4, <1>5 DEF PrefetchTypes
<1>7. ChannelInv
  BY <1>0, ThreadFacts DEF ChannelInv
<1>8. ControllerInv
  BY <1>0 DEF ControllerInv
<1>9. ASSUME NEW u \in Threads PROVE OwnerInv(u)
  BY <1>0, ThreadFacts DEF OwnerInv, JoinedBy, Prefetching
<1>10. QED BY <1>6, <1>7, <1>8, <1>9 DEF PrefetchInv

(* Every step keeps the invariant.                                          *)
LEMMA PrefetchStepInv ==
  ASSUME PrefetchInv, [Next]_vars
  PROVE  PrefetchInv'
<1>1. ASSUME NEW t \in Threads, ThreadStep(t) PROVE PrefetchInv'
  BY <1>1, PushInv, SendInv, WaitInv, WaitOverInv, CancelInv, ThreadQuietInv DEF ThreadStep
<1>2. CASE ControllerStep
  BY <1>2, RecvBlockInv, RecvInv, DispatchInv, CollectInv DEF ControllerStep
<1>3. ASSUME NEW w \in Workers, WorkerStep(w) PROVE PrefetchInv'
  BY <1>3, WorkerInv
<1>4. CASE Operate \/ UNCHANGED vars
  <2>1. inst' = inst /\ UNCHANGED <<queue, signals, sender, info, controller, worker, thread>>
    BY <1>4 DEF Operate, vars, chanVars
  <2>2. /\ worker \in [Workers -> WorkerState] /\ thread \in [Threads -> ThreadState]
        /\ \A w \in Workers :
            /\ worker[w].pc = "idle" => worker[w].owner = Nobody
            /\ worker[w].pc = "insert" => worker[w].owner = Executor /\ worker[w].left # << >>
    BY DEF PrefetchInv, PrefetchTypes, ControllerInv
  <2>3. QED BY <2>1, <2>2, QuietInv
<1>5. QED BY <1>1, <1>2, <1>3, <1>4 DEF Next

(* At most one wait is pending: TaskInfo::set_current_task removes from the *)
(* list it walks over, which is sound only then.                            *)
THEOREM OnePendingTheorem == Spec => []OnePending
<1>1. PrefetchInv => OnePending
  BY DEF PrefetchInv, PrefetchTypes, TaskInfo, ChannelInv, OnePending
<1>2. QED BY <1>1, PrefetchInit, PrefetchStepInv, PTL DEF Spec

(* A thread whose epoch no other thread works on has joined its task when   *)
(* wait_for_task returns: the reference with the transmuted lifetime is not *)
(* used from then on.  For the executor, this is PrefetchJoined.            *)
THEOREM JoinedTheorem ==
  Spec => []( /\ \A t \in Threads : OwnKey(t) => JoinedBy(t)
              /\ OwnKey(Executor) => PrefetchJoined )
<1>1. PrefetchInv => /\ \A t \in Threads : OwnKey(t) => JoinedBy(t)
                     /\ OwnKey(Executor) => PrefetchJoined
  BY ThreadFacts DEF PrefetchInv, PrefetchTypes, OwnerInv, PrefetchJoined
<1>2. QED BY <1>1, PrefetchInit, PrefetchStepInv, PTL DEF Spec

-----------------------------------------------------------------------------
(* The State under the prefetcher                                           *)

(* The inductive invariant of the composition.                              *)
ExecutorInv == PrefetchInv /\ OwnKey(Executor) /\ StateInv /\ ExecutesJoined

(* Only Complete ends an execution.                                         *)
LEMMA RunEnds ==
  ASSUME PrefetchInv, [Next]_vars, thread[Executor].pc = "run", ~Complete(Executor)
  PROVE  thread'[Executor].pc = "run"
<1>0. /\ inst \in Instances /\ thread \in [Threads -> ThreadState] /\ Executor \in Threads
  BY ThreadFacts DEF PrefetchInv, PrefetchTypes
<1>1. ASSUME NEW t \in Threads, ThreadStep(t) PROVE thread'[Executor].pc = "run"
  BY <1>0, <1>1, Zenon
  DEF ThreadStep, Push, Send, Wait, WaitOver, Cancel, Complete, Tell, ThreadState
<1>2. CASE ControllerStep
  BY <1>0, <1>2, Zenon DEF ControllerStep, RecvBlock, Recv, Dispatch, Collect, WakeUp, Woken
<1>3. ASSUME NEW w \in Workers, WorkerStep(w) PROVE thread'[Executor].pc = "run"
  BY <1>3 DEF WorkerStep, Start, Reset, Finish, Look, Insert
<1>4. CASE Operate \/ UNCHANGED vars
  BY <1>4 DEF Operate, vars
<1>5. QED BY <1>1, <1>2, <1>3, <1>4 DEF Next

(* The State is changed by the insertions of the workers, the executor's    *)
(* operations and its commit only.                                          *)
LEMMA StateSteps ==
  ASSUME [Next]_vars
  PROVE  \/ UNCHANGED stateVars /\ ~Complete(Executor)
         \/ \E w \in Workers : Insert(w)
         \/ Operate
         \/ Complete(Executor)
<1>1. ASSUME NEW t \in Threads, ThreadStep(t), ~Complete(Executor) PROVE UNCHANGED stateVars
  BY <1>1, Zenon DEF ThreadStep, Push, Send, Wait, WaitOver, Cancel, Complete, Tell
<1>2. CASE ControllerStep
  BY <1>2, Zenon DEF ControllerStep, RecvBlock, Recv, Dispatch, Collect
<1>3. ASSUME NEW w \in Workers, WorkerStep(w), ~Insert(w) PROVE UNCHANGED stateVars
  BY <1>3 DEF WorkerStep, Start, Reset, Finish, Look
<1>4. CASE UNCHANGED vars
  BY <1>4 DEF vars
<1>5. QED BY <1>1, <1>2, <1>3, <1>4 DEF Next

(* An insertion finds the State before its execution.                       *)
LEMMA InsertStep ==
  ASSUME ExecutorInv, NEW w \in Workers, Insert(w)
  PROVE  /\ StateInv' /\ UNCHANGED <<CurrentState, Copies>>
         /\ Untouched /\ Untouched' /\ thread' = thread
<1> DEFINE a == Head(worker[w].left)
<1>1. /\ inst \in Instances /\ worker[w] \in WorkerState
      /\ worker[w].owner = Executor /\ worker[w].left # << >>
  BY DEF Insert, ExecutorInv, PrefetchInv, PrefetchTypes, ControllerInv
<1>2. a \in Addr
  BY <1>1 DEF WorkerState
<1>3. Untouched
  <2>1. JoinedBy(Executor)
    BY <1>1, ThreadFacts DEF ExecutorInv, PrefetchInv, OwnerInv
  <2>2. thread[Executor].pc # "run"
    BY <1>1, <2>1 DEF JoinedBy, Prefetching
  <2>3. QED BY <2>2 DEF ExecutorInv, ExecutesJoined
<1>4. StateInv /\ PrefetchInsert(a) /\ thread' = thread
  BY DEF ExecutorInv, Insert
<1>5. /\ cache' = [cache EXCEPT ![a] = Load(a, TRUE)] /\ checkpoints' = checkpoints
      /\ cache \in [Addr -> Entry]
  BY <1>4 DEF PrefetchInsert, StateInv
<1> HIDE DEF a
<1>6. ~Load(a, TRUE).dirty
  BY <1>2, <1>4, LoadFacts, Zenon
<1>7. Untouched'
  BY <1>3, <1>5, <1>6, Zenon DEF Untouched
<1>8. StateInv' /\ UNCHANGED <<CurrentState, Copies>>
  BY <1>2, <1>3, <1>4, PrefetchStep
<1>9. QED BY <1>3, <1>4, <1>7, <1>8

(* A commit leaves a State that nothing has touched.                        *)
LEMMA CommitUntouched ==
  ASSUME Commit
  PROVE  Untouched'
<1>1. checkpoints' = << >> /\ cache' = NoEntries
  BY DEF Commit
<1>2. \A a \in Addr : ~cache'[a].dirty
  BY <1>1 DEF NoEntries, Blank
<1>3. QED BY <1>1, <1>2 DEF Untouched

(* Every step keeps the invariant of the composition, and is a step of the  *)
(* stack of copies or changes nothing there.                                *)
LEMMA ExecutorStep ==
  ASSUME ExecutorInv, [Next]_vars
  PROVE  ExecutorInv' /\ [Abs!Next]_<<CurrentState, Copies>>
<1>0. PrefetchInv /\ StateInv /\ ExecutesJoined /\ OwnKey(Executor)
  BY DEF ExecutorInv
<1>1. PrefetchInv'
  BY <1>0, PrefetchStepInv
<1>2. OwnKey(Executor)'
  <2>1. inst' = inst
    BY Zenon DEF Next, vars, ThreadStep, Push, Send, Wait, WaitOver, Cancel, Complete, Tell,
           ControllerStep, RecvBlock, Recv, Dispatch, Collect,
           WorkerStep, Start, Reset, Finish, Look, Insert, Operate
  <2>2. QED BY <1>0, <2>1, SameInstance
<1>3. CASE UNCHANGED stateVars /\ ~Complete(Executor)
  <2>0. [StateNext]_stateVars
    BY <1>3
  <2>1. StateInv' /\ (Abs!Next \/ UNCHANGED <<CurrentState, Copies>>)
    BY <1>0, <2>0, StepSimulation
  <2>2. Untouched' <=> Untouched
    BY <1>3 DEF stateVars, Untouched
  <2>3. ExecutesJoined'
    BY <1>0, <1>3, <2>2, RunEnds DEF ExecutesJoined
  <2>4. QED BY <1>1, <1>2, <2>1, <2>3 DEF ExecutorInv
<1>4. ASSUME NEW w \in Workers, Insert(w)
      PROVE  ExecutorInv' /\ [Abs!Next]_<<CurrentState, Copies>>
  BY <1>1, <1>2, <1>4, InsertStep DEF ExecutorInv, ExecutesJoined
<1>5. CASE Operate
  <2>1. StateNext
    BY <1>5 DEF Operate, StateNext, Execute
  <2>2. thread'[Executor].pc = "run"
    BY <1>5 DEF Operate
  <2>3. QED BY <1>0, <1>1, <1>2, <2>1, <2>2, StepSimulation DEF ExecutorInv, ExecutesJoined
<1>6. CASE Complete(Executor)
  <2>1. Commit
    BY <1>6 DEF Complete
  <2>2. QED
    BY <1>0, <1>1, <1>2, <2>1, CommitUntouched, StepSimulation
    DEF ExecutorInv, ExecutesJoined, StateNext
<1>7. QED BY <1>3, <1>4, <1>5, <1>6, StateSteps

(* A State opens untouched.                                                 *)
LEMMA ExecutorInit ==
  ASSUME Init, OwnKey(Executor)
  PROVE  ExecutorInv /\ Abs!Init
<1>1. PrefetchInv /\ StateInv /\ Abs!Init
  BY PrefetchInit, InitSimulation DEF Init
<1>2. Untouched
  BY DEF Init, StateInit, Untouched, NoEntries, Blank
<1>3. QED BY <1>1, <1>2 DEF ExecutorInv, ExecutesJoined

(* The executor's State behaves like a map with a stack of full copies      *)
(* although worker threads of the prefetcher write into its cache: whatever *)
(* the threads and workers, as long as no other thread works on its epoch.  *)
THEOREM PrefetchedRefines == Spec /\ OwnKey(Executor) => Refines
<1>1. QED BY ExecutorInit, ExecutorStep, PTL DEF Spec, Refines, Abs!Spec

(* Under the same condition the layers of that State cover what they must,  *)
(* and it is untouched until its own execution begins.                      *)
THEOREM PrefetchedCovers ==
  Spec /\ OwnKey(Executor) => [](CacheCovers /\ ExecutesJoined)
<1>1. ExecutorInv => CacheCovers /\ ExecutesJoined
  BY DEF ExecutorInv, StateInv
<1>2. QED BY <1>1, ExecutorInit, ExecutorStep, PTL DEF Spec
=============================================================================
