------------------------------- MODULE TxPool -------------------------------
(***************************************************************************)
(* TransactionPoolInner: the nonce pools of all senders (deferred_pool),   *)
(* the hash index txs with its counters, the cached account state, the     *)
(* garbage collector's priority queue and the packing pool.                *)
(*                                                                         *)
(* Every operation runs under the write lock of the pool.  An insertion    *)
(* may run the eviction loop of collect_garbage, which is one step here    *)
(* for each turn; while job is not idle no other operation can start.      *)
(***************************************************************************)
EXTENDS PackingBatch

CONSTANTS
  Space,          \* the native and the Ethereum space
  SpaceOf,        \* the space of a sender
  Native,         \* the space whose transactions carry an epoch height
  Capacity,       \* TransactionPoolInner::capacity, per space
  NonceOffset,    \* FURTHEST_FUTURE_TRANSACTION_NONCE_OFFSET
  EpochBound,     \* TRANSACTION_DEFAULT_EPOCH_BOUND
  AccountNonce,   \* the nonces and
  Balance,        \* the balances an account can have
  Cost            \* Cost[t]: the costs of t with and without a sponsor

ASSUME TxPoolAssumption ==
  /\ SpaceOf \in [Addr -> Space]
  /\ IsFiniteSet(Space)
  /\ Capacity \in Nat
  /\ NonceOffset \in Nat
  /\ EpochBound \in Nat
  /\ AccountNonce \subseteq Nat
  /\ Balance \subseteq Nat
  /\ \A t \in Tx : t.epoch \in Nat /\ Cost[t] \subseteq Nat

VARIABLES
  pool,      \* deferred_pool.buckets: entries [tx, packed, cost]
  txs,       \* txs.inner: the transactions indexed by hash
  count,     \* txs.count, per space
  unpacked,  \* unpacked_transaction_count
  ready,     \* ready_nonces_and_balances; field known is FALSE when absent
  gc,        \* garbage_collector; field known is FALSE when absent
  gcSize,    \* GarbageCollector::gc_size, per space
  packing,   \* packing_pool: the batch of each sender
  job        \* the insertion that holds the lock, or Idle

txVars == <<pool, txs, count, unpacked, ready, gc, gcSize, packing, job>>

Idle == [phase |-> "idle"]
NoReady == [known |-> FALSE, nonce |-> 0, balance |-> 0]
NoGc == [known |-> FALSE, count |-> 0, ready |-> FALSE, price |-> 0]

(* How insert_new_transactions, set_tx_packed and recycle_transactions     *)
(* call for an insertion.                                                  *)
Mode == {m \in [packed : BOOLEAN, force : BOOLEAN] : ~(m.packed /\ m.force)}

Bucket(P, a) == {e \in P : e.tx.sender = a}
TxsOf(P) == {e.tx : e \in P}
Entry(P, a, n) == CHOOSE e \in P : e.tx.sender = a /\ e.tx.nonce = n
Exists(P, a, n) == \E e \in P : e.tx.sender = a /\ e.tx.nonce = n
Contains(P, a) == \E e \in P : e.tx.sender = a
CountLess(P, a, n) == Cardinality({e \in P : e.tx.sender = a /\ e.tx.nonce < n})
Lowest(P, a) ==
  CHOOSE e \in P : /\ e.tx.sender = a
                   /\ \A f \in P : f.tx.sender = a => e.tx.nonce <= f.tx.nonce

IsFull(s) == count[s] >= Capacity

(* TransactionSet::insert and remove: the index and its counter.           *)
TxsInsert(S, t) == S \cup {t}
CountInsert(c, S, t) == [c EXCEPT ![SpaceOf[t.sender]] = IF t \in S THEN @ ELSE @ + 1]
TxsRemove(S, t) == S \ {t}
CountRemove(c, S, t) == [c EXCEPT ![SpaceOf[t.sender]] = IF t \in S THEN @ - 1 ELSE @]

(* unpacked_transaction_count when entry e goes, and when it comes.        *)
UnpackedLess(u, e) == IF e.packed \/ u = 0 THEN u ELSE u - 1
UnpackedMore(u, e) == IF e.packed THEN u ELSE u + 1

(* Mutant: the old node of the sender is not subtracted.                   *)
GcSizeSetForgets(a, node) ==
  [gcSize EXCEPT ![SpaceOf[a]] = @ + node.count]
(* GarbageCollector::gc_size when the node of a becomes node.              *)
GcSizeSet(a, node) ==
  [gcSize EXCEPT ![SpaceOf[a]] = @ - gc[a].count + node.count]

-----------------------------------------------------------------------------
(* Replacement of the transaction with the same sender and nonce.          *)

(* TxWithReadyInfo::compute_next_price.                                    *)
NextPrice(p) == IF p < 100 THEN p + 1 ELSE p + (p \div 100) * 2

(* TxWithReadyInfo::should_replace.                                        *)
ShouldReplace(new, old, force) ==
  LET native == SpaceOf[new.tx.sender] = Native
  IN  \/ force
      \/ /\ ~old.packed
         /\ \/ new.packed
            \/ native /\ new.tx.epoch > old.tx.epoch + 2 * EpochBound
            \/ new.tx.price >= NextPrice(old.tx.price)
            \/ /\ new.tx.price >= old.tx.price
               /\ native /\ new.tx.epoch > old.tx.epoch

-----------------------------------------------------------------------------
(* Readiness: NoncePool::recalculate_readiness_with_local_info for an      *)
(* account with nonce n and balance b.                                     *)

UnpackedFrom(P, a, n) == {e \in Bucket(P, a) : ~e.packed /\ e.tx.nonce >= n}
FirstValid(P, a, n) == Min({e.tx.nonce : e \in UnpackedFrom(P, a, n)})
CostOf(P, a, i, j) ==
  MapThenSumSet(LAMBDA e : e.cost, {e \in Bucket(P, a) : e.tx.nonce \in i..j})

HasReady(P, a, n, b) ==
  /\ UnpackedFrom(P, a, n) # {}
  /\ \A k \in n..FirstValid(P, a, n) : Exists(P, a, k)
  /\ CostOf(P, a, n, FirstValid(P, a, n)) <= b

(* NoncePoolMap::continous_ready_nonce: the end of the longest run of      *)
(* unpacked transactions that the balance pays for.                        *)
LastValid(P, a, n, b) ==
  LET first == FirstValid(P, a, n)
  IN  Max({e.tx.nonce : e \in {f \in UnpackedFrom(P, a, n) :
             /\ \A k \in first..f.tx.nonce : Exists(P, a, k) /\ ~Entry(P, a, k).packed
             /\ CostOf(P, a, n, f.tx.nonce) <= b}})

Max2(x, y) == IF x > y THEN x ELSE y

(* NoncePool::make_packing_batch: the test against the last valid nonce    *)
(* follows the insertion, so one successor is tried in any case.           *)
MakePackingBatch(S, first, last) ==
  AppendRun(Only(S, first), S, first + 1, Max2(last, first + 1))

(* DeferredPool::recalculate_readiness_with_local_info: the new batch of   *)
(* a.  When every transaction of the old batch lies below the first valid  *)
(* nonce, the loop refills the emptied batch from the old last nonce.      *)
NewBatch(P, B, a, n, b) ==
  LET S == TxsOf(Bucket(P, a))
      first == FirstValid(P, a, n)
      last == LastValid(P, a, n, b)
      oldLast == EndNonce(B) - 1
      rest == SplitOffPrefix(B, first)
      restart == Min({t.nonce : t \in From(S, oldLast)})
  IN  IF ~HasReady(P, a, n, b) THEN {}
      ELSE IF B = {} \/ StartNonce(B) > first THEN MakePackingBatch(S, first, last)
      ELSE IF oldLast > last THEN SplitOffSuffix(rest, last + 1)
      ELSE IF oldLast = last THEN rest
      ELSE IF rest # {} THEN AppendRun(rest, S, oldLast + 1, last)
      ELSE AppendRun(Only(S, restart), S, restart + 1, last)

(* TransactionPoolInner::recalculate_readiness for the nonce pools P, with *)
(* the cached account state set first (update_nonce_and_balance).  Nothing *)
(* happens for an account without transactions.                            *)
Recalculate(P, B, a, n, b) ==
  IF Contains(P, a)
    THEN LET node == [known |-> TRUE, count |-> CountLess(P, a, n),
                      ready |-> HasReady(P, a, n, b), price |-> Lowest(P, a).tx.price]
         IN  /\ ready' = [ready EXCEPT ![a] = [known |-> TRUE, nonce |-> n, balance |-> b]]
             /\ packing' = [packing EXCEPT ![a] = NewBatch(P, B, a, n, b)]
             /\ gc' = [gc EXCEPT ![a] = node]
             /\ gcSize' = GcSizeSet(a, node)
    ELSE UNCHANGED <<ready, packing, gc, gcSize>>

-----------------------------------------------------------------------------
Init ==
  /\ pool = {}
  /\ txs = {}
  /\ count = [s \in Space |-> 0]
  /\ unpacked = 0
  /\ ready = [a \in Addr |-> NoReady]
  /\ gc = [a \in Addr |-> NoGc]
  /\ gcSize = [s \in Space |-> 0]
  /\ packing = [a \in Addr |-> {}]
  /\ job = Idle

(* insert_transaction_with_readiness_check up to the eviction: t passes    *)
(* the checks against the account state the caller read.                   *)
InsertTransaction(t, packed, force, cost, n, b) ==
  /\ job = Idle
  /\ t.nonce < n + NonceOffset
  /\ packed \/ t.nonce >= n
  /\ packed \/ force \/ cost <= b
  /\ job' = [phase |-> IF Exists(pool, t.sender, t.nonce) THEN "insert" ELSE "gc",
             entry |-> [tx |-> t, packed |-> packed, cost |-> cost],
             force |-> force, nonce |-> n, balance |-> b, skipped |-> NoGc]
  /\ UNCHANGED <<pool, txs, count, unpacked, ready, gc, gcSize, packing>>

(* GarbageCollectorValue::cmp, with the timestamps left open.              *)
Higher(g, h) ==
  \/ g.count > h.count
  \/ /\ g.count = h.count
     /\ \/ ~g.ready /\ h.ready
        \/ g.ready = h.ready /\ g.price < h.price

(* a may be the top of the priority queue of space s.                      *)
IsTop(a, s) ==
  /\ gc[a].known /\ SpaceOf[a] = s
  /\ \A b \in Addr : gc[b].known /\ SpaceOf[b] = s => ~Higher(gc[b], gc[a])

JobSpace == SpaceOf[job.entry.tx.sender]
Collecting == job.phase = "gc" /\ IsFull(JobSpace)

(* The sender's own unexecuted transactions are not evicted: its node is   *)
(* popped and remembered.                                                  *)
GcSkipSelf ==
  LET a == job.entry.tx.sender
  IN  /\ Collecting
      /\ IsTop(a, JobSpace) /\ Contains(pool, a) /\ gc[a].count = 0
      /\ job' = [job EXCEPT !.skipped = gc[a]]
      /\ gc' = [gc EXCEPT ![a] = NoGc]
      /\ UNCHANGED <<pool, txs, count, unpacked, ready, gcSize, packing>>

(* collect_garbage returns: the best victim is ready and pays as much.     *)
GcGiveUp(a) ==
  /\ Collecting
  /\ IsTop(a, JobSpace) /\ Contains(pool, a) /\ a # job.entry.tx.sender
  /\ gc[a].count = 0 /\ gc[a].ready /\ gc[a].price >= job.entry.tx.price
  /\ job' = [job EXCEPT !.phase = "insert"]
  /\ UNCHANGED <<pool, txs, count, unpacked, ready, gc, gcSize, packing>>

(* Mutant: the count of collectable transactions is not lowered.           *)
NodeAfterEvictionKeepsCount(P, a) ==
  IF Contains(P, a)
    THEN [known |-> TRUE, count |-> gc[a].count,
          ready |-> SplitOffPrefix(packing[a], Lowest(pool, a).tx.nonce + 1) # {},
          price |-> Lowest(P, a).tx.price]
    ELSE NoGc

(* What GarbageCollector and DeferredPool hold of a after the eviction of  *)
(* its lowest nonce leaves the nonce pools P.                              *)
NodeAfterEviction(P, a) ==
  IF Contains(P, a)
    THEN [known |-> TRUE, count |-> IF gc[a].count > 0 THEN gc[a].count - 1 ELSE 0,
          ready |-> SplitOffPrefix(packing[a], Lowest(pool, a).tx.nonce + 1) # {},
          price |-> Lowest(P, a).tx.price]
    ELSE NoGc

(* Evict the lowest nonce of the victim, or forget a sender without        *)
(* transactions.                                                           *)
GcEvict(a) ==
  LET low == Lowest(pool, a)
      P == pool \ {low}
      node == NodeAfterEviction(P, a)
  IN  /\ Collecting
      /\ IsTop(a, JobSpace)
      /\ IF ~Contains(pool, a)
           THEN /\ gc' = [gc EXCEPT ![a] = NoGc]
                /\ gcSize' = GcSizeSet(a, NoGc)
                /\ UNCHANGED <<pool, txs, count, unpacked, ready, packing>>
           ELSE /\ \/ gc[a].count > 0
                   \/ /\ a # job.entry.tx.sender
                      /\ ~gc[a].ready \/ gc[a].price < job.entry.tx.price
                /\ pool' = P
                /\ txs' = TxsRemove(txs, low.tx)
                /\ count' = CountRemove(count, txs, low.tx)
                /\ unpacked' = UnpackedLess(unpacked, low)
                /\ packing' = [packing EXCEPT ![a] =
                     IF Contains(P, a) THEN SplitOffPrefix(@, low.tx.nonce + 1) ELSE {}]
                /\ ready' = [ready EXCEPT ![a] = IF Contains(P, a) THEN @ ELSE NoReady]
                /\ gc' = [gc EXCEPT ![a] = node]
                /\ gcSize' = GcSizeSet(a, node)
      /\ UNCHANGED job

(* The loop ends; a skipped node is inserted back.                         *)
GcDone ==
  LET a == job.entry.tx.sender
  IN  /\ job.phase = "gc"
      /\ ~IsFull(JobSpace) \/ ~\E b \in Addr : gc[b].known /\ SpaceOf[b] = JobSpace
      /\ gc' = [gc EXCEPT ![a] = IF job.skipped.known THEN job.skipped ELSE @]
      /\ job' = [job EXCEPT !.phase = "insert"]
      /\ UNCHANGED <<pool, txs, count, unpacked, ready, gcSize, packing>>

(* The pool is full, or the transaction does not replace the one in place. *)
InsertFails ==
  LET e == job.entry
  IN  /\ job.phase = "insert"
      /\ IF Exists(pool, e.tx.sender, e.tx.nonce)
           THEN ~ShouldReplace(e, Entry(pool, e.tx.sender, e.tx.nonce), job.force)
           ELSE IsFull(JobSpace)
      /\ job' = Idle
      /\ UNCHANGED <<pool, txs, count, unpacked, ready, gc, gcSize, packing>>

(* insert_transaction_without_readiness_check adds a new nonce; then the   *)
(* readiness of the sender is computed anew.                               *)
InsertNew ==
  LET e == job.entry
      a == e.tx.sender
      P == pool \cup {e}
  IN  /\ job.phase = "insert"
      /\ ~Exists(pool, a, e.tx.nonce)
      /\ ~IsFull(JobSpace)
      /\ pool' = P
      /\ txs' = TxsInsert(txs, e.tx)
      /\ count' = CountInsert(count, txs, e.tx)
      /\ unpacked' = UnpackedMore(unpacked, e)
      /\ Recalculate(P, packing[a], a, job.nonce, job.balance)
      /\ job' = Idle

(* The replacement of a transaction; its batch is cut before the readiness *)
(* is computed.                                                            *)
InsertUpdate ==
  LET e == job.entry
      a == e.tx.sender
      old == Entry(pool, a, e.tx.nonce)
      P == (pool \ {old}) \cup {e}
  IN  /\ job.phase = "insert"
      /\ Exists(pool, a, e.tx.nonce)
      /\ ShouldReplace(e, old, job.force)
      /\ pool' = P
      /\ txs' = TxsInsert(TxsRemove(txs, old.tx), e.tx)
      /\ count' = CountInsert(CountRemove(count, txs, old.tx), TxsRemove(txs, old.tx), e.tx)
      /\ unpacked' = UnpackedMore(UnpackedLess(unpacked, old), e)
      /\ Recalculate(P, SplitOffSuffix(packing[a], e.tx.nonce), a, job.nonce, job.balance)
      /\ job' = Idle

(* notify_modified_accounts, for one account of the list.                  *)
NotifyModifiedAccount(a, n, b) ==
  /\ job = Idle
  /\ Recalculate(pool, packing[a], a, n, b)
  /\ UNCHANGED <<pool, txs, count, unpacked, job>>

(* packing_sampler finds a transaction that can no longer be packed and    *)
(* cuts the batch there; the nonce pool keeps the transaction.             *)
DropFromPacking(t) ==
  /\ job = Idle
  /\ t \in packing[t.sender]
  /\ packing' = [packing EXCEPT ![t.sender] = SplitOffSuffix(@, t.nonce)]
  /\ UNCHANGED <<pool, txs, count, unpacked, ready, gc, gcSize, job>>

Clear ==
  /\ job = Idle
  /\ pool' = {} /\ txs' = {}
  /\ count' = [s \in Space |-> 0]
  /\ unpacked' = 0
  /\ ready' = [a \in Addr |-> NoReady]
  /\ gc' = [a \in Addr |-> NoGc]
  /\ gcSize' = [s \in Space |-> 0]
  /\ packing' = [a \in Addr |-> {}]
  /\ UNCHANGED job

Next ==
  \/ \E t \in Tx, mode \in Mode, n \in AccountNonce, b \in Balance :
       \E cost \in Cost[t] : InsertTransaction(t, mode.packed, mode.force, cost, n, b)
  \/ GcSkipSelf
  \/ \E a \in Addr : GcGiveUp(a) \/ GcEvict(a)
  \/ GcDone
  \/ InsertFails
  \/ InsertNew
  \/ InsertUpdate
  \/ \E a \in Addr, n \in AccountNonce, b \in Balance : NotifyModifiedAccount(a, n, b)
  \/ \E t \in Tx : DropFromPacking(t)
  \/ Clear

Spec == Init /\ [][Next]_txVars
-----------------------------------------------------------------------------
EntryType == [tx : Tx, packed : BOOLEAN, cost : Nat]
GcType == [known : BOOLEAN, count : Nat, ready : BOOLEAN, price : Nat]
JobType == [phase : {"gc", "insert"}, entry : EntryType, force : BOOLEAN,
            nonce : Nat, balance : Nat, skipped : GcType]

(* The types of the variables, and: the counter of each space never goes   *)
(* below zero nor above the capacity, so the unsigned subtraction of       *)
(* remaining_quota cannot underflow.                                       *)
TxPoolTypeOK ==
  /\ pool \subseteq EntryType
  /\ txs \subseteq Tx
  /\ count \in [Space -> 0..Capacity]
  /\ unpacked \in Nat
  /\ ready \in [Addr -> [known : BOOLEAN, nonce : Nat, balance : Nat]]
  /\ gc \in [Addr -> GcType]
  /\ gcSize \in [Space -> Int]
  /\ packing \in [Addr -> SUBSET Tx]
  /\ job \in {Idle} \cup JobType

(* "It should contain the same transaction set as deferred_pool": after    *)
(* every turn of an operation the hash index holds exactly the             *)
(* transactions of the nonce pools, one for each sender and nonce.         *)
IndexMatchesPool ==
  /\ txs = TxsOf(pool)
  /\ \A e, f \in pool :
       e.tx.sender = f.tx.sender /\ e.tx.nonce = f.tx.nonce => e = f

(* The counters that the code increments and decrements by hand are exact: *)
(* unpacked_transaction_count, whose subtractions are checked and logged   *)
(* as errors, and the size of each space, which bounds the pool.           *)
CountersExact ==
  /\ unpacked = Cardinality({e \in pool : ~e.packed})
  /\ \A s \in Space : count[s] = Cardinality({t \in txs : SpaceOf[t.sender] = s})

(* The node of the garbage collector counts the transactions below the     *)
(* nonce cached in ready_nonces_and_balances, which is why the assertion   *)
(* of collect_garbage (an unexecuted victim has count 0) cannot fail.      *)
GcCountExact ==
  \A a \in Addr : gc[a].known =>
    ready[a].known /\ gc[a].count = CountLess(pool, a, ready[a].nonce)

(* gc_size, from which remaining_quota tells how many transactions may     *)
(* still come in, is the number of collectable transactions.               *)
GcSizeExact ==
  \A s \in Space :
    gcSize[s] = MapThenSumSet(LAMBDA a : gc[a].count, {a \in Addr : SpaceOf[a] = s})

(* "The transactions in the packing_pool should always be a subset of the  *)
(* transactions in the nonce pools": no replacement or eviction leaves a   *)
(* transaction in a batch that the nonce pool of its sender has lost.      *)
PackingWithinPool ==
  \A a \in Addr : packing[a] \subseteq TxsOf(Bucket(pool, a))

(* A batch has continuous nonces, as the comment on PackingBatch promises, *)
(* prices that do not decrease, and at most address_tx_count transactions, *)
(* although it is cut at either end, refilled and rebuilt.                 *)
BatchWellFormed ==
  \A a \in Addr : packing[a] # {} =>
    /\ \A n \in StartNonce(packing[a])..(EndNonce(packing[a]) - 1) : HasNonce(packing[a], n)
    /\ \A t, u \in packing[a] : t.nonce <= u.nonce => t.price <= u.price
    /\ Cardinality(packing[a]) <= AddressTxCount

(* The inductive invariant of the pool after every turn of an operation:   *)
(* the index, the counters, the capacity, the nodes of the garbage         *)
(* collector and the batches agree with the nonce pools as stated above,   *)
(* and the node that collect_garbage has put aside is still exact.         *)
TxPoolInv ==
  /\ TxPoolTypeOK /\ IndexMatchesPool /\ CountersExact
  /\ GcCountExact /\ PackingWithinPool
  /\ IsFiniteSet(pool)
  /\ job # Idle /\ job.skipped.known =>
       LET a == job.entry.tx.sender
       IN  /\ ready[a].known
           /\ job.phase = "gc" => ~gc[a].known
           /\ job.phase = "gc" => job.skipped.count = CountLess(pool, a, ready[a].nonce)

(* "Insert back skipped nodes to keep garbage_collector unchanged": when   *)
(* no operation runs, every sender with transactions can be chosen by the  *)
(* garbage collector.                                                      *)
GcCoversPool ==
  job = Idle => \A a \in Addr : Contains(pool, a) => gc[a].known

(* "Store transactions that are ready to be packed": the cached balance    *)
(* pays for every transaction of a batch and for those before it.          *)
BatchPaidFor ==
  \A a \in Addr : \A t \in packing[a] :
    CostOf(pool, a, ready[a].nonce, t.nonce) <= ready[a].balance
=============================================================================
