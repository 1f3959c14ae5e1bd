---------------------------- MODULE StateObject ----------------------------
(***************************************************************************)
(* The State of the executor: a read-through, write-back cache of accounts  *)
(* over the database and layers of checkpoints that hold the old version of *)
(* an account only once it is changed.  A layer without an entry means "as  *)
(* in the next layer", and the top layer's "as in the cache".  An entry is  *)
(* made when the account is first changed after the checkpoint.             *)
(*                                                                         *)
(* An account has a balance, one storage slot and code or none; nonce,      *)
(* admin, sponsor and collateral fields behave like the balance.  The read  *)
(* cache of the storage only repeats the database and is left out.          *)
(***************************************************************************)
EXTENDS Integers, Sequences

CONSTANTS
    Addr,           \* the addresses
    MaxBalance,     \* no account holds more
    MaxValue,       \* a storage slot holds 0..MaxValue
    MaxDepth        \* frames of the call stack, each with its checkpoint

ASSUME StateAssumption ==
    /\ MaxBalance \in Nat
    /\ MaxValue \in Nat
    /\ MaxDepth \in Nat

VARIABLES
    db,             \* the database below this State
    cache,          \* State::cache
    checkpoints     \* State::checkpoints

stateVars == <<db, cache, checkpoints>>

-----------------------------------------------------------------------------
\* What the database holds of an address.
DbAccount ==
    [exists : BOOLEAN, bal : 0..MaxBalance, contract : BOOLEAN, slot : 0..MaxValue]

NoWrite == -1

\* AccountEntry and CheckpointEntry: an address may have no entry, be unchanged
\* since the database (in a layer only), be absent from the database, or cached
\* as an OverlayAccount with a dirty bit.  write is storage_write_cache, loaded
\* says that the code is in memory, new and clear are is_newly_created_contract
\* and pending_db_clear.
Entry ==
    [kind : {"none", "unchanged", "absent", "cached"}, dirty : BOOLEAN, bal : 0..MaxBalance,
     contract : BOOLEAN, loaded : BOOLEAN, write : {NoWrite} \cup 0..MaxValue,
     new : BOOLEAN, clear : BOOLEAN]

Blank(kind) ==
    [kind |-> kind, dirty |-> FALSE, bal |-> 0, contract |-> FALSE, loaded |-> TRUE,
     write |-> NoWrite, new |-> FALSE, clear |-> FALSE]

NoEntries == [a \in Addr |-> Blank("none")]

\* AccountEntry::new_loaded, with or without load_account_ext_fields.
Load(a, code) ==
    IF db[a].exists
    THEN [Blank("cached") EXCEPT !.bal = db[a].bal, !.contract = db[a].contract,
                                 !.loaded = code \/ ~db[a].contract]
    ELSE Blank("absent")

\* fetch_account_mut.
Fetch(a, code) ==
    IF cache[a].kind = "none" THEN Load(a, code)
    ELSE [cache[a] EXCEPT !.loaded = @ \/ code]

\* fresh_storage and storage_entry_at of a cached account.
SlotOf(a, e) ==
    IF e.write # NoWrite THEN e.write
    ELSE IF e.new \/ e.clear THEN 0 ELSE db[a].slot

\* What is read of an address whose entry is e.
View(a, e) ==
    IF e.kind = "cached"
    THEN [bal |-> e.bal, contract |-> e.contract, slot |-> SlotOf(a, e)]
    ELSE [bal |-> db[a].bal, contract |-> db[a].contract, slot |-> db[a].slot]

Current(a) == View(a, cache[a])

-----------------------------------------------------------------------------
(* Access through the cache                                                 *)

\* notify_checkpoint, and the second half of insert_to_cache: the old entry goes
\* to the last layer unless that has one.
Record(a, old) ==
    checkpoints' =
        IF checkpoints = << >> \/ checkpoints[Len(checkpoints)][a].kind # "none"
        THEN checkpoints
        ELSE [checkpoints EXCEPT ![Len(checkpoints)] = [@ EXCEPT ![a] = old]]

\* read_account_ext_lock.
Read(a, code) ==
    /\ cache' = [cache EXCEPT ![a] = Fetch(a, code)]
    /\ UNCHANGED <<db, checkpoints>>

\* write_account_inner: fetch, record, and set the dirty bit; an absent account
\* is created (new_basic).
Writable(a) == [Fetch(a, FALSE) EXCEPT !.kind = "cached", !.dirty = TRUE]

Write(a, account) ==
    /\ Record(a, Fetch(a, FALSE))
    /\ cache' = [cache EXCEPT ![a] = account]
    /\ UNCHANGED db

\* add_balance: an empty addition creates the account only when it is forced.
AddBalance(a, by, force) ==
    /\ Current(a).bal + by <= MaxBalance
    /\ IF by # 0 \/ (force /\ Fetch(a, FALSE).kind = "absent")
       THEN Write(a, [Writable(a) EXCEPT !.bal = @ + by])
       ELSE Read(a, FALSE)

\* sub_balance; the virtual machine has checked the balance.
SubBalance(a, by) ==
    /\ by <= Current(a).bal
    /\ Write(a, [Writable(a) EXCEPT !.bal = @ - by])

\* set_storage of the contract that runs: an equal value is not written.
SetStorage(a, v) ==
    /\ Current(a).contract
    /\ IF Current(a).slot = v THEN Read(a, FALSE)
       ELSE Write(a, [Writable(a) EXCEPT !.write = v])

\* insert_to_cache, with CheckpointEntry::from_cache.
InsertToCache(account, a, old) ==
    /\ cache' = [cache EXCEPT ![a] = account]
    /\ Record(a, IF old.kind = "none" THEN Blank("unchanged") ELSE old)
    /\ UNCHANGED db

\* new_contract_with_admin and init_code, on an address without code.
NewContract(a) ==
    /\ ~Current(a).contract
    /\ InsertToCache([Blank("cached") EXCEPT !.dirty = TRUE, !.bal = Current(a).bal,
                                             !.contract = TRUE, !.new = TRUE,
                                             !.clear = Fetch(a, FALSE).clear],
                     a, Fetch(a, FALSE))

\* remove_contract, which does not read the account.
RemoveContract(a) ==
    /\ Current(a).contract
    /\ InsertToCache([Blank("cached") EXCEPT !.dirty = TRUE, !.clear = TRUE], a, cache[a])

\* prefetch: an entry that lacks the code is loaded again and replaced.
PrefetchNeeded(a) == cache[a].kind = "none" \/ ~cache[a].loaded

PrefetchInsert(a) ==
    /\ cache' = [cache EXCEPT ![a] = Load(a, TRUE)]
    /\ UNCHANGED <<db, checkpoints>>

-----------------------------------------------------------------------------
(* Checkpoints                                                              *)

Checkpoint ==
    /\ Len(checkpoints) < MaxDepth
    /\ checkpoints' = Append(checkpoints, NoEntries)
    /\ UNCHANGED <<db, cache>>

\* Mutant: the entries of the dropped layer replace those of the one below.
MergeNewer(below, top) ==
    [a \in Addr |-> IF top[a].kind # "none" THEN top[a] ELSE below[a]]

Merge(below, top) ==
    [a \in Addr |-> IF below[a].kind # "none" THEN below[a] ELSE top[a]]

DiscardCheckpoint ==
    LET n == Len(checkpoints)
    IN  /\ n > 0
        /\ checkpoints' =
            IF n = 1 THEN << >>
            ELSE [SubSeq(checkpoints, 1, n - 1) EXCEPT ![n - 1] = Merge(@, checkpoints[n])]
        /\ UNCHANGED <<db, cache>>

\* Mutant: a dirty entry leaves the cache whatever the layer has recorded.
RevertedDirty(now, old) ==
    IF old.kind = "none" THEN now
    ELSE IF now.dirty THEN Blank("none")
    ELSE IF old.kind # "unchanged" THEN old ELSE now

\* The entry of an address after the layer's entry old is restored; one that was
\* not in the cache at the checkpoint may stay when it is not dirty.
Reverted(now, old) ==
    IF old.kind = "none" THEN now
    ELSE IF old.kind # "unchanged" THEN old
    ELSE IF now.dirty THEN Blank("none") ELSE now

RevertToCheckpoint ==
    LET n == Len(checkpoints)
    IN  /\ n > 0
        /\ cache' = [a \in Addr |-> Reverted(cache[a], checkpoints[n][a])]
        /\ checkpoints' = SubSeq(checkpoints, 1, n - 1)
        /\ UNCHANGED db

\* commit_dirty_accounts of one address: the storage of a killed contract is
\* recycled, and an account that is not gone is written.
Stored(a, e) ==
    LET gone == e.clear /\ e.bal = 0 /\ ~e.contract
        slot == IF e.clear THEN 0 ELSE db[a].slot
    IN  IF e.kind # "cached" \/ ~e.dirty THEN db[a]
        ELSE IF gone THEN [exists |-> FALSE, bal |-> 0, contract |-> FALSE, slot |-> 0]
        ELSE [exists |-> TRUE, bal |-> e.bal, contract |-> e.contract,
              slot |-> IF e.write # NoWrite THEN e.write ELSE slot]

\* commit; the next State opens on what was stored.
Commit ==
    /\ checkpoints = << >>
    /\ db' = [a \in Addr |-> Stored(a, cache[a])]
    /\ cache' = NoEntries
    /\ UNCHANGED checkpoints

-----------------------------------------------------------------------------
\* Every account in the database that is not empty exists, and only contracts
\* have storage.
DbOK(a) ==
    /\ ~db[a].exists => db[a].bal = 0 /\ ~db[a].contract
    /\ db[a].slot # 0 => db[a].contract

StateInit ==
    /\ db \in [Addr -> DbAccount]
    /\ \A a \in Addr : DbOK(a)
    /\ cache = NoEntries
    /\ checkpoints = << >>

\* What the virtual machine does with the State.
Execute ==
    \/ \E a \in Addr :
        \/ \E code \in BOOLEAN : Read(a, code)
        \/ \E by \in 0..MaxBalance, force \in BOOLEAN : AddBalance(a, by, force)
        \/ \E by \in 1..MaxBalance : SubBalance(a, by)
        \/ \E v \in 0..MaxValue : SetStorage(a, v)
        \/ NewContract(a)
        \/ RemoveContract(a)
    \/ Checkpoint \/ DiscardCheckpoint \/ RevertToCheckpoint

\* No operation has changed the State.
Untouched == checkpoints = << >> /\ \A a \in Addr : ~cache[a].dirty

\* Prefetching belongs before the execution.
Prefetch(a) == Untouched /\ PrefetchNeeded(a) /\ PrefetchInsert(a)

StateNext == Execute \/ Commit \/ \E a \in Addr : Prefetch(a)

StateSpec == StateInit /\ [][StateNext]_stateVars

-----------------------------------------------------------------------------
(* The implementation of the stack of copies                                *)

\* The version of an address at checkpoint i: that of the first layer from i on
\* that has an entry, else the current one.
Layers(cps, i, a) == {j \in i..Len(cps) : cps[j][a].kind # "none"}

First(S) == CHOOSE j \in S : \A k \in S : j <= k

Version(i, a) ==
    IF Layers(checkpoints, i, a) = {} THEN Current(a)
    ELSE View(a, checkpoints[First(Layers(checkpoints, i, a))][a])

CurrentState == [a \in Addr |-> Current(a)]

Copies == [i \in 1..Len(checkpoints) |-> [a \in Addr |-> Version(i, a)]]

Abs == INSTANCE StateStack WITH state <- CurrentState, stack <- Copies

\* The State behaves like a map with a stack of full copies: what is read after
\* any nesting of checkpoints, discards and reverts, after prefetching, and in
\* the State that opens on what commit stored.
Refines == Abs!Spec

\* The assumption revert_to_checkpoint marks unreachable!: an address with an
\* entry in a layer is in the cache; and an account recorded as unchanged has no
\* entry in a layer below, which would otherwise be restored over nothing.
CacheCovers ==
    \A i \in 1..Len(checkpoints), a \in Addr :
        checkpoints[i][a].kind # "none" =>
            /\ cache[a].kind # "none"
            /\ checkpoints[i][a].kind = "unchanged" =>
                \A j \in 1..(i - 1) : checkpoints[j][a].kind = "none"

\* What is true of every entry: one that is not cached has no contents, a clean
\* one repeats the database, and only contracts have storage.
EntryOK(a, e) ==
    /\ e.kind # "cached" => e = Blank(e.kind)
    /\ e.kind = "absent" => ~db[a].exists
    /\ e.kind = "cached" =>
        /\ ~e.dirty => /\ db[a].exists /\ e.bal = db[a].bal /\ e.contract = db[a].contract
                       /\ e.write = NoWrite /\ ~e.new /\ ~e.clear
        /\ ~e.clear /\ (e.new \/ ~e.contract) => db[a].slot = 0
        /\ e.write # NoWrite => e.contract

\* The inductive invariant.
StateInv ==
    /\ db \in [Addr -> DbAccount]
    /\ cache \in [Addr -> Entry]
    /\ checkpoints \in Seq([Addr -> Entry])
    /\ \A a \in Addr : DbOK(a) /\ cache[a].kind # "unchanged" /\ EntryOK(a, cache[a])
    /\ \A i \in 1..Len(checkpoints), a \in Addr : EntryOK(a, checkpoints[i][a])
    /\ CacheCovers
=============================================================================
