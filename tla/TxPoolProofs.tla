---------------------------- MODULE TxPoolProofs ----------------------------
(***************************************************************************)
(* The consistency of the transaction pool for any number of senders and   *)
(* transactions, any capacity and any account states.                      *)
(***************************************************************************)
EXTENDS TxPool, FiniteSetTheorems, WellFoundedInduction, TLAPS

(* A non-empty set of natural numbers has a least element.                 *)
LEMMA LeastNatural ==
  ASSUME NEW T \in SUBSET Nat, T # {}
  PROVE  \E x \in T : \A y \in T : x <= y
<1>1. \E x \in T : \A y \in T : ~(<<y, x>> \in OpToRel(<, Nat))
  BY NatLessThanWellFounded, WFMin, Zenon
<1>2. \A x, y \in Nat : y < x => <<y, x>> \in OpToRel(<, Nat)
  BY Zenon DEF OpToRel
<1>3. \E x \in T : \A y \in T : ~(y < x)
  BY <1>1, <1>2, Zenon
<1>4. QED BY <1>3

(* Lowest and Entry pick what their names say.                             *)
LEMMA LowestFacts ==
  ASSUME NEW P, P \subseteq EntryType, NEW a, Contains(P, a)
  PROVE  /\ Lowest(P, a) \in P
         /\ Lowest(P, a).tx.sender = a
         /\ \A f \in P : f.tx.sender = a => Lowest(P, a).tx.nonce <= f.tx.nonce
<1> DEFINE T == {e.tx.nonce : e \in Bucket(P, a)}
<1>1. T \subseteq Nat /\ T # {}
  BY BatchAssumption DEF Bucket, Contains, EntryType
<1>2. PICK x \in T : \A y \in T : x <= y
  <2> HIDE DEF T
  <2> QED BY <1>1, LeastNatural
<1>3. \E e \in P : /\ e.tx.sender = a
                   /\ \A f \in P : f.tx.sender = a => e.tx.nonce <= f.tx.nonce
  BY <1>2 DEF Bucket
<1>4. QED BY <1>3 DEF Lowest

LEMMA EntryFacts ==
  ASSUME NEW P, NEW a, NEW n, Exists(P, a, n)
  PROVE  /\ Entry(P, a, n) \in P
         /\ Entry(P, a, n).tx.sender = a
         /\ Entry(P, a, n).tx.nonce = n
BY DEF Entry, Exists

(* The batch of a sender is taken from its old batch and its nonce pool.   *)
LEMMA NewBatchWithin ==
  ASSUME NEW P, NEW a, NEW B, B \subseteq TxsOf(Bucket(P, a)), NEW n, NEW b
  PROVE  NewBatch(P, B, a, n, b) \subseteq TxsOf(Bucket(P, a))
<1> DEFINE S == TxsOf(Bucket(P, a))
<1>1. \A C, m, limit : C \subseteq S => AppendRun(C, S, m, limit) \subseteq S
  BY DEF AppendRun
<1>2. \A m : Only(S, m) \subseteq S /\ From(B, m) \subseteq S
  BY DEF Only, From
<1>3. \A C, m : C \subseteq S => Below(C, m) \subseteq S
  BY DEF Below
<1>4. QED
  <2> HIDE DEF S
  <2> QED BY <1>1, <1>2, <1>3 DEF NewBatch, S, MakePackingBatch, SplitOffPrefix, SplitOffSuffix

(* The number of transactions of a below a nonce depends on its own nonce  *)
(* pool only.                                                              *)
LEMMA CountLessLocal ==
  ASSUME NEW P, NEW Q, NEW a, Bucket(P, a) = Bucket(Q, a), NEW n
  PROVE  CountLess(P, a, n) = CountLess(Q, a, n)
<1>1. {e \in P : e.tx.sender = a /\ e.tx.nonce < n} = {e \in Q : e.tx.sender = a /\ e.tx.nonce < n}
  BY DEF Bucket
<1>2. QED BY <1>1 DEF CountLess

LEMMA CountLessType ==
  ASSUME NEW P, IsFiniteSet(P), NEW a, NEW n
  PROVE  CountLess(P, a, n) \in Nat
<1>1. IsFiniteSet({e \in P : e.tx.sender = a /\ e.tx.nonce < n})
  BY FS_Subset
<1>2. QED BY <1>1, FS_CardinalityType DEF CountLess

-----------------------------------------------------------------------------
(* unpacked_transaction_count follows the nonce pools.                     *)
Unpacked(P) == Cardinality({e \in P : ~e.packed})

LEMMA UnpackedAdd ==
  ASSUME NEW P, IsFiniteSet(P), NEW e \in EntryType, e \notin P
  PROVE  Unpacked(P \cup {e}) = UnpackedMore(Unpacked(P), e)
<1> DEFINE U == {x \in P : ~x.packed}
<1>1. IsFiniteSet(U) /\ e \notin U
  BY FS_Subset
<1>2. CASE e.packed
  <2>1. {x \in P \cup {e} : ~x.packed} = U
    BY <1>2
  <2>2. QED BY <1>2, <2>1 DEF Unpacked, UnpackedMore
<1>3. CASE ~e.packed
  <2>1. {x \in P \cup {e} : ~x.packed} = U \cup {e}
    BY <1>3
  <2>2. Cardinality(U \cup {e}) = Cardinality(U) + 1
    <3> HIDE DEF U
    <3> QED BY <1>1, FS_AddElement
  <2>3. QED BY <1>3, <2>1, <2>2 DEF Unpacked, UnpackedMore
<1>4. QED BY <1>2, <1>3

LEMMA UnpackedRemove ==
  ASSUME NEW P, IsFiniteSet(P), P \subseteq EntryType, NEW e \in P
  PROVE  Unpacked(P \ {e}) = UnpackedLess(Unpacked(P), e)
<1> DEFINE U == {x \in P : ~x.packed}
<1>1. IsFiniteSet(U)
  BY FS_Subset
<1>2. CASE e.packed
  <2>1. {x \in P \ {e} : ~x.packed} = U
    BY <1>2
  <2>2. QED BY <1>2, <2>1 DEF Unpacked, UnpackedLess
<1>3. CASE ~e.packed
  <2>1. {x \in P \ {e} : ~x.packed} = U \ {e} /\ e \in U
    BY <1>3
  <2>2. Cardinality(U \ {e}) = Cardinality(U) - 1 /\ Cardinality(U) # 0
    <3> HIDE DEF U
    <3> QED BY <1>1, <2>1, FS_RemoveElement, FS_EmptySet
  <2>3. QED BY <1>3, <2>1, <2>2 DEF Unpacked, UnpackedLess
<1>4. QED BY <1>2, <1>3

(* txs.count follows the hash index.                                       *)
SpaceCount(S) == [s \in Space |-> Cardinality({t \in S : SpaceOf[t.sender] = s})]

LEMMA SpaceCountAdd ==
  ASSUME NEW S \in SUBSET Tx, NEW t \in Tx
  PROVE  CountInsert(SpaceCount(S), S, t) = SpaceCount(TxsInsert(S, t))
<1> DEFINE In(s) == {u \in S : SpaceOf[u.sender] = s}
           q == SpaceOf[t.sender]
<1>1. q \in Space
  BY BatchAssumption, TxPoolAssumption
<1>2. \A s \in Space : IsFiniteSet(In(s))
  BY BatchAssumption, FS_Subset
<1>3. ASSUME NEW s \in Space
      PROVE  Cardinality({u \in S \cup {t} : SpaceOf[u.sender] = s}) =
               IF s = q /\ t \notin S THEN Cardinality(In(s)) + 1 ELSE Cardinality(In(s))
  <2>1. CASE s = q /\ t \notin S
    <3>1. {u \in S \cup {t} : SpaceOf[u.sender] = s} = In(s) \cup {t} /\ t \notin In(s)
      BY <2>1
    <3>2. Cardinality(In(s) \cup {t}) = Cardinality(In(s)) + 1
      <4> HIDE DEF In
      <4> QED BY <1>2, <3>1, FS_AddElement
    <3>3. QED BY <2>1, <3>1, <3>2
  <2>2. CASE ~(s = q /\ t \notin S)
    <3>1. {u \in S \cup {t} : SpaceOf[u.sender] = s} = In(s)
      BY <2>2
    <3>2. QED BY <2>2, <3>1
  <2>3. QED BY <2>1, <2>2
<1>4. QED BY <1>1, <1>3 DEF CountInsert, SpaceCount, TxsInsert

LEMMA SpaceCountRemove ==
  ASSUME NEW S \in SUBSET Tx, NEW t \in Tx
  PROVE  CountRemove(SpaceCount(S), S, t) = SpaceCount(TxsRemove(S, t))
<1> DEFINE In(s) == {u \in S : SpaceOf[u.sender] = s}
           q == SpaceOf[t.sender]
<1>1. q \in Space
  BY BatchAssumption, TxPoolAssumption
<1>2. \A s \in Space : IsFiniteSet(In(s))
  BY BatchAssumption, FS_Subset
<1>3. ASSUME NEW s \in Space
      PROVE  Cardinality({u \in S \ {t} : SpaceOf[u.sender] = s}) =
               IF s = q /\ t \in S THEN Cardinality(In(s)) - 1 ELSE Cardinality(In(s))
  <2>1. CASE s = q /\ t \in S
    <3>1. {u \in S \ {t} : SpaceOf[u.sender] = s} = In(s) \ {t} /\ t \in In(s)
      BY <2>1
    <3>2. Cardinality(In(s) \ {t}) = Cardinality(In(s)) - 1
      <4> HIDE DEF In
      <4> QED BY <1>2, <3>1, FS_RemoveElement
    <3>3. QED BY <2>1, <3>1, <3>2
  <2>2. CASE ~(s = q /\ t \in S)
    <3>1. {u \in S \ {t} : SpaceOf[u.sender] = s} = In(s)
      BY <2>2
    <3>2. QED BY <2>2, <3>1
  <2>3. QED BY <2>1, <2>2
<1>4. QED BY <1>1, <1>3 DEF CountRemove, SpaceCount, TxsRemove

-----------------------------------------------------------------------------
(* What the garbage collector and the packing pool say of sender c is      *)
(* exact for the nonce pools P.                                            *)
ViewExact(P, c) ==
  /\ packing[c] \subseteq TxsOf(Bucket(P, c))
  /\ gc[c].known => ready[c].known /\ gc[c].count = CountLess(P, c, ready[c].nonce)

ReadyType == [known : BOOLEAN, nonce : Nat, balance : Nat]
ViewTypes ==
  /\ ready \in [Addr -> ReadyType]
  /\ gc \in [Addr -> GcType]
  /\ gcSize \in [Space -> Int]
  /\ packing \in [Addr -> SUBSET Tx]

LEMMA GcSizeType ==
  ASSUME ViewTypes, NEW a \in Addr, NEW node, node.count \in Nat
  PROVE  GcSizeSet(a, node) \in [Space -> Int]
<1>1. gc[a].count \in Nat /\ SpaceOf[a] \in Space
  BY TxPoolAssumption DEF ViewTypes, GcType
<1>2. gcSize[SpaceOf[a]] - gc[a].count + node.count \in Int
  BY <1>1 DEF ViewTypes
<1>3. QED BY <1>1, <1>2 DEF ViewTypes, GcSizeSet

(* recalculate_readiness makes the view of one sender exact and leaves the *)
(* others alone.                                                           *)
LEMMA RecalculateFacts ==
  ASSUME ViewTypes,
         NEW P, P \subseteq EntryType, IsFiniteSet(P),
         NEW a \in Addr, NEW n \in Nat, NEW b \in Nat,
         NEW B, B \subseteq TxsOf(Bucket(P, a)),
         Recalculate(P, B, a, n, b)
  PROVE  /\ ViewTypes'
         /\ \A c \in Addr : (c = a /\ Contains(P, a)) \/ ViewExact(P, c) => ViewExact(P, c)'
         /\ \A c \in Addr : c # a => ready'[c] = ready[c] /\ gc'[c] = gc[c]
<1>1. CASE ~Contains(P, a)
  <2>1. UNCHANGED <<ready, packing, gc, gcSize>>
    BY <1>1 DEF Recalculate
  <2>2. \A c \in Addr : ViewExact(P, c) => ViewExact(P, c)'
    BY <2>1 DEF ViewExact
  <2>3. QED BY <1>1, <2>1, <2>2 DEF ViewTypes
<1>2. CASE Contains(P, a)
  <2> DEFINE node == [known |-> TRUE, count |-> CountLess(P, a, n),
                      ready |-> HasReady(P, a, n, b), price |-> Lowest(P, a).tx.price]
             info == [known |-> TRUE, nonce |-> n, balance |-> b]
             batch == NewBatch(P, B, a, n, b)
  <2>1. /\ ready' = [ready EXCEPT ![a] = info]
        /\ packing' = [packing EXCEPT ![a] = batch]
        /\ gc' = [gc EXCEPT ![a] = node]
        /\ gcSize' = GcSizeSet(a, node)
    BY <1>2 DEF Recalculate
  <2>2. CountLess(P, a, n) \in Nat
    BY CountLessType
  <2>3. HasReady(P, a, n, b) \in BOOLEAN
    BY DEF HasReady
  <2>4. Lowest(P, a).tx.price \in Nat
    BY <1>2, LowestFacts, BatchAssumption DEF EntryType
  <2>5. node \in GcType /\ info \in ReadyType
    BY <2>2, <2>3, <2>4 DEF GcType, ReadyType
  <2>6. batch \subseteq TxsOf(Bucket(P, a)) /\ TxsOf(Bucket(P, a)) \subseteq Tx
    BY NewBatchWithin DEF TxsOf, Bucket, EntryType
  <2>7. ViewTypes'
    <3>1. gcSize' \in [Space -> Int]
      <4>1. node.count \in Nat
        BY <2>5 DEF GcType
      <4> HIDE DEF node
      <4>2. QED BY <2>1, <4>1, GcSizeType
    <3>2. ready' \in [Addr -> ReadyType] /\ gc' \in [Addr -> GcType]
      <4> HIDE DEF node, info
      <4> QED BY <2>1, <2>5 DEF ViewTypes
    <3>3. packing' \in [Addr -> SUBSET Tx]
      <4> HIDE DEF batch
      <4> QED BY <2>1, <2>6 DEF ViewTypes
    <3>4. QED BY <3>1, <3>2, <3>3 DEF ViewTypes
  <2>8. ViewExact(P, a)'
    <3>1. packing'[a] = batch /\ ready'[a] = info /\ gc'[a] = node
      BY <2>1 DEF ViewTypes
    <3>2. QED BY <3>1, <2>6 DEF ViewExact
  <2>9. \A c \in Addr : c # a =>
          packing'[c] = packing[c] /\ ready'[c] = ready[c] /\ gc'[c] = gc[c]
    BY <2>1 DEF ViewTypes
  <2>10. \A c \in Addr : c # a /\ ViewExact(P, c) => ViewExact(P, c)'
    BY <2>9 DEF ViewExact
  <2>11. QED BY <2>7, <2>8, <2>9, <2>10
<1>3. QED BY <1>1, <1>2

-----------------------------------------------------------------------------
(* The nonce pools P, the index S, its counters c and the number u of      *)
(* unpacked transactions agree.                                            *)
CoreOK(P, S, c, u) ==
  /\ P \subseteq EntryType
  /\ IsFiniteSet(P)
  /\ S = TxsOf(P)
  /\ \A e, f \in P : e.tx.sender = f.tx.sender /\ e.tx.nonce = f.tx.nonce => e = f
  /\ c = SpaceCount(S)
  /\ c \in [Space -> 0..Capacity]
  /\ u = Unpacked(P)

LEMMA CoreTypes ==
  ASSUME NEW P, NEW S, NEW c, NEW u, CoreOK(P, S, c, u)
  PROVE  S \in SUBSET Tx /\ u \in Nat
<1>1. S \in SUBSET Tx
  BY DEF CoreOK, TxsOf, EntryType
<1>2. IsFiniteSet({e \in P : ~e.packed})
  BY FS_Subset DEF CoreOK
<1>3. u \in Nat
  BY <1>2, FS_CardinalityType DEF CoreOK, Unpacked
<1>4. QED BY <1>1, <1>3

LEMMA CoreRemove ==
  ASSUME NEW P, NEW S, NEW c, NEW u, CoreOK(P, S, c, u), NEW e \in P
  PROVE  /\ CoreOK(P \ {e}, TxsRemove(S, e.tx), CountRemove(c, S, e.tx), UnpackedLess(u, e))
         /\ CountRemove(c, S, e.tx)[SpaceOf[e.tx.sender]] < Capacity
<1> DEFINE q == SpaceOf[e.tx.sender]
<1>1. e \in EntryType /\ e.tx \in Tx /\ S \in SUBSET Tx /\ q \in Space
  BY CoreTypes, BatchAssumption, TxPoolAssumption DEF CoreOK, EntryType
<1>2. P \ {e} \subseteq EntryType /\ IsFiniteSet(P \ {e})
  BY FS_RemoveElement DEF CoreOK
<1>3. TxsRemove(S, e.tx) = TxsOf(P \ {e})
  BY DEF TxsRemove, TxsOf, CoreOK
<1>4. CountRemove(c, S, e.tx) = SpaceCount(TxsRemove(S, e.tx))
  BY <1>1, SpaceCountRemove DEF CoreOK
<1>5. e.tx \in S
  BY DEF CoreOK, TxsOf
<1>6. c[q] # 0
  <2>1. e.tx \in {t \in S : SpaceOf[t.sender] = q}
    BY <1>5
  <2>2. IsFiniteSet({t \in S : SpaceOf[t.sender] = q})
    BY <1>1, BatchAssumption, FS_Subset
  <2>3. Cardinality({t \in S : SpaceOf[t.sender] = q}) # 0
    BY <2>1, <2>2, FS_EmptySet
  <2>4. QED BY <1>1, <2>3 DEF CoreOK, SpaceCount
<1>7. /\ CountRemove(c, S, e.tx) \in [Space -> 0..Capacity]
      /\ CountRemove(c, S, e.tx)[q] < Capacity
  <2>1. c \in [Space -> 0..Capacity] /\ Capacity \in Nat
    BY TxPoolAssumption DEF CoreOK
  <2>2. c[q] - 1 \in 0..Capacity /\ c[q] - 1 < Capacity
    BY <1>1, <1>6, <2>1
  <2>3. QED BY <1>1, <1>5, <2>1, <2>2 DEF CountRemove
<1>8. UnpackedLess(u, e) = Unpacked(P \ {e})
  BY UnpackedRemove DEF CoreOK
<1>9. QED BY <1>2, <1>3, <1>4, <1>7, <1>8 DEF CoreOK

LEMMA CoreAdd ==
  ASSUME NEW P, NEW S, NEW c, NEW u, CoreOK(P, S, c, u),
         NEW e \in EntryType, ~Exists(P, e.tx.sender, e.tx.nonce),
         c[SpaceOf[e.tx.sender]] < Capacity
  PROVE  CoreOK(P \cup {e}, TxsInsert(S, e.tx), CountInsert(c, S, e.tx), UnpackedMore(u, e))
<1> DEFINE q == SpaceOf[e.tx.sender]
<1>1. e.tx \in Tx /\ S \in SUBSET Tx /\ q \in Space /\ e \notin P
  BY CoreTypes, BatchAssumption, TxPoolAssumption DEF EntryType, Exists
<1>2. P \cup {e} \subseteq EntryType /\ IsFiniteSet(P \cup {e})
  BY FS_AddElement DEF CoreOK
<1>3. TxsInsert(S, e.tx) = TxsOf(P \cup {e})
  BY DEF TxsInsert, TxsOf, CoreOK
<1>4. CountInsert(c, S, e.tx) = SpaceCount(TxsInsert(S, e.tx))
  BY <1>1, SpaceCountAdd DEF CoreOK
<1>5. CountInsert(c, S, e.tx) \in [Space -> 0..Capacity]
  <2>1. c \in [Space -> 0..Capacity] /\ Capacity \in Nat
    BY TxPoolAssumption DEF CoreOK
  <2>2. c[q] + 1 \in 0..Capacity
    BY <1>1, <2>1
  <2>3. QED BY <1>1, <2>1, <2>2 DEF CountInsert
<1>6. UnpackedMore(u, e) = Unpacked(P \cup {e})
  BY <1>1, UnpackedAdd DEF CoreOK
<1>7. \A f \in P : ~(f.tx.sender = e.tx.sender /\ f.tx.nonce = e.tx.nonce)
  BY DEF Exists
<1>8. QED BY <1>2, <1>3, <1>4, <1>5, <1>6, <1>7 DEF CoreOK

(* TxPoolInv in the form the lemmas use.                                   *)
SkippedOK ==
  job # Idle /\ job.skipped.known =>
    LET a == job.entry.tx.sender
    IN  /\ ready[a].known
        /\ job.phase = "gc" => ~gc[a].known
        /\ job.phase = "gc" => job.skipped.count = CountLess(pool, a, ready[a].nonce)

InvParts ==
  /\ CoreOK(pool, txs, count, unpacked)
  /\ ViewTypes
  /\ \A c \in Addr : ViewExact(pool, c)
  /\ job \in {Idle} \cup JobType
  /\ SkippedOK

LEMMA InvForm == TxPoolInv <=> InvParts
<1>1. ASSUME count \in [Space -> 0..Capacity]
      PROVE  (\A s \in Space : count[s] = Cardinality({t \in txs : SpaceOf[t.sender] = s}))
               <=> count = SpaceCount(txs)
  BY <1>1 DEF SpaceCount
<1>2. ASSUME TxPoolInv
      PROVE  CoreOK(pool, txs, count, unpacked) /\ ViewTypes
  BY <1>1, <1>2 DEF TxPoolInv, TxPoolTypeOK, IndexMatchesPool, CountersExact, CoreOK, Unpacked, ViewTypes, ReadyType
<1>3. ASSUME CoreOK(pool, txs, count, unpacked), ViewTypes, job \in {Idle} \cup JobType
      PROVE  TxPoolTypeOK /\ IndexMatchesPool /\ CountersExact /\ IsFiniteSet(pool)
  BY <1>1, <1>3, CoreTypes DEF TxPoolTypeOK, IndexMatchesPool, CountersExact, CoreOK, Unpacked, ViewTypes, ReadyType
<1>4. (\A c \in Addr : ViewExact(pool, c)) <=> GcCountExact /\ PackingWithinPool
  BY DEF ViewExact, GcCountExact, PackingWithinPool
<1>5. QED BY <1>2, <1>3, <1>4 DEF TxPoolInv, InvParts, SkippedOK, TxPoolTypeOK

-----------------------------------------------------------------------------
(* The inductive step, one lemma for each action.                          *)

(* With the nonce pools unchanged, the core and exact views are kept.      *)
LEMMA CoreUnchanged ==
  ASSUME CoreOK(pool, txs, count, unpacked), UNCHANGED <<pool, txs, count, unpacked>>
  PROVE  CoreOK(pool, txs, count, unpacked)'
BY DEF CoreOK, TxsOf, SpaceCount, Unpacked

LEMMA StepInsertTransaction ==
  ASSUME TxPoolInv, NEW t \in Tx, NEW mode \in Mode, NEW cost \in Cost[t],
         NEW n \in AccountNonce, NEW b \in Balance,
         InsertTransaction(t, mode.packed, mode.force, cost, n, b)
  PROVE  TxPoolInv'
<1>1. job' \in JobType /\ ~job'.skipped.known
  <2>1. mode.packed \in BOOLEAN /\ mode.force \in BOOLEAN
    BY DEF Mode
  <2>2. n \in Nat /\ b \in Nat /\ cost \in Nat
    BY TxPoolAssumption
  <2>3. NoGc \in GcType /\ ~NoGc.known
    BY DEF NoGc, GcType
  <2>4. [tx |-> t, packed |-> mode.packed, cost |-> cost] \in EntryType
    BY <2>1, <2>2 DEF EntryType
  <2>5. QED BY <2>1, <2>2, <2>3, <2>4 DEF InsertTransaction, JobType
<1>2. UNCHANGED <<pool, txs, count, unpacked, ready, gc, gcSize, packing>>
  BY DEF InsertTransaction
<1>3. CoreOK(pool, txs, count, unpacked)'
  BY <1>2, InvForm, CoreUnchanged DEF InvParts
<1>4. (\A c \in Addr : ViewExact(pool, c))' /\ ViewTypes'
  BY <1>2, InvForm DEF InvParts, ViewExact, ViewTypes
<1>5. SkippedOK'
  BY <1>1 DEF SkippedOK
<1>6. InvParts'
  BY <1>1, <1>3, <1>4, <1>5 DEF InvParts
<1> QED BY InvForm, PTL, <1>6

LEMMA StepGcSkipSelf ==
  ASSUME TxPoolInv, GcSkipSelf
  PROVE  TxPoolInv'
<1> DEFINE a == job.entry.tx.sender
<1>1. job \in JobType /\ a \in Addr
  BY InvForm, BatchAssumption DEF InvParts, GcSkipSelf, Collecting, Idle, JobType, EntryType
<1>2. /\ job' = [job EXCEPT !.skipped = gc[a]]
      /\ gc' = [gc EXCEPT ![a] = NoGc]
      /\ gc[a].known /\ job.phase = "gc"
      /\ UNCHANGED <<pool, txs, count, unpacked, ready, gcSize, packing>>
  BY DEF GcSkipSelf, Collecting, IsTop
<1>3. CoreOK(pool, txs, count, unpacked)'
  BY <1>2, InvForm, CoreUnchanged DEF InvParts
<1>4. ViewTypes /\ \A c \in Addr : ViewExact(pool, c)
  BY InvForm DEF InvParts
<1>5. gc[a] \in GcType /\ job' \in JobType
  BY <1>1, <1>2, <1>4 DEF ViewTypes, JobType
<1>6. ViewTypes'
  BY <1>1, <1>2, <1>4 DEF ViewTypes, GcType, NoGc
<1>7. (\A c \in Addr : ViewExact(pool, c))'
  BY <1>1, <1>2, <1>4 DEF ViewExact, ViewTypes, NoGc
<1>8. SkippedOK'
  <2>1. job'.entry = job.entry /\ job'.skipped = gc[a] /\ gc'[a] = NoGc
    BY <1>1, <1>2, <1>4 DEF JobType, ViewTypes
  <2>2. gc[a].count = CountLess(pool, a, ready[a].nonce) /\ ready[a].known
    BY <1>1, <1>2, <1>4 DEF ViewExact
  <2>3. CountLess(pool, a, ready[a].nonce)' = CountLess(pool, a, ready[a].nonce)
    BY <1>2, <2>1 DEF CountLess
  <2>4. QED BY <1>2, <2>1, <2>2, <2>3 DEF SkippedOK, NoGc
<1>9. InvParts'
  BY <1>3, <1>5, <1>6, <1>7, <1>8 DEF InvParts
<1> QED BY InvForm, PTL, <1>9

LEMMA StepGcGiveUp ==
  ASSUME TxPoolInv, NEW v \in Addr, GcGiveUp(v)
  PROVE  TxPoolInv'
<1>1. job \in JobType
  BY InvForm DEF InvParts, GcGiveUp, Collecting, Idle
<1>2. /\ job' = [job EXCEPT !.phase = "insert"]
      /\ UNCHANGED <<pool, txs, count, unpacked, ready, gc, gcSize, packing>>
      /\ job.phase = "gc"
  BY DEF GcGiveUp, Collecting
<1>3. CoreOK(pool, txs, count, unpacked)'
  BY <1>2, InvForm, CoreUnchanged DEF InvParts
<1>4. (\A c \in Addr : ViewExact(pool, c))' /\ ViewTypes'
  BY <1>2, InvForm DEF InvParts, ViewExact, ViewTypes
<1>5. job' \in JobType /\ job'.phase = "insert" /\ job'.entry = job.entry
        /\ job'.skipped = job.skipped
  BY <1>1, <1>2 DEF JobType
<1>6. SkippedOK'
  <2>1. SkippedOK /\ job # Idle
    BY <1>2, InvForm DEF InvParts, Idle
  <2>2. QED BY <1>2, <1>5, <2>1 DEF SkippedOK
<1>7. InvParts'
  BY <1>3, <1>4, <1>5, <1>6 DEF InvParts
<1> QED BY InvForm, PTL, <1>7

LEMMA StepGcDone ==
  ASSUME TxPoolInv, GcDone
  PROVE  TxPoolInv'
<1> DEFINE a == job.entry.tx.sender
           node == IF job.skipped.known THEN job.skipped ELSE gc[a]
<1>1. job \in JobType /\ a \in Addr /\ job # Idle
  BY InvForm, BatchAssumption DEF InvParts, GcDone, Idle, JobType, EntryType
<1>2. /\ job' = [job EXCEPT !.phase = "insert"]
      /\ gc' = [gc EXCEPT ![a] = node]
      /\ UNCHANGED <<pool, txs, count, unpacked, ready, gcSize, packing>>
      /\ job.phase = "gc"
  BY DEF GcDone
<1>3. CoreOK(pool, txs, count, unpacked)'
  BY <1>2, InvForm, CoreUnchanged DEF InvParts
<1>4. ViewTypes /\ (\A c \in Addr : ViewExact(pool, c)) /\ SkippedOK
  BY InvForm DEF InvParts
<1>5. node \in GcType
  BY <1>1, <1>4 DEF ViewTypes, JobType
<1>6. ViewTypes' /\ gc'[a] = node /\ \A c \in Addr : c # a => gc'[c] = gc[c]
  <2> HIDE DEF node
  <2> QED BY <1>1, <1>2, <1>4, <1>5 DEF ViewTypes
<1>7. node.known => ready[a].known /\ node.count = CountLess(pool, a, ready[a].nonce)
  BY <1>1, <1>2, <1>4 DEF SkippedOK, ViewExact
<1>8. (\A c \in Addr : ViewExact(pool, c))'
  <2> HIDE DEF node
  <2> QED BY <1>1, <1>2, <1>4, <1>6, <1>7 DEF ViewExact
<1>9. job' \in JobType /\ job'.phase = "insert" /\ job'.entry = job.entry
        /\ job'.skipped = job.skipped
  BY <1>1, <1>2 DEF JobType
<1>10. SkippedOK'
  BY <1>1, <1>2, <1>4, <1>9 DEF SkippedOK
<1>11. InvParts'
  BY <1>3, <1>6, <1>8, <1>9, <1>10 DEF InvParts
<1> QED BY InvForm, PTL, <1>11

LEMMA StepInsertFails ==
  ASSUME TxPoolInv, InsertFails
  PROVE  TxPoolInv'
<1>1. job' = Idle /\ UNCHANGED <<pool, txs, count, unpacked, ready, gc, gcSize, packing>>
  BY DEF InsertFails
<1>2. CoreOK(pool, txs, count, unpacked)'
  BY <1>1, InvForm, CoreUnchanged DEF InvParts
<1>3. (\A c \in Addr : ViewExact(pool, c))' /\ ViewTypes'
  BY <1>1, InvForm DEF InvParts, ViewExact, ViewTypes
<1>4. InvParts'
  BY <1>1, <1>2, <1>3 DEF InvParts, SkippedOK
<1> QED BY <1>4, InvForm, PTL

(* The transactions of other senders are where they were.                  *)
LEMMA OtherViews ==
  ASSUME NEW P, NEW Q, NEW c, Bucket(P, c) = Bucket(Q, c), ViewExact(P, c)
  PROVE  ViewExact(Q, c)
BY CountLessLocal DEF ViewExact

LEMMA InsertJob ==
  ASSUME InvParts, job.phase = "insert"
  PROVE  job \in JobType /\ job.entry \in EntryType /\ job.entry.tx.sender \in Addr
<1>1. job \in {Idle} \cup JobType
  BY DEF InvParts
<1>2. job # Idle
  BY DEF Idle
<1>3. job \in JobType
  BY <1>1, <1>2
<1>4. QED BY <1>3, BatchAssumption DEF JobType, EntryType

LEMMA StepInsertNew ==
  ASSUME TxPoolInv, InsertNew
  PROVE  TxPoolInv'
<1> SUFFICES ASSUME NEW e, e = job.entry, NEW P, P = pool \cup {e},
                    NEW n, n = job.nonce, NEW b, b = job.balance,
                    NEW B, B = packing[e.tx.sender]
             PROVE  TxPoolInv'
  OBVIOUS
<1> DEFINE a == e.tx.sender
<1>1. job \in JobType /\ e \in EntryType /\ a \in Addr
  <2>1. InvParts
    BY InvForm
  <2>2. job.phase = "insert"
    BY DEF InsertNew
  <2>3. QED BY <2>1, <2>2, InsertJob
<1>2. /\ ~Exists(pool, a, e.tx.nonce) /\ ~IsFull(SpaceOf[a])
      /\ pool' = P
      /\ txs' = TxsInsert(txs, e.tx)
      /\ count' = CountInsert(count, txs, e.tx)
      /\ unpacked' = UnpackedMore(unpacked, e)
      /\ Recalculate(P, B, a, n, b)
      /\ job' = Idle
  BY DEF InsertNew, JobSpace
<1>3. CoreOK(pool, txs, count, unpacked) /\ ViewTypes /\ \A c \in Addr : ViewExact(pool, c)
  BY InvForm DEF InvParts
<1>4. count[SpaceOf[a]] < Capacity
  <2>1. count[SpaceOf[a]] \in 0..Capacity /\ Capacity \in Nat
    BY <1>1, <1>3, TxPoolAssumption DEF CoreOK
  <2>2. QED BY <1>2, <2>1 DEF IsFull
<1>5. CoreOK(P, TxsInsert(txs, e.tx), CountInsert(count, txs, e.tx), UnpackedMore(unpacked, e))
  BY <1>1, <1>2, <1>3, <1>4, CoreAdd
<1>6. P \subseteq EntryType /\ IsFiniteSet(P)
  BY <1>5 DEF CoreOK
<1>7. B \subseteq TxsOf(Bucket(P, a))
  BY <1>1, <1>3 DEF ViewExact, TxsOf, Bucket
<1>8. Contains(P, a)
  BY DEF Contains
<1>9. \A c \in Addr : c # a => ViewExact(P, c)
  <2>1. ASSUME NEW c \in Addr, c # a
        PROVE  Bucket(pool, c) = Bucket(P, c)
    BY <2>1 DEF Bucket
  <2>2. QED BY <1>3, <2>1, OtherViews
<1>10. n \in Nat /\ b \in Nat
  BY <1>1 DEF JobType
<1>11. ViewTypes' /\ \A c \in Addr : c = a \/ ViewExact(P, c) => ViewExact(P, c)'
  <2> HIDE DEF a
  <2> QED BY <1>1, <1>2, <1>3, <1>6, <1>7, <1>8, <1>10, RecalculateFacts
<1>12. (\A c \in Addr : ViewExact(pool, c))'
  <2>1. \A c \in Addr : ViewExact(P, c)'
    BY <1>9, <1>11
  <2>2. QED BY <1>2, <2>1 DEF ViewExact
<1>13. CoreOK(pool, txs, count, unpacked)'
  BY <1>2, <1>5 DEF CoreOK, TxsOf, SpaceCount, Unpacked
<1>14. InvParts'
  BY <1>2, <1>11, <1>12, <1>13 DEF InvParts, SkippedOK
<1> QED BY <1>14, InvForm, PTL

LEMMA CoreNext ==
  ASSUME CoreOK(pool', txs', count', unpacked')
  PROVE  CoreOK(pool, txs, count, unpacked)'
BY DEF CoreOK, TxsOf, SpaceCount, Unpacked

LEMMA StepInsertUpdate ==
  ASSUME TxPoolInv, InsertUpdate
  PROVE  TxPoolInv'
<1> SUFFICES ASSUME NEW e, e = job.entry,
                    NEW old, old = Entry(pool, e.tx.sender, e.tx.nonce),
                    NEW P, P = (pool \ {old}) \cup {e},
                    NEW n, n = job.nonce, NEW b, b = job.balance,
                    NEW B, B = SplitOffSuffix(packing[e.tx.sender], e.tx.nonce)
             PROVE  TxPoolInv'
  OBVIOUS
<1> DEFINE a == e.tx.sender
<1>1. job \in JobType /\ e \in EntryType /\ a \in Addr
  <2>1. InvParts
    BY InvForm
  <2>2. job.phase = "insert"
    BY DEF InsertUpdate
  <2>3. QED BY <2>1, <2>2, InsertJob
<1>2. /\ Exists(pool, a, e.tx.nonce)
      /\ pool' = P
      /\ txs' = TxsInsert(TxsRemove(txs, old.tx), e.tx)
      /\ count' = CountInsert(CountRemove(count, txs, old.tx), TxsRemove(txs, old.tx), e.tx)
      /\ unpacked' = UnpackedMore(UnpackedLess(unpacked, old), e)
      /\ Recalculate(P, B, a, n, b)
      /\ job' = Idle
  BY DEF InsertUpdate
<1>3. CoreOK(pool, txs, count, unpacked) /\ ViewTypes /\ \A c \in Addr : ViewExact(pool, c)
  BY InvForm DEF InvParts
<1>4. old \in pool /\ old.tx.sender = a /\ old.tx.nonce = e.tx.nonce
  <2>1. Exists(pool, a, e.tx.nonce)
    BY <1>2
  <2>2. /\ Entry(pool, a, e.tx.nonce) \in pool
        /\ Entry(pool, a, e.tx.nonce).tx.sender = a
        /\ Entry(pool, a, e.tx.nonce).tx.nonce = e.tx.nonce
    <3> HIDE DEF a
    <3> QED BY <2>1, EntryFacts
  <2>3. old = Entry(pool, a, e.tx.nonce)
    OBVIOUS
  <2>4. QED BY <2>2, <2>3
<1>5. /\ CoreOK(pool \ {old}, TxsRemove(txs, old.tx), CountRemove(count, txs, old.tx),
                UnpackedLess(unpacked, old))
      /\ CountRemove(count, txs, old.tx)[SpaceOf[a]] < Capacity
  BY <1>3, <1>4, CoreRemove
<1>6. ~Exists(pool \ {old}, a, e.tx.nonce)
  BY <1>3, <1>4 DEF Exists, CoreOK
<1>7. CoreOK(P, TxsInsert(TxsRemove(txs, old.tx), e.tx),
             CountInsert(CountRemove(count, txs, old.tx), TxsRemove(txs, old.tx), e.tx),
             UnpackedMore(UnpackedLess(unpacked, old), e))
  BY <1>1, <1>5, <1>6, CoreAdd
<1>8. P \subseteq EntryType /\ IsFiniteSet(P)
  BY <1>7 DEF CoreOK
<1>9. B \subseteq TxsOf(Bucket(P, a))
  <2>1. ASSUME NEW t \in B
        PROVE  t \in TxsOf(Bucket(P, a))
    <3>1. t \in TxsOf(Bucket(pool, a)) /\ t.nonce < e.tx.nonce
      BY <1>1, <1>3 DEF ViewExact, SplitOffSuffix, Below
    <3>2. PICK f \in pool : f.tx = t /\ f.tx.sender = a
      BY <3>1 DEF TxsOf, Bucket
    <3>3. t.nonce \in Nat /\ e.tx.nonce \in Nat
      BY <1>1, <1>3, <3>2, BatchAssumption DEF CoreOK, EntryType
    <3>4. f # old
      BY <1>4, <3>1, <3>2, <3>3
    <3>5. QED BY <3>2, <3>4 DEF TxsOf, Bucket
  <2>2. QED BY <2>1
<1>10. Contains(P, a)
  BY DEF Contains
<1>11. \A c \in Addr : c # a => ViewExact(P, c)
  <2>1. ASSUME NEW c \in Addr, c # a
        PROVE  Bucket(pool, c) = Bucket(P, c)
    BY <1>4, <2>1 DEF Bucket
  <2>2. QED BY <1>3, <2>1, OtherViews
<1>12. n \in Nat /\ b \in Nat
  BY <1>1 DEF JobType
<1>13. ViewTypes' /\ \A c \in Addr : c = a \/ ViewExact(P, c) => ViewExact(P, c)'
  <2> HIDE DEF a
  <2> QED BY <1>1, <1>2, <1>3, <1>8, <1>9, <1>10, <1>12, RecalculateFacts
<1>14. (\A c \in Addr : ViewExact(pool, c))'
  <2>1. \A c \in Addr : ViewExact(P, c)'
    BY <1>11, <1>13
  <2>2. QED BY <1>2, <2>1 DEF ViewExact
<1>15. CoreOK(pool, txs, count, unpacked)'
  BY <1>2, <1>7, CoreNext
<1>16. InvParts'
  BY <1>2, <1>13, <1>14, <1>15 DEF InvParts, SkippedOK
<1> QED BY <1>16, InvForm, PTL

LEMMA StepNotify ==
  ASSUME TxPoolInv, NEW a \in Addr, NEW n \in AccountNonce, NEW b \in Balance,
         NotifyModifiedAccount(a, n, b)
  PROVE  TxPoolInv'
<1> SUFFICES ASSUME NEW P, P = pool, NEW B, B = packing[a]
             PROVE  TxPoolInv'
  OBVIOUS
<1>1. /\ job = Idle /\ Recalculate(P, B, a, n, b)
      /\ UNCHANGED <<pool, txs, count, unpacked, job>>
  BY DEF NotifyModifiedAccount
<1>2. CoreOK(pool, txs, count, unpacked) /\ ViewTypes /\ \A c \in Addr : ViewExact(pool, c)
  BY InvForm DEF InvParts
<1>3. P \subseteq EntryType /\ IsFiniteSet(P) /\ B \subseteq TxsOf(Bucket(P, a))
  BY <1>2 DEF CoreOK, ViewExact
<1>4. n \in Nat /\ b \in Nat
  BY TxPoolAssumption
<1>5. ViewTypes' /\ \A c \in Addr : ViewExact(P, c) => ViewExact(P, c)'
  BY <1>1, <1>2, <1>3, <1>4, RecalculateFacts
<1>6. (\A c \in Addr : ViewExact(pool, c))'
  <2>1. \A c \in Addr : ViewExact(P, c)'
    BY <1>2, <1>5
  <2>2. QED BY <1>1, <2>1 DEF ViewExact
<1>7. CoreOK(pool, txs, count, unpacked)'
  BY <1>1, <1>2, CoreUnchanged
<1>8. InvParts'
  BY <1>1, <1>5, <1>6, <1>7 DEF InvParts, SkippedOK
<1> QED BY <1>8, InvForm, PTL

LEMMA StepDrop ==
  ASSUME TxPoolInv, NEW t \in Tx, DropFromPacking(t)
  PROVE  TxPoolInv'
<1>1. /\ job = Idle
      /\ packing' = [packing EXCEPT ![t.sender] = SplitOffSuffix(packing[t.sender], t.nonce)]
      /\ UNCHANGED <<pool, txs, count, unpacked, ready, gc, gcSize, job>>
  BY DEF DropFromPacking
<1>2. CoreOK(pool, txs, count, unpacked) /\ ViewTypes /\ \A c \in Addr : ViewExact(pool, c)
  BY InvForm DEF InvParts
<1>3. \A c \in Addr : packing'[c] \subseteq packing[c] /\ packing' \in [Addr -> SUBSET Tx]
  BY <1>1, <1>2 DEF ViewTypes, SplitOffSuffix, Below
<1>4. ViewTypes' /\ (\A c \in Addr : ViewExact(pool, c))'
  <2>1. packing' \in [Addr -> SUBSET Tx]
    BY <1>1, <1>2 DEF ViewTypes, SplitOffSuffix, Below
  <2>2. QED BY <1>1, <1>2, <1>3, <2>1 DEF ViewTypes, ViewExact
<1>5. CoreOK(pool, txs, count, unpacked)'
  BY <1>1, <1>2, CoreUnchanged
<1>6. InvParts'
  BY <1>1, <1>4, <1>5 DEF InvParts, SkippedOK
<1> QED BY <1>6, InvForm, PTL

(* Taking the lowest nonce of a away lowers the number of its nonces below *)
(* n by one, when there is one.                                            *)
LEMMA CountLessEvict ==
  ASSUME NEW P, P \subseteq EntryType, IsFiniteSet(P), NEW a, Contains(P, a),
         NEW n \in Nat, NEW low, low = Lowest(P, a)
  PROVE  CountLess(P \ {low}, a, n) =
           IF CountLess(P, a, n) > 0 THEN CountLess(P, a, n) - 1 ELSE 0
<1> DEFINE L == {e \in P : e.tx.sender = a /\ e.tx.nonce < n}
<1>1. low \in P /\ low.tx.sender = a /\ \A f \in P : f.tx.sender = a => low.tx.nonce <= f.tx.nonce
  BY LowestFacts
<1>2. IsFiniteSet(L)
  BY FS_Subset
<1>3. CountLess(P, a, n) = Cardinality(L) /\ CountLess(P \ {low}, a, n) = Cardinality(L \ {low})
  <2>1. {e \in P \ {low} : e.tx.sender = a /\ e.tx.nonce < n} = L \ {low}
    OBVIOUS
  <2>2. QED BY <2>1 DEF CountLess
<1>4. \A e \in P : e.tx.nonce \in Nat
  BY BatchAssumption DEF EntryType
<1>5. CASE low \in L
  <2>1. Cardinality(L \ {low}) = Cardinality(L) - 1 /\ Cardinality(L) \in Nat
    BY <1>2, <1>5, FS_RemoveElement, FS_CardinalityType
  <2>2. Cardinality(L) # 0
    BY <1>2, <1>5, FS_EmptySet
  <2>3. QED
    <3> HIDE DEF L
    <3> QED BY <1>3, <2>1, <2>2
<1>6. CASE low \notin L
  <2>1. ~(low.tx.nonce < n)
    BY <1>1, <1>6
  <2>2. \A e \in L : FALSE
    BY <1>1, <1>4, <2>1
  <2>3. L = {} /\ L \ {low} = {}
    BY <2>2
  <2>4. Cardinality(L \ {low}) = 0 /\ Cardinality(L) = 0
    BY <2>3, FS_EmptySet
  <2>5. QED
    <3> HIDE DEF L
    <3> QED BY <1>3, <2>4
<1>7. QED BY <1>5, <1>6

LEMMA StepGcEvictEmpty ==
  ASSUME TxPoolInv, NEW a \in Addr, GcEvict(a), ~Contains(pool, a)
  PROVE  TxPoolInv'
<1>1. /\ gc' = [gc EXCEPT ![a] = NoGc]
      /\ gcSize' = GcSizeSet(a, NoGc)
      /\ UNCHANGED <<pool, txs, count, unpacked, ready, packing, job>>
  BY DEF GcEvict
<1>2. InvParts
  BY InvForm
<1>3. ViewTypes'
  <2>1. GcSizeSet(a, NoGc) \in [Space -> Int]
    BY <1>2, GcSizeType DEF InvParts, NoGc
  <2>2. NoGc \in GcType
    BY DEF NoGc, GcType
  <2>3. QED BY <1>1, <1>2, <2>1, <2>2 DEF ViewTypes, InvParts
<1>4. (\A c \in Addr : ViewExact(pool, c))'
  <2>1. \A c \in Addr : gc'[c].known => gc'[c] = gc[c]
    BY <1>1, <1>2 DEF InvParts, ViewTypes, NoGc
  <2>2. QED BY <1>1, <1>2, <2>1 DEF InvParts, ViewExact, CountLess
<1>5. CoreOK(pool, txs, count, unpacked)'
  BY <1>1, <1>2, CoreUnchanged DEF InvParts
<1>6. SkippedOK'
  <2>1. \A c \in Addr : ~gc[c].known => ~gc'[c].known
    BY <1>1, <1>2 DEF InvParts, ViewTypes, NoGc
  <2>2. job # Idle => job.entry.tx.sender \in Addr
    BY <1>2, BatchAssumption DEF InvParts, JobType, EntryType
  <2>3. QED BY <1>1, <1>2, <2>1, <2>2 DEF InvParts, SkippedOK, CountLess, Idle
<1>7. InvParts'
  BY <1>1, <1>2, <1>3, <1>4, <1>5, <1>6 DEF InvParts, Idle
<1> QED BY <1>7, InvForm, PTL

LEMMA StepGcEvictLowest ==
  ASSUME TxPoolInv, NEW a \in Addr, GcEvict(a), Contains(pool, a)
  PROVE  TxPoolInv'
<1> SUFFICES ASSUME NEW low, low = Lowest(pool, a), NEW P, P = pool \ {low},
                    NEW node, node = NodeAfterEviction(P, a)
             PROVE  TxPoolInv'
  OBVIOUS
<1>1. /\ gc[a].known
      /\ pool' = P
      /\ txs' = TxsRemove(txs, low.tx)
      /\ count' = CountRemove(count, txs, low.tx)
      /\ unpacked' = UnpackedLess(unpacked, low)
      /\ packing' = [packing EXCEPT ![a] =
           IF Contains(P, a) THEN SplitOffPrefix(packing[a], low.tx.nonce + 1) ELSE {}]
      /\ ready' = [ready EXCEPT ![a] = IF Contains(P, a) THEN ready[a] ELSE NoReady]
      /\ gc' = [gc EXCEPT ![a] = node]
      /\ gcSize' = GcSizeSet(a, node)
      /\ UNCHANGED job
  BY DEF GcEvict, IsTop
<1>2. InvParts /\ ViewTypes /\ \A c \in Addr : ViewExact(pool, c)
  BY InvForm DEF InvParts
<1>3. pool \subseteq EntryType /\ IsFiniteSet(pool)
  BY <1>2 DEF InvParts, CoreOK
<1>4. low \in pool /\ low.tx.sender = a /\ \A f \in pool : f.tx.sender = a => low.tx.nonce <= f.tx.nonce
  BY <1>3, LowestFacts
<1>5. CoreOK(pool, txs, count, unpacked)'
  <2>1. CoreOK(P, TxsRemove(txs, low.tx), CountRemove(count, txs, low.tx), UnpackedLess(unpacked, low))
    BY <1>2, <1>4, CoreRemove DEF InvParts
  <2>2. QED BY <1>1, <2>1, CoreNext
<1>6. /\ node \in GcType
      /\ node.known <=> Contains(P, a)
      /\ Contains(P, a) => node.count = IF gc[a].count > 0 THEN gc[a].count - 1 ELSE 0
  <2>1. CASE Contains(P, a)
    <3>1. Lowest(P, a) \in EntryType
      BY <1>3, <2>1, LowestFacts
    <3>2. Lowest(P, a).tx.price \in Nat
      BY <3>1, BatchAssumption DEF EntryType
    <3>3. gc[a].count \in Nat
      BY <1>2 DEF ViewTypes, GcType
    <3>4. (IF gc[a].count > 0 THEN gc[a].count - 1 ELSE 0) \in Nat
      BY <3>3
    <3>5. QED BY <2>1, <3>2, <3>4 DEF NodeAfterEviction, GcType
  <2>2. CASE ~Contains(P, a)
    BY <2>2 DEF NodeAfterEviction, NoGc, GcType
  <2>3. QED BY <2>1, <2>2
<1>7. ViewTypes'
  <2>1. GcSizeSet(a, node) \in [Space -> Int]
    BY <1>2, <1>6, GcSizeType DEF GcType
  <2>2. NoReady \in ReadyType
    BY DEF NoReady, ReadyType
  <2>3. SplitOffPrefix(packing[a], low.tx.nonce + 1) \subseteq packing[a]
    BY DEF SplitOffPrefix, From
  <2>4. QED BY <1>1, <1>2, <1>6, <2>1, <2>2, <2>3 DEF ViewTypes
<1>8. ASSUME NEW c \in Addr
      PROVE  ViewExact(P, c)'
  <2>1. CASE c # a
    <3>1. Bucket(P, c) = Bucket(pool, c)
      BY <1>4, <2>1 DEF Bucket
    <3>2. ViewExact(P, c)
      BY <1>2, <3>1, OtherViews
    <3>3. packing'[c] = packing[c] /\ gc'[c] = gc[c] /\ ready'[c] = ready[c]
      BY <1>1, <1>2, <2>1 DEF ViewTypes
    <3>4. QED BY <3>2, <3>3 DEF ViewExact
  <2>2. CASE c = a
    <3>1. /\ packing'[a] = IF Contains(P, a) THEN SplitOffPrefix(packing[a], low.tx.nonce + 1) ELSE {}
          /\ gc'[a] = node
          /\ ready'[a] = IF Contains(P, a) THEN ready[a] ELSE NoReady
      BY <1>1, <1>2 DEF ViewTypes
    <3>2. packing'[a] \subseteq TxsOf(Bucket(P, a))
      <4>1. ASSUME NEW t \in packing'[a]
            PROVE  t \in TxsOf(Bucket(P, a))
        <5>1. t \in packing[a] /\ t.nonce >= low.tx.nonce + 1
          BY <3>1, <4>1 DEF SplitOffPrefix, From
        <5>2. PICK f \in pool : f.tx = t /\ f.tx.sender = a
          BY <1>2, <5>1 DEF ViewExact, TxsOf, Bucket
        <5>3. f.tx.nonce \in Nat
          BY <1>3, BatchAssumption DEF EntryType
        <5>4. f # low
          BY <5>1, <5>2, <5>3
        <5>5. QED BY <5>2, <5>4 DEF TxsOf, Bucket
      <4>2. QED BY <4>1
    <3>3. node.known => ready'[a].known /\ node.count = CountLess(P, a, ready'[a].nonce)
      <4>1. ready[a].known /\ gc[a].count = CountLess(pool, a, ready[a].nonce)
        BY <1>1, <1>2 DEF ViewExact
      <4>2. ready[a].nonce \in Nat
        BY <1>2 DEF ViewTypes, ReadyType
      <4>3. CountLess(P, a, ready[a].nonce) = IF gc[a].count > 0 THEN gc[a].count - 1 ELSE 0
        BY <1>3, <4>1, <4>2, CountLessEvict
      <4>4. QED BY <1>6, <3>1, <4>1, <4>3
    <3>4. QED BY <2>2, <3>1, <3>2, <3>3 DEF ViewExact
  <2>3. QED BY <2>1, <2>2
<1>9. (\A c \in Addr : ViewExact(pool, c))'
  BY <1>1, <1>8 DEF ViewExact
<1>10. SkippedOK'
  <2> SUFFICES ASSUME job # Idle, job.skipped.known
               PROVE  LET s == job.entry.tx.sender
                      IN  /\ ready'[s].known
                          /\ job.phase = "gc" => ~gc'[s].known
                          /\ job.phase = "gc" =>
                               job.skipped.count = CountLess(pool', s, ready'[s].nonce)
    BY <1>1 DEF SkippedOK, CountLess, Idle
  <2> DEFINE s == job.entry.tx.sender
  <2>1. s \in Addr
    BY <1>2, BatchAssumption DEF InvParts, JobType, EntryType
  <2>2. job.phase = "gc"
    BY DEF GcEvict, Collecting
  <2>3. ready[s].known /\ ~gc[s].known /\ job.skipped.count = CountLess(pool, s, ready[s].nonce)
    BY <1>2, <2>2 DEF InvParts, SkippedOK
  <2>4. s # a
    BY <1>1, <2>3
  <2>5. ready'[s] = ready[s] /\ gc'[s] = gc[s]
    <3> HIDE DEF s
    <3> QED BY <1>1, <1>2, <2>1, <2>4 DEF ViewTypes
  <2>6. Bucket(pool, s) = Bucket(P, s)
    BY <1>4, <2>4 DEF Bucket
  <2>7. CountLess(pool, s, ready[s].nonce) = CountLess(P, s, ready[s].nonce)
    BY <2>6, CountLessLocal
  <2>8. QED BY <1>1, <2>3, <2>5, <2>7
<1>11. InvParts'
  BY <1>1, <1>2, <1>5, <1>7, <1>9, <1>10 DEF InvParts, Idle
<1> QED BY <1>11, InvForm, PTL

LEMMA EmptyPool == Init => InvParts
<1> SUFFICES ASSUME Init PROVE InvParts
  OBVIOUS
<1>1. IsFiniteSet({}) /\ Cardinality({}) = 0
  BY FS_EmptySet
<1>2. {t \in {} : ~t.packed} = {} /\ \A s : {t \in {} : SpaceOf[t.sender] = s} = {}
  OBVIOUS
<1>3. CoreOK({}, {}, [s \in Space |-> 0], 0)
  BY <1>1, <1>2, TxPoolAssumption DEF CoreOK, TxsOf, SpaceCount, Unpacked
<1>4. ViewTypes
  BY DEF Init, ViewTypes, ReadyType, GcType, NoReady, NoGc
<1>5. \A c \in Addr : ViewExact(pool, c)
  BY DEF Init, ViewExact, NoGc
<1>6. QED BY <1>3, <1>4, <1>5 DEF Init, InvParts, SkippedOK

LEMMA StepClear ==
  ASSUME TxPoolInv, Clear
  PROVE  TxPoolInv'
<1>1. Init'
  BY DEF Clear, Init
<1>2. InvParts'
  BY <1>1, EmptyPool, PTL
<1> QED BY <1>2, InvForm, PTL

-----------------------------------------------------------------------------
(* Every step of the transaction pool keeps its index, counters and caches *)
(* in agreement with the nonce pools, whatever the pool's capacity, the    *)
(* transactions and the account states.                                    *)
THEOREM TxPoolInvInductive == Spec => []TxPoolInv
<1>1. Init => TxPoolInv
  BY EmptyPool, InvForm
<1>2. TxPoolInv /\ [Next]_txVars => TxPoolInv'
  <2> SUFFICES ASSUME TxPoolInv, [Next]_txVars
               PROVE  TxPoolInv'
    OBVIOUS
  <2>1. ASSUME NEW t \in Tx, NEW mode \in Mode, NEW n \in AccountNonce, NEW b \in Balance,
               NEW cost \in Cost[t], InsertTransaction(t, mode.packed, mode.force, cost, n, b)
        PROVE  TxPoolInv'
    BY <2>1, StepInsertTransaction
  <2>2. CASE GcSkipSelf
    BY <2>2, StepGcSkipSelf
  <2>3. ASSUME NEW a \in Addr, GcGiveUp(a)
        PROVE  TxPoolInv'
    BY <2>3, StepGcGiveUp
  <2>4. ASSUME NEW a \in Addr, GcEvict(a)
        PROVE  TxPoolInv'
    BY <2>4, StepGcEvictEmpty, StepGcEvictLowest
  <2>5. CASE GcDone
    BY <2>5, StepGcDone
  <2>6. CASE InsertFails
    BY <2>6, StepInsertFails
  <2>7. CASE InsertNew
    BY <2>7, StepInsertNew
  <2>8. CASE InsertUpdate
    BY <2>8, StepInsertUpdate
  <2>9. ASSUME NEW a \in Addr, NEW n \in AccountNonce, NEW b \in Balance,
               NotifyModifiedAccount(a, n, b)
        PROVE  TxPoolInv'
    BY <2>9, StepNotify
  <2>10. ASSUME NEW t \in Tx, DropFromPacking(t)
         PROVE  TxPoolInv'
    BY <2>10, StepDrop
  <2>11. CASE Clear
    BY <2>11, StepClear
  <2>12. CASE UNCHANGED txVars
    <3>1. InvParts
      BY InvForm
    <3>2. CoreOK(pool, txs, count, unpacked)'
      BY <2>12, <3>1, CoreUnchanged DEF InvParts, txVars
    <3>3. InvParts'
      BY <2>12, <3>1, <3>2 DEF InvParts, ViewTypes, ViewExact, SkippedOK, txVars, CountLess, Idle
    <3>4. QED BY <3>3, InvForm, PTL
  <2>13. QED
    BY <2>1, <2>2, <2>3, <2>4, <2>5, <2>6, <2>7, <2>8, <2>9, <2>10, <2>11, <2>12 DEF Next
<1>3. QED BY <1>1, <1>2, PTL DEF Spec

(* The types, with every counter within the capacity and no counter below  *)
(* zero.                                                                   *)
THEOREM TxPoolTypes == Spec => []TxPoolTypeOK
<1>1. TxPoolInv => TxPoolTypeOK
  BY DEF TxPoolInv
<1>2. QED BY <1>1, TxPoolInvInductive, PTL

(* get_by_hash sees exactly the transactions of the nonce pools.           *)
THEOREM IndexTheorem == Spec => []IndexMatchesPool
<1>1. TxPoolInv => IndexMatchesPool
  BY DEF TxPoolInv
<1>2. QED BY <1>1, TxPoolInvInductive, PTL

(* TransactionSet::count and unpacked_transaction_count never drift.       *)
THEOREM CountersTheorem == Spec => []CountersExact
<1>1. TxPoolInv => CountersExact
  BY DEF TxPoolInv
<1>2. QED BY <1>1, TxPoolInvInductive, PTL

(* The collector's count of executed transactions of a sender is exact     *)
(* between evictions, insertions and notifications.                        *)
THEOREM GcCountTheorem == Spec => []GcCountExact
<1>1. TxPoolInv => GcCountExact
  BY DEF TxPoolInv
<1>2. QED BY <1>1, TxPoolInvInductive, PTL

(* A transaction offered for packing is still in the pool.                 *)
THEOREM PackingTheorem == Spec => []PackingWithinPool
<1>1. TxPoolInv => PackingWithinPool
  BY DEF TxPoolInv
<1>2. QED BY <1>1, TxPoolInvInductive, PTL
=============================================================================
