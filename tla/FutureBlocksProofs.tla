------------------------- MODULE FutureBlocksProofs -------------------------
(* What FutureBlocks keeps, for any headers, handlers, capacity and clock. *)
EXTENDS FutureBlocks, FiniteSetTheorems, TLAPS

(* The three invariants are inductive together: IndexMatches needs the     *)
(* types, and WithinCapacity that an inserted header was not there.        *)
FutureInv == FutureTypeOK /\ IndexMatches /\ WithinCapacity

(* Sets of headers are finite. *)
LEMMA HeadersFinite == ASSUME NEW S \in SUBSET Headers
                       PROVE  IsFiniteSet(S) /\ Cardinality(S) \in Nat
BY FutureAssumption, FS_Subset, FS_CardinalityType

(* A capacity is a natural number, and so is the last time. *)
LEMMA Bounds == Capacity \in Nat /\ MaxTime \in Nat /\ Drift \in Nat
BY FutureAssumption

LEMMA FutureInit == Init => FutureInv
<1> SUFFICES ASSUME Init PROVE FutureInv
  OBVIOUS
<1>1. FutureTypeOK
  BY Bounds DEF Init, FutureTypeOK
<1>2. IndexMatches
  BY DEF Init, IndexMatches
<1>3. WithinCapacity
  BY FS_EmptySet DEF Init, WithinCapacity
<1> QED
  BY <1>1, <1>2, <1>3 DEF FutureInv

(* What a handler does with the header in its hand. *)
LEMMA StepInsert == ASSUME FutureInv, NEW t \in Handlers, Insert(t)
                    PROVE  FutureInv'
<1> DEFINE h == hand[t]
<1>1. h \in Headers
  BY DEF FutureInv, FutureTypeOK, Insert
<1>2. Timestamp[h] \in 0 .. MaxTime
  BY <1>1, FutureAssumption
<1>3. CASE h \in index
  <2>1. FutureTypeOK'
    BY <1>3 DEF FutureInv, FutureTypeOK, Insert
  <2>2. UNCHANGED <<container, index, size>>
    BY <1>3 DEF Insert
  <2> QED
    BY <2>1, <2>2 DEF FutureInv, IndexMatches, WithinCapacity
<1>4. CASE h \notin index /\ size + 1 > Capacity
  <2>1. PICK g \in Latest(h) :
          /\ container' = [With(h) EXCEPT ![Timestamp[g]] = @ \ {g}]
          /\ index' = (index \cup {h}) \ {g}
          /\ evicted' = evicted \cup {g}
    BY <1>4 DEF Insert
  <2>2. size' = size
    BY <1>4, Bounds DEF Insert, SizeAfterInsert, FutureInv, FutureTypeOK
  <2>3. g \in Headers /\ g \in index \cup {h}
    BY <1>1 DEF Latest, FutureInv, FutureTypeOK
  <2>4. With(h) \in [0 .. MaxTime -> SUBSET Headers]
    BY <1>1 DEF With, FutureInv, FutureTypeOK
  <2>5. container' \in [0 .. MaxTime -> SUBSET Headers]
    BY <2>1, <2>4
  <2>6. FutureTypeOK'
    BY <2>1, <2>2, <2>3, <2>5, <1>1 DEF Insert, FutureInv, FutureTypeOK
  <2>7. IndexMatches'
    <3> SUFFICES ASSUME NEW f \in Headers, NEW ts \in 0 .. MaxTime
                 PROVE  f \in container'[ts] <=> f \in index' /\ ts = Timestamp[f]
      BY DEF IndexMatches
    <3>1. f \in container[ts] <=> f \in index /\ ts = Timestamp[f]
      BY DEF FutureInv, IndexMatches
    <3>2. f \in With(h)[ts] <=> f \in container[ts] \/ (f = h /\ ts = Timestamp[h])
      BY DEF With, FutureInv, FutureTypeOK
    <3>3. f \in container'[ts] <=> f \in With(h)[ts] /\ ~(f = g /\ ts = Timestamp[g])
      BY <2>1, <2>4
    <3> QED
      BY <3>1, <3>2, <3>3, <2>1, <2>3, <1>4
  <2>8. WithinCapacity'
    <3>1. index \in SUBSET Headers
      BY DEF FutureInv, FutureTypeOK
    <3>2. Cardinality(index \cup {h}) = Cardinality(index) + 1
      BY <3>1, <1>4, HeadersFinite, FS_AddElement
    <3>3. Cardinality(index') = Cardinality(index \cup {h}) - 1
      <4>1. IsFiniteSet(index \cup {h})
        BY <3>1, <1>1, HeadersFinite
      <4>2. Cardinality((index \cup {h}) \ {g}) = Cardinality(index \cup {h}) - 1
        BY <4>1, <2>3, FS_RemoveElement
      <4> QED
        BY <4>2, <2>1
    <3> QED
      BY <3>1, <3>2, <3>3, <2>2, HeadersFinite DEF FutureInv, WithinCapacity
  <2> QED
    BY <2>6, <2>7, <2>8 DEF FutureInv
<1>5. CASE h \notin index /\ ~(size + 1 > Capacity)
  <2>1. container' = With(h) /\ index' = index \cup {h} /\ UNCHANGED evicted /\ size' = size + 1
    BY <1>5 DEF Insert, SizeAfterInsert
  <2>2. With(h) \in [0 .. MaxTime -> SUBSET Headers]
    BY <1>1 DEF With, FutureInv, FutureTypeOK
  <2>3. FutureTypeOK'
    BY <2>1, <2>2, <1>1, <1>5, Bounds DEF Insert, FutureInv, FutureTypeOK
  <2>4. IndexMatches'
    <3> SUFFICES ASSUME NEW f \in Headers, NEW ts \in 0 .. MaxTime
                 PROVE  f \in container'[ts] <=> f \in index' /\ ts = Timestamp[f]
      BY DEF IndexMatches
    <3>1. f \in container[ts] <=> f \in index /\ ts = Timestamp[f]
      BY DEF FutureInv, IndexMatches
    <3>2. f \in With(h)[ts] <=> f \in container[ts] \/ (f = h /\ ts = Timestamp[h])
      BY DEF With, FutureInv, FutureTypeOK
    <3> QED
      BY <3>1, <3>2, <2>1
  <2>5. WithinCapacity'
    <3>1. index \in SUBSET Headers
      BY DEF FutureInv, FutureTypeOK
    <3>2. Cardinality(index') = Cardinality(index) + 1
      BY <3>1, <2>1, <1>5, HeadersFinite, FS_AddElement
    <3> QED
      BY <3>1, <3>2, <2>1, HeadersFinite DEF FutureInv, WithinCapacity, FutureTypeOK
  <2> QED
    BY <2>3, <2>4, <2>5 DEF FutureInv
<1> QED
  BY <1>3, <1>4, <1>5

(* What the timer does: headers only leave. *)
LEMMA StepGetBefore == ASSUME FutureInv, GetBefore
                       PROVE  FutureInv'
<1>1. Before \in SUBSET Headers
  <2>1. \A ts \in 0 .. now : ts \in 0 .. MaxTime
    BY Bounds DEF FutureInv, FutureTypeOK
  <2>2. \A ts \in 0 .. now : container[ts] \in SUBSET Headers
    BY <2>1 DEF FutureInv, FutureTypeOK
  <2> QED
    BY <2>2 DEF Before
<1>2. FutureTypeOK'
  BY <1>1 DEF GetBefore, IndexWithout, FutureInv, FutureTypeOK
<1>3. IndexMatches'
  <2> SUFFICES ASSUME NEW f \in Headers, NEW ts \in 0 .. MaxTime
               PROVE  f \in container'[ts] <=> f \in index' /\ ts = Timestamp[f]
    BY DEF IndexMatches
  <2>1. f \in container[ts] <=> f \in index /\ ts = Timestamp[f]
    BY DEF FutureInv, IndexMatches
  <2>2. Timestamp[f] \in 0 .. MaxTime /\ now \in 0 .. MaxTime /\ MaxTime \in Nat
    BY FutureAssumption, Bounds DEF FutureInv, FutureTypeOK
  <2>3. f \in Before <=> f \in index /\ Timestamp[f] <= now
    <3>1. \A s \in 0 .. now : f \in container[s] <=> f \in index /\ s = Timestamp[f]
      BY <2>2 DEF FutureInv, IndexMatches
    <3> QED
      BY <3>1, <2>2 DEF Before
  <2>4. f \in container'[ts] <=> ~(ts <= now) /\ f \in container[ts]
    BY DEF GetBefore
  <2>5. f \in index' <=> f \in index /\ f \notin Before
    BY DEF GetBefore, IndexWithout
  <2> QED
    BY <2>1, <2>3, <2>4, <2>5
<1>4. WithinCapacity'
  <2>1. index \in SUBSET Headers /\ index' \in SUBSET index /\ size' = size
    BY DEF GetBefore, IndexWithout, FutureInv, FutureTypeOK
  <2>2. Cardinality(index') <= Cardinality(index)
    BY <2>1, HeadersFinite, FS_Subset
  <2>3. Cardinality(index') \in Nat /\ Cardinality(index) \in Nat
    BY <2>1, HeadersFinite
  <2> QED
    BY <2>1, <2>2, <2>3, Bounds DEF WithinCapacity, FutureInv, FutureTypeOK
<1> QED
  BY <1>2, <1>3, <1>4 DEF FutureInv

(* The other steps leave the container alone. *)
LEMMA FutureStep == FutureInv /\ [Next]_vars => FutureInv'
<1> SUFFICES ASSUME FutureInv, [Next]_vars PROVE FutureInv'
  OBVIOUS
<1>1. CASE Tick
  BY <1>1, Bounds DEF Tick, FutureInv, FutureTypeOK, IndexMatches, WithinCapacity
<1>2. ASSUME NEW t \in Handlers, NEW h \in Headers, Receive(t, h)
      PROVE  FutureInv'
  <2>1. UNCHANGED <<container, index, size>>
    BY <1>2 DEF Receive
  <2>2. FutureTypeOK'
    BY <1>2 DEF Receive, FutureInv, FutureTypeOK
  <2> QED
    BY <2>1, <2>2 DEF FutureInv, IndexMatches, WithinCapacity
<1>3. ASSUME NEW h \in Headers, InsertDue(h)
      PROVE  FutureInv'
  BY <1>3 DEF InsertDue, FutureInv, FutureTypeOK, IndexMatches, WithinCapacity
<1>4. CASE UNCHANGED vars
  BY <1>4 DEF vars, FutureInv, FutureTypeOK, IndexMatches, WithinCapacity
<1> QED
  BY <1>1, <1>2, <1>3, <1>4, StepInsert, StepGetBefore DEF Next

THEOREM FutureInvariant == Spec => []FutureInv
BY FutureInit, FutureStep, PTL DEF Spec

(* get_before always finds the header of a hash: the two maps of the       *)
(* container agree.                                                        *)
THEOREM FutureSafe == Spec => []IndexMatches
<1>1. FutureInv => IndexMatches
  BY DEF FutureInv
<1> QED
  BY <1>1, FutureInvariant, PTL

(* The container holds no more headers than `size`, which is within the    *)
(* capacity.                                                               *)
THEOREM FutureWithin == Spec => [](WithinCapacity /\ size \in 0 .. Capacity)
<1>1. FutureInv => WithinCapacity /\ size \in 0 .. Capacity
  BY DEF FutureInv, FutureTypeOK
<1> QED
  BY <1>1, FutureInvariant, PTL

(* insert gives up a header with the latest timestamp. *)
THEOREM FutureEvictsLatest == Spec => EvictsLatest
<1> DEFINE Evicts == \A g \in evicted' \ evicted : \A h \in index' : Timestamp[h] <= Timestamp[g]
<1>1. FutureInv /\ [Next]_vars => [Evicts]_vars
  <2> SUFFICES ASSUME FutureInv, Next PROVE Evicts \/ UNCHANGED vars
    OBVIOUS
  <2>1. ASSUME NEW t \in Handlers, Insert(t) PROVE Evicts
    <3>1. CASE evicted' = evicted
      BY <3>1
    <3>2. CASE evicted' # evicted
      <4>1. PICK g \in Latest(hand[t]) : /\ index' = (index \cup {hand[t]}) \ {g}
                                         /\ evicted' = evicted \cup {g}
        BY <2>1, <3>2 DEF Insert
      <4> QED
        BY <4>1 DEF Latest
    <3> QED
      BY <3>1, <3>2
  <2>2. ASSUME ~ \E t \in Handlers : Insert(t) PROVE evicted' = evicted
    BY <2>2 DEF Next, Tick, Receive, GetBefore, InsertDue
  <2> QED
    BY <2>1, <2>2
<1> QED
  BY <1>1, FutureInvariant, PTL DEF Spec, EvictsLatest
=============================================================================
