------------------------- MODULE StateObjectProofs -------------------------
(***************************************************************************)
(* The State object implements the stack of copies, for any addresses, any  *)
(* balances and values and any depth of checkpoints.                        *)
(***************************************************************************)
EXTENDS StateObject, SequenceTheorems, WellFoundedInduction, TLAPS

(* A non-empty set of naturals has a least element, and First picks it.     *)
LEMMA FirstFacts ==
  ASSUME NEW S \in SUBSET Nat, S # {}
  PROVE  First(S) \in S /\ \A k \in S : First(S) <= k
<1>1. \E x \in S : \A y \in S : ~(<<y, x>> \in OpToRel(<, Nat))
  BY NatLessThanWellFounded, WFMin, Zenon
<1>2. \A x, y \in Nat : y < x => <<y, x>> \in OpToRel(<, Nat)
  BY Zenon DEF OpToRel
<1>3. \E x \in S : \A y \in S : ~(y < x)
  BY <1>1, <1>2, Zenon
<1>4. \E x \in S : \A y \in S : x <= y
  BY <1>3
<1>5. QED BY <1>4, Zenon DEF First

(* Only the least element is First.                                         *)
LEMMA FirstIs ==
  ASSUME NEW S \in SUBSET Nat, NEW x \in S, \A k \in S : x <= k
  PROVE  First(S) = x
<1>1. First(S) \in S /\ \A k \in S : First(S) <= k
  BY FirstFacts
<1>2. First(S) \in Nat /\ x \in Nat /\ First(S) <= x /\ x <= First(S)
  BY <1>1, Zenon
<1>3. QED BY <1>2

(* Layers is a set of naturals, bounded by the number of layers.            *)
LEMMA LayersFacts ==
  ASSUME NEW cps, Len(cps) \in Nat, NEW i \in Nat, NEW a
  PROVE  /\ Layers(cps, i, a) \in SUBSET Nat
         /\ Layers(cps, i, a) \subseteq i..Len(cps)
BY DEF Layers

-----------------------------------------------------------------------------
(* The entries the handlers make                                            *)

(* Blank is an entry.                                                       *)
LEMMA BlankEntry ==
  ASSUME NEW k \in {"none", "unchanged", "absent", "cached"}
  PROVE  Blank(k) \in Entry
BY StateAssumption DEF Blank, Entry, NoWrite

(* What a load returns: an entry that repeats the database.                 *)
LEMMA LoadFacts ==
  ASSUME StateInv, NEW a \in Addr, NEW code \in BOOLEAN
  PROVE  /\ Load(a, code) \in Entry
         /\ Load(a, code).kind \in {"absent", "cached"}
         /\ ~Load(a, code).dirty
         /\ EntryOK(a, Load(a, code))
         /\ View(a, Load(a, code)) = View(a, Blank("none"))
<1> db[a] \in DbAccount /\ DbOK(a)
  BY DEF StateInv
<1>1. CASE db[a].exists
  BY <1>1, StateAssumption, Zenon
  DEF Load, Blank, Entry, DbAccount, EntryOK, View, SlotOf, NoWrite, DbOK
<1>2. CASE ~db[a].exists
  BY <1>2, StateAssumption
  DEF Load, Blank, Entry, DbAccount, EntryOK, View, SlotOf, NoWrite, DbOK
<1>3. QED BY <1>1, <1>2

(* A fetched entry is in the cache, and reads as before.                    *)
LEMMA FetchFacts ==
  ASSUME StateInv, NEW a \in Addr, NEW code \in BOOLEAN
  PROVE  /\ Fetch(a, code) \in Entry
         /\ Fetch(a, code).kind \in {"absent", "cached"}
         /\ EntryOK(a, Fetch(a, code))
         /\ View(a, Fetch(a, code)) = Current(a)
<1> /\ cache[a] \in Entry /\ cache[a].kind # "unchanged" /\ EntryOK(a, cache[a])
    /\ db[a] \in DbAccount
  BY DEF StateInv
<1>1. CASE cache[a].kind = "none"
  <2>1. View(a, cache[a]) = View(a, Blank("none"))
    BY <1>1 DEF EntryOK
  <2>2. QED BY <1>1, <2>1, LoadFacts DEF Fetch, Current
<1>2. CASE cache[a].kind = "absent"
  <2>1. cache[a] = Blank("absent")
    BY <1>2 DEF EntryOK
  <2>2. Fetch(a, code) = [cache[a] EXCEPT !.loaded = cache[a].loaded \/ code]
    BY <1>2 DEF Fetch
  <2>3. (cache[a].loaded \/ code) = TRUE
    BY <2>1 DEF Blank
  <2>4. Fetch(a, code) = [Blank("absent") EXCEPT !.loaded = TRUE]
    BY <2>1, <2>2, <2>3, Zenon
  <2>5. Fetch(a, code) = cache[a]
    BY <2>1, <2>4, Zenon DEF Blank
  <2>6. QED BY <1>2, <2>5 DEF Current
<1>3. CASE cache[a].kind = "cached"
  <2> DEFINE e == cache[a]
             f == Fetch(a, code)
  <2>1. f = [e EXCEPT !.loaded = e.loaded \/ code]
    BY <1>3 DEF Fetch
  <2>2. e.loaded \/ code \in BOOLEAN
    OBVIOUS
  <2>3. /\ f \in Entry
        /\ f.kind = "cached" /\ f.dirty = e.dirty /\ f.bal = e.bal /\ f.contract = e.contract
        /\ f.write = e.write /\ f.new = e.new /\ f.clear = e.clear
    <3> HIDE DEF f
    <3> QED BY <1>3, <2>1, <2>2 DEF Entry
  <2>4. EntryOK(a, f)
    <3> HIDE DEF f
    <3> QED BY <1>3, <2>3 DEF EntryOK
  <2>5. View(a, f) = Current(a)
    <3> HIDE DEF f
    <3> QED BY <1>3, <2>3 DEF View, Current, SlotOf
  <2>6. QED BY <2>3, <2>4, <2>5
<1>4. QED BY <1>1, <1>2, <1>3 DEF Entry

-----------------------------------------------------------------------------
(* The layers after a change of one account                                 *)

(* Record changes at most the top layer's entry of the account, and leaves  *)
(* one there.                                                               *)
LEMMA RecordFacts ==
  ASSUME checkpoints \in Seq([Addr -> Entry]), NEW a \in Addr,
         NEW old \in Entry, old.kind # "none", Record(a, old)
  PROVE  LET n == Len(checkpoints)
         IN  /\ checkpoints' \in Seq([Addr -> Entry])
             /\ n \in Nat /\ Len(checkpoints') = n
             /\ \A i \in 1..n, b \in Addr :
                    \/ checkpoints'[i][b] = checkpoints[i][b]
                    \/ /\ i = n /\ b = a /\ checkpoints[i][b].kind = "none"
                       /\ checkpoints'[i][b] = old
             /\ n > 0 => checkpoints'[n][a].kind # "none"
<1> DEFINE n == Len(checkpoints)
<1>1. n \in Nat /\ (checkpoints = << >> <=> n = 0)
  OBVIOUS
<1>2. CASE checkpoints = << >> \/ checkpoints[n][a].kind # "none"
  BY <1>1, <1>2 DEF Record
<1>3. CASE ~(checkpoints = << >> \/ checkpoints[n][a].kind # "none")
  <2>1. n \in 1..n /\ checkpoints[n] \in [Addr -> Entry]
    BY <1>1, <1>3
  <2> DEFINE top == [checkpoints[n] EXCEPT ![a] = old]
  <2>2. top \in [Addr -> Entry] /\ top[a] = old /\ \A b \in Addr : b # a => top[b] = checkpoints[n][b]
    BY <2>1
  <2>3. checkpoints' = [checkpoints EXCEPT ![n] = top]
    BY <1>3 DEF Record
  <2> HIDE DEF top
  <2>4. /\ checkpoints' \in Seq([Addr -> Entry]) /\ Len(checkpoints') = n
        /\ checkpoints'[n] = top
        /\ \A i \in 1..n : i # n => checkpoints'[i] = checkpoints[i]
    BY <1>1, <2>1, <2>2, <2>3
  <2>5. QED BY <1>1, <1>3, <2>1, <2>2, <2>4
<1>4. QED BY <1>2, <1>3

(* After such a change the versions at the checkpoints are what they were,  *)
(* provided the entry recorded reads like the account before the change.    *)
LEMMA RecordKeepsVersions ==
  ASSUME StateInv, NEW a \in Addr, NEW old \in Entry, old.kind # "none",
         View(a, old) = Current(a), Record(a, old), db' = db,
         NEW e, cache' = [cache EXCEPT ![a] = e]
  PROVE  \A i \in 1..Len(checkpoints), b \in Addr : Version(i, b)' = Version(i, b)
<1> DEFINE n == Len(checkpoints)
           L(i, b) == Layers(checkpoints, i, b)
           M(i, b) == Layers(checkpoints', i, b)
<1>0. checkpoints \in Seq([Addr -> Entry]) /\ cache \in [Addr -> Entry]
  BY DEF StateInv
<1>1. /\ n \in Nat /\ Len(checkpoints') = n
      /\ \A i \in 1..n, b \in Addr :
            \/ checkpoints'[i][b] = checkpoints[i][b]
            \/ /\ i = n /\ b = a /\ checkpoints[i][b].kind = "none"
               /\ checkpoints'[i][b] = old
      /\ n > 0 => checkpoints'[n][a].kind # "none"
  BY <1>0, RecordFacts
<1> SUFFICES ASSUME NEW i \in 1..n, NEW b \in Addr
             PROVE  Version(i, b)' = Version(i, b)
  OBVIOUS
<1>2. /\ i \in Nat /\ n \in i..n
      /\ L(i, b) \in SUBSET Nat /\ L(i, b) \subseteq i..n
      /\ M(i, b) \in SUBSET Nat /\ M(i, b) \subseteq i..n
  BY <1>1, LayersFacts
<1>3. CASE \A j \in i..n : checkpoints'[j][b] = checkpoints[j][b]
  <2>1. L(i, b) = M(i, b)
    BY <1>1, <1>3 DEF Layers
  <2>2. CASE L(i, b) = {}
    <3>1. b # a
      BY <1>1, <1>2, <2>1, <2>2 DEF Layers
    <3>2. cache'[b] = cache[b]
      BY <1>0, <3>1
    <3>3. QED BY <2>1, <2>2, <3>2 DEF Version, Current, View, SlotOf
  <2>3. CASE L(i, b) # {}
    <3>1. First(L(i, b)) \in i..n
      BY <1>2, <2>3, FirstFacts
    <3>2. checkpoints'[First(L(i, b))][b] = checkpoints[First(L(i, b))][b]
      BY <1>3, <3>1
    <3>3. QED BY <2>1, <2>3, <3>2 DEF Version, View, SlotOf
  <2>4. QED BY <2>2, <2>3
<1>4. CASE ~(\A j \in i..n : checkpoints'[j][b] = checkpoints[j][b])
  <2>1. /\ b = a /\ checkpoints[n][a].kind = "none" /\ checkpoints'[n][a] = old
        /\ \A j \in i..n : j # n => checkpoints'[j][a] = checkpoints[j][a]
    BY <1>1, <1>2, <1>4
  <2>2. M(i, a) = L(i, a) \cup {n} /\ n \notin L(i, a)
    BY <1>1, <1>2, <2>1 DEF Layers
  <2>3. CASE L(i, a) = {}
    <3>1. First(M(i, a)) = n
      BY <1>1, <2>2, <2>3, FirstIs
    <3>2. Version(i, a)' = View(a, old)
      BY <2>1, <2>2, <3>1, Zenon DEF Version, View, SlotOf
    <3>3. Version(i, a) = Current(a)
      BY <2>3 DEF Version
    <3>4. QED BY <2>1, <3>2, <3>3
  <2>4. CASE L(i, a) # {}
    <3> DEFINE f == First(L(i, a))
    <3>1. f \in L(i, a) /\ (\A k \in L(i, a) : f <= k) /\ f \in i..n /\ f # n
      BY <1>2, <2>1, <2>2, <2>4, FirstFacts
    <3>2. First(M(i, a)) = f
      <4>1. f \in M(i, a) /\ \A k \in M(i, a) : f <= k
        BY <1>1, <2>2, <3>1
      <4>2. M(i, a) \in SUBSET Nat
        BY <1>2, <2>1
      <4> HIDE DEF f
      <4>3. QED BY <4>1, <4>2, FirstIs
    <3>3. checkpoints'[f][a] = checkpoints[f][a] /\ M(i, a) # {}
      BY <2>1, <2>2, <3>1
    <3>4. QED BY <2>1, <2>4, <3>2, <3>3 DEF Version, View, SlotOf
  <2>5. QED BY <2>3, <2>4
<1>5. QED BY <1>3, <1>4

(* A change of one account keeps the invariant and the copies, and gives    *)
(* the account what its new entry reads.                                    *)
LEMMA WriteStep ==
  ASSUME StateInv, NEW a \in Addr,
         NEW old \in Entry, old.kind # "none", EntryOK(a, old), View(a, old) = Current(a),
         old.kind = "unchanged" => cache[a].kind = "none",
         NEW e \in Entry, e.kind = "cached", EntryOK(a, e),
         Record(a, old), cache' = [cache EXCEPT ![a] = e], db' = db
  PROVE  /\ StateInv'
         /\ Len(checkpoints') = Len(checkpoints)
         /\ \A i \in 1..Len(checkpoints), b \in Addr : Version(i, b)' = Version(i, b)
         /\ Current(a)' = View(a, e)
         /\ \A b \in Addr : b # a => Current(b)' = Current(b)
<1> DEFINE n == Len(checkpoints)
<1>0. /\ db \in [Addr -> DbAccount] /\ cache \in [Addr -> Entry]
      /\ checkpoints \in Seq([Addr -> Entry])
  BY DEF StateInv
<1>1. /\ checkpoints' \in Seq([Addr -> Entry])
      /\ n \in Nat /\ Len(checkpoints') = n
      /\ \A i \in 1..n, b \in Addr :
            \/ checkpoints'[i][b] = checkpoints[i][b]
            \/ /\ i = n /\ b = a /\ checkpoints[i][b].kind = "none"
               /\ checkpoints'[i][b] = old
  BY <1>0, RecordFacts
<1>2. \A i \in 1..n, b \in Addr : Version(i, b)' = Version(i, b)
  BY RecordKeepsVersions, Zenon
<1>3. /\ cache' \in [Addr -> Entry] /\ cache'[a] = e
      /\ \A b \in Addr : b # a => cache'[b] = cache[b]
  BY <1>0
<1>4. \A b, x : EntryOK(b, x)' <=> EntryOK(b, x)
  BY DEF EntryOK
<1>5. \A b \in Addr : DbOK(b)' /\ cache'[b].kind # "unchanged" /\ EntryOK(b, cache[b])'
  <2> SUFFICES ASSUME NEW b \in Addr
               PROVE  DbOK(b)' /\ cache'[b].kind # "unchanged" /\ EntryOK(b, cache[b])'
    OBVIOUS
  <2>1. DbOK(b) /\ cache[b].kind # "unchanged" /\ EntryOK(b, cache[b])
    BY DEF StateInv
  <2>2. CASE b = a
    BY <1>3, <2>1, <2>2 DEF DbOK, EntryOK
  <2>3. CASE b # a
    BY <1>3, <2>1, <2>3 DEF DbOK, EntryOK
  <2>4. QED BY <2>2, <2>3
<1>6. \A i \in 1..Len(checkpoints'), b \in Addr : EntryOK(b, checkpoints[i][b])'
  <2> SUFFICES ASSUME NEW i \in 1..n, NEW b \in Addr
               PROVE  EntryOK(b, checkpoints[i][b])'
    BY <1>1
  <2>1. EntryOK(b, checkpoints[i][b])
    BY DEF StateInv
  <2>2. CASE checkpoints'[i][b] = checkpoints[i][b]
    BY <2>1, <2>2 DEF EntryOK
  <2>3. CASE checkpoints'[i][b] # checkpoints[i][b]
    <3>1. b = a /\ checkpoints'[i][b] = old
      BY <1>1, <2>3
    <3>2. QED BY <3>1 DEF EntryOK
  <2>4. QED BY <2>2, <2>3
<1>7. CacheCovers'
  <2> SUFFICES ASSUME NEW i \in 1..n, NEW b \in Addr, checkpoints'[i][b].kind # "none"
               PROVE  /\ cache'[b].kind # "none"
                      /\ checkpoints'[i][b].kind = "unchanged" =>
                            \A j \in 1..(i - 1) : checkpoints'[j][b].kind = "none"
    BY <1>1 DEF CacheCovers
  <2>1. \A j \in 1..(i - 1) : j \in 1..n /\ j # n
    BY <1>1
  <2>2. \A j \in 1..n : checkpoints[j][b].kind # "none" =>
            /\ cache[b].kind # "none"
            /\ checkpoints[j][b].kind = "unchanged" =>
                \A k \in 1..(j - 1) : checkpoints[k][b].kind = "none"
    BY DEF StateInv, CacheCovers
  <2>3. \A j \in 1..(i - 1) : checkpoints'[j][b] = checkpoints[j][b]
    BY <1>1, <2>1
  <2>4. CASE checkpoints'[i][b] = checkpoints[i][b]
    BY <1>3, <2>2, <2>3, <2>4
  <2>5. CASE checkpoints'[i][b] # checkpoints[i][b]
    <3>1. b = a /\ checkpoints'[i][b] = old
      BY <1>1, <2>5
    <3>2. cache[a].kind = "none" => \A j \in 1..(i - 1) : checkpoints[j][b].kind = "none"
      BY <2>1, <2>2, <3>1
    <3>3. QED BY <1>3, <2>3, <3>1, <3>2
  <2>6. QED BY <2>4, <2>5
<1>8. StateInv'
  BY <1>0, <1>1, <1>3, <1>5, <1>6, <1>7 DEF StateInv
<1>9. Current(a)' = View(a, e) /\ \A b \in Addr : b # a => Current(b)' = Current(b)
  BY <1>3 DEF Current, View, SlotOf
<1>10. QED BY <1>1, <1>2, <1>8, <1>9

(* Loading an account into the cache changes nothing that is read.          *)
LEMMA TouchStep ==
  ASSUME StateInv, NEW a \in Addr,
         NEW e \in Entry, e.kind \in {"absent", "cached"}, EntryOK(a, e), View(a, e) = Current(a),
         cache' = [cache EXCEPT ![a] = e], db' = db, checkpoints' = checkpoints
  PROVE  /\ StateInv'
         /\ \A b \in Addr : Current(b)' = Current(b)
         /\ \A i \in 1..Len(checkpoints), b \in Addr : Version(i, b)' = Version(i, b)
<1>0. cache \in [Addr -> Entry]
  BY DEF StateInv
<1>1. /\ cache' \in [Addr -> Entry] /\ cache'[a] = e
      /\ \A b \in Addr : b # a => cache'[b] = cache[b]
  BY <1>0
<1>2. \A b \in Addr : DbOK(b)' /\ cache'[b].kind # "unchanged" /\ EntryOK(b, cache[b])'
  <2> SUFFICES ASSUME NEW b \in Addr
               PROVE  DbOK(b)' /\ cache'[b].kind # "unchanged" /\ EntryOK(b, cache[b])'
    OBVIOUS
  <2>1. DbOK(b) /\ cache[b].kind # "unchanged" /\ EntryOK(b, cache[b])
    BY DEF StateInv
  <2>2. CASE b = a
    BY <1>1, <2>1, <2>2 DEF DbOK, EntryOK
  <2>3. CASE b # a
    BY <1>1, <2>1, <2>3 DEF DbOK, EntryOK
  <2>4. QED BY <2>2, <2>3
<1>3. \A b \in Addr : cache[b].kind # "none" => cache'[b].kind # "none"
  BY <1>1
<1>4. CacheCovers'
  BY <1>3 DEF StateInv, CacheCovers
<1>5. \A i \in 1..Len(checkpoints), b \in Addr : EntryOK(b, checkpoints[i][b])'
  BY DEF StateInv, EntryOK
<1>6. StateInv'
  BY <1>1, <1>2, <1>4, <1>5 DEF StateInv
<1>7. \A b \in Addr : Current(b)' = Current(b)
  <2>1. \A b \in Addr : Current(b)' = View(b, cache'[b])
    BY DEF Current, View, SlotOf
  <2>2. QED BY <1>1, <2>1 DEF Current
<1>8. \A i \in 1..Len(checkpoints), b \in Addr : Version(i, b)' = Version(i, b)
  BY <1>7 DEF Version, View, SlotOf
<1>9. QED BY <1>6, <1>7, <1>8

-----------------------------------------------------------------------------
(* One step of the State, and the step of the stack of copies it stands for *)

(* A change of one account puts what its new entry reads.                   *)
LEMMA PutStep ==
  ASSUME StateInv, NEW a \in Addr,
         NEW old \in Entry, old.kind # "none", EntryOK(a, old), View(a, old) = Current(a),
         old.kind = "unchanged" => cache[a].kind = "none",
         NEW e \in Entry, e.kind = "cached", EntryOK(a, e),
         Record(a, old), cache' = [cache EXCEPT ![a] = e], db' = db
  PROVE  StateInv' /\ Abs!Put(a, View(a, e))
<1>1. /\ StateInv'
      /\ Len(checkpoints') = Len(checkpoints)
      /\ \A i \in 1..Len(checkpoints), b \in Addr : Version(i, b)' = Version(i, b)
      /\ Current(a)' = View(a, e)
      /\ \A b \in Addr : b # a => Current(b)' = Current(b)
  BY WriteStep, Zenon
<1>2. CurrentState' = [CurrentState EXCEPT ![a] = View(a, e)]
  BY <1>1, Zenon DEF CurrentState
<1>3. Copies' = Copies
  BY <1>1 DEF Copies
<1>4. QED BY <1>1, <1>2, <1>3 DEF Abs!Put

(* Loading an account is a stuttering step.                                 *)
LEMMA StutterStep ==
  ASSUME StateInv, NEW a \in Addr,
         NEW e \in Entry, e.kind \in {"absent", "cached"}, EntryOK(a, e), View(a, e) = Current(a),
         cache' = [cache EXCEPT ![a] = e], db' = db, checkpoints' = checkpoints
  PROVE  StateInv' /\ UNCHANGED <<CurrentState, Copies>>
<1>1. /\ StateInv'
      /\ \A b \in Addr : Current(b)' = Current(b)
      /\ \A i \in 1..Len(checkpoints), b \in Addr : Version(i, b)' = Version(i, b)
  BY TouchStep, Zenon
<1>2. CurrentState' = CurrentState
  BY <1>1 DEF CurrentState
<1>3. Copies' = Copies
  BY <1>1 DEF Copies
<1>4. QED BY <1>1, <1>2, <1>3

(* What is read of an address is an account; one without code has no        *)
(* storage.                                                                 *)
LEMMA CurrentAccount ==
  ASSUME StateInv, NEW a \in Addr
  PROVE  /\ Current(a) \in [bal : 0..MaxBalance, contract : BOOLEAN, slot : 0..MaxValue]
         /\ ~Current(a).contract => Current(a).slot = 0
<1> /\ db[a] \in DbAccount /\ cache[a] \in Entry
    /\ DbOK(a) /\ EntryOK(a, cache[a])
  BY DEF StateInv
<1>1. SlotOf(a, cache[a]) \in 0..MaxValue
  BY StateAssumption DEF SlotOf, Entry, DbAccount, NoWrite
<1>2. CASE cache[a].kind = "cached"
  <2>1. Current(a) = [bal |-> cache[a].bal, contract |-> cache[a].contract,
                      slot |-> SlotOf(a, cache[a])]
    BY <1>2 DEF Current, View
  <2>2. ~cache[a].contract => SlotOf(a, cache[a]) = 0
    BY <1>2 DEF EntryOK, SlotOf
  <2>3. QED BY <1>1, <2>1, <2>2 DEF Entry
<1>3. CASE cache[a].kind # "cached"
  BY <1>3 DEF Current, View, DbAccount, DbOK
<1>4. QED BY <1>2, <1>3

(* The entry that write_account_inner hands out reads like the account.     *)
LEMMA WritableFacts ==
  ASSUME StateInv, NEW a \in Addr
  PROVE  /\ Writable(a) \in Entry
         /\ Writable(a).kind = "cached" /\ Writable(a).dirty
         /\ EntryOK(a, Writable(a))
         /\ View(a, Writable(a)) = Current(a)
<1> DEFINE f == Fetch(a, FALSE)
           w == Writable(a)
<1>1. /\ f \in Entry /\ f.kind \in {"absent", "cached"}
      /\ EntryOK(a, f) /\ View(a, f) = Current(a)
  BY FetchFacts, Zenon
<1>2. db[a] \in DbAccount /\ DbOK(a)
  BY DEF StateInv
<1>3. w = [f EXCEPT !.kind = "cached", !.dirty = TRUE]
  BY DEF Writable
<1> HIDE DEF f, w
<1>4. /\ w \in Entry /\ w.kind = "cached" /\ w.dirty /\ w.bal = f.bal /\ w.contract = f.contract
      /\ w.write = f.write /\ w.new = f.new /\ w.clear = f.clear
  BY <1>1, <1>3, Zenon DEF Entry
<1>5. CASE f.kind = "cached"
  <2>1. EntryOK(a, w)
    BY <1>1, <1>4, <1>5 DEF EntryOK
  <2>2. View(a, w) = View(a, f)
    BY <1>4, <1>5 DEF View, SlotOf
  <2>3. QED BY <1>1, <1>4, <2>1, <2>2 DEF w
<1>6. CASE f.kind = "absent"
  <2>1. /\ ~db[a].exists /\ db[a].bal = 0 /\ ~db[a].contract /\ db[a].slot = 0
        /\ f = Blank("absent")
    BY <1>1, <1>2, <1>6 DEF EntryOK, DbOK
  <2>2. w.bal = 0 /\ ~w.contract /\ w.write = NoWrite /\ ~w.new /\ ~w.clear
    BY <1>4, <2>1 DEF Blank
  <2>3. EntryOK(a, w)
    BY <1>4, <2>1, <2>2 DEF EntryOK
  <2>4. View(a, w) = View(a, f)
    BY <1>2, <1>4, <1>6, <2>1, <2>2 DEF View, SlotOf, Entry, DbAccount
  <2>5. QED BY <1>1, <1>4, <2>3, <2>4 DEF w
<1>7. QED BY <1>1, <1>5, <1>6

(* read_account_ext_lock and prefetch stutter.                              *)
LEMMA ReadStep ==
  ASSUME StateInv, NEW a \in Addr, NEW code \in BOOLEAN, Read(a, code)
  PROVE  StateInv' /\ UNCHANGED <<CurrentState, Copies>>
<1>1. /\ Fetch(a, code) \in Entry /\ Fetch(a, code).kind \in {"absent", "cached"}
      /\ EntryOK(a, Fetch(a, code)) /\ View(a, Fetch(a, code)) = Current(a)
  BY FetchFacts
<1>2. cache' = [cache EXCEPT ![a] = Fetch(a, code)] /\ db' = db /\ checkpoints' = checkpoints
  BY DEF Read
<1>3. QED BY <1>1, <1>2, StutterStep, Zenon

(* An entry without its code is clean, or its account was loaded without    *)
(* it; a clean entry and no entry read like a load.                         *)
LEMMA PrefetchStep ==
  ASSUME StateInv, NEW a \in Addr, Untouched, PrefetchInsert(a)
  PROVE  StateInv' /\ UNCHANGED <<CurrentState, Copies>>
<1>1. /\ Load(a, TRUE) \in Entry /\ Load(a, TRUE).kind \in {"absent", "cached"}
      /\ EntryOK(a, Load(a, TRUE)) /\ View(a, Load(a, TRUE)) = View(a, Blank("none"))
  BY LoadFacts, Zenon
<1>2. /\ cache[a] \in Entry /\ cache[a].kind # "unchanged" /\ EntryOK(a, cache[a])
      /\ ~cache[a].dirty /\ DbOK(a)
  BY DEF StateInv, Untouched
<1>3. View(a, Blank("none")) = Current(a)
  <2>1. CASE cache[a].kind = "cached"
    BY <1>2, <2>1 DEF EntryOK, View, Current, SlotOf, Blank
  <2>2. CASE cache[a].kind # "cached"
    BY <1>2, <2>2 DEF View, Current, Blank
  <2>3. QED BY <2>1, <2>2
<1>4. cache' = [cache EXCEPT ![a] = Load(a, TRUE)] /\ db' = db /\ checkpoints' = checkpoints
  BY DEF PrefetchInsert
<1>5. QED BY <1>1, <1>3, <1>4, StutterStep, Zenon

(* A write through write_account_inner records the fetched entry.           *)
LEMMA WritePuts ==
  ASSUME StateInv, NEW a \in Addr, NEW e \in Entry, e.kind = "cached", EntryOK(a, e), Write(a, e)
  PROVE  StateInv' /\ Abs!Put(a, View(a, e))
<1> DEFINE old == Fetch(a, FALSE)
<1>1. /\ old \in Entry /\ old.kind \in {"absent", "cached"}
      /\ EntryOK(a, old) /\ View(a, old) = Current(a)
  BY FetchFacts, Zenon
<1>2. Record(a, old) /\ cache' = [cache EXCEPT ![a] = e] /\ db' = db
  BY Zenon DEF Write
<1> HIDE DEF old
<1>3. QED BY <1>1, <1>2, PutStep, Zenon

(* A write of the balance x.                                                *)
LEMMA BalanceWritten ==
  ASSUME StateInv, NEW a \in Addr, NEW x \in 0..MaxBalance
  PROVE  LET e == [Writable(a) EXCEPT !.bal = x]
         IN  /\ e \in Entry /\ e.kind = "cached" /\ EntryOK(a, e)
             /\ View(a, e) = [Current(a) EXCEPT !.bal = x]
             /\ Writable(a).bal = Current(a).bal
<1> DEFINE w == Writable(a)
           e == [w EXCEPT !.bal = x]
<1>1. /\ w \in Entry /\ w.kind = "cached" /\ w.dirty
      /\ EntryOK(a, w) /\ View(a, w) = Current(a)
  BY WritableFacts
<1> HIDE DEF w
<1>2. /\ e \in Entry /\ e.kind = "cached" /\ e.dirty /\ e.bal = x /\ e.contract = w.contract
      /\ e.write = w.write /\ e.new = w.new /\ e.clear = w.clear
  BY <1>1 DEF Entry
<1> HIDE DEF e
<1>3. EntryOK(a, e)
  BY <1>1, <1>2 DEF EntryOK
<1>4. View(a, w) = [bal |-> w.bal, contract |-> w.contract, slot |-> SlotOf(a, w)]
  BY <1>1 DEF View
<1>5. View(a, e) = [bal |-> x, contract |-> w.contract, slot |-> SlotOf(a, w)]
  BY <1>2 DEF View, SlotOf
<1>6. View(a, e) = [Current(a) EXCEPT !.bal = x] /\ w.bal = Current(a).bal
  BY <1>1, <1>4, <1>5
<1>7. QED BY <1>2, <1>3, <1>6 DEF e, w

(* add_balance adds, or changes nothing that is read.                       *)
LEMMA AddBalanceStep ==
  ASSUME StateInv, NEW a \in Addr, NEW by \in 0..MaxBalance, NEW force \in BOOLEAN,
         AddBalance(a, by, force)
  PROVE  StateInv' /\ (Abs!Next \/ UNCHANGED <<CurrentState, Copies>>)
<1> DEFINE x == Current(a).bal + by
<1>1. /\ Current(a) \in [bal : 0..MaxBalance, contract : BOOLEAN, slot : 0..MaxValue]
      /\ x \in 0..MaxBalance
  BY CurrentAccount, StateAssumption DEF AddBalance
<1>2. CASE by # 0 \/ (force /\ Fetch(a, FALSE).kind = "absent")
  <2> DEFINE e == [Writable(a) EXCEPT !.bal = x]
  <2>1. /\ e \in Entry /\ e.kind = "cached" /\ EntryOK(a, e)
        /\ View(a, e) = [Current(a) EXCEPT !.bal = x] /\ Writable(a).bal = Current(a).bal
    BY <1>1, BalanceWritten
  <2>2. Write(a, e)
    BY <1>2, <2>1, Zenon DEF AddBalance
  <2> HIDE DEF e
  <2>3. StateInv' /\ Abs!Put(a, View(a, e))
    BY <2>1, <2>2, WritePuts
  <2>4. CASE by # 0
    <3>1. CurrentState[a] = Current(a)
      BY DEF CurrentState
    <3>2. Abs!Add(a, by)
      BY <1>1, <2>1, <2>3, <3>1 DEF Abs!Add
    <3>3. by \in 1..MaxBalance
      BY <2>4, StateAssumption
    <3>4. QED BY <2>3, <3>2, <3>3 DEF Abs!Next
  <2>5. CASE by = 0
    <3>1. View(a, e) = Current(a)
      BY <1>1, <2>1, <2>5
    <3>2. CurrentState' = [CurrentState EXCEPT ![a] = Current(a)] /\ Copies' = Copies
      BY <2>3, <3>1 DEF Abs!Put
    <3>3. CurrentState' = CurrentState
      BY <3>2, Zenon DEF CurrentState
    <3>4. QED BY <2>3, <3>2, <3>3
  <2>6. QED BY <2>4, <2>5
<1>3. CASE ~(by # 0 \/ (force /\ Fetch(a, FALSE).kind = "absent"))
  BY <1>3, ReadStep, Zenon DEF AddBalance
<1>4. QED BY <1>2, <1>3, Zenon

(* sub_balance subtracts.                                                   *)
LEMMA SubBalanceStep ==
  ASSUME StateInv, NEW a \in Addr, NEW by \in 1..MaxBalance, SubBalance(a, by)
  PROVE  StateInv' /\ Abs!Next
<1> DEFINE x == Current(a).bal - by
           e == [Writable(a) EXCEPT !.bal = x]
<1>1. /\ Current(a) \in [bal : 0..MaxBalance, contract : BOOLEAN, slot : 0..MaxValue]
      /\ x \in 0..MaxBalance
  BY CurrentAccount, StateAssumption DEF SubBalance
<1>2. /\ e \in Entry /\ e.kind = "cached" /\ EntryOK(a, e)
      /\ View(a, e) = [Current(a) EXCEPT !.bal = x] /\ Writable(a).bal = Current(a).bal
  BY <1>1, BalanceWritten
<1>3. Write(a, e)
  BY <1>2 DEF SubBalance
<1> HIDE DEF e
<1>4. StateInv' /\ Abs!Put(a, View(a, e))
  BY <1>2, <1>3, WritePuts
<1>5. CurrentState[a] = Current(a)
  BY DEF CurrentState
<1>6. Abs!Sub(a, by)
  BY <1>1, <1>2, <1>4, <1>5 DEF Abs!Sub, SubBalance
<1>7. QED BY <1>4, <1>6 DEF Abs!Next

(* set_storage sets the slot; an equal value is a stuttering step.          *)
LEMMA SetStorageStep ==
  ASSUME StateInv, NEW a \in Addr, NEW v \in 0..MaxValue, SetStorage(a, v)
  PROVE  StateInv' /\ (Abs!Next \/ UNCHANGED <<CurrentState, Copies>>)
<1> DEFINE w == Writable(a)
           e == [w EXCEPT !.write = v]
<1>1. CASE Current(a).slot = v
  BY <1>1, ReadStep, Zenon DEF SetStorage
<1>2. CASE Current(a).slot # v
  <2>1. /\ w \in Entry /\ w.kind = "cached" /\ w.dirty
        /\ EntryOK(a, w) /\ View(a, w) = Current(a)
    BY WritableFacts
  <2>2. Current(a).contract /\ Write(a, e)
    BY <1>2 DEF SetStorage
  <2>3. v # NoWrite /\ v \in {NoWrite} \cup 0..MaxValue
    BY StateAssumption DEF NoWrite
  <2> HIDE DEF w
  <2>4. /\ e \in Entry /\ e.kind = "cached" /\ e.dirty /\ e.bal = w.bal /\ e.contract = w.contract
        /\ e.write = v /\ e.new = w.new /\ e.clear = w.clear
    BY <2>1, <2>3 DEF Entry
  <2> HIDE DEF e
  <2>5. View(a, w) = [bal |-> w.bal, contract |-> w.contract, slot |-> SlotOf(a, w)]
    BY <2>1 DEF View
  <2>6. View(a, e) = [bal |-> w.bal, contract |-> w.contract, slot |-> v]
    BY <2>3, <2>4 DEF View, SlotOf
  <2>7. w.contract
    BY <2>1, <2>2, <2>5
  <2>8. EntryOK(a, e)
    BY <2>1, <2>4, <2>7 DEF EntryOK
  <2>9. StateInv' /\ Abs!Put(a, View(a, e))
    BY <2>2, <2>4, <2>8, WritePuts
  <2>10. View(a, e) = [Current(a) EXCEPT !.slot = v]
    BY <2>1, <2>5, <2>6
  <2>11. CurrentState[a] = Current(a)
    BY DEF CurrentState
  <2>12. Abs!Set(a, v)
    BY <2>2, <2>9, <2>10, <2>11 DEF Abs!Set
  <2>13. QED BY <2>9, <2>12 DEF Abs!Next
<1>3. QED BY <1>1, <1>2

(* insert_to_cache puts the new account, whatever entry there was.          *)
LEMMA InsertPuts ==
  ASSUME StateInv, NEW a \in Addr, NEW e \in Entry, e.kind = "cached", EntryOK(a, e),
         NEW old \in Entry, EntryOK(a, old), View(a, old) = Current(a),
         old.kind # "unchanged", old.kind = "none" => cache[a].kind = "none",
         InsertToCache(e, a, old)
  PROVE  StateInv' /\ Abs!Put(a, View(a, e))
<1> DEFINE o == IF old.kind = "none" THEN Blank("unchanged") ELSE old
<1>1. cache' = [cache EXCEPT ![a] = e] /\ Record(a, o) /\ db' = db
  BY DEF InsertToCache
<1>2. CASE old.kind = "none"
  <2>1. /\ Blank("unchanged") \in Entry
        /\ Blank("unchanged").kind = "unchanged" /\ EntryOK(a, Blank("unchanged"))
    BY BlankEntry DEF Blank, EntryOK
  <2>2. View(a, Blank("unchanged")) = Current(a)
    BY <1>2 DEF View, Blank
  <2>3. Record(a, Blank("unchanged")) /\ cache[a].kind = "none"
    BY <1>1, <1>2
  <2>4. QED BY <1>1, <2>1, <2>2, <2>3, PutStep, Zenon
<1>3. CASE old.kind # "none"
  <2>1. Record(a, old)
    BY <1>1, <1>3
  <2>2. QED BY <1>1, <1>3, <2>1, PutStep, Zenon
<1>4. QED BY <1>2, <1>3

(* new_contract_with_admin creates a contract with empty storage, which     *)
(* hides what the database may hold.                                        *)
LEMMA NewContractStep ==
  ASSUME StateInv, NEW a \in Addr, NewContract(a)
  PROVE  StateInv' /\ Abs!Next
<1> DEFINE old == Fetch(a, FALSE)
           e == [Blank("cached") EXCEPT !.dirty = TRUE, !.bal = Current(a).bal,
                                        !.contract = TRUE, !.new = TRUE, !.clear = old.clear]
<1>1. /\ old \in Entry /\ old.kind \in {"absent", "cached"}
      /\ EntryOK(a, old) /\ View(a, old) = Current(a)
  BY FetchFacts, Zenon
<1>2. /\ Current(a) \in [bal : 0..MaxBalance, contract : BOOLEAN, slot : 0..MaxValue]
      /\ ~Current(a).contract
  BY CurrentAccount DEF NewContract
<1>3. InsertToCache(e, a, old)
  BY Zenon DEF NewContract
<1>4. db[a] \in DbAccount /\ DbOK(a)
  BY DEF StateInv
<1> HIDE DEF old
<1>5. old.clear \in BOOLEAN
  BY <1>1 DEF Entry
<1>6. /\ e \in Entry /\ e.kind = "cached" /\ e.dirty /\ e.bal = Current(a).bal /\ e.contract
      /\ e.write = NoWrite /\ e.new /\ e.clear = old.clear
  BY <1>2, <1>5, StateAssumption, Zenon DEF Entry, Blank, NoWrite
<1> HIDE DEF e
<1>7. ~old.clear => db[a].slot = 0
  <2>1. CASE old.kind = "absent"
    BY <1>1, <1>4, <2>1 DEF EntryOK, DbOK
  <2>2. CASE old.kind = "cached"
    <3>1. ~old.contract
      BY <1>1, <1>2, <2>2 DEF View
    <3>2. QED BY <1>1, <2>2, <3>1 DEF EntryOK
  <2>3. QED BY <1>1, <2>1, <2>2
<1>8. EntryOK(a, e)
  BY <1>6, <1>7 DEF EntryOK
<1>9. View(a, e) = [bal |-> Current(a).bal, contract |-> TRUE, slot |-> 0]
  <2>1. SlotOf(a, e) = 0
    BY <1>6 DEF SlotOf
  <2>2. e.contract = TRUE
    BY <1>6 DEF Entry
  <2>3. QED BY <1>6, <2>1, <2>2 DEF View
<1>10. StateInv' /\ Abs!Put(a, View(a, e))
  BY <1>1, <1>3, <1>6, <1>8, InsertPuts
<1>11. CurrentState[a] = Current(a)
  BY DEF CurrentState
<1>12. Abs!Create(a)
  BY <1>2, <1>9, <1>10, <1>11 DEF Abs!Create
<1>13. QED BY <1>10, <1>12 DEF Abs!Next

(* remove_contract leaves an empty account, also when the contract was not  *)
(* in the cache.                                                            *)
LEMMA RemoveContractStep ==
  ASSUME StateInv, NEW a \in Addr, RemoveContract(a)
  PROVE  StateInv' /\ Abs!Next
<1> DEFINE e == [Blank("cached") EXCEPT !.dirty = TRUE, !.clear = TRUE]
<1>1. cache[a] \in Entry /\ cache[a].kind # "unchanged" /\ EntryOK(a, cache[a])
  BY DEF StateInv
<1>2. View(a, cache[a]) = Current(a)
  BY DEF Current
<1>3. Current(a).contract /\ InsertToCache(e, a, cache[a])
  BY DEF RemoveContract
<1>4. /\ e \in Entry /\ e.kind = "cached" /\ e.dirty /\ e.bal = 0 /\ e.contract = FALSE
      /\ e.write = NoWrite /\ ~e.new /\ e.clear
  <2>1. Blank("cached") \in Entry
    BY BlankEntry
  <2>2. e \in Entry
    BY <2>1, Zenon DEF Entry
  <2>3. e.kind = "cached" /\ e.dirty /\ e.bal = 0 /\ e.contract = FALSE
    BY DEF Blank
  <2>4. e.write = NoWrite /\ ~e.new /\ e.clear
    BY DEF Blank
  <2>5. QED BY <2>2, <2>3, <2>4
<1> HIDE DEF e
<1>5. EntryOK(a, e) /\ View(a, e) = Abs!Empty
  BY <1>4, Zenon DEF EntryOK, View, SlotOf, Abs!Empty
<1>6. StateInv' /\ Abs!Put(a, View(a, e))
  BY <1>1, <1>2, <1>3, <1>4, <1>5, InsertPuts
<1>7. CurrentState[a] = Current(a)
  BY DEF CurrentState
<1>8. Abs!Kill(a)
  BY <1>3, <1>5, <1>6, <1>7 DEF Abs!Kill
<1>9. QED BY <1>6, <1>8 DEF Abs!Next

-----------------------------------------------------------------------------
(* Checkpoints                                                              *)

(* The first layer with an entry is the one before which there is none.     *)
LEMMA FirstLayer ==
  ASSUME NEW cps, Len(cps) \in Nat, NEW i \in Nat, NEW a, NEW f \in i..Len(cps),
         cps[f][a].kind # "none", \A j \in i..(f - 1) : cps[j][a].kind = "none"
  PROVE  Layers(cps, i, a) # {} /\ First(Layers(cps, i, a)) = f
<1>1. f \in Layers(cps, i, a) /\ Layers(cps, i, a) \in SUBSET Nat
  BY DEF Layers
<1>2. \A k \in Layers(cps, i, a) : f <= k
  BY DEF Layers
<1>3. QED BY <1>1, <1>2, FirstIs

(* An address has no entry from layer i on, or a first one.                 *)
LEMMA FirstOrNone ==
  ASSUME NEW cps, Len(cps) \in Nat, NEW i \in Nat, NEW a
  PROVE  \/ /\ Layers(cps, i, a) = {}
            /\ \A j \in i..Len(cps) : cps[j][a].kind = "none"
         \/ \E f \in i..Len(cps) :
                /\ cps[f][a].kind # "none"
                /\ \A j \in i..(f - 1) : cps[j][a].kind = "none"
<1>1. CASE Layers(cps, i, a) = {}
  BY <1>1 DEF Layers
<1>2. CASE Layers(cps, i, a) # {}
  <2> DEFINE f == First(Layers(cps, i, a))
  <2>1. Layers(cps, i, a) \in SUBSET Nat
    BY LayersFacts
  <2>2. f \in Layers(cps, i, a) /\ \A k \in Layers(cps, i, a) : f <= k
    BY <1>2, <2>1, FirstFacts
  <2> HIDE DEF f
  <2>3. f \in i..Len(cps) /\ cps[f][a].kind # "none"
    BY <2>2 DEF Layers
  <2>4. \A j \in i..(f - 1) : cps[j][a].kind = "none"
    BY <2>2, <2>3 DEF Layers
  <2>5. QED BY <2>3, <2>4
<1>3. QED BY <1>1, <1>2, Zenon

(* The copies are a sequence as long as the checkpoints.                    *)
LEMMA CopiesSeq ==
  ASSUME checkpoints \in Seq([Addr -> Entry])
  PROVE  /\ Copies \in Seq({[a \in Addr |-> Version(i, a)] : i \in 1..Len(checkpoints)})
         /\ Len(Copies) = Len(checkpoints)
         /\ Len(checkpoints) \in Nat
BY DEF Copies

(* checkpoint pushes a copy.                                                *)
LEMMA CheckpointStep ==
  ASSUME StateInv, Checkpoint
  PROVE  StateInv' /\ Abs!Next
<1> DEFINE n == Len(checkpoints)
<1>0. checkpoints \in Seq([Addr -> Entry]) /\ n \in Nat
  BY DEF StateInv
<1>1. NoEntries \in [Addr -> Entry] /\ \A a \in Addr : NoEntries[a] = Blank("none")
  BY BlankEntry DEF NoEntries
<1>2. /\ n < MaxDepth
      /\ checkpoints' = Append(checkpoints, NoEntries) /\ db' = db /\ cache' = cache
  BY DEF Checkpoint
<1>3. /\ checkpoints' \in Seq([Addr -> Entry]) /\ Len(checkpoints') = n + 1
      /\ \A i \in 1..n : checkpoints'[i] = checkpoints[i]
      /\ checkpoints'[n + 1] = NoEntries
  BY <1>0, <1>1, <1>2
<1>4. \A a \in Addr : checkpoints'[n + 1][a].kind = "none"
  BY <1>1, <1>3 DEF Blank
<1>5. \A i \in 1..(n + 1), a \in Addr : EntryOK(a, checkpoints[i][a])'
  <2> SUFFICES ASSUME NEW i \in 1..(n + 1), NEW a \in Addr PROVE EntryOK(a, checkpoints[i][a])'
    OBVIOUS
  <2>1. CASE i \in 1..n
    <3>1. EntryOK(a, checkpoints[i][a])
      BY <2>1 DEF StateInv
    <3>2. QED BY <1>2, <1>3, <2>1, <3>1 DEF EntryOK
  <2>2. CASE i = n + 1
    <3>1. checkpoints'[i][a] = Blank("none")
      BY <1>1, <1>3, <2>2
    <3>2. QED BY <3>1 DEF EntryOK, Blank
  <2>3. QED BY <1>0, <2>1, <2>2
<1>6. CacheCovers'
  <2> SUFFICES ASSUME NEW i \in 1..(n + 1), NEW a \in Addr, checkpoints'[i][a].kind # "none"
               PROVE  /\ cache'[a].kind # "none"
                      /\ checkpoints'[i][a].kind = "unchanged" =>
                            \A j \in 1..(i - 1) : checkpoints'[j][a].kind = "none"
    BY <1>3 DEF CacheCovers
  <2>1. i \in 1..n /\ \A j \in 1..(i - 1) : j \in 1..n
    BY <1>0, <1>4
  <2>2. QED BY <1>2, <1>3, <2>1 DEF StateInv, CacheCovers
<1>7. StateInv'
  <2>1. \A a \in Addr : DbOK(a)' /\ cache'[a].kind # "unchanged" /\ EntryOK(a, cache[a])'
    BY <1>2 DEF StateInv, DbOK, EntryOK
  <2>2. QED BY <1>2, <1>3, <1>5, <1>6, <2>1 DEF StateInv
<1>8. \A a \in Addr : Current(a)' = Current(a)
  BY <1>2 DEF Current, View, SlotOf
<1>9. \A i \in 1..n, a \in Addr : Version(i, a)' = Version(i, a)
  <2> SUFFICES ASSUME NEW i \in 1..n, NEW a \in Addr PROVE Version(i, a)' = Version(i, a)
    OBVIOUS
  <2>1. Layers(checkpoints', i, a) = Layers(checkpoints, i, a)
    <3>1. \A j \in i..(n + 1) : checkpoints'[j][a].kind # "none" => j \in i..n
      BY <1>0, <1>4
    <3>2. \A j \in i..n : j \in i..(n + 1) /\ checkpoints'[j][a] = checkpoints[j][a]
      BY <1>0, <1>3
    <3>3. QED BY <1>3, <3>1, <3>2 DEF Layers
  <2>2. CASE Layers(checkpoints, i, a) = {}
    BY <1>8, <2>1, <2>2 DEF Version
  <2>3. CASE Layers(checkpoints, i, a) # {}
    <3>1. First(Layers(checkpoints, i, a)) \in 1..n
      BY <1>0, <2>3, FirstFacts, LayersFacts
    <3>2. QED BY <1>2, <1>3, <2>1, <2>3, <3>1 DEF Version, View, SlotOf
  <2>4. QED BY <2>2, <2>3
<1>10. \A i : i = n + 1 => \A a \in Addr : Version(i, a)' = Current(a)
  <2> SUFFICES ASSUME NEW i, i = n + 1, NEW a \in Addr PROVE Version(i, a)' = Current(a)
    OBVIOUS
  <2>1. Layers(checkpoints', i, a) = {}
    BY <1>0, <1>3, <1>4 DEF Layers
  <2>2. QED BY <1>8, <2>1 DEF Version
<1>11. Copies' = Append(Copies, CurrentState)
  <2>1. /\ Copies \in Seq({[a \in Addr |-> Version(i, a)] : i \in 1..n})
        /\ Len(Copies) = n
    BY <1>0, CopiesSeq
  <2>2. Copies' = [i \in 1..(n + 1) |-> [a \in Addr |-> Version(i, a)']]
    BY <1>3 DEF Copies
  <2>3. ASSUME NEW i \in 1..(n + 1)
        PROVE  [a \in Addr |-> Version(i, a)'] = Append(Copies, CurrentState)[i]
    <3>1. CASE i = n + 1
      BY <1>0, <1>10, <2>1, <3>1 DEF CurrentState
    <3>2. CASE i \in 1..n
      <4>1. Append(Copies, CurrentState)[i] = Copies[i]
        BY <1>0, <2>1, <3>2
      <4>2. Copies[i] = [a \in Addr |-> Version(i, a)]
        BY <3>2 DEF Copies
      <4>3. \A a \in Addr : Version(i, a)' = Version(i, a)
        BY <1>9, <3>2
      <4>4. [a \in Addr |-> Version(i, a)'] = [a \in Addr |-> Version(i, a)]
        BY <4>3, Zenon
      <4>5. QED BY <4>1, <4>2, <4>4
    <3>3. i = n + 1 \/ i \in 1..n
      BY <1>0
    <3>4. QED BY <3>1, <3>2, <3>3, Zenon
  <2>4. Append(Copies, CurrentState) = [i \in 1..(n + 1) |-> Append(Copies, CurrentState)[i]]
    <3> DEFINE S == {[a \in Addr |-> Version(i, a)] : i \in 1..n} \cup {CurrentState}
    <3>1. Copies \in Seq(S) /\ CurrentState \in S
      BY <1>0 DEF Copies
    <3> HIDE DEF S
    <3>2. Append(Copies, CurrentState) \in Seq(S) /\ Len(Append(Copies, CurrentState)) = n + 1
      BY <2>1, <3>1
    <3>3. Append(Copies, CurrentState) \in [1..(n + 1) -> S]
      BY <3>2, LenProperties, Zenon
    <3>4. QED BY <3>3, Zenon
  <2>5. QED BY <2>2, <2>3, <2>4
<1>12. CurrentState' = CurrentState
  BY <1>8 DEF CurrentState
<1>13. Abs!Push
  BY <1>0, <1>2, <1>11, <1>12, CopiesSeq DEF Abs!Push
<1>14. QED BY <1>7, <1>13 DEF Abs!Next

(* When the last layer goes and the versions below it stay, the last copy   *)
(* goes.                                                                    *)
LEMMA CopiesPopped ==
  ASSUME checkpoints \in Seq([Addr -> Entry]), Len(checkpoints) > 0,
         Len(checkpoints') = Len(checkpoints) - 1,
         \A i \in 1..(Len(checkpoints) - 1), a \in Addr : Version(i, a)' = Version(i, a)
  PROVE  Copies # << >> /\ Copies' = SubSeq(Copies, 1, Len(Copies) - 1)
<1> DEFINE n == Len(checkpoints)
           S == {[a \in Addr |-> Version(i, a)] : i \in 1..n}
<1>1. Copies \in Seq(S) /\ Len(Copies) = n /\ n \in Nat
  BY CopiesSeq
<1> DEFINE q == SubSeq(Copies, 1, Len(Copies) - 1)
<1>2. /\ q \in Seq(S) /\ Len(q) = n - 1
      /\ \A i \in 1..(n - 1) : q[i] = Copies[i]
  <2> HIDE DEF S
  <2> QED BY <1>1
<1>3. q = [i \in 1..(n - 1) |-> q[i]]
  <2> HIDE DEF S, q
  <2>1. q \in [1..(n - 1) -> S]
    BY <1>2, LenProperties
  <2>2. QED BY <2>1, Zenon
<1>4. Copies' = [i \in 1..(n - 1) |-> [a \in Addr |-> Version(i, a)']]
  BY DEF Copies
<1>5. ASSUME NEW i \in 1..(n - 1)
      PROVE  [a \in Addr |-> Version(i, a)'] = q[i]
  <2>1. [a \in Addr |-> Version(i, a)'] = [a \in Addr |-> Version(i, a)]
    <3>1. \A a \in Addr : Version(i, a)' = Version(i, a)
      OBVIOUS
    <3>2. QED BY <3>1, Zenon
  <2>2. Copies[i] = [a \in Addr |-> Version(i, a)]
    BY <1>1 DEF Copies
  <2>3. QED BY <1>2, <2>1, <2>2, Zenon
<1>6. Copies # << >>
  BY <1>1
<1> HIDE DEF q
<1>7. QED BY <1>3, <1>4, <1>5, <1>6 DEF q

(* discard_checkpoint drops a copy: merging the last layer into the one     *)
(* below keeps the versions at the remaining checkpoints.                   *)
LEMMA DiscardStep ==
  ASSUME StateInv, DiscardCheckpoint
  PROVE  StateInv' /\ Abs!Next
<1> DEFINE n == Len(checkpoints)
           top == checkpoints[n]
<1>0. /\ checkpoints \in Seq([Addr -> Entry]) /\ n \in Nat /\ n > 0
      /\ db' = db /\ cache' = cache
  BY DEF StateInv, DiscardCheckpoint
<1>1. /\ checkpoints' \in Seq([Addr -> Entry]) /\ Len(checkpoints') = n - 1
      /\ \A i \in 1..(n - 2) : checkpoints'[i] = checkpoints[i]
      /\ n > 1 => \A a \in Addr : checkpoints'[n - 1][a] =
                    IF checkpoints[n - 1][a].kind # "none" THEN checkpoints[n - 1][a] ELSE top[a]
  <2>1. CASE n = 1
    BY <1>0, <2>1 DEF DiscardCheckpoint
  <2>2. CASE n > 1
    <3> DEFINE q == SubSeq(checkpoints, 1, n - 1)
               m == Merge(checkpoints[n - 1], top)
    <3>1. /\ q \in Seq([Addr -> Entry]) /\ Len(q) = n - 1
          /\ \A i \in 1..(n - 1) : q[i] = checkpoints[i]
      BY <1>0, <2>2
    <3>2. checkpoints[n - 1] \in [Addr -> Entry] /\ top \in [Addr -> Entry]
      BY <1>0, <2>2
    <3>3. m \in [Addr -> Entry]
      BY <3>2 DEF Merge
    <3>4. \A a \in Addr : m[a] = IF checkpoints[n - 1][a].kind # "none"
                                 THEN checkpoints[n - 1][a] ELSE top[a]
      BY DEF Merge
    <3>5. n - 1 \in 1..(n - 1) /\ q[n - 1] = checkpoints[n - 1]
      BY <1>0, <2>2, <3>1
    <3>6. checkpoints' = [q EXCEPT ![n - 1] = m]
      BY <2>2, <3>5 DEF DiscardCheckpoint
    <3> HIDE DEF q, m
    <3>7. /\ checkpoints' \in Seq([Addr -> Entry]) /\ Len(checkpoints') = n - 1
          /\ \A i \in 1..(n - 2) : checkpoints'[i] = q[i]
          /\ checkpoints'[n - 1] = m
      BY <1>0, <3>1, <3>3, <3>5, <3>6
    <3>8. \A i \in 1..(n - 2) : q[i] = checkpoints[i]
      <4>1. \A i \in 1..(n - 2) : i \in 1..(n - 1)
        BY <1>0
      <4>2. QED BY <3>1, <4>1
    <3>9. /\ \A i \in 1..(n - 2) : checkpoints'[i] = checkpoints[i]
          /\ \A a \in Addr : checkpoints'[n - 1][a] = IF checkpoints[n - 1][a].kind # "none"
                                                    THEN checkpoints[n - 1][a] ELSE top[a]
      BY <3>4, <3>7, <3>8, Zenon
    <3>10. QED BY <3>7, <3>9, Zenon
  <2>3. n = 1 \/ n > 1
    <3>1. \A k \in Nat : k > 0 => k = 1 \/ k > 1
      OBVIOUS
    <3>2. QED BY <1>0, <3>1, Zenon
  <2>4. QED BY <2>1, <2>2, <2>3, Zenon
<1>2. \A a \in Addr : Current(a)' = Current(a)
  BY <1>0 DEF Current, View, SlotOf
<1>3. ASSUME NEW i \in 1..(n - 1), NEW a \in Addr
      PROVE  \/ checkpoints'[i][a] = checkpoints[i][a]
             \/ i = n - 1 /\ checkpoints[i][a].kind = "none" /\ checkpoints'[i][a] = top[a]
  <2>1. i \in 1..(n - 2) \/ (i = n - 1 /\ n > 1)
    BY <1>0
  <2>2. QED BY <1>1, <2>1
<1>4. ASSUME NEW i \in 1..(n - 1), NEW a \in Addr
      PROVE  Version(i, a)' = Version(i, a)
  <2>0. i \in Nat /\ Len(checkpoints') \in Nat /\ n > 1 /\ n - 1 \in i..(n - 1) /\ n \in i..n
    BY <1>0, <1>1
  <2>1. CASE /\ Layers(checkpoints, i, a) = {}
             /\ \A j \in i..n : checkpoints[j][a].kind = "none"
    <3>1. \A j \in i..(n - 1) : checkpoints'[j][a].kind = "none"
      <4> SUFFICES ASSUME NEW j \in i..(n - 1) PROVE checkpoints'[j][a].kind = "none"
        OBVIOUS
      <4>1. j \in 1..(n - 1) /\ j \in i..n
        BY <1>0
      <4>2. QED BY <1>3, <2>0, <2>1, <4>1
    <3>2. Layers(checkpoints', i, a) = {}
      BY <1>1, <3>1 DEF Layers
    <3>3. QED BY <1>2, <2>1, <3>2 DEF Version
  <2>2. ASSUME NEW f \in i..n, checkpoints[f][a].kind # "none",
               \A j \in i..(f - 1) : checkpoints[j][a].kind = "none"
        PROVE  Version(i, a)' = Version(i, a)
    <3>1. Layers(checkpoints, i, a) # {} /\ First(Layers(checkpoints, i, a)) = f
      BY <1>0, <2>0, <2>2, FirstLayer
    <3>2. CASE f # n
      <4>1. f \in i..Len(checkpoints') /\ f \in 1..(n - 1)
        BY <1>0, <1>1, <2>0, <3>2
      <4>2. checkpoints'[f][a] = checkpoints[f][a]
        BY <1>3, <2>2, <4>1
      <4>3. \A j \in i..(f - 1) : checkpoints'[j][a].kind = "none"
        <5> SUFFICES ASSUME NEW j \in i..(f - 1) PROVE checkpoints'[j][a].kind = "none"
          OBVIOUS
        <5>1. j \in 1..(n - 1) /\ j # n - 1
          BY <1>0, <4>1
        <5>2. QED BY <1>3, <2>2, <5>1
      <4>4. Layers(checkpoints', i, a) # {} /\ First(Layers(checkpoints', i, a)) = f
        <5>1. checkpoints'[f][a].kind # "none"
          BY <2>2, <4>2
        <5>2. QED BY <2>0, <4>1, <4>3, <5>1, FirstLayer
      <4>5. QED BY <1>0, <3>1, <4>2, <4>4 DEF Version, View, SlotOf
    <3>3. CASE f = n
      <4>1. checkpoints[n - 1][a].kind = "none" /\ checkpoints'[n - 1][a] = top[a]
        BY <1>0, <1>1, <2>0, <2>2, <3>3
      <4>2. \A j \in i..(n - 2) : checkpoints'[j][a].kind = "none"
        BY <1>0, <1>1, <2>2, <3>3
      <4> DEFINE g == n - 1
      <4>3. /\ g \in i..Len(checkpoints') /\ checkpoints'[g][a].kind # "none"
            /\ \A j \in i..(g - 1) : checkpoints'[j][a].kind = "none"
        BY <1>0, <1>1, <2>0, <2>2, <3>3, <4>1, <4>2
      <4>4. Layers(checkpoints', i, a) # {} /\ First(Layers(checkpoints', i, a)) = g
        <5> HIDE DEF g
        <5> QED BY <2>0, <4>3, FirstLayer
      <4>5. QED BY <1>0, <3>1, <3>3, <4>1, <4>4 DEF Version, View, SlotOf
    <3>4. QED BY <3>2, <3>3
  <2>3. QED BY <1>0, <2>0, <2>1, <2>2, FirstOrNone
<1>5. \A i \in 1..(n - 1), a \in Addr : EntryOK(a, checkpoints[i][a])'
  <2> SUFFICES ASSUME NEW i \in 1..(n - 1), NEW a \in Addr
               PROVE  EntryOK(a, checkpoints[i][a])'
    OBVIOUS
  <2>1. i \in 1..n /\ n \in 1..n
    BY <1>0
  <2>2. EntryOK(a, checkpoints[i][a]) /\ EntryOK(a, top[a])
    BY <2>1 DEF StateInv
  <2>3. checkpoints'[i][a] = checkpoints[i][a] \/ checkpoints'[i][a] = top[a]
    BY <1>3
  <2>4. QED BY <1>0, <2>2, <2>3 DEF EntryOK
<1>6. CacheCovers'
  <2> SUFFICES ASSUME NEW i \in 1..(n - 1), NEW a \in Addr, checkpoints'[i][a].kind # "none"
               PROVE  /\ cache'[a].kind # "none"
                      /\ checkpoints'[i][a].kind = "unchanged" =>
                            \A j \in 1..(i - 1) : checkpoints'[j][a].kind = "none"
    BY <1>1, Zenon DEF CacheCovers
  <2>1. i \in 1..n /\ n \in 1..n /\ \A j \in 1..(i - 1) : j \in 1..(n - 2) /\ j \in 1..(n - 1)
    BY <1>0
  <2>2. \A k \in 1..n : checkpoints[k][a].kind # "none" =>
            /\ cache[a].kind # "none"
            /\ checkpoints[k][a].kind = "unchanged" =>
                \A j \in 1..(k - 1) : checkpoints[j][a].kind = "none"
    BY DEF StateInv, CacheCovers
  <2>3. \A j \in 1..(i - 1) : checkpoints'[j][a] = checkpoints[j][a]
    BY <1>1, <2>1, Zenon
  <2>4. CASE checkpoints'[i][a] = checkpoints[i][a]
    BY <1>0, <2>1, <2>2, <2>3, <2>4
  <2>5. CASE checkpoints'[i][a] = top[a]
    BY <1>0, <2>1, <2>2, <2>3, <2>5
  <2>6. QED BY <1>3, <2>4, <2>5
<1>7. StateInv'
  <2>1. \A a \in Addr : DbOK(a)' /\ cache'[a].kind # "unchanged" /\ EntryOK(a, cache[a])'
    BY <1>0 DEF StateInv, DbOK, EntryOK
  <2>2. QED BY <1>0, <1>1, <1>5, <1>6, <2>1 DEF StateInv
<1>8. Copies # << >> /\ Copies' = SubSeq(Copies, 1, Len(Copies) - 1)
  BY <1>0, <1>1, <1>4, CopiesPopped
<1>9. CurrentState' = CurrentState
  BY <1>2 DEF CurrentState
<1>10. QED BY <1>7, <1>8, <1>9 DEF Abs!Next, Abs!Drop

(* The entry of an address after a revert reads like its version at the     *)
(* last checkpoint.                                                         *)
LEMMA RevertedFacts ==
  ASSUME StateInv, NEW a \in Addr, NEW old \in Entry, EntryOK(a, old)
  PROVE  LET e == Reverted(cache[a], old)
         IN  /\ e \in Entry /\ e.kind # "unchanged" /\ EntryOK(a, e)
             /\ old.kind = "none" => e = cache[a]
             /\ old.kind # "none" => View(a, e) = View(a, old)
             /\ e.kind = "none" => cache[a].kind = "none" \/ old.kind = "unchanged"
<1> DEFINE e == Reverted(cache[a], old)
<1>0. /\ cache[a] \in Entry /\ cache[a].kind # "unchanged" /\ EntryOK(a, cache[a])
      /\ db[a] \in DbAccount
  BY DEF StateInv
<1>1. CASE old.kind = "none"
  BY <1>0, <1>1 DEF Reverted
<1>2. CASE old.kind # "none" /\ old.kind # "unchanged"
  BY <1>0, <1>2 DEF Reverted
<1>3. CASE old.kind = "unchanged" /\ cache[a].dirty
  <2>1. e = Blank("none")
    BY <1>3 DEF Reverted
  <2>2. Blank("none") \in Entry /\ Blank("none").kind = "none" /\ EntryOK(a, Blank("none"))
    BY BlankEntry DEF Blank, EntryOK
  <2>3. View(a, Blank("none")) = View(a, old)
    BY <1>3, <2>2 DEF View
  <2>4. QED BY <1>3, <2>1, <2>2, <2>3
<1>4. CASE old.kind = "unchanged" /\ ~cache[a].dirty
  <2>1. e = cache[a]
    BY <1>4 DEF Reverted
  <2>2. View(a, cache[a]) = View(a, old)
    BY <1>0, <1>4 DEF View, SlotOf, EntryOK
  <2>3. QED BY <1>0, <1>4, <2>1, <2>2
<1>5. QED BY <1>1, <1>2, <1>3, <1>4, Zenon

(* revert_to_checkpoint restores the last copy, and keeps those below it,   *)
(* also where they shared an entry of the layer that goes.                  *)
LEMMA RevertStep ==
  ASSUME StateInv, RevertToCheckpoint
  PROVE  StateInv' /\ Abs!Next
<1> DEFINE n == Len(checkpoints)
           top == checkpoints[n]
<1>0. /\ checkpoints \in Seq([Addr -> Entry]) /\ n \in Nat /\ n > 0 /\ n \in 1..n
      /\ db' = db /\ cache' = [a \in Addr |-> Reverted(cache[a], top[a])]
      /\ checkpoints' = SubSeq(checkpoints, 1, n - 1)
      /\ top \in [Addr -> Entry]
  BY DEF StateInv, RevertToCheckpoint
<1>1. /\ checkpoints' \in Seq([Addr -> Entry]) /\ Len(checkpoints') = n - 1
      /\ \A i \in 1..(n - 1) : i \in 1..n /\ checkpoints'[i] = checkpoints[i]
  <2>1. /\ checkpoints' \in Seq([Addr -> Entry]) /\ Len(checkpoints') = n - 1
        /\ \A i \in 1..(n - 1) : checkpoints'[i] = checkpoints[i]
    <3>1. checkpoints \in Seq([Addr -> Entry]) /\ n \in Nat /\ n > 0
      BY <1>0
    <3>2. checkpoints' = SubSeq(checkpoints, 1, n - 1)
      BY <1>0
    <3> DEFINE S == [Addr -> Entry]
    <3>3. \A i \in 1..(n - 1) : checkpoints[i] \in S /\ 1 + i - 1 = i
      BY <3>1
    <3> HIDE DEF S
    <3>4. /\ SubSeq(checkpoints, 1, n - 1) \in Seq(S)
          /\ Len(SubSeq(checkpoints, 1, n - 1)) = IF 1 <= n - 1 THEN (n - 1) - 1 + 1 ELSE 0
          /\ \A i \in 1..((n - 1) - 1 + 1) : SubSeq(checkpoints, 1, n - 1)[i] = checkpoints[1 + i - 1]
      BY <3>1, <3>3, SubSeqProperties
    <3>5. (n - 1) - 1 + 1 = n - 1 /\ (~(1 <= n - 1) => n - 1 = 0)
      <4>1. \A k \in Nat : k > 0 => (k - 1) - 1 + 1 = k - 1 /\ (~(1 <= k - 1) => k - 1 = 0)
        OBVIOUS
      <4>2. QED BY <3>1, <4>1, Zenon
    <3>6. /\ Len(SubSeq(checkpoints, 1, n - 1)) = n - 1
          /\ \A i \in 1..(n - 1) : SubSeq(checkpoints, 1, n - 1)[i] = checkpoints[i]
      BY <3>3, <3>4, <3>5, Zenon
    <3>7. QED BY <3>2, <3>4, <3>6 DEF S
  <2>2. \A i \in 1..(n - 1) : i \in 1..n
    BY <1>0
  <2>3. QED BY <2>1, <2>2
<1>2. ASSUME NEW a \in Addr
      PROVE  /\ cache'[a] \in Entry /\ cache'[a].kind # "unchanged" /\ EntryOK(a, cache'[a])
             /\ top[a].kind = "none" => cache'[a] = cache[a]
             /\ top[a].kind # "none" => View(a, cache'[a]) = View(a, top[a])
             /\ cache'[a].kind = "none" => cache[a].kind = "none" \/ top[a].kind = "unchanged"
  <2>1. cache'[a] = Reverted(cache[a], top[a]) /\ top[a] \in Entry
    BY <1>0
  <2>2. EntryOK(a, top[a])
    BY <1>0 DEF StateInv
  <2>3. QED BY <2>1, <2>2, RevertedFacts
<1>3. \A a \in Addr : Current(a)' = View(a, cache'[a])
  BY <1>0 DEF Current, View, SlotOf
<1>4. ASSUME NEW i \in 1..n, NEW a \in Addr
      PROVE  /\ i = n => Current(a)' = Version(i, a)
             /\ i # n => Version(i, a)' = Version(i, a)
  <2>0. i \in Nat /\ n \in i..n
    BY <1>0
  <2>1. ASSUME i # n PROVE /\ i \in 1..(n - 1) /\ Len(checkpoints') \in Nat
                           /\ Layers(checkpoints', i, a) = Layers(checkpoints, i, a) \ {n}
    <3>1. i \in 1..(n - 1) /\ Len(checkpoints') \in Nat
      BY <1>0, <1>1, <2>1
    <3>2. \A j : j \in i..(n - 1) <=> j \in i..n /\ j # n
      BY <1>0, <2>0
    <3>3. \A j \in i..(n - 1) : checkpoints'[j] = checkpoints[j]
      BY <1>1, <2>0
    <3>4. QED BY <1>1, <3>1, <3>2, <3>3 DEF Layers
  <2>2. CASE /\ Layers(checkpoints, i, a) = {}
             /\ \A j \in i..n : checkpoints[j][a].kind = "none"
    <3>1. Current(a)' = Current(a)
      BY <1>2, <1>3, <2>0, <2>2 DEF Current
    <3>2. Version(i, a) = Current(a)
      BY <2>2 DEF Version
    <3>3. i # n => Version(i, a)' = Current(a)'
      BY <2>1, <2>2 DEF Version
    <3>4. QED BY <3>1, <3>2, <3>3
  <2>3. ASSUME NEW f \in i..n, checkpoints[f][a].kind # "none",
               \A j \in i..(f - 1) : checkpoints[j][a].kind = "none"
        PROVE  /\ i = n => Current(a)' = Version(i, a)
               /\ i # n => Version(i, a)' = Version(i, a)
    <3>1. Layers(checkpoints, i, a) # {} /\ First(Layers(checkpoints, i, a)) = f
      BY <1>0, <2>0, <2>3, FirstLayer
    <3>2. Version(i, a) = View(a, checkpoints[f][a])
      BY <3>1 DEF Version
    <3>3. CASE f = n
      <4>1. Current(a)' = Version(i, a)
        BY <1>2, <1>3, <2>3, <3>2, <3>3
      <4>2. ASSUME i # n PROVE Version(i, a)' = Current(a)'
        <5>1. Layers(checkpoints, i, a) = {n}
          <6>1. \A j \in i..n : j = n \/ j \in i..(n - 1)
            BY <1>0, <2>0
          <6>2. QED BY <2>0, <2>3, <3>3, <6>1 DEF Layers
        <5>2. QED BY <2>1, <4>2, <5>1 DEF Version
      <4>3. QED BY <4>1, <4>2
    <3>4. CASE f # n
      <4>1. i # n /\ f \in i..(n - 1) /\ f \in 1..(n - 1)
        BY <1>0, <2>0, <3>4
      <4>2. \A j \in i..(f - 1) : j \in 1..(n - 1)
        BY <1>0, <2>0, <4>1
      <4>3. Layers(checkpoints', i, a) # {} /\ First(Layers(checkpoints', i, a)) = f
        <5>1. /\ checkpoints'[f][a].kind # "none"
              /\ \A j \in i..(f - 1) : checkpoints'[j][a].kind = "none"
          BY <1>1, <2>3, <4>1, <4>2
        <5>2. f \in i..Len(checkpoints') /\ Len(checkpoints') \in Nat
          BY <1>1, <2>1, <4>1
        <5>3. QED BY <2>0, <5>1, <5>2, FirstLayer
      <4>4. Version(i, a)' = View(a, checkpoints[f][a])
        BY <1>0, <1>1, <4>1, <4>3 DEF Version, View, SlotOf
      <4>5. QED BY <3>2, <4>1, <4>4
    <3>5. QED BY <3>3, <3>4
  <2>4. QED BY <1>0, <2>0, <2>2, <2>3, FirstOrNone, Zenon
<1>5. CacheCovers'
  <2> SUFFICES ASSUME NEW i \in 1..(n - 1), NEW a \in Addr, checkpoints'[i][a].kind # "none"
               PROVE  /\ cache'[a].kind # "none"
                      /\ checkpoints'[i][a].kind = "unchanged" =>
                            \A j \in 1..(i - 1) : checkpoints'[j][a].kind = "none"
    BY <1>1 DEF CacheCovers
  <2>1. i \in 1..n /\ checkpoints'[i][a] = checkpoints[i][a]
    BY <1>1
  <2>2. \A k \in 1..n : checkpoints[k][a].kind # "none" =>
            /\ cache[a].kind # "none"
            /\ checkpoints[k][a].kind = "unchanged" =>
                \A j \in 1..(k - 1) : checkpoints[j][a].kind = "none"
    BY DEF StateInv, CacheCovers
  <2>3. cache[a].kind # "none" /\ top[a].kind # "unchanged"
    BY <1>0, <2>1, <2>2, Zenon
  <2>4. \A j \in 1..(i - 1) : j \in 1..(n - 1)
    BY <1>0
  <2>5. QED BY <1>1, <1>2, <2>1, <2>2, <2>3, <2>4, Zenon
<1>6. StateInv'
  <2>1. \A i \in 1..(n - 1), a \in Addr : EntryOK(a, checkpoints[i][a])'
    <3> SUFFICES ASSUME NEW i \in 1..(n - 1), NEW a \in Addr
                 PROVE  EntryOK(a, checkpoints[i][a])'
      OBVIOUS
    <3>1. EntryOK(a, checkpoints[i][a])
      BY <1>1 DEF StateInv
    <3>2. db' = db /\ checkpoints'[i][a] = checkpoints[i][a]
      BY <1>0, <1>1
    <3>3. QED BY <3>1, <3>2 DEF EntryOK
  <2>2. \A a \in Addr : DbOK(a)' /\ cache'[a].kind # "unchanged" /\ EntryOK(a, cache[a])'
    BY <1>0, <1>2, Zenon DEF StateInv, DbOK, EntryOK
  <2>3. cache' \in [Addr -> Entry]
    BY <1>0, <1>2
  <2>4. db' \in [Addr -> DbAccount]
    BY <1>0 DEF StateInv
  <2>5. QED BY <1>1, <1>5, <2>1, <2>2, <2>3, <2>4 DEF StateInv
<1>7. Copies # << >> /\ Copies' = SubSeq(Copies, 1, Len(Copies) - 1)
  <2>1. \A i \in 1..(n - 1), a \in Addr : i \in 1..n /\ i # n
    BY <1>0
  <2>2. QED BY <1>0, <1>1, <1>4, <2>1, CopiesPopped
<1>8. CurrentState' = Copies[Len(Copies)]
  <2>1. Len(Copies) = n
    BY <1>0, CopiesSeq
  <2>2. Copies[n] = [a \in Addr |-> Version(n, a)]
    BY <1>0 DEF Copies
  <2>3. \A a \in Addr : Current(a)' = Version(n, a)
    BY <1>0, <1>4
  <2>4. QED BY <2>1, <2>2, <2>3 DEF CurrentState
<1>9. QED BY <1>6, <1>7, <1>8 DEF Abs!Next, Abs!Restore

-----------------------------------------------------------------------------
(* What commit stores reads like the account: an account with storage that  *)
(* is hidden by a newer one is not stored under it.                         *)
LEMMA StoredFacts ==
  ASSUME StateInv, NEW a \in Addr
  PROVE  LET d == Stored(a, cache[a])
         IN  /\ d \in DbAccount
             /\ ~d.exists => d.bal = 0 /\ ~d.contract
             /\ d.slot # 0 => d.contract
             /\ [bal |-> d.bal, contract |-> d.contract, slot |-> d.slot] = Current(a)
<1> DEFINE e == cache[a]
           d == Stored(a, e)
<1>0. e \in Entry /\ EntryOK(a, e) /\ db[a] \in DbAccount /\ DbOK(a)
  BY DEF StateInv
<1>1. Current(a) = View(a, e)
  BY DEF Current
<1> HIDE DEF e
<1>2. CASE e.kind # "cached" \/ ~e.dirty
  <2>1. d = db[a]
    BY <1>2 DEF Stored
  <2>2. View(a, e) = [bal |-> db[a].bal, contract |-> db[a].contract, slot |-> db[a].slot]
    BY <1>0, <1>2 DEF View, SlotOf, EntryOK
  <2>3. QED BY <1>0, <1>1, <2>1, <2>2 DEF DbOK, e
<1>3. CASE ~(e.kind # "cached" \/ ~e.dirty) /\ e.clear /\ e.bal = 0 /\ ~e.contract
  <2>1. d = [exists |-> FALSE, bal |-> 0, contract |-> FALSE, slot |-> 0]
    BY <1>3 DEF Stored
  <2>2. SlotOf(a, e) = 0 /\ e.contract = FALSE
    BY <1>0, <1>3 DEF SlotOf, EntryOK, Entry
  <2>3. View(a, e) = [bal |-> 0, contract |-> FALSE, slot |-> 0]
    BY <1>3, <2>2, Zenon DEF View
  <2>4. d \in DbAccount
    BY <2>1, StateAssumption DEF DbAccount
  <2>5. QED BY <1>1, <2>1, <2>3, <2>4 DEF e
<1>4. CASE ~(e.kind # "cached" \/ ~e.dirty) /\ ~(e.clear /\ e.bal = 0 /\ ~e.contract)
  <2> DEFINE s == IF e.write # NoWrite THEN e.write ELSE IF e.clear THEN 0 ELSE db[a].slot
  <2>1. d = [exists |-> TRUE, bal |-> e.bal, contract |-> e.contract, slot |-> s]
    BY <1>4 DEF Stored
  <2>2. s = SlotOf(a, e) /\ s \in 0..MaxValue /\ (s # 0 => e.contract)
    BY <1>0, <1>4, StateAssumption DEF SlotOf, EntryOK, Entry, DbAccount, NoWrite
  <2> HIDE DEF s
  <2>3. View(a, e) = [bal |-> e.bal, contract |-> e.contract, slot |-> s]
    BY <1>4, <2>2 DEF View
  <2>4. d \in DbAccount
    BY <1>0, <2>1, <2>2 DEF DbAccount, Entry
  <2>5. QED BY <1>1, <2>1, <2>2, <2>3, <2>4 DEF e
<1>5. QED BY <1>2, <1>3, <1>4, Zenon

(* commit is a stuttering step.                                             *)
LEMMA CommitStep ==
  ASSUME StateInv, Commit
  PROVE  StateInv' /\ UNCHANGED <<CurrentState, Copies>>
<1>0. /\ checkpoints = << >> /\ checkpoints' = << >>
      /\ db' = [a \in Addr |-> Stored(a, cache[a])] /\ cache' = NoEntries
  BY DEF Commit
<1>1. ASSUME NEW a \in Addr
      PROVE  /\ db'[a] \in DbAccount /\ DbOK(a)'
             /\ [bal |-> db'[a].bal, contract |-> db'[a].contract, slot |-> db'[a].slot]
                    = Current(a)
  <2>1. db'[a] = Stored(a, cache[a])
    BY <1>0
  <2>2. QED BY <2>1, StoredFacts DEF DbOK
<1>2. \A a \in Addr : cache'[a] = Blank("none") /\ cache'[a] \in Entry
  BY <1>0, BlankEntry DEF NoEntries
<1>3. \A a \in Addr : Current(a)' = Current(a)
  <2> SUFFICES ASSUME NEW a \in Addr PROVE Current(a)' = Current(a)
    OBVIOUS
  <2>1. cache'[a].kind = "none"
    BY <1>2 DEF Blank
  <2>2. Current(a)' = [bal |-> db'[a].bal, contract |-> db'[a].contract, slot |-> db'[a].slot]
    BY <2>1 DEF Current, View
  <2>3. QED BY <1>1, <2>2
<1>4. CurrentState' = CurrentState
  BY <1>3 DEF CurrentState
<1>5. Copies' = Copies
  BY <1>0 DEF Copies
<1>6. \A a \in Addr : cache'[a].kind # "unchanged" /\ EntryOK(a, cache[a])'
  <2> SUFFICES ASSUME NEW a \in Addr
               PROVE  cache'[a].kind # "unchanged" /\ EntryOK(a, cache[a])'
    OBVIOUS
  <2>1. cache'[a] = Blank("none")
    BY <1>2
  <2>2. cache'[a].kind = "none"
    BY <2>1 DEF Blank
  <2>3. QED BY <2>1, <2>2 DEF EntryOK
<1>7. db' \in [Addr -> DbAccount] /\ cache' \in [Addr -> Entry]
  BY <1>0, <1>1, <1>2 DEF NoEntries
<1>8. Len(checkpoints') = 0 /\ checkpoints' \in Seq([Addr -> Entry])
  BY <1>0
<1>9. StateInv'
  BY <1>1, <1>6, <1>7, <1>8 DEF StateInv, CacheCovers
<1>10. QED BY <1>4, <1>5, <1>9

(* Every step of the State keeps the invariant and is a step of the stack   *)
(* of copies or changes nothing there.                                      *)
LEMMA StepSimulation ==
  ASSUME StateInv, [StateNext]_stateVars
  PROVE  StateInv' /\ (Abs!Next \/ UNCHANGED <<CurrentState, Copies>>)
<1>1. ASSUME NEW a \in Addr, NEW code \in BOOLEAN, Read(a, code)
      PROVE  StateInv' /\ UNCHANGED <<CurrentState, Copies>>
  BY <1>1, ReadStep
<1>2. ASSUME NEW a \in Addr, NEW by \in 0..MaxBalance, NEW force \in BOOLEAN,
             AddBalance(a, by, force)
      PROVE  StateInv' /\ (Abs!Next \/ UNCHANGED <<CurrentState, Copies>>)
  BY <1>2, AddBalanceStep
<1>3. ASSUME NEW a \in Addr, NEW by \in 1..MaxBalance, SubBalance(a, by)
      PROVE  StateInv' /\ Abs!Next
  BY <1>3, SubBalanceStep
<1>4. ASSUME NEW a \in Addr, NEW v \in 0..MaxValue, SetStorage(a, v)
      PROVE  StateInv' /\ (Abs!Next \/ UNCHANGED <<CurrentState, Copies>>)
  BY <1>4, SetStorageStep
<1>5. ASSUME NEW a \in Addr, NewContract(a) PROVE StateInv' /\ Abs!Next
  BY <1>5, NewContractStep
<1>6. ASSUME NEW a \in Addr, RemoveContract(a) PROVE StateInv' /\ Abs!Next
  BY <1>6, RemoveContractStep
<1>7. ASSUME NEW a \in Addr, Prefetch(a)
      PROVE  StateInv' /\ UNCHANGED <<CurrentState, Copies>>
  BY <1>7, PrefetchStep DEF Prefetch
<1>8. CASE Checkpoint
  BY <1>8, CheckpointStep
<1>9. CASE DiscardCheckpoint
  BY <1>9, DiscardStep
<1>10. CASE RevertToCheckpoint
  BY <1>10, RevertStep
<1>11. CASE Commit
  BY <1>11, CommitStep
<1>12. CASE UNCHANGED stateVars
  <2>1. StateInv'
    <3>1. db' = db /\ cache' = cache /\ checkpoints' = checkpoints
      BY <1>12 DEF stateVars
    <3>2. CacheCovers'
      BY <3>1 DEF StateInv, CacheCovers
    <3>3. \A a \in Addr : DbOK(a)' /\ cache'[a].kind # "unchanged" /\ EntryOK(a, cache[a])'
      BY <3>1 DEF StateInv, DbOK, EntryOK
    <3>4. \A i \in 1..Len(checkpoints'), a \in Addr : EntryOK(a, checkpoints[i][a])'
      <4> SUFFICES ASSUME NEW i \in 1..Len(checkpoints), NEW a \in Addr
                   PROVE  EntryOK(a, checkpoints[i][a])'
        BY <3>1
      <4>1. EntryOK(a, checkpoints[i][a])
        BY DEF StateInv
      <4>2. QED BY <3>1, <4>1 DEF EntryOK
    <3>5. QED BY <3>1, <3>2, <3>3, <3>4 DEF StateInv
  <2>2. CurrentState' = CurrentState
    BY <1>12 DEF stateVars, CurrentState, Current, View, SlotOf
  <2>3. Copies' = Copies
    BY <1>12 DEF stateVars, Copies, Version, Current, View, SlotOf
  <2>4. QED BY <2>1, <2>2, <2>3
<1>13. QED
  BY <1>1, <1>2, <1>3, <1>4, <1>5, <1>6, <1>7, <1>8, <1>9, <1>10, <1>11, <1>12
  DEF StateNext, Execute

(* A State that opens on a database satisfies the invariant and reads like  *)
(* an initial state of the stack.                                           *)
LEMMA InitSimulation ==
  ASSUME StateInit
  PROVE  StateInv /\ Abs!Init
<1>0. /\ db \in [Addr -> DbAccount] /\ \A a \in Addr : DbOK(a)
      /\ cache = NoEntries /\ checkpoints = << >>
  BY DEF StateInit
<1>1. \A a \in Addr : /\ cache[a] = Blank("none") /\ cache[a] \in Entry
                       /\ cache[a].kind = "none"
  BY <1>0, BlankEntry, Zenon DEF NoEntries, Blank
<1>2. \A a \in Addr : cache[a].kind # "unchanged" /\ EntryOK(a, cache[a])
  BY <1>1, Zenon DEF EntryOK
<1>3. cache \in [Addr -> Entry]
  BY <1>0, <1>1 DEF NoEntries
<1>4. Len(checkpoints) = 0 /\ checkpoints \in Seq([Addr -> Entry])
  BY <1>0
<1>5. StateInv
  BY <1>0, <1>2, <1>3, <1>4 DEF StateInv, CacheCovers
<1>6. \A a \in Addr :
        /\ Current(a) \in [bal : 0..MaxBalance, contract : BOOLEAN, slot : 0..MaxValue]
        /\ ~Current(a).contract => Current(a).slot = 0
  BY <1>5, CurrentAccount, Zenon
<1>7. Copies = << >>
  BY <1>4 DEF Copies
<1>8. QED BY <1>5, <1>6, <1>7 DEF Abs!Init, Abs!Account, CurrentState

-----------------------------------------------------------------------------
(* The layers of the State cover what they must: the branch                 *)
(* revert_to_checkpoint marks unreachable! is not reached, and an entry     *)
(* recorded as unchanged lies over no older one.                            *)
THEOREM CacheCoversTheorem == StateSpec => []CacheCovers
<1>1. StateInit => StateInv
  BY InitSimulation
<1>2. StateInv /\ [StateNext]_stateVars => StateInv'
  BY StepSimulation
<1>3. StateInv => CacheCovers
  BY DEF StateInv
<1>4. QED BY <1>1, <1>2, <1>3, PTL DEF StateSpec

(* The State object with its lazily filled layers behaves like a map with a *)
(* stack of full copies.                                                    *)
THEOREM StateRefines == StateSpec => Refines
<1>1. StateInit => StateInv /\ Abs!Init
  BY InitSimulation
<1>2. StateInv /\ [StateNext]_stateVars => StateInv' /\ [Abs!Next]_<<CurrentState, Copies>>
  BY StepSimulation
<1>3. QED BY <1>1, <1>2, PTL DEF StateSpec, Refines, Abs!Spec
=============================================================================
