-------------------------- MODULE EpochStepProofs --------------------------
(***************************************************************************)
(* The steps of the four threads of EpochExecution keep ExecInv: lemmas on  *)
(* the tree of blocks, the storage, the main chain and the channel, then    *)
(* one lemma per action.  Crash and recovery, and the theorems, are in      *)
(* EpochExecutionProofs.                                                    *)
(***************************************************************************)
EXTENDS EpochExecution, WellFoundedInduction, TLAPS

(* A non-empty set of naturals has a least element.                         *)
LEMMA Least ==
  ASSUME NEW S \in SUBSET Nat, S # {}
  PROVE  \E x \in S : \A y \in S : x <= y
<1>1. \E x \in S : \A y \in S : ~(<<y, x>> \in OpToRel(<, Nat))
  BY NatLessThanWellFounded, WFMin, Zenon
<1>2. \A x, y \in Nat : y < x => <<y, x>> \in OpToRel(<, Nat)
  BY Zenon DEF OpToRel
<1>3. \E x \in S : \A y \in S : ~(y < x)
  BY <1>1, <1>2, Zenon
<1>4. QED BY <1>3

(* Min picks it.                                                            *)
LEMMA MinFacts ==
  ASSUME NEW S \in SUBSET Nat, S # {}
  PROVE  Min(S) \in S /\ \A y \in S : Min(S) <= y
BY Least, Zenon DEF Min

(* A non-empty set of naturals with a bound has a greatest element, which   *)
(* Max picks.                                                               *)
LEMMA MaxFacts ==
  ASSUME NEW n \in Nat, NEW S \in SUBSET (0..n), S # {}
  PROVE  Max(S) \in S /\ \A y \in S : y <= Max(S)
<1>0. \A x \in S : x \in Nat /\ x <= n
  OBVIOUS
<1>1. PICK T : T = {n - x : x \in S}
  BY Zenon
<1>2. T \in SUBSET Nat /\ T # {}
  <2>1. \A x \in S : n - x \in Nat
    BY <1>0
  <2>2. QED BY <1>1, <2>1, Zenon
<1>3. PICK m \in T : \A y \in T : m <= y
  BY <1>2, Least
<1>4. PICK x \in S : m = n - x
  BY <1>1
<1>5. \A y \in S : n - x <= n - y
  BY <1>1, <1>3, <1>4
<1>6. \A y \in S : x >= y
  BY <1>0, <1>5
<1>7. Max(S) \in S /\ \A y \in S : Max(S) >= y
  BY <1>6, Zenon DEF Max
<1>8. QED BY <1>0, <1>7

(* The elements of a concatenation.                                         *)
LEMMA Concatenation ==
  ASSUME NEW S, NEW s \in Seq(S), NEW t \in Seq(S)
  PROVE  /\ s \o t \in Seq(S) /\ Len(s \o t) = Len(s) + Len(t)
         /\ \A i \in 1..(Len(s) + Len(t)) : (s \o t)[i] = IF i <= Len(s) THEN s[i] ELSE t[i - Len(s)]
OBVIOUS

(* Max and Min of two numbers.                                              *)
LEMMA TwoNumbers ==
  ASSUME NEW a \in Int, NEW b \in Int
  PROVE  /\ Max({a, b}) = IF a >= b THEN a ELSE b
         /\ Min({a, b}) = IF a <= b THEN a ELSE b
<1>1. \E x \in {a, b} : \A y \in {a, b} : x >= y
  OBVIOUS
<1>2. Max({a, b}) \in {a, b} /\ \A y \in {a, b} : Max({a, b}) >= y
  BY <1>1, Zenon DEF Max
<1>3. \E x \in {a, b} : \A y \in {a, b} : x <= y
  OBVIOUS
<1>4. Min({a, b}) \in {a, b} /\ \A y \in {a, b} : Min({a, b}) <= y
  BY <1>3, Zenon DEF Min
<1>5. QED BY <1>2, <1>4

-----------------------------------------------------------------------------
(* The tree                                                                 *)

(* What the assumption on the instances says of parent and path.            *)
LEMMA TreeFacts ==
  ASSUME Tree
  PROVE  /\ DOMAIN parent \subseteq Nat \ {Genesis}
         /\ \A b \in DOMAIN parent : parent[b] \in Blocks /\ parent[b] < b
         /\ DOMAIN path = Blocks
         /\ path[Genesis] = <<Genesis>>
         /\ \A b \in DOMAIN parent : path[b] = Append(path[parent[b]], b)
BY ExecutionAssumption DEF Tree, Blocks, Genesis

(* The shape of path[b].                                                    *)
Chain(b) ==
  /\ path[b] \in Seq(Blocks) /\ Len(path[b]) >= 1
  /\ path[b][1] = Genesis /\ path[b][Len(path[b])] = b
  /\ \A i \in 1..Len(path[b]) :
        /\ path[b][i] \in Blocks /\ Len(path[path[b][i]]) = i
        /\ \A j \in 1..i : path[path[b][i]][j] = path[b][j]

(* Every block has it.                                                      *)
LEMMA Chains ==
  ASSUME Tree
  PROVE  \A b \in Blocks : Chain(b)
<1> DEFINE Bad == {b \in Blocks : ~Chain(b)}
<1>1. SUFFICES ASSUME Bad # {} PROVE FALSE
  OBVIOUS
<1>2. Bad \in SUBSET Nat
  BY TreeFacts DEF Blocks, Genesis
<1>3. PICK b \in Bad : \A y \in Bad : b <= y
  BY <1>1, <1>2, Least, Zenon
<1>4. CASE b = Genesis
  <2>1. path[b] = <<Genesis>> /\ Genesis \in Blocks
    BY <1>4, TreeFacts DEF Blocks
  <2>2. path[b] \in Seq(Blocks) /\ Len(path[b]) = 1 /\ path[b][1] = b
    BY <1>4, <2>1
  <2>3. Chain(b)
    <3>1. b \in Blocks
      OBVIOUS
    <3>2. \A i \in 1..Len(path[b]) : i = 1
      BY <2>2
    <3>3. QED BY <1>4, <2>2, <3>1, <3>2 DEF Chain
  <2>4. QED BY <1>3, <2>3
<1>5. CASE b # Genesis
  <2> DEFINE p == parent[b]
             s == path[p]
  <2>1. b \in DOMAIN parent /\ b \in Blocks
    BY <1>3, <1>5 DEF Blocks
  <2>2. p \in Blocks /\ p < b /\ path[b] = Append(s, b) /\ p \in Nat /\ b \in Nat
    BY <2>1, <1>2, TreeFacts DEF Blocks, Genesis
  <2>3. Chain(p)
    BY <1>3, <2>2
  <2>4. s \in Seq(Blocks) /\ Len(s) >= 1 /\ s[1] = Genesis
    BY <2>3 DEF Chain
  <2>5. path[b] \in Seq(Blocks) /\ Len(path[b]) = Len(s) + 1
        /\ path[b][Len(path[b])] = b /\ \A i \in 1..Len(s) : path[b][i] = s[i]
    BY <2>1, <2>2, <2>4
  <2>6. ASSUME NEW i \in 1..Len(path[b])
        PROVE  /\ path[b][i] \in Blocks /\ Len(path[path[b][i]]) = i
               /\ \A j \in 1..i : path[path[b][i]][j] = path[b][j]
    <3>1. CASE i = Len(path[b])
      BY <3>1, <2>1, <2>5
    <3>2. CASE i \in 1..Len(s)
      <4>1. path[b][i] = s[i]
        BY <3>2, <2>5
      <4>2. s[i] \in Blocks /\ Len(path[s[i]]) = i /\ \A j \in 1..i : path[s[i]][j] = s[j]
        BY <3>2, <2>3 DEF Chain
      <4>3. \A j \in 1..i : j \in 1..Len(s)
        BY <3>2, <2>4
      <4>4. QED BY <2>5, <4>1, <4>2, <4>3
    <3>3. QED BY <3>1, <3>2, <2>4, <2>5
  <2>7. path[b][1] = Genesis
    BY <2>4, <2>5
  <2>8. Chain(b)
    BY <2>4, <2>5, <2>6, <2>7 DEF Chain
  <2>9. QED BY <1>3, <2>8
<1>6. QED BY <1>4, <1>5

(* Two neighbours on a chain are parent and child, and the place on the     *)
(* chain is the height.                                                     *)
LEMMA Neighbours ==
  ASSUME Tree, NEW b \in Blocks, NEW i \in 1..Len(path[b])
  PROVE  /\ Len(path[path[b][i]]) = i
         /\ Height(path[b][i]) = i - 1
         /\ \A j \in 1..i : path[path[b][i]][j] = path[b][j]
         /\ i > 1 => /\ path[b][i] \in DOMAIN parent /\ path[b][i] # Genesis
                     /\ parent[path[b][i]] = path[b][i - 1]
<1>1. Chain(b)
  BY Chains
<1> DEFINE x == path[b][i]
<1>2. x \in Blocks /\ path[b] \in Seq(Blocks)
  BY <1>1 DEF Chain
<1>3. Len(path[x]) = i /\ \A j \in 1..i : path[x][j] = path[b][j]
  BY <1>1 DEF Chain
<1>4. ASSUME i > 1
      PROVE  x \in DOMAIN parent /\ x # Genesis /\ parent[x] = path[b][i - 1]
  <2>1. x # Genesis
    BY <1>3, <1>4, TreeFacts
  <2>2. x \in DOMAIN parent
    BY <2>1, <1>2 DEF Blocks
  <2>3. parent[x] \in Blocks /\ path[x] = Append(path[parent[x]], x)
    BY <2>2, TreeFacts
  <2>4. Chain(parent[x])
    BY <2>3, Chains
  <2>5. /\ path[parent[x]] \in Seq(Blocks) /\ Len(path[parent[x]]) >= 1
        /\ path[parent[x]][Len(path[parent[x]])] = parent[x]
    BY <2>4, Zenon DEF Chain
  <2>6. Len(path[parent[x]]) = i - 1
    <3>1. Len(path[x]) = Len(path[parent[x]]) + 1 /\ Len(path[parent[x]]) \in Nat
      BY <2>3, <2>5
    <3>2. QED BY <3>1, <1>3
  <2>7. path[x][i - 1] = parent[x]
    BY <2>3, <2>5, <2>6, <1>4
  <2>8. QED BY <1>3, <1>4, <2>1, <2>2, <2>7
<1>5. QED BY <1>3, <1>4 DEF Height

(* A set that contains the parents of its blocks contains their chains.     *)
LEMMA ClosedChain ==
  ASSUME Tree, NEW S, Closed(S), NEW b \in Blocks, b \in S
  PROVE  \A i \in 1..Len(path[b]) : path[b][i] \in S
<1> DEFINE n == Len(path[b])
<1>1. Chain(b) /\ n \in Nat /\ n >= 1
  BY Chains DEF Chain
<1>0. PICK Bad : Bad = {k \in 0..(n - 1) : path[b][n - k] \notin S}
  BY Zenon
<1>2. Bad = {}
  <2>1. SUFFICES ASSUME Bad # {} PROVE FALSE
    OBVIOUS
  <2>2. Bad \in SUBSET Nat
    BY <1>0
  <2>3. PICK k \in Bad : \A y \in Bad : k <= y
    BY <2>1, <2>2, Least
  <2>4. k # 0
    BY <1>0, <1>1, <2>3 DEF Chain
  <2>5. k \in Nat /\ k <= n - 1 /\ k >= 1
    BY <1>0, <2>3, <2>4, <1>1
  <2>6. k - 1 \notin Bad
    BY <2>3, <2>5
  <2>7. k - 1 \in 0..(n - 1) /\ path[b][n - (k - 1)] \in S /\ n - (k - 1) \in 1..n /\ n - (k - 1) > 1
        /\ (n - (k - 1)) - 1 = n - k
    BY <1>0, <2>5, <2>6, <1>1
  <2>8. parent[path[b][n - (k - 1)]] = path[b][n - k] /\ path[b][n - (k - 1)] # Genesis
    BY <2>7, Neighbours
  <2>9. path[b][n - k] \in S
    BY <2>7, <2>8 DEF Closed
  <2>10. QED BY <1>0, <2>3, <2>9
<1>3. ASSUME NEW i \in 1..n PROVE path[b][i] \in S
  <2>1. n - i \in 0..(n - 1) /\ n - (n - i) = i
    BY <1>1
  <2>2. QED BY <1>0, <1>2, <2>1, Zenon
<1>4. QED BY <1>3

(* Being above goes on at the parent.                                       *)
LEMMA AboveFacts ==
  ASSUME Tree, NEW x \in Blocks, NEW z \in Blocks
  PROVE  /\ Height(z) \in Nat /\ Above(z, z)
         /\ z # Genesis => /\ parent[z] \in Blocks /\ Height(parent[z]) = Height(z) - 1
                           /\ Above(parent[z], z)
         /\ Above(x, z) /\ Height(z) <= Height(x) => x = z
         /\ Above(x, z) /\ x # z => z # Genesis /\ Height(x) < Height(z) /\ Above(x, parent[z])
<1>1. /\ path[z] \in Seq(Blocks) /\ Len(path[z]) \in Nat /\ Len(path[z]) >= 1
      /\ path[z][Len(path[z])] = z
  BY Chains DEF Chain
<1>2. /\ path[x] \in Seq(Blocks) /\ Len(path[x]) \in Nat /\ Len(path[x]) >= 1
  BY Chains DEF Chain
<1>3. Height(z) \in Nat /\ Above(z, z)
  BY <1>1 DEF Above, Height, AncestorAt
<1>4. ASSUME z # Genesis
      PROVE  /\ parent[z] \in Blocks /\ path[z] = Append(path[parent[z]], z)
             /\ path[parent[z]] \in Seq(Blocks) /\ Len(path[parent[z]]) \in Nat
             /\ Len(path[parent[z]]) >= 1 /\ path[parent[z]][Len(path[parent[z]])] = parent[z]
             /\ Len(path[z]) = Len(path[parent[z]]) + 1
             /\ \A i \in 1..Len(path[parent[z]]) : path[z][i] = path[parent[z]][i]
  <2>1. z \in DOMAIN parent
    BY <1>4 DEF Blocks
  <2>2. parent[z] \in Blocks /\ path[z] = Append(path[parent[z]], z)
    BY <2>1, TreeFacts
  <2>3. Chain(parent[z])
    BY <2>2, Chains
  <2>4. QED BY <2>2, <2>3 DEF Chain
<1>5. z # Genesis => /\ parent[z] \in Blocks /\ Height(parent[z]) = Height(z) - 1
                     /\ Above(parent[z], z)
  BY <1>1, <1>4 DEF Above, Height, AncestorAt
<1>6. Above(x, z) /\ Height(z) <= Height(x) => x = z
  BY <1>1, <1>2 DEF Above, Height, AncestorAt
<1>7. ASSUME Above(x, z), x # z
      PROVE  z # Genesis /\ Height(x) < Height(z) /\ Above(x, parent[z])
  <2>1. Len(path[x]) < Len(path[z]) /\ path[z][Len(path[x])] = x
    BY <1>1, <1>2, <1>7 DEF Above, Height, AncestorAt
  <2>2. z # Genesis
    BY <2>1, <1>2, TreeFacts
  <2>3. QED BY <1>1, <1>2, <1>4, <2>1, <2>2 DEF Above, Height, AncestorAt
<1>8. QED BY <1>3, <1>5, <1>6, <1>7

(* The deferred state block of a block on a chain is on the chain.          *)
LEMMA DeferredFacts ==
  ASSUME Tree, NEW c \in Blocks, NEW i \in 1..Len(path[c])
  PROVE  /\ DeferredOf(path[c][i]) = IF i - 1 <= Deferred THEN path[c][1] ELSE path[c][i - Deferred]
         /\ DeferredOf(path[c][i]) \in Blocks
<1>1. Height(path[c][i]) = i - 1 /\ \A j \in 1..i : path[path[c][i]][j] = path[c][j]
  BY Neighbours
<1>2. path[c][1] = Genesis /\ path[c][1] \in Blocks /\ \A j \in 1..Len(path[c]) : path[c][j] \in Blocks
  BY Chains DEF Chain
<1>3. CASE i - 1 <= Deferred
  BY <1>1, <1>2, <1>3 DEF DeferredOf
<1>4. CASE ~(i - 1 <= Deferred)
  <2>1. i - Deferred \in 1..i /\ i - Deferred \in 1..Len(path[c]) /\ ((i - 1) - Deferred) + 1 = i - Deferred
    BY <1>4, ExecutionAssumption
  <2>2. DeferredOf(path[c][i]) = path[c][i - Deferred]
    BY <1>1, <1>4, <2>1 DEF DeferredOf, AncestorAt
  <2>3. QED BY <1>2, <1>4, <2>1, <2>2
<1>5. QED BY <1>3, <1>4

(* The block rewarded in an epoch of a chain, and its deferred state block, *)
(* are further down that chain.                                             *)
LEMMA RewardFacts ==
  ASSUME Tree, NEW c \in Blocks, NEW i \in 1..Len(path[c]), Rewarded(path[c][i])
  PROVE  /\ RewardBlock(path[c][i]) \in Blocks
         /\ \E j \in 1..(i - 1) : DeferredOf(RewardBlock(path[c][i])) = path[c][j]
<1>1. Height(path[c][i]) = i - 1 /\ \A j \in 1..i : path[path[c][i]][j] = path[c][j]
  BY Neighbours
<1>2. PICK k : k = i - RewardEpochs
  OBVIOUS
<1>3. k \in 1..Len(path[c]) /\ k \in 1..i /\ k < i /\ ((i - 1) - RewardEpochs) + 1 = k
  BY <1>1, <1>2, ExecutionAssumption DEF Rewarded
<1>4. RewardBlock(path[c][i]) = path[c][k]
  BY <1>1, <1>3 DEF RewardBlock, AncestorAt
<1>5. path[c][k] \in Blocks
  BY <1>3, Chains DEF Chain
<1>6. DeferredOf(path[c][k]) = IF k - 1 <= Deferred THEN path[c][1] ELSE path[c][k - Deferred]
  BY <1>3, DeferredFacts
<1>7. QED BY <1>3, <1>4, <1>5, <1>6, ExecutionAssumption

(* What collect_defer_blocks_missing_execution_commitments returns: blocks  *)
(* of the chain of the deferred state block, and that block itself unless   *)
(* it has a commitment, in which case nothing is missing.                   *)
LEMMA MissingFacts ==
  ASSUME Tree, NEW b \in Blocks
  PROVE  LET d == DeferredOf(b)
         IN  /\ d \in Blocks
             /\ Missing(b) \in Seq(Blocks)
             /\ Range(Missing(b)) \subseteq {path[d][i] : i \in 1..Len(path[d])}
             /\ d \in mem \cup {Genesis} \cup Range(Missing(b))
             /\ d \in mem \cup {Genesis} => Missing(b) = << >>
<1>1. PICK d : d = DeferredOf(b)
  OBVIOUS
<1>2. Chain(b) /\ b = path[b][Len(path[b])] /\ Len(path[b]) \in 1..Len(path[b])
  BY Chains DEF Chain
<1>3. d \in Blocks
  BY <1>1, <1>2, DeferredFacts
<1>4. /\ path[d] \in Seq(Blocks) /\ Len(path[d]) \in Nat /\ Len(path[d]) >= 1
      /\ path[d][1] = Genesis /\ path[d][Len(path[d])] = d
      /\ \A i \in 1..Len(path[d]) : path[d][i] \in Blocks
  BY <1>3, Chains DEF Chain
<1>5. PICK n : n = Height(d)
  OBVIOUS
<1>6. n \in Nat /\ Len(path[d]) = n + 1
  BY <1>4, <1>5 DEF Height
<1>7. PICK S : S = {h \in 0..n : path[d][h + 1] \in mem \cup {Genesis}}
  BY Zenon
<1>8. S \in SUBSET (0..n) /\ 0 \in S
  BY <1>4, <1>6, <1>7
<1>9. PICK last : last = Max(S)
  OBVIOUS
<1>10. last \in 0..n /\ path[d][last + 1] \in mem \cup {Genesis} /\ \A h \in S : h <= last
  BY <1>6, <1>7, <1>8, <1>9, MaxFacts, Zenon
<1>11. Missing(b) = SubSeq(path[d], last + 2, n + 1)
  BY <1>1, <1>5, <1>7, <1>9 DEF Missing, AncestorAt
<1>12. /\ Missing(b) \in Seq(Blocks)
       /\ Len(Missing(b)) = IF last + 2 <= n + 1 THEN n - last ELSE 0
       /\ \A i \in 1..(n - last) : Missing(b)[i] = path[d][(last + 1) + i]
  <2>1. last + 2 \in 1..(Len(path[d]) + 1) /\ n + 1 \in 0..Len(path[d])
    BY <1>6, <1>10
  <2>2. QED BY <1>4, <1>6, <1>10, <1>11, <2>1
<1>13. Range(Missing(b)) \subseteq {path[d][i] : i \in 1..Len(path[d])}
  <2>1. ASSUME NEW x \in Range(Missing(b)) PROVE \E i \in 1..Len(path[d]) : x = path[d][i]
    <3>1. PICK i \in DOMAIN Missing(b) : x = Missing(b)[i]
      BY DEF Range
    <3>2. i \in 1..(n - last) /\ (last + 1) + i \in 1..Len(path[d])
      BY <1>6, <1>10, <1>12
    <3>3. QED BY <1>12, <3>1, <3>2
  <2>2. QED BY <2>1
<1>14. d \in mem \cup {Genesis} \cup Range(Missing(b))
  <2>1. CASE last = n
    BY <2>1, <1>4, <1>6, <1>10
  <2>2. CASE last # n
    <3>1. n - last \in 1..(n - last) /\ n - last \in DOMAIN Missing(b) /\ (last + 1) + (n - last) = n + 1
      <4>1. n \in Nat /\ last \in Nat /\ last < n
        BY <2>2, <1>6, <1>10
      <4>2. Len(Missing(b)) = n - last /\ DOMAIN Missing(b) = 1..Len(Missing(b))
        BY <4>1, <1>12
      <4>3. QED BY <4>1, <4>2
    <3>2. Missing(b)[n - last] = d
      BY <3>1, <1>4, <1>6, <1>12
    <3>3. QED BY <3>1, <3>2 DEF Range
  <2>3. QED BY <2>1, <2>2
<1>15. d \in mem \cup {Genesis} => Missing(b) = << >>
  <2>1. SUFFICES ASSUME d \in mem \cup {Genesis} PROVE Missing(b) = << >>
    OBVIOUS
  <2>2. n \in S
    BY <2>1, <1>4, <1>6, <1>7
  <2>3. last = n
    BY <2>2, <1>6, <1>10
  <2>4. QED BY <2>3, <1>6, <1>12
<1>16. QED BY <1>1, <1>3, <1>12, <1>13, <1>14, <1>15

(* Once the deferred state block of r has a commitment, so has that of      *)
(* every block whose validity is computed on the way to r.                  *)
LEMMA CommitmentsFacts ==
  ASSUME Tree, Closed(mem), Genesis \in mem, Genesis \in valid, NEW r \in Blocks, DeferredOf(r) \in mem
  PROVE  CommitmentsExist(r) /\ NoStateValid(r) \subseteq Blocks
<1>1. /\ path[r] \in Seq(Blocks) /\ Len(path[r]) \in Nat /\ Len(path[r]) >= 1
      /\ path[r][1] = Genesis /\ path[r][Len(path[r])] = r
      /\ \A i \in 1..Len(path[r]) : path[r][i] \in Blocks
  BY Chains DEF Chain
<1>2. PICK n : n = Len(path[r])
  BY Zenon
<1>3. PICK S : S = {i \in 1..n : path[r][i] \in valid}
  BY Zenon
<1>4. S \in SUBSET (0..n) /\ 1 \in S /\ n \in Nat
  BY <1>1, <1>2, <1>3
<1>5. PICK last : last = Max(S)
  OBVIOUS
<1>6. last \in 1..n
  BY <1>3, <1>4, <1>5, MaxFacts, Zenon
<1>7. NoStateValid(r) = Range(SubSeq(path[r], last + 1, n))
  BY <1>2, <1>3, <1>5 DEF NoStateValid
<1>8. NoStateValid(r) \subseteq {path[r][i] : i \in 1..n}
  <2>1. last + 1 \in 1..(n + 1) /\ n \in 0..n
    BY <1>4, <1>6
  <2>2. /\ Len(SubSeq(path[r], last + 1, n)) = IF last + 1 <= n THEN n - last ELSE 0
        /\ \A i \in 1..(n - last) : SubSeq(path[r], last + 1, n)[i] = path[r][last + i]
    BY <1>1, <1>2, <1>4, <1>6, <2>1
  <2>3. QED BY <1>4, <1>6, <1>7, <2>2 DEF Range
<1>9. ASSUME NEW i \in 1..n PROVE DeferredOf(path[r][i]) \in mem
  <2>1. DeferredOf(path[r][i]) = IF i - 1 <= Deferred THEN path[r][1] ELSE path[r][i - Deferred]
    BY <1>2, DeferredFacts
  <2>2. DeferredOf(r) = IF n - 1 <= Deferred THEN path[r][1] ELSE path[r][n - Deferred]
    BY <1>1, <1>2, <1>4, DeferredFacts
  <2>3. CASE i - 1 <= Deferred
    BY <2>1, <2>3, <1>1
  <2>4. CASE ~(i - 1 <= Deferred)
    <3>1. PICK m : m = n - Deferred
      OBVIOUS
    <3>2. m \in 1..n /\ i - Deferred \in 1..m /\ ~(n - 1 <= Deferred)
      BY <2>4, <3>1, <1>4, ExecutionAssumption
    <3>3. path[r][m] \in mem /\ path[r][m] \in Blocks
      BY <2>2, <3>1, <3>2, <1>1, <1>2
    <3>4. Len(path[path[r][m]]) = m /\ \A j \in 1..m : path[path[r][m]][j] = path[r][j]
      BY <3>2, <1>2, Neighbours, Zenon
    <3>5. path[path[r][m]][i - Deferred] \in mem
      BY <3>2, <3>3, <3>4, ClosedChain
    <3>6. QED BY <2>1, <2>4, <3>2, <3>4, <3>5
  <2>5. QED BY <2>3, <2>4
<1>10. CommitmentsExist(r)
  BY <1>8, <1>9 DEF CommitmentsExist
<1>11. QED BY <1>1, <1>2, <1>8, <1>10

-----------------------------------------------------------------------------
(* Storage                                                                  *)

(* The ancestors of a complete state are complete.                          *)
LEMMA OkAbove ==
  ASSUME Tree, StorageInv, NEW x \in Blocks, NEW z \in Blocks, Above(x, z), states[z] = "ok"
  PROVE  states[x] = "ok"
<1>1. PICK S : S = {y \in Blocks : states[y] = "ok"}
  BY Zenon
<1>2. Closed(S)
  <2>1. ASSUME NEW y \in S \ {Genesis} PROVE parent[y] \in S
    BY <1>1, <2>1, AboveFacts DEF StorageInv
  <2>2. QED BY <2>1 DEF Closed
<1>3. /\ Len(path[x]) \in Nat /\ Len(path[x]) >= 1 /\ Len(path[z]) \in Nat
  BY Chains DEF Chain
<1>4. Len(path[x]) \in 1..Len(path[z]) /\ path[z][Len(path[x])] = x
  BY <1>3 DEF Above, Height, AncestorAt
<1>5. x \in S
  BY <1>1, <1>2, <1>4, ClosedChain
<1>6. QED BY <1>1, <1>5

(* Nothing the storage invariant says of the tree changes in a step.        *)
LEMMA SameTree ==
  ASSUME UNCHANGED <<parent, path>>
  PROVE  /\ Blocks' = Blocks /\ Tree' = Tree
         /\ \A x : Height(x)' = Height(x)
         /\ \A x, z : Above(x, z)' = Above(x, z)
BY DEF Blocks, Tree, Height, Above, AncestorAt

(* An epoch computed on a complete state leaves a complete state, and the   *)
(* writes that may be lost stay the last Deferred ones, in order.           *)
LEMMA ComputeStorage ==
  ASSUME Tree, ExecTypes, StorageInv, FarInv, UNCHANGED <<parent, path>>,
         NEW b \in DOMAIN parent, states[parent[b]] = "ok", Compute(b)
  PROVE  /\ StorageInv' /\ FarInv'
         /\ states' \in [Blocks -> {"none", "torn", "ok"}] /\ recent' \in Seq(DOMAIN parent)
         /\ states'[b] = "ok" /\ \A x \in Blocks : states[x] = "ok" => states'[x] = "ok"
<1>1. /\ states \in [Blocks -> {"none", "torn", "ok"}] /\ recent \in Seq(DOMAIN parent)
      /\ b \in Blocks /\ b # Genesis /\ parent[b] \in Blocks
      /\ DOMAIN parent \subseteq Blocks
  BY TreeFacts DEF ExecTypes, Blocks
<1>2. states' = [states EXCEPT ![b] = "ok"]
  BY DEF Compute
<1>3. /\ states' \in [Blocks -> {"none", "torn", "ok"}]
      /\ states'[b] = "ok" /\ \A x \in Blocks \ {b} : states'[x] = states[x]
  BY <1>1, <1>2
<1>4. CASE states[b] = "ok"
  <2>1. states' = states
    BY <1>1, <1>2, <1>4
  <2>2. recent' = recent
    BY <1>4 DEF Compute
  <2>3. StorageInv' /\ FarInv'
    BY <2>1, <2>2, SameTree DEF StorageInv, FarInv
  <2>4. QED BY <1>1, <1>3, <2>1, <2>2, <2>3
<1>5. CASE states[b] # "ok"
  <2>1. PICK L : L = Len(recent)
    BY Zenon
  <2>2. PICK k : k = IF L = Deferred THEN 1 ELSE 0
    OBVIOUS
  <2>3. L \in Nat /\ L <= Deferred /\ Deferred \in Nat /\ Deferred > 1 /\ k \in {0, 1} /\ DOMAIN recent = 1..L
    BY <1>1, <2>1, <2>2, ExecutionAssumption DEF StorageInv
  <2>4. /\ Append(recent, b) \in Seq(DOMAIN parent) /\ Len(Append(recent, b)) = L + 1
        /\ \A i \in 1..L : Append(recent, b)[i] = recent[i]
        /\ Append(recent, b)[L + 1] = b
    BY <1>1, <2>1
  <2>5. recent' = SubSeq(Append(recent, b), k + 1, L + 1)
    <3>1. Max({1, (L + 1) - Deferred + 1}) = k + 1
      BY <2>2, <2>3, TwoNumbers
    <3>2. QED BY <1>5, <2>4, <3>1, Zenon DEF Compute, LastOf
  <2>6. /\ recent' \in Seq(DOMAIN parent) /\ Len(recent') = (L + 1) - k
        /\ DOMAIN recent' = 1..((L + 1) - k)
        /\ \A i \in 1..((L + 1) - k) : recent'[i] = Append(recent, b)[i + k]
    <3>1. k + 1 \in 1..(L + 2) /\ L + 1 \in 0..(L + 1) /\ k + 1 <= L + 1
      BY <2>2, <2>3
    <3>2. QED BY <2>3, <2>4, <2>5, <3>1
  <2>7. \A i \in 1..((L + 1) - k) : \/ i + k = L + 1 /\ recent'[i] = b
                                    \/ i + k \in 1..L /\ recent'[i] = recent[i + k]
    BY <2>3, <2>4, <2>6
  <2>8. \A i \in 1..L : recent[i] \in Blocks /\ recent[i] # b /\ states[recent[i]] = "ok"
    BY <1>1, <1>5, <2>3 DEF StorageInv
  <2>9. \A x \in Blocks : states[x] = "ok" => states'[x] = "ok"
    BY <1>3
  <2>10. ASSUME NEW i \in 1..L, NEW z \in Blocks, Above(recent[i], z), states[z] = "ok"
         PROVE  \E j \in 1..L : recent[j] = z /\ j - i >= Height(z) - Height(recent[i])
    BY <2>3, <2>10 DEF StorageInv
  <2>11. Height(b) \in Nat /\ Height(parent[b]) = Height(b) - 1
    BY <1>1, AboveFacts
  <2>12. ASSUME NEW i \in 1..L, Above(recent[i], b)
         PROVE  L + 1 - i >= Height(b) - Height(recent[i])
    <3>1. recent[i] \in Blocks /\ recent[i] # b
      BY <2>8
    <3>2. Above(recent[i], parent[b]) /\ Height(recent[i]) \in Nat
      BY <3>1, <1>1, <2>12, AboveFacts
    <3>3. PICK j \in 1..L : recent[j] = parent[b] /\ j - i >= Height(parent[b]) - Height(recent[i])
      BY <3>2, <1>1, <2>10
    <3>4. QED BY <3>2, <3>3, <2>3, <2>11
  <2>13. ASSUME NEW i \in 1..((L + 1) - k), NEW z \in Blocks, Above(recent'[i], z), states'[z] = "ok"
         PROVE  \E j \in 1..((L + 1) - k) : recent'[j] = z /\ j - i >= Height(z) - Height(recent'[i])
    <3>1. CASE z = b
      <4>1. (L + 1) - k \in 1..((L + 1) - k) /\ recent'[(L + 1) - k] = b
        BY <2>3, <2>7
      <4>2. ((L + 1) - k) - i >= Height(b) - Height(recent'[i])
        <5>1. CASE recent'[i] = b /\ i + k = L + 1
          BY <5>1, <2>3, <2>11
        <5>2. CASE i + k \in 1..L /\ recent'[i] = recent[i + k]
          <6>1. L + 1 - (i + k) >= Height(b) - Height(recent[i + k])
            BY <5>2, <3>1, <2>12, <2>13
          <6>2. QED BY <6>1, <5>2, <2>3
        <5>3. QED BY <5>1, <5>2, <2>7
      <4>3. QED BY <4>1, <4>2, <3>1
    <3>2. CASE z # b
      <4>1. states[z] = "ok"
        BY <3>2, <1>3, <2>13
      <4>2. recent'[i] # b
        BY <4>1, <1>1, <1>5, <2>13, OkAbove
      <4>3. i + k \in 1..L /\ recent'[i] = recent[i + k] /\ recent[i + k] \in Blocks
        BY <4>2, <2>7, <2>8
      <4>4. PICK j \in 1..L : recent[j] = z /\ j - (i + k) >= Height(z) - Height(recent[i + k])
        BY <4>1, <4>3, <2>10, <2>13
      <4>5. Height(z) \in Nat /\ Height(recent[i + k]) \in Nat /\ Height(recent[i + k]) <= Height(z)
        BY <4>3, <2>13, AboveFacts DEF Above
      <4>6. j - k \in 1..((L + 1) - k) /\ (j - k) + k = j /\ j # L + 1
        BY <4>3, <4>4, <4>5, <2>3
      <4>7. recent'[j - k] = z
        BY <4>4, <4>6, <2>7
      <4>8. (j - k) - i >= Height(z) - Height(recent'[i])
        BY <4>3, <4>4, <4>5, <2>3
      <4>9. QED BY <4>6, <4>7, <4>8
    <3>3. QED BY <3>1, <3>2
  <2>14. ASSUME NEW i \in 1..((L + 1) - k)
         PROVE  /\ states'[recent'[i]] = "ok"
                /\ \A j \in (1..((L + 1) - k)) \ {i} : recent'[i] # recent'[j]
    <3>1. states'[recent'[i]] = "ok"
      BY <1>3, <2>7, <2>8, <2>9
    <3>2. ASSUME NEW j \in 1..((L + 1) - k), i # j PROVE recent'[i] # recent'[j]
      <4>1. \A x, y \in 1..L : x # y => recent[x] # recent[y]
        BY <2>3 DEF StorageInv
      <4>2. i + k # j + k
        BY <3>2, <2>3
      <4>3. QED BY <4>1, <4>2, <2>7, <2>8
    <3>3. QED BY <3>1, <3>2
  <2>15. StorageInv'
    <3>1. states'[Genesis] = "ok"
      BY <1>1, <1>3 DEF StorageInv, Blocks
    <3>2. \A x \in Blocks \ {Genesis} : states'[x] = "ok" => states'[parent[x]] = "ok"
      <4>1. \A x \in Blocks \ {Genesis} : parent[x] \in Blocks
        BY AboveFacts
      <4>2. QED BY <4>1, <1>3, <2>9 DEF StorageInv
    <3>3. Len(recent') <= Deferred
      BY <2>2, <2>3, <2>6
    <3>4. \A i \in DOMAIN recent' :
            /\ states'[recent'[i]] = "ok"
            /\ \A j \in DOMAIN recent' \ {i} : recent'[i] # recent'[j]
      BY <2>6, <2>14
    <3>5. \A i \in DOMAIN recent' : \A z \in Blocks : Above(recent'[i], z) /\ states'[z] = "ok" =>
            \E j \in DOMAIN recent' : recent'[j] = z /\ j - i >= Height(z) - Height(recent'[i])
      BY <2>6, <2>13
    <3>6. QED BY <3>1, <3>2, <3>3, <3>4, <3>5, Zenon DEF StorageInv, Above, Height, AncestorAt, Blocks
  <2>16. ASSUME NEW x \in Blocks, NEW z \in Blocks, states'[x] # "ok" \/ x \in Range(recent'),
                Above(x, z), Height(z) >= Height(x) + Deferred
         PROVE  states'[z] = "none"
    <3>1. x \in Range(recent') => x = b \/ \E i \in 1..L : i >= 1 + k /\ x = recent[i]
      BY <2>3, <2>6, <2>7 DEF Range
    <3>2. states[x] # "ok" \/ x \in Range(recent)
      BY <3>1, <1>5, <2>3, <2>9, <2>16 DEF Range
    <3>3. states[z] = "none"
      BY <3>2, <2>16 DEF FarInv
    <3>4. z # b
      <4>1. SUFFICES ASSUME z = b PROVE FALSE
        OBVIOUS
      <4>2. Height(x) \in Nat
        BY AboveFacts
      <4>3. x # b
        BY <4>1, <4>2, <2>3, <2>16
      <4>4. Above(x, parent[b])
        BY <4>1, <4>3, <2>16, <1>1, AboveFacts
      <4>5. states[x] = "ok"
        BY <4>4, <1>1, OkAbove
      <4>6. PICK i \in 1..L : i >= 1 + k /\ x = recent[i]
        BY <4>3, <4>5, <3>1, <2>9, <2>16
      <4>7. L + 1 - i >= Height(b) - Height(x)
        BY <4>1, <4>6, <2>12, <2>16
      <4>8. QED BY <4>1, <4>2, <4>6, <4>7, <2>2, <2>3, <2>11, <2>16
    <3>5. QED BY <3>3, <3>4, <1>3
  <2>17. FarInv'
    BY <2>16, SameTree DEF FarInv
  <2>18. QED BY <1>3, <2>6, <2>9, <2>15, <2>17
<1>6. QED BY <1>4, <1>5

-----------------------------------------------------------------------------
(* The main chain                                                           *)

(* A chain that leads to a leaf of a closed set is the path of a block and  *)
(* lies in the set.                                                         *)
LEMMA LeadsFacts ==
  ASSUME Tree, NEW S \in SUBSET Blocks, NEW chain, Leads(chain, S)
  PROVE  \E tip \in Leaves(S) :
           /\ tip \in Blocks /\ chain = path[tip] /\ chain \in Seq(Blocks)
           /\ Len(chain) \in Nat /\ Len(chain) >= 1
           /\ chain[1] = Genesis /\ chain[Len(chain)] = tip
           /\ \A i \in 1..Len(chain) : chain[i] \in S /\ chain[i] \in Blocks
<1>1. PICK tip \in Leaves(S) : chain = path[tip]
  BY DEF Leads
<1>2. tip \in S /\ tip \in Blocks /\ Closed(S)
  BY DEF Leads, Leaves
<1>3. \A i \in 1..Len(path[tip]) : path[tip][i] \in S
  BY <1>2, ClosedChain
<1>4. Chain(tip)
  BY <1>2, Chains
<1>5. QED BY <1>1, <1>2, <1>3, <1>4 DEF Chain

(* The chains agree below the fork.                                         *)
LEMMA ForkFacts ==
  ASSUME Tree, NEW c \in Blocks, NEW d \in Blocks
  PROVE  /\ ForkAt(path[c], path[d]) \in 1..Len(path[c])
         /\ ForkAt(path[c], path[d]) \in 1..Len(path[d])
         /\ \A i \in 1..ForkAt(path[c], path[d]) : path[c][i] = path[d][i]
<1>1. /\ Len(path[c]) \in Nat /\ Len(path[c]) >= 1 /\ path[c][1] = Genesis
      /\ Len(path[d]) \in Nat /\ Len(path[d]) >= 1 /\ path[d][1] = Genesis
  BY Chains DEF Chain
<1>2. PICK S : S = {n \in 0..Len(path[c]) : n <= Len(path[d]) /\ \A i \in 1..n : path[c][i] = path[d][i]}
  BY Zenon
<1>3. S \in SUBSET (0..Len(path[c])) /\ 1 \in S
  BY <1>1, <1>2
<1>4. Max(S) \in S /\ 1 <= Max(S)
  BY <1>1, <1>3, MaxFacts, Zenon
<1>5. ForkAt(path[c], path[d]) = Max(S)
  BY <1>2 DEF ForkAt
<1>6. PICK f : f = Max(S)
  OBVIOUS
<1>7. /\ f \in 0..Len(path[c]) /\ f <= Len(path[d]) /\ 1 <= f
      /\ \A i \in 1..f : path[c][i] = path[d][i]
  BY <1>2, <1>4, <1>6, Zenon
<1>8. f \in 1..Len(path[c]) /\ f \in 1..Len(path[d])
  BY <1>1, <1>7
<1>9. QED BY <1>5, <1>6, <1>7, <1>8

(* A block arrives and the main chain moves: it still leads to a leaf, and  *)
(* the boundary has the new chain, of which it keeps only what both share.  *)
LEMMA ActivateChain ==
  ASSUME Tree, ExecTypes, ChainInv, MemInv, BoundaryInv, NEW b \in DOMAIN parent, Activate(b)
  PROVE  /\ arrived' \subseteq Blocks /\ mainChain' \in Seq(Blocks) /\ boundary' \in Boundary
         /\ Leads(mainChain', arrived')
         /\ \E fork \in 1..Len(mainChain) :
              /\ fork \in 1..Len(mainChain') /\ \A i \in 1..fork : mainChain'[i] = mainChain[i]
              /\ worker' = [pc |-> "enqueue", next |-> StateAt(fork, Len(mainChain)), from |-> 0,
                            to |-> ToStatePos(mainChain'), todo |-> << >>, asked |-> FALSE]
         /\ boundary'.chain = mainChain'
         /\ boundary'.upper < Len(mainChain') /\ mainChain'[boundary'.upper + 1] \in mem
         /\ boundary'.opt # NULL => boundary'.opt < Len(mainChain')
<1>1. /\ arrived \in SUBSET Blocks /\ boundary \in Boundary /\ Leads(mainChain, arrived)
      /\ b \in Blocks /\ b # Genesis /\ parent[b] \in arrived /\ b \notin arrived
      /\ arrived' = arrived \cup {b} /\ arrived' \in SUBSET Blocks
  BY TreeFacts, Zenon DEF ExecTypes, ChainInv, Activate, Blocks
<1>2. PICK old \in Leaves(arrived) :
           /\ old \in Blocks /\ mainChain = path[old] /\ mainChain \in Seq(Blocks)
           /\ Len(mainChain) \in Nat /\ Len(mainChain) >= 1
           /\ mainChain[1] = Genesis /\ mainChain[Len(mainChain)] = old
           /\ \A i \in 1..Len(mainChain) : mainChain[i] \in arrived /\ mainChain[i] \in Blocks
  BY <1>1, LeadsFacts, Zenon
<1>3. PICK tip \in Leaves(arrived') :
           /\ mainChain' = path[tip]
           /\ boundary' = NewBoundary(path[tip], ForkAt(path[tip], mainChain))
           /\ worker' = [pc |-> "enqueue", next |-> StateAt(ForkAt(path[tip], mainChain), Len(mainChain)),
                         from |-> 0, to |-> ToStatePos(path[tip]), todo |-> << >>, asked |-> FALSE]
  BY Zenon DEF Activate
<1>4. Genesis \in arrived' /\ Closed(arrived')
  BY <1>1 DEF Leads, Closed
<1>5. Leads(path[tip], arrived')
  BY <1>3, <1>4 DEF Leads
<1>6. tip \in Blocks /\ tip \in arrived'
  BY <1>1, <1>3 DEF Leaves
<1>7. /\ path[tip] \in Seq(Blocks) /\ Len(path[tip]) \in Nat /\ Len(path[tip]) >= 1
      /\ \A i \in 1..Len(path[tip]) : path[tip][i] \in arrived'
  BY <1>4, <1>6, Chains, ClosedChain DEF Chain
<1>8. PICK fork : fork = ForkAt(path[tip], mainChain)
  OBVIOUS
<1>9. /\ fork \in 1..Len(mainChain) /\ fork \in 1..Len(path[tip])
      /\ \A i \in 1..fork : path[tip][i] = mainChain[i]
  BY <1>2, <1>6, <1>8, ForkFacts, Zenon
<1>10. /\ boundary.chain = mainChain /\ boundary.upper \in Nat /\ boundary.upper < Len(mainChain)
       /\ mainChain[boundary.upper + 1] \in mem
       /\ boundary.opt \in Nat \cup {NULL} /\ (boundary.opt # NULL => boundary.opt < Len(mainChain))
  BY <1>1 DEF BoundaryInv, Boundary
<1>11. PICK opt : opt = IF ToStatePos(path[tip]) > 0 THEN ToStatePos(path[tip]) ELSE NULL
  OBVIOUS
<1>12. opt \in Nat \cup {NULL} /\ (opt # NULL => opt < Len(path[tip]))
  BY <1>7, <1>11, ExecutionAssumption DEF ToStatePos
<1> DEFINE Good == /\ boundary' \in Boundary /\ boundary'.chain = path[tip]
                   /\ boundary'.upper < Len(path[tip]) /\ path[tip][boundary'.upper + 1] \in mem
                   /\ boundary'.opt # NULL => boundary'.opt < Len(path[tip])
<1>13. ASSUME path[tip] = mainChain PROVE Good
  <2>1. boundary' = boundary
    BY <1>3, <1>13 DEF NewBoundary
  <2>2. QED BY <2>1, <1>1, <1>10, <1>13
<1>14. ASSUME path[tip] # mainChain /\ fork = Len(mainChain) PROVE Good
  <2>1. boundary' = [boundary EXCEPT !.chain = Append(mainChain, TipOf(path[tip])), !.opt = opt]
    BY <1>3, <1>8, <1>10, <1>11, <1>14 DEF NewBoundary
  <2>2. PICK n : n = Len(mainChain)
    BY Zenon
  <2>3. Len(path[tip]) > n /\ n \in Nat /\ n >= 1
    <3>1. SUFFICES ASSUME Len(path[tip]) = n PROVE FALSE
      BY <2>2, <1>2, <1>7, <1>9, <1>14
    <3>2. path[tip] = mainChain
      BY <3>1, <2>2, <1>2, <1>7, <1>9, <1>14
    <3>3. QED BY <3>2, <1>14
  <2>4. n + 1 \in 1..Len(path[tip]) /\ n + 1 > 1 /\ (n + 1) - 1 = n
    BY <2>3, <1>7
  <2>5. PICK x : x = path[tip][n + 1]
    OBVIOUS
  <2>6. x # Genesis /\ parent[x] = path[tip][n] /\ x \in arrived'
    BY <2>4, <2>5, <1>6, <1>7, Neighbours
  <2>7. parent[x] = old
    BY <2>2, <2>3, <2>6, <1>2, <1>9, <1>14
  <2>8. x = b
    BY <2>6, <2>7, <1>1, <1>2 DEF Leaves
  <2>9. Len(path[tip]) = n + 1
    <3>1. SUFFICES ASSUME Len(path[tip]) # n + 1 PROVE FALSE
      OBVIOUS
    <3>2. n + 2 \in 1..Len(path[tip]) /\ n + 2 > 1 /\ (n + 2) - 1 = n + 1
      BY <3>1, <2>3, <1>7
    <3>3. PICK y : y = path[tip][n + 2]
      OBVIOUS
    <3>4. y # Genesis /\ parent[y] = b /\ y \in arrived' /\ y \in DOMAIN parent
      <4>1. /\ path[tip][n + 2] # Genesis /\ path[tip][n + 2] \in DOMAIN parent
            /\ parent[path[tip][n + 2]] = path[tip][(n + 2) - 1]
        BY <3>2, <1>6, Neighbours
      <4>2. QED BY <4>1, <3>2, <3>3, <2>5, <2>8, <1>7, Zenon
    <3>5. y # b
      BY <3>4, TreeFacts
    <3>6. y \in arrived
      BY <3>4, <3>5, <1>1
    <3>7. QED BY <3>4, <3>6, <1>1 DEF Leads, Closed
  <2>10. TipOf(path[tip]) = path[tip][n + 1] /\ path[tip][n + 1] \in Blocks
    BY <2>4, <2>9, <1>1, <1>7 DEF TipOf
  <2>11. Append(mainChain, TipOf(path[tip])) = path[tip]
    <3>1. PICK s : s = Append(mainChain, TipOf(path[tip]))
      BY Zenon
    <3>2. s \in Seq(Blocks) /\ Len(s) = n + 1 /\ s[n + 1] = path[tip][n + 1]
          /\ \A i \in 1..n : s[i] = mainChain[i]
      BY <3>1, <2>2, <2>10, <1>2
    <3>3. \A i \in 1..(n + 1) : s[i] = path[tip][i]
      BY <3>2, <2>2, <2>3, <1>9, <1>14
    <3>4. s = path[tip]
      BY <3>2, <3>3, <2>9, <1>7
    <3>5. QED BY <3>1, <3>4
  <2>12. path[tip][boundary.upper + 1] = mainChain[boundary.upper + 1]
    BY <1>2, <1>9, <1>10, <1>14
  <2>13. /\ boundary' \in Boundary /\ boundary'.chain = path[tip] /\ boundary'.upper = boundary.upper
         /\ boundary'.opt = opt
    BY <2>1, <2>11, <1>1, <1>7, <1>12, Zenon DEF Boundary
  <2>14. QED BY <2>2, <2>3, <2>12, <2>13, <1>2, <1>7, <1>10, <1>12
<1>15. ASSUME path[tip] # mainChain /\ fork # Len(mainChain) PROVE Good
  <2>1. boundary' = [chain |-> SubSeq(mainChain, 1, fork) \o SubSeq(path[tip], fork + 1, Len(path[tip])),
                     upper |-> Min({boundary.upper, fork - 1}), opt |-> opt]
    BY <1>3, <1>8, <1>10, <1>11, <1>15 DEF NewBoundary
  <2>2. SubSeq(mainChain, 1, fork) \o SubSeq(path[tip], fork + 1, Len(path[tip])) = path[tip]
    <3>1. PICK s, t : s = SubSeq(mainChain, 1, fork) /\ t = SubSeq(path[tip], fork + 1, Len(path[tip]))
      BY Zenon
    <3>2. s \in Seq(Blocks) /\ Len(s) = fork /\ \A i \in 1..fork : s[i] = path[tip][i]
      BY <3>1, <1>2, <1>9
    <3>3. /\ t \in Seq(Blocks) /\ Len(t) = Len(path[tip]) - fork
          /\ \A i \in 1..(Len(path[tip]) - fork) : t[i] = path[tip][fork + i]
      <4>1. fork + 1 \in 1..(Len(path[tip]) + 1) /\ Len(path[tip]) \in 0..Len(path[tip])
        BY <1>7, <1>9
      <4>2. QED BY <3>1, <4>1, <1>7, <1>9
    <3>4. /\ s \o t \in Seq(Blocks) /\ Len(s \o t) = Len(path[tip])
          /\ \A i \in 1..Len(path[tip]) : (s \o t)[i] = IF i <= fork THEN s[i] ELSE t[i - fork]
      <4>1. Len(s) \in Nat /\ Len(t) \in Nat /\ Len(s) + Len(t) = Len(path[tip])
        BY <3>2, <3>3, <1>7, <1>9
      <4>2. /\ s \o t \in Seq(Blocks) /\ Len(s \o t) = Len(s) + Len(t)
            /\ \A i \in 1..(Len(s) + Len(t)) : (s \o t)[i] = IF i <= Len(s) THEN s[i] ELSE t[i - Len(s)]
        BY <3>2, <3>3, Concatenation, Zenon
      <4>3. QED BY <3>2, <4>1, <4>2
    <3>5. ASSUME NEW i \in 1..Len(path[tip]) PROVE (s \o t)[i] = path[tip][i]
      <4>1. CASE i <= fork
        BY <4>1, <3>2, <3>4, <1>9
      <4>2. CASE ~(i <= fork)
        <5>1. i - fork \in 1..(Len(path[tip]) - fork) /\ fork + (i - fork) = i
          BY <4>2, <1>7, <1>9
        <5>2. QED BY <4>2, <5>1, <3>3, <3>4
      <4>3. QED BY <4>1, <4>2, Zenon
    <3>6. PICK r : r = s \o t
      BY Zenon
    <3>7. r = path[tip]
      <4>1. r \in Seq(Blocks) /\ Len(r) = Len(path[tip]) /\ \A i \in 1..Len(path[tip]) : r[i] = path[tip][i]
        BY <3>4, <3>5, <3>6
      <4>2. QED BY <4>1, <1>7
    <3>8. QED BY <3>1, <3>6, <3>7, Zenon
  <2>3. PICK u : u = Min({boundary.upper, fork - 1})
    OBVIOUS
  <2>4. u \in Nat /\ u <= boundary.upper /\ u < fork
    <3>1. boundary.upper \in Int /\ fork - 1 \in Int /\ fork \in Nat /\ fork >= 1
      BY <1>9, <1>10
    <3>2. Min({boundary.upper, fork - 1}) = IF boundary.upper <= fork - 1 THEN boundary.upper ELSE fork - 1
      BY <3>1, TwoNumbers, Zenon
    <3>3. QED BY <2>3, <3>1, <3>2, <1>10
  <2>5. mainChain[u + 1] \in mem
    <3>1. PICK z : z = mainChain[boundary.upper + 1]
      OBVIOUS
    <3>2. boundary.upper + 1 \in 1..Len(path[old]) /\ z = path[old][boundary.upper + 1]
          /\ u + 1 \in 1..(boundary.upper + 1)
      BY <2>4, <3>1, <1>2, <1>10
    <3>3. /\ Len(path[path[old][boundary.upper + 1]]) = boundary.upper + 1
          /\ \A j \in 1..(boundary.upper + 1) : path[path[old][boundary.upper + 1]][j] = path[old][j]
      BY <3>2, <1>2, Neighbours
    <3>4. z \in mem /\ z \in Blocks
      BY <3>1, <1>2, <1>10
    <3>5. path[z][u + 1] \in mem
      BY <3>2, <3>3, <3>4, ClosedChain DEF MemInv
    <3>6. QED BY <3>2, <3>3, <3>5, <1>2
  <2>6. path[tip][u + 1] = mainChain[u + 1]
    BY <2>4, <1>9
  <2>7. boundary' = [chain |-> path[tip], upper |-> u, opt |-> opt]
    BY <2>1, <2>2, <2>3, Zenon
  <2>8. QED BY <2>4, <2>5, <2>6, <2>7, <1>7, <1>9, <1>12 DEF Boundary
<1>16. Good
  BY <1>13, <1>14, <1>15
<1>17. QED BY <1>1, <1>3, <1>5, <1>7, <1>8, <1>9, <1>16, Zenon

-----------------------------------------------------------------------------
(* The channel                                                              *)

(* The types do not change in a step.                                       *)
LEMMA SameTypes ==
  ASSUME UNCHANGED parent
  PROVE  /\ Blocks' = Blocks /\ Task' = Task /\ Saved' = Saved /\ Boundary' = Boundary
         /\ Executor' = Executor /\ Worker' = Worker /\ Generator' = Generator
BY DEF Blocks, Task, Saved, Boundary, Executor, Worker, Generator

(* The epochs that are executed when the channel is empty come with the     *)
(* ones they build on.                                                      *)
LEMMA CoveredClosed ==
  ASSUME Tree, ExecTypes, MemInv, QueueInv
  PROVE  Closed(Covered) /\ Covered \subseteq Blocks /\ mem \subseteq Covered
<1>1. /\ tasks \in Seq(Task) /\ Len(tasks) \in Nat /\ DOMAIN tasks = 1..Len(tasks) /\ mem \subseteq Blocks
  BY DEF ExecTypes
<1>2. \A i \in DOMAIN tasks : Before(i) \subseteq Covered /\ Ready(tasks[i], Before(i))
  BY <1>1 DEF Before, Covered, QueueInv
<1>3. mem \subseteq Covered
  BY DEF Before, Covered
<1>4. ASSUME NEW x \in Covered
      PROVE  x \in Blocks /\ (x # Genesis => parent[x] \in Covered)
  <2>1. CASE x \in mem
    BY <2>1, <1>1, <1>3 DEF MemInv, Closed
  <2>2. CASE x \in Running
    <3>1. executor.pc = "execute" /\ x = executor.task.block
      BY <2>2 DEF Running
    <3>2. Ready(executor.task, mem) /\ executor.task.kind = "execute"
      BY <3>1 DEF QueueInv
    <3>3. QED BY <3>1, <3>2, <1>3 DEF Ready
  <2>3. CASE \E k \in DOMAIN tasks : tasks[k].kind = "execute" /\ x = tasks[k].block
    BY <2>3, <1>2 DEF Ready
  <2>4. QED BY <2>1, <2>2, <2>3 DEF Before, Covered
<1>5. QED BY <1>3, <1>4 DEF Closed

(* A task whose needs are met by what is in front of it joins the channel.  *)
LEMMA AppendTask ==
  ASSUME ExecTypes, QueueInv, UNCHANGED <<parent, mem, executor>>,
         NEW task \in Task, Ready(task, Covered), tasks' = Append(tasks, task)
  PROVE  /\ QueueInv' /\ tasks' \in Seq(Task) /\ Covered \subseteq Covered'
         /\ task.kind = "execute" => task.block \in Covered'
<1>1. /\ tasks \in Seq(Task) /\ Len(tasks) \in Nat /\ DOMAIN tasks = 1..Len(tasks)
  BY DEF ExecTypes
<1>2. PICK n : n = Len(tasks)
  OBVIOUS
<1>3. /\ tasks' \in Seq(Task) /\ Len(tasks') = n + 1 /\ DOMAIN tasks' = 1..(n + 1)
      /\ tasks'[n + 1] = task /\ \A i \in 1..n : tasks'[i] = tasks[i]
  BY <1>1, <1>2
<1>4. Blocks' = Blocks
  BY DEF Blocks
<1>5. ASSUME NEW i \in 1..(n + 1) PROVE Before(i)' = Before(i)
  <2>1. {k \in DOMAIN tasks' : k < i /\ tasks'[k].kind = "execute"}
          = {k \in DOMAIN tasks : k < i /\ tasks[k].kind = "execute"}
    BY <1>1, <1>2, <1>3
  <2>2. {tasks'[k].block : k \in {k \in DOMAIN tasks' : k < i /\ tasks'[k].kind = "execute"}}
          = {tasks[k].block : k \in {k \in DOMAIN tasks : k < i /\ tasks[k].kind = "execute"}}
    BY <2>1, <1>1, <1>2, <1>3
  <2>3. QED BY <2>2, Zenon DEF Before, Running
<1>6. \A i \in 1..n : Ready(tasks[i], Before(i))
  BY <1>1, <1>2 DEF QueueInv
<1>7. Covered = Before(n + 1)
  BY <1>2 DEF Covered
<1>8. \A i \in DOMAIN tasks' : Ready(tasks'[i], Before(i)')
  <2>1. ASSUME NEW i \in 1..(n + 1) PROVE Ready(tasks'[i], Before(i))
    <3>1. CASE i = n + 1
      BY <3>1, <1>3, <1>7
    <3>2. CASE i \in 1..n
      BY <3>2, <1>3, <1>6
    <3>3. QED BY <3>1, <3>2, <1>1, <1>2
  <2>2. QED BY <2>1, <1>3, <1>5
<1>9. QueueInv'
  BY <1>4, <1>8 DEF QueueInv, Ready
<1>10. Covered' = mem \cup Running \cup
                  {tasks'[k].block : k \in {k \in DOMAIN tasks' : k < n + 2 /\ tasks'[k].kind = "execute"}}
  BY <1>1, <1>2, <1>3 DEF Covered, Before, Running
<1>11. Covered \subseteq Covered'
  <2>1. ASSUME NEW k \in DOMAIN tasks, k < n + 1, tasks[k].kind = "execute"
        PROVE  tasks[k].block \in Covered'
    BY <2>1, <1>1, <1>2, <1>3, <1>10
  <2>2. QED BY <1>7, <1>10, <2>1 DEF Before
<1>12. task.kind = "execute" => task.block \in Covered'
  BY <1>1, <1>2, <1>3, <1>10
<1>13. QED BY <1>3, <1>9, <1>11, <1>12

(* The execution thread takes the first task: its needs are met in memory.  *)
LEMMA TakeTask ==
  ASSUME ExecTypes, QueueInv, Take
  PROVE  /\ QueueInv' /\ Covered \subseteq Covered'
         /\ tasks' \in Seq(Task) /\ executor' \in Executor
<1>1. /\ tasks \in Seq(Task) /\ tasks # << >> /\ Len(tasks) \in Nat /\ DOMAIN tasks = 1..Len(tasks)
      /\ executor' = [pc |-> Head(tasks).kind, task |-> Head(tasks)] /\ tasks' = Tail(tasks)
      /\ mem' = mem /\ parent' = parent /\ Running = {}
  BY DEF ExecTypes, Take, Running
<1>2. PICK n : n = Len(tasks)
  BY Zenon
<1>3. /\ n \in Nat /\ n >= 1 /\ tasks[1] \in Task /\ Head(tasks) = tasks[1]
      /\ tasks' \in Seq(Task) /\ Len(tasks') = n - 1 /\ DOMAIN tasks' = 1..(n - 1)
      /\ \A i \in 1..(n - 1) : tasks'[i] = tasks[i + 1]
  BY <1>1, <1>2
<1>4. Blocks' = Blocks
  BY <1>1 DEF Blocks
<1>5. \A i \in 1..n : Ready(tasks[i], Before(i))
  BY <1>1, <1>2 DEF QueueInv
<1>6. Before(1) = mem
  BY <1>1 DEF Before
<1>7. Ready(tasks[1], mem)
  BY <1>3, <1>5, <1>6
<1>8. /\ executor' \in Executor /\ executor'.pc \in {"execute", "get"} /\ executor'.task = tasks[1]
      /\ executor'.pc = tasks[1].kind
  BY <1>1, <1>3, <1>7, Zenon DEF Ready, Executor
<1>9. ASSUME NEW i \in 1..n PROVE Before(i + 1) \subseteq Before(i)'
  <2>1. ASSUME NEW x \in Before(i + 1) PROVE x \in Before(i)'
    <3>1. CASE x \in mem
      BY <3>1, <1>1 DEF Before
    <3>2. CASE x \notin mem
      <4>1. PICK k \in DOMAIN tasks : k < i + 1 /\ tasks[k].kind = "execute" /\ x = tasks[k].block
        BY <3>2, <1>1 DEF Before
      <4>2. CASE k = 1
        <5>1. executor'.pc = "execute" /\ x = executor'.task.block
          BY <4>1, <4>2, <1>8
        <5>2. QED BY <5>1 DEF Before, Running
      <4>3. CASE k # 1
        <5>1. k - 1 \in DOMAIN tasks' /\ k - 1 < i /\ tasks'[k - 1] = tasks[k]
          BY <4>1, <4>3, <1>1, <1>2, <1>3
        <5>2. QED BY <4>1, <5>1 DEF Before
      <4>4. QED BY <4>2, <4>3
    <3>3. QED BY <3>1, <3>2
  <2>2. QED BY <2>1
<1>10. \A i \in DOMAIN tasks' : Ready(tasks'[i], Before(i)')
  <2>1. ASSUME NEW i \in 1..(n - 1) PROVE Ready(tasks'[i], Before(i)')
    <3>1. i \in 1..n /\ i + 1 \in 1..n
      BY <1>3
    <3>2. Ready(tasks[i + 1], Before(i + 1)) /\ tasks'[i] = tasks[i + 1]
      BY <3>1, <1>3, <1>5
    <3>3. QED BY <3>1, <3>2, <1>9 DEF Ready
  <2>2. QED BY <2>1, <1>3
<1>11. QueueInv'
  <2>1. executor'.task.kind = executor'.pc /\ Ready(executor'.task, mem')
    BY <1>1, <1>7, <1>8
  <2>2. executor'.pc # "adjust"
    BY <1>8
  <2>3. QED BY <1>1, <1>4, <1>10, <2>1, <2>2, Zenon DEF QueueInv, Ready
<1>12. Covered \subseteq Covered'
  <2>1. Covered = Before(n + 1) /\ Covered' = Before(n)'
    BY <1>2, <1>3 DEF Covered, Before, Running
  <2>2. QED BY <2>1, <1>3, <1>9
<1>13. QED BY <1>3, <1>8, <1>11, <1>12

(* The channel is as before when neither it nor the execution thread moves. *)
LEMMA QueueQuiet ==
  ASSUME QueueInv, UNCHANGED <<parent, mem, tasks, executor>>
  PROVE  QueueInv'
<1>1. Blocks' = Blocks
  BY DEF Blocks
<1>2. /\ Before(1)' = Before(1) /\ \A i \in DOMAIN tasks : Before(i)' = Before(i)
  BY DEF Before, Running
<1>3. \A i \in DOMAIN tasks : Ready(tasks[i], Before(i))'
  <2>1. ASSUME NEW i \in DOMAIN tasks PROVE Ready(tasks[i], Before(i))'
    <3>1. Ready(tasks[i], Before(i))
      BY DEF QueueInv
    <3>2. QED BY <1>1, <1>2, <3>1 DEF Ready
  <2>2. QED BY <2>1
<1>4. executor.pc \in {"execute", "get"} =>
        executor.task.kind = executor.pc /\ Ready(executor.task, mem)'
  BY <1>1 DEF QueueInv, Ready
<1>5. executor.pc = "adjust" => executor.task.block \in mem
  BY DEF QueueInv
<1>6. QED BY <1>3, <1>4, <1>5 DEF QueueInv

(* Any other step of the execution thread loses no epoch on the way.        *)
LEMMA ExecutorMoves ==
  ASSUME ExecTypes, QueueInv, UNCHANGED <<parent, tasks>>, mem \subseteq mem',
         Running \subseteq mem' \cup Running',
         executor'.pc \in {"execute", "get"} =>
           executor'.task.kind = executor'.pc /\ Ready(executor'.task, mem'),
         executor'.pc = "adjust" => executor'.task.block \in mem'
  PROVE  QueueInv' /\ Covered \subseteq Covered'
<1>1. Blocks' = Blocks
  BY DEF Blocks
<1>2. \A i : Before(i) \subseteq Before(i)'
  BY DEF Before
<1>3. \A i \in DOMAIN tasks' : Ready(tasks'[i], Before(i)')
  BY <1>2 DEF QueueInv, Ready
<1>4. QueueInv'
  BY <1>1, <1>3 DEF QueueInv, Ready
<1>5. QED BY <1>2, <1>4 DEF Covered

-----------------------------------------------------------------------------
(* What a step leaves alone                                                 *)

(* The parts of the invariant a step does not touch.                        *)
LEMMA Frame ==
  ASSUME ExecInv, UNCHANGED <<parent, path>>
  PROVE  /\ Tree'
         /\ UNCHANGED <<states, recent>> => StorageInv' /\ FarInv'
         /\ UNCHANGED <<mem, valid, failed>> => MemInv'
         /\ UNCHANGED <<boundary, mainChain>> /\ mem \subseteq mem' => BoundaryInv'
<1>1. Tree /\ StorageInv /\ FarInv /\ MemInv /\ BoundaryInv
  BY DEF ExecInv
<1>2. /\ Blocks' = Blocks /\ Tree' /\ \A x : Height(x)' = Height(x)
      /\ \A x, z : Above(x, z)' = Above(x, z)
  BY <1>1, SameTree
<1>3. UNCHANGED <<states, recent>> => StorageInv'
  BY <1>1, <1>2, Zenon DEF StorageInv, Above, Height, AncestorAt, Blocks
<1>4. UNCHANGED <<states, recent>> => FarInv'
  BY <1>1, <1>2 DEF FarInv, Above, Height, AncestorAt, Blocks
<1>5. UNCHANGED <<mem, valid, failed>> => MemInv'
  BY <1>1 DEF MemInv, Closed, Unwraps
<1>6. UNCHANGED <<boundary, mainChain>> /\ mem \subseteq mem' => BoundaryInv'
  BY <1>1 DEF BoundaryInv
<1>7. QED BY <1>2, <1>3, <1>4, <1>5, <1>6

(* The chains stay while nobody moves them.                                 *)
LEMMA ChainFrame ==
  ASSUME ChainInv, UNCHANGED <<parent, path, arrived, mainChain, saved>>,
         worker'.pc \in {"idle", "recover"} => worker.pc \in {"idle", "recover"}
  PROVE  ChainInv'
BY DEF ChainInv, Leads, Closed, Leaves

(* The worker keeps what it counts on while results come in.                *)
LEMMA WorkerFrame ==
  ASSUME WorkerInv, UNCHANGED <<parent, path, worker, mainChain, saved>>,
         mem \subseteq mem', Covered \subseteq Covered'
  PROVE  WorkerInv'
<1>1. worker.pc = "wait" =>
        /\ Range(worker.todo) \subseteq Covered'
        /\ RewardReady(mainChain[worker.next + 1], mem' \cup Range(worker.todo))
  BY DEF WorkerInv, RewardReady
<1>2. /\ worker.pc \in {"enqueue", "wait"} => mainChain[worker.next] \in Covered'
      /\ worker.pc # "recover" => saved.chain[TopOf(saved.chain) + 1] \in Covered'
  BY DEF WorkerInv
<1>3. RewardReady(mainChain[worker.next + 1], mem \cup Range(worker.todo))'
        <=> RewardReady(mainChain[worker.next + 1], mem' \cup Range(worker.todo))
  BY DEF RewardReady, Rewarded, DeferredOf, RewardBlock, Height, AncestorAt
<1>4. QED BY <1>1, <1>2, <1>3 DEF WorkerInv, ToStatePos, TopOf

(* So does the generator.                                                   *)
LEMMA GeneratorFrame ==
  ASSUME GeneratorInv, UNCHANGED <<parent, path, generator>>,
         mem \subseteq mem', Covered \subseteq Covered'
  PROVE  GeneratorInv'
<1>1. DeferredOf(generator.parent)' = DeferredOf(generator.parent)
  BY DEF DeferredOf, Height, AncestorAt
<1>2. QED BY <1>1 DEF GeneratorInv

(* Awaited for given threads.                                               *)
AwaitedBy(w, g, task) ==
  IF task.for = "worker" THEN w.pc = "wait" /\ Awaits(w, task.block)
  ELSE g.pc # "idle" /\ Awaits(g, task.block)

(* Nobody is asked anything new, and only threads that have no question out *)
(* move on.                                                                 *)
LEMMA AskQuiet ==
  ASSUME AskInv, UNCHANGED tasks, executor'.pc = "get" => executor' = executor,
         worker' = worker \/ ~(worker.pc = "wait" /\ worker.asked /\ worker.todo # << >>),
         generator' = generator \/ ~(generator.pc # "idle" /\ generator.asked /\ generator.todo # << >>)
  PROVE  AskInv'
<1>1. \A task : Awaited(task) => AwaitedBy(worker', generator', task)
  BY DEF Awaited, AwaitedBy, Awaits
<1>2. \A i \in DOMAIN tasks : tasks[i].kind = "get" => AwaitedBy(worker', generator', tasks[i])
  BY <1>1 DEF AskInv
<1>3. executor'.pc = "get" => AwaitedBy(worker', generator', executor.task)
  BY <1>1 DEF AskInv
<1>4. QED BY <1>2, <1>3 DEF AskInv, Awaited, AwaitedBy, Awaits

(* A task joins the channel; if it is a question, its thread has no other.  *)
LEMMA AskAppend ==
  ASSUME AskInv, tasks \in Seq(Task), NEW task \in Task, tasks' = Append(tasks, task), UNCHANGED executor,
         worker' = worker \/ ~(worker.pc = "wait" /\ worker.asked /\ worker.todo # << >>),
         generator' = generator \/ ~(generator.pc # "idle" /\ generator.asked /\ generator.todo # << >>),
         task.kind = "get" =>
           /\ AwaitedBy(worker', generator', task) /\ task.for \in {"worker", "generator"}
           /\ task.for = "worker" => ~(worker.pc = "wait" /\ worker.asked /\ worker.todo # << >>)
           /\ task.for = "generator" =>
                ~(generator.pc # "idle" /\ generator.asked /\ generator.todo # << >>),
         \A i \in DOMAIN tasks : tasks[i].kind = "get" => tasks[i].for \in {"worker", "generator"},
         executor.pc = "get" => executor.task.for \in {"worker", "generator"}
  PROVE  AskInv'
<1>1. \A t : Awaited(t) => AwaitedBy(worker', generator', t)
  BY DEF Awaited, AwaitedBy, Awaits
<1>2. \A t : Awaited(t) /\ t.for \in {"worker", "generator"} /\ task.kind = "get" => t.for # task.for
  BY DEF Awaited, AwaitedBy, Awaits
<1>3. PICK n : n = Len(tasks)
  OBVIOUS
<1>4. /\ n \in Nat /\ DOMAIN tasks = 1..n /\ DOMAIN tasks' = 1..(n + 1)
      /\ tasks'[n + 1] = task /\ \A i \in 1..n : tasks'[i] = tasks[i]
  BY <1>3
<1>5. \A i \in 1..n : tasks[i].kind = "get" =>
         /\ Awaited(tasks[i]) /\ AwaitedBy(worker', generator', tasks[i]) /\ tasks[i].for \in {"worker", "generator"}
         /\ executor.pc = "get" => executor.task.for # tasks[i].for
         /\ \A j \in 1..n \ {i} : tasks[j].kind = "get" => tasks[j].for # tasks[i].for
  BY <1>1, <1>4 DEF AskInv
<1>6. executor.pc = "get" => Awaited(executor.task) /\ AwaitedBy(worker', generator', executor.task)
  BY <1>1 DEF AskInv
<1>7. task.kind = "get" =>
         /\ \A i \in 1..n : tasks[i].kind = "get" => tasks[i].for # task.for
         /\ executor.pc = "get" => executor.task.for # task.for
  BY <1>2, <1>5, <1>6
<1>8. \A i \in 1..(n + 1) : i \in 1..n \/ i = n + 1
  BY <1>4
<1>9. \A i \in 1..n : i # n + 1
  BY <1>4
<1>10. ASSUME NEW i \in 1..(n + 1), tasks'[i].kind = "get"
       PROVE  /\ AwaitedBy(worker', generator', tasks'[i])
              /\ executor.pc = "get" => executor.task.for # tasks'[i].for
              /\ \A j \in 1..(n + 1) \ {i} : tasks'[j].kind = "get" => tasks'[j].for # tasks'[i].for
  <2>1. CASE i = n + 1
    <3>1. tasks'[i] = task /\ task.kind = "get" /\ AwaitedBy(worker', generator', task)
      BY <1>10, <1>4, <2>1
    <3>2. QED BY <3>1, <2>1, <1>4, <1>7, <1>8
  <2>2. CASE i \in 1..n
    <3>1. tasks'[i] = tasks[i] /\ tasks[i].kind = "get" /\ AwaitedBy(worker', generator', tasks[i])
      BY <1>10, <1>4, <1>5, <2>2
    <3>2. ASSUME NEW j \in 1..(n + 1) \ {i}, tasks'[j].kind = "get"
          PROVE  tasks'[j].for # tasks'[i].for
      <4>1. CASE j = n + 1
        BY <3>1, <3>2, <4>1, <2>2, <1>4, <1>7
      <4>2. CASE j \in 1..n
        BY <3>1, <3>2, <4>2, <2>2, <1>4, <1>5
      <4>3. QED BY <4>1, <4>2, <1>8, Zenon
    <3>3. QED BY <3>1, <3>2, <2>2, <1>5, Zenon
  <2>3. QED BY <2>1, <2>2, <1>8, Zenon
<1>11. QED BY <1>4, <1>6, <1>10 DEF AskInv, Awaited, AwaitedBy, Awaits

(* A question reaches the execution thread.                                 *)
LEMMA AskTake ==
  ASSUME AskInv, tasks \in Seq(Task), Take
  PROVE  AskInv'
<1>1. /\ tasks # << >> /\ executor' = [pc |-> Head(tasks).kind, task |-> Head(tasks)]
      /\ tasks' = Tail(tasks) /\ worker' = worker /\ generator' = generator
  BY DEF Take
<1>2. PICK n : n = Len(tasks)
  OBVIOUS
<1>3. /\ n \in Nat /\ n >= 1 /\ DOMAIN tasks = 1..n /\ Head(tasks) = tasks[1]
      /\ DOMAIN tasks' = 1..(n - 1) /\ \A i \in 1..(n - 1) : tasks'[i] = tasks[i + 1]
  BY <1>1, <1>2
<1>4. \A i \in 1..(n - 1) : i + 1 \in 1..n /\ i + 1 # 1 /\ \A j \in 1..(n - 1) \ {i} : j + 1 # i + 1
  BY <1>3
<1>5. executor'.pc = tasks[1].kind /\ executor'.task = tasks[1] /\ 1 \in 1..n
  BY <1>1, <1>3
<1>6. \A t : Awaited(t) => AwaitedBy(worker', generator', t)
  BY <1>1 DEF Awaited, AwaitedBy, Awaits
<1>7. \A i \in 1..n : tasks[i].kind = "get" =>
         /\ AwaitedBy(worker', generator', tasks[i])
         /\ \A j \in 1..n \ {i} : tasks[j].kind = "get" => tasks[j].for # tasks[i].for
  BY <1>3, <1>6, Zenon DEF AskInv
<1>8. ASSUME NEW i \in 1..(n - 1), tasks'[i].kind = "get"
      PROVE  /\ AwaitedBy(worker', generator', tasks'[i])
             /\ executor'.pc = "get" => executor'.task.for # tasks'[i].for
             /\ \A j \in 1..(n - 1) \ {i} : tasks'[j].kind = "get" => tasks'[j].for # tasks'[i].for
  <2>1. tasks'[i] = tasks[i + 1] /\ i + 1 \in 1..n /\ tasks[i + 1].kind = "get"
        /\ AwaitedBy(worker', generator', tasks[i + 1])
    BY <1>8, <1>3, <1>4, <1>7
  <2>2. \A j \in 1..n \ {i + 1} : tasks[j].kind = "get" => tasks[j].for # tasks[i + 1].for
    BY <2>1, <1>7
  <2>3. ASSUME NEW j \in 1..(n - 1) \ {i}, tasks'[j].kind = "get"
        PROVE  tasks'[j].for # tasks'[i].for
    <3>1. j + 1 \in 1..n \ {i + 1} /\ tasks'[j] = tasks[j + 1]
      BY <1>3, <1>4
    <3>2. QED BY <2>1, <2>2, <2>3, <3>1
  <2>4. QED BY <2>1, <2>2, <2>3, <1>4, <1>5
<1>9. executor'.pc = "get" => AwaitedBy(worker', generator', executor'.task)
  BY <1>5, <1>7, Zenon
<1>10. QED BY <1>3, <1>8, <1>9, Zenon DEF AskInv, Awaited, AwaitedBy, Awaits

-----------------------------------------------------------------------------
(* The rewards of an epoch                                                  *)

(* With one epoch of a chain the set S has all those below it.              *)
LEMMA BelowIn ==
  ASSUME Tree, NEW S, Closed(S), NEW c \in Blocks, NEW i \in 1..Len(path[c]), path[c][i] \in S
  PROVE  \A j \in 1..i : path[c][j] \in S
<1>1. path[c][i] \in Blocks /\ Len(path[c]) \in Nat
  BY Chains DEF Chain
<1>2. Len(path[path[c][i]]) = i /\ \A j \in 1..i : path[path[c][i]][j] = path[c][j]
  BY Neighbours
<1>3. \A j \in 1..Len(path[path[c][i]]) : path[path[c][i]][j] \in S
  BY <1>1, ClosedChain
<1>4. QED BY <1>2, <1>3

(* What an epoch is rewarded for is known when the epoch below it is.       *)
LEMMA RewardBelow ==
  ASSUME Tree, NEW S, Closed(S), NEW c \in Blocks, NEW i \in 1..(Len(path[c]) - 1), path[c][i] \in S,
         Rewarded(path[c][i + 1])
  PROVE  /\ RewardBlock(path[c][i + 1]) \in Blocks
         /\ DeferredOf(RewardBlock(path[c][i + 1])) \in S
<1>1. Len(path[c]) \in Nat /\ i \in 1..Len(path[c]) /\ i + 1 \in 1..Len(path[c])
  BY Chains DEF Chain
<1>2. PICK n : n = i + 1
  OBVIOUS
<1>3. n \in 1..Len(path[c]) /\ n - 1 = i /\ Rewarded(path[c][n])
  BY <1>1, <1>2
<1>4. /\ RewardBlock(path[c][n]) \in Blocks
      /\ \E j \in 1..(n - 1) : DeferredOf(RewardBlock(path[c][n])) = path[c][j]
  BY <1>3, RewardFacts
<1>5. \A j \in 1..i : path[c][j] \in S
  BY <1>1, BelowIn
<1>6. QED BY <1>2, <1>3, <1>4, <1>5

(* Nothing is waited for then, and the validity of the rewarded block can   *)
(* be computed.                                                             *)
LEMMA RewardRuns ==
  ASSUME Tree, MemInv, valid \subseteq Blocks, NEW b,
         Rewarded(b) => RewardBlock(b) \in Blocks /\ DeferredOf(RewardBlock(b)) \in mem
  PROVE  /\ RewardWaits(b) = << >>
         /\ RewardInfo(b) => Genesis \in valid' /\ valid' \subseteq Blocks /\ ~failed'
<1>1. Closed(mem) /\ Genesis \in mem /\ Genesis \in valid /\ ~failed
  BY DEF MemInv, Unwraps
<1>2. CASE ~Rewarded(b)
  BY <1>1, <1>2 DEF RewardWaits, RewardInfo
<1>3. CASE Rewarded(b)
  <2>1. PICK r \in Blocks : r = RewardBlock(b)
    BY <1>3
  <2>2. DeferredOf(r) \in mem
    BY <1>3, <2>1
  <2>3. Missing(r) = << >>
    BY <2>2, MissingFacts
  <2>4. CommitmentsExist(r) /\ NoStateValid(r) \subseteq Blocks
    BY <1>1, <2>2, CommitmentsFacts
  <2>5. RewardWaits(b) = << >>
    BY <1>3, <2>1, <2>3 DEF RewardWaits
  <2>6. RewardInfo(b) => valid' = valid \cup NoStateValid(r) /\ failed' = (failed \/ ~CommitmentsExist(r))
    BY <1>3, <2>1 DEF RewardInfo
  <2>7. QED BY <1>1, <2>4, <2>5, <2>6, Zenon
<1>4. QED BY <1>2, <1>3

(* The main chain is a path of the tree.                                    *)
LEMMA MainPath ==
  ASSUME ExecInv
  PROVE  /\ \E c \in Blocks : mainChain = path[c]
         /\ Len(mainChain) \in Nat /\ Len(mainChain) >= 1 /\ mainChain[1] = Genesis
         /\ \A i \in 1..Len(mainChain) : mainChain[i] \in Blocks
<1>1. Tree /\ arrived \in SUBSET Blocks /\ Leads(mainChain, arrived)
  BY DEF ExecInv, ExecTypes, ChainInv
<1>2. PICK tip \in Leaves(arrived) :
         /\ tip \in Blocks /\ mainChain = path[tip]
         /\ Len(mainChain) \in Nat /\ Len(mainChain) >= 1 /\ mainChain[1] = Genesis
         /\ \A i \in 1..Len(mainChain) : mainChain[i] \in Blocks
  BY <1>1, LeadsFacts
<1>3. QED BY <1>2

(* So is the chain in the database.                                         *)
LEMMA SavedPath ==
  ASSUME ExecInv
  PROVE  /\ \E c \in Blocks : saved.chain = path[c]
         /\ Len(saved.chain) \in Nat /\ Len(saved.chain) >= 1 /\ saved.chain[1] = Genesis
         /\ \A i \in 1..Len(saved.chain) : saved.chain[i] \in Blocks
<1>1. Tree /\ saved.blocks \in SUBSET Blocks /\ Leads(saved.chain, saved.blocks)
  BY DEF ExecInv, ExecTypes, ChainInv, Saved
<1>2. PICK tip \in Leaves(saved.blocks) :
         /\ tip \in Blocks /\ saved.chain = path[tip]
         /\ Len(saved.chain) \in Nat /\ Len(saved.chain) >= 1 /\ saved.chain[1] = Genesis
         /\ \A i \in 1..Len(saved.chain) : saved.chain[i] \in Blocks
  BY <1>1, LeadsFacts, Zenon
<1>3. QED BY <1>2

(* The heights that are deep enough are on the chain.                       *)
LEMMA TopFacts ==
  ASSUME NEW chain, Len(chain) \in Nat, Len(chain) >= 1
  PROVE  /\ ToStatePos(chain) \in Nat /\ TopOf(chain) \in Nat
         /\ TopOf(chain) + 1 \in 1..Len(chain) /\ ToStatePos(chain) <= TopOf(chain) + 1
         /\ ToStatePos(chain) >= 2 => ToStatePos(chain) = TopOf(chain) + 1 /\ ToStatePos(chain) < Len(chain)
         /\ ToStatePos(chain) <= 1 => TopOf(chain) = 0
         /\ Len(chain) > Deferred => TopOf(chain) = Len(chain) - Deferred
         /\ Len(chain) <= Deferred => TopOf(chain) = 0
BY ExecutionAssumption DEF ToStatePos, TopOf

-----------------------------------------------------------------------------
(* The consensus worker                                                     *)

(* A new block starts the loop at an epoch whose predecessors are in memory *)
(* or in the channel.                                                       *)
LEMMA ActivateStep ==
  ASSUME ExecInv, NEW b \in DOMAIN parent, Activate(b)
  PROVE  ExecInv'
<1>1. /\ Tree /\ ExecTypes /\ ChainInv /\ MemInv /\ BoundaryInv /\ QueueInv /\ AskInv
      /\ WorkerInv /\ GeneratorInv /\ Intact
  BY DEF ExecInv
<1>2. /\ worker.pc = "idle"
      /\ UNCHANGED <<parent, path, saved, mem, disk, states, recent, valid, tasks, executor, generator, failed>>
  BY Zenon DEF Activate, Locked
<1>3. /\ arrived' \subseteq Blocks /\ mainChain' \in Seq(Blocks) /\ boundary' \in Boundary
      /\ Leads(mainChain', arrived')
      /\ boundary'.chain = mainChain'
      /\ boundary'.upper < Len(mainChain') /\ mainChain'[boundary'.upper + 1] \in mem
      /\ boundary'.opt # NULL => boundary'.opt < Len(mainChain')
  BY <1>1, ActivateChain
<1>4. PICK fork \in 1..Len(mainChain) :
        /\ fork \in 1..Len(mainChain') /\ \A i \in 1..fork : mainChain'[i] = mainChain[i]
        /\ worker' = [pc |-> "enqueue", next |-> StateAt(fork, Len(mainChain)), from |-> 0,
                      to |-> ToStatePos(mainChain'), todo |-> << >>, asked |-> FALSE]
  BY <1>1, ActivateChain
<1>5. /\ Len(mainChain) \in Nat /\ Len(mainChain) >= 1 /\ mainChain[1] = Genesis
      /\ \E c \in Blocks : mainChain = path[c]
  BY MainPath
<1>6. Len(mainChain') \in Nat /\ Len(mainChain') >= 1
  BY <1>3, <1>4
<1>7. PICK from : from = IF fork + Deferred > Len(mainChain)
                         THEN IF Len(mainChain) > Deferred THEN Len(mainChain) - Deferred + 1 ELSE 1
                         ELSE fork
  OBVIOUS
<1>8. from \in Int /\ from >= 1 /\ from <= fork /\ from <= TopOf(mainChain) + 1
  <2>1. /\ Len(mainChain) > Deferred => TopOf(mainChain) = Len(mainChain) - Deferred
        /\ TopOf(mainChain) \in Nat
    BY <1>5, TopFacts
  <2>2. QED BY <1>4, <1>5, <1>7, <2>1, ExecutionAssumption
<1>9. StateAt(fork, Len(mainChain)) = from
  <2>1. Max({from, 1}) = from
    BY <1>8, TwoNumbers
  <2>2. QED BY <2>1, <1>7 DEF StateAt
<1>10. Blocks' = Blocks /\ Worker' = Worker
  BY <1>2, SameTypes
<1>11. ToStatePos(mainChain') \in Nat
  BY <1>6, TopFacts
<1>12. worker' \in Worker /\ worker'.pc = "enqueue" /\ worker'.next = from /\ worker'.to = ToStatePos(mainChain')
  BY <1>4, <1>8, <1>9, <1>11 DEF Worker
<1>13. ExecTypes'
  BY <1>1, <1>2, <1>3, <1>10, <1>12, SameTypes DEF ExecTypes
<1>14. ChainInv'
  BY <1>1, <1>2, <1>3, <1>12 DEF ChainInv, Leads, Closed, Leaves
<1>15. BoundaryInv'
  BY <1>2, <1>3 DEF BoundaryInv
<1>16. Covered' = Covered
  BY <1>2 DEF Covered, Before, Running
<1>17. QueueInv' /\ AskInv' /\ GeneratorInv'
  <2>1. QueueInv'
    BY <1>1, <1>2, QueueQuiet
  <2>2. AskInv'
    BY <1>1, <1>2, AskQuiet
  <2>3. GeneratorInv'
    BY <1>1, <1>2, <1>16, GeneratorFrame
  <2>4. QED BY <2>1, <2>2, <2>3
<1>18. WorkerInv'
  <2>1. mainChain[TopOf(mainChain) + 1] \in Covered /\ saved.chain[TopOf(saved.chain) + 1] \in Covered
    BY <1>1, <1>2 DEF WorkerInv, ChainInv
  <2>2. PICK c \in Blocks : mainChain = path[c]
    BY <1>5
  <2>3. TopOf(mainChain) + 1 \in 1..Len(path[c]) /\ path[c][TopOf(mainChain) + 1] \in Covered
    BY <2>1, <2>2, <1>5, TopFacts
  <2>4. \A j \in 1..(TopOf(mainChain) + 1) : path[c][j] \in Covered
    BY <2>3, <1>1, CoveredClosed, BelowIn
  <2>5. mainChain[from] \in Covered
    BY <2>2, <2>3, <2>4, <1>8
  <2>6. mainChain'[from] \in Covered' /\ from \in 1..Len(mainChain')
    BY <2>5, <1>4, <1>8, <1>16
  <2>7. saved'.chain[TopOf(saved'.chain) + 1] \in Covered'
    BY <2>1, <1>2, <1>16
  <2>8. QED BY <2>6, <2>7, <1>12 DEF WorkerInv
<1>19. RecoverInv' /\ Intact'
  BY <1>1, <1>2, <1>12 DEF RecoverInv, Intact
<1>20. Tree' /\ StorageInv' /\ FarInv' /\ MemInv'
  BY <1>2, Frame
<1>21. QED BY <1>13, <1>14, <1>15, <1>17, <1>18, <1>19, <1>20 DEF ExecInv

(* The results the next reward needs are in memory or in the channel.       *)
LEMMA CollectStep ==
  ASSUME ExecInv, Collect
  PROVE  ExecInv'
<1>1. /\ Tree /\ ExecTypes /\ ChainInv /\ MemInv /\ QueueInv /\ AskInv
      /\ WorkerInv /\ GeneratorInv /\ Intact
  BY DEF ExecInv
<1>2. /\ worker.pc = "enqueue" /\ worker.next < worker.to /\ worker \in Worker
      /\ worker' = [worker EXCEPT !.pc = "wait", !.todo = RewardWaits(mainChain[worker.next + 1])]
      /\ UNCHANGED <<parent, path, arrived, mainChain, saved, mem, disk, states, recent, valid, boundary, tasks,
                     executor, generator, failed>>
  BY <1>1 DEF Collect, ExecTypes
<1>3. PICK n : n = worker.next
  OBVIOUS
<1>4. /\ n \in 1..Len(mainChain) /\ worker.to = ToStatePos(mainChain) /\ mainChain[n] \in Covered
      /\ saved.chain[TopOf(saved.chain) + 1] \in Covered
  BY <1>1, <1>2, <1>3 DEF WorkerInv
<1>5. PICK c \in Blocks : mainChain = path[c]
  BY MainPath
<1>6. Len(mainChain) \in Nat /\ Len(mainChain) >= 1
  BY MainPath
<1>7. n \in 1..(Len(path[c]) - 1) /\ path[c][n] \in Covered
  BY <1>2, <1>3, <1>4, <1>5, <1>6, TopFacts
<1>8. PICK b : b = path[c][n + 1]
  OBVIOUS
<1>9. Closed(Covered) /\ mem \subseteq Covered /\ Covered \subseteq Blocks
  BY <1>1, CoveredClosed
<1>10. /\ RewardWaits(b) \in Seq(Blocks) /\ Range(RewardWaits(b)) \subseteq Covered
       /\ RewardReady(b, mem \cup Range(RewardWaits(b)))
  <2>1. CASE ~Rewarded(b)
    <3>1. RewardWaits(b) = << >>
      BY <2>1 DEF RewardWaits
    <3>2. QED BY <2>1, <3>1 DEF RewardReady, Range
  <2>2. CASE Rewarded(b)
    <3>1. RewardBlock(b) \in Blocks /\ DeferredOf(RewardBlock(b)) \in Covered
      BY <2>2, <1>1, <1>7, <1>8, <1>9, RewardBelow
    <3>2. PICK r \in Blocks : r = RewardBlock(b)
      BY <3>1
    <3>3. PICK d \in Blocks : d = DeferredOf(r)
      BY <3>1, <3>2, <1>9
    <3>4. /\ Missing(r) \in Seq(Blocks)
          /\ Range(Missing(r)) \subseteq {path[d][i] : i \in 1..Len(path[d])}
          /\ d \in mem \cup {Genesis} \cup Range(Missing(r))
      BY <1>1, <3>3, MissingFacts
    <3>5. d \in Covered
      BY <3>1, <3>2, <3>3
    <3>6. \A i \in 1..Len(path[d]) : path[d][i] \in Covered
      BY <1>1, <1>9, <3>5, ClosedChain
    <3>7. RewardWaits(b) = Missing(r)
      BY <2>2, <3>2 DEF RewardWaits
    <3>8. Genesis \in mem
      BY <1>1 DEF MemInv
    <3>9. QED BY <3>2, <3>3, <3>4, <3>6, <3>7, <3>8 DEF RewardReady
  <2>3. QED BY <2>1, <2>2
<1>11. /\ worker' \in Worker /\ worker'.pc = "wait" /\ worker'.next = n /\ worker'.to = worker.to
       /\ worker'.todo = RewardWaits(b)
  BY <1>2, <1>3, <1>5, <1>8, <1>10, Zenon DEF Worker
<1>12. ExecTypes'
  BY <1>1, <1>2, <1>11, SameTypes DEF ExecTypes
<1>13. Covered' = Covered
  BY <1>2 DEF Covered, Before, Running
<1>14. ChainInv'
  BY <1>1, <1>2, <1>11, ChainFrame
<1>15. QueueInv'
  BY <1>1, <1>2, QueueQuiet
<1>16. AskInv'
  BY <1>1, <1>2, AskQuiet
<1>17. GeneratorInv'
  BY <1>1, <1>2, <1>13, GeneratorFrame
<1>18. WorkerInv'
  <2>1. b = mainChain'[worker'.next + 1] /\ b = mainChain[n + 1]
    BY <1>2, <1>5, <1>8, <1>11
  <2>2. RewardReady(mainChain[n + 1], mem \cup Range(worker'.todo))
    BY <1>10, <1>11, <2>1
  <2>3. RewardReady(mainChain[worker.next + 1], mem \cup Range(worker.todo))'
    BY <2>2, <1>2, <1>11, Zenon DEF RewardReady, Rewarded, DeferredOf, RewardBlock, Height, AncestorAt
  <2>4. /\ worker'.next \in 1..Len(mainChain') /\ worker'.to = ToStatePos(mainChain')
        /\ mainChain'[worker'.next] \in Covered' /\ worker'.next < worker'.to
        /\ Range(worker'.todo) \subseteq Covered'
        /\ saved'.chain[TopOf(saved'.chain) + 1] \in Covered'
    BY <1>2, <1>3, <1>4, <1>10, <1>11, <1>13
  <2>5. QED BY <2>3, <2>4 DEF WorkerInv
<1>19. RecoverInv' /\ Intact'
  BY <1>1, <1>2, <1>11 DEF RecoverInv, Intact
<1>20. Tree' /\ StorageInv' /\ FarInv' /\ MemInv' /\ BoundaryInv'
  BY <1>2, Frame
<1>21. QED BY <1>12, <1>14, <1>15, <1>16, <1>17, <1>18, <1>19, <1>20 DEF ExecInv

(* The epoch follows the one before it through the channel, and the         *)
(* validity its reward depends on can be computed.                          *)
LEMMA EnqueueStep ==
  ASSUME ExecInv, Enqueue
  PROVE  ExecInv'
<1>1. /\ Tree /\ ExecTypes /\ ChainInv /\ MemInv /\ QueueInv /\ AskInv
      /\ WorkerInv /\ GeneratorInv /\ Intact
  BY DEF ExecInv
<1>2. PICK b : b = mainChain[worker.next + 1]
  OBVIOUS
<1>3. PICK task : task = [kind |-> "execute", block |-> b, for |-> "none"]
  BY Zenon
<1>4. /\ worker.pc = "wait" /\ worker.todo = << >> /\ worker \in Worker /\ RewardInfo(b)
      /\ tasks' = Append(tasks, task) /\ tasks \in Seq(Task)
      /\ worker' = [worker EXCEPT !.pc = "enqueue", !.next = @ + 1]
      /\ UNCHANGED <<parent, path, arrived, mainChain, saved, mem, disk, states, recent, boundary, executor,
                     generator>>
  BY <1>1, <1>2, <1>3 DEF Enqueue, ExecTypes
<1>5. PICK n : n = worker.next
  OBVIOUS
<1>6. /\ n \in 1..Len(mainChain) /\ worker.to = ToStatePos(mainChain) /\ mainChain[n] \in Covered
      /\ n < worker.to /\ saved.chain[TopOf(saved.chain) + 1] \in Covered
      /\ RewardReady(b, mem \cup Range(worker.todo))
  BY <1>1, <1>2, <1>4, <1>5 DEF WorkerInv
<1>7. PICK c \in Blocks : mainChain = path[c]
  BY MainPath
<1>8. Len(mainChain) \in Nat /\ Len(mainChain) >= 1
  BY MainPath
<1>9. n \in 1..(Len(path[c]) - 1) /\ n + 1 \in 1..Len(path[c])
  BY <1>6, <1>7, <1>8, TopFacts
<1>10. b = path[c][n + 1] /\ b \in Blocks /\ b # Genesis /\ parent[b] = path[c][n]
  <2>1. PICK m : m = n + 1
    OBVIOUS
  <2>2. m \in 1..Len(path[c]) /\ m > 1 /\ m - 1 = n
    BY <2>1, <1>9
  <2>3. path[c][m] # Genesis /\ parent[path[c][m]] = path[c][m - 1]
    BY <1>1, <2>2, Neighbours
  <2>4. path[c][m] \in Blocks
    BY <2>2, <1>7, MainPath
  <2>5. QED BY <2>1, <2>2, <2>3, <2>4, <1>2, <1>5, <1>7
<1>11. /\ Blocks' = Blocks /\ task \in Task /\ Ready(task, Covered)
  BY <1>3, <1>4, <1>6, <1>7, <1>10, SameTypes DEF Task, Ready
<1>12. /\ QueueInv' /\ tasks' \in Seq(Task) /\ Covered \subseteq Covered' /\ b \in Covered'
  BY <1>1, <1>3, <1>4, <1>11, AppendTask
<1>13. Genesis \in valid' /\ valid' \subseteq Blocks /\ ~failed'
  <2>1. Closed(Covered)
    BY <1>1, CoveredClosed
  <2>2. Rewarded(b) => RewardBlock(b) \in Blocks
    BY <1>1, <1>6, <1>7, <1>9, <1>10, <2>1, RewardBelow
  <2>3. Range(worker.todo) = {}
    BY <1>4 DEF Range
  <2>4. Rewarded(b) => DeferredOf(RewardBlock(b)) \in mem
    BY <1>6, <2>3 DEF RewardReady
  <2>5. QED BY <1>1, <1>4, <2>2, <2>4, RewardRuns DEF ExecTypes
<1>14. /\ worker' \in Worker /\ worker'.pc = "enqueue" /\ worker'.next = n + 1 /\ worker'.to = worker.to
  <2>1. n + 1 \in Nat
    BY <1>9
  <2>2. worker' = [worker EXCEPT !.pc = "enqueue", !.next = n + 1]
    BY <1>4, <1>5
  <2>3. QED BY <2>1, <2>2, <1>4, Zenon DEF Worker
<1>15. ExecTypes'
  BY <1>1, <1>4, <1>12, <1>13, <1>14, SameTypes DEF ExecTypes
<1>16. ChainInv'
  BY <1>1, <1>4, <1>14, ChainFrame
<1>17. MemInv'
  BY <1>1, <1>4, <1>13 DEF MemInv, Closed, Unwraps
<1>18. AskInv'
  <2>1. task.kind # "get"
    BY <1>3
  <2>2. \A i \in DOMAIN tasks : tasks[i].kind = "get" => tasks[i].for \in {"worker", "generator"}
    BY <1>1 DEF QueueInv, Ready
  <2>3. executor.pc = "get" => executor.task.for \in {"worker", "generator"}
    BY <1>1 DEF QueueInv, Ready
  <2>4. QED BY <1>1, <1>4, <1>11, <2>1, <2>2, <2>3, AskAppend
<1>19. GeneratorInv'
  BY <1>1, <1>4, <1>12, GeneratorFrame
<1>20. WorkerInv'
  <2>1. /\ worker'.next \in 1..Len(mainChain') /\ worker'.to = ToStatePos(mainChain')
        /\ mainChain'[worker'.next] \in Covered'
        /\ saved'.chain[TopOf(saved'.chain) + 1] \in Covered'
    BY <1>4, <1>6, <1>7, <1>9, <1>10, <1>12, <1>14
  <2>2. QED BY <2>1, <1>14 DEF WorkerInv
<1>21. RecoverInv' /\ Intact'
  BY <1>1, <1>4, <1>14 DEF RecoverInv, Intact
<1>22. Tree' /\ StorageInv' /\ FarInv' /\ BoundaryInv'
  BY <1>4, Frame
<1>23. QED BY <1>12, <1>15, <1>16, <1>17, <1>18, <1>19, <1>20, <1>21, <1>22 DEF ExecInv

(* When the loop ends, all that is deep enough on the main chain is in      *)
(* memory or in the channel.                                                *)
LEMMA FinishStep ==
  ASSUME ExecInv, Finish
  PROVE  ExecInv'
<1>1. /\ Tree /\ ExecTypes /\ ChainInv /\ MemInv /\ QueueInv /\ AskInv
      /\ WorkerInv /\ GeneratorInv /\ Intact
  BY DEF ExecInv
<1>2. /\ worker.pc = "enqueue" /\ worker.next >= worker.to /\ worker \in Worker
      /\ saved' = [chain |-> mainChain, blocks |-> arrived]
      /\ worker' = [worker EXCEPT !.pc = "idle"]
      /\ UNCHANGED <<parent, path, arrived, mainChain, mem, disk, states, recent, valid, boundary, tasks,
                     executor, generator, failed>>
  BY <1>1 DEF Finish, ExecTypes
<1>3. worker' \in Worker /\ worker'.pc = "idle" /\ saved' \in Saved
  BY <1>1, <1>2, Zenon DEF Worker, Saved, ExecTypes
<1>4. ExecTypes'
  BY <1>1, <1>2, <1>3, SameTypes DEF ExecTypes
<1>5. Covered' = Covered
  BY <1>2 DEF Covered, Before, Running
<1>6. saved'.chain = mainChain /\ saved'.blocks = arrived
  BY <1>2
<1>7. ChainInv'
  BY <1>1, <1>2, <1>6 DEF ChainInv, Leads, Closed, Leaves
<1>8. QueueInv'
  BY <1>1, <1>2, QueueQuiet
<1>9. AskInv'
  BY <1>1, <1>2, AskQuiet
<1>10. GeneratorInv'
  BY <1>1, <1>2, <1>5, GeneratorFrame
<1>11. WorkerInv'
  <2>1. PICK c \in Blocks : mainChain = path[c]
    BY MainPath
  <2>2. Len(mainChain) \in Nat /\ Len(mainChain) >= 1
    BY MainPath
  <2>3. /\ worker.next \in 1..Len(mainChain) /\ worker.to = ToStatePos(mainChain)
        /\ mainChain[worker.next] \in Covered
    BY <1>1, <1>2 DEF WorkerInv
  <2>4. TopOf(mainChain) + 1 \in 1..worker.next
    BY <1>2, <2>2, <2>3, TopFacts
  <2>5. path[c][TopOf(mainChain) + 1] \in Covered
    BY <1>1, <2>1, <2>3, <2>4, BelowIn, CoveredClosed
  <2>6. saved'.chain[TopOf(saved'.chain) + 1] \in Covered'
    BY <1>5, <1>6, <2>1, <2>5
  <2>7. QED BY <1>3, <2>6 DEF WorkerInv
<1>12. RecoverInv' /\ Intact'
  BY <1>1, <1>2, <1>3 DEF RecoverInv, Intact
<1>13. Tree' /\ StorageInv' /\ FarInv' /\ MemInv' /\ BoundaryInv'
  BY <1>2, Frame
<1>14. QED BY <1>4, <1>7, <1>8, <1>9, <1>10, <1>11, <1>12, <1>13 DEF ExecInv

(* The first result of a list is ticked off.                                *)
LEMMA TailFacts ==
  ASSUME NEW s \in Seq(Blocks), s # << >>
  PROVE  /\ Head(s) \in Blocks /\ Head(s) \in Range(s)
         /\ Tail(s) \in Seq(Blocks) /\ Range(Tail(s)) \subseteq Range(s)
         /\ Range(s) \subseteq {Head(s)} \cup Range(Tail(s))
<1>1. PICK n \in Nat : n = Len(s) /\ n >= 1
  OBVIOUS
<1>2. /\ DOMAIN s = 1..n /\ Head(s) = s[1] /\ s[1] \in Blocks
      /\ Tail(s) \in Seq(Blocks) /\ DOMAIN Tail(s) = 1..(n - 1)
      /\ \A i \in 1..(n - 1) : Tail(s)[i] = s[i + 1]
  BY <1>1
<1>3. Range(s) = {s[i] : i \in 1..n} /\ Range(Tail(s)) = {Tail(s)[i] : i \in 1..(n - 1)}
  BY <1>2, Zenon DEF Range
<1>4. s[1] \in Range(s)
  BY <1>1, <1>3
<1>5. Range(Tail(s)) \subseteq Range(s)
  BY <1>1, <1>2, <1>3
<1>6. Range(s) \subseteq {s[1]} \cup Range(Tail(s))
  <2>1. ASSUME NEW i \in 1..n, i # 1 PROVE s[i] \in Range(Tail(s))
    <3>1. i - 1 \in 1..(n - 1) /\ (i - 1) + 1 = i
      BY <2>1, <1>1
    <3>2. Tail(s)[i - 1] = s[i]
      BY <3>1, <1>2
    <3>3. QED BY <3>1, <3>2, <1>3, Zenon
  <2>2. QED BY <2>1, <1>3
<1>7. QED BY <1>2, <1>4, <1>5, <1>6

(* wait_for_result: for a result that is not in memory the thread asks      *)
(* behind the task that brings it about.                                    *)
LEMMA WaitFacts ==
  ASSUME NEW t, NEW name \in {"worker", "generator"}, t.todo \in Seq(Blocks), t.todo # << >>,
         Range(t.todo) \subseteq Covered, WaitForResult(t, name), Head(t.todo) \notin mem
  PROVE  \E task \in Task :
           /\ task = [kind |-> "get", block |-> Head(t.todo), for |-> name]
           /\ tasks' = Append(tasks, task) /\ Ready(task, Covered)
<1>1. PICK h \in Blocks : h = Head(t.todo) /\ h \in Covered
  BY TailFacts
<1>2. PICK task : task = [kind |-> "get", block |-> h, for |-> name]
  BY Zenon
<1>3. task \in Task /\ task.kind = "get" /\ task.block = h /\ task.for = name
  BY <1>2 DEF Task
<1>4. tasks' = Append(tasks, task)
  BY <1>1, <1>2 DEF WaitForResult
<1>5. Ready(task, Covered)
  BY <1>1, <1>3 DEF Ready
<1>6. QED BY <1>1, <1>2, <1>3, <1>4, <1>5

(* The worker waits for the results of a reward.                            *)
LEMMA WorkerWaitsStep ==
  ASSUME ExecInv, WorkerWaits
  PROVE  ExecInv'
<1>1. /\ Tree /\ ExecTypes /\ ChainInv /\ MemInv /\ QueueInv /\ AskInv
      /\ WorkerInv /\ GeneratorInv /\ Intact
  BY DEF ExecInv
<1>2. /\ worker.pc = "wait" /\ WaitForResult(worker, "worker") /\ worker \in Worker
      /\ worker.todo \in Seq(Blocks) /\ worker.todo # << >> /\ ~worker.asked
      /\ worker' = AfterWait(worker)
      /\ UNCHANGED <<parent, path, arrived, mainChain, saved, mem, disk, states, recent, valid, boundary,
                     executor, generator, failed>>
  BY <1>1 DEF WorkerWaits, WaitForResult, ExecTypes, Worker
<1>3. /\ worker.next \in 1..Len(mainChain) /\ worker.to = ToStatePos(mainChain)
      /\ mainChain[worker.next] \in Covered /\ worker.next < worker.to
      /\ Range(worker.todo) \subseteq Covered
      /\ RewardReady(mainChain[worker.next + 1], mem \cup Range(worker.todo))
      /\ saved.chain[TopOf(saved.chain) + 1] \in Covered
  BY <1>1, <1>2, Zenon DEF WorkerInv
<1>4. PICK h : h = Head(worker.todo)
  OBVIOUS
<1>5. /\ h \in Covered /\ h \in Blocks
      /\ Tail(worker.todo) \in Seq(Blocks) /\ Range(Tail(worker.todo)) \subseteq Range(worker.todo)
      /\ Range(worker.todo) \subseteq {h} \cup Range(Tail(worker.todo))
      /\ h \notin mem =>
           \E task \in Task :
             /\ task = [kind |-> "get", block |-> h, for |-> "worker"]
             /\ tasks' = Append(tasks, task) /\ Ready(task, Covered)
  BY <1>2, <1>3, <1>4, TailFacts, WaitFacts, Zenon
<1>6. /\ worker' \in Worker /\ worker'.pc = "wait" /\ worker'.next = worker.next /\ worker'.to = worker.to
      /\ h \in mem => worker'.todo = Tail(worker.todo)
      /\ h \notin mem => worker'.todo = worker.todo /\ worker'.asked
  BY <1>2, <1>4, <1>5, Zenon DEF AfterWait, Worker
<1>7. tasks' \in Seq(Task) /\ QueueInv' /\ AskInv' /\ Covered \subseteq Covered'
  <2>1. CASE h \in mem
    <3>1. tasks' = tasks
      BY <2>1, <1>2, <1>4 DEF WaitForResult
    <3>2. Covered' = Covered
      BY <3>1, <1>2 DEF Covered, Before, Running
    <3>3. QueueInv'
      BY <3>1, <1>1, <1>2, QueueQuiet, Zenon
    <3>4. AskInv'
      BY <3>1, <1>1, <1>2, AskQuiet
    <3>5. QED BY <3>1, <3>2, <3>3, <3>4, <1>1 DEF ExecTypes
  <2>2. CASE h \notin mem
    <3>1. PICK task \in Task :
             /\ task = [kind |-> "get", block |-> h, for |-> "worker"]
             /\ tasks' = Append(tasks, task) /\ Ready(task, Covered)
      BY <2>2, <1>5
    <3>2. QueueInv' /\ tasks' \in Seq(Task) /\ Covered \subseteq Covered'
      BY <3>1, <1>1, <1>2, AppendTask, Zenon
    <3>3. task.kind = "get" /\ task.block = h /\ task.for = "worker"
      BY <3>1
    <3>4. AwaitedBy(worker', generator', task)
      BY <3>3, <2>2, <1>2, <1>4, <1>6, Zenon DEF AwaitedBy, Awaits
    <3>5. \A i \in DOMAIN tasks : tasks[i].kind = "get" => tasks[i].for \in {"worker", "generator"}
      BY <1>1 DEF QueueInv, Ready
    <3>6. executor.pc = "get" => executor.task.for \in {"worker", "generator"}
      BY <1>1 DEF QueueInv, Ready
    <3>7. tasks \in Seq(Task)
      BY <1>1 DEF ExecTypes
    <3>8. AskInv'
      BY <1>1, <1>2, <3>1, <3>3, <3>4, <3>5, <3>6, <3>7, AskAppend, Zenon
    <3>9. QED BY <3>2, <3>8
  <2>3. QED BY <2>1, <2>2
<1>8. ExecTypes'
  BY <1>1, <1>2, <1>6, <1>7, SameTypes DEF ExecTypes
<1>9. WorkerInv'
  <2>1. Range(worker'.todo) \subseteq Covered /\ mem \cup Range(worker.todo) \subseteq mem \cup Range(worker'.todo)
    BY <1>3, <1>5, <1>6, Zenon
  <2>2. RewardReady(mainChain[worker.next + 1], mem \cup Range(worker'.todo))
    BY <2>1, <1>3 DEF RewardReady
  <2>3. RewardReady(mainChain[worker.next + 1], mem \cup Range(worker.todo))'
    BY <2>2, <1>2, <1>6, Zenon DEF RewardReady, Rewarded, DeferredOf, RewardBlock, Height, AncestorAt
  <2>4. /\ worker'.next \in 1..Len(mainChain') /\ worker'.to = ToStatePos(mainChain')
        /\ mainChain'[worker'.next] \in Covered' /\ worker'.next < worker'.to
        /\ Range(worker'.todo) \subseteq Covered'
        /\ saved'.chain[TopOf(saved'.chain) + 1] \in Covered'
    BY <1>2, <1>3, <1>6, <1>7, <2>1, Zenon
  <2>5. QED BY <2>3, <2>4, Zenon DEF WorkerInv
<1>10. ChainInv'
  BY <1>1, <1>2, <1>6, ChainFrame, Zenon
<1>11. GeneratorInv'
  BY <1>1, <1>2, <1>7, GeneratorFrame
<1>12. RecoverInv' /\ Intact'
  BY <1>1, <1>2, <1>6 DEF RecoverInv, Intact
<1>13. Tree' /\ StorageInv' /\ FarInv' /\ MemInv' /\ BoundaryInv'
  BY <1>2, Frame
<1>14. QED BY <1>7, <1>8, <1>9, <1>10, <1>11, <1>12, <1>13 DEF ExecInv

-----------------------------------------------------------------------------
(* The block generator                                                      *)

(* What is left to show of a step of the generator.                         *)
LEMMA GeneratorOnly ==
  ASSUME ExecInv, worker.pc # "recover",
         UNCHANGED <<parent, path, arrived, mainChain, saved, mem, disk, states, recent, boundary, executor,
                     worker>>,
         tasks' \in Seq(Task), QueueInv', AskInv', Covered \subseteq Covered', MemInv',
         valid' \subseteq Blocks, generator' \in Generator, GeneratorInv'
  PROVE  ExecInv'
<1>1. /\ Tree /\ ExecTypes /\ ChainInv /\ MemInv /\ WorkerInv /\ Intact
  BY DEF ExecInv
<1>2. ExecTypes'
  BY <1>1, SameTypes DEF ExecTypes
<1>3. ChainInv' /\ WorkerInv'
  BY <1>1, ChainFrame, WorkerFrame
<1>4. RecoverInv' /\ Intact'
  BY <1>1 DEF RecoverInv, Intact
<1>5. Tree' /\ StorageInv' /\ FarInv' /\ BoundaryInv'
  BY Frame
<1>6. QED BY <1>2, <1>3, <1>4, <1>5 DEF ExecInv

(* While the node is not recovering, the state a new block commits to is in *)
(* memory or in the channel.                                                *)
LEMMA PrepareStep ==
  ASSUME ExecInv, Prepare
  PROVE  ExecInv'
<1>1. /\ Tree /\ ExecTypes /\ MemInv /\ QueueInv /\ AskInv /\ WorkerInv
  BY DEF ExecInv
<1>2. PICK p : p = TipOf(saved.chain)
  OBVIOUS
<1>3. PICK x : x = AncestorAt(p, Max({0, Height(p) - Deferred + 1}))
  OBVIOUS
<1>4. /\ generator.pc = "idle" /\ worker.pc # "recover"
      /\ generator' = [pc |-> "state", parent |-> p, asked |-> FALSE, todo |-> <<x>>]
      /\ UNCHANGED <<parent, path, arrived, mainChain, saved, mem, disk, states, recent, valid, boundary, tasks,
                     executor, worker, failed>>
  BY <1>2, <1>3 DEF Prepare
<1>5. PICK c \in Blocks : saved.chain = path[c]
  BY SavedPath
<1>6. Len(saved.chain) \in Nat /\ Len(saved.chain) >= 1
  BY SavedPath
<1>7. p = c
  BY <1>1, <1>2, <1>5, Chains DEF Chain, TipOf
<1>8. PICK n \in Nat : n = Len(path[c]) /\ n >= 1
  BY <1>5, <1>6
<1>9. Closed(Covered) /\ Covered \subseteq Blocks
  BY <1>1, CoveredClosed
<1>10. PICK top : top = TopOf(saved.chain)
  OBVIOUS
<1>11. /\ top \in Nat /\ top + 1 \in 1..n /\ top = IF n > Deferred THEN n - Deferred ELSE 0
  <2>1. /\ TopOf(saved.chain) \in Nat /\ TopOf(saved.chain) + 1 \in 1..Len(saved.chain)
        /\ Len(saved.chain) > Deferred => TopOf(saved.chain) = Len(saved.chain) - Deferred
        /\ Len(saved.chain) <= Deferred => TopOf(saved.chain) = 0
    BY <1>6, TopFacts
  <2>2. QED BY <2>1, <1>5, <1>8, <1>10, ExecutionAssumption
<1>12. path[c][top + 1] \in Covered
  BY <1>1, <1>4, <1>5, <1>10, Zenon DEF WorkerInv
<1>13. \A j \in 1..(top + 1) : path[c][j] \in Covered
  BY <1>1, <1>8, <1>9, <1>11, <1>12, BelowIn, Zenon
<1>14. x \in Covered
  <2>1. Height(p) - Deferred + 1 = n - Deferred /\ n - Deferred \in Int
    BY <1>7, <1>8, ExecutionAssumption DEF Height
  <2>2. Max({0, n - Deferred}) = top
    BY <2>1, <1>11, TwoNumbers, ExecutionAssumption
  <2>3. x = path[c][top + 1]
    BY <1>3, <1>7, <2>1, <2>2, Zenon DEF AncestorAt
  <2>4. QED BY <2>3, <1>12
<1>15. DeferredOf(p) \in Covered
  <2>1. path[c][1] = Genesis /\ 1 \in 1..(top + 1)
    BY <1>1, <1>11, Chains DEF Chain
  <2>2. CASE n - 1 <= Deferred
    BY <2>1, <2>2, <1>7, <1>8, <1>13 DEF DeferredOf, Height
  <2>3. CASE ~(n - 1 <= Deferred)
    <3>1. n - Deferred \in 1..(top + 1)
      BY <2>3, <1>8, <1>11, ExecutionAssumption
    <3>2. DeferredOf(p) = path[c][n - Deferred]
      BY <2>3, <1>7, <1>8, ExecutionAssumption DEF DeferredOf, Height, AncestorAt
    <3>3. QED BY <3>1, <3>2, <1>13
  <2>4. QED BY <2>2, <2>3
<1>16. /\ generator' \in Generator /\ generator'.pc = "state" /\ generator'.parent = p
       /\ Range(generator'.todo) = {x}
  <2>1. x \in Blocks /\ <<x>> \in Seq(Blocks) /\ Range(<<x>>) = {x}
    BY <1>9, <1>14 DEF Range
  <2>2. QED BY <2>1, <1>4, <1>7 DEF Generator
<1>17. Covered' = Covered
  BY <1>4 DEF Covered, Before, Running
<1>18. GeneratorInv'
  <2>1. DeferredOf(generator.parent)' = DeferredOf(p)
    BY <1>4, <1>16, Zenon DEF DeferredOf, Height, AncestorAt
  <2>2. QED BY <2>1, <1>14, <1>15, <1>16, <1>17 DEF GeneratorInv
<1>19. QueueInv'
  BY <1>1, <1>4, QueueQuiet
<1>20. AskInv'
  BY <1>1, <1>4, AskQuiet, Zenon
<1>21. MemInv'
  BY <1>4, Frame
<1>22. tasks' \in Seq(Task) /\ valid' \subseteq Blocks
  BY <1>1, <1>4 DEF ExecTypes
<1>23. QED BY <1>4, <1>16, <1>17, <1>18, <1>19, <1>20, <1>21, <1>22, GeneratorOnly

(* The generator waits for a result.                                        *)
LEMMA GeneratorWaitsStep ==
  ASSUME ExecInv, GeneratorWaits
  PROVE  ExecInv'
<1>1. /\ Tree /\ ExecTypes /\ MemInv /\ QueueInv /\ AskInv /\ WorkerInv /\ GeneratorInv /\ RecoverInv
  BY DEF ExecInv
<1>2. /\ generator.pc # "idle" /\ WaitForResult(generator, "generator") /\ generator \in Generator
      /\ generator.todo \in Seq(Blocks) /\ generator.todo # << >> /\ ~generator.asked
      /\ generator' = AfterWait(generator)
      /\ UNCHANGED <<parent, path, arrived, mainChain, saved, mem, disk, states, recent, valid, boundary,
                     executor, worker, failed>>
  BY <1>1, Zenon DEF GeneratorWaits, WaitForResult, ExecTypes, Generator
<1>3. /\ worker.pc # "recover" /\ Range(generator.todo) \subseteq Covered
      /\ DeferredOf(generator.parent) \in Covered
      /\ generator.pc = "blame" => DeferredOf(generator.parent) \in mem \cup Range(generator.todo)
  BY <1>1, <1>2, Zenon DEF GeneratorInv, RecoverInv
<1>4. PICK h : h = Head(generator.todo)
  OBVIOUS
<1>5. /\ h \in Covered /\ h \in Blocks
      /\ Tail(generator.todo) \in Seq(Blocks) /\ Range(Tail(generator.todo)) \subseteq Range(generator.todo)
      /\ Range(generator.todo) \subseteq {h} \cup Range(Tail(generator.todo))
      /\ h \notin mem =>
           \E task \in Task :
             /\ task = [kind |-> "get", block |-> h, for |-> "generator"]
             /\ tasks' = Append(tasks, task) /\ Ready(task, Covered)
  BY <1>2, <1>3, <1>4, TailFacts, WaitFacts, Zenon
<1>6. /\ generator' \in Generator /\ generator'.pc = generator.pc /\ generator'.parent = generator.parent
      /\ h \in mem => generator'.todo = Tail(generator.todo)
      /\ h \notin mem => generator'.todo = generator.todo /\ generator'.asked
  BY <1>2, <1>4, <1>5, Zenon DEF AfterWait, Generator
<1>7. tasks' \in Seq(Task) /\ QueueInv' /\ AskInv' /\ Covered \subseteq Covered'
  <2>1. CASE h \in mem
    <3>1. tasks' = tasks
      BY <2>1, <1>2, <1>4, Zenon DEF WaitForResult
    <3>2. Covered' = Covered
      BY <3>1, <1>2 DEF Covered, Before, Running
    <3>3. QueueInv'
      BY <3>1, <1>1, <1>2, QueueQuiet, Zenon
    <3>4. AskInv'
      BY <3>1, <1>1, <1>2, AskQuiet
    <3>5. QED BY <3>1, <3>2, <3>3, <3>4, <1>1 DEF ExecTypes
  <2>2. CASE h \notin mem
    <3>1. PICK task \in Task :
             /\ task = [kind |-> "get", block |-> h, for |-> "generator"]
             /\ tasks' = Append(tasks, task) /\ Ready(task, Covered)
      BY <2>2, <1>5
    <3>2. QueueInv' /\ tasks' \in Seq(Task) /\ Covered \subseteq Covered'
      BY <3>1, <1>1, <1>2, AppendTask, Zenon
    <3>3. task.kind = "get" /\ task.block = h /\ task.for = "generator"
      BY <3>1
    <3>4. AwaitedBy(worker', generator', task)
      BY <3>3, <2>2, <1>2, <1>4, <1>6, Zenon DEF AwaitedBy, Awaits
    <3>5. \A i \in DOMAIN tasks : tasks[i].kind = "get" => tasks[i].for \in {"worker", "generator"}
      BY <1>1 DEF QueueInv, Ready
    <3>6. executor.pc = "get" => executor.task.for \in {"worker", "generator"}
      BY <1>1 DEF QueueInv, Ready
    <3>7. tasks \in Seq(Task)
      BY <1>1 DEF ExecTypes
    <3>8. AskInv'
      BY <1>1, <1>2, <3>1, <3>3, <3>4, <3>5, <3>6, <3>7, AskAppend, Zenon
    <3>9. QED BY <3>2, <3>8
  <2>3. QED BY <2>1, <2>2
<1>8. GeneratorInv'
  <2>1. DeferredOf(generator.parent)' = DeferredOf(generator.parent)
    BY <1>2, <1>6, Zenon DEF DeferredOf, Height, AncestorAt
  <2>2. /\ Range(generator'.todo) \subseteq Covered'
        /\ mem \cup Range(generator.todo) \subseteq mem \cup Range(generator'.todo)
    BY <1>3, <1>5, <1>6, <1>7, Zenon
  <2>3. QED BY <2>1, <2>2, <1>2, <1>3, <1>6, <1>7 DEF GeneratorInv
<1>9. MemInv'
  BY <1>2, Frame, Zenon
<1>10. valid' \subseteq Blocks
  BY <1>1, <1>2 DEF ExecTypes
<1>11. QED BY <1>2, <1>3, <1>6, <1>7, <1>8, <1>9, <1>10, GeneratorOnly, Zenon

(* What the validity of the parent needs is in memory or in the channel.    *)
LEMMA GeneratorCollectsStep ==
  ASSUME ExecInv, GeneratorCollects
  PROVE  ExecInv'
<1>1. /\ Tree /\ ExecTypes /\ MemInv /\ QueueInv /\ AskInv /\ GeneratorInv
  BY DEF ExecInv
<1>2. /\ generator.pc = "state" /\ generator.todo = << >> /\ worker.pc # "recover" /\ generator \in Generator
      /\ generator' = [generator EXCEPT !.pc = "blame", !.todo = Missing(generator.parent)]
      /\ UNCHANGED <<parent, path, arrived, mainChain, saved, mem, disk, states, recent, valid, boundary, tasks,
                     executor, worker, failed>>
  BY <1>1 DEF GeneratorCollects, Locked, ExecTypes
<1>3. PICK p \in Blocks : p = generator.parent
  BY <1>2 DEF Generator
<1>4. PICK d : d = DeferredOf(p)
  OBVIOUS
<1>5. /\ d \in Blocks /\ Missing(p) \in Seq(Blocks)
      /\ Range(Missing(p)) \subseteq {path[d][i] : i \in 1..Len(path[d])}
      /\ d \in mem \cup {Genesis} \cup Range(Missing(p))
  BY <1>1, <1>4, MissingFacts
<1>6. d \in Covered
  BY <1>1, <1>2, <1>3, <1>4 DEF GeneratorInv
<1>7. \A i \in 1..Len(path[d]) : path[d][i] \in Covered
  BY <1>1, <1>5, <1>6, ClosedChain, CoveredClosed
<1>8. /\ generator' \in Generator /\ generator'.pc = "blame" /\ generator'.parent = p
      /\ generator'.todo = Missing(p)
  BY <1>2, <1>3, <1>5, Zenon DEF Generator
<1>9. Covered' = Covered
  BY <1>2 DEF Covered, Before, Running
<1>10. GeneratorInv'
  <2>1. DeferredOf(generator.parent)' = d
    BY <1>2, <1>4, <1>8 DEF DeferredOf, Height, AncestorAt
  <2>2. Range(generator'.todo) \subseteq Covered
    BY <1>5, <1>7, <1>8
  <2>3. Genesis \in mem
    BY <1>1 DEF MemInv
  <2>4. QED BY <2>1, <2>2, <2>3, <1>2, <1>5, <1>6, <1>8, <1>9 DEF GeneratorInv
<1>11. QueueInv'
  BY <1>1, <1>2, QueueQuiet
<1>12. AskInv'
  BY <1>1, <1>2, AskQuiet
<1>13. MemInv'
  BY <1>2, Frame
<1>14. tasks' \in Seq(Task) /\ valid' \subseteq Blocks
  BY <1>1, <1>2 DEF ExecTypes
<1>15. QED BY <1>2, <1>8, <1>9, <1>10, <1>11, <1>12, <1>13, <1>14, GeneratorOnly

(* The commitments the blame of the new block is computed from are there.   *)
LEMMA GeneratorBlamesStep ==
  ASSUME ExecInv, GeneratorBlames
  PROVE  ExecInv'
<1>1. /\ Tree /\ ExecTypes /\ MemInv /\ QueueInv /\ AskInv /\ GeneratorInv
  BY DEF ExecInv
<1>2. /\ generator.pc = "blame" /\ generator.todo = << >> /\ worker.pc # "recover" /\ generator \in Generator
      /\ generator' = [generator EXCEPT !.pc = "idle"]
      /\ valid' = valid \cup NoStateValid(generator.parent)
      /\ failed' = (failed \/ ~CommitmentsExist(generator.parent))
      /\ UNCHANGED <<parent, path, arrived, mainChain, saved, mem, disk, states, recent, boundary, tasks,
                     executor, worker>>
  BY <1>1 DEF GeneratorBlames, Locked, ExecTypes
<1>3. PICK p \in Blocks : p = generator.parent
  BY <1>2 DEF Generator
<1>4. DeferredOf(p) \in mem
  BY <1>1, <1>2, <1>3 DEF GeneratorInv, Range
<1>5. CommitmentsExist(p) /\ NoStateValid(p) \subseteq Blocks
  BY <1>1, <1>4, CommitmentsFacts DEF MemInv
<1>6. MemInv' /\ valid' \subseteq Blocks
  BY <1>1, <1>2, <1>3, <1>5, Zenon DEF MemInv, Closed, Unwraps, ExecTypes
<1>7. generator' \in Generator /\ generator'.pc = "idle"
  BY <1>2 DEF Generator
<1>8. GeneratorInv'
  BY <1>7 DEF GeneratorInv
<1>9. Covered' = Covered
  BY <1>2 DEF Covered, Before, Running
<1>10. QueueInv'
  BY <1>1, <1>2, QueueQuiet
<1>11. AskInv'
  BY <1>1, <1>2, AskQuiet
<1>12. tasks' \in Seq(Task)
  BY <1>1, <1>2 DEF ExecTypes
<1>13. QED BY <1>2, <1>6, <1>7, <1>8, <1>9, <1>10, <1>11, <1>12, GeneratorOnly

-----------------------------------------------------------------------------
(* The execution thread                                                     *)

(* What is left to show of a step of the execution thread that changes      *)
(* neither what is executed nor what the other threads wait for.            *)
LEMMA ExecutorOnly ==
  ASSUME ExecInv,
         UNCHANGED <<parent, path, arrived, mainChain, saved, mem, disk, states, recent, worker, generator>>,
         worker.pc = "recover" => UNCHANGED <<tasks, boundary>> /\ executor'.pc \in {"poll", "try", "recv"},
         tasks' \in Seq(Task), executor' \in Executor, boundary' \in Boundary, valid' \subseteq Blocks,
         QueueInv', AskInv', Covered \subseteq Covered', MemInv', BoundaryInv'
  PROVE  ExecInv'
<1>1. /\ Tree /\ ExecTypes /\ ChainInv /\ MemInv /\ WorkerInv /\ GeneratorInv /\ RecoverInv /\ Intact
  BY DEF ExecInv
<1>2. ExecTypes'
  BY <1>1, SameTypes DEF ExecTypes
<1>3. ChainInv' /\ WorkerInv' /\ GeneratorInv'
  BY <1>1, ChainFrame, WorkerFrame, GeneratorFrame
<1>4. RecoverInv'
  BY <1>1, Zenon DEF RecoverInv, ToStatePos, TopOf
<1>5. Intact'
  BY <1>1 DEF Intact
<1>6. Tree' /\ StorageInv' /\ FarInv'
  BY Frame
<1>7. QED BY <1>2, <1>3, <1>4, <1>5, <1>6 DEF ExecInv

(* The first task of the channel is taken.                                  *)
LEMMA TakeStep ==
  ASSUME ExecInv, Take
  PROVE  ExecInv'
<1>1. /\ ExecTypes /\ QueueInv /\ AskInv /\ RecoverInv
  BY DEF ExecInv
<1>2. UNCHANGED <<parent, path, arrived, mainChain, saved, mem, disk, states, recent, valid, boundary,
                  worker, generator, failed>>
  BY DEF Take
<1>3. worker.pc # "recover"
  BY <1>1 DEF Take, RecoverInv
<1>4. /\ QueueInv' /\ Covered \subseteq Covered' /\ tasks' \in Seq(Task) /\ executor' \in Executor
  BY <1>1, TakeTask
<1>5. AskInv' /\ boundary' \in Boundary /\ valid' \subseteq Blocks
  BY <1>1, <1>2, AskTake DEF ExecTypes
<1>6. MemInv' /\ BoundaryInv'
  BY <1>2, Frame
<1>7. QED BY <1>2, <1>3, <1>4, <1>5, <1>6, ExecutorOnly

(* The channel is empty, or there is nothing to run ahead with.             *)
LEMMA PollStep ==
  ASSUME ExecInv, Empty \/ NoOptimistic
  PROVE  ExecInv'
<1>1. /\ ExecTypes /\ QueueInv /\ AskInv
  BY DEF ExecInv
<1>2. /\ UNCHANGED <<parent, path, arrived, mainChain, saved, mem, disk, states, recent, valid, boundary, tasks,
                     worker, generator, failed>>
      /\ executor.pc \in {"poll", "try"} /\ executor \in Executor
      /\ \E pc \in {"try", "recv"} : executor' = [executor EXCEPT !.pc = pc]
  BY <1>1 DEF Empty, NoOptimistic, ExecTypes
<1>3. executor' \in Executor /\ executor'.pc \in {"try", "recv"}
  BY <1>2 DEF Executor
<1>4. Running = {}
  BY <1>2 DEF Running
<1>5. QueueInv' /\ Covered \subseteq Covered'
  BY <1>1, <1>2, <1>3, <1>4, ExecutorMoves
<1>6. AskInv' /\ boundary' \in Boundary /\ valid' \subseteq Blocks /\ tasks' \in Seq(Task)
  BY <1>1, <1>2, <1>3, AskQuiet DEF ExecTypes
<1>7. MemInv' /\ BoundaryInv'
  BY <1>2, Frame
<1>8. QED BY <1>2, <1>3, <1>5, <1>6, <1>7, ExecutorOnly

(* The epoch after the last available one can be run ahead of its task: its *)
(* parent is executed, and so is all its reward depends on.                 *)
LEMMA OptimisticStep ==
  ASSUME ExecInv, Optimistic
  PROVE  ExecInv'
<1>1. /\ Tree /\ ExecTypes /\ MemInv /\ QueueInv /\ AskInv /\ BoundaryInv
  BY DEF ExecInv
<1>2. PICK b : b = mainChain[boundary.opt + 1]
  OBVIOUS
<1>3. PICK task : task = [kind |-> "execute", block |-> b, for |-> "none"]
  BY Zenon
<1>4. PICK n : n = boundary.upper + 1
  OBVIOUS
<1>5. /\ executor.pc = "try" /\ worker.pc # "recover" /\ boundary \in Boundary
      /\ boundary.opt # NULL /\ boundary.opt = n
      /\ boundary' = [boundary EXCEPT !.opt = IF @ + 1 >= Len(mainChain) THEN NULL ELSE @ + 1]
      /\ executor' = [pc |-> "execute", task |-> task]
      /\ IF RewardWaits(b) = << >> THEN RewardInfo(b) ELSE failed' = TRUE /\ UNCHANGED valid
      /\ UNCHANGED <<parent, path, arrived, mainChain, saved, mem, disk, states, recent, tasks, worker, generator>>
  BY <1>1, <1>2, <1>3, <1>4 DEF Optimistic, Locked, ExecTypes
<1>6. PICK c \in Blocks : mainChain = path[c]
  BY MainPath
<1>7. Len(mainChain) \in Nat /\ boundary.upper \in Nat /\ n \in Nat
  BY <1>4, <1>5, MainPath DEF Boundary
<1>8. /\ boundary.chain = mainChain /\ boundary.upper < Len(mainChain)
      /\ n < Len(mainChain) /\ mainChain[n] \in mem
  BY <1>1, <1>4, <1>5 DEF BoundaryInv
<1>9. n \in 1..(Len(path[c]) - 1) /\ path[c][n] \in mem /\ n + 1 \in 1..Len(path[c])
  BY <1>4, <1>6, <1>7, <1>8
<1>10. b = path[c][n + 1] /\ b \in Blocks /\ b # Genesis /\ parent[b] = path[c][n]
  <2>1. PICK m : m = n + 1
    OBVIOUS
  <2>2. m \in 1..Len(path[c]) /\ m > 1 /\ m - 1 = n
    BY <2>1, <1>9
  <2>3. path[c][m] # Genesis /\ parent[path[c][m]] = path[c][m - 1]
    BY <1>1, <2>2, Neighbours
  <2>4. path[c][m] \in Blocks
    BY <2>2, <1>6, MainPath
  <2>5. QED BY <2>1, <2>2, <2>3, <2>4, <1>2, <1>5, <1>6
<1>11. Genesis \in valid' /\ valid' \subseteq Blocks /\ ~failed'
  <2>1. Closed(mem)
    BY <1>1 DEF MemInv
  <2>2. Rewarded(b) => RewardBlock(b) \in Blocks /\ DeferredOf(RewardBlock(b)) \in mem
    BY <1>1, <1>9, <1>10, <2>1, RewardBelow
  <2>3. /\ RewardWaits(b) = << >>
        /\ RewardInfo(b) => Genesis \in valid' /\ valid' \subseteq Blocks /\ ~failed'
    BY <1>1, <2>2, RewardRuns DEF ExecTypes
  <2>4. QED BY <2>3, <1>5
<1>12. /\ executor' \in Executor /\ executor'.pc = "execute" /\ executor'.task = task
       /\ task.kind = "execute" /\ Ready(task, mem)
  <2>1. task \in Task
    BY <1>3, <1>10 DEF Task
  <2>2. QED BY <2>1, <1>3, <1>5, <1>9, <1>10 DEF Executor, Ready
<1>13. Running = {}
  BY <1>5 DEF Running
<1>14. QueueInv' /\ Covered \subseteq Covered'
  BY <1>1, <1>5, <1>12, <1>13, ExecutorMoves
<1>15. /\ boundary' \in Boundary /\ boundary'.chain = boundary.chain /\ boundary'.upper = boundary.upper
       /\ boundary'.opt # NULL => boundary'.opt < Len(mainChain)
  <2>1. boundary' = [boundary EXCEPT !.opt = IF n + 1 >= Len(mainChain) THEN NULL ELSE n + 1]
    BY <1>5
  <2>2. CASE n + 1 >= Len(mainChain)
    BY <2>1, <2>2, <1>5 DEF Boundary
  <2>3. CASE ~(n + 1 >= Len(mainChain))
    BY <2>1, <2>3, <1>5, <1>7 DEF Boundary
  <2>4. QED BY <2>2, <2>3
<1>16. BoundaryInv'
  BY <1>1, <1>5, <1>15 DEF BoundaryInv
<1>17. MemInv'
  BY <1>1, <1>5, <1>11 DEF MemInv, Closed, Unwraps
<1>18. AskInv' /\ tasks' \in Seq(Task)
  BY <1>1, <1>5, <1>12, AskQuiet DEF ExecTypes
<1>19. QED BY <1>5, <1>11, <1>12, <1>14, <1>15, <1>16, <1>17, <1>18, ExecutorOnly

(* An epoch is computed on the complete state of its parent.                *)
LEMMA ExecuteStep ==
  ASSUME ExecInv, Execute
  PROVE  ExecInv'
<1>1. /\ Tree /\ ExecTypes /\ ChainInv /\ MemInv /\ QueueInv /\ AskInv /\ WorkerInv /\ GeneratorInv
      /\ RecoverInv /\ StorageInv /\ FarInv /\ Intact
  BY DEF ExecInv
<1>2. PICK b : b = executor.task.block
  OBVIOUS
<1>3. /\ executor.pc = "execute" /\ executor \in Executor
      /\ executor' = [executor EXCEPT !.pc = "adjust"]
      /\ \/ b \in mem /\ UNCHANGED <<mem, disk, states, recent, failed>>
         \/ Compute(b) /\ failed' = (failed \/ parent[b] \notin mem)
      /\ UNCHANGED <<parent, path, arrived, mainChain, saved, valid, boundary, tasks, worker, generator>>
  BY <1>1, <1>2 DEF Execute, ExecTypes
<1>4. worker.pc # "recover" /\ b \in Blocks /\ b # Genesis /\ b \in DOMAIN parent /\ parent[b] \in mem
  BY <1>1, <1>2, <1>3 DEF RecoverInv, QueueInv, Ready, Blocks
<1>5. states[parent[b]] = "ok"
  BY <1>1, <1>4 DEF Intact
<1>6. Tree' /\ BoundaryInv' /\ ChainInv'
  <2>1. mem \subseteq mem'
    BY <1>3 DEF Compute
  <2>2. QED BY <1>1, <1>3, <2>1, Frame, ChainFrame
<1>7. /\ StorageInv' /\ FarInv' /\ mem' = mem \cup {b} /\ disk' \subseteq Blocks /\ ~failed'
      /\ states' \in [Blocks -> {"none", "torn", "ok"}] /\ recent' \in Seq(DOMAIN parent)
      /\ \A x \in mem' : states'[x] = "ok"
  <2>1. CASE b \in mem /\ UNCHANGED <<mem, disk, states, recent, failed>>
    <3>1. StorageInv' /\ FarInv'
      BY <1>3, <2>1, Frame
    <3>2. QED BY <1>1, <1>4, <2>1, <3>1 DEF ExecTypes, Intact, MemInv, Unwraps
  <2>2. CASE Compute(b) /\ failed' = (failed \/ parent[b] \notin mem)
    <3>1. /\ StorageInv' /\ FarInv'
          /\ states' \in [Blocks -> {"none", "torn", "ok"}] /\ recent' \in Seq(DOMAIN parent)
          /\ states'[b] = "ok" /\ \A x \in Blocks : states[x] = "ok" => states'[x] = "ok"
      BY <1>1, <1>3, <1>4, <1>5, <2>2, ComputeStorage
    <3>2. mem' = mem \cup {b} /\ disk' = disk \cup {b}
      BY <2>2 DEF Compute
    <3>3. QED BY <1>1, <1>4, <2>2, <3>1, <3>2, Zenon DEF ExecTypes, Intact, MemInv, Unwraps
  <2>3. QED BY <1>3, <2>1, <2>2
<1>8. executor' \in Executor /\ executor'.pc = "adjust" /\ executor'.task = executor.task
  BY <1>3 DEF Executor
<1>9. Running = {b}
  BY <1>2, <1>3 DEF Running
<1>10. QueueInv' /\ Covered \subseteq Covered'
  BY <1>1, <1>2, <1>3, <1>7, <1>8, <1>9, ExecutorMoves
<1>11. ExecTypes'
  <2>1. mem' \subseteq Blocks
    BY <1>1, <1>4, <1>7 DEF ExecTypes
  <2>2. QED BY <1>1, <1>3, <1>7, <1>8, <2>1, SameTypes DEF ExecTypes
<1>12. MemInv'
  BY <1>1, <1>3, <1>4, <1>7 DEF MemInv, Closed, Unwraps
<1>13. AskInv'
  BY <1>1, <1>3, <1>8, AskQuiet
<1>14. WorkerInv' /\ GeneratorInv'
  BY <1>1, <1>3, <1>7, <1>10, WorkerFrame, GeneratorFrame
<1>15. RecoverInv' /\ Intact'
  BY <1>3, <1>4, <1>7 DEF RecoverInv, Intact
<1>16. QED BY <1>6, <1>7, <1>10, <1>11, <1>12, <1>13, <1>14, <1>15 DEF ExecInv

(* An executed epoch raises the boundary only if it is the next one of the  *)
(* main chain.                                                              *)
LEMMA AdjustStep ==
  ASSUME ExecInv, Adjust
  PROVE  ExecInv'
<1>1. /\ ExecTypes /\ QueueInv /\ AskInv /\ BoundaryInv /\ RecoverInv
  BY DEF ExecInv
<1>2. PICK b : b = executor.task.block
  OBVIOUS
<1>3. PICK up : up = AdjustUpperBound(b)
  OBVIOUS
<1>4. /\ executor.pc = "adjust" /\ executor \in Executor /\ boundary \in Boundary
      /\ boundary' = [boundary EXCEPT !.upper = up]
      /\ executor' = [executor EXCEPT !.pc = "poll"]
      /\ UNCHANGED <<parent, path, arrived, mainChain, saved, mem, disk, states, recent, valid, tasks, worker,
                     generator, failed>>
  BY <1>1, <1>2, <1>3 DEF Adjust, ExecTypes
<1>5. worker.pc # "recover" /\ b \in mem
  BY <1>1, <1>2, <1>4 DEF RecoverInv, QueueInv
<1>6. PICK u \in Nat : u = boundary.upper
  BY <1>4 DEF Boundary
<1>7. /\ boundary.chain = mainChain /\ u < Len(mainChain) /\ mainChain[u + 1] \in mem
      /\ boundary.opt # NULL => boundary.opt < Len(mainChain)
  BY <1>1, <1>6 DEF BoundaryInv
<1>8. up \in Nat /\ up < Len(mainChain) /\ mainChain[up + 1] \in mem
  <2>1. CASE up = u
    BY <2>1, <1>7
  <2>2. CASE up = u + 1 /\ u + 1 < Len(mainChain) /\ b = mainChain[u + 2]
    <3>1. up + 1 = u + 2
      BY <2>2
    <3>2. QED BY <2>2, <3>1, <1>5
  <2>3. QED BY <2>1, <2>2, <1>3, <1>6, <1>7 DEF AdjustUpperBound
<1>9. /\ boundary' \in Boundary /\ boundary'.upper = up /\ boundary'.chain = boundary.chain
      /\ boundary'.opt = boundary.opt
  BY <1>4, <1>8 DEF Boundary
<1>10. BoundaryInv'
  BY <1>4, <1>7, <1>8, <1>9 DEF BoundaryInv
<1>11. executor' \in Executor /\ executor'.pc = "poll"
  BY <1>4 DEF Executor
<1>12. Running = {}
  BY <1>4 DEF Running
<1>13. QueueInv' /\ Covered \subseteq Covered'
  BY <1>1, <1>4, <1>11, <1>12, ExecutorMoves
<1>14. AskInv' /\ tasks' \in Seq(Task) /\ valid' \subseteq Blocks
  BY <1>1, <1>4, <1>11, AskQuiet DEF ExecTypes
<1>15. MemInv'
  BY <1>4, Frame
<1>16. QED BY <1>4, <1>5, <1>9, <1>10, <1>11, <1>13, <1>14, <1>15, ExecutorOnly

(* The answer is there, and the thread that waits for it gets it.           *)
LEMMA AnswerStep ==
  ASSUME ExecInv, Answer
  PROVE  ExecInv'
<1>1. /\ Tree /\ ExecTypes /\ ChainInv /\ MemInv /\ QueueInv /\ AskInv /\ WorkerInv /\ GeneratorInv
      /\ RecoverInv /\ Intact
  BY DEF ExecInv
<1>2. PICK b : b = executor.task.block
  OBVIOUS
<1>3. /\ executor.pc = "get" /\ executor \in Executor /\ worker \in Worker /\ generator \in Generator
      /\ tasks \in Seq(Task)
      /\ failed' = (failed \/ b \notin mem \cup disk)
      /\ executor' = [executor EXCEPT !.pc = "poll"]
      /\ UNCHANGED <<parent, path, arrived, mainChain, saved, mem, disk, states, recent, valid, boundary, tasks>>
  BY <1>1, <1>2 DEF Answer, ExecTypes
<1>4. /\ b \in mem /\ executor.task.for \in {"worker", "generator"} /\ worker.pc # "recover"
      /\ Awaited(executor.task)
      /\ \A i \in DOMAIN tasks : tasks[i].kind = "get" =>
            /\ Awaited(tasks[i]) /\ tasks[i].for \in {"worker", "generator"}
            /\ tasks[i].for # executor.task.for
            /\ \A j \in DOMAIN tasks \ {i} : tasks[j].kind = "get" => tasks[j].for # tasks[i].for
  BY <1>1, <1>2, <1>3 DEF RecoverInv, QueueInv, Ready, AskInv
<1>5. executor' \in Executor /\ executor'.pc = "poll"
  BY <1>3 DEF Executor
<1>6. Running = {}
  BY <1>3 DEF Running
<1>7. QueueInv' /\ Covered \subseteq Covered'
  BY <1>1, <1>3, <1>5, <1>6, ExecutorMoves
<1>8. MemInv'
  BY <1>1, <1>3, <1>4, Zenon DEF MemInv, Closed, Unwraps
<1>9. /\ AskInv' /\ worker' \in Worker /\ generator' \in Generator /\ worker'.pc = worker.pc
      /\ WorkerInv' /\ GeneratorInv'
  <2>1. CASE executor.task.for = "worker"
    <3>1. /\ worker' = [worker EXCEPT !.todo = Tail(@), !.asked = FALSE] /\ UNCHANGED generator
          /\ worker.pc = "wait" /\ worker.todo # << >> /\ Head(worker.todo) = b
      BY <2>1, <1>2, <1>4 DEF Answer, Awaited, Awaits
    <3>2. PICK s \in Seq(Blocks) : s = worker.todo
      BY <1>3 DEF Worker
    <3>3. /\ Tail(s) \in Seq(Blocks) /\ Range(Tail(s)) \subseteq Range(s)
          /\ Range(s) \subseteq {b} \cup Range(Tail(s))
      BY <3>1, <3>2, TailFacts
    <3>4. /\ worker' \in Worker /\ worker'.pc = "wait" /\ worker'.todo = Tail(s)
          /\ worker'.next = worker.next /\ worker'.to = worker.to
      <4>1. worker' = [worker EXCEPT !.todo = Tail(s), !.asked = FALSE]
        BY <3>1, <3>2
      <4>2. QED BY <4>1, <3>1, <3>3, <1>3, Zenon DEF Worker
    <3>5. \A i \in DOMAIN tasks : tasks[i].kind = "get" => AwaitedBy(worker', generator', tasks[i])
      BY <1>4, <2>1, <3>1 DEF Awaited, AwaitedBy, Awaits
    <3>6. AskInv'
      BY <1>3, <1>4, <1>5, <3>5 DEF AskInv, Awaited, AwaitedBy, Awaits
    <3>7. GeneratorInv'
      BY <1>1, <1>3, <1>7, <3>1, GeneratorFrame
    <3>8. WorkerInv'
      <4>1. /\ worker.next \in 1..Len(mainChain) /\ worker.to = ToStatePos(mainChain)
            /\ mainChain[worker.next] \in Covered /\ worker.next < worker.to
            /\ Range(s) \subseteq Covered
            /\ RewardReady(mainChain[worker.next + 1], mem \cup Range(s))
            /\ saved.chain[TopOf(saved.chain) + 1] \in Covered
        BY <1>1, <3>1, <3>2 DEF WorkerInv
      <4>2. RewardReady(mainChain[worker.next + 1], mem \cup Range(Tail(s)))
        BY <4>1, <3>3, <1>4, Zenon DEF RewardReady
      <4>3. RewardReady(mainChain[worker.next + 1], mem \cup Range(worker.todo))'
        BY <4>2, <1>3, <3>4, Zenon DEF RewardReady, Rewarded, DeferredOf, RewardBlock, Height, AncestorAt
      <4>4. /\ worker'.next \in 1..Len(mainChain') /\ worker'.to = ToStatePos(mainChain')
            /\ mainChain'[worker'.next] \in Covered' /\ worker'.next < worker'.to
            /\ Range(worker'.todo) \subseteq Covered'
            /\ saved'.chain[TopOf(saved'.chain) + 1] \in Covered'
        BY <4>1, <1>3, <1>7, <3>3, <3>4
      <4>5. QED BY <4>3, <4>4 DEF WorkerInv
    <3>9. QED BY <1>3, <3>1, <3>4, <3>6, <3>7, <3>8
  <2>2. CASE executor.task.for = "generator"
    <3>1. /\ generator' = [generator EXCEPT !.todo = Tail(@), !.asked = FALSE] /\ UNCHANGED worker
          /\ generator.pc # "idle" /\ generator.todo # << >> /\ Head(generator.todo) = b
      BY <2>2, <1>2, <1>4 DEF Answer, Awaited, Awaits
    <3>2. PICK s \in Seq(Blocks) : s = generator.todo
      BY <1>3 DEF Generator
    <3>3. /\ Tail(s) \in Seq(Blocks) /\ Range(Tail(s)) \subseteq Range(s)
          /\ Range(s) \subseteq {b} \cup Range(Tail(s))
      BY <3>1, <3>2, TailFacts
    <3>4. /\ generator' \in Generator /\ generator'.pc = generator.pc /\ generator'.todo = Tail(s)
          /\ generator'.parent = generator.parent
      <4>1. generator' = [generator EXCEPT !.todo = Tail(s), !.asked = FALSE]
        BY <3>1, <3>2
      <4>2. QED BY <4>1, <3>1, <3>3, <1>3, Zenon DEF Generator
    <3>5. \A i \in DOMAIN tasks : tasks[i].kind = "get" => AwaitedBy(worker', generator', tasks[i])
      BY <1>4, <2>2, <3>1 DEF Awaited, AwaitedBy, Awaits
    <3>6. AskInv'
      BY <1>3, <1>4, <1>5, <3>5 DEF AskInv, Awaited, AwaitedBy, Awaits
    <3>7. WorkerInv'
      BY <1>1, <1>3, <1>7, <3>1, WorkerFrame
    <3>8. GeneratorInv'
      <4>1. DeferredOf(generator.parent)' = DeferredOf(generator.parent)
        BY <1>3, <3>4 DEF DeferredOf, Height, AncestorAt
      <4>2. /\ Range(s) \subseteq Covered /\ DeferredOf(generator.parent) \in Covered
            /\ generator.pc = "blame" => DeferredOf(generator.parent) \in mem \cup Range(s)
        BY <1>1, <3>1, <3>2 DEF GeneratorInv
      <4>3. /\ Range(generator'.todo) \subseteq Covered' /\ DeferredOf(generator.parent) \in Covered'
            /\ generator'.pc = "blame" => DeferredOf(generator.parent) \in mem' \cup Range(generator'.todo)
        BY <4>2, <1>3, <1>4, <1>7, <3>3, <3>4
      <4>4. QED BY <4>1, <4>3 DEF GeneratorInv
    <3>9. QED BY <1>3, <3>1, <3>4, <3>6, <3>7, <3>8
  <2>3. QED BY <1>4, <2>1, <2>2
<1>10. ExecTypes'
  BY <1>1, <1>3, <1>5, <1>9, SameTypes DEF ExecTypes
<1>11. ChainInv'
  BY <1>1, <1>3, <1>9, ChainFrame
<1>12. RecoverInv' /\ Intact'
  BY <1>1, <1>3, <1>4, <1>9 DEF RecoverInv, Intact
<1>13. Tree' /\ StorageInv' /\ FarInv' /\ BoundaryInv'
  BY <1>3, Frame
<1>14. QED BY <1>7, <1>8, <1>9, <1>10, <1>11, <1>12, <1>13 DEF ExecInv
============================================================================
