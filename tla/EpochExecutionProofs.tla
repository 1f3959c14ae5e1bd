------------------------ MODULE EpochExecutionProofs ------------------------
(***************************************************************************)
(* No thread of the execution of epochs meets a value that is not there,    *)
(* and no epoch builds on a state a crash has torn, for any tree of blocks, *)
(* any Deferred and RewardEpochs and any number of crashes.                 *)
(***************************************************************************)
EXTENDS EpochStepProofs, FiniteSetTheorems

-----------------------------------------------------------------------------
(* Crash and restart                                                        *)

(* A crash undoes the last writes only, so what is left of the states is    *)
(* still complete from the genesis upwards.                                 *)
LEMMA CrashStorage ==
  ASSUME Tree, ExecTypes, StorageInv, FarInv, UNCHANGED <<parent, path>>,
         NEW n \in 0..Len(recent), states' \in Damaged(n), recent' = SubSeq(recent, 1, n)
  PROVE  /\ StorageInv' /\ FarInv'
         /\ states' \in [Blocks -> {"none", "torn", "ok"}] /\ recent' \in Seq(DOMAIN parent)
<1>1. /\ states \in [Blocks -> {"none", "torn", "ok"}] /\ recent \in Seq(DOMAIN parent)
      /\ DOMAIN parent \subseteq Blocks /\ Genesis \notin DOMAIN parent
  BY TreeFacts DEF ExecTypes, Blocks
<1>2. PICK L : L = Len(recent)
  OBVIOUS
<1>3. L \in Nat /\ DOMAIN recent = 1..L /\ n \in 0..L
  BY <1>1, <1>2
<1>4. PICK hit : hit = Range(SubSeq(recent, n + 1, Len(recent)))
  OBVIOUS
<1>5. hit = {recent[i] : i \in (n + 1)..L}
  <2>1. n + 1 \in 1..(L + 1) /\ L \in 0..L
    BY <1>3
  <2>2. /\ Len(SubSeq(recent, n + 1, L)) = L - n
        /\ \A i \in 1..(L - n) : SubSeq(recent, n + 1, L)[i] = recent[n + i]
        /\ DOMAIN SubSeq(recent, n + 1, L) = 1..(L - n)
    BY <1>1, <1>2, <1>3, <2>1
  <2>3. \A i \in (n + 1)..L : i - n \in 1..(L - n) /\ n + (i - n) = i
    BY <1>3
  <2>4. \A i \in 1..(L - n) : n + i \in (n + 1)..L
    BY <1>3
  <2>5. hit = {SubSeq(recent, n + 1, L)[i] : i \in 1..(L - n)}
    BY <1>2, <1>4, <2>2, Zenon DEF Range
  <2>6. \A i \in (n + 1)..L : recent[i] \in hit
    <3>1. ASSUME NEW i \in (n + 1)..L PROVE recent[i] = SubSeq(recent, n + 1, L)[i - n]
      BY <2>2, <2>3, Zenon
    <3>2. QED BY <2>3, <2>5, <3>1, Zenon
  <2>7. \A x \in hit : \E i \in (n + 1)..L : x = recent[i]
    BY <2>2, <2>4, <2>5, Zenon
  <2>8. QED BY <2>6, <2>7
<1>6. /\ recent' \in Seq(DOMAIN parent) /\ Len(recent') = n /\ DOMAIN recent' = 1..n
      /\ \A i \in 1..n : recent'[i] = recent[i]
  BY <1>1, <1>2, <1>3
<1>7. PICK f \in [hit -> {"none", "torn"}] :
        states' = [b \in Blocks |-> IF b \in hit THEN f[b] ELSE states[b]]
  BY <1>4 DEF Damaged
<1>8. /\ states' \in [Blocks -> {"none", "torn", "ok"}]
      /\ \A x \in Blocks : x \in hit => states'[x] # "ok"
      /\ \A x \in Blocks : x \notin hit => states'[x] = states[x]
  BY <1>1, <1>7
<1>9. \A i \in 1..L : states[recent[i]] = "ok" /\ recent[i] \in Blocks
  BY <1>1, <1>3 DEF StorageInv
<1>10. ASSUME NEW i \in 1..L, NEW z \in Blocks, Above(recent[i], z), states[z] = "ok"
       PROVE  \E j \in 1..L : recent[j] = z /\ j - i >= Height(z) - Height(recent[i])
  BY <1>3, <1>10 DEF StorageInv
<1>11. \A i \in 1..n : recent[i] \notin hit
  BY <1>3, <1>5 DEF StorageInv
<1>12. StorageInv'
  <2>1. states'[Genesis] = "ok"
    BY <1>1, <1>3, <1>5, <1>8 DEF StorageInv, Blocks
  <2>2. ASSUME NEW z \in Blocks \ {Genesis}, states'[z] = "ok" PROVE states'[parent[z]] = "ok"
    <3>1. states[z] = "ok" /\ z \notin hit
      BY <2>2, <1>8
    <3>2. parent[z] \in Blocks /\ states[parent[z]] = "ok" /\ Above(parent[z], z)
          /\ Height(parent[z]) = Height(z) - 1 /\ Height(z) \in Nat
      BY <3>1, AboveFacts DEF StorageInv
    <3>3. parent[z] \notin hit
      <4>1. SUFFICES ASSUME NEW i \in (n + 1)..L, parent[z] = recent[i] PROVE FALSE
        BY <1>5
      <4>2. i \in 1..L
        BY <1>3
      <4>3. PICK j \in 1..L : recent[j] = z /\ j - i >= Height(z) - Height(parent[z])
        BY <3>1, <3>2, <4>1, <4>2, <1>10
      <4>4. j \in (n + 1)..L
        BY <4>3, <3>2, <1>3
      <4>5. QED BY <4>3, <4>4, <3>1, <1>5
    <3>4. QED BY <3>2, <3>3, <1>8
  <2>3. Len(recent') <= Deferred
    BY <1>2, <1>3, <1>6, ExecutionAssumption DEF StorageInv
  <2>4. ASSUME NEW i \in DOMAIN recent'
        PROVE  /\ states'[recent'[i]] = "ok"
               /\ \A j \in DOMAIN recent' \ {i} : recent'[i] # recent'[j]
    <3>1. i \in 1..n /\ i \in 1..L /\ recent'[i] = recent[i]
      BY <1>3, <1>6
    <3>2. states'[recent'[i]] = "ok"
      BY <3>1, <1>8, <1>9, <1>11
    <3>3. \A j \in 1..n : j \in DOMAIN recent /\ recent'[j] = recent[j]
      BY <1>3, <1>6
    <3>4. \A j \in DOMAIN recent \ {i} : recent[i] # recent[j]
      BY <3>1, <1>3 DEF StorageInv
    <3>5. QED BY <3>1, <3>2, <3>3, <3>4, <1>6
  <2>5. ASSUME NEW i \in DOMAIN recent', NEW z \in Blocks, Above(recent'[i], z), states'[z] = "ok"
        PROVE  \E j \in DOMAIN recent' : recent'[j] = z /\ j - i >= Height(z) - Height(recent'[i])
    <3>1. i \in 1..n /\ i \in 1..L /\ recent'[i] = recent[i]
      BY <1>3, <1>6
    <3>2. states[z] = "ok" /\ z \notin hit
      BY <2>5, <1>8
    <3>3. PICK j \in 1..L : recent[j] = z /\ j - i >= Height(z) - Height(recent[i])
      BY <3>1, <3>2, <2>5, <1>10, Zenon
    <3>4. j \in 1..n
      BY <3>2, <3>3, <1>3, <1>5
    <3>5. QED BY <3>1, <3>3, <3>4, <1>6, Zenon
  <2>6. QED BY <2>1, <2>2, <2>3, <2>4, <2>5, Zenon DEF StorageInv, Above, Height, AncestorAt, Blocks
<1>13. FarInv'
  <2>1. ASSUME NEW x \in Blocks, NEW z \in Blocks, states'[x] # "ok" \/ x \in Range(recent'),
               Above(x, z), Height(z) >= Height(x) + Deferred
        PROVE  states'[z] = "none"
    <3>1. states[x] # "ok" \/ x \in Range(recent)
      BY <2>1, <1>3, <1>5, <1>6, <1>8 DEF Range
    <3>2. states[z] = "none"
      BY <3>1, <2>1 DEF FarInv
    <3>3. z \notin hit
      BY <3>2, <1>3, <1>5, <1>9
    <3>4. QED BY <3>2, <3>3, <1>8
  <2>2. QED BY <2>1, SameTree DEF FarInv
<1>14. QED BY <1>6, <1>8, <1>12, <1>13

(* What StorageInv and FarInv say of the states st.                         *)
Grounded(st) ==
  /\ st[Genesis] = "ok"
  /\ \A b \in Blocks \ {Genesis} : st[b] = "ok" => st[parent[b]] = "ok"
  /\ \A x, z \in Blocks : st[x] # "ok" /\ Above(x, z) /\ Height(z) >= Height(x) + Deferred => st[z] = "none"

(* get_force_compute_index trusts only complete states: the block below     *)
(* more than Deferred states in a row, and with it all before it.           *)
LEMMA Trusted ==
  ASSUME Tree, NEW c \in Blocks, NEW found, NEW st, Grounded(st),
         NEW force \in ForceComputeIndex(path[c], found, st)
  PROVE  /\ force \in Nat /\ force >= 1
         /\ \A h \in Nat : h < force => h + 1 \in 1..Len(path[c]) /\ st[path[c][h + 1]] = "ok"
<1>1. /\ path[c] \in Seq(Blocks) /\ Len(path[c]) \in Nat /\ Len(path[c]) >= 1 /\ path[c][1] = Genesis
      /\ \A i \in 1..Len(path[c]) : path[c][i] \in Blocks
  BY Chains DEF Chain
<1>2. PICK heights : heights = {h \in 1..(EndIndex(path[c]) - 1) : path[c][h + 1] \in found}
  BY Zenon
<1>3. CASE force = 1
  BY <1>1, <1>3 DEF Grounded
<1>4. CASE force # 1
  <2>0. PICK h \in heights :
          /\ force = h + 1
          /\ Cardinality({i \in heights : i >= h /\ \A j \in heights :
                            j >= h /\ j <= i => st[path[c][j + 1]] # "none"}) > Deferred
    BY <1>2, <1>4, Zenon DEF ForceComputeIndex
  <2>1. PICK intact : /\ Cardinality(intact) > Deferred
                      /\ intact = {i \in heights : i >= h /\ \A j \in heights :
                                      j >= h /\ j <= i => st[path[c][j + 1]] # "none"}
    BY <2>0
  <2>2. \A i \in heights : i \in Nat /\ i >= 1 /\ i + 1 \in 1..Len(path[c])
    BY <1>1, <1>2, ExecutionAssumption DEF EndIndex
  <2>3. PICK i \in intact : i >= h + Deferred
    <3>1. SUFFICES ASSUME \A i \in intact : ~(i >= h + Deferred) PROVE FALSE
      OBVIOUS
    <3>2. h \in Int /\ (h + Deferred) - 1 \in Int /\ Deferred \in Nat /\ Deferred > 1
      BY <2>2, ExecutionAssumption
    <3>3. intact \subseteq h..((h + Deferred) - 1)
      <4>1. ASSUME NEW i \in intact PROVE i \in h..((h + Deferred) - 1)
        <5>1. i \in Nat /\ i >= h /\ ~(i >= h + Deferred)
          BY <2>1, <2>2, <3>1
        <5>2. QED BY <5>1, <3>2
      <4>2. QED BY <4>1
    <3>4. IsFiniteSet(h..((h + Deferred) - 1)) /\ Cardinality(h..((h + Deferred) - 1)) = Deferred
      BY <3>2, FS_Interval
    <3>5. Cardinality(intact) <= Deferred /\ Cardinality(intact) \in Nat
      <4>1. IsFiniteSet(intact) /\ Cardinality(intact) <= Cardinality(h..((h + Deferred) - 1))
        BY <3>3, <3>4, FS_Subset, Zenon
      <4>2. QED BY <3>4, <4>1, FS_CardinalityType
    <3>6. QED BY <2>1, <3>2, <3>5
  <2>4. i \in heights /\ h \in Nat /\ i \in Nat /\ h + 1 \in 1..Len(path[c]) /\ i + 1 \in 1..Len(path[c])
    BY <2>1, <2>2, <2>3
  <2>5. st[path[c][i + 1]] # "none"
    BY <2>1, <2>3, <2>4
  <2>6. PICK x, z : x = path[c][h + 1] /\ z = path[c][i + 1]
    OBVIOUS
  <2>7. /\ x \in Blocks /\ z \in Blocks /\ Height(x) = h /\ Height(z) = i /\ Len(path[x]) = h + 1
        /\ \A j \in 1..(i + 1) : path[z][j] = path[c][j]
        /\ \A j \in 1..(h + 1) : path[x][j] = path[c][j]
    <3>1. /\ Len(path[path[c][h + 1]]) = h + 1 /\ Height(path[c][h + 1]) = (h + 1) - 1
          /\ \A j \in 1..(h + 1) : path[path[c][h + 1]][j] = path[c][j]
      BY <2>4, Neighbours
    <3>2. /\ Height(path[c][i + 1]) = (i + 1) - 1
          /\ \A j \in 1..(i + 1) : path[path[c][i + 1]][j] = path[c][j]
      BY <2>4, Neighbours
    <3>3. QED BY <2>4, <2>6, <1>1, <3>1, <3>2
  <2>8. h <= i /\ h + 1 \in 1..(i + 1)
    BY <2>3, <2>4, ExecutionAssumption
  <2>9. Above(x, z)
    BY <2>6, <2>7, <2>8 DEF Above, AncestorAt
  <2>10. st[x] = "ok"
    BY <2>3, <2>5, <2>6, <2>7, <2>9 DEF Grounded
  <2>11. PICK S : S = {y \in Blocks : st[y] = "ok"}
    BY Zenon
  <2>12. Closed(S)
    <3>1. ASSUME NEW y \in S \ {Genesis} PROVE parent[y] \in S
      BY <2>11, <3>1, AboveFacts DEF Grounded
    <3>2. QED BY <3>1 DEF Closed
  <2>13. \A j \in 1..(h + 1) : path[c][j] \in S
    BY <2>7, <2>10, <2>11, <2>12, ClosedChain
  <2>14. \A g \in Nat : g < force => g + 1 \in 1..(h + 1) /\ g + 1 \in 1..Len(path[c])
    BY <2>0, <2>4
  <2>15. QED BY <2>0, <2>4, <2>11, <2>13, <2>14
<1>5. QED BY <1>3, <1>4

(* The commitments that are loaded are those of a beginning of the chain.   *)
LEMMA LoadedFacts ==
  ASSUME Tree, NEW c \in Blocks, NEW db
  PROVE  /\ Loaded(path[c], db) \subseteq {path[c][h + 1] : h \in 0..TopOf(path[c])}
         /\ Loaded(path[c], db) \subseteq Blocks
         /\ Closed(Loaded(path[c], db) \cup {Genesis})
<1>1. /\ Len(path[c]) \in Nat /\ Len(path[c]) >= 1 /\ path[c][1] = Genesis
      /\ \A i \in 1..Len(path[c]) : path[c][i] \in Blocks
  BY Chains DEF Chain
<1>2. PICK e : e = EndIndex(path[c])
  OBVIOUS
<1>3. e = ToStatePos(path[c])
  BY <1>2 DEF EndIndex, ToStatePos
<1>4. /\ e \in Nat /\ TopOf(path[c]) \in Nat
      /\ \A h \in 1..(e - 1) : h \in 0..TopOf(path[c]) /\ h + 1 \in 1..Len(path[c])
  <2>1. /\ ToStatePos(path[c]) \in Nat /\ TopOf(path[c]) \in Nat
        /\ ToStatePos(path[c]) >= 2 =>
             ToStatePos(path[c]) = TopOf(path[c]) + 1 /\ ToStatePos(path[c]) < Len(path[c])
    BY <1>1, TopFacts
  <2>2. QED BY <2>1, <1>1, <1>3
<1>5. PICK good : good = {h \in 1..(e - 1) : \A i \in 1..h : path[c][i + 1] \in db}
  BY Zenon
<1>6. Loaded(path[c], db) = {path[c][h + 1] : h \in good}
  BY <1>2, <1>5 DEF Loaded
<1>7. good \subseteq 1..(e - 1)
  BY <1>5
<1>8. ASSUME NEW h \in good PROVE parent[path[c][h + 1]] \in Loaded(path[c], db) \cup {Genesis}
  <2>1. PICK m : m = h + 1
    OBVIOUS
  <2>2. h \in 1..(e - 1) /\ m \in 1..Len(path[c]) /\ m > 1 /\ m - 1 = h
    BY <2>1, <1>4, <1>7
  <2>3. parent[path[c][m]] = path[c][m - 1]
    BY <2>2, Neighbours
  <2>4. CASE h = 1
    BY <2>1, <2>2, <2>3, <2>4, <1>1
  <2>5. CASE h # 1
    <3>1. h - 1 \in 1..(e - 1) /\ (h - 1) + 1 = h /\ \A i \in 1..(h - 1) : i \in 1..h
      BY <2>2, <2>5, <1>4
    <3>2. h - 1 \in good
      BY <3>1, <1>5
    <3>3. QED BY <2>1, <2>2, <2>3, <3>1, <3>2, <1>6
  <2>6. QED BY <2>4, <2>5
<1>9. QED BY <1>1, <1>4, <1>6, <1>7, <1>8, Zenon DEF Closed

(* After a crash the epochs below the first one that is computed again have *)
(* a commitment and a complete state.                                       *)
LEMMA CrashStep ==
  ASSUME ExecInv, Crash
  PROVE  ExecInv'
<1>1. /\ Tree /\ ExecTypes /\ ChainInv /\ MemInv /\ StorageInv /\ FarInv
  BY DEF ExecInv
<1>2. PICK chain : chain = saved.chain
  OBVIOUS
<1>3. PICK found : found = Loaded(chain, disk')
  OBVIOUS
<1>4. PICK lost : lost = {h \in 1..(EndIndex(chain) - 1) : chain[h + 1] \notin found}
  BY Zenon
<1>5. /\ arrived' = saved.blocks /\ mainChain' = chain /\ mem' = found \cup {Genesis}
      /\ boundary' = [chain |-> chain, upper |-> 0, opt |-> NULL]
      /\ valid' = {Genesis} /\ tasks' = << >> /\ executor' = [pc |-> "poll", task |-> NoTask]
      /\ generator' = [pc |-> "idle", parent |-> Genesis, todo |-> << >>, asked |-> FALSE]
      /\ UNCHANGED <<parent, path, saved, failed>>
  BY <1>2, <1>3, Zenon DEF Crash
<1>6. PICK n \in 0..Len(recent) : states' \in Damaged(n) /\ recent' = SubSeq(recent, 1, n)
  BY Zenon DEF Crash
<1>7. disk' \subseteq Blocks
  BY <1>1, Zenon DEF Crash, ExecTypes
<1>8. PICK force \in ForceComputeIndex(chain, found, states') :
        worker' = [pc |-> "recover", next |-> 1, to |-> EndIndex(chain),
                   from |-> Min({force} \cup lost), todo |-> << >>, asked |-> FALSE]
  BY <1>2, <1>3, <1>4, Zenon DEF Crash
<1>9. PICK c \in Blocks : chain = path[c]
  BY <1>2, SavedPath
<1>10. Len(chain) \in Nat /\ Len(chain) >= 1 /\ chain[1] = Genesis
  BY <1>2, SavedPath
<1>11. /\ StorageInv' /\ FarInv'
       /\ states' \in [Blocks -> {"none", "torn", "ok"}] /\ recent' \in Seq(DOMAIN parent)
  BY <1>1, <1>5, <1>6, CrashStorage
<1>12. Blocks' = Blocks /\ Tree' /\ \A x : Height(x)' = Height(x)
  BY <1>1, <1>5, SameTree, Zenon
<1>13. /\ states'[Genesis] = "ok"
       /\ \A b \in Blocks \ {Genesis} : states'[b] = "ok" => states'[parent[b]] = "ok"
  BY <1>5, <1>11, <1>12, Zenon DEF StorageInv
<1>14. \A x, z \in Blocks : states'[x] # "ok" /\ Above(x, z) /\ Height(z) >= Height(x) + Deferred
                              => states'[z] = "none"
  BY <1>5, <1>11, <1>12, Zenon DEF FarInv, Above, Height, AncestorAt
<1>15. /\ force \in Nat /\ force >= 1
       /\ \A h \in Nat : h < force => h + 1 \in 1..Len(chain) /\ states'[chain[h + 1]] = "ok"
  <2>1. PICK st : st = states'
    OBVIOUS
  <2>2. Grounded(st)
    BY <2>1, <1>13, <1>14, Zenon DEF Grounded
  <2>3. force \in ForceComputeIndex(path[c], found, st)
    BY <2>1, <1>8, <1>9
  <2>4. /\ force \in Nat /\ force >= 1
        /\ \A h \in Nat : h < force => h + 1 \in 1..Len(path[c]) /\ st[path[c][h + 1]] = "ok"
    BY <1>1, <2>2, <2>3, Trusted, Zenon
  <2>5. QED BY <2>1, <2>4, <1>9
<1>16. PICK from : from = Min({force} \cup lost)
  OBVIOUS
<1>17. /\ ToStatePos(chain) \in Nat /\ TopOf(chain) \in Nat /\ EndIndex(chain) = ToStatePos(chain)
  BY <1>10, TopFacts DEF EndIndex, ToStatePos
<1>18. from \in Nat /\ from <= force /\ \A h \in lost : from <= h
  <2>1. {force} \cup lost \in SUBSET Nat /\ {force} \cup lost # {}
    BY <1>4, <1>15, <1>17
  <2>2. QED BY <2>1, <1>16, MinFacts, Zenon
<1>19. /\ worker' \in Worker /\ worker'.pc = "recover" /\ worker'.next = 1 /\ worker'.to = ToStatePos(chain)
       /\ worker'.from = from
  <2>1. << >> \in Seq(Blocks)
    OBVIOUS
  <2>2. QED BY <2>1, <1>8, <1>16, <1>17, <1>18, Zenon DEF Worker
<1>20. /\ found \subseteq {chain[h + 1] : h \in 0..TopOf(chain)} /\ found \subseteq Blocks
       /\ Closed(found \cup {Genesis}) /\ Genesis \in Blocks
  BY <1>1, <1>3, <1>9, LoadedFacts, Zenon DEF Blocks
<1>21. ExecTypes'
  <2>1. << >> \in Seq(Blocks) /\ NULL \in {NULL}
    OBVIOUS
  <2>2. executor' \in Executor
    BY <1>5 DEF Executor, Task, NoTask
  <2>3. generator' \in Generator
    BY <1>5, <1>20, <2>1, Zenon DEF Generator
  <2>4. chain \in Seq(Blocks) /\ saved \in Saved /\ saved.blocks \subseteq Blocks
    BY <1>1, <1>2, Zenon DEF ExecTypes, Saved
  <2>5. boundary' \in Boundary
    BY <1>5, <2>4, Zenon DEF Boundary
  <2>6. << >> \in Seq(Task)
    OBVIOUS
  <2>7. QED BY <1>5, <1>7, <1>11, <1>19, <1>20, <2>2, <2>3, <2>4, <2>5, <2>6, SameTypes, Zenon DEF ExecTypes
<1>22. ChainInv'
  BY <1>1, <1>2, <1>5, Zenon DEF ChainInv, Leads, Closed, Leaves
<1>23. MemInv'
  BY <1>1, <1>5, <1>20, Zenon DEF MemInv, Closed, Unwraps
<1>24. BoundaryInv'
  BY <1>5, <1>10 DEF BoundaryInv
<1>25. executor'.pc = "poll" /\ DOMAIN tasks' = {} /\ generator'.pc = "idle"
  BY <1>5
<1>26. QueueInv' /\ AskInv'
  BY <1>25, Zenon DEF QueueInv, AskInv
<1>27. WorkerInv' /\ GeneratorInv' /\ Intact'
  BY <1>19, <1>25, Zenon DEF WorkerInv, GeneratorInv, Intact
<1>28. RecoverInv'
  <2>1. worker'.next \in 1..(TopOf(mainChain') + 1) /\ boundary'.upper = worker'.next - 1
    BY <1>5, <1>17, <1>19
  <2>2. mem' \subseteq {mainChain'[h + 1] : h \in 0..TopOf(mainChain')}
    <3>1. Genesis = chain[0 + 1] /\ 0 \in 0..TopOf(chain)
      BY <1>10, <1>17
    <3>2. QED BY <3>1, <1>5, <1>20, Zenon
  <2>3. states'[mainChain'[worker'.next]] = "ok"
    BY <1>5, <1>10, <1>13, <1>19, Zenon
  <2>4. ASSUME NEW h \in 1..(worker'.to - 1), h < worker'.from
        PROVE  mainChain'[h + 1] \in mem' /\ states'[mainChain'[h + 1]] = "ok"
    <3>1. h \in Nat /\ h < force /\ h \notin lost /\ h \in 1..(EndIndex(chain) - 1)
      BY <2>4, <1>15, <1>17, <1>18, <1>19
    <3>2. chain[h + 1] \in found /\ states'[chain[h + 1]] = "ok"
      BY <3>1, <1>4, <1>15
    <3>3. QED BY <3>2, <1>5, Zenon
  <2>5. QED BY <1>5, <1>19, <1>25, <2>1, <2>2, <2>3, <2>4, Zenon DEF RecoverInv, TopOf, ToStatePos
<1>29. QED BY <1>11, <1>12, <1>21, <1>22, <1>23, <1>24, <1>26, <1>27, <1>28 DEF ExecInv

(* The loop of the recovery keeps the boundary one epoch behind the next.   *)
LEMMA RecoverStep ==
  ASSUME ExecInv, Recover
  PROVE  ExecInv'
<1>1. /\ Tree /\ ExecTypes /\ ChainInv /\ MemInv /\ BoundaryInv /\ QueueInv /\ AskInv /\ RecoverInv
      /\ StorageInv /\ FarInv
  BY DEF ExecInv
<1>2. PICK n : n = worker.next
  OBVIOUS
<1>3. PICK b : b = mainChain[n + 1]
  OBVIOUS
<1>4. PICK up : up = IF b \in mem THEN boundary.upper + 1 ELSE boundary.upper
  OBVIOUS
<1>5. /\ worker.pc = "recover" /\ n < worker.to /\ worker \in Worker /\ boundary \in Boundary
      /\ worker' = [worker EXCEPT !.next = @ + 1]
      /\ UNCHANGED <<parent, path, arrived, mainChain, saved, tasks, executor, generator>>
  BY <1>1, <1>2 DEF Recover, ExecTypes
<1>6. \/ /\ n < worker.from /\ boundary' = [boundary EXCEPT !.upper = up]
         /\ UNCHANGED <<mem, disk, states, recent, valid, failed>>
      \/ /\ n >= worker.from /\ Compute(b)
         /\ boundary' = [boundary EXCEPT !.upper = IF b \in mem THEN up ELSE AdjustUpperBound(b)]
         /\ IF RewardWaits(b) = << >> /\ parent[b] \in mem
            THEN RewardInfo(b) ELSE failed' = TRUE /\ UNCHANGED valid
  BY <1>2, <1>3, <1>4 DEF Recover
<1>7. /\ tasks = << >> /\ executor.pc \in {"poll", "try", "recv"} /\ generator.pc = "idle"
      /\ worker.to = ToStatePos(mainChain)
      /\ n \in 1..(TopOf(mainChain) + 1) /\ boundary.upper = n - 1
      /\ mem \subseteq {mainChain[h + 1] : h \in 0..TopOf(mainChain)}
      /\ states[mainChain[n]] = "ok"
      /\ \A h \in 1..(worker.to - 1) : h < worker.from =>
            mainChain[h + 1] \in mem /\ states[mainChain[h + 1]] = "ok"
  BY <1>1, <1>2, <1>5 DEF RecoverInv
<1>8. PICK c \in Blocks : mainChain = path[c]
  BY MainPath
<1>9. Len(mainChain) \in Nat /\ Len(mainChain) >= 1
  BY MainPath
<1>10. /\ worker.to = TopOf(mainChain) + 1 /\ TopOf(mainChain) \in Nat /\ n \in Nat /\ n >= 1
       /\ n \in 1..(worker.to - 1) /\ n + 1 \in 1..Len(mainChain) /\ n + 1 <= TopOf(mainChain) + 1
       /\ n < Len(mainChain)
  <2>1. /\ ToStatePos(mainChain) \in Nat /\ TopOf(mainChain) \in Nat
        /\ ToStatePos(mainChain) >= 2 =>
             ToStatePos(mainChain) = TopOf(mainChain) + 1 /\ ToStatePos(mainChain) < Len(mainChain)
    BY <1>9, TopFacts
  <2>2. QED BY <2>1, <1>5, <1>7, <1>9
<1>11. /\ boundary.chain = mainChain /\ mainChain[n] \in mem
       /\ boundary.opt # NULL => boundary.opt < Len(mainChain)
  <2>1. (n - 1) + 1 = n
    BY <1>10
  <2>2. QED BY <1>1, <1>7, <2>1 DEF BoundaryInv
<1>12. /\ b \in Blocks /\ b # Genesis /\ b \in DOMAIN parent /\ parent[b] = mainChain[n] /\ Height(b) = n
       /\ b = path[c][n + 1]
  <2>1. PICK m : m = n + 1
    OBVIOUS
  <2>2. m \in 1..Len(path[c]) /\ m > 1 /\ m - 1 = n
    BY <2>1, <1>8, <1>10
  <2>3. /\ path[c][m] # Genesis /\ parent[path[c][m]] = path[c][m - 1] /\ Height(path[c][m]) = m - 1
        /\ path[c][m] \in DOMAIN parent
    BY <1>1, <2>2, Neighbours
  <2>4. path[c][m] \in Blocks
    BY <2>2, <1>8, MainPath
  <2>5. QED BY <2>1, <2>2, <2>3, <2>4, <1>3, <1>8
<1>13. /\ StorageInv' /\ FarInv' /\ mem \subseteq mem' /\ mem' \subseteq mem \cup {b} /\ b \in mem'
       /\ disk' \subseteq Blocks /\ valid' \subseteq Blocks /\ Genesis \in valid' /\ ~failed'
       /\ states' \in [Blocks -> {"none", "torn", "ok"}] /\ recent' \in Seq(DOMAIN parent)
       /\ states'[b] = "ok" /\ \A x \in Blocks : states[x] = "ok" => states'[x] = "ok"
       /\ boundary' = [boundary EXCEPT !.upper = n]
  <2>1. CASE /\ n < worker.from /\ boundary' = [boundary EXCEPT !.upper = up]
             /\ UNCHANGED <<mem, disk, states, recent, valid, failed>>
    <3>1. b \in mem /\ states[b] = "ok"
      BY <2>1, <1>3, <1>7, <1>10
    <3>2. up = n
      BY <3>1, <1>4, <1>7, <1>10
    <3>3. StorageInv' /\ FarInv'
      BY <1>5, <2>1, Frame
    <3>4. QED BY <3>1, <3>2, <3>3, <2>1, <1>1 DEF ExecTypes, MemInv, Unwraps
  <2>2. CASE /\ n >= worker.from /\ Compute(b)
             /\ boundary' = [boundary EXCEPT !.upper = IF b \in mem THEN up ELSE AdjustUpperBound(b)]
             /\ IF RewardWaits(b) = << >> /\ parent[b] \in mem
                THEN RewardInfo(b) ELSE failed' = TRUE /\ UNCHANGED valid
    <3>1. /\ StorageInv' /\ FarInv'
          /\ states' \in [Blocks -> {"none", "torn", "ok"}] /\ recent' \in Seq(DOMAIN parent)
          /\ states'[b] = "ok" /\ \A x \in Blocks : states[x] = "ok" => states'[x] = "ok"
      BY <1>1, <1>5, <1>7, <1>12, <2>2, ComputeStorage
    <3>2. mem' = mem \cup {b} /\ disk' = disk \cup {b}
      BY <2>2 DEF Compute
    <3>3. AdjustUpperBound(b) = n
      <4>1. boundary.upper + 1 = n /\ boundary.upper + 2 = n + 1
        BY <1>7, <1>10
      <4>2. QED BY <4>1, <1>3, <1>10, <1>11, <1>12, Zenon DEF AdjustUpperBound
    <3>4. up = n \/ b \notin mem
      BY <1>4, <1>7, <1>10
    <3>5. Closed(mem)
      BY <1>1 DEF MemInv
    <3>6. Rewarded(b) => RewardBlock(b) \in Blocks /\ DeferredOf(RewardBlock(b)) \in mem
      BY <1>1, <1>8, <1>10, <1>11, <1>12, <3>5, RewardBelow
    <3>7. /\ RewardWaits(b) = << >>
          /\ RewardInfo(b) => Genesis \in valid' /\ valid' \subseteq Blocks /\ ~failed'
      BY <1>1, <3>6, RewardRuns DEF ExecTypes
    <3>8. RewardInfo(b)
      BY <2>2, <3>7, <1>11, <1>12
    <3>9. boundary' = [boundary EXCEPT !.upper = n]
      BY <2>2, <3>3, <3>4
    <3>10. QED BY <3>1, <3>2, <3>7, <3>8, <3>9, <1>1, <1>12 DEF ExecTypes
  <2>3. QED BY <1>6, <2>1, <2>2, Zenon
<1>14. /\ boundary' \in Boundary /\ boundary'.upper = n /\ boundary'.chain = mainChain
       /\ boundary'.opt = boundary.opt
  BY <1>5, <1>10, <1>11, <1>13, Zenon DEF Boundary
<1>15. /\ worker' \in Worker /\ worker'.pc = "recover" /\ worker'.next = n + 1 /\ worker'.to = worker.to
       /\ worker'.from = worker.from
  <2>1. n + 1 \in Nat
    BY <1>10
  <2>2. worker' = [worker EXCEPT !.next = n + 1]
    BY <1>2, <1>5
  <2>3. QED BY <2>1, <2>2, <1>5 DEF Worker
<1>16. ExecTypes'
  <2>1. mem' \subseteq Blocks
    BY <1>1, <1>12, <1>13 DEF ExecTypes
  <2>2. QED BY <1>1, <1>5, <1>13, <1>14, <1>15, <2>1, SameTypes DEF ExecTypes
<1>17. ChainInv' /\ Tree'
  BY <1>1, <1>5, <1>15, ChainFrame, Frame
<1>18. MemInv'
  BY <1>1, <1>5, <1>11, <1>12, <1>13 DEF MemInv, Closed, Unwraps
<1>19. BoundaryInv'
  BY <1>3, <1>5, <1>10, <1>11, <1>13, <1>14 DEF BoundaryInv
<1>20. QueueInv' /\ AskInv'
  <2>1. Running = {}
    BY <1>7 DEF Running
  <2>2. QueueInv'
    BY <1>1, <1>5, <1>7, <1>13, <2>1, ExecutorMoves
  <2>3. AskInv'
    BY <1>1, <1>5, AskQuiet
  <2>4. QED BY <2>2, <2>3
<1>21. WorkerInv' /\ GeneratorInv' /\ Intact'
  BY <1>5, <1>7, <1>15 DEF WorkerInv, GeneratorInv, Intact
<1>22. RecoverInv'
  <2>1. n + 1 \in 1..(TopOf(mainChain) + 1) /\ n = (n + 1) - 1
    BY <1>10
  <2>2. mem' \subseteq {mainChain[h + 1] : h \in 0..TopOf(mainChain)}
    <3>1. n \in 0..TopOf(mainChain)
      BY <1>10
    <3>2. QED BY <3>1, <1>3, <1>7, <1>13
  <2>3. states'[mainChain[n + 1]] = "ok"
    BY <1>3, <1>13
  <2>4. ASSUME NEW h \in 1..(worker.to - 1), h < worker.from
        PROVE  mainChain[h + 1] \in mem' /\ states'[mainChain[h + 1]] = "ok"
    <3>1. mainChain[h + 1] \in mem /\ states[mainChain[h + 1]] = "ok"
      BY <2>4, <1>7
    <3>2. mainChain[h + 1] \in Blocks
      BY <3>1, <1>1 DEF ExecTypes
    <3>3. QED BY <3>1, <3>2, <1>13
  <2>5. QED BY <1>5, <1>7, <1>14, <1>15, <2>1, <2>2, <2>3, <2>4 DEF RecoverInv, TopOf, ToStatePos
<1>23. QED BY <1>13, <1>16, <1>17, <1>18, <1>19, <1>20, <1>21, <1>22 DEF ExecInv

(* When the recovery is over, all that has a commitment has a complete      *)
(* state, and all that is deep enough has a commitment.                     *)
LEMMA RecoveredStep ==
  ASSUME ExecInv, Recovered
  PROVE  ExecInv'
<1>1. /\ Tree /\ ExecTypes /\ ChainInv /\ MemInv /\ BoundaryInv /\ QueueInv /\ AskInv /\ GeneratorInv
      /\ RecoverInv /\ StorageInv
  BY DEF ExecInv
<1>2. /\ worker.pc = "recover" /\ worker.next >= worker.to /\ worker \in Worker
      /\ worker' = [worker EXCEPT !.pc = "idle"]
      /\ UNCHANGED <<parent, path, arrived, mainChain, saved, mem, disk, states, recent, valid, boundary, tasks,
                     executor, generator, failed>>
  BY <1>1 DEF Recovered, ExecTypes
<1>3. PICK n : n = worker.next
  OBVIOUS
<1>4. /\ worker.to = ToStatePos(mainChain) /\ n \in 1..(TopOf(mainChain) + 1) /\ boundary.upper = n - 1
      /\ mem \subseteq {mainChain[h + 1] : h \in 0..TopOf(mainChain)}
      /\ states[mainChain[n]] = "ok"
  BY <1>1, <1>2, <1>3 DEF RecoverInv
<1>5. PICK c \in Blocks : mainChain = path[c]
  BY MainPath
<1>6. Len(mainChain) \in Nat /\ Len(mainChain) >= 1
  BY MainPath
<1>7. /\ n = TopOf(mainChain) + 1 /\ TopOf(mainChain) \in Nat /\ n \in Nat /\ n >= 1
      /\ n \in 1..Len(path[c])
  <2>1. /\ ToStatePos(mainChain) \in Nat /\ TopOf(mainChain) \in Nat
        /\ TopOf(mainChain) + 1 \in 1..Len(mainChain)
        /\ ToStatePos(mainChain) >= 2 => ToStatePos(mainChain) = TopOf(mainChain) + 1
        /\ ToStatePos(mainChain) <= 1 => TopOf(mainChain) = 0
    BY <1>6, TopFacts
  <2>2. QED BY <2>1, <1>2, <1>3, <1>4, <1>5, <1>6
<1>8. mainChain[n] \in mem
  <2>1. (n - 1) + 1 = n
    BY <1>7
  <2>2. QED BY <2>1, <1>1, <1>4, Zenon DEF BoundaryInv
<1>9. ASSUME NEW x \in mem PROVE states[x] = "ok"
  <2>1. PICK h \in 0..TopOf(mainChain) : x = mainChain[h + 1]
    BY <1>4, <1>9, Zenon
  <2>2. PICK k : k = h + 1
    OBVIOUS
  <2>3. k \in 1..n /\ x = path[c][k]
    BY <2>1, <2>2, <1>5, <1>7
  <2>4. PICK z \in Blocks : z = path[c][n]
    BY <1>5, <1>7, MainPath
  <2>5. k \in 1..Len(path[c]) /\ x \in Blocks
    BY <2>3, <1>1, <1>6, <1>5, <1>7 DEF ExecTypes
  <2>6. Height(x) = k - 1 /\ Height(z) = n - 1
    BY <1>1, <1>7, <2>3, <2>4, <2>5, Neighbours
  <2>7. path[z][k] = path[c][k]
    BY <1>1, <1>7, <2>3, <2>4, Neighbours
  <2>8. Above(x, z)
    <3>1. Height(x) <= Height(z) /\ Height(x) + 1 = k
      BY <2>3, <2>6, <1>7
    <3>2. QED BY <3>1, <2>3, <2>7 DEF Above, AncestorAt
  <2>9. states[z] = "ok"
    BY <1>4, <1>5, <2>4
  <2>10. QED BY <1>1, <2>5, <2>8, <2>9, OkAbove
<1>10. worker' \in Worker /\ worker'.pc = "idle"
  BY <1>2 DEF Worker
<1>11. ExecTypes'
  BY <1>1, <1>2, <1>10, SameTypes DEF ExecTypes
<1>12. ChainInv'
  BY <1>1, <1>2, ChainFrame
<1>13. Covered' = Covered
  BY <1>2 DEF Covered, Before, Running
<1>14. QueueInv'
  BY <1>1, <1>2, QueueQuiet
<1>15. AskInv'
  BY <1>1, <1>2, AskQuiet
<1>16. GeneratorInv'
  BY <1>1, <1>2, <1>13, GeneratorFrame
<1>17. WorkerInv'
  <2>1. saved.chain = mainChain
    BY <1>1, <1>2 DEF ChainInv
  <2>2. mem \subseteq Covered
    BY <1>1, CoveredClosed
  <2>3. saved'.chain[TopOf(saved'.chain) + 1] \in Covered'
    BY <1>2, <1>7, <1>8, <1>13, <2>1, <2>2
  <2>4. QED BY <2>3, <1>10 DEF WorkerInv
<1>18. RecoverInv' /\ Intact'
  BY <1>2, <1>9, <1>10 DEF RecoverInv, Intact
<1>19. Tree' /\ StorageInv' /\ FarInv' /\ MemInv' /\ BoundaryInv'
  BY <1>2, Frame
<1>20. QED BY <1>11, <1>12, <1>14, <1>15, <1>16, <1>17, <1>18, <1>19 DEF ExecInv

-----------------------------------------------------------------------------
(* The theorems                                                             *)

(* The node starts with the genesis executed and nothing else.              *)
LEMMA ExecInit ==
  ASSUME Init
  PROVE  ExecInv
<1>1. Tree
  BY Zenon DEF Init, Tree
<1>2. /\ arrived = {Genesis} /\ mainChain = <<Genesis>>
      /\ saved = [chain |-> <<Genesis>>, blocks |-> {Genesis}]
      /\ mem = {Genesis} /\ disk = {Genesis}
      /\ states = [b \in Blocks |-> IF b = Genesis THEN "ok" ELSE "none"]
      /\ recent = << >> /\ valid = {Genesis}
      /\ boundary = [chain |-> <<Genesis>>, upper |-> 0, opt |-> NULL]
      /\ tasks = << >> /\ executor = [pc |-> "poll", task |-> NoTask]
      /\ worker = [pc |-> "idle", next |-> 0, to |-> 0, from |-> 0, todo |-> << >>, asked |-> FALSE]
      /\ generator = [pc |-> "idle", parent |-> Genesis, todo |-> << >>, asked |-> FALSE]
      /\ ~failed
  BY Zenon DEF Init
<1>3. /\ path[Genesis] = <<Genesis>> /\ Genesis \in Blocks
      /\ \A b \in Blocks \ {Genesis} : parent[b] \in Blocks
  BY <1>1, TreeFacts DEF Blocks
<1>4. Height(Genesis) = 0
  BY <1>3 DEF Height
<1>5. ExecTypes
  <2>1. <<Genesis>> \in Seq(Blocks) /\ << >> \in Seq(Blocks) /\ << >> \in Seq(Task) /\ << >> \in Seq(DOMAIN parent)
    BY <1>3
  <2>2. executor \in Executor
    BY <1>2, Zenon DEF Executor, Task, NoTask
  <2>3. worker \in Worker
    BY <1>2, <2>1, Zenon DEF Worker
  <2>4. generator \in Generator
    BY <1>2, <1>3, <2>1, Zenon DEF Generator
  <2>5. boundary \in Boundary
    BY <1>2, <2>1, Zenon DEF Boundary
  <2>6. saved \in Saved
    BY <1>2, <1>3, <2>1, Zenon DEF Saved
  <2>7. states \in [Blocks -> {"none", "torn", "ok"}]
    BY <1>2, Zenon
  <2>8. QED BY <1>2, <1>3, <2>1, <2>2, <2>3, <2>4, <2>5, <2>6, <2>7, Zenon DEF ExecTypes
<1>6. ChainInv
  <2>1. Leads(<<Genesis>>, {Genesis})
    BY <1>3 DEF Leads, Closed, Leaves
  <2>2. saved.chain = <<Genesis>> /\ saved.blocks = {Genesis}
    BY <1>2, Zenon
  <2>3. QED BY <1>2, <2>1, <2>2, Zenon DEF ChainInv
<1>7. MemInv
  BY <1>2, Zenon DEF MemInv, Closed, Unwraps
<1>8. BoundaryInv
  BY <1>2 DEF BoundaryInv
<1>9. executor.pc = "poll" /\ DOMAIN tasks = {} /\ generator.pc = "idle" /\ worker.pc = "idle"
  BY <1>2
<1>10. QueueInv /\ AskInv
  BY <1>9, Zenon DEF QueueInv, AskInv
<1>11. GeneratorInv /\ RecoverInv
  BY <1>9, Zenon DEF GeneratorInv, RecoverInv
<1>12. WorkerInv
  <2>1. saved.chain = <<Genesis>> /\ Len(<<Genesis>>) = 1
    BY <1>2, Zenon
  <2>2. TopOf(saved.chain) = 0
    BY <2>1, ExecutionAssumption DEF TopOf, ToStatePos
  <2>3. saved.chain[TopOf(saved.chain) + 1] = Genesis
    BY <2>1, <2>2
  <2>4. Genesis \in Covered
    BY <1>2, Zenon DEF Covered, Before
  <2>5. QED BY <1>9, <2>3, <2>4, Zenon DEF WorkerInv
<1>13. StorageInv
  BY <1>2, <1>3, ExecutionAssumption DEF StorageInv
<1>14. FarInv
  <2>1. Range(recent) = {}
    BY <1>2 DEF Range
  <2>2. ASSUME NEW x \in Blocks, NEW z \in Blocks, Height(z) >= Height(x) + Deferred PROVE z # Genesis
    <3>1. Height(x) \in Nat
      BY <1>1, AboveFacts, Zenon
    <3>2. QED BY <2>2, <3>1, <1>4, ExecutionAssumption
  <2>3. QED BY <1>2, <2>1, <2>2, Zenon DEF FarInv
<1>15. Intact
  BY <1>2, <1>3, Zenon DEF Intact
<1>16. QED BY <1>1, <1>5, <1>6, <1>7, <1>8, <1>10, <1>11, <1>12, <1>13, <1>14, <1>15 DEF ExecInv

(* Every step of every thread, and a crash, keeps the invariant.            *)
LEMMA ExecStep ==
  ASSUME ExecInv, [Next]_vars
  PROVE  ExecInv'
<1>1. CASE \E b \in DOMAIN parent : Activate(b)
  BY <1>1, ActivateStep
<1>2. CASE WorkerStep
  BY <1>2, CollectStep, WorkerWaitsStep, EnqueueStep, FinishStep, RecoverStep, RecoveredStep DEF WorkerStep
<1>3. CASE ExecutorStep
  BY <1>3, TakeStep, PollStep, OptimisticStep, ExecuteStep, AdjustStep, AnswerStep DEF ExecutorStep
<1>4. CASE Prepare
  BY <1>4, PrepareStep
<1>5. CASE GeneratorStep
  BY <1>5, GeneratorWaitsStep, GeneratorCollectsStep, GeneratorBlamesStep DEF GeneratorStep
<1>6. CASE Crash
  BY <1>6, CrashStep
<1>7. CASE UNCHANGED vars
  <2>1. UNCHANGED <<parent, path, arrived, mainChain, saved, mem, disk, states, recent, valid, boundary, tasks,
                    executor, worker, generator, failed>>
    BY <1>7 DEF vars
  <2>2. /\ ExecTypes /\ ChainInv /\ QueueInv /\ AskInv /\ WorkerInv /\ GeneratorInv /\ RecoverInv /\ Intact
    BY DEF ExecInv
  <2>3. Covered' = Covered
    BY <2>1, Zenon DEF Covered, Before, Running
  <2>4. ExecTypes' /\ ChainInv' /\ AskInv' /\ WorkerInv' /\ GeneratorInv'
    BY <2>1, <2>2, <2>3, SameTypes, ChainFrame, AskQuiet, WorkerFrame, GeneratorFrame, Zenon DEF ExecTypes
  <2>5. QueueInv'
    BY <2>1, <2>2, QueueQuiet
  <2>6. RecoverInv' /\ Intact'
    BY <2>1, <2>2, Zenon DEF RecoverInv, Intact, TopOf, ToStatePos
  <2>7. Tree' /\ StorageInv' /\ FarInv' /\ MemInv' /\ BoundaryInv'
    BY <2>1, Frame
  <2>8. QED BY <2>4, <2>5, <2>6, <2>7 DEF ExecInv
<1>8. QED BY <1>1, <1>2, <1>3, <1>4, <1>5, <1>6, <1>7 DEF Next

(* The invariant of the four threads: a task waits in the channel only      *)
(* behind what it needs, every question has its thread, and what a crash    *)
(* may undo is the end of what was written.                                 *)
THEOREM ExecInvariant == Spec => []ExecInv
BY ExecInit, ExecStep, PTL DEF Spec

(* No unwrap or expect of the execution fails: neither the commitment of    *)
(* the parent in new_state, nor a result that is waited for, nor what the   *)
(* validity of a block is computed from; and the thread that runs ahead     *)
(* never waits for itself.                                                  *)
THEOREM UnwrapsTheorem == Spec => []Unwraps
<1>1. ExecInv => Unwraps
  BY DEF ExecInv, MemInv
<1>2. QED BY <1>1, ExecInvariant, PTL

(* Outside a recovery the boundary is about the main chain, and every state *)
(* it offers is executed.                                                   *)
THEOREM AvailableTheorem == Spec => []AvailableExecuted
<1>1. ASSUME ExecInv PROVE AvailableExecuted
  <2>1. Tree /\ ExecTypes /\ MemInv /\ BoundaryInv
    BY <1>1 DEF ExecInv
  <2>2. PICK c \in Blocks : mainChain = path[c]
    BY <1>1, MainPath
  <2>3. Len(mainChain) \in Nat
    BY <1>1, MainPath
  <2>4. PICK u \in Nat : u = boundary.upper
    BY <2>1 DEF ExecTypes, Boundary
  <2>5. boundary.chain = mainChain /\ u < Len(mainChain) /\ mainChain[u + 1] \in mem
    BY <2>1, <2>4 DEF BoundaryInv
  <2>6. PICK i : i = u + 1
    OBVIOUS
  <2>7. i \in 1..Len(path[c]) /\ path[c][i] \in mem
    BY <2>2, <2>3, <2>4, <2>5, <2>6
  <2>8. \A j \in 1..i : path[c][j] \in mem
    BY <2>1, <2>7, BelowIn DEF MemInv
  <2>9. ASSUME NEW h \in 0..u PROVE h < Len(mainChain) /\ mainChain[h + 1] \in mem
    <3>1. h + 1 \in 1..i /\ h < Len(mainChain)
      BY <2>3, <2>4, <2>5, <2>6, <2>9
    <3>2. QED BY <3>1, <2>2, <2>8
  <2>10. QED BY <2>4, <2>5, <2>9 DEF AvailableExecuted
<1>2. QED BY <1>1, ExecInvariant, PTL

(* Whatever has a commitment in memory after a restart has a complete       *)
(* state, provided a crash undoes no more than the last Deferred writes.    *)
THEOREM IntactTheorem == Spec => []Intact
<1>1. ExecInv => Intact
  BY DEF ExecInv
<1>2. QED BY <1>1, ExecInvariant, PTL
=============================================================================
