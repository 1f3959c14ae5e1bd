----------------------------- MODULE PackingPool -----------------------------
(***************************************************************************)
(* The packing pool: a map from senders to batches.  Every node of the map *)
(* caches, in its sort key and weight, what the random sampler needs to    *)
(* know of its batch.  make_apply_outcome updates the cache after a change *)
(* of the batch.                                                           *)
(***************************************************************************)
EXTENDS PackingBatch

CONSTANTS Loss    \* PackingPoolConfig::loss_ratio, a function of the gas price

VARIABLES
  batches,  \* batches[a]: the batch of a, empty when a has no node
  total,    \* total[a]: PackingBatch::total_gas_limit
  node,     \* node[a]: the sort key and weight of the treap node
  call      \* the last call and its result

poolVars == <<batches, total, node, call>>

NoNode == [key |-> 0, gas |-> 0, loss |-> 0, weighted |-> 0, minPrice |-> 0]
FirstPrice(B) == At(B, StartNonce(B)).price

(* PackingBatch::make_node.                                                *)
MakeNode(B, gas) ==
  [key |-> FirstPrice(B), gas |-> gas, loss |-> Loss[FirstPrice(B)],
   weighted |-> Loss[FirstPrice(B)] * gas, minPrice |-> FirstPrice(B)]

(* Mutant: the gas limit is only refreshed together with the gas price.    *)
MakeApplyOutcomePriceOnly(old, oldGas, new, newGas, nd) ==
  IF FirstPrice(old) # FirstPrice(new)
    THEN [nd EXCEPT !.key = FirstPrice(new), !.gas = newGas, !.loss = Loss[FirstPrice(new)],
                    !.weighted = newGas * Loss[FirstPrice(new)]]
  ELSE nd

(* make_apply_outcome: the cache changes only if the first gas price or    *)
(* the total gas limit did; min_gas_price never does.                      *)
MakeApplyOutcome(old, oldGas, new, newGas, nd) ==
  IF FirstPrice(old) # FirstPrice(new)
    THEN [nd EXCEPT !.key = FirstPrice(new), !.gas = newGas, !.loss = Loss[FirstPrice(new)],
                    !.weighted = newGas * Loss[FirstPrice(new)]]
  ELSE IF oldGas # newGas
    THEN [nd EXCEPT !.gas = newGas, !.weighted = newGas * nd.loss]
  ELSE nd

(* The gas limit check_acceptable_batch returns: it adds up one            *)
(* transaction after the other and stops at a limit.                       *)
AcceptableGas(B) ==
  LET first == StartNonce(B)
      sum[n \in (first - 1)..(EndNonce(B) - 1)] ==
        IF n < first THEN [gas |-> 0, going |-> TRUE]
        ELSE LET s == sum[n - 1]
                 more == At(B, n).gas
             IN  IF ~s.going \/ n - first >= AddressTxCount THEN [s EXCEPT !.going = FALSE]
                 ELSE IF s.gas + more <= AddressGasLimit THEN [s EXCEPT !.gas = @ + more]
                 ELSE [gas |-> IF n = first THEN more ELSE s.gas, going |-> FALSE]
  IN  sum[EndNonce(B) - 1].gas

(* How insert maintains total_gas_limit: a refusal that removes nothing    *)
(* leaves it, an append adds to it, and the other ways to take the new     *)
(* transaction set it to the sum of what check_acceptable_batch accepted,  *)
(* unless what lies above has to go for its lower gas price.               *)
InsertedGas(B, gas, t, r) ==
  LET cutAbove == HasNonce(B, t.nonce + 1) /\ At(B, t.nonce + 1).price < t.price
  IN  IF r.err # "ok" THEN IF r.out = {} THEN gas ELSE TotalGas(r.batch)
      ELSE IF t.nonce = EndNonce(B) THEN gas + t.gas
      ELSE IF t.nonce + 1 < StartNonce(B) \/ cutAbove THEN TotalGas(r.batch)
      ELSE AcceptableGas((B \ Only(B, t.nonce)) \cup {t})

Init ==
  /\ batches = [a \in Addr |-> {}]
  /\ total = [a \in Addr |-> 0]
  /\ node = [a \in Addr |-> NoNode]
  /\ call = [op |-> "none"]

SetBatch(a, B, gas) ==
  /\ batches' = [batches EXCEPT ![a] = B]
  /\ total' = [total EXCEPT ![a] = gas]
  /\ node' = [node EXCEPT ![a] =
       IF B = {} THEN NoNode
       ELSE IF batches[a] = {} THEN MakeNode(B, gas)
       ELSE MakeApplyOutcome(batches[a], total[a], B, gas, node[a])]

(* PackingPool::insert, into a new node or an existing one.                *)
Insert(t) ==
  LET a == t.sender
      B == batches[a]
      r == IF B = {} THEN Kept({t}, {}) ELSE BatchInsert(B, t)
  IN  /\ SetBatch(a, r.batch,
                  IF B = {} THEN t.gas ELSE InsertedGas(B, total[a], t, r))
      /\ call' = [op |-> "insert", tx |-> t, out |-> r.out, err |-> r.err]

(* PackingPool::replace by a batch built with new and insert.              *)
ReplaceBatch(a, t, more) ==
  LET B == AppendRun({t}, more, t.nonce + 1, MaxNonce)
  IN  /\ \A u, v \in more : u.nonce = v.nonce => u = v
      /\ SetBatch(a, B, TotalGas(B))
      /\ call' = [op |-> "replace", tx |-> t, out |-> batches[a], err |-> "ok"]

(* PackingPool::split_off; the whole node goes when nothing is left.       *)
SplitOff(a, n, keepPrefix) ==
  LET B == batches[a]
      rest == IF keepPrefix THEN SplitOffSuffix(B, n) ELSE SplitOffPrefix(B, n)
  IN  /\ B # {}
      /\ SetBatch(a, rest, TotalGas(rest))
      /\ call' = [op |-> "split", tx |-> n, out |-> B \ rest, err |-> "ok"]

Next ==
  \/ \E t \in Tx : Insert(t)
  \/ \E t \in Tx : \E more \in SUBSET {u \in Tx : u.sender = t.sender /\ u.nonce > t.nonce} :
       ReplaceBatch(t.sender, t, more)
  \/ \E a \in Addr, n \in {t.nonce : t \in Tx}, keep \in BOOLEAN :
       SplitOff(a, n, keep)

Spec == Init /\ [][Next]_poolVars
-----------------------------------------------------------------------------
(* assert_constraints of packing_batch.rs after any sequence of calls: the *)
(* nonces of a batch are successive, its gas prices do not decrease, and   *)
(* total_gas_limit, which the code maintains by increments on some paths   *)
(* and recomputes on others, is the sum of the gas limits.  The limits of  *)
(* PackingPoolConfig bind too: a batch has at most address_tx_count        *)
(* transactions, and only a single one may exceed address_gas_limit.       *)
BatchConstraints ==
  \A a \in Addr : batches[a] # {} =>
    /\ \A n \in StartNonce(batches[a])..(EndNonce(batches[a]) - 1) :
         Cardinality({t \in batches[a] : t.nonce = n}) = 1
    /\ \A t, u \in batches[a] : t.nonce <= u.nonce => t.price <= u.price
    /\ total[a] = TotalGas(batches[a])
    /\ Cardinality(batches[a]) <= AddressTxCount
    /\ total[a] <= AddressGasLimit \/ Cardinality(batches[a]) = 1

(* assert_consistency of pool.rs: although make_apply_outcome refreshes    *)
(* them only on a change, the sort key and the weights of a node are those *)
(* of its batch.                                                           *)
WeightsFollow ==
  \A a \in Addr : batches[a] # {} =>
    /\ node[a].key = FirstPrice(batches[a])
    /\ node[a].gas = total[a]
    /\ node[a].loss = Loss[node[a].key]
    /\ node[a].weighted = node[a].loss * total[a]

(* "Guarantee the searched result can be packed": the lowest gas price of  *)
(* the nodes that estimate_packing_gas_limit works with is the one their   *)
(* batches have.  It is that of an earlier batch after the first           *)
(* transaction of the sender has been replaced or packed.                  *)
MinPriceFollows ==
  \A a \in Addr : batches[a] # {} => node[a].minPrice = FirstPrice(batches[a])

(* insert_test of packing_batch.rs: an insertion loses no transaction.     *)
(* What was in the batch, and the new transaction, are afterwards in the   *)
(* batch or in the returned vector, or the new one is refused with an      *)
(* error.                                                                  *)
InsertConserves ==
  [][call'.op = "insert" =>
       LET a == call'.tx.sender
       IN  /\ batches[a] \cup {call'.tx} =
                batches'[a] \cup call'.out
                  \cup (IF call'.err = "ok" THEN {} ELSE {call'.tx})
           /\ call'.err = "ok" => call'.tx \in batches'[a]
           /\ \A b \in Addr \ {a} : batches'[b] = batches[b]]_poolVars

(* The reference for AppendRun: insert the transactions of S at nonces     *)
(* n, n+1, ... one by one and stop at the first error, as the loops of     *)
(* make_packing_batch and recalculate_readiness_with_local_info do.        *)
InsertOneByOne(B, S, n, limit) ==
  LET step[k \in (n - 1)..limit] ==
        IF k = n - 1 THEN [batch |-> B, going |-> TRUE]
        ELSE LET s == step[k - 1]
                 r == BatchInsert(s.batch, At(S, k))
             IN  IF s.going /\ HasNonce(S, k) /\ r.err = "ok"
                   THEN [batch |-> r.batch, going |-> TRUE]
                   ELSE [s EXCEPT !.going = FALSE]
  IN  step[limit].batch

(* The extension loops of the nonce pool, which call PackingBatch::insert  *)
(* until it fails, give the longest run AppendRun describes, whatever the  *)
(* batch and the transactions offered.                                     *)
LoopGivesLongestRun ==
  \A a \in Addr : batches[a] # {} =>
    \A S \in SUBSET {t \in Tx : t.sender = a /\ t.nonce >= EndNonce(batches[a])} :
      (\A u, v \in S : u.nonce = v.nonce => u = v) =>
        \A limit \in EndNonce(batches[a])..MaxNonce :
          InsertOneByOne(batches[a], S, EndNonce(batches[a]), limit)
            = AppendRun(batches[a], S, EndNonce(batches[a]), limit)
=============================================================================
