---------------------------- MODULE PackingBatch ----------------------------
(***************************************************************************)
(* The batch of one sender in the packing pool: transactions of successive *)
(* nonces whose gas prices do not decrease.  A batch is the set of its     *)
(* transactions; the vector of the code is that set in nonce order.        *)
(***************************************************************************)
EXTENDS Integers, FiniteSets, FiniteSetsExt

CONSTANTS Addr,             \* the senders (an address with its space)
          Tx,               \* the transactions
          AddressGasLimit,  \* PackingPoolConfig::address_gas_limit
          AddressTxCount,   \* PackingPoolConfig::address_tx_count
          MaxNonce          \* U256::MAX

ASSUME BatchAssumption ==
  /\ IsFiniteSet(Addr)
  /\ IsFiniteSet(Tx)
  /\ \A t \in Tx : /\ t.sender \in Addr
                   /\ t.nonce \in Nat
                   /\ t.price \in Nat
                   /\ t.gas \in Nat
  /\ AddressGasLimit \in Nat
  /\ AddressTxCount \in Nat \ {0}
  /\ MaxNonce \in Nat \ {0}

Below(B, n) == {t \in B : t.nonce < n}
UpTo(B, n) == {t \in B : t.nonce <= n}
From(B, n) == {t \in B : t.nonce >= n}
HasNonce(B, n) == \E t \in B : t.nonce = n
At(B, n) == CHOOSE t \in B : t.nonce = n
Only(B, n) == {t \in B : t.nonce = n}
StartNonce(B) == Min({t.nonce : t \in B})
EndNonce(B) == StartNonce(B) + Cardinality(B)
TotalGas(B) == MapThenSumSet(LAMBDA t : t.gas, B)

(* check_acceptable_batch: the longest prefix within the count and the gas *)
(* limit.  The first transaction is kept even if it exceeds the limit.     *)
AcceptablePrefix(B) ==
  {t \in B : \/ t.nonce = StartNonce(B)
             \/ /\ t.nonce - StartNonce(B) < AddressTxCount
                /\ TotalGas(UpTo(B, t.nonce)) <= AddressGasLimit}

(* What an insertion leaves in the batch, what it returns, and the error   *)
(* it reports ("ok" for none).                                             *)
Kept(B, out) == [batch |-> B, out |-> out, err |-> "ok"]
Refused(B, out, err) == [batch |-> B, out |-> out, err |-> err]

(* The new transaction goes just below the batch, or far below it.         *)
PrependTx(B, t) ==
  IF t.nonce + 1 < StartNonce(B) \/ t.price > At(B, StartNonce(B)).price
    THEN Kept({t}, B)
    ELSE LET all == B \cup {t}
         IN  Kept(AcceptablePrefix(all), all \ AcceptablePrefix(all))

(* Mutant of the append: an equal gas price counts as decreasing.          *)
AppendTxStrict(B, t) ==
  IF Cardinality(B) >= AddressTxCount
    THEN Refused(B, {}, "ExceedAddrTxCount")
  ELSE IF At(B, EndNonce(B) - 1).price >= t.price
    THEN Refused(B, {}, "DecreasingGasPrice")
  ELSE IF AddressGasLimit < TotalGas(B) + t.gas
    THEN Refused(B, {}, "ExceedAddrGasLimit")
  ELSE Kept(B \cup {t}, {})

AppendTx(B, t) ==
  IF Cardinality(B) >= AddressTxCount
    THEN Refused(B, {}, "ExceedAddrTxCount")
  ELSE IF At(B, EndNonce(B) - 1).price > t.price
    THEN Refused(B, {}, "DecreasingGasPrice")
  ELSE IF AddressGasLimit < TotalGas(B) + t.gas
    THEN Refused(B, {}, "ExceedAddrGasLimit")
  ELSE Kept(B \cup {t}, {})

(* Mutant of the replacement: the price of the next transaction is not     *)
(* looked at.                                                              *)
ReplaceTxIgnoringNext(B, t) ==
  LET old == At(B, t.nonce)
      swapped == (B \ {old}) \cup {t}
      prefix == AcceptablePrefix(swapped)
      before == Below(B, t.nonce)
  IN  IF HasNonce(B, t.nonce - 1) /\ t.price < At(B, t.nonce - 1).price
        THEN Refused(before, B \ before, "DecreasingGasPrice")
      ELSE IF t \notin prefix
        THEN Refused(before, B \ before, "ExceedAddrGasLimit")
      ELSE Kept(prefix, {old} \cup (swapped \ prefix))

ReplaceTx(B, t) ==
  LET old == At(B, t.nonce)
      swapped == (B \ {old}) \cup {t}
      prefix == AcceptablePrefix(swapped)
      before == Below(B, t.nonce)
  IN  IF HasNonce(B, t.nonce - 1) /\ t.price < At(B, t.nonce - 1).price
        THEN Refused(before, B \ before, "DecreasingGasPrice")
      ELSE IF t \notin prefix
        THEN Refused(before, B \ before, "ExceedAddrGasLimit")
      ELSE IF HasNonce(B, t.nonce + 1) /\ At(B, t.nonce + 1).price < t.price
        THEN Kept(before \cup {t}, B \ before)
      ELSE Kept(prefix, {old} \cup (swapped \ prefix))

(* Mutant: what a lower nonce pushes out is not handed back.               *)
BatchInsertForgets(B, t) ==
  IF t.nonce >= MaxNonce - 1 THEN Refused(B, {}, "TooLargeNonce")
  ELSE IF t.nonce < StartNonce(B) THEN [PrependTx(B, t) EXCEPT !.out = {}]
  ELSE IF t.nonce > EndNonce(B) THEN Refused(B, {}, "LargeNonce")
  ELSE IF t.nonce = EndNonce(B) THEN AppendTx(B, t)
  ELSE ReplaceTx(B, t)

(* PackingBatch::insert on a non-empty batch.                              *)
BatchInsert(B, t) ==
  IF t.nonce >= MaxNonce - 1 THEN Refused(B, {}, "TooLargeNonce")
  ELSE IF t.nonce < StartNonce(B) THEN PrependTx(B, t)
  ELSE IF t.nonce > EndNonce(B) THEN Refused(B, {}, "LargeNonce")
  ELSE IF t.nonce = EndNonce(B) THEN AppendTx(B, t)
  ELSE ReplaceTx(B, t)

(* split_off_by_nonce: what remains; the pool deletes the node when        *)
(* nothing does (RemoveError::ShouldDelete).                               *)
SplitOffSuffix(B, n) == Below(B, n)
SplitOffPrefix(B, n) == From(B, n)

(***************************************************************************)
(* Appending the transactions of S in nonce order, from nonce n, until one *)
(* is missing or refused, or the limit nonce is passed: the batch grows by *)
(* the longest run that PackingBatch::insert accepts.                      *)
(***************************************************************************)
(* Mutant: the gas price of the predecessor is not compared.               *)
CanFollowAnyPrice(B, S, n, k) ==
  /\ HasNonce(S, k)
  /\ At(S, k).nonce < MaxNonce - 1
  /\ k - StartNonce(B) < AddressTxCount
  /\ TotalGas(B) + TotalGas({t \in S : t.nonce \in n..k}) <= AddressGasLimit

CanFollow(B, S, n, k) ==
  /\ HasNonce(S, k)
  /\ At(S, k).nonce < MaxNonce - 1
  /\ k - StartNonce(B) < AddressTxCount
  /\ LET prev == IF k = n THEN At(B, n - 1) ELSE At(S, k - 1)
     IN  prev.price <= At(S, k).price
  /\ TotalGas(B) + TotalGas({t \in S : t.nonce \in n..k}) <= AddressGasLimit

AppendRun(B, S, n, limit) ==
  B \cup {t \in S : /\ t.nonce \in n..limit
                   /\ \A k \in n..t.nonce : CanFollow(B, S, n, k)}
=============================================================================
