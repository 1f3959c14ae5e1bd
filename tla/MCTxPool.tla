------------------------------ MODULE MCTxPool ------------------------------
(* Two senders share a space with room for three transactions.             *)
EXTENDS TxPool

Transfer(a, n, p, h) == [sender |-> a, nonce |-> n, price |-> p, gas |-> 1, epoch |-> h]
SomeTx == {Transfer("a", 0, 1, 0), Transfer("a", 0, 2, 0), Transfer("a", 1, 1, 0),
           Transfer("a", 2, 2, 0), Transfer("b", 0, 1, 0), Transfer("b", 1, 2, 0)}
Spaces == [a \in {"a", "b"} |-> "native"]
Costs == [t \in SomeTx |-> {t.price}]
=============================================================================
