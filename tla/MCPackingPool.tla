---------------------------- MODULE MCPackingPool ----------------------------
(* A sender with five nonces, the last of them too large, two prices, and  *)
(* limits that leave room for three transactions, or for fewer when one    *)
(* takes much gas.  The second sender shows that calls do not cross.       *)
EXTENDS PackingPool

Transfer(a, n, p, g) == [sender |-> a, nonce |-> n, price |-> p, gas |-> g]
SomeTx == {Transfer("a", n, p, 1) : n \in 0..2, p \in {1, 2}}
            \cup {Transfer("a", 0, 2, 5), Transfer("a", 1, 1, 3),
                  Transfer("a", 3, 2, 1), Transfer("a", 4, 2, 1)}
            \cup {Transfer("b", 1, 1, 1)}
Losses == [p \in 0..2 |-> 3 - p]
=============================================================================
