----------------------------- MODULE StateStack -----------------------------
(***************************************************************************)
(* What the State of the executor promises the virtual machine: a map from  *)
(* addresses to accounts and a stack of full copies of it.  A checkpoint    *)
(* pushes a copy, a discarded checkpoint drops it, a reverted one restores  *)
(* it.  Storing the map in the database changes nothing of what is read.    *)
(***************************************************************************)
EXTENDS Integers, Sequences

CONSTANTS
    Addr,           \* the addresses
    MaxBalance,     \* no account holds more
    MaxValue,       \* the storage slot of a contract holds 0..MaxValue
    MaxDepth        \* checkpoints open at once

VARIABLES
    state,          \* the accounts
    stack           \* copies of them, the last one is the latest checkpoint

\* An absent account reads like an empty one.
Account == [bal : 0..MaxBalance, contract : BOOLEAN, slot : 0..MaxValue]

Empty == [bal |-> 0, contract |-> FALSE, slot |-> 0]

Init ==
    /\ state \in [Addr -> Account]
    /\ \A a \in Addr : state[a].slot # 0 => state[a].contract
    /\ stack = << >>

Put(a, account) ==
    /\ state' = [state EXCEPT ![a] = account]
    /\ UNCHANGED stack

Add(a, by) ==
    /\ state[a].bal + by <= MaxBalance
    /\ Put(a, [state[a] EXCEPT !.bal = @ + by])

Sub(a, by) ==
    /\ by <= state[a].bal
    /\ Put(a, [state[a] EXCEPT !.bal = @ - by])

Set(a, v) ==
    /\ state[a].contract
    /\ Put(a, [state[a] EXCEPT !.slot = v])

\* A contract is created with the balance its address has already.
Create(a) ==
    /\ ~state[a].contract
    /\ Put(a, [bal |-> state[a].bal, contract |-> TRUE, slot |-> 0])

Kill(a) ==
    /\ state[a].contract
    /\ Put(a, Empty)

Push ==
    /\ Len(stack) < MaxDepth
    /\ stack' = Append(stack, state)
    /\ UNCHANGED state

Drop ==
    /\ stack # << >>
    /\ stack' = SubSeq(stack, 1, Len(stack) - 1)
    /\ UNCHANGED state

Restore ==
    /\ stack # << >>
    /\ state' = stack[Len(stack)]
    /\ stack' = SubSeq(stack, 1, Len(stack) - 1)

Next ==
    \/ \E a \in Addr :
        \/ \E by \in 1..MaxBalance : Add(a, by) \/ Sub(a, by)
        \/ \E v \in 0..MaxValue : Set(a, v)
        \/ Create(a)
        \/ Kill(a)
    \/ Push \/ Drop \/ Restore

Spec == Init /\ [][Next]_<<state, stack>>
=============================================================================
