------------------------------ MODULE BlockDag ------------------------------
(***************************************************************************)
(* The header graph the consensus engine works on, as far as the headers   *)
(* alone determine it: the parent tree, the past of a block, the epoch a    *)
(* block closes when it is on the main chain and the order in which that    *)
(* epoch is executed.                                                       *)
(*                                                                          *)
(* A network is a record of header fields: parent, refs (referee_hashes),   *)
(* timer and heavy (the blocks whose proof of work passes the two ratios),  *)
(* adaptive (the header's flag), diff (the difficulty), target (the         *)
(* difficulty expected of the children of a block) and hash (a number that  *)
(* only serves to break ties) and blamed (the blocks with an invalid state   *)
(* whose blame forbids a checkpoint), with timer_chain_beta and              *)
(* era_epoch_count as beta and era, and two bounds of the instance: restarts *)
(* of the node, and jobs the block generator takes.  Graph(net) adds the     *)
(* fields the headers determine.                                             *)
(***************************************************************************)
EXTENDS Integers, Sequences, FiniteSets, FiniteSetsExt

CONSTANTS
    Genesis,            \* the genesis the node starts from
    NULL,               \* consensus_inner's NULL index
    EpochBlockBound     \* EPOCH_EXECUTED_BLOCK_BOUND

\* u64::MAX, the epoch number of a block that is in no epoch of the main chain.
NULLU64 == 2147483647

\* The parental path of every block down to the genesis, the block included.
Chains(net) ==
    LET chain[b \in DOMAIN net.parent] ==
            {b} \cup IF b = Genesis THEN {} ELSE chain[net.parent[b]]
    IN  chain

\* insert_referee_if_not_duplicate over the referees of a header: a referee
\* that is a parental ancestor of another referee is dropped.
Referees(net, chain) ==
    [b \in DOMAIN net.parent |->
        {r \in net.refs[b] : \A x \in net.refs[b] \ {r} : r \notin chain[x]}]

\* The blocks reachable from a block over parent and referee edges.
Pasts(net, referee) ==
    LET past[b \in DOMAIN net.parent] ==
            UNION {{p} \cup past[p] :
                    p \in referee[b] \cup ({net.parent[b]} \ {NULL})}
    IN  past

\* topological_sort: the last block is the one of largest hash among those
\* that no other block of the set points to, and so on backwards.
RECURSIVE TopologicalSort(_, _, _)
TopologicalSort(S, past, hash) ==
    IF S = {} THEN << >>
    ELSE LET tips == {x \in S : \A y \in S : x \notin past[y]}
             last == CHOOSE x \in tips : \A y \in tips : hash[x] >= hash[y]
         IN  Append(TopologicalSort(S \ {last}, past, hash), last)

\* get_era_genesis_block_with_parent: the ancestor of the parent on the last
\* era boundary.
EraBlocks(net, chain) ==
    LET height(b) == Cardinality(chain[b]) - 1
    IN  [b \in DOMAIN net.parent |->
            IF b = Genesis THEN Genesis
            ELSE LET p == net.parent[b]
                 IN  CHOOSE x \in chain[p] :
                        height(x) = (height(p) \div net.era) * net.era]

\* compute_blockset_in_own_view_of_epoch: the blocks of the same era in
\* topological order, followed by the main block, cut to the last
\* EpochBlockBound of them; the others are skipped.
EpochOrder(b, blockset, past, hash, era) ==
    LET same == {x \in blockset[b] : era[x] = era[b]}
        all  == Append(TopologicalSort(same, past, hash), b)
        cut  == Max({0, Len(all) - EpochBlockBound})
    IN  [executed |-> SubSeq(all, cut + 1, Len(all)),
         skipped  |-> {all[i] : i \in 1..cut} \cup (blockset[b] \ same)]

\* The network with everything its headers determine.
Graph(net) ==
    LET chain    == Chains(net)
        referee  == Referees(net, chain)
        past     == Pasts(net, referee)
        blockset == [b \in DOMAIN net.parent |->
                        IF b = Genesis THEN {}
                        ELSE past[b] \ (past[net.parent[b]] \cup {net.parent[b]})]
        era      == EraBlocks(net, chain)
    IN  [parent |-> net.parent, referee |-> referee, timer |-> net.timer,
         heavy |-> net.heavy, adaptive |-> net.adaptive, diff |-> net.diff,
         target |-> net.target, hash |-> net.hash, blamed |-> net.blamed,
         beta |-> net.beta, era |-> net.era,
         restarts |-> net.restarts, jobs |-> net.jobs,
         chain |-> chain, past |-> past, blockset |-> blockset,
         height |-> [b \in DOMAIN net.parent |-> Cardinality(chain[b]) - 1],
         epoch |-> [b \in DOMAIN net.parent |->
                        EpochOrder(b, blockset, past, net.hash, era)]]
=============================================================================
