----------------------------- MODULE MCChainTree -----------------------------
(* ChainTree over the blocks of MCUniverse. *)
EXTENDS ChainTree, MCUniverse

\* An honest header commits to the UTXO set after the block.
MCUtxoRoot == [b \in Block |-> IF b \in MCBadRoot THEN {} ELSE LedgerAt[b]]

\* The order of the block hashes: the d branch has the smaller ones.
MCHashOrder == [b \in Block |-> IF b \in {"d1", "d2", "d3"} THEN 0 ELSE 1]

\* docs/protocol/consensus.md, section 4: of two branches with the same total
\* work the one with the lexicographically smallest block hash is canonical.
SmallestHashWinsTie ==
  \A n \in nodes :
    /\ CumWork[n] = CumWork[tip]
    /\ \A a \in Path[n] : Sound(a)
    => MCHashOrder[tip] <= MCHashOrder[n]
=============================================================================
