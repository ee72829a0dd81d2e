------------------------------ MODULE ChainTree ------------------------------
(***************************************************************************)
(* crates/scytale-consensus/src/chain.rs: the in-memory tree of blocks,    *)
(* the canonical tip chosen by cumulative work, and the UTXO set that      *)
(* process_block_with_verifier moves with it.                              *)
(*                                                                         *)
(* process_block is called under the node's chain and UTXO locks, so one   *)
(* call is one step.  Blocks arrive in any order and any number of times.  *)
(* Each action is one way a call can end; its guard is the conjunction of  *)
(* the checks passed before that return, in the order of the code.         *)
(***************************************************************************)
EXTENDS Ledger

CONSTANT MaxReorgDepth    \* max_reorg_depth

ASSUME DepthAssumption == MaxReorgDepth \in Nat

VARIABLES
  nodes,    \* hashes with a BlockNode in the tree
  tip,      \* canonical_tip
  invalid,  \* invalid_blocks
  utxo      \* the UTXO set the caller passes in

chainVars == <<nodes, tip, invalid, utxo>>

(***************************************************************************)
(* What process_block looks at.                                            *)
(***************************************************************************)

\* Neither the block nor its parent is flagged, its structure is sound and it
\* is new.
Admissible(b) ==
  /\ b \notin invalid
  /\ Parent[b] \notin invalid
  /\ b \in WellFormed
  /\ b \notin nodes

\* Mutant of ParentUtxo: the live set even below a fork.
MutLiveParentUtxo(b) == utxo

\* The UTXO set below b: the live one under a child of the tip, else a replay.
ParentUtxo(b) == IF Parent[b] = tip THEN utxo ELSE LedgerAt[Parent[b]]

\* The parent is known, the header fits it and the parent's state can be built.
Linked(b) ==
  /\ Admissible(b)
  /\ Parent[b] \in nodes
  /\ b \in GoodHeader
  /\ Parent[b] = tip \/ Replays(Parent[b])

\* b may enter the tree: it is valid on its parent and its work can be summed.
Accepted(b) ==
  /\ Linked(b)
  /\ Authoritative(b, ParentUtxo(b))
  /\ CumWork[b] <= MaxWork

Heavier(b) == CumWork[b] > CumWork[tip]

\* Blocks to disconnect and to connect when the tip moves from t to b; the
\* last block the two paths share is find_common_ancestor's answer.
Disconnected(t, b) == Path[t] \ Path[b]
Connected(t, b)    == Path[b] \ Path[t]

\* Mutant of TooDeep: the limit itself is refused.
MutDepthOffByOne(b) == Cardinality(Disconnected(tip, b)) >= MaxReorgDepth

TooDeep(b) == Cardinality(Disconnected(tip, b)) > MaxReorgDepth

\* Mutant of Faulty: only the candidate is validated, not its branch.
MutOnlyCandidate(b) == {a \in {b} : ~ Connectable(a, ParentUtxo(a))}

\* Blocks of the branch that fail when it is connected block by block.  Only b
\* itself can be a child of the tip, so ParentUtxo is the staged set of each.
Faulty(b) == {a \in Connected(tip, b) : ~ Connectable(a, ParentUtxo(a))}

\* The block the loop stops at: the lowest that fails.
FirstFaulty(a, b) ==
  /\ a \in Faulty(b)
  /\ \A c \in Faulty(b) : Height[a] <= Height[c]

(***************************************************************************)
(* The actions.                                                            *)
(***************************************************************************)

\* A child of a flagged block is flagged.
FlagChild(b) ==
  /\ b \notin invalid
  /\ Parent[b] \in invalid
  /\ invalid' = invalid \cup {b}
  /\ UNCHANGED <<nodes, tip, utxo>>

\* Authoritative validation on the parent state fails: flagged.
FlagUnauthoritative(b) ==
  /\ Linked(b)
  /\ ~ Authoritative(b, ParentUtxo(b))
  /\ invalid' = invalid \cup {b}
  /\ UNCHANGED <<nodes, tip, utxo>>

\* No more work than the tip: kept as a side branch (first seen wins a tie).
StoreSideBranch(b) ==
  /\ Accepted(b)
  /\ ~ Heavier(b)
  /\ nodes' = nodes \cup {b}
  /\ UNCHANGED <<tip, invalid, utxo>>

\* More work, but too many blocks to undo: archived, ReorgDepthExceeded.
ArchiveDeepFork(b) ==
  /\ Accepted(b)
  /\ Heavier(b)
  /\ TooDeep(b)
  /\ nodes' = nodes \cup {b}
  /\ UNCHANGED <<tip, invalid, utxo>>

\* A block of the branch fails while it is connected: it and b are flagged.
FlagBranch(b) ==
  /\ Accepted(b)
  /\ Heavier(b)
  /\ ~ TooDeep(b)
  /\ \E a \in Block : FirstFaulty(a, b) /\ invalid' = invalid \cup {a, b}
  /\ UNCHANGED <<nodes, tip, utxo>>

\* The branch of b would become canonical.
Connects(b) ==
  /\ Accepted(b)
  /\ Heavier(b)
  /\ ~ TooDeep(b)
  /\ Faulty(b) = {}

\* Mutant of ConnectBranch: the block is applied to the live UTXO set.
MutConnectOnLive(b) ==
  /\ Connects(b)
  /\ nodes' = nodes \cup {b}
  /\ tip' = b
  /\ utxo' = Apply(b, utxo)
  /\ UNCHANGED invalid

\* The branch becomes canonical.
ConnectBranch(b) ==
  /\ Connects(b)
  /\ nodes' = nodes \cup {b}
  /\ tip' = b
  /\ utxo' = Apply(b, ParentUtxo(b))
  /\ UNCHANGED invalid

\* Every other return leaves the tree as it is: a flagged or malformed block,
\* a duplicate, an unknown parent, a bad header, a work overflow.
RefuseBlock(b) ==
  /\ b \in invalid \/ Parent[b] \notin invalid
  /\ Linked(b) => Authoritative(b, ParentUtxo(b)) /\ CumWork[b] > MaxWork
  /\ UNCHANGED chainVars

ChainInit ==
  /\ nodes = {Genesis}
  /\ tip = Genesis
  /\ invalid = {}
  /\ utxo = Apply(Genesis, {})

ProcessBlock(b) ==
  \/ FlagChild(b)
  \/ FlagUnauthoritative(b)
  \/ StoreSideBranch(b)
  \/ ArchiveDeepFork(b)
  \/ FlagBranch(b)
  \/ ConnectBranch(b)
  \/ RefuseBlock(b)

ChainNext == \E b \in Block : ProcessBlock(b)

ChainSpec == ChainInit /\ [][ChainNext]_chainVars

(***************************************************************************)
(* Properties.                                                             *)
(***************************************************************************)

\* Types of the tree, the flags and the UTXO set.
ChainTypeOK ==
  /\ nodes \subseteq Block
  /\ tip \in nodes
  /\ invalid \subseteq Block
  /\ utxo \subseteq OutPoint

\* The tree is a tree: the path of every stored block is stored, so walking
\* parent links from any node reaches block 0 (get_path_from_genesis).
PathsStored == \A n \in nodes : Path[n] \subseteq nodes

\* Nothing in the tree is built on the canonical tip, so a branch that is being
\* connected never starts inside the live UTXO set.
TipIsLeaf == \A n \in nodes : Parent[n] # tip

\* The UTXO set that reorganisations stage and swap in is the one a replay of
\* the canonical path from block 0 produces.
UtxoIsReplay == utxo = LedgerAt[tip]

\* Replaying the path of any block in the tree meets no error: a fork stored
\* for later never makes process_block fail on its own history.
StoredReplays == \A n \in nodes : Replays(n)

\* Fail closed: every block below the tip passes the whole validation (scripts
\* and UTXO root included) on the state its parent left, though side branches
\* are stored after the authoritative half only.
CanonicalSound == \A a \in Path[tip] : Sound(a)

\* Whatever arrives in whatever order, the tree, the tip and the live UTXO set fit together:
\* all of the above at once.
ChainConsistent ==
  /\ ChainTypeOK
  /\ PathsStored
  /\ TipIsLeaf
  /\ UtxoIsReplay
  /\ StoredReplays
  /\ CanonicalSound

\* A flag is deserved: a flagged block or one of its ancestors fails validation
\* on its own history, whatever else had been received when it was flagged.
FlagsJustified == \A b \in invalid : \E a \in Path[b] : ~ Sound(a)

\* No inflation: the coins in the UTXO set are at most the genesis outputs and
\* the subsidies of the canonical path.
NoInflation ==
  Quanta(utxo) <= Quanta(Outs[Body[Genesis][1]])
                  + MapThenSumSet(LAMBDA a : Subsidy(Height[a]), Path[tip] \ {Genesis})

\* Block work is the same everywhere: no retarget in the window.
UniformWork == \A b \in Block : Work[b] = Work[Genesis]

\* While the difficulty is constant, a known block with more work than the tip
\* lies across a fork deeper than max_reorg_depth.
HeaviestWithinReach ==
  UniformWork =>
    \A n \in nodes :
      CumWork[n] > CumWork[tip] => Cardinality(Disconnected(tip, n)) > MaxReorgDepth
=============================================================================
