------------------------------- MODULE Ledger -------------------------------
(***************************************************************************)
(* The block tree a Scytale node can be shown, and the rules by which a    *)
(* block changes the UTXO set: crates/scytale-core (block.rs, utxo.rs,     *)
(* transaction.rs) and the stateless half of crates/scytale-consensus.     *)
(*                                                                         *)
(* Everything here is a constant: a block is content addressed, so its     *)
(* parent, its transactions and the outcome of every check that looks only *)
(* at the block and its ancestors are fixed by its hash.  The modules that *)
(* EXTEND this one add what a node does with blocks.                       *)
(***************************************************************************)
EXTENDS Integers, FiniteSets, Sequences, FiniteSetsExt

CONSTANTS
  Block,        \* block hashes
  Genesis,      \* block 0
  NoHash,       \* Hash256::ZERO, the parent hash of block 0
  Parent,       \* header.previous_block_hash
  Work,         \* block_work of the header's target
  MaxWork,      \* the largest CumulativeWork: 2^256 - 1 in the code
  Tx,           \* transaction ids
  Body,         \* the block's transactions, the coinbase first
  OutPoint,     \* <<txid, index>> pairs
  Ins,          \* the outpoints a transaction spends; {} for a coinbase
  Outs,         \* the outpoints it creates
  OpReturn,     \* outpoints whose locking condition starts with 0x6a
  Value,        \* the quanta an outpoint carries
  UtxoRoot,     \* the UTXO set header.utxo_root commits to
  WellFormed,   \* blocks that pass Block::validate_structure
  GoodHeader,   \* blocks whose target, proof of work and time fit the parent path
  Committed,    \* blocks whose tx commitment matches and whose lock times are met
  ScriptsOk,    \* blocks whose scripts and contracts succeed on their inputs, at the height
                \* of the block and at the height its coinbase states
  Dust,         \* DUST_THRESHOLD
  InitialSubsidy,   \* INITIAL_SUBSIDY, in quanta
  HalvingInterval   \* HALVING_INTERVAL, in blocks

(***************************************************************************)
(* The tree.  Functions on Block recurse along Parent.                     *)
(***************************************************************************)

\* BlockNode.height
Height[b \in Block] == IF b = Genesis THEN 0 ELSE Height[Parent[b]] + 1

\* BlockNode.cumulative_work
CumWork[b \in Block] ==
  IF b = Genesis THEN Work[b] ELSE CumWork[Parent[b]] + Work[b]

\* get_path_from_genesis, as the set of blocks on it
Path[b \in Block] == IF b = Genesis THEN {b} ELSE Path[Parent[b]] \cup {b}

\* The blocks of a piece of a branch from the lowest up: a parent before its child.
ByHeight(S) ==
  LET lowest == Min({Height[a] : a \in S})
  IN  [i \in 1 .. Cardinality(S) |-> CHOOSE a \in S : Height[a] = lowest + i - 1]

(***************************************************************************)
(* Values.                                                                 *)
(***************************************************************************)

Quanta(S) == MapThenSumSet(LAMBDA o : Value[o], S)

\* get_block_subsidy: halvings by shifting, nothing from the 64th on
Subsidy(h) ==
  LET halvings == h \div HalvingInterval
  IN  IF halvings >= 64 THEN 0 ELSE InitialSubsidy \div (2 ^ halvings)

Fees(b) ==
  MapThenSumSet(LAMBDA i : Quanta(Ins[Body[b][i]]) - Quanta(Outs[Body[b][i]]),
                2 .. Len(Body[b]))

\* Mutant of RewardOk: the coinbase amount is not checked.
MutAnyReward(b) == TRUE

\* The coinbase pays itself no more than the subsidy and the block's fees.
RewardOk(b) == Quanta(Outs[Body[b][1]]) <= Subsidy(Height[b]) + Fees(b)

(***************************************************************************)
(* Applying a block to a UTXO set.                                         *)
(***************************************************************************)

\* The outputs of t that enter the UTXO set: data carriers do not.
Made(t) == Outs[t] \ OpReturn

Creates(b) == UNION {Made(Body[b][i]) : i \in DOMAIN Body[b]}
Spends(b)  == UNION {Ins[Body[b][i]] : i \in DOMAIN Body[b]}

\* The staged set when the i-th transaction of b is reached.
StagedAt(U, b, i) ==
  (U \cup UNION {Made(Body[b][j]) : j \in 1 .. i - 1})
     \ UNION {Ins[Body[b][j]] : j \in 1 .. i - 1}

\* Every input is there and no output is there already, in block order.
Fits(b, U) ==
  \A i \in DOMAIN Body[b] :
    LET t == Body[b][i] IN
      /\ Ins[t] \subseteq StagedAt(U, b, i)
      /\ Made(t) \cap (StagedAt(U, b, i) \ Ins[t]) = {}

\* Transaction::validate_stateless: inputs there are, and no output is dust
Stateless(t) == Ins[t] # {} /\ \A o \in Made(t) : Value[o] >= Dust

\* No transaction but the coinbase creates value; no output is worth nothing.
Conserves(b) ==
  /\ \A o \in Made(Body[b][1]) : Value[o] > 0
  /\ \A i \in 2 .. Len(Body[b]) :
       /\ Stateless(Body[b][i])
       /\ Quanta(Outs[Body[b][i]]) <= Quanta(Ins[Body[b][i]])

\* UtxoSet::apply_block succeeds
Applies(b, U) == Fits(b, U) /\ Conserves(b)

\* UtxoSet::apply_block, when it succeeds
Apply(b, U) == (U \cup Creates(b)) \ Spends(b)

\* Replaying the blocks on the path of b into an empty UTXO set.
LedgerAt[b \in Block] ==
  IF b = Genesis THEN Apply(b, {}) ELSE Apply(b, LedgerAt[Parent[b]])

\* The UTXO set b was built on, as a replay finds it.
LedgerBefore(b) == IF b = Genesis THEN {} ELSE LedgerAt[Parent[b]]

\* The replay of get_path_from_genesis(b) meets no error.
Replays(b) == \A a \in Path[b] : Applies(a, LedgerBefore(a))

(***************************************************************************)
(* The verdicts on a block given the UTXO set below it.                    *)
(***************************************************************************)

\* validate_block_authoritative_with_headers
Authoritative(b, U) ==
  /\ b \in WellFormed
  /\ b \in Committed
  /\ Applies(b, U)
  /\ RewardOk(b)

\* NodeBlockVerifier and Node::validate_block_transactions: scripts, contracts
\* and gas, but not the conservation of value
ScriptsVerify(b, U) == b \in ScriptsOk /\ Fits(b, U)

RootMatches(b, U) == UtxoRoot[b] = Apply(b, U)

\* What each block of a branch must pass when the branch is connected.
Connectable(b, U) == Authoritative(b, U) /\ ScriptsVerify(b, U) /\ RootMatches(b, U)

\* A block that deserves a place on the canonical chain, ancestors aside.
Sound(b) == b = Genesis \/ Connectable(b, LedgerBefore(b))

(***************************************************************************)
(* Assumptions.  Hash links make Block a finite tree rooted at Genesis;    *)
(* the recursive functions above are then what their definitions say.      *)
(***************************************************************************)

ASSUME TreeAssumption ==
  /\ Genesis \in Block
  /\ NoHash \notin Block
  /\ IsFiniteSet(Block)
  /\ Parent \in [Block -> Block \cup {NoHash}]
  /\ \A b \in Block : Parent[b] = NoHash <=> b = Genesis
  /\ Work \in [Block -> Nat \ {0}]
  /\ MaxWork \in Nat

ASSUME RecursionAssumption ==
  /\ \A b \in Block : Height[b] \in Nat
  /\ Height[Genesis] = 0
  /\ CumWork[Genesis] = Work[Genesis]
  /\ Path[Genesis] = {Genesis}
  /\ LedgerAt[Genesis] = Apply(Genesis, {})
  /\ \A b \in Block \ {Genesis} :
       /\ Height[b] = Height[Parent[b]] + 1
       /\ CumWork[b] = CumWork[Parent[b]] + Work[b]
       /\ Path[b] = Path[Parent[b]] \cup {b}
       /\ LedgerAt[b] = Apply(b, LedgerAt[Parent[b]])

ASSUME TransactionAssumption ==
  /\ Body \in [Block -> Seq(Tx)]
  /\ \A b \in Block : Body[b] # << >> /\ Ins[Body[b][1]] = {}
  /\ Ins \in [Tx -> SUBSET OutPoint]
  /\ Outs \in [Tx -> SUBSET OutPoint]
  /\ OpReturn \subseteq OutPoint
  /\ UtxoRoot \in [Block -> SUBSET OutPoint]

ASSUME ValueAssumption ==
  /\ Value \in [OutPoint -> Nat]
  /\ \A t \in Tx : IsFiniteSet(Outs[t])
  /\ InitialSubsidy \in Nat
  /\ HalvingInterval \in Nat \ {0}

ASSUME GenesisAssumption == Applies(Genesis, {})
=============================================================================
