--------------------------- MODULE ChainTreeProofs ---------------------------
(***************************************************************************)
(* Proofs about ChainTree, for every block tree and every max_reorg_depth. *)
(*                                                                         *)
(* The inductive invariant adds to the properties the shape of the stored  *)
(* paths (StoredShape), which is proved along with them: a block enters    *)
(* the tree only after its parent, so facts about paths need no induction  *)
(* of their own.                                                           *)
(***************************************************************************)
EXTENDS ChainTree, LedgerTheorems

\* Shape of the paths of stored blocks: they start at block 0, are closed under
\* taking paths, and are chains; work, height and ledger have their types.
StoredShape ==
  /\ Genesis \in nodes
  /\ \A n \in nodes :
       /\ Path[n] \subseteq nodes
       /\ n \in Path[n]
       /\ Genesis \in Path[n]
       /\ CumWork[n] \in Nat
       /\ Height[n] \in Nat
       /\ LedgerAt[n] \subseteq OutPoint
       /\ \A x \in Path[n] : Path[x] \subseteq Path[n]
       /\ \A x, y \in Path[n] : x \in Path[y] \/ y \in Path[x]

\* The tree, whatever set of coins the caller passes in.
TreeShape ==
  /\ ChainTypeOK
  /\ StoredShape
  /\ TipIsLeaf
  /\ StoredReplays
  /\ CanonicalSound

TreeIInv == TreeShape /\ UtxoIsReplay

\* The set that b is validated on is the replay of its parent.
RightParent(b) == ParentUtxo(b) = LedgerAt[Parent[b]]

-----------------------------------------------------------------------------

\* The set a block is validated on is the replay of its parent, live or not.
LEMMA ParentUtxoIsReplay ==
  ASSUME UtxoIsReplay, NEW b \in Block
  PROVE  RightParent(b) /\ ParentUtxo(b) = LedgerAt[Parent[b]]
BY DEF UtxoIsReplay, ParentUtxo, RightParent

\* A block that may enter the tree has a stored parent and is not block 0.
LEMMA LinkedFacts ==
  ASSUME StoredShape, NEW b \in Block, Linked(b)
  PROVE  /\ b # Genesis
         /\ b \notin nodes
         /\ Parent[b] \in nodes
BY DEF StoredShape, Linked, Admissible

-----------------------------------------------------------------------------

\* A tree that holds block 0 alone satisfies the inductive invariant.
LEMMA InitIInv == ChainInit => TreeIInv
<1> SUFFICES ASSUME ChainInit PROVE TreeIInv
  OBVIOUS
<1> USE DEF ChainInit
<1>1. ChainTypeOK
  <2>1. Genesis \in Block
    BY TreeAssumption
  <2>2. Apply(Genesis, {}) \subseteq OutPoint
    BY <2>1, ApplyType
  <2> QED BY <2>1, <2>2 DEF ChainTypeOK
<1>2. StoredShape
  BY <1>1, TreeAssumption, RecursionAssumption DEF StoredShape, ChainTypeOK
<1>3. TipIsLeaf
  BY TreeAssumption DEF TipIsLeaf
<1>4. UtxoIsReplay
  BY RecursionAssumption DEF UtxoIsReplay
<1>5. StoredReplays
  BY GenesisAssumption, RecursionAssumption DEF StoredReplays, Replays, LedgerBefore
<1>6. CanonicalSound
  BY RecursionAssumption DEF CanonicalSound, Sound
<1> QED BY <1>1, <1>2, <1>3, <1>4, <1>5, <1>6 DEF TreeIInv, TreeShape

\* Inserting an accepted block keeps the shape of the tree.
LEMMA InsertShape ==
  ASSUME ChainTypeOK, StoredShape, NEW b \in Block, Linked(b),
         nodes' = nodes \cup {b}
  PROVE  StoredShape'
<1>1. b # Genesis /\ b \notin nodes /\ Parent[b] \in nodes
  BY LinkedFacts
<1>2. /\ Path[b] = Path[Parent[b]] \cup {b}
      /\ CumWork[b] = CumWork[Parent[b]] + Work[b]
      /\ Work[b] \in Nat \ {0}
      /\ Height[b] = Height[Parent[b]] + 1
      /\ LedgerAt[b] = Apply(b, LedgerAt[Parent[b]])
  BY <1>1, Unfold
<1>3. /\ Path[b] \subseteq nodes'
      /\ b \in Path[b]
      /\ Genesis \in Path[b]
      /\ CumWork[b] \in Nat
      /\ Height[b] \in Nat
  BY <1>1, <1>2 DEF StoredShape
<1>4. \A x \in Path[b] : Path[x] \subseteq Path[b]
  BY <1>1, <1>2 DEF StoredShape
<1>5. \A x, y \in Path[b] : x \in Path[y] \/ y \in Path[x]
  BY <1>1, <1>2, <1>3 DEF StoredShape
<1>6. LedgerAt[b] \subseteq OutPoint
  BY <1>1, <1>2, ApplyType DEF StoredShape
<1> QED BY <1>3, <1>4, <1>5, <1>6 DEF StoredShape

\* Inserting an accepted block keeps every stored path replayable.
LEMMA InsertReplays ==
  ASSUME ChainTypeOK, StoredShape, StoredReplays,
         NEW b \in Block, RightParent(b), Linked(b), Authoritative(b, ParentUtxo(b)),
         nodes' = nodes \cup {b}
  PROVE  StoredReplays'
<1>1. b # Genesis /\ Parent[b] \in nodes
  BY LinkedFacts
<1>2. Applies(b, LedgerBefore(b))
  BY <1>1, Unfold DEF Authoritative, RightParent
<1>3. Replays(b)
  BY <1>1, <1>2, Unfold DEF StoredReplays, Replays
<1> QED BY <1>3 DEF StoredReplays

\* Flagging blocks leaves the tree alone.
LEMMA FlagStep ==
  ASSUME TreeShape, UNCHANGED <<nodes, tip>>, invalid' \subseteq Block, utxo' \subseteq OutPoint
  PROVE  TreeShape'
<1>1. ChainTypeOK' /\ StoredShape' /\ TipIsLeaf'
  BY DEF TreeShape, ChainTypeOK, StoredShape, TipIsLeaf
<1>2. StoredReplays' /\ CanonicalSound'
  BY DEF TreeShape, StoredReplays, CanonicalSound
<1> QED BY <1>1, <1>2 DEF TreeShape

\* The three ways process_block flags a block.
LEMMA FlaggingStep ==
  ASSUME TreeShape, NEW b \in Block,
         FlagChild(b) \/ FlagUnauthoritative(b) \/ FlagBranch(b)
  PROVE  TreeShape'
<1>1. UNCHANGED <<nodes, tip, utxo>> /\ invalid' \subseteq Block /\ utxo' \subseteq OutPoint
  BY DEF TreeShape, ChainTypeOK, FlagChild, FlagUnauthoritative, FlagBranch
<1> QED BY <1>1, FlagStep

\* Storing a block that is no child of the tip.
LEMMA StoreStep ==
  ASSUME TreeShape, NEW b \in Block, RightParent(b), Accepted(b), Parent[b] # tip,
         nodes' = nodes \cup {b}, UNCHANGED <<tip, invalid, utxo>>
  PROVE  TreeShape'
<1>1. Linked(b) /\ Authoritative(b, ParentUtxo(b))
  BY DEF Accepted
<1>2. StoredShape'
  BY <1>1, InsertShape DEF TreeShape
<1>3. StoredReplays'
  BY <1>1, InsertReplays DEF TreeShape
<1>4. ChainTypeOK' /\ TipIsLeaf'
  BY DEF TreeShape, ChainTypeOK, TipIsLeaf
<1>5. CanonicalSound'
  BY DEF TreeShape, CanonicalSound
<1> QED BY <1>2, <1>3, <1>4, <1>5 DEF TreeShape

\* A side branch of no more work is stored; it is no child of the tip, which it
\* does not outweigh.
LEMMA StoreSideBranchStep ==
  ASSUME TreeShape, NEW b \in Block, StoreSideBranch(b)
  PROVE  TreeShape'
<1>1. Accepted(b) /\ Linked(b)
  BY DEF StoreSideBranch, Accepted
<1>2. b # Genesis /\ Parent[b] \in nodes
  BY <1>1, LinkedFacts DEF TreeShape
<1>3. Parent[b] # tip
  <2> SUFFICES ASSUME Parent[b] = tip PROVE FALSE
    OBVIOUS
  <2>1. CumWork[b] = CumWork[tip] + Work[b] /\ Work[b] \in Nat \ {0}
    BY <1>2, Unfold
  <2>2. CumWork[tip] \in Nat
    BY DEF TreeShape, ChainTypeOK, StoredShape
  <2> QED BY <2>1, <2>2 DEF StoreSideBranch, Heavier
<1>4. RightParent(b)
  BY <1>3 DEF RightParent, ParentUtxo
<1> QED BY <1>1, <1>3, <1>4, StoreStep DEF StoreSideBranch

\* A fork too deep to switch to is stored; undoing a block, it is no child of
\* the tip.
LEMMA ArchiveDeepForkStep ==
  ASSUME TreeShape, NEW b \in Block, ArchiveDeepFork(b)
  PROVE  TreeShape'
<1>1. Accepted(b) /\ Linked(b)
  BY DEF ArchiveDeepFork, Accepted
<1>2. b # Genesis /\ Parent[b] \in nodes
  BY <1>1, LinkedFacts DEF TreeShape
<1>3. Parent[b] # tip
  <2> SUFFICES ASSUME Parent[b] = tip PROVE FALSE
    OBVIOUS
  <2>1. Disconnected(tip, b) = {}
    BY <1>2, Unfold DEF Disconnected
  <2> QED BY <2>1, FS_EmptySet, DepthAssumption DEF ArchiveDeepFork, TooDeep
<1>4. RightParent(b)
  BY <1>3 DEF RightParent, ParentUtxo
<1> QED BY <1>1, <1>3, <1>4, StoreStep DEF ArchiveDeepFork

\* The branch that becomes canonical was valid block by block, and the staged
\* UTXO set is its replay.
LEMMA ConnectBranchStep ==
  ASSUME TreeShape, NEW b \in Block, RightParent(b), ConnectBranch(b)
  PROVE  TreeShape' /\ UtxoIsReplay'
<1>1. /\ Linked(b)
      /\ Authoritative(b, ParentUtxo(b))
      /\ Faulty(b) = {}
      /\ nodes' = nodes \cup {b}
      /\ tip' = b
      /\ utxo' = Apply(b, ParentUtxo(b))
      /\ invalid' = invalid
  BY DEF ConnectBranch, Connects, Accepted
<1>2. b # Genesis /\ b \notin nodes /\ Parent[b] \in nodes
  BY <1>1, LinkedFacts DEF TreeShape
<1>3. ParentUtxo(b) = LedgerAt[Parent[b]]
  BY DEF RightParent
<1>4. UtxoIsReplay'
  BY <1>1, <1>2, <1>3, Unfold DEF UtxoIsReplay
<1>5. StoredShape'
  BY <1>1, InsertShape DEF TreeShape
<1>6. StoredReplays'
  BY <1>1, InsertReplays DEF TreeShape
<1>7. TipIsLeaf'
  <2> SUFFICES ASSUME NEW n \in nodes \cup {b}, Parent[n] = b PROVE FALSE
    BY <1>1 DEF TipIsLeaf
  <2>1. n \in nodes
    BY <1>2
  <2>2. n \in Block /\ n # Genesis
    BY <2>1, TreeAssumption DEF TreeShape, ChainTypeOK
  <2>3. b \in Path[b]
    BY <1>2, Unfold
  <2>4. b \in Path[n]
    BY <2>2, <2>3, Unfold
  <2> QED BY <1>2, <2>1, <2>4 DEF TreeShape, StoredShape
<1>8. CanonicalSound'
  <2> SUFFICES ASSUME NEW a \in Path[b], a # Genesis PROVE Sound(a)
    BY <1>1 DEF CanonicalSound, Sound
  <2>1. CASE a \in Path[tip]
    BY <2>1 DEF TreeShape, CanonicalSound
  <2>2. CASE a \notin Path[tip]
    <3>1. Connectable(a, ParentUtxo(a))
      BY <1>1, <2>2 DEF Faulty, Connected
    <3>2. a \in Block
      BY <1>1, <1>5 DEF StoredShape, TreeShape, ChainTypeOK
    <3>3. ParentUtxo(a) = LedgerAt[Parent[a]]
      <4>1. a = b \/ a \in nodes
        BY <1>1, <1>5 DEF StoredShape
      <4> QED BY <1>3, <4>1 DEF TreeShape, TipIsLeaf, ParentUtxo
    <3> QED BY <3>1, <3>2, <3>3, Unfold DEF Sound
  <2> QED BY <2>1, <2>2
<1>9. ChainTypeOK'
  <2>1. ParentUtxo(b) \subseteq OutPoint
    <3>1. CASE Parent[b] = tip
      BY <3>1 DEF ParentUtxo, TreeShape, ChainTypeOK
    <3>2. CASE Parent[b] # tip
      BY <1>2, <1>3 DEF TreeShape, StoredShape
    <3> QED BY <3>1, <3>2
  <2>2. utxo' \subseteq OutPoint
    BY <1>1, <2>1, ApplyType
  <2> QED BY <1>1, <2>2 DEF TreeShape, ChainTypeOK
<1> QED BY <1>4, <1>5, <1>6, <1>7, <1>8, <1>9 DEF TreeShape

\* Every call that connects a block on the right set only keeps the shape of the tree,
\* and a new tip brings its own replay.
LEMMA ProcessShape ==
  ASSUME TreeShape, NEW b \in Block, ConnectBranch(b) => RightParent(b), ProcessBlock(b)
  PROVE  /\ TreeShape'
         /\ UNCHANGED <<tip, utxo>> \/ UtxoIsReplay'
<1>1. CASE RefuseBlock(b)
  BY <1>1, FlagStep DEF RefuseBlock, chainVars, TreeShape, ChainTypeOK
<1>2. UNCHANGED <<tip, utxo>> \/ ConnectBranch(b)
  BY DEF ProcessBlock, FlagChild, FlagUnauthoritative, StoreSideBranch, ArchiveDeepFork,
         FlagBranch, RefuseBlock, chainVars
<1> QED
  BY <1>1, <1>2, FlaggingStep, StoreSideBranchStep, ArchiveDeepForkStep, ConnectBranchStep
     DEF ProcessBlock

\* The invariant is a predicate of the tree and the UTXO set.
LEMMA StutterIInv ==
  ASSUME TreeIInv, UNCHANGED <<nodes, tip, invalid, utxo>>
  PROVE  TreeIInv'
<1>1. TreeShape'
  BY FlagStep DEF TreeIInv, TreeShape, ChainTypeOK
<1> QED BY <1>1 DEF TreeIInv, UtxoIsReplay

\* Every call keeps the invariant.
LEMMA ProcessIInv ==
  ASSUME TreeIInv, NEW b \in Block, ProcessBlock(b)
  PROVE  TreeIInv'
<1>1. RightParent(b) /\ TreeShape
  BY ParentUtxoIsReplay DEF TreeIInv
<1> QED BY <1>1, ProcessShape DEF TreeIInv, UtxoIsReplay

\* The invariant is inductive.
LEMMA NextIInv == TreeIInv /\ [ChainNext]_chainVars => TreeIInv'
<1> SUFFICES ASSUME TreeIInv, [ChainNext]_chainVars PROVE TreeIInv'
  OBVIOUS
<1>1. CASE UNCHANGED chainVars
  BY <1>1, StutterIInv DEF chainVars
<1>2. CASE ChainNext
  BY <1>2, ProcessIInv DEF ChainNext
<1> QED BY <1>1, <1>2

\* The inductive invariant holds of every behaviour of the tree.
LEMMA InvariantHolds == ChainSpec => []TreeIInv
BY InitIInv, NextIInv, PTL DEF ChainSpec

\* The variables of the tree keep their types: the tip is always a stored block.
THEOREM ChainTypeCorrect == ChainSpec => []ChainTypeOK
<1>1. TreeIInv => ChainTypeOK
  BY DEF TreeIInv, TreeShape
<1> QED BY <1>1, InvariantHolds, PTL

\* The live UTXO set is always the replay of the canonical path, through any
\* number of reorganisations.
THEOREM UtxoAlwaysReplay == ChainSpec => []UtxoIsReplay
<1>1. TreeIInv => UtxoIsReplay
  BY DEF TreeIInv, TreeShape
<1> QED BY <1>1, InvariantHolds, PTL

\* No stored block makes a replay fail.
THEOREM StoredAlwaysReplays == ChainSpec => []StoredReplays
<1>1. TreeIInv => StoredReplays
  BY DEF TreeIInv, TreeShape
<1> QED BY <1>1, InvariantHolds, PTL

\* Every block on the canonical path passes the full validation.
THEOREM CanonicalAlwaysSound == ChainSpec => []CanonicalSound
<1>1. TreeIInv => CanonicalSound
  BY DEF TreeIInv, TreeShape
<1> QED BY <1>1, InvariantHolds, PTL

\* The tree, the tip and the live UTXO set fit together: every part of ChainConsistent is in
\* the inductive invariant.
THEOREM ChainAlwaysConsistent == ChainSpec => []ChainConsistent
<1>1. TreeIInv => PathsStored
  BY DEF TreeIInv, TreeShape, StoredShape, PathsStored
<1>2. TreeIInv => ChainConsistent
  BY <1>1 DEF TreeIInv, TreeShape, ChainConsistent
<1> QED BY <1>2, InvariantHolds, PTL

\* Whatever process_block flags deserves it.
LEMMA FlagsStep ==
  ASSUME TreeIInv, FlagsJustified, NEW b \in Block, ProcessBlock(b)
  PROVE  FlagsJustified'
<1>1. ASSUME FlagChild(b) PROVE FlagsJustified'
  <2>1. Parent[b] \in Block /\ b # Genesis
    BY <1>1, TreeAssumption DEF TreeIInv, TreeShape, ChainTypeOK, FlagChild
  <2>2. \E a \in Path[b] : ~ Sound(a)
    BY <1>1, <2>1, Unfold DEF FlagsJustified, FlagChild
  <2> QED BY <1>1, <2>2 DEF FlagsJustified, FlagChild
<1>2. ASSUME FlagUnauthoritative(b) PROVE FlagsJustified'
  <2>1. b # Genesis /\ Parent[b] \in nodes
    BY <1>2, LinkedFacts DEF TreeIInv, TreeShape, FlagUnauthoritative
  <2>2. ~ Sound(b)
    BY <1>2, <2>1, Unfold, ParentUtxoIsReplay
       DEF TreeIInv, TreeShape, FlagUnauthoritative, Sound, Connectable
  <2>3. b \in Path[b]
    BY <2>1, Unfold
  <2> QED BY <1>2, <2>2, <2>3 DEF FlagsJustified, FlagUnauthoritative
<1>3. ASSUME FlagBranch(b) PROVE FlagsJustified'
  <2>1. PICK a \in Block : FirstFaulty(a, b) /\ invalid' = invalid \cup {a, b}
    BY <1>3 DEF FlagBranch
  <2>2. a \in Path[b] /\ a \notin Path[tip] /\ ~ Connectable(a, ParentUtxo(a))
    BY <2>1 DEF FirstFaulty, Faulty, Connected
  <2>3. a # Genesis
    BY <2>2 DEF TreeIInv, TreeShape, ChainTypeOK, StoredShape
  <2>4. ~ Sound(a)
    BY <2>2, <2>3, Unfold, ParentUtxoIsReplay DEF TreeIInv, TreeShape, Sound
  <2>5. a \in Path[a]
    BY <2>3, Unfold
  <2> QED BY <2>1, <2>2, <2>4, <2>5 DEF FlagsJustified
<1>4. CASE invalid' = invalid
  BY <1>4 DEF FlagsJustified
<1> QED
  BY <1>1, <1>2, <1>3, <1>4
     DEF ProcessBlock, StoreSideBranch, ArchiveDeepFork, ConnectBranch, RefuseBlock,
         chainVars

\* process_block flags only blocks that are invalid or descend from one.
THEOREM FlagsAlwaysJustified == ChainSpec => []FlagsJustified
<1>1. ChainInit => FlagsJustified
  BY DEF ChainInit, FlagsJustified
<1>2. TreeIInv /\ FlagsJustified /\ [ChainNext]_chainVars => FlagsJustified'
  <2> SUFFICES ASSUME TreeIInv, FlagsJustified, [ChainNext]_chainVars
               PROVE  FlagsJustified'
    OBVIOUS
  <2>1. CASE UNCHANGED chainVars
    BY <2>1 DEF chainVars, FlagsJustified
  <2>2. CASE ChainNext
    BY <2>2, FlagsStep DEF ChainNext
  <2> QED BY <2>1, <2>2
<1> QED BY <1>1, <1>2, InvariantHolds, PTL DEF ChainSpec

-----------------------------------------------------------------------------

\* Paths are finite sets of blocks.
LEMMA PathFinite ==
  ASSUME TreeIInv, NEW n \in nodes
  PROVE  IsFiniteSet(Path[n])
<1>1. Path[n] \subseteq Block
  BY DEF TreeIInv, TreeShape, ChainTypeOK, StoredShape
<1> QED BY <1>1, TreeAssumption, FS_Subset

-----------------------------------------------------------------------------

\* Under constant difficulty the work of a block counts the blocks on its path.
WorkCountsPath ==
  UniformWork =>
    \A n \in nodes : CumWork[n] = Cardinality(Path[n]) * Work[Genesis]

\* Under constant difficulty, more work means a longer path.
LEMMA WorkOrder ==
  ASSUME NEW m \in Nat, NEW n \in Nat, NEW w \in Nat \ {0}, m * w > n * w
  PROVE  m > n
<1> SUFFICES ASSUME m <= n PROVE FALSE
  OBVIOUS
<1>1. PICK d \in Nat : n = m + d
  BY n - m \in Nat, n = m + (n - m)
<1>2. n * w = m * w + d * w
  BY <1>1
<1>3. d * w \in Nat /\ m * w \in Nat
  OBVIOUS
<1> QED BY <1>2, <1>3

\* A branch across a fork too deep to reach stays out of reach when the tip
\* moves by a permitted reorganisation to a longer path.
LEMMA StaysOutOfReach ==
  ASSUME TreeIInv, NEW n \in nodes, NEW b \in Block,
         IsFiniteSet(Path[b]),
         \A x \in Path[b] : Path[x] \subseteq Path[b],
         \A x, y \in Path[b] : x \in Path[y] \/ y \in Path[x],
         Cardinality(Path[tip] \ Path[n]) > MaxReorgDepth,
         Cardinality(Path[tip] \ Path[b]) <= MaxReorgDepth,
         Cardinality(Path[b]) > Cardinality(Path[tip])
  PROVE  Cardinality(Path[b] \ Path[n]) > MaxReorgDepth
<1>0. tip \in nodes
  BY DEF TreeIInv, TreeShape, ChainTypeOK
<1>1. IsFiniteSet(Path[tip]) /\ IsFiniteSet(Path[n])
  BY <1>0, PathFinite
<1>2. Path[b] \cap Path[n] \subseteq Path[tip]
  <2> SUFFICES ASSUME NEW x \in Path[b], x \in Path[n], x \notin Path[tip]
               PROVE  FALSE
    OBVIOUS
  <2>1. ASSUME NEW y \in Path[tip], y \in Path[b] PROVE y \in Path[n]
    <3>1. Path[y] \subseteq Path[tip]
      BY <1>0, <2>1 DEF TreeIInv, TreeShape, StoredShape
    <3>2. y \in Path[x]
      BY <2>1, <3>1
    <3>3. Path[x] \subseteq Path[n]
      BY DEF TreeIInv, TreeShape, StoredShape
    <3> QED BY <3>2, <3>3
  <2>2. Path[tip] \ Path[n] \subseteq Path[tip] \ Path[b]
    BY <2>1
  <2>3. IsFiniteSet(Path[tip] \ Path[b])
    BY <1>1, FS_Difference
  <2>4. Cardinality(Path[tip] \ Path[n]) <= Cardinality(Path[tip] \ Path[b])
    BY <2>2, <2>3, FS_Subset
  <2>5. /\ Cardinality(Path[tip] \ Path[n]) \in Nat
        /\ Cardinality(Path[tip] \ Path[b]) \in Nat
    BY <1>1, FS_Difference, FS_CardinalityType
  <2> QED BY <2>4, <2>5, DepthAssumption
<1>3. Path[b] \cap Path[n] \subseteq Path[tip] \cap Path[n]
  BY <1>2
<1>4. IsFiniteSet(Path[tip] \cap Path[n]) /\ IsFiniteSet(Path[b] \cap Path[n])
  BY <1>1, FS_Intersection
<1>5. Cardinality(Path[b] \cap Path[n]) <= Cardinality(Path[tip] \cap Path[n])
  BY <1>3, <1>4, FS_Subset
<1>6. /\ Cardinality(Path[b] \ Path[n])
           = Cardinality(Path[b]) - Cardinality(Path[b] \cap Path[n])
      /\ Cardinality(Path[tip] \ Path[n])
           = Cardinality(Path[tip]) - Cardinality(Path[tip] \cap Path[n])
  BY <1>1, FS_Difference
<1>7. /\ Cardinality(Path[b]) \in Nat
      /\ Cardinality(Path[tip]) \in Nat
      /\ Cardinality(Path[b] \cap Path[n]) \in Nat
      /\ Cardinality(Path[tip] \cap Path[n]) \in Nat
  BY <1>1, <1>4, FS_CardinalityType
<1> QED BY <1>5, <1>6, <1>7, DepthAssumption

\* A block inserted under constant difficulty adds one block and its work.
LEMMA InsertCounts ==
  ASSUME TreeIInv, UniformWork, WorkCountsPath, NEW b \in Block, Linked(b)
  PROVE  /\ IsFiniteSet(Path[b])
         /\ CumWork[b] = Cardinality(Path[b]) * Work[Genesis]
<1>1. b # Genesis /\ b \notin nodes /\ Parent[b] \in nodes
  BY LinkedFacts DEF TreeIInv, TreeShape
<1> DEFINE P == Path[Parent[b]]
<1>2. /\ Path[b] = P \cup {b}
      /\ CumWork[b] = CumWork[Parent[b]] + Work[Genesis]
      /\ Work[Genesis] \in Nat
  BY <1>1, Unfold DEF UniformWork
<1>3. IsFiniteSet(P) /\ b \notin P
  BY <1>1, PathFinite DEF TreeIInv, TreeShape, StoredShape
<1>4. IsFiniteSet(Path[b]) /\ Cardinality(Path[b]) = Cardinality(P) + 1
  <2> HIDE DEF P
  <2>1. /\ IsFiniteSet(P \cup {b})
        /\ Cardinality(P \cup {b}) = IF b \in P THEN Cardinality(P) ELSE Cardinality(P) + 1
    BY <1>3, FS_AddElement
  <2> QED BY <1>2, <1>3, <2>1
<1>5. CumWork[Parent[b]] = Cardinality(P) * Work[Genesis] /\ Cardinality(P) \in Nat
  BY <1>1, <1>3, FS_CardinalityType DEF WorkCountsPath
<1>6. Cardinality(P) * Work[Genesis] + Work[Genesis]
        = (Cardinality(P) + 1) * Work[Genesis]
  BY <1>2, <1>5
<1> QED BY <1>2, <1>4, <1>5, <1>6

\* WorkCountsPath is kept by every step.
LEMMA CountsStep ==
  ASSUME TreeIInv, UniformWork, WorkCountsPath, [ChainNext]_chainVars
  PROVE  WorkCountsPath'
<1>1. \/ nodes' = nodes
      \/ \E b \in Block : Linked(b) /\ nodes' = nodes \cup {b}
  BY DEF ChainNext, ProcessBlock, FlagChild, FlagUnauthoritative, FlagBranch,
         StoreSideBranch, ArchiveDeepFork, ConnectBranch, Connects, Accepted,
         RefuseBlock, chainVars
<1>2. CASE nodes' = nodes
  BY <1>2 DEF WorkCountsPath
<1>3. ASSUME NEW b \in Block, Linked(b), nodes' = nodes \cup {b}
      PROVE  WorkCountsPath'
  BY <1>3, InsertCounts DEF WorkCountsPath
<1> QED BY <1>1, <1>2, <1>3

\* Moving the tip to b keeps every heavier block out of reach.
LEMMA ConnectReach ==
  ASSUME TreeIInv, UniformWork, WorkCountsPath, HeaviestWithinReach,
         NEW b \in Block, ConnectBranch(b)
  PROVE  HeaviestWithinReach'
<1>1. /\ Linked(b)
      /\ Heavier(b)
      /\ ~ TooDeep(b)
      /\ nodes' = nodes \cup {b}
      /\ tip' = b
  BY DEF ConnectBranch, Connects, Accepted
<1>2. StoredShape'
  BY <1>1, InsertShape DEF TreeIInv, TreeShape
<1>3. IsFiniteSet(Path[b]) /\ CumWork[b] = Cardinality(Path[b]) * Work[Genesis]
  BY <1>1, InsertCounts
<1>4. tip \in nodes /\ IsFiniteSet(Path[tip])
  BY PathFinite DEF TreeIInv, TreeShape, ChainTypeOK
<1>5. /\ Cardinality(Path[b]) \in Nat
      /\ Cardinality(Path[tip]) \in Nat
      /\ Cardinality(Path[tip] \ Path[b]) \in Nat
  BY <1>3, <1>4, FS_CardinalityType, FS_Difference
<1>6. Work[Genesis] \in Nat \ {0}
  BY TreeAssumption
<1>7. Cardinality(Path[b]) > Cardinality(Path[tip])
  <2>1. CumWork[tip] = Cardinality(Path[tip]) * Work[Genesis]
    BY <1>4 DEF WorkCountsPath
  <2> QED BY <1>1, <1>3, <1>5, <1>6, <2>1, WorkOrder DEF Heavier
<1>8. Cardinality(Path[tip] \ Path[b]) <= MaxReorgDepth
  BY <1>1, <1>5, DepthAssumption DEF TooDeep, Disconnected
<1> SUFFICES ASSUME NEW n \in nodes \cup {b}, CumWork[n] > CumWork[b]
             PROVE  Cardinality(Path[b] \ Path[n]) > MaxReorgDepth
  BY <1>1 DEF HeaviestWithinReach, Disconnected
<1>9. CumWork[b] \in Nat /\ CumWork[tip] \in Nat
  BY <1>1, <1>2, <1>4 DEF StoredShape, TreeIInv, TreeShape
<1>10. n \in nodes /\ CumWork[n] \in Nat
  BY <1>9 DEF TreeIInv, TreeShape, StoredShape
<1>11. CumWork[n] > CumWork[tip]
  BY <1>1, <1>9, <1>10 DEF Heavier
<1>12. Cardinality(Path[tip] \ Path[n]) > MaxReorgDepth
  BY <1>10, <1>11 DEF HeaviestWithinReach, Disconnected
<1>13. /\ \A x \in Path[b] : Path[x] \subseteq Path[b]
       /\ \A x, y \in Path[b] : x \in Path[y] \/ y \in Path[x]
  BY <1>1, <1>2 DEF StoredShape
<1> QED BY <1>3, <1>7, <1>8, <1>10, <1>12, <1>13, StaysOutOfReach

\* HeaviestWithinReach is kept by every step.
LEMMA ReachStep ==
  ASSUME TreeIInv, UniformWork, WorkCountsPath, HeaviestWithinReach,
         [ChainNext]_chainVars
  PROVE  HeaviestWithinReach'
<1>1. CASE nodes' = nodes /\ tip' = tip
  BY <1>1 DEF HeaviestWithinReach, Disconnected
<1>2. ASSUME NEW b \in Block, StoreSideBranch(b) PROVE HeaviestWithinReach'
  BY <1>2 DEF StoreSideBranch, Heavier, HeaviestWithinReach, Disconnected
<1>3. ASSUME NEW b \in Block, ArchiveDeepFork(b) PROVE HeaviestWithinReach'
  BY <1>3 DEF ArchiveDeepFork, TooDeep, HeaviestWithinReach, Disconnected
<1>4. \/ nodes' = nodes /\ tip' = tip
      \/ \E b \in Block : \/ StoreSideBranch(b)
                          \/ ArchiveDeepFork(b)
                          \/ ConnectBranch(b)
  BY DEF ChainNext, ProcessBlock, FlagChild, FlagUnauthoritative, FlagBranch,
         RefuseBlock, chainVars
<1> QED BY <1>1, <1>2, <1>3, <1>4, ConnectReach

\* While the difficulty is constant, every known block heavier than the tip lies
\* across a fork deeper than max_reorg_depth.
THEOREM TipHeaviestWithinReach == ChainSpec => []HeaviestWithinReach
<1>1. ChainInit => WorkCountsPath /\ HeaviestWithinReach
  <2> SUFFICES ASSUME ChainInit, UniformWork
               PROVE  WorkCountsPath /\ HeaviestWithinReach
    BY DEF WorkCountsPath, HeaviestWithinReach
  <2>1. Cardinality({Genesis}) = 1 /\ Work[Genesis] \in Nat
    BY FS_Singleton, TreeAssumption
  <2>2. /\ nodes = {Genesis}
        /\ tip = Genesis
        /\ Path[Genesis] = {Genesis}
        /\ CumWork[Genesis] = Work[Genesis]
    BY RecursionAssumption DEF ChainInit
  <2>3. CumWork[Genesis] = Cardinality(Path[Genesis]) * Work[Genesis]
    <3>1. Cardinality(Path[Genesis]) = 1
      BY <2>1, <2>2
    <3> QED BY <2>1, <2>2, <3>1
  <2>4. WorkCountsPath
    BY <2>2, <2>3 DEF WorkCountsPath
  <2>5. HeaviestWithinReach
    BY <2>1, <2>2 DEF HeaviestWithinReach
  <2> QED BY <2>4, <2>5
<1>2. ASSUME TreeIInv, WorkCountsPath, HeaviestWithinReach, [ChainNext]_chainVars
      PROVE  WorkCountsPath' /\ HeaviestWithinReach'
  <2>1. CASE ~ UniformWork
    BY <2>1 DEF WorkCountsPath, HeaviestWithinReach, UniformWork
  <2>2. CASE UniformWork
    BY <1>2, <2>2, CountsStep, ReachStep
  <2> QED BY <2>1, <2>2
<1> QED BY <1>1, <1>2, InvariantHolds, PTL DEF ChainSpec

-----------------------------------------------------------------------------
(***************************************************************************)
(* No inflation.  A block that applies leaves at most the coins there were *)
(* and what its coinbase pays, less the fees of its other transactions.    *)
(***************************************************************************)

\* The fees of the transactions after the coinbase.
Fee(b) == [i \in 2 .. Len(Body[b]) |-> Quanta(Ins[Body[b][i]]) - Quanta(Outs[Body[b][i]])]

Minted == [a \in Block |-> Subsidy(Height[a])]

\* What was stored is worth no more than block 0 paid and the subsidies since.
StoredWorth ==
  \A n \in nodes :
    /\ IsFiniteSet(LedgerAt[n])
    /\ Quanta(LedgerAt[n]) <= Quanta(Outs[Body[Genesis][1]]) + Total(Minted, Path[n] \ {Genesis})

\* get_block_subsidy is an amount at every height.
LEMMA SubsidyNat == ASSUME NEW h \in Nat PROVE Subsidy(h) \in Nat
<1> DEFINE k == h \div HalvingInterval
<1>1. k \in Nat
  BY ValueAssumption
<1>2. 2 ^ k \in Nat \ {0}
  <2>1. IsFiniteSet(1 .. k) /\ Cardinality(1 .. k) = k
    BY <1>1, FS_Interval
  <2>2. IsFiniteSet(SUBSET (1 .. k)) /\ Cardinality(SUBSET (1 .. k)) = 2 ^ k
    BY <2>1, FS_SUBSET
  <2>3. SUBSET (1 .. k) # {}
    OBVIOUS
  <2> HIDE DEF k
  <2> QED BY <2>2, <2>3, FS_CardinalityType, FS_EmptySet
<1>3. InitialSubsidy \div (2 ^ k) \in Nat
  <2> HIDE DEF k
  <2> QED BY <1>2, ValueAssumption
<1> QED BY <1>3 DEF Subsidy

\* A sum of coins is an amount, and is at most that of a larger set.
LEMMA QuantaFacts ==
  ASSUME NEW S \in SUBSET OutPoint, IsFiniteSet(S)
  PROVE  /\ Quanta(S) \in Nat
         /\ \A A \in SUBSET S : Quanta(A) <= Quanta(S) /\ Quanta(A) \in Nat
         /\ \A A \in SUBSET S : Quanta(S \ A) = Quanta(S) - Quanta(A)
<1>1. \A A : Quanta(A) = Total(Value, A)
  BY DEF Quanta, Total
<1>2. \A x \in S : Value[x] \in Nat /\ Value[x] \in Int
  BY ValueAssumption
<1>3. ASSUME NEW A \in SUBSET S PROVE Total(Value, A) \in Nat /\ Total(Value, A) <= Total(Value, S)
  BY <1>2, FS_Subset, TotalNat
<1>4. ASSUME NEW A \in SUBSET S PROVE Total(Value, S \ A) = Total(Value, S) - Total(Value, A)
  <2>1. IsFiniteSet(A) /\ IsFiniteSet(S \ A) /\ A \cap (S \ A) = {} /\ A \cup (S \ A) = S
    BY FS_Subset
  <2>2. Total(Value, A \cup (S \ A)) = Total(Value, A) + Total(Value, S \ A)
    BY <1>2, <2>1, TotalUnion
  <2>3. Total(Value, S) = Total(Value, A) + Total(Value, S \ A)
    BY <2>1, <2>2
  <2>4. Total(Value, A) \in Nat /\ Total(Value, S \ A) \in Nat
    BY <1>3
  <2> QED BY <2>3, <2>4
<1>5. Total(Value, S) \in Nat
  BY <1>3
<1> QED BY <1>1, <1>3, <1>4, <1>5

\* The coins of two sets together.
LEMMA QuantaUnion ==
  ASSUME NEW A \in SUBSET OutPoint, NEW B \in SUBSET OutPoint, IsFiniteSet(A), IsFiniteSet(B)
  PROVE  Quanta(A \cup B) <= Quanta(A) + Quanta(B)
<1>1. IsFiniteSet(A \cup B)
  BY FS_Union
<1>2. A \in SUBSET (A \cup B) /\ (A \cup B) \ A \in SUBSET B
  OBVIOUS
<1>3. Quanta((A \cup B) \ A) = Quanta(A \cup B) - Quanta(A) /\ Quanta(A \cup B) \in Nat /\ Quanta(A) \in Nat
  BY <1>1, <1>2, QuantaFacts
<1>4. Quanta((A \cup B) \ A) <= Quanta(B) /\ Quanta(B) \in Nat /\ Quanta((A \cup B) \ A) \in Nat
  BY <1>2, QuantaFacts
<1> QED BY <1>3, <1>4

\* One transaction of apply_block: it takes its inputs from the staged set and adds at most
\* its outputs.
LEMMA StagedWorth ==
  ASSUME NEW b \in Block, NEW U \in SUBSET OutPoint, Fits(b, U), NEW i \in DOMAIN Body[b],
         IsFiniteSet(StagedAt(U, b, i)), StagedAt(U, b, i) \in SUBSET OutPoint
  PROVE  /\ IsFiniteSet(StagedAt(U, b, i + 1)) /\ StagedAt(U, b, i + 1) \in SUBSET OutPoint
         /\ Quanta(StagedAt(U, b, i + 1))
              <= Quanta(StagedAt(U, b, i)) - Quanta(Ins[Body[b][i]]) + Quanta(Outs[Body[b][i]])
         /\ Quanta(Ins[Body[b][i]]) \in Nat
         /\ Quanta(Outs[Body[b][i]]) \in Nat
<1> DEFINE t == Body[b][i]
           S == StagedAt(U, b, i)
           N == StagedAt(U, b, i + 1)
<1>1. i \in Nat /\ 1 .. (i + 1) - 1 = (1 .. i - 1) \cup {i}
  BY TransactionAssumption
<1>2. t \in Tx
  BY TransactionAssumption
<1>3. Ins[t] \subseteq S /\ Outs[t] \subseteq OutPoint /\ IsFiniteSet(Outs[t])
  BY <1>2, TransactionAssumption, ValueAssumption DEF Fits
<1>4. N \subseteq (S \ Ins[t]) \cup Outs[t]
  BY <1>1 DEF StagedAt, Made
<1> HIDE DEF S, N, t
<1>5. IsFiniteSet(S \ Ins[t]) /\ IsFiniteSet((S \ Ins[t]) \cup Outs[t])
  BY <1>3, FS_Difference, FS_Union DEF S
<1>6. IsFiniteSet(N) /\ N \in SUBSET OutPoint
  BY <1>3, <1>4, <1>5, FS_Subset DEF S
<1>7. Quanta(S \ Ins[t]) = Quanta(S) - Quanta(Ins[t]) /\ Quanta(Ins[t]) \in Nat /\ Quanta(S) \in Nat
  BY <1>3, QuantaFacts DEF S
<1>8. Quanta((S \ Ins[t]) \cup Outs[t]) <= Quanta(S \ Ins[t]) + Quanta(Outs[t])
  BY <1>3, <1>5, QuantaUnion DEF S
<1>9. Quanta(N) <= Quanta((S \ Ins[t]) \cup Outs[t]) /\ Quanta(N) \in Nat
  <2>1. (S \ Ins[t]) \cup Outs[t] \in SUBSET OutPoint
    BY <1>3 DEF S
  <2> QED BY <1>4, <1>5, <2>1, QuantaFacts
<1>10. Quanta(Outs[t]) \in Nat
  BY <1>3, QuantaFacts
<1>11. Quanta((S \ Ins[t]) \cup Outs[t]) \in Nat
  BY <1>3, <1>5, QuantaFacts DEF S
<1>12. Quanta(N) <= Quanta(S) - Quanta(Ins[t]) + Quanta(Outs[t])
  BY <1>7, <1>8, <1>9, <1>10, <1>11
<1> QED BY <1>6, <1>7, <1>10, <1>12 DEF S, N, t

\* The fees that RewardOk adds to the subsidy are the sum of Fee.
LEMMA FeesAreTotal == ASSUME NEW b \in Block PROVE Fees(b) = Total(Fee(b), 2 .. Len(Body[b]))
<1> DEFINE D == 2 .. Len(Body[b])
           h == Fee(b)
           W(i) == Quanta(Ins[Body[b][i]]) - Quanta(Outs[Body[b][i]])
           F(f) == f = [s \in SUBSET D |-> IF s = {} THEN 0 ELSE W(AnyOf(s)) + f[s \ {AnyOf(s)}]]
           g == CHOOSE f : F(f)
<1>1. IsFiniteSet(D)
  <2>1. Len(Body[b]) \in Nat
    BY TransactionAssumption
  <2> QED BY <2>1, FS_Interval
<1>2. \A i \in D : h[i] = W(i)
  BY DEF Fee
<1>3. ASSUME NEW f PROVE Sums(f, h, D) <=> F(f)
  <2>1. \A s \in SUBSET D : s # {} => AnyOf(s) \in D
    BY DEF AnyOf
  <2>2. \A s \in SUBSET D : s # {} => h[AnyOf(s)] = W(AnyOf(s))
    BY <1>2, <2>1
  <2>3. [s \in SUBSET D |-> IF s = {} THEN 0 ELSE h[AnyOf(s)] + f[s \ {AnyOf(s)}]]
          = [s \in SUBSET D |-> IF s = {} THEN 0 ELSE W(AnyOf(s)) + f[s \ {AnyOf(s)}]]
    <3> HIDE DEF h, W, D
    <3> QED BY <2>2
  <2> HIDE DEF h, W, D
  <2> QED BY <2>3 DEF Sums
<1>4. F(g)
  <2>1. \E f : F(f)
    <3> HIDE DEF F, h, D
    <3> QED BY <1>1, <1>3, SumsExist
  <2> HIDE DEF F
  <2> QED BY <2>1
<1>5. Fees(b) = g[D]
  BY DEF Fees, MapThenSumSet, MapThenFoldSet, AnyOf
<1>6. PICK f : Sums(f, h, D) /\ Total(h, D) = f[D]
  <2> HIDE DEF h, D
  <2> QED BY <1>1, TotalIsSum
<1> HIDE DEF g, h, F, D
<1>7. f[D] = g[D]
  BY <1>1, <1>3, <1>4, <1>6, SumsAgree
<1> QED BY <1>5, <1>6, <1>7 DEF D, h

\* The staged set stays finite through the block.
LEMMA StagedFinite ==
  ASSUME NEW b \in Block, NEW U \in SUBSET OutPoint, IsFiniteSet(U), Fits(b, U),
         NEW k \in Nat, k <= Len(Body[b])
  PROVE  IsFiniteSet(StagedAt(U, b, k + 1)) /\ StagedAt(U, b, k + 1) \in SUBSET OutPoint
<1> DEFINE P(i) == IsFiniteSet(StagedAt(U, b, i)) /\ StagedAt(U, b, i) \in SUBSET OutPoint
           T == {i \in Nat : i <= Len(Body[b]) => P(i + 1)}
<1>1. Len(Body[b]) \in Nat /\ DOMAIN Body[b] = 1 .. Len(Body[b])
  BY TransactionAssumption
<1>2. 0 \in T
  <2>1. StagedAt(U, b, 1) = U
    BY DEF StagedAt
  <2> QED BY <2>1
<1>3. ASSUME NEW i \in Nat, i \in T PROVE i + 1 \in T
  <2> SUFFICES ASSUME i + 1 <= Len(Body[b]) PROVE P((i + 1) + 1)
    OBVIOUS
  <2>1. i + 1 \in DOMAIN Body[b] /\ P(i + 1)
    BY <1>1, <1>3
  <2> QED BY <2>1, StagedWorth
<1>4. Nat \subseteq T
  <2> HIDE DEF T
  <2> QED BY <1>2, <1>3, OneByOne
<1> QED BY <1>4

\* apply_block as a whole: what the coinbase pays is the only new value.
LEMMA BlockWorth ==
  ASSUME NEW b \in Block, NEW U \in SUBSET OutPoint, IsFiniteSet(U), Applies(b, U)
  PROVE  /\ IsFiniteSet(Apply(b, U))
         /\ Quanta(Apply(b, U)) + Fees(b) <= Quanta(U) + Quanta(Outs[Body[b][1]])
         /\ Fees(b) \in Nat
         /\ Quanta(Outs[Body[b][1]]) \in Nat
         /\ Quanta(Apply(b, U)) \in Nat
         /\ Quanta(U) \in Nat
<1> DEFINE n == Len(Body[b])
           S(i) == StagedAt(U, b, i)
           In(i) == Quanta(Ins[Body[b][i]])
           Out(i) == Quanta(Outs[Body[b][i]])
           F(k) == Total(Fee(b), 2 .. k)
           P(k) == Quanta(S(k + 1)) + F(k) <= Quanta(U) + Out(1)
           T == {k \in Nat : k + 1 <= n => P(k + 1)}
<1>1. n \in Nat /\ n # 0 /\ DOMAIN Body[b] = 1 .. n /\ Fits(b, U)
  <2>1. Body[b] \in Seq(Tx) /\ Body[b] # << >>
    BY TransactionAssumption
  <2> QED BY <2>1, EmptySeq DEF Applies
<1>2. ASSUME NEW k \in 1 .. n + 1
      PROVE  IsFiniteSet(S(k)) /\ S(k) \in SUBSET OutPoint /\ Quanta(S(k)) \in Nat
  <2>1. k - 1 \in Nat /\ k - 1 <= Len(Body[b]) /\ (k - 1) + 1 = k
    BY <1>1
  <2>2. IsFiniteSet(S((k - 1) + 1)) /\ S((k - 1) + 1) \in SUBSET OutPoint
    BY <1>1, <2>1, StagedFinite
  <2>3. IsFiniteSet(S(k)) /\ S(k) \in SUBSET OutPoint
    BY <2>1, <2>2
  <2> QED BY <2>3, QuantaFacts
<1>3. ASSUME NEW k \in 1 .. n
      PROVE  Quanta(S(k + 1)) <= Quanta(S(k)) - In(k) + Out(k) /\ In(k) \in Nat /\ Out(k) \in Nat
  <2>1. k \in 1 .. n + 1
    BY <1>1
  <2> QED BY <1>1, <1>2, <2>1, StagedWorth
<1>4. S(1) = U /\ S(n + 1) = Apply(b, U)
  BY <1>1 DEF StagedAt, Apply, Creates, Spends
<1>5. Quanta(U) \in Nat
  BY QuantaFacts
<1>6. ASSUME NEW i \in 2 .. n PROVE Fee(b)[i] = In(i) - Out(i) /\ Fee(b)[i] \in Nat
  <2>1. Out(i) <= In(i) /\ i \in 1 .. n
    BY <1>1 DEF Applies, Conserves
  <2>2. In(i) \in Nat /\ Out(i) \in Nat
    BY <1>3, <2>1
  <2>3. Fee(b)[i] = In(i) - Out(i)
    BY DEF Fee
  <2> HIDE DEF In, Out
  <2> QED BY <2>1, <2>2, <2>3
<1>7. ASSUME NEW k \in 1 .. n PROVE F(k) \in Nat /\ IsFiniteSet(2 .. k)
  <2>1. \A i \in 2 .. k : i \in 2 .. n
    BY <1>1
  <2>2. \A i \in 2 .. k : Fee(b)[i] \in Nat
    BY <1>6, <2>1
  <2>3. k \in Int
    BY <1>1
  <2>4. IsFiniteSet(2 .. k)
    BY <2>3, FS_Interval
  <2> QED BY <2>2, <2>4, TotalNat
<1>8. 0 \in T
  <2>1. In(1) = 0
    <3>1. Ins[Body[b][1]] = {}
      BY TransactionAssumption
    <3>2. Total(Value, {}) = 0
      BY FS_EmptySet, TotalUnfold
    <3> QED BY <3>1, <3>2 DEF Quanta, Total
  <2>2. F(1) = 0
    <3>1. 2 .. 1 = {}
      OBVIOUS
    <3> QED BY <3>1, FS_EmptySet, TotalUnfold
  <2>3. 1 \in 1 .. n /\ 2 \in 1 .. n + 1 /\ 1 + 1 = 2 /\ 0 + 1 = 1
    BY <1>1
  <2>4. Quanta(S(2)) <= Quanta(U) - In(1) + Out(1) /\ Out(1) \in Nat /\ Quanta(S(2)) \in Nat
    BY <1>2, <1>3, <1>4, <2>3
  <2>5. P(1)
    <3> HIDE DEF S, F, In, Out
    <3> QED BY <1>5, <2>1, <2>2, <2>3, <2>4
  <2> HIDE DEF P
  <2> QED BY <2>3, <2>5
<1>9. ASSUME NEW k \in Nat, k \in T PROVE k + 1 \in T
  <2> DEFINE i == k + 1
             j == i + 1
  <2> SUFFICES ASSUME j <= n PROVE P(j)
    OBVIOUS
  <2>1. i \in 1 .. n /\ j \in 1 .. n /\ j \in 2 .. n /\ j \in 1 .. n + 1 /\ j + 1 \in 1 .. n + 1
    BY <1>1
  <2>2. P(i)
    BY <1>9, <2>1
  <2>3. Quanta(S(j + 1)) <= Quanta(S(j)) - In(j) + Out(j) /\ In(j) \in Nat /\ Out(j) \in Nat
    BY <1>3, <2>1
  <2>4. F(j) = F(i) + Fee(b)[j]
    <3>1. 2 .. j = (2 .. i) \cup {j} /\ j \notin 2 .. i
      OBVIOUS
    <3>2. IsFiniteSet(2 .. i) /\ (\A x \in 2 .. i : Fee(b)[x] \in Int) /\ Fee(b)[j] \in Int
      BY <1>6, <1>7, <2>1
    <3> HIDE DEF i, j
    <3>3. Total(Fee(b), (2 .. i) \cup {j}) = Total(Fee(b), 2 .. i) + Fee(b)[j]
      BY <3>1, <3>2, TotalAdd
    <3> QED BY <3>1, <3>3
  <2>5. /\ Fee(b)[j] = In(j) - Out(j) /\ F(i) \in Nat /\ Quanta(S(j)) \in Nat /\ Quanta(S(j + 1)) \in Nat
        /\ Out(1) \in Nat
    <3>1. 1 \in 1 .. n
      BY <1>1
    <3> QED BY <1>2, <1>3, <1>6, <1>7, <2>1, <3>1
  <2>6. Quanta(S(j)) + F(i) <= Quanta(U) + Out(1)
    BY <2>2
  <2> HIDE DEF S, F, In, Out, i, j
  <2> QED BY <1>5, <2>3, <2>4, <2>5, <2>6
<1>10. Nat \subseteq T
  <2> HIDE DEF T
  <2> QED BY <1>8, <1>9, OneByOne
<1>11. P(n)
  <2>1. n - 1 \in Nat /\ (n - 1) + 1 = n
    BY <1>1
  <2>2. n - 1 \in T
    BY <1>10, <2>1
  <2>3. (n - 1) + 1 <= n => P((n - 1) + 1)
    BY <2>2
  <2> HIDE DEF P, n
  <2> QED BY <1>1, <2>1, <2>3
<1>12. n \in 1 .. n /\ 1 \in 1 .. n /\ n + 1 \in 1 .. n + 1
  BY <1>1
<1>13. Fees(b) = F(n)
  BY FeesAreTotal
<1> HIDE DEF S, F, In, n
<1> QED BY <1>2, <1>3, <1>4, <1>5, <1>7, <1>11, <1>12, <1>13

\* The subsidies of a path are the sum of Minted.
LEMMA SubsidiesAreTotal ==
  ASSUME NEW D \in SUBSET Block
  PROVE  MapThenSumSet(LAMBDA a : Subsidy(Height[a]), D) = Total(Minted, D)
<1> DEFINE W(a) == Subsidy(Height[a])
           F(f) == f = [s \in SUBSET D |-> IF s = {} THEN 0 ELSE W(AnyOf(s)) + f[s \ {AnyOf(s)}]]
           g == CHOOSE f : F(f)
<1>1. IsFiniteSet(D)
  BY TreeAssumption, FS_Subset
<1>2. ASSUME NEW f PROVE Sums(f, Minted, D) <=> F(f)
  <2>1. \A s \in SUBSET D : s # {} => AnyOf(s) \in Block
    BY DEF AnyOf
  <2>2. \A s \in SUBSET D : s # {} => Minted[AnyOf(s)] = W(AnyOf(s))
    BY <2>1 DEF Minted
  <2> HIDE DEF W
  <2>3. [s \in SUBSET D |-> IF s = {} THEN 0 ELSE Minted[AnyOf(s)] + f[s \ {AnyOf(s)}]]
          = [s \in SUBSET D |-> IF s = {} THEN 0 ELSE W(AnyOf(s)) + f[s \ {AnyOf(s)}]]
    BY <2>2
  <2> QED BY <2>3 DEF Sums
<1>3. F(g)
  <2>1. \E f : F(f)
    <3> HIDE DEF F
    <3> QED BY <1>1, <1>2, SumsExist
  <2> HIDE DEF F
  <2> QED BY <2>1
<1>4. MapThenSumSet(LAMBDA a : Subsidy(Height[a]), D) = g[D]
  BY DEF MapThenSumSet, MapThenFoldSet, AnyOf
<1>5. PICK f : Sums(f, Minted, D) /\ Total(Minted, D) = f[D]
  BY <1>1, TotalIsSum
<1>6. Sums(g, Minted, D)
  <2> HIDE DEF F, g
  <2> QED BY <1>2, <1>3
<1>7. f[D] = g[D]
  <2> HIDE DEF g
  <2> QED BY <1>1, <1>5, <1>6, SumsAgree
<1> QED BY <1>4, <1>5, <1>7

\* A block that passed the authoritative validation keeps what is stored within the
\* subsidies, whichever branch it extends.
LEMMA InsertWorth ==
  ASSUME TreeIInv, StoredWorth, NEW b \in Block, Accepted(b), nodes' = nodes \cup {b}
  PROVE  StoredWorth'
<1> DEFINE p == Parent[b]
           U == LedgerAt[p]
           Z == Quanta(Outs[Body[Genesis][1]])
<1>1. Linked(b) /\ b # Genesis /\ b \notin nodes /\ p \in nodes
  BY LinkedFacts DEF Accepted, TreeIInv, TreeShape
<1>2. Applies(b, U) /\ RewardOk(b)
  BY ParentUtxoIsReplay DEF Accepted, Authoritative, TreeIInv, TreeShape
<1>3. /\ Height[b] = Height[p] + 1 /\ Path[b] = Path[p] \cup {b} /\ LedgerAt[b] = Apply(b, U)
      /\ p \in Block
  BY <1>1, Unfold
<1>4. /\ Height[p] \in Nat /\ U \in SUBSET OutPoint /\ IsFiniteSet(U)
      /\ Quanta(U) <= Z + Total(Minted, Path[p] \ {Genesis})
      /\ Path[p] \subseteq nodes
  BY <1>1 DEF TreeIInv, TreeShape, StoredShape, StoredWorth
<1>5. /\ IsFiniteSet(Apply(b, U)) /\ Quanta(Apply(b, U)) \in Nat /\ Quanta(U) \in Nat /\ Fees(b) \in Nat
      /\ Quanta(Outs[Body[b][1]]) \in Nat
      /\ Quanta(Apply(b, U)) + Fees(b) <= Quanta(U) + Quanta(Outs[Body[b][1]])
  BY <1>2, <1>4, BlockWorth
<1>6. Minted[b] = Subsidy(Height[b]) /\ Minted[b] \in Nat
  BY <1>3, <1>4, SubsidyNat DEF Minted
<1>7. Quanta(Outs[Body[b][1]]) <= Minted[b] + Fees(b)
  BY <1>2, <1>6 DEF RewardOk
<1> DEFINE R == Path[p] \ {Genesis}
<1>8. /\ Total(Minted, R \cup {b}) = Total(Minted, R) + Minted[b]
      /\ Total(Minted, R) \in Int
  <2>1. R \subseteq Block /\ IsFiniteSet(R) /\ b \notin R
    BY <1>1, <1>4, TreeAssumption, FS_Subset DEF TreeIInv, TreeShape, ChainTypeOK
  <2>2. \A a \in R : Minted[a] \in Int
    <3>1. \A a \in R : a \in Block /\ Height[a] \in Nat
      BY <1>4, <2>1 DEF TreeIInv, TreeShape, StoredShape
    <3> QED BY <3>1, SubsidyNat DEF Minted
  <2> HIDE DEF R
  <2> QED BY <1>6, <2>1, <2>2, TotalAdd
<1>9. Path[b] \ {Genesis} = R \cup {b}
  BY <1>1, <1>3
<1>10. Total(Minted, Path[b] \ {Genesis}) = Total(Minted, R) + Minted[b]
  BY <1>8, <1>9
<1>11. Z \in Nat
  <2>1. Body[Genesis][1] \in Tx
    <3>1. Body[Genesis] \in Seq(Tx) /\ Body[Genesis] # << >>
      BY TreeAssumption, TransactionAssumption
    <3> QED BY <3>1, EmptySeq, ElementOfSeq
  <2> QED BY <2>1, TransactionAssumption, ValueAssumption, QuantaFacts
<1>12. Quanta(LedgerAt[b]) <= Z + Total(Minted, Path[b] \ {Genesis})
  <2> HIDE DEF Z, R, U
  <2> QED BY <1>3, <1>4, <1>5, <1>6, <1>7, <1>8, <1>10, <1>11 DEF R
<1>13. IsFiniteSet(LedgerAt[b])
  BY <1>3, <1>5
<1> QED BY <1>12, <1>13 DEF StoredWorth

\* No inflation, for every tree of blocks and every order in which they arrive: the coins of
\* the UTXO set are at most what block 0 pays and the subsidies of the canonical path.
THEOREM NeverInflates == ChainSpec => []NoInflation
<1>1. ChainInit => StoredWorth
  <2> SUFFICES ASSUME ChainInit PROVE StoredWorth
    OBVIOUS
  <2> DEFINE U == Apply(Genesis, {})
             Z == Quanta(Outs[Body[Genesis][1]])
  <2>1. Genesis \in Block /\ Applies(Genesis, {}) /\ LedgerAt[Genesis] = U /\ Path[Genesis] = {Genesis}
    BY TreeAssumption, GenesisAssumption, RecursionAssumption
  <2>2. /\ IsFiniteSet(U) /\ Quanta(U) \in Nat /\ Fees(Genesis) \in Nat /\ Z \in Nat
        /\ Quanta(U) + Fees(Genesis) <= Quanta({}) + Z
    BY <2>1, BlockWorth, FS_EmptySet
  <2>3. \A h : Total(h, {}) = 0
    BY FS_EmptySet, TotalUnfold
  <2>4. Quanta({}) = 0
    <3>1. Total(Value, {}) = 0
      BY <2>3
    <3> QED BY <3>1 DEF Quanta, Total
  <2>5. Path[Genesis] \ {Genesis} = {}
    BY <2>1
  <2>6. Total(Minted, Path[Genesis] \ {Genesis}) = 0
    BY <2>3, <2>5
  <2>7. Quanta(U) <= Z + 0
    <3> HIDE DEF U, Z
    <3> QED BY <2>2, <2>4
  <2> HIDE DEF U, Z
  <2>8. nodes = {Genesis}
    BY DEF ChainInit
  <2>9. IsFiniteSet(LedgerAt[Genesis]) /\ Quanta(LedgerAt[Genesis]) <= Z + Total(Minted, Path[Genesis] \ {Genesis})
    BY <2>1, <2>2, <2>6, <2>7
  <2> QED BY <2>8, <2>9 DEF StoredWorth, Z
<1>2. TreeIInv /\ StoredWorth /\ [ChainNext]_chainVars => StoredWorth'
  <2> SUFFICES ASSUME TreeIInv, StoredWorth, [ChainNext]_chainVars PROVE StoredWorth'
    OBVIOUS
  <2>1. nodes' = nodes \/ \E b \in Block : Accepted(b) /\ nodes' = nodes \cup {b}
    BY DEF ChainNext, ProcessBlock, FlagChild, FlagUnauthoritative, FlagBranch,
           StoreSideBranch, ArchiveDeepFork, ConnectBranch, Connects, RefuseBlock, chainVars
  <2>2. CASE nodes' = nodes
    BY <2>2 DEF StoredWorth
  <2> QED BY <2>1, <2>2, InsertWorth
<1>3. TreeIInv /\ StoredWorth => NoInflation
  <2> SUFFICES ASSUME TreeIInv, StoredWorth PROVE NoInflation
    OBVIOUS
  <2>1. Path[tip] \ {Genesis} \in SUBSET Block /\ tip \in nodes /\ utxo = LedgerAt[tip]
    BY DEF TreeIInv, TreeShape, ChainTypeOK, StoredShape, UtxoIsReplay
  <2>2. MapThenSumSet(LAMBDA a : Subsidy(Height[a]), Path[tip] \ {Genesis})
          = Total(Minted, Path[tip] \ {Genesis})
    BY <2>1, SubsidiesAreTotal
  <2>3. Quanta(utxo) <= Quanta(Outs[Body[Genesis][1]]) + Total(Minted, Path[tip] \ {Genesis})
    BY <2>1 DEF StoredWorth
  <2> QED BY <2>2, <2>3 DEF NoInflation
<1> QED BY <1>1, <1>2, <1>3, InvariantHolds, PTL DEF ChainSpec
=============================================================================
