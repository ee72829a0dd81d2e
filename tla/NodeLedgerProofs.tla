-------------------------- MODULE NodeLedgerProofs --------------------------
(***************************************************************************)
(* Proofs about NodeLedger and IndexedNode, for every block tree: the node *)
(* keeps its types and its UTXO set right over starts, stops, storage      *)
(* errors and reorganisations, it implements DurableLedger, and what its   *)
(* indexes and its restores can show is what the chain makes it.           *)
(*                                                                         *)
(* While the process is up its tree satisfies TreeIInv and the persisted   *)
(* tip is the tip in memory; Persisted says of the persisted tip what a    *)
(* restart needs to establish TreeIInv again.  DiskIInv says of every      *)
(* table of the database what the canonical path makes it.  A restore can  *)
(* leave another UTXO set: IndexedShape says what is known nevertheless,   *)
(* and RestoreIInv, RowsIInv, DriftIInv and HistoryIInv stand on it.       *)
(***************************************************************************)
EXTENDS IndexedNode, ChainTreeProofs

\* What is known of the path of a block that has been the tip.
Persisted(t) ==
  /\ t \in Path[t]
  /\ Path[t] \subseteq Block
  /\ Genesis \in Path[t]
  /\ \A n \in Path[t] :
       /\ Path[n] \subseteq Path[t]
       /\ n \in Path[n]
       /\ Genesis \in Path[n]
       /\ CumWork[n] \in Nat
       /\ Height[n] \in Nat
       /\ LedgerAt[n] \subseteq OutPoint
       /\ \A x \in Path[n] : Path[x] \subseteq Path[n]
       /\ \A x, y \in Path[n] : x \in Path[y] \/ y \in Path[x]
       /\ Parent[n] # t
       /\ Replays(n)
       /\ Sound(n)

NodeIInv ==
  /\ running \in BOOLEAN
  /\ template \in Block \cup {NoHash}
  /\ running => TreeIInv /\ disk.tip = tip
  /\ ~ running => nodes = {Genesis} /\ tip = Genesis /\ invalid = {} /\ utxo = {}
  /\ disk.tip # NoHash => Persisted(disk.tip)

-----------------------------------------------------------------------------

\* The canonical tip of a tree that satisfies the invariant may be persisted.
LEMMA TipPersisted == TreeShape => Persisted(tip)
<1> SUFFICES ASSUME TreeShape PROVE Persisted(tip)
  OBVIOUS
<1>1. tip \in nodes /\ nodes \subseteq Block
  BY DEF TreeShape, ChainTypeOK
<1>2. Path[tip] \subseteq nodes /\ tip \in Path[tip] /\ Genesis \in Path[tip]
  BY <1>1 DEF TreeShape, StoredShape
<1>3. ASSUME NEW n \in Path[tip]
      PROVE  /\ Path[n] \subseteq Path[tip]
             /\ n \in Path[n]
             /\ Genesis \in Path[n]
             /\ CumWork[n] \in Nat
             /\ Height[n] \in Nat
             /\ LedgerAt[n] \subseteq OutPoint
             /\ \A x \in Path[n] : Path[x] \subseteq Path[n]
             /\ \A x, y \in Path[n] : x \in Path[y] \/ y \in Path[x]
  BY <1>1, <1>2 DEF TreeShape, StoredShape
<1>4. ASSUME NEW n \in Path[tip]
      PROVE  Parent[n] # tip /\ Replays(n) /\ Sound(n)
  BY <1>2 DEF TreeShape, TipIsLeaf, StoredReplays, CanonicalSound
<1> QED BY <1>1, <1>2, <1>3, <1>4 DEF Persisted

\* Replaying a persisted path establishes the invariant of the tree.
LEMMA RestartIInv ==
  ASSUME NEW t, Persisted(t),
         nodes' = Path[t], tip' = t, invalid' = {}, utxo' = LedgerAt[t]
  PROVE  TreeIInv'
<1>1. ChainTypeOK'
  BY DEF Persisted, ChainTypeOK
<1>2. StoredShape'
  BY DEF Persisted, StoredShape
<1>3. TipIsLeaf' /\ UtxoIsReplay'
  BY DEF Persisted, TipIsLeaf, UtxoIsReplay
<1>4. StoredReplays' /\ CanonicalSound'
  BY DEF Persisted, StoredReplays, CanonicalSound
<1> QED BY <1>1, <1>2, <1>3, <1>4 DEF TreeIInv, TreeShape

\* A database transaction of either kind moves the persisted tip to b.
LEMMA CommitTips ==
  ASSUME NEW d, NEW b, NEW E, NEW W
  PROVE  /\ CommitBlock(d, b).tip = b
         /\ ApplyReorganization(d, E, W, b).tip = b
BY DEF CommitBlock, ApplyReorganization, MoveTip

\* What processing and committing a block can do: the tree takes one step of
\* ChainTree, and the persisted tip follows the tip.
LEMMA CommitFollows ==
  ASSUME NEW b \in Block, ProcessAndCommit(b)
  PROVE  \/ ConnectBranch(b) /\ disk'.tip = b
         \/ /\ ProcessBlock(b) \/ UNCHANGED <<nodes, tip, invalid, utxo>>
            /\ UNCHANGED <<tip, utxo, disk>>
<1>1. CASE KeepTip(b)
  BY <1>1 DEF KeepTip, ProcessBlock, FlagChild, FlagUnauthoritative, StoreSideBranch,
              ArchiveDeepFork, FlagBranch, RefuseBlock, chainVars
<1>2. CASE CommitExtension(b)
  BY <1>2, CommitTips DEF CommitExtension
<1>3. CASE CommitReorg(b)
  BY <1>3, CommitTips DEF CommitReorg
<1>4. CASE CommitFails(b)
  BY <1>4 DEF CommitFails
<1> QED BY <1>1, <1>2, <1>3, <1>4 DEF ProcessAndCommit

\* Processing and committing a block keeps the tree sound and its tip persisted.
LEMMA CommitIInv ==
  ASSUME TreeIInv, disk.tip = tip, NEW b \in Block, ProcessAndCommit(b)
  PROVE  TreeIInv' /\ disk'.tip = tip'
<1>1. CASE ConnectBranch(b) /\ disk'.tip = b
  BY <1>1, ParentUtxoIsReplay, ConnectBranchStep DEF ConnectBranch, TreeIInv
<1>2. CASE /\ ProcessBlock(b) \/ UNCHANGED <<nodes, tip, invalid, utxo>>
           /\ UNCHANGED <<tip, utxo, disk>>
  BY <1>2, ProcessIInv, StutterIInv
<1> QED BY <1>1, <1>2, CommitFollows

-----------------------------------------------------------------------------

\* An unopened node satisfies the inductive invariant.
LEMMA NodeInitIInv == NodeInit => NodeIInv
<1> SUFFICES ASSUME NodeInit PROVE NodeIInv
  OBVIOUS
<1>1. disk.tip = NoHash
  BY DEF NodeInit, EmptyDisk
<1>2. running = FALSE /\ template = NoHash
  BY DEF NodeInit
<1>3. nodes = {Genesis} /\ tip = Genesis /\ invalid = {} /\ utxo = {}
  BY DEF NodeInit
<1> QED BY <1>1, <1>2, <1>3 DEF NodeIInv

\* A running step that ends in a tree with the invariant and the tip persisted.
LEMMA RunningIInv ==
  ASSUME NodeIInv, running' = TRUE, TreeIInv', disk'.tip = tip',
         template' \in Block \cup {NoHash}
  PROVE  NodeIInv'
<1>1. Persisted(tip)'
  BY TipPersisted, PTL DEF TreeIInv
<1> QED BY <1>1 DEF NodeIInv

\* Every step of the node, starts and crashes included, keeps the invariant.
LEMMA NodeNextIInv == NodeIInv /\ [NodeNext]_nodeVars => NodeIInv'
<1> SUFFICES ASSUME NodeIInv, [NodeNext]_nodeVars PROVE NodeIInv'
  OBVIOUS
<1>1. CASE UNCHANGED nodeVars
  <2>1. running => TreeIInv'
    BY <1>1, StutterIInv DEF nodeVars, NodeIInv
  <2> QED BY <1>1, <2>1 DEF nodeVars, NodeIInv
<1>2. CASE StartFresh
  <2>1. TreeIInv'
    <3>1. ChainInit'
      BY <1>2 DEF StartFresh, ChainInit
    <3> QED BY <3>1, InitIInv, PTL
  <2>2. disk'.tip = tip' /\ running' = TRUE /\ template' = template
    BY <1>2, CommitTips DEF StartFresh
  <2> QED BY <2>1, <2>2, RunningIInv DEF NodeIInv
<1>3. CASE StartFromDisk
  <2>1. TreeIInv'
    BY <1>3, RestartIInv DEF StartFromDisk, NodeIInv
  <2>2. disk'.tip = tip' /\ running' = TRUE /\ template' = template
    BY <1>3 DEF StartFromDisk
  <2> QED BY <2>1, <2>2, RunningIInv DEF NodeIInv
<1>4. CASE Stop
  BY <1>4 DEF Stop, NodeIInv
<1>5. CASE BuildTemplate \/ DiscardTemplate
  <2>1. /\ running /\ running' = running
        /\ UNCHANGED <<nodes, tip, invalid, utxo, disk>>
        /\ template' \in {tip, NoHash}
    BY <1>5 DEF BuildTemplate, DiscardTemplate
  <2>2. TreeIInv' /\ disk'.tip = tip' /\ running' = TRUE
    BY <2>1, StutterIInv DEF NodeIInv
  <2>3. template' \in Block \cup {NoHash}
    BY <2>1 DEF NodeIInv, TreeIInv, TreeShape, ChainTypeOK
  <2> QED BY <2>2, <2>3, RunningIInv
<1>6. ASSUME NEW b \in Block, SubmitKnownInvalid(b) PROVE NodeIInv'
  BY <1>1, <1>6 DEF SubmitKnownInvalid
<1>7. ASSUME NEW b \in Block, SubmitUnverified(b) PROVE NodeIInv'
  <2>1. TreeIInv'
    <3>1. TreeShape'
      BY <1>7, FlagStep DEF SubmitUnverified, NodeIInv, TreeIInv, TreeShape, ChainTypeOK
    <3> QED BY <1>7, <3>1 DEF SubmitUnverified, NodeIInv, TreeIInv, UtxoIsReplay
  <2>2. disk'.tip = tip' /\ running' = TRUE /\ template' = template
    BY <1>7 DEF SubmitUnverified, NodeIInv
  <2> QED BY <2>1, <2>2, RunningIInv DEF NodeIInv
<1>8. ASSUME NEW b \in Block, SubmitVerified(b) PROVE NodeIInv'
  <2>1. TreeIInv' /\ disk'.tip = tip'
    BY <1>8, CommitIInv DEF SubmitVerified, NodeIInv
  <2>2. running' = TRUE /\ template' = template
    BY <1>8 DEF SubmitVerified, NodeIInv
  <2> QED BY <2>1, <2>2, RunningIInv DEF NodeIInv
<1>9. ASSUME NEW b \in Block, MineBlock(b) PROVE NodeIInv'
  <2>1. TreeIInv' /\ disk'.tip = tip'
    BY <1>9, CommitIInv DEF MineBlock, NodeIInv
  <2>2. running' = TRUE /\ template' = NoHash
    BY <1>9 DEF MineBlock, NodeIInv
  <2> QED BY <2>1, <2>2, RunningIInv
<1> QED
  BY <1>1, <1>2, <1>3, <1>4, <1>5, <1>6, <1>7, <1>8, <1>9 DEF NodeNext

\* The inductive invariant holds of every behaviour of the node.
LEMMA NodeInvariantHolds == NodeSpec => []NodeIInv
BY NodeInitIInv, NodeNextIInv, PTL DEF NodeSpec

\* The process state and the persisted tip keep their types over starts and stops.
THEOREM NodeTypeCorrect == NodeSpec => []NodeTypeOK
<1>1. NodeIInv => NodeTypeOK
  <2> SUFFICES ASSUME NodeIInv PROVE NodeTypeOK
    OBVIOUS
  <2>1. Genesis \in Block
    BY TreeAssumption
  <2>2. nodes \subseteq Block /\ tip \in nodes /\ invalid \subseteq Block /\ utxo \subseteq OutPoint
    <3>1. CASE running
      BY <3>1 DEF NodeIInv, TreeIInv, TreeShape, ChainTypeOK
    <3>2. CASE ~ running
      BY <2>1, <3>2 DEF NodeIInv
    <3> QED BY <3>1, <3>2
  <2>3. disk.tip \in Block \cup {NoHash}
    BY DEF NodeIInv, Persisted
  <2>4. running \in BOOLEAN /\ template \in Block \cup {NoHash}
    BY DEF NodeIInv
  <2> QED BY <2>2, <2>3, <2>4 DEF NodeTypeOK
<1> QED BY <1>1, NodeInvariantHolds, PTL

\* A running node's UTXO set is the replay of its canonical path, whatever
\* crashes, storage errors and reorganisations came before.
THEOREM NodeUtxoAlwaysReplay == NodeSpec => []NodeUtxoIsReplay
<1>1. NodeIInv => NodeUtxoIsReplay
  BY DEF NodeIInv, TreeIInv, TreeShape, UtxoIsReplay, NodeUtxoIsReplay
<1> QED BY <1>1, NodeInvariantHolds, PTL

\* The state in memory keeps its types and its UTXO set is the replay, at every step.
THEOREM NodeAlwaysConsistent == NodeSpec => []NodeConsistent
BY NodeTypeCorrect, NodeUtxoAlwaysReplay, PTL DEF NodeConsistent

-----------------------------------------------------------------------------

\* Connecting a branch is a step of the abstract ledger.
LEMMA ConnectAdvances ==
  ASSUME NodeIInv, running, running' = TRUE, NEW b \in Block,
         ConnectBranch(b), disk'.tip = b
  PROVE  Durable!DurableNext
<1>1. TreeIInv /\ disk.tip = tip
  BY DEF NodeIInv
<1>2. TreeIInv'
  BY <1>1, ParentUtxoIsReplay, ConnectBranchStep DEF TreeIInv
<1>3. Heavier(b) /\ ~ TooDeep(b) /\ tip' = b
  BY DEF ConnectBranch, Connects
<1>4. HeadBlock = tip /\ HeadBlock' = b
  BY <1>1, TreeAssumption DEF HeadBlock, TreeIInv, TreeShape, ChainTypeOK
<1>5. b \in EligibleBlocks
  BY <1>2, <1>3 DEF TreeIInv, TreeShape, CanonicalSound, EligibleBlocks
<1>6. RollbackDepth(HeadBlock, b) <= MaxReorgDepth
  <2>1. IsFiniteSet(Path[tip] \ Path[b])
    BY <1>1, PathFinite, FS_Difference DEF TreeIInv, TreeShape, ChainTypeOK
  <2>2. Cardinality(Path[tip] \ Path[b]) \in Nat
    BY <2>1, FS_CardinalityType
  <2> QED
    BY <1>3, <1>4, <2>2, DepthAssumption DEF TooDeep, Disconnected, RollbackDepth
<1>7. Coins' = LedgerAt[b]
  BY <1>2, <1>3 DEF Coins, TreeIInv, TreeShape, UtxoIsReplay
<1>8. CumWork[b] > CumWork[HeadBlock]
  BY <1>3, <1>4 DEF Heavier
<1> QED
  BY <1>4, <1>5, <1>6, <1>7, <1>8 DEF Durable!DurableNext, Durable!Advance

\* The coins a reader sees are those of the head, up or down.
LEMMA CoinsOfHead == NodeIInv => Coins = LedgerAt[HeadBlock]
<1> SUFFICES ASSUME NodeIInv PROVE Coins = LedgerAt[HeadBlock]
  OBVIOUS
<1>1. CASE running
  <2>1. TreeIInv /\ disk.tip = tip
    BY <1>1 DEF NodeIInv
  <2>2. HeadBlock = tip
    BY <2>1, TreeAssumption DEF HeadBlock, TreeIInv, TreeShape, ChainTypeOK
  <2> QED BY <1>1, <2>1, <2>2 DEF Coins, TreeIInv, TreeShape, UtxoIsReplay
<1>2. CASE ~ running
  BY <1>2 DEF Coins
<1> QED BY <1>1, <1>2

\* A step either moves the persisted tip by connecting a branch, or keeps the head.
LEMMA HeadStep ==
  ASSUME NodeIInv, [NodeNext]_nodeVars
  PROVE  \/ HeadBlock' = HeadBlock
         \/ \E b \in Block : /\ running /\ running' = TRUE
                              /\ ConnectBranch(b) /\ disk'.tip = b
<1>1. CASE UNCHANGED disk
  BY <1>1 DEF HeadBlock
<1>2. CASE StartFresh
  BY <1>2, CommitTips DEF StartFresh, HeadBlock
<1>3. ASSUME NEW b \in Block, SubmitVerified(b) \/ MineBlock(b), disk' # disk
      PROVE  running /\ running' = TRUE /\ ConnectBranch(b) /\ disk'.tip = b
  BY <1>3, CommitFollows DEF SubmitVerified, MineBlock, NodeIInv
<1> QED
  BY <1>1, <1>2, <1>3 DEF NodeNext, nodeVars, StartFromDisk, Stop, BuildTemplate,
                          DiscardTemplate, SubmitKnownInvalid, SubmitUnverified

\* The node implements the abstract ledger: head and coins move together, only to
\* heavier blocks whose whole path is sound, and nothing else is visible.
THEOREM NodeImplementsDurable == NodeSpec => ImplementsDurableLedger
<1>1. NodeInit => Durable!DurableInit
  <2> SUFFICES ASSUME NodeInit PROVE Durable!DurableInit
    OBVIOUS
  <2>1. HeadBlock = Genesis /\ running = FALSE
    BY DEF NodeInit, EmptyDisk, HeadBlock
  <2> QED BY <2>1 DEF Coins, Durable!DurableInit
<1>2. ASSUME NodeIInv, NodeIInv', [NodeNext]_nodeVars
      PROVE  [Durable!DurableNext]_<<HeadBlock, Coins>>
  <2>1. CASE HeadBlock' = HeadBlock
    <3>1. Coins = LedgerAt[HeadBlock]
      BY <1>2, CoinsOfHead
    <3>2. (Coins = LedgerAt[HeadBlock])'
      BY <1>2, CoinsOfHead, PTL
    <3> QED BY <2>1, <3>1, <3>2
  <2>2. CASE HeadBlock' # HeadBlock
    BY <1>2, <2>2, HeadStep, ConnectAdvances
  <2> QED BY <2>1, <2>2
<1> QED
  BY <1>1, <1>2, NodeInvariantHolds, PTL
     DEF NodeSpec, ImplementsDurableLedger, Durable!DurableSpec

-----------------------------------------------------------------------------
(***************************************************************************)
(* The write transactions.  A fold of the database's operations goes       *)
(* through one state per step.                                             *)
(***************************************************************************)

\* The operations that are folded over a sequence, of blocks or of transactions.
Operation(kind, x, e) ==
  CASE kind = "erase"         -> EraseBlock(x, e)
    [] kind = "write"         -> WriteBlock(x, e)
    [] kind = "tx"            -> WriteTx(x, e)
    [] kind = "erase indexed" -> EraseIndexed(x, e)
    [] kind = "write indexed" -> WriteIndexed(x, e)
    [] OTHER                  -> IndexTx(x, e)

FoldStep(kind, f, x, base, s) ==
  IF x = {} THEN base ELSE Operation(kind, f[x \ {Max(x)}], s[Max(x)])

\* f is the function that FoldLeft recurses with.
FoldsBy(kind, f, base, s, n) == f = [x \in SUBSET (1 .. n) |-> FoldStep(kind, f, x, base, s)]

\* The recursion of FoldLeft over the positions of a sequence defines a function.
LEMMA FoldsExist ==
  ASSUME NEW kind, NEW base, NEW s, NEW n \in Nat
  PROVE  \E f : FoldsBy(kind, f, base, s, n)
<1> DEFINE Small(k) == {x \in SUBSET (1 .. n) : Cardinality(x) <= k}
           Step(f, x) == FoldStep(kind, f, x, base, s)
           Good(f, k) == f = [x \in Small(k) |-> Step(f, x)]
           T == {k \in Nat : \E f : Good(f, k)}
<1>1. 0 \in T
  <2> DEFINE f == [x \in Small(0) |-> base]
  <2>1. ASSUME NEW x \in Small(0) PROVE x = {}
    <3>1. x \in SUBSET (1 .. n) /\ Cardinality(x) <= 0
      OBVIOUS
    <3>2. Cardinality(x) \in Nat /\ (Cardinality(x) = 0 <=> x = {})
      BY <3>1, LastOut
    <3> QED BY <3>1, <3>2
  <2>2. f = [x \in Small(0) |-> Step(f, x)]
    BY <2>1 DEF FoldStep
  <2> QED BY <2>2
<1>2. ASSUME NEW k \in Nat, k \in T PROVE k + 1 \in T
  <2>1. PICK f : Good(f, k)
    BY <1>2
  <2> DEFINE g == [x \in Small(k + 1) |-> IF x \in Small(k) THEN f[x] ELSE Step(f, x)]
  <2>2. ASSUME NEW x \in Small(k + 1) PROVE g[x] = Step(g, x)
    <3>1. ASSUME x # {} PROVE x \ {Max(x)} \in Small(k) /\ x \ {Max(x)} \in Small(k + 1)
      <4>1. x \in SUBSET (1 .. n) /\ Cardinality(x) <= k + 1
        OBVIOUS
      <4>2. /\ Cardinality(x) \in Nat /\ Cardinality(x \ {Max(x)}) = Cardinality(x) - 1
            /\ x \ {Max(x)} \in SUBSET (1 .. n)
        BY <3>1, <4>1, LastOut
      <4>3. Cardinality(x \ {Max(x)}) <= k /\ Cardinality(x \ {Max(x)}) <= k + 1
        BY <4>1, <4>2
      <4> QED BY <4>2, <4>3
    <3>2. Step(g, x) = Step(f, x)
      BY <3>1 DEF FoldStep
    <3>3. x \in Small(k) => f[x] = Step(f, x)
      <4> HIDE DEF Small, Step
      <4> QED BY <2>1
    <3> HIDE DEF Small, Step
    <3> QED BY <3>2, <3>3
  <2> HIDE DEF Step, Small
  <2>3. g = [x \in Small(k + 1) |-> g[x]]
    OBVIOUS
  <2> HIDE DEF g
  <2>4. g = [x \in Small(k + 1) |-> Step(g, x)]
    BY <2>2, <2>3
  <2> QED BY <2>4
<1>3. Nat \subseteq T
  <2> HIDE DEF T
  <2> QED BY <1>1, <1>2, OneByOne
<1>4. PICK f : Good(f, n)
  BY <1>3
<1>5. Small(n) = SUBSET (1 .. n)
  BY LastOut
<1> QED BY <1>4, <1>5 DEF FoldsBy

\* What FoldLeft returns, and a record of the states it goes through.
FoldOf(kind, base, s, n) == (CHOOSE f : FoldsBy(kind, f, base, s, n))[1 .. n]
Trace(kind, h, base, s, n) ==
  /\ h[0] = base
  /\ h[n] = FoldOf(kind, base, s, n)
  /\ \A k \in 1 .. n : h[k] = Operation(kind, h[k - 1], s[k])

\* The fold takes the sequence's elements one by one from the first.
LEMMA FoldStates ==
  ASSUME NEW kind, NEW base, NEW s, NEW n \in Nat
  PROVE  \E h : Trace(kind, h, base, s, n)
<1> DEFINE f == CHOOSE g : FoldsBy(kind, g, base, s, n)
           h == [k \in 0 .. n |-> f[1 .. k]]
<1>0. FoldsBy(kind, f, base, s, n) /\ FoldOf(kind, base, s, n) = f[1 .. n]
  BY FoldsExist DEF FoldOf
<1> HIDE DEF f
<1>1. \A x \in SUBSET (1 .. n) : f[x] = FoldStep(kind, f, x, base, s)
  BY <1>0 DEF FoldsBy
<1>2. f[1 .. 0] = base
  <2>1. 1 .. 0 = {} /\ {} \in SUBSET (1 .. n)
    OBVIOUS
  <2> QED BY <1>1, <2>1 DEF FoldStep
<1>3. ASSUME NEW k \in 1 .. n PROVE f[1 .. k] = Operation(kind, f[1 .. (k - 1)], s[k])
  <2>1. 1 .. k \in SUBSET (1 .. n) /\ 1 .. k # {} /\ k \in Nat \ {0}
    OBVIOUS
  <2>2. Max(1 .. k) = k /\ (1 .. k) \ {k} = 1 .. (k - 1)
    BY <2>1, LastOfPrefix
  <2>3. FoldStep(kind, f, 1 .. k, base, s) = Operation(kind, f[1 .. (k - 1)], s[k])
    BY <2>1, <2>2 DEF FoldStep
  <2> QED BY <1>1, <2>1, <2>3
<1>4. /\ h[0] = f[1 .. 0] /\ h[n] = f[1 .. n]
      /\ \A k \in 1 .. n : h[k] = f[1 .. k] /\ h[k - 1] = f[1 .. (k - 1)]
  OBVIOUS
<1> HIDE DEF h
<1>5. Trace(kind, h, base, s, n)
  BY <1>0, <1>2, <1>3, <1>4 DEF Trace
<1> QED BY <1>5

\* The folds of the write transactions of the database, and of index_block.
LEMMA DatabaseFolds ==
  ASSUME NEW d, NEW s, NEW n \in Nat, DOMAIN s = 1 .. n
  PROVE  /\ FoldLeft(EraseBlock, d, s) = FoldOf("erase", d, s, n)
         /\ FoldLeft(WriteBlock, d, s) = FoldOf("write", d, s, n)
         /\ FoldLeft(WriteTx, d, s) = FoldOf("tx", d, s, n)
         /\ FoldLeft(EraseIndexed, d, s) = FoldOf("erase indexed", d, s, n)
         /\ FoldLeft(WriteIndexed, d, s) = FoldOf("write indexed", d, s, n)
         /\ FoldLeft(IndexTx, d, s) = FoldOf("row", d, s, n)
<1>1. FoldLeft(EraseBlock, d, s) = FoldOf("erase", d, s, n)
  BY DEF FoldLeft, MapThenFoldSet, FoldOf, FoldsBy, FoldStep, Operation
<1>2. FoldLeft(WriteBlock, d, s) = FoldOf("write", d, s, n)
  BY DEF FoldLeft, MapThenFoldSet, FoldOf, FoldsBy, FoldStep, Operation
<1>3. FoldLeft(WriteTx, d, s) = FoldOf("tx", d, s, n)
  BY DEF FoldLeft, MapThenFoldSet, FoldOf, FoldsBy, FoldStep, Operation
<1>4. FoldLeft(EraseIndexed, d, s) = FoldOf("erase indexed", d, s, n)
  BY DEF FoldLeft, MapThenFoldSet, FoldOf, FoldsBy, FoldStep, Operation
<1>5. FoldLeft(WriteIndexed, d, s) = FoldOf("write indexed", d, s, n)
  BY DEF FoldLeft, MapThenFoldSet, FoldOf, FoldsBy, FoldStep, Operation
<1>6. FoldLeft(IndexTx, d, s) = FoldOf("row", d, s, n)
  BY DEF FoldLeft, MapThenFoldSet, FoldOf, FoldsBy, FoldStep, Operation
<1> QED BY <1>1, <1>2, <1>3, <1>4, <1>5, <1>6

-----------------------------------------------------------------------------
(***************************************************************************)
(* One block.                                                              *)
(***************************************************************************)

\* What the first k transactions of a block create and spend.
MadeUpTo(b, k) == UNION {Made(Body[b][j]) : j \in 1 .. k}
SpentUpTo(b, k) == UNION {Ins[Body[b][j]] : j \in 1 .. k}

\* The UTXOS table U and the undo delta w while transactions are written.
Delta(w, U, made, ins) ==
  /\ w.created = made
  /\ w.spent \subseteq ins
  /\ U \cap ins \subseteq w.spent
  /\ U \subseteq w.utxo \cup w.spent
  /\ (U \cup made) \ ins \subseteq w.utxo
  /\ w.utxo \subseteq U \cup made
  /\ w.utxo \cap ins \subseteq made

\* One more transaction (the loop of commit_block).
LEMMA WriteTxStep ==
  ASSUME NEW w, NEW U, NEW made, NEW ins, Delta(w, U, made, ins), NEW t
  PROVE  Delta(WriteTx(w, t), U, made \cup Made(t), ins \cup Ins[t])
<1>1. /\ WriteTx(w, t).utxo = (w.utxo \ Ins[t]) \cup Made(t)
      /\ WriteTx(w, t).spent = w.spent \cup (Ins[t] \cap w.utxo)
      /\ WriteTx(w, t).created = w.created \cup Made(t)
  BY DEF WriteTx
<1> QED BY <1>1 DEF Delta

\* The whole block: the undo delta notes what the block spends of the table
\* below it, and the table keeps what the block does not spend.
LEMMA WrittenTxs ==
  ASSUME NEW b \in Block, NEW d
  PROVE  Delta(FoldLeft(WriteTx, Batch(d), Body[b]), d.utxo, Creates(b), Spends(b))
<1> DEFINE n == Len(Body[b])
<1>1. n \in Nat /\ DOMAIN Body[b] = 1 .. n
  BY TransactionAssumption
<1> HIDE DEF n
<1>2. PICK h : Trace("tx", h, Batch(d), Body[b], n)
  BY <1>1, FoldStates
<1>3. h[n] = FoldLeft(WriteTx, Batch(d), Body[b])
  BY <1>1, <1>2, DatabaseFolds DEF Trace
<1> DEFINE T == {k \in Nat : k <= n => Delta(h[k], d.utxo, MadeUpTo(b, k), SpentUpTo(b, k))}
<1>4. 0 \in T
  <2>1. h[0] = Batch(d)
    BY <1>2 DEF Trace
  <2>2. MadeUpTo(b, 0) = {} /\ SpentUpTo(b, 0) = {}
    BY DEF MadeUpTo, SpentUpTo
  <2>3. Batch(d).utxo = d.utxo /\ Batch(d).spent = {} /\ Batch(d).created = {}
    BY DEF Batch
  <2>4. Delta(Batch(d), d.utxo, {}, {})
    BY <2>3 DEF Delta
  <2> QED BY <2>1, <2>2, <2>4
<1>5. ASSUME NEW k \in Nat, k \in T PROVE k + 1 \in T
  <2> SUFFICES ASSUME k + 1 <= n
               PROVE  Delta(h[k + 1], d.utxo, MadeUpTo(b, k + 1), SpentUpTo(b, k + 1))
    OBVIOUS
  <2> DEFINE t == Body[b][k + 1]
  <2>1. Delta(h[k], d.utxo, MadeUpTo(b, k), SpentUpTo(b, k))
    BY <1>1, <1>5
  <2>2. h[k + 1] = WriteTx(h[k], t)
    <3>1. k + 1 \in 1 .. n /\ (k + 1) - 1 = k
      BY <1>1
    <3> QED BY <1>2, <3>1 DEF Trace, Operation
  <2>3. 1 .. (k + 1) = (1 .. k) \cup {k + 1}
    OBVIOUS
  <2>4. /\ MadeUpTo(b, k + 1) = MadeUpTo(b, k) \cup Made(t)
        /\ SpentUpTo(b, k + 1) = SpentUpTo(b, k) \cup Ins[t]
    BY <2>3 DEF MadeUpTo, SpentUpTo
  <2> HIDE DEF t
  <2> QED BY <2>1, <2>2, <2>4, WriteTxStep
<1>6. n \in T
  <2> HIDE DEF T
  <2> QED BY <1>1, <1>4, <1>5, OneByOne
<1>7. MadeUpTo(b, n) = Creates(b) /\ SpentUpTo(b, n) = Spends(b)
  BY <1>1 DEF MadeUpTo, SpentUpTo, Creates, Spends
<1> QED BY <1>1, <1>3, <1>6, <1>7

-----------------------------------------------------------------------------
(***************************************************************************)
(* The tables of the database.                                             *)
(***************************************************************************)

\* The undo delta u takes the UTXOS table from above block a back below it.
UndoOf(u, a) ==
  /\ u.created = Creates(a)
  /\ u.spent \subseteq Spends(a)
  /\ Spends(a) \cap LedgerBefore(a) \subseteq u.spent

\* The UTXOS table T holds the ledger U, and more only of what one block both
\* created and spent.
Covers(T, U) ==
  /\ U \subseteq T
  /\ T \ U \subseteq UNION {SpentInside(b) : b \in Block}

Confirms(c, P) ==
  /\ DOMAIN c = UNION {Txs(a) : a \in P}
  /\ \A x \in DOMAIN c : c[x] \in P /\ x \in Txs(c[x])

\* The tables of d, CHAIN_STATE aside, describe the chain that ends in t.  The UTXOS
\* table does, and the undo deltas that move it, while it is clean: no snapshot was
\* written to it.
Describes(d, t, clean) ==
  /\ DOMAIN d = {"tip", "height", "blocks", "heights", "confirm", "undo", "utxo"}
  /\ d.blocks = Path[t]
  /\ d.heights = [h \in 0 .. Height[t] |-> At(t, h)]
  /\ DOMAIN d.undo = Path[t]
  /\ clean => \A a \in Path[t] : UndoOf(d.undo[a], a)
  /\ clean => Covers(d.utxo, LedgerAt[t])
  /\ DistinctTxs => Confirms(d.confirm, Path[t])

\* The new tables after a block is written.
LEMMA WriteFields ==
  ASSUME NEW d, NEW b \in Block,
         DOMAIN d = {"tip", "height", "blocks", "heights", "confirm", "undo", "utxo"}
  PROVE  LET w == FoldLeft(WriteTx, Batch(d), Body[b])
             e == WriteBlock(d, b)
         IN  /\ DOMAIN e = DOMAIN d
             /\ e.blocks = d.blocks \cup {b}
             /\ e.heights = Put(d.heights, Height[b], b)
             /\ e.confirm = [t \in DOMAIN d.confirm \cup Txs(b) |->
                                IF t \in Txs(b) THEN b ELSE d.confirm[t]]
             /\ e.undo = Put(d.undo, b, [spent |-> w.spent, created |-> w.created])
             /\ e.utxo = w.utxo
BY DEF WriteBlock

\* Writing the next block of a chain (commit_block): the tables of its parent
\* become its own.
LEMMA WriteNext ==
  ASSUME NEW d, NEW b \in Block, b # Genesis, Ladder(Parent[b]),
         NEW clean \in BOOLEAN, Describes(d, Parent[b], clean)
  PROVE  Describes(WriteBlock(d, b), b, clean)
<1> DEFINE p == Parent[b]
           w == FoldLeft(WriteTx, Batch(d), Body[b])
           e == WriteBlock(d, b)
<1>1. Ladder(b)
  BY NextLadder
<1>2. /\ p \in Block /\ Path[b] = Path[p] \cup {b} /\ Height[b] = Height[p] + 1
      /\ LedgerBefore(b) = LedgerAt[p] /\ LedgerAt[b] = Apply(b, LedgerAt[p])
  BY Unfold
<1>3. Delta(w, d.utxo, Creates(b), Spends(b))
  BY WrittenTxs
<1>4. /\ DOMAIN d = {"tip", "height", "blocks", "heights", "confirm", "undo", "utxo"}
      /\ d.blocks = Path[p]
      /\ d.heights = [h \in 0 .. Height[p] |-> At(p, h)]
      /\ DOMAIN d.undo = Path[p]
      /\ clean => \A a \in Path[p] : UndoOf(d.undo[a], a)
      /\ clean => Covers(d.utxo, LedgerAt[p])
      /\ DistinctTxs => Confirms(d.confirm, Path[p])
  BY DEF Describes
<1>5. /\ DOMAIN e = DOMAIN d
      /\ e.blocks = d.blocks \cup {b}
      /\ e.heights = Put(d.heights, Height[b], b)
      /\ e.confirm = [t \in DOMAIN d.confirm \cup Txs(b) |->
                         IF t \in Txs(b) THEN b ELSE d.confirm[t]]
      /\ e.undo = Put(d.undo, b, [spent |-> w.spent, created |-> w.created])
      /\ e.utxo = w.utxo
  BY <1>4, WriteFields
<1>6. p \in Path[p] /\ Height[p] \in Nat /\ b \notin Path[p]
  BY <1>2, <1>1 DEF Ladder
<1> HIDE DEF p, w, e
<1>7. e.heights = [h \in 0 .. Height[b] |-> At(b, h)]
  <2>1. 0 .. Height[b] = (0 .. Height[p]) \cup {Height[b]}
    BY <1>2, <1>6
  <2>2. At(b, Height[b]) = b
    BY <1>1, Rungs
  <2>3. ASSUME NEW h \in 0 .. Height[p] PROVE At(b, h) = At(p, h) /\ h # Height[b]
    <3>1. At(p, h) \in Path[p] /\ Height[At(p, h)] = h
      BY Rungs DEF p
    <3>2. At(p, h) \in Path[b]
      BY <1>2, <3>1
    <3>3. At(b, h) = At(p, h)
      BY <1>1, <3>1, <3>2, Rungs
    <3> QED BY <1>2, <1>6, <3>3
  <2> QED BY <1>4, <1>5, <2>1, <2>2, <2>3 DEF Put
<1>8. DOMAIN e.undo = Path[b] /\ (clean => \A a \in Path[b] : UndoOf(e.undo[a], a))
  <2>1. DOMAIN e.undo = Path[b]
    BY <1>2, <1>4, <1>5 DEF Put
  <2>2. e.undo[b] = [spent |-> w.spent, created |-> w.created]
    BY <1>5 DEF Put
  <2>3. clean => UndoOf(e.undo[b], b)
    BY <1>2, <1>3, <1>4, <2>2 DEF UndoOf, Delta, Covers
  <2>4. ASSUME clean, NEW a \in Path[p] PROVE UndoOf(e.undo[a], a)
    <3>1. e.undo[a] = d.undo[a]
      BY <1>4, <1>5, <1>6 DEF Put
    <3> QED BY <1>4, <2>4, <3>1
  <2> QED BY <1>2, <2>1, <2>3, <2>4
<1>9. clean => Covers(e.utxo, LedgerAt[b])
  BY <1>2, <1>3, <1>4, <1>5 DEF Covers, Delta, Apply, SpentInside
<1>10. DistinctTxs => Confirms(e.confirm, Path[b])
  <2> SUFFICES ASSUME Confirms(d.confirm, Path[p]) PROVE Confirms(e.confirm, Path[b])
    BY <1>4
  <2>1. UNION {Txs(a) : a \in Path[b]} = (UNION {Txs(a) : a \in Path[p]}) \cup Txs(b)
    BY <1>2
  <2>2. DOMAIN e.confirm = UNION {Txs(a) : a \in Path[b]}
    BY <1>5, <2>1 DEF Confirms
  <2>3. ASSUME NEW x \in DOMAIN e.confirm PROVE e.confirm[x] \in Path[b] /\ x \in Txs(e.confirm[x])
    BY <1>2, <1>5 DEF Confirms
  <2> QED BY <2>2, <2>3 DEF Confirms
<1>11. e.blocks = Path[b]
  BY <1>2, <1>4, <1>5
<1>12. Describes(e, b, clean)
  BY <1>4, <1>5, <1>7, <1>8, <1>9, <1>10, <1>11 DEF Describes
<1> QED BY <1>12 DEF e

\* Block 0 in a fresh database (the first start).
LEMMA WriteFirst ==
  ASSUME NEW clean \in BOOLEAN
  PROVE  Describes(WriteBlock(EmptyDisk, Genesis), Genesis, clean)
<1> DEFINE d == EmptyDisk
           w == FoldLeft(WriteTx, Batch(d), Body[Genesis])
           e == WriteBlock(d, Genesis)
<1>1. /\ Genesis \in Block /\ Path[Genesis] = {Genesis} /\ Height[Genesis] = 0
      /\ LedgerAt[Genesis] = Apply(Genesis, {}) /\ LedgerBefore(Genesis) = {}
  BY TreeAssumption, RecursionAssumption DEF LedgerBefore
<1>2. /\ DOMAIN d = {"tip", "height", "blocks", "heights", "confirm", "undo", "utxo"}
      /\ d.blocks = {} /\ d.heights = << >> /\ d.confirm = << >> /\ d.undo = << >> /\ d.utxo = {}
  BY DEF EmptyDisk
<1> HIDE DEF d
<1>3. Delta(w, {}, Creates(Genesis), Spends(Genesis))
  BY <1>1, <1>2, WrittenTxs
<1>4. /\ DOMAIN e = DOMAIN d
      /\ e.blocks = d.blocks \cup {Genesis}
      /\ e.heights = Put(d.heights, Height[Genesis], Genesis)
      /\ e.confirm = [t \in DOMAIN d.confirm \cup Txs(Genesis) |->
                         IF t \in Txs(Genesis) THEN Genesis ELSE d.confirm[t]]
      /\ e.undo = Put(d.undo, Genesis, [spent |-> w.spent, created |-> w.created])
      /\ e.utxo = w.utxo
  <2>1. Genesis \in Block /\ DOMAIN d = {"tip", "height", "blocks", "heights", "confirm", "undo", "utxo"}
    BY <1>1, <1>2
  <2> QED BY <2>1, WriteFields
<1>5. DOMAIN d.heights = {} /\ DOMAIN d.confirm = {} /\ DOMAIN d.undo = {}
  BY <1>2
<1> HIDE DEF w, e
<1>6. e.heights = [h \in 0 .. Height[Genesis] |-> At(Genesis, h)]
  <2>1. At(Genesis, 0) = Genesis
    BY <1>1 DEF At
  <2>2. 0 .. Height[Genesis] = {0}
    BY <1>1
  <2>3. e.heights = [h \in {0} |-> Genesis]
    BY <1>1, <1>4, <1>5 DEF Put
  <2> QED BY <2>1, <2>2, <2>3
<1>7. DOMAIN e.undo = Path[Genesis] /\ \A a \in Path[Genesis] : UndoOf(e.undo[a], a)
  <2>1. DOMAIN e.undo = {Genesis} /\ e.undo[Genesis] = [spent |-> w.spent, created |-> w.created]
    BY <1>4, <1>5 DEF Put
  <2> QED BY <1>1, <1>3, <2>1 DEF UndoOf, Delta
<1>8. Covers(e.utxo, LedgerAt[Genesis])
  BY <1>1, <1>3, <1>4 DEF Covers, Delta, Apply, SpentInside
<1>9. Confirms(e.confirm, Path[Genesis])
  BY <1>1, <1>4, <1>5 DEF Confirms
<1>10. e.blocks = Path[Genesis]
  BY <1>1, <1>2, <1>4
<1>11. Describes(e, Genesis, clean)
  BY <1>2, <1>4, <1>6, <1>7, <1>8, <1>9, <1>10 DEF Describes
<1> QED BY <1>11 DEF e, d

\* What a block that applies creates is new, and what it spends was there or is
\* its own.
LEMMA FitsFacts ==
  ASSUME NEW b \in Block, NEW U, Fits(b, U)
  PROVE  /\ U \cap Creates(b) \subseteq Spends(b)
         /\ Spends(b) \subseteq U \cup Creates(b)
<1>1. ASSUME NEW i \in DOMAIN Body[b], NEW j \in 1 .. i - 1 PROVE j \in DOMAIN Body[b]
  BY TransactionAssumption
<1>2. ASSUME NEW o, o \in U, o \in Creates(b) PROVE o \in Spends(b)
  <2>1. PICK i \in DOMAIN Body[b] : o \in Made(Body[b][i])
    BY <1>2 DEF Creates
  <2>2. Made(Body[b][i]) \cap (StagedAt(U, b, i) \ Ins[Body[b][i]]) = {}
    BY DEF Fits
  <2>3. o \notin StagedAt(U, b, i) \/ o \in Ins[Body[b][i]]
    BY <2>1, <2>2
  <2>4. o \notin StagedAt(U, b, i) => \E j \in 1 .. i - 1 : o \in Ins[Body[b][j]]
    BY <1>2 DEF StagedAt
  <2> QED BY <1>1, <2>3, <2>4 DEF Spends
<1>3. ASSUME NEW o \in Spends(b) PROVE o \in U \cup Creates(b)
  <2>1. PICK i \in DOMAIN Body[b] : o \in Ins[Body[b][i]]
    BY DEF Spends
  <2>2. o \in StagedAt(U, b, i)
    BY <2>1 DEF Fits
  <2>3. o \in U \/ \E j \in 1 .. i - 1 : o \in Made(Body[b][j])
    BY <2>2 DEF StagedAt
  <2> QED BY <1>1, <2>3 DEF Creates
<1> QED BY <1>2, <1>3

\* The new tables after a block is erased.
LEMMA EraseFields ==
  ASSUME NEW d, NEW b,
         DOMAIN d = {"tip", "height", "blocks", "heights", "confirm", "undo", "utxo"}
  PROVE  /\ DOMAIN EraseBlock(d, b) = DOMAIN d
         /\ EraseBlock(d, b).blocks = d.blocks \ {b}
         /\ EraseBlock(d, b).heights = Drop(d.heights, {Height[b]})
         /\ EraseBlock(d, b).confirm = Drop(d.confirm, Txs(b))
         /\ EraseBlock(d, b).undo = Drop(d.undo, {b})
         /\ EraseBlock(d, b).utxo = (d.utxo \ d.undo[b].created) \cup d.undo[b].spent
BY DEF EraseBlock

\* Erasing the last block of a chain (apply_reorganization): its tables become
\* those of its parent.
LEMMA EraseLast ==
  ASSUME NEW d, NEW b \in Block, b # Genesis, Ladder(b),
         NEW clean \in BOOLEAN, Describes(d, b, clean),
         Applies(b, LedgerBefore(b))
  PROVE  Describes(EraseBlock(d, b), Parent[b], clean)
<1> DEFINE p == Parent[b]
           e == EraseBlock(d, b)
<1>1. /\ p \in Block /\ Path[b] = Path[p] \cup {b} /\ Height[b] = Height[p] + 1
      /\ LedgerBefore(b) = LedgerAt[p] /\ LedgerAt[b] = Apply(b, LedgerAt[p])
  BY Unfold
<1>2. Ladder(p)
  BY LowerLadder DEF Ladder
<1>3. /\ DOMAIN d = {"tip", "height", "blocks", "heights", "confirm", "undo", "utxo"}
      /\ d.blocks = Path[b]
      /\ d.heights = [h \in 0 .. Height[b] |-> At(b, h)]
      /\ DOMAIN d.undo = Path[b]
      /\ clean => \A a \in Path[b] : UndoOf(d.undo[a], a)
      /\ clean => Covers(d.utxo, LedgerAt[b])
      /\ DistinctTxs => Confirms(d.confirm, Path[b])
  BY DEF Describes
<1>4. /\ DOMAIN e = DOMAIN d
      /\ e.blocks = d.blocks \ {b}
      /\ e.heights = Drop(d.heights, {Height[b]})
      /\ e.confirm = Drop(d.confirm, Txs(b))
      /\ e.undo = Drop(d.undo, {b})
      /\ e.utxo = (d.utxo \ d.undo[b].created) \cup d.undo[b].spent
  BY <1>3, EraseFields
<1>5. /\ LedgerAt[p] \cap Creates(b) \subseteq Spends(b)
      /\ Spends(b) \subseteq LedgerAt[p] \cup Creates(b)
  <2>1. Fits(b, LedgerAt[p])
    BY <1>1 DEF Applies
  <2> QED BY <2>1, FitsFacts
<1>6. Height[p] \in Nat /\ Height[b] \in Nat /\ b \in Path[b]
  BY <1>2 DEF Ladder
<1> HIDE DEF p, e
<1>7. b \notin Path[p]
  <2>1. \A x \in Path[p] : Height[x] \in 0 .. Height[p]
    BY <1>2 DEF Ladder
  <2> QED BY <1>1, <1>6, <2>1
<1>8. Path[p] = Path[b] \ {b}
  BY <1>1, <1>7
<1>9. e.heights = [h \in 0 .. Height[p] |-> At(p, h)]
  <2>1. 0 .. Height[p] = (0 .. Height[b]) \ {Height[b]}
    BY <1>1, <1>6
  <2>2. ASSUME NEW h \in 0 .. Height[p] PROVE At(b, h) = At(p, h)
    <3>1. At(p, h) \in Path[p] /\ Height[At(p, h)] = h
      BY <1>2, Rungs
    <3>2. At(p, h) \in Path[b]
      BY <1>1, <3>1
    <3> QED BY <3>1, <3>2, Rungs
  <2> QED BY <1>3, <1>4, <2>1, <2>2 DEF Drop
<1>10. DOMAIN e.undo = Path[p] /\ (clean => \A a \in Path[p] : UndoOf(e.undo[a], a))
  BY <1>3, <1>4, <1>8 DEF Drop
<1>11. ASSUME clean PROVE Covers(e.utxo, LedgerAt[p])
  <2>1. /\ d.undo[b].created = Creates(b)
        /\ d.undo[b].spent \subseteq Spends(b)
        /\ Spends(b) \cap LedgerAt[p] \subseteq d.undo[b].spent
    BY <1>1, <1>3, <1>6, <1>11 DEF UndoOf
  <2>2. /\ (LedgerAt[p] \cup Creates(b)) \ Spends(b) \subseteq d.utxo
        /\ d.utxo \ ((LedgerAt[p] \cup Creates(b)) \ Spends(b))
             \subseteq UNION {SpentInside(a) : a \in Block}
    BY <1>1, <1>3, <1>11 DEF Covers, Apply
  <2>3. LedgerAt[p] \subseteq e.utxo
    BY <1>4, <1>5, <2>1, <2>2
  <2>4. ASSUME NEW o \in e.utxo, o \notin LedgerAt[p]
        PROVE  o \in UNION {SpentInside(a) : a \in Block}
    <3>1. CASE o \in d.undo[b].spent
      <4>1. o \in SpentInside(b)
        BY <1>5, <2>1, <2>4, <3>1 DEF SpentInside
      <4> QED BY <4>1
    <3>2. CASE o \in d.utxo /\ o \notin Creates(b)
      <4> HIDE DEF SpentInside
      <4> QED BY <2>2, <2>4, <3>2
    <3> QED BY <1>4, <2>1, <2>4, <3>1, <3>2
  <2> QED BY <2>3, <2>4 DEF Covers
<1>12. ASSUME DistinctTxs PROVE Confirms(e.confirm, Path[p])
  <2>1. \A a \in Path[p] : Txs(a) \cap Txs(b) = {}
    BY <1>1, <1>6, <1>7, <1>12 DEF DistinctTxs, Txs
  <2>2. Confirms(d.confirm, Path[b])
    BY <1>3, <1>12
  <2>3. DOMAIN e.confirm = DOMAIN d.confirm \ Txs(b) /\ \A x \in DOMAIN e.confirm : e.confirm[x] = d.confirm[x]
    BY <1>4 DEF Drop
  <2>4. DOMAIN e.confirm = UNION {Txs(a) : a \in Path[p]}
    BY <1>1, <2>1, <2>2, <2>3 DEF Confirms
  <2>5. ASSUME NEW x \in DOMAIN e.confirm PROVE e.confirm[x] \in Path[p] /\ x \in Txs(e.confirm[x])
    BY <1>1, <2>2, <2>3 DEF Confirms
  <2> QED BY <2>4, <2>5 DEF Confirms
<1>13. e.blocks = Path[p]
  BY <1>3, <1>4, <1>8
<1>14. Describes(e, p, clean)
  BY <1>3, <1>4, <1>9, <1>10, <1>11, <1>12, <1>13 DEF Describes
<1> QED BY <1>14 DEF e, p

-----------------------------------------------------------------------------
(***************************************************************************)
(* Reorganisations: down to the fork and up again.                         *)
(***************************************************************************)

\* The blocks above a fork from the tip down.
LEMMA BranchDown ==
  ASSUME NEW t, Ladder(t), NEW f \in Path[t], f # t
  PROVE  LET r == Reverse(ByHeight(Path[t] \ Path[f]))
         IN  \E n \in Nat : /\ Height[f] \in Nat /\ Height[t] \in Nat /\ Height[t] = Height[f] + n
                           /\ DOMAIN r = 1 .. n
                           /\ \A k \in 1 .. n : r[k] = At(t, Height[t] - k + 1)
<1> DEFINE n == Height[t] - Height[f]
           s == ByHeight(Path[t] \ Path[f])
           r == Reverse(s)
<1>0. /\ Height[f] \in Nat /\ n \in Nat /\ Height[t] \in Nat
      /\ s = [i \in 1 .. n |-> At(t, Height[f] + i)]
  <2>1. Height[t] \in Nat
    BY DEF Ladder
  <2>2. /\ Height[f] \in Nat /\ n \in Nat
        /\ s = [i \in 1 .. n |-> At(t, Height[f] + i)]
    BY BranchOrder
  <2> QED BY <2>1, <2>2
<1>1. Height[f] \in Nat /\ n \in Nat /\ Height[t] \in Nat /\ Height[t] = Height[f] + n
  <2> HIDE DEF s
  <2> QED BY <1>0
<1>2. DOMAIN r = 1 .. n /\ \A k \in 1 .. n : r[k] = At(t, Height[t] - k + 1)
  <2>1. Len(s) = n
    <3>1. PICK S : S = {At(t, Height[f] + i) : i \in 1 .. n}
      OBVIOUS
    <3> HIDE DEF s, n
    <3>2. s \in [1 .. n -> S]
      BY <1>0, <3>1
    <3>3. s \in Seq(S) /\ DOMAIN s = 1 .. n
      BY <1>1, <3>2
    <3> QED BY <1>1, <3>3, LenProperties
  <2> HIDE DEF s, n
  <2>2. r = [i \in 1 .. n |-> s[(n - i) + 1]]
    BY <2>1 DEF Reverse
  <2>3. ASSUME NEW k \in 1 .. n PROVE s[(n - k) + 1] = At(t, Height[t] - k + 1)
    <3>1. (n - k) + 1 \in 1 .. n /\ Height[f] + ((n - k) + 1) = Height[t] - k + 1
      BY <1>1
    <3> QED BY <1>0, <3>1
  <2> HIDE DEF r
  <2> QED BY <2>2, <2>3
<1> HIDE DEF n
<1> QED BY <1>1, <1>2

\* Erasing the blocks above a fork, from the old tip down.
LEMMA EraseBranch ==
  ASSUME NEW d, NEW t, Ladder(t), NEW clean \in BOOLEAN, Describes(d, t, clean), NEW f \in Path[t], f # t,
         \A a \in Path[t] : Applies(a, LedgerBefore(a))
  PROVE  Describes(FoldLeft(EraseBlock, d, Reverse(ByHeight(Path[t] \ Path[f]))), f, clean)
<1> DEFINE r == Reverse(ByHeight(Path[t] \ Path[f]))
<1>0. PICK n \in Nat : /\ Height[f] \in Nat /\ Height[t] \in Nat /\ Height[t] = Height[f] + n
                      /\ DOMAIN r = 1 .. n
                      /\ \A k \in 1 .. n : r[k] = At(t, Height[t] - k + 1)
  BY BranchDown
<1> HIDE DEF r
<1>1. Height[f] \in Nat /\ n \in Nat /\ Height[t] \in Nat /\ Height[t] = Height[f] + n
  BY <1>0
<1>2. DOMAIN r = 1 .. n /\ \A k \in 1 .. n : r[k] = At(t, Height[t] - k + 1)
  BY <1>0
<1>3. PICK h : Trace("erase", h, d, r, n)
  BY <1>1, FoldStates
<1>4. h[n] = FoldLeft(EraseBlock, d, r) /\ h[0] = d
  <2>1. FoldLeft(EraseBlock, d, r) = FoldOf("erase", d, r, n)
    BY <1>1, <1>2, DatabaseFolds
  <2> QED BY <1>3, <2>1 DEF Trace
<1> DEFINE T == {k \in Nat : k <= n => Describes(h[k], At(t, Height[t] - k), clean)}
<1>5. 0 \in T
  <2>1. At(t, Height[t] - 0) = t
    BY <1>1, Rungs
  <2> QED BY <1>4, <2>1
<1>6. ASSUME NEW k \in Nat, k \in T PROVE k + 1 \in T
  <2> SUFFICES ASSUME k + 1 <= n PROVE Describes(h[k + 1], At(t, Height[t] - (k + 1)), clean)
    OBVIOUS
  <2> DEFINE a == At(t, Height[t] - k)
             c == At(t, Height[t] - (k + 1))
  <2>1. Describes(h[k], a, clean)
    BY <1>1, <1>6
  <2>2. h[k + 1] = EraseBlock(h[k], a)
    <3>1. k + 1 \in 1 .. n /\ (k + 1) - 1 = k /\ Height[t] - (k + 1) + 1 = Height[t] - k
      BY <1>1
    <3>2. r[k + 1] = a
      BY <1>2, <3>1
    <3> QED BY <1>3, <3>1, <3>2 DEF Trace, Operation
  <2>3. a \in Path[t] /\ a # Genesis /\ Parent[a] = c
    <3>1. Height[t] - k \in 1 .. Height[t] /\ (Height[t] - k) - 1 = Height[t] - (k + 1)
      BY <1>1
    <3>2. Height[t] - k \in 0 .. Height[t]
      BY <1>1
    <3>3. a \in Path[t]
      BY <3>2, Rungs
    <3>4. a # Genesis /\ Parent[a] = At(t, (Height[t] - k) - 1)
      BY <3>1, Rungs
    <3> QED BY <3>1, <3>3, <3>4
  <2> HIDE DEF a, c
  <2>4. Ladder(a) /\ a \in Block /\ Applies(a, LedgerBefore(a))
    BY <2>3, LowerLadder DEF Ladder
  <2>5. Describes(EraseBlock(h[k], a), Parent[a], clean)
    BY <2>1, <2>3, <2>4, EraseLast
  <2> QED BY <2>2, <2>3, <2>5 DEF c
<1>7. n \in T
  <2> HIDE DEF T
  <2> QED BY <1>1, <1>5, <1>6, OneByOne
<1>8. At(t, Height[t] - n) = f
  <2>1. Height[t] - n = Height[f]
    BY <1>1
  <2> QED BY <2>1, Rungs
<1>9. Describes(FoldLeft(EraseBlock, d, r), f, clean)
  BY <1>1, <1>4, <1>7, <1>8
<1> QED BY <1>9 DEF r

\* Writing the blocks above a fork, from the fork up to the new tip.
LEMMA WriteBranch ==
  ASSUME NEW d, NEW b, Ladder(b), NEW f \in Path[b], f # b,
         NEW clean \in BOOLEAN, Describes(d, f, clean)
  PROVE  Describes(FoldLeft(WriteBlock, d, ByHeight(Path[b] \ Path[f])), b, clean)
<1> DEFINE n == Height[b] - Height[f]
           s == ByHeight(Path[b] \ Path[f])
<1>0. /\ Height[f] \in Nat /\ n \in Nat /\ Height[b] \in Nat
      /\ s = [i \in 1 .. n |-> At(b, Height[f] + i)]
  <2>1. Height[b] \in Nat
    BY DEF Ladder
  <2>2. /\ Height[f] \in Nat /\ n \in Nat
        /\ s = [i \in 1 .. n |-> At(b, Height[f] + i)]
    BY BranchOrder
  <2> QED BY <2>1, <2>2
<1>1. Height[f] \in Nat /\ n \in Nat /\ Height[b] \in Nat /\ Height[b] = Height[f] + n
  <2> HIDE DEF s
  <2> QED BY <1>0
<1> HIDE DEF n, s
<1>2. DOMAIN s = 1 .. n /\ \A k \in 1 .. n : s[k] = At(b, Height[f] + k)
  BY <1>0
<1>3. PICK h : Trace("write", h, d, s, n)
  BY <1>1, FoldStates
<1>4. h[n] = FoldLeft(WriteBlock, d, s) /\ h[0] = d
  <2>1. FoldLeft(WriteBlock, d, s) = FoldOf("write", d, s, n)
    BY <1>1, <1>2, DatabaseFolds
  <2> QED BY <1>3, <2>1 DEF Trace
<1> DEFINE T == {k \in Nat : k <= n => Describes(h[k], At(b, Height[f] + k), clean)}
<1>5. 0 \in T
  <2>1. At(b, Height[f] + 0) = f
    BY <1>1, Rungs
  <2> QED BY <1>4, <2>1
<1>6. ASSUME NEW k \in Nat, k \in T PROVE k + 1 \in T
  <2> SUFFICES ASSUME k + 1 <= n PROVE Describes(h[k + 1], At(b, Height[f] + (k + 1)), clean)
    OBVIOUS
  <2> DEFINE a == At(b, Height[f] + k)
             c == At(b, Height[f] + (k + 1))
  <2>1. Describes(h[k], a, clean)
    BY <1>1, <1>6
  <2>2. h[k + 1] = WriteBlock(h[k], c)
    <3>1. k + 1 \in 1 .. n /\ (k + 1) - 1 = k
      BY <1>1
    <3>2. s[k + 1] = c
      BY <1>2, <3>1
    <3> QED BY <1>3, <3>1, <3>2 DEF Trace, Operation
  <2>3. a \in Path[b] /\ c \in Path[b] /\ c # Genesis /\ Parent[c] = a
    <3>1. Height[f] + (k + 1) \in 1 .. Height[b] /\ (Height[f] + (k + 1)) - 1 = Height[f] + k
      BY <1>1
    <3>2. Height[f] + k \in 0 .. Height[b] /\ Height[f] + (k + 1) \in 0 .. Height[b]
      BY <1>1
    <3>3. a \in Path[b] /\ c \in Path[b]
      BY <3>2, Rungs
    <3>4. c # Genesis /\ Parent[c] = At(b, (Height[f] + (k + 1)) - 1)
      BY <3>1, Rungs
    <3> QED BY <3>1, <3>3, <3>4
  <2> HIDE DEF a, c
  <2>4. Ladder(a) /\ c \in Block
    BY <2>3, LowerLadder DEF Ladder
  <2>5. Describes(WriteBlock(h[k], c), c, clean)
    BY <2>1, <2>3, <2>4, WriteNext
  <2> QED BY <2>2, <2>5 DEF c
<1>7. n \in T
  <2> HIDE DEF T
  <2> QED BY <1>1, <1>5, <1>6, OneByOne
<1>8. At(b, Height[f] + n) = b
  BY <1>1, Rungs
<1>9. Describes(FoldLeft(WriteBlock, d, s), b, clean)
  BY <1>1, <1>4, <1>7, <1>8
<1> QED BY <1>9 DEF s

\* A whole reorganisation in one transaction (apply_reorganization).
LEMMA Reorganised ==
  ASSUME NEW d, NEW t, Ladder(t), NEW clean \in BOOLEAN, Describes(d, t, clean), NEW b, Ladder(b), b \notin Path[t],
         Disconnected(t, b) # {}, \A a \in Path[t] : Applies(a, LedgerBefore(a))
  PROVE  LET e == ApplyReorganization(d, Disconnected(t, b), Connected(t, b), b)
         IN  Describes(e, b, clean) /\ e.tip = b /\ e.height = Height[b]
<1>1. PICK f \in Path[t] \cap Path[b] : Path[f] = Path[t] \cap Path[b]
  BY ForkExists
<1>2. Disconnected(t, b) = Path[t] \ Path[f] /\ Connected(t, b) = Path[b] \ Path[f]
  BY <1>1 DEF Disconnected, Connected
<1>3. f # t /\ f # b
  BY <1>1, <1>2
<1> DEFINE down == FoldLeft(EraseBlock, d, Reverse(ByHeight(Path[t] \ Path[f])))
           up == FoldLeft(WriteBlock, down, ByHeight(Path[b] \ Path[f]))
<1>4. Describes(down, f, clean)
  BY <1>1, <1>3, EraseBranch
<1> HIDE DEF down
<1>5. Describes(up, b, clean)
  BY <1>1, <1>3, <1>4, WriteBranch
<1>6. ApplyReorganization(d, Disconnected(t, b), Connected(t, b), b) = MoveTip(up, b)
  BY <1>2 DEF ApplyReorganization, down
<1> HIDE DEF up
<1>7. Describes(MoveTip(up, b), b, clean) /\ MoveTip(up, b).tip = b /\ MoveTip(up, b).height = Height[b]
  BY <1>5 DEF MoveTip, Describes
<1> QED BY <1>6, <1>7

-----------------------------------------------------------------------------
(***************************************************************************)
(* The invariant of the database.                                          *)
(***************************************************************************)

\* The header of a stored block fits its parent path and its work was summed.
HeaderStored(a) == a = Genesis \/ (a \in GoodHeader /\ CumWork[a] <= MaxWork)

\* A database with a tip describes the chain of that tip.
OnDisk(d, clean) ==
  /\ Ladder(d.tip)
  /\ Describes(d, d.tip, clean)
  /\ d.height = Height[d.tip]
  /\ \A a \in Path[d.tip] : HeaderStored(a)

StoredLadders == \A n \in nodes : Ladder(n) /\ HeaderStored(n)

DiskIInv ==
  /\ disk.tip = NoHash => disk = EmptyDisk
  /\ disk.tip # NoHash => OnDisk(disk, TRUE)
  /\ running => StoredLadders

\* An accepted block stands on a ladder.
LEMMA AcceptedLadder ==
  ASSUME TreeShape, StoredLadders, NEW b \in Block, Accepted(b)
  PROVE  Ladder(b) /\ HeaderStored(b) /\ b # Genesis /\ Parent[b] \in nodes /\ b \notin nodes
<1>1. b # Genesis /\ b \notin nodes /\ Parent[b] \in nodes
  BY LinkedFacts DEF TreeShape, Accepted
<1>2. Ladder(b)
  BY <1>1, NextLadder DEF StoredLadders
<1>3. HeaderStored(b)
  BY DEF Accepted, Linked, HeaderStored
<1> QED BY <1>1, <1>2, <1>3

\* A block that extends the tip without undoing anything is a child of the tip.
LEMMA ExtensionIsChild ==
  ASSUME TreeShape, StoredLadders, NEW b \in Block, Accepted(b), Disconnected(tip, b) = {}
  PROVE  Parent[b] = tip
<1>1. Ladder(b) /\ b # Genesis /\ Parent[b] \in nodes /\ b \notin nodes
  BY AcceptedLadder
<1>2. tip \in nodes /\ Ladder(tip)
  BY DEF TreeShape, ChainTypeOK, StoredLadders
<1>3. tip \in Path[b] /\ tip # b
  BY <1>1, <1>2 DEF Disconnected, Ladder
<1>4. Path[b] = Path[Parent[b]] \cup {b} /\ Height[b] = Height[Parent[b]] + 1 /\ Path[Parent[b]] \subseteq nodes
  BY <1>1, Unfold DEF TreeShape, StoredShape
<1>5. Height[tip] \in 0 .. Height[b] /\ Height[b] \in Nat /\ Height[tip] # Height[b] /\ At(b, Height[b]) = b
  BY <1>1, <1>3, Rungs DEF Ladder
<1> DEFINE c == At(b, Height[tip] + 1)
<1>6. c \in Path[b] /\ Parent[c] = tip
  <2>1. Height[tip] + 1 \in 1 .. Height[b] /\ Height[tip] + 1 \in 0 .. Height[b]
        /\ (Height[tip] + 1) - 1 = Height[tip]
    BY <1>5
  <2>2. c \in Path[b] /\ Parent[c] = At(b, (Height[tip] + 1) - 1)
    BY <1>1, <2>1, Rungs
  <2>3. At(b, Height[tip]) = tip
    BY <1>1, <1>3, Rungs
  <2> QED BY <2>1, <2>2, <2>3
<1> HIDE DEF c
<1>7. c \notin nodes
  BY <1>6 DEF TreeShape, TipIsLeaf
<1> QED BY <1>4, <1>6, <1>7

\* What process_block and the commit leave on disk describes the tip they leave
\* in memory.
LEMMA CommitOnDisk ==
  ASSUME TreeShape, StoredLadders, disk.tip = tip, NEW clean \in BOOLEAN, OnDisk(disk, clean),
         NEW b \in Block, ProcessAndCommit(b)
  PROVE  StoredLadders' /\ OnDisk(disk', clean)
<1>1. CASE UNCHANGED <<nodes, disk>>
  BY <1>1 DEF StoredLadders
<1>2. ASSUME Accepted(b), nodes' = nodes \cup {b} PROVE StoredLadders'
  BY <1>2, AcceptedLadder DEF StoredLadders
<1>3. CASE Accepted(b) /\ nodes' = nodes \cup {b} /\ UNCHANGED disk
  BY <1>2, <1>3
<1>4. ASSUME Accepted(b) PROVE \A a \in Path[b] : HeaderStored(a)
  <2>1. Parent[b] \in nodes /\ b # Genesis /\ HeaderStored(b)
    BY <1>4, AcceptedLadder
  <2>2. Path[b] = Path[Parent[b]] \cup {b} /\ Path[Parent[b]] \subseteq nodes
    BY <2>1, Unfold DEF TreeShape, StoredShape
  <2> QED BY <2>1, <2>2 DEF StoredLadders
<1>5. CASE CommitExtension(b)
  <2>1. Accepted(b) /\ nodes' = nodes \cup {b} /\ Disconnected(tip, b) = {}
        /\ disk' = CommitBlock(disk, b)
    BY <1>5 DEF CommitExtension, ConnectBranch, Connects
  <2>2. Parent[b] = tip
    BY <2>1, ExtensionIsChild
  <2>3. Ladder(b) /\ b # Genesis
    BY <2>1, AcceptedLadder
  <2> DEFINE e == WriteBlock(disk, b)
  <2>4. Describes(e, b, clean)
    BY <2>2, <2>3, WriteNext DEF OnDisk
  <2> HIDE DEF e
  <2>5. disk' = MoveTip(e, b)
    BY <2>1 DEF CommitBlock, e
  <2>6. Describes(MoveTip(e, b), b, clean) /\ MoveTip(e, b).tip = b /\ MoveTip(e, b).height = Height[b]
    BY <2>4 DEF MoveTip, Describes
  <2>7. OnDisk(disk', clean)
    BY <1>4, <2>1, <2>3, <2>5, <2>6 DEF OnDisk
  <2> QED BY <1>2, <2>1, <2>7
<1>6. CASE CommitReorg(b)
  <2>1. Accepted(b) /\ nodes' = nodes \cup {b} /\ Disconnected(tip, b) # {}
        /\ disk' = ApplyReorganization(disk, Disconnected(tip, b), Connected(tip, b), b)
    BY <1>6 DEF CommitReorg, ConnectBranch, Connects
  <2>2. Ladder(b) /\ b \notin nodes
    BY <2>1, AcceptedLadder
  <2>3. tip \in nodes /\ Path[tip] \subseteq nodes /\ \A a \in Path[tip] : Applies(a, LedgerBefore(a))
    BY DEF TreeShape, ChainTypeOK, StoredShape, StoredReplays, Replays
  <2>4. Ladder(tip) /\ Describes(disk, tip, clean) /\ b \notin Path[tip]
    BY <2>2, <2>3 DEF OnDisk
  <2>5. Describes(disk', b, clean) /\ disk'.tip = b /\ disk'.height = Height[b]
    BY <2>1, <2>2, <2>3, <2>4, Reorganised
  <2>6. OnDisk(disk', clean)
    BY <1>4, <2>1, <2>2, <2>5 DEF OnDisk
  <2> QED BY <1>2, <2>1, <2>6
<1>7. CASE CommitFails(b)
  BY <1>1, <1>7 DEF CommitFails
<1>8. CASE KeepTip(b)
  BY <1>1, <1>3, <1>8 DEF KeepTip, FlagChild, FlagUnauthoritative, StoreSideBranch,
                          ArchiveDeepFork, FlagBranch, RefuseBlock, chainVars
<1> QED BY <1>5, <1>6, <1>7, <1>8 DEF ProcessAndCommit

\* The first commit of a fresh database.
LEMMA FirstOnDisk ==
  ASSUME NEW clean \in BOOLEAN
  PROVE  OnDisk(CommitBlock(EmptyDisk, Genesis), clean) /\ CommitBlock(EmptyDisk, Genesis).tip = Genesis
<1> DEFINE e == WriteBlock(EmptyDisk, Genesis)
           d == MoveTip(e, Genesis)
<1>1. Describes(e, Genesis, clean)
  BY WriteFirst
<1> HIDE DEF e
<1>2. Describes(d, Genesis, clean) /\ d.tip = Genesis /\ d.height = Height[Genesis]
  BY <1>1 DEF MoveTip, Describes
<1> HIDE DEF d
<1>3. \A a \in Path[Genesis] : HeaderStored(a)
  BY RecursionAssumption DEF HeaderStored
<1>4. OnDisk(d, clean)
  BY <1>2, <1>3, GenesisLadder DEF OnDisk
<1>5. CommitBlock(EmptyDisk, Genesis) = d
  BY DEF CommitBlock, d, e
<1> QED BY <1>2, <1>4, <1>5

\* A database that was never opened.
LEMMA DiskInitIInv == NodeInit => DiskIInv
BY DEF NodeInit, DiskIInv, EmptyDisk

\* Every step of the node keeps the database and the tree together.
LEMMA DiskNextIInv == NodeIInv /\ DiskIInv /\ [NodeNext]_nodeVars => DiskIInv'
<1> SUFFICES ASSUME NodeIInv, DiskIInv, [NodeNext]_nodeVars PROVE DiskIInv'
  OBVIOUS
<1>1. CASE UNCHANGED <<nodes, disk, running>>
  BY <1>1 DEF DiskIInv, StoredLadders
<1>2. CASE StartFresh
  <2>1. disk' = CommitBlock(EmptyDisk, Genesis) /\ nodes' = {Genesis}
    BY <1>2 DEF StartFresh, DiskIInv
  <2>2. OnDisk(disk', TRUE) /\ disk'.tip = Genesis
    BY <2>1, FirstOnDisk
  <2>3. StoredLadders'
    BY <2>1, GenesisLadder DEF StoredLadders, HeaderStored
  <2> QED BY <2>2, <2>3, TreeAssumption DEF DiskIInv
<1>3. CASE StartFromDisk
  <2>1. OnDisk(disk, TRUE) /\ nodes' = Path[disk.tip] /\ disk' = disk /\ disk.tip # NoHash
    BY <1>3 DEF StartFromDisk, DiskIInv
  <2>2. StoredLadders'
    BY <2>1, LowerLadder DEF StoredLadders, OnDisk
  <2> QED BY <2>1, <2>2 DEF DiskIInv
<1>4. CASE Stop
  BY <1>4 DEF Stop, DiskIInv
<1>5. ASSUME NEW b \in Block, SubmitVerified(b) \/ MineBlock(b) PROVE DiskIInv'
  <2>1. running /\ ProcessAndCommit(b) /\ TreeIInv /\ disk.tip = tip /\ StoredLadders
    BY <1>5 DEF SubmitVerified, MineBlock, NodeIInv, DiskIInv
  <2>2. disk.tip # NoHash
    BY <2>1, TreeAssumption DEF TreeIInv, TreeShape, ChainTypeOK
  <2>3. StoredLadders' /\ OnDisk(disk', TRUE)
    BY <2>1, <2>2, CommitOnDisk DEF DiskIInv, TreeIInv
  <2>4. disk'.tip # NoHash
    BY <2>3, TreeAssumption DEF OnDisk, Ladder
  <2> QED BY <2>3, <2>4 DEF DiskIInv
<1> QED
  BY <1>1, <1>2, <1>3, <1>4, <1>5 DEF NodeNext, nodeVars, BuildTemplate,
        DiscardTemplate, SubmitKnownInvalid, SubmitUnverified

\* The database describes its tip in every behaviour of the node.
LEMMA DiskInvariantHolds == NodeSpec => [](NodeIInv /\ DiskIInv)
<1>1. NodeInit => NodeIInv /\ DiskIInv
  BY NodeInitIInv, DiskInitIInv
<1>2. NodeIInv /\ DiskIInv /\ [NodeNext]_nodeVars => (NodeIInv /\ DiskIInv)'
  BY NodeNextIInv, DiskNextIInv
<1> QED BY <1>1, <1>2, PTL DEF NodeSpec

\* Whenever a node goes down, in the middle of a reorganisation or after a failed
\* write, recover() reads its database back and replays it without an error.
THEOREM AlwaysRestartable == NodeSpec => []Restartable
<1>1. NodeIInv /\ DiskIInv => Restartable
  <2> SUFFICES ASSUME NodeIInv, DiskIInv, disk.tip # NoHash PROVE Recoverable
    BY DEF Restartable
  <2>1. Persisted(disk.tip) /\ OnDisk(disk, TRUE)
    BY DEF NodeIInv, DiskIInv
  <2>2. PathReadable(disk)
    BY <2>1 DEF OnDisk, Describes, Ladder, PathReadable
  <2>3. ASSUME NEW a \in Path[disk.tip] \ {Genesis}
        PROVE  a \in GoodHeader /\ CumWork[a] <= MaxWork /\ Connectable(a, LedgerBefore(a))
    BY <2>1 DEF OnDisk, HeaderStored, Persisted, Sound
  <2> QED BY <2>2, <2>3 DEF Recoverable
<1> QED BY <1>1, DiskInvariantHolds, PTL

\* Memory and database agree at every step, the UTXOS table covers the replayed ledger,
\* and no unsound block is stored: for every set of blocks.
THEOREM DatabaseFollowsNode == NodeSpec => [](MemoryIsDurable /\ DiskUtxoCovers /\ PersistedSound)
<1>1. NodeIInv /\ DiskIInv => MemoryIsDurable /\ DiskUtxoCovers /\ PersistedSound
  <2> SUFFICES ASSUME NodeIInv, DiskIInv PROVE MemoryIsDurable /\ DiskUtxoCovers /\ PersistedSound
    OBVIOUS
  <2>1. CASE disk.tip = NoHash
    <3>1. ~ running
      BY <2>1, TreeAssumption DEF NodeIInv, TreeIInv, TreeShape, ChainTypeOK
    <3>2. disk.blocks = {}
      BY <2>1 DEF DiskIInv, EmptyDisk
    <3> QED BY <2>1, <3>1, <3>2 DEF MemoryIsDurable, DiskUtxoCovers, PersistedSound
  <2>2. CASE disk.tip # NoHash
    <3>1. Persisted(disk.tip) /\ OnDisk(disk, TRUE)
      BY <2>2 DEF NodeIInv, DiskIInv
    <3>2. /\ disk.height = Height[disk.tip] /\ disk.blocks = Path[disk.tip]
          /\ Covers(disk.utxo, LedgerAt[disk.tip])
      BY <3>1 DEF OnDisk, Describes
    <3>3. MemoryIsDurable
      BY <3>2 DEF MemoryIsDurable, NodeIInv
    <3>4. DiskUtxoCovers
      BY <3>2 DEF DiskUtxoCovers, Covers
    <3>5. PersistedSound
      BY <3>1, <3>2 DEF PersistedSound, Persisted
    <3> QED BY <3>3, <3>4, <3>5
  <2> QED BY <2>1, <2>2
<1> QED BY <1>1, DiskInvariantHolds, PTL

\* The database is sound at every step, its indexes included, for every set of blocks in
\* which no path holds a transaction twice.
THEOREM DatabaseAlwaysSound == DistinctTxs => (NodeSpec => []DurableSound)
<1> SUFFICES ASSUME DistinctTxs PROVE NodeSpec => []DurableSound
  OBVIOUS
<1>1. NodeIInv /\ DiskIInv => IndexesFollowChain
  <2> SUFFICES ASSUME NodeIInv, DiskIInv, disk.tip # NoHash
               PROVE  /\ disk.heights = [h \in 0 .. disk.height |->
                                            CHOOSE a \in Path[disk.tip] : Height[a] = h]
                      /\ DOMAIN disk.confirm = UNION {Txs(a) : a \in Path[disk.tip]}
                      /\ \A t \in DOMAIN disk.confirm :
                           disk.confirm[t] \in Path[disk.tip] /\ t \in Txs(disk.confirm[t])
                      /\ DOMAIN disk.undo = Path[disk.tip]
    BY DEF IndexesFollowChain
  <2>1. OnDisk(disk, TRUE)
    BY DEF DiskIInv
  <2>2. disk.heights = [h \in 0 .. disk.height |-> CHOOSE a \in Path[disk.tip] : Height[a] = h]
    BY <2>1 DEF OnDisk, Describes, At
  <2>3. Confirms(disk.confirm, Path[disk.tip]) /\ DOMAIN disk.undo = Path[disk.tip]
    BY <2>1 DEF OnDisk, Describes
  <2> QED BY <2>2, <2>3 DEF Confirms
<1>2. NodeSpec => []IndexesFollowChain
  BY <1>1, DiskInvariantHolds, PTL
<1> QED BY <1>2, DatabaseFollowsNode, PTL DEF DurableSound

-----------------------------------------------------------------------------
(***************************************************************************)
(* The node with its indexes and its snapshots.                            *)
(***************************************************************************)

\* What is known of the node whatever set of coins a restore gave it.
IndexedShape ==
  /\ running \in BOOLEAN
  /\ running => TreeShape /\ StoredLadders /\ disk.tip = tip
  /\ disk.tip = NoHash => ~ running /\ disk = EmptyDisk
  /\ disk.tip # NoHash => Persisted(disk.tip) /\ OnDisk(disk, FALSE)

\* What was collected from this node names block 0 or a node that has left block 0.
BackupOrigin == disk.tip # NoHash /\ (backup.of = Genesis \/ disk.tip # Genesis)

\* The entries of a restore under way: outpoints, and the ledger of a block if there was
\* a root to compare them with.
RestoreEntries ==
  /\ restoring.entries \subseteq OutPoint
  /\ restoring.blind \/ \E a \in Block : restoring.entries = LedgerAt[a]

\* What a restore can have left behind as long as no unsound block came of it.
RestoreIInv ==
  /\ stale \in BOOLEAN
  /\ ~ running => ~ stale /\ restoring = NoRestore
  /\ running /\ ~ stale => utxo = LedgerAt[tip]
  /\ running /\ stale => blind \/ \E a \in Block : utxo = LedgerAt[a]
  /\ restoring # NoRestore => RestoreEntries
  /\ backup.of # NoHash => BackupOrigin

\* The blocks to come in the index are the top of the canonical path.
Pending(s, t) ==
  \E n \in 0 .. Height[t] + 1 : s = [i \in 1 .. n |-> At(t, Height[t] - n + i)]

\* The rows of block a are there.
HasRows(a) ==
  /\ Height[a] \in DOMAIN rows.blocks /\ rows.blocks[Height[a]] = a
  /\ \A t \in Txs(a) : t \in DOMAIN rows.txs /\ rows.txs[t] = a

\* Blocks that a running node or its next start will come to.
Due == IF running THEN Range(todo) ELSE {a \in Path[disk.tip] : ~ Hidden(a)}

RowsIInv ==
  /\ DOMAIN rows = {"blocks", "txs", "live", "dead"}
  /\ rows.blocks \in [DOMAIN rows.blocks -> Block]
  /\ \E n \in Nat : DOMAIN rows.blocks \subseteq 0 .. n
  /\ ~ running => todo = << >>
  /\ disk.tip = NoHash => rows = NoRows
  /\ disk.tip # NoHash =>
       /\ Pending(todo, disk.tip)
       /\ \A a \in Path[disk.tip] : a \in lost \cup Due \/ HasRows(a)

\* Canonical blocks without rows.
Unindexed == {a \in Path[disk.tip] : a \in lost \cup Due}

\* How the unspent rows and the coins of the chain that ends in t can differ, after the
\* blocks in U were disconnected and with those in N not indexed.
Drift(live, t, U, N) ==
  /\ \A o \in live \ LedgerAt[t] :
       o \in OpReturn \/ (\E b \in U : o \in Creates(b)) \/ (\E b \in N : o \in Spends(b))
  /\ \A o \in LedgerAt[t] \ live :
       (\E b \in U : o \in Spends(b)) \/ (\E b \in N : o \in Creates(b))

DriftIInv == disk.tip # NoHash => Drift(rows.live, disk.tip, undone, Unindexed)

\* What block a did to an address.
Records(a, adr) ==
  UNION {({<<t, "input">>} \X {o \in Ins[t] : Owner[o] = adr})
           \cup ({<<t, "output">>} \X {o \in Outs[t] : Owner[o] = adr}) : t \in Txs(a)}

\* The address index of the chain that ends in t.
HistoryKeys(t) == {k \in Address \X (0 .. Height[t]) : Records(At(t, k[2]), k[1]) # {}}
HistoryOf(t) == [k \in HistoryKeys(t) |-> Records(At(t, k[2]), k[1])]

HistoryIInv == history = IF disk.tip = NoHash THEN << >> ELSE HistoryOf(disk.tip)

-----------------------------------------------------------------------------

\* The ledger of every block is a set of outpoints.
LEMMA LedgerType == \A b \in Block : LedgerAt[b] \subseteq OutPoint
<1> SUFFICES ASSUME NEW b \in Block, NEW o \in LedgerAt[b] PROVE o \in OutPoint
  OBVIOUS
<1>1. PICK a \in Path[b] : \E i \in DOMAIN Body[a] : o \in Made(Body[a][i])
  BY CoinOrigin
<1>2. a \in Block
  BY EveryLadder DEF Ladder
<1>3. PICK i \in DOMAIN Body[a] : o \in Made(Body[a][i])
  BY <1>1
<1>4. Body[a][i] \in Tx
  BY <1>2, TransactionAssumption
<1> QED BY <1>3, <1>4, TransactionAssumption DEF Made

\* What processing and committing a block leaves when it is connected on the right set
\* only: either nothing of tip, coins and database moved, or the new tip is b with its replay.
LEMMA CommitShape ==
  ASSUME TreeShape, StoredLadders, disk.tip = tip, OnDisk(disk, FALSE),
         NEW b \in Block, ConnectBranch(b) => RightParent(b), ProcessAndCommit(b)
  PROVE  /\ TreeShape' /\ StoredLadders' /\ OnDisk(disk', FALSE) /\ disk'.tip = tip'
         /\ \/ UNCHANGED <<tip, utxo, disk>>
            \/ tip' = b /\ utxo' = LedgerAt[b] /\ b # Genesis /\ b \notin nodes
<1>1. StoredLadders' /\ OnDisk(disk', FALSE)
  BY CommitOnDisk
<1>2. CASE ConnectBranch(b) /\ disk'.tip = b
  <2>1. tip' = b /\ Linked(b)
    BY <1>2 DEF ConnectBranch, Connects, Accepted
  <2>2. b # Genesis /\ b \notin nodes
    BY <2>1, LinkedFacts DEF TreeShape
  <2>3. TreeShape' /\ UtxoIsReplay'
    BY <1>2, ConnectBranchStep
  <2>4. utxo' = LedgerAt[b]
    BY <2>1, <2>3 DEF UtxoIsReplay
  <2> QED BY <1>1, <1>2, <2>1, <2>2, <2>3, <2>4
<1>3. CASE /\ ProcessBlock(b) \/ UNCHANGED <<nodes, tip, invalid, utxo>>
           /\ UNCHANGED <<tip, utxo, disk>>
  <2>1. CASE ProcessBlock(b)
    BY <1>1, <1>3, <2>1, ProcessShape
  <2>2. CASE UNCHANGED <<nodes, tip, invalid, utxo>>
    <3>1. TreeShape'
      BY <2>2, FlagStep DEF TreeShape, ChainTypeOK
    <3> QED BY <1>1, <1>3, <3>1
  <2> QED BY <1>3, <2>1, <2>2
<1> QED BY <1>2, <1>3, CommitFollows

\* One half of the next lemma.
LEMMA BlockReveals ==
  ASSUME NEW b \in Block, NEW U, NEW V, Fits(b, U), Fits(b, V), Apply(b, U) = Apply(b, V)
  PROVE  U \subseteq V
<1> SUFFICES ASSUME NEW o \in U PROVE o \in V
  OBVIOUS
<1> DEFINE Spent == {i \in DOMAIN Body[b] : o \in Ins[Body[b][i]]}
<1>1. \A i, j \in DOMAIN Body[b] : i \in Nat /\ 1 .. i - 1 \subseteq DOMAIN Body[b]
                                /\ (j < i => j \in 1 .. i - 1)
  BY TransactionAssumption, LenProperties
\* No transaction before the first that spends o makes it: it is there already.
<1>2. ASSUME NEW j \in DOMAIN Body[b], o \in Made(Body[b][j]), \A i \in Spent : j < i
      PROVE  FALSE
  <2>1. \A i \in 1 .. j - 1 : i \in DOMAIN Body[b] /\ i < j
    BY <1>1
  <2>2. \A i \in 1 .. j - 1 : o \notin Ins[Body[b][i]]
    BY <1>1, <1>2, <2>1
  <2>3. o \in StagedAt(U, b, j)
    BY <2>2 DEF StagedAt
  <2>4. o \notin Ins[Body[b][j]]
    BY <1>1, <1>2
  <2> QED BY <1>2, <2>3, <2>4 DEF Fits
<1>3. CASE Spent = {}
  <2>1. o \notin Spends(b)
    BY <1>3 DEF Spends
  <2>2. o \in V \cup Creates(b)
    BY <2>1 DEF Apply
  <2>3. o \notin Creates(b)
    BY <1>2, <1>3 DEF Creates
  <2> QED BY <2>2, <2>3
<1>4. CASE Spent # {}
  <2>1. Spent \in SUBSET Nat
    BY <1>1
  <2>2. PICK i \in Spent : \A j \in Spent : i <= j
    BY <1>4, <2>1, LeastNat
  <2>3. o \in StagedAt(V, b, i)
    BY <2>2 DEF Fits
  <2>4. o \in V \/ \E j \in 1 .. i - 1 : o \in Made(Body[b][j])
    BY <2>3 DEF StagedAt
  <2>5. ASSUME NEW j \in 1 .. i - 1, o \in Made(Body[b][j]) PROVE FALSE
    <3>1. j \in DOMAIN Body[b] /\ \A k \in Spent : j < k
      BY <1>1, <2>1, <2>2
    <3> QED BY <1>2, <2>5, <3>1
  <2> QED BY <2>4, <2>5
<1> QED BY <1>3, <1>4

\* A block tells the set it was applied to: no two sets take it and end up equal.
LEMMA BlockRevealsSet ==
  ASSUME NEW b \in Block, NEW U, NEW V, Fits(b, U), Fits(b, V), Apply(b, U) = Apply(b, V)
  PROVE  U = V
BY BlockReveals

\* A block is connected on the right set: on a set that a restore left and the tip does not
\* have, the root of a sound block does not match (Path A), and below a fork the set is a
\* replay (Path B).
LEMMA VerifiedRight ==
  ASSUME IndexedShape, RestoreIInv, NEW b \in Block, Receive(b), SubmitVerified(b), ConnectBranch(b),
         ~ poisoned'
  PROVE  RightParent(b)
<1>1. CASE Parent[b] # tip
  BY <1>1 DEF RightParent, ParentUtxo
<1>2. CASE Parent[b] = tip
  <2>1. running /\ tip \in Block /\ tip' = b
    BY DEF SubmitVerified, IndexedShape, TreeShape, ChainTypeOK, ConnectBranch
  <2>2. Fits(b, utxo) /\ RootMatches(b, utxo)
    BY <1>2 DEF SubmitVerified, PreValidated, ExtensionVerifies, BranchVerifies, ScriptsVerify
  <2>3. b # Genesis
    BY <1>2, <2>1, TreeAssumption
  <2>4. CASE ~ stale
    BY <1>2, <2>1, <2>4 DEF RightParent, ParentUtxo, RestoreIInv
  <2>5. CASE stale
    <3>1. Sound(b)
      BY <1>2, <2>1, <2>5 DEF Receive, Follow
    <3>2. Fits(b, LedgerAt[tip]) /\ RootMatches(b, LedgerAt[tip])
      BY <1>2, <2>3, <3>1 DEF Sound, LedgerBefore, Connectable, ScriptsVerify
    <3>3. utxo = LedgerAt[tip]
      BY <2>2, <3>2, BlockRevealsSet DEF RootMatches
    <3> QED BY <1>2, <3>3 DEF RightParent, ParentUtxo
  <2> QED BY <2>4, <2>5 DEF RestoreIInv
<1> QED BY <1>1, <1>2

\* A submitted block, whichever way the submission ends.
LEMMA ReceiveShape ==
  ASSUME IndexedShape, RestoreIInv, NEW b \in Block, Receive(b), ~ poisoned'
  PROVE  /\ running /\ running' = TRUE /\ todo = << >> /\ disk.tip = tip /\ disk'.tip = tip'
         /\ OnDisk(disk, FALSE) /\ OnDisk(disk', FALSE)
         /\ TreeShape' /\ StoredLadders'
         /\ \/ UNCHANGED <<tip, utxo, disk>>
            \/ tip' = b /\ utxo' = LedgerAt[b] /\ b # Genesis /\ b \notin Path[tip]
<1>1. running /\ todo = << >>
  BY DEF Receive, Unlocked, SubmitKnownInvalid, SubmitUnverified, SubmitVerified
<1>2. TreeShape /\ StoredLadders /\ disk.tip = tip
  BY <1>1 DEF IndexedShape
<1>3. tip \in Block /\ tip # NoHash /\ Path[tip] \subseteq nodes
  BY <1>2, TreeAssumption DEF TreeShape, ChainTypeOK, StoredShape
<1>4. OnDisk(disk, FALSE)
  BY <1>2, <1>3 DEF IndexedShape
<1>5. CASE SubmitKnownInvalid(b) \/ SubmitUnverified(b)
  <2>1. UNCHANGED <<nodes, tip, utxo, disk, running>> /\ (invalid' = invalid \/ invalid' = invalid \cup {b})
    BY <1>5 DEF SubmitKnownInvalid, SubmitUnverified, nodeVars
  <2>2. invalid' \subseteq Block /\ utxo' \subseteq OutPoint
    BY <1>2, <2>1 DEF TreeShape, ChainTypeOK
  <2>3. TreeShape'
    BY <1>2, <2>1, <2>2, FlagStep
  <2>4. StoredLadders'
    BY <1>2, <2>1 DEF StoredLadders
  <2>5. running' = TRUE
    BY <1>1, <2>1 DEF IndexedShape
  <2> QED BY <1>1, <1>2, <1>4, <2>1, <2>3, <2>4, <2>5
<1>6. CASE SubmitVerified(b)
  <2>1. ConnectBranch(b) => RightParent(b)
    BY <1>6, VerifiedRight
  <2>2. ProcessAndCommit(b) /\ running' = TRUE
    BY <1>1, <1>6 DEF SubmitVerified, IndexedShape
  <2>3. /\ TreeShape' /\ StoredLadders' /\ OnDisk(disk', FALSE) /\ disk'.tip = tip'
        /\ \/ UNCHANGED <<tip, utxo, disk>>
           \/ tip' = b /\ utxo' = LedgerAt[b] /\ b # Genesis /\ b \notin nodes
    BY <1>2, <1>4, <2>1, <2>2, CommitShape
  <2> QED BY <1>1, <1>2, <1>3, <1>4, <2>2, <2>3
<1> QED BY <1>5, <1>6 DEF Receive

\* A running state whose tree and database fit together.
LEMMA RunningShape ==
  ASSUME running' = TRUE, TreeShape', StoredLadders', disk'.tip = tip', OnDisk(disk', FALSE)
  PROVE  IndexedShape'
<1>1. Persisted(tip)'
  BY TipPersisted, PTL
<1>2. disk'.tip # NoHash
  BY TreeAssumption DEF TreeShape, ChainTypeOK
<1> QED BY <1>1, <1>2 DEF IndexedShape

\* The first start and the start from a database.
LEMMA OpenShape ==
  ASSUME IndexedShape, OpenFresh \/ OpenExisting
  PROVE  /\ IndexedShape' /\ running' = TRUE /\ utxo' = LedgerAt[tip'] /\ ~ running
         /\ OpenFresh => /\ disk.tip = NoHash /\ disk = EmptyDisk
                         /\ disk' = CommitBlock(EmptyDisk, Genesis) /\ disk'.tip = Genesis
         /\ OpenExisting => disk' = disk /\ disk.tip # NoHash
<1>1. CASE OpenFresh
  <2>1. /\ disk.tip = NoHash /\ disk = EmptyDisk /\ ~ running /\ running' = TRUE
        /\ disk' = CommitBlock(EmptyDisk, Genesis) /\ nodes' = {Genesis} /\ tip' = Genesis
    BY <1>1 DEF OpenFresh, StartFresh, IndexedShape
  <2>2. TreeIInv'
    <3>1. ChainInit'
      BY <1>1 DEF OpenFresh, StartFresh, ChainInit
    <3> QED BY <3>1, InitIInv, PTL
  <2>3. OnDisk(disk', FALSE) /\ disk'.tip = Genesis
    BY <2>1, FirstOnDisk
  <2>4. StoredLadders'
    BY <2>1, GenesisLadder DEF StoredLadders, HeaderStored
  <2>5. TreeShape' /\ UtxoIsReplay'
    BY <2>2 DEF TreeIInv
  <2>6. IndexedShape'
    BY <2>1, <2>3, <2>4, <2>5, RunningShape
  <2>7. ~ OpenExisting
    BY <2>1 DEF OpenExisting, StartFromDisk
  <2> QED BY <2>1, <2>3, <2>5, <2>6, <2>7 DEF UtxoIsReplay
<1>2. CASE OpenExisting
  <2>1. /\ disk.tip # NoHash /\ disk' = disk /\ ~ running /\ running' = TRUE
        /\ nodes' = Path[disk.tip] /\ tip' = disk.tip /\ invalid' = {} /\ utxo' = LedgerAt[disk.tip]
    BY <1>2 DEF OpenExisting, StartFromDisk
  <2>2. Persisted(disk.tip) /\ OnDisk(disk, FALSE)
    BY <2>1 DEF IndexedShape
  <2>3. TreeIInv'
    BY <2>1, <2>2, RestartIInv
  <2>4. StoredLadders'
    BY <2>1, <2>2, LowerLadder DEF StoredLadders, OnDisk
  <2>5. TreeShape'
    BY <2>3 DEF TreeIInv
  <2>6. IndexedShape'
    BY <2>1, <2>2, <2>4, <2>5, RunningShape
  <2>7. ~ OpenFresh
    BY <2>1 DEF OpenFresh, StartFresh
  <2> QED BY <2>1, <2>6, <2>7
<1> QED BY <1>1, <1>2

\* Steps that leave the chain and the tables of the chain alone; a restore replaces the
\* UTXOS table or the coins in memory.
LEMMA QuietShape ==
  ASSUME IndexedShape, UNCHANGED <<nodes, tip, invalid, running>>, utxo' \subseteq OutPoint \/ ~ running,
         disk' = disk \/ \E U : disk' = [disk EXCEPT !.utxo = U] /\ running
  PROVE  IndexedShape'
<1>1. disk.tip = NoHash => ~ running /\ disk = EmptyDisk
  BY DEF IndexedShape
<1>2. ASSUME disk.tip # NoHash
      PROVE  disk'.tip = disk.tip /\ Persisted(disk'.tip) /\ OnDisk(disk', FALSE)
  <2>1. Persisted(disk.tip) /\ OnDisk(disk, FALSE)
    BY <1>2 DEF IndexedShape
  <2>2. CASE disk' = disk
    BY <2>1, <2>2
  <2>3. ASSUME NEW U, disk' = [disk EXCEPT !.utxo = U]
        PROVE  disk'.tip = disk.tip /\ Persisted(disk'.tip) /\ OnDisk(disk', FALSE)
    <3>1. DOMAIN disk = {"tip", "height", "blocks", "heights", "confirm", "undo", "utxo"}
      BY <2>1 DEF OnDisk, Describes
    <3>2. /\ disk'.tip = disk.tip /\ disk'.height = disk.height /\ disk'.blocks = disk.blocks
          /\ disk'.heights = disk.heights /\ disk'.confirm = disk.confirm /\ disk'.undo = disk.undo
          /\ DOMAIN disk' = DOMAIN disk
      BY <2>3, <3>1
    <3> QED BY <2>1, <3>2 DEF OnDisk, Describes
  <2> QED BY <2>2, <2>3
<1>3. ASSUME running PROVE TreeShape' /\ StoredLadders' /\ disk.tip = tip /\ tip # NoHash
  <2>1. TreeShape /\ StoredLadders /\ disk.tip = tip
    BY <1>3 DEF IndexedShape
  <2>2. invalid' \subseteq Block /\ utxo' \subseteq OutPoint
    BY <1>3, <2>1 DEF TreeShape, ChainTypeOK
  <2>3. TreeShape'
    BY <2>1, <2>2, FlagStep
  <2>4. tip # NoHash
    BY <2>1, TreeAssumption DEF TreeShape, ChainTypeOK
  <2> QED BY <2>1, <2>3, <2>4 DEF StoredLadders
<1>4. running \in BOOLEAN
  BY DEF IndexedShape
<1>5. CASE disk.tip = NoHash
  BY <1>1, <1>3, <1>4, <1>5 DEF IndexedShape
<1>6. CASE disk.tip # NoHash
  BY <1>2, <1>3, <1>4, <1>6 DEF IndexedShape
<1> QED BY <1>5, <1>6

\* Every step of the node keeps the tree and the database together, also while a restore
\* has left it with the coins of another block.
LEMMA ShapeNext ==
  ASSUME IndexedShape, RestoreIInv, [IndexedNext]_allVars, ~ poisoned'
  PROVE  IndexedShape'
<1>1. running => utxo \subseteq OutPoint
  BY DEF IndexedShape, TreeShape, ChainTypeOK
<1>2. CASE UNCHANGED nodeVars
  BY <1>1, <1>2, QuietShape DEF nodeVars
<1>3. CASE OpenFresh \/ OpenExisting
  BY <1>3, OpenShape
<1>4. CASE Crash \/ CatchupFails
  <2>1. running /\ running' = FALSE /\ disk' = disk
    BY <1>4 DEF Crash, CatchupFails, Stop
  <2>2. disk.tip # NoHash
    BY <2>1 DEF IndexedShape
  <2> QED BY <2>1, <2>2 DEF IndexedShape
<1>5. CASE RestoreDisk
  <2>1. running
    BY <1>5 DEF RestoreDisk, RestoreIInv, NoRestore
  <2>2. disk' = disk \/ disk' = [disk EXCEPT !.utxo = restoring.entries]
    BY <1>5 DEF RestoreDisk
  <2>3. UNCHANGED <<nodes, tip, invalid, running, utxo>>
    BY <1>5 DEF RestoreDisk
  <2> QED BY <1>1, <2>1, <2>2, <2>3, QuietShape
<1>6. CASE RestoreMemory
  <2>1. utxo' = restoring.entries /\ restoring # NoRestore
    BY <1>6 DEF RestoreMemory, NoRestore
  <2>2. utxo' \subseteq OutPoint
    BY <2>1 DEF RestoreIInv, RestoreEntries
  <2> QED BY <1>6, <2>2, QuietShape DEF RestoreMemory
<1>7. ASSUME NEW b \in Block, Receive(b) PROVE IndexedShape'
  BY <1>7, ReceiveShape, RunningShape
<1> QED
  BY <1>2, <1>3, <1>4, <1>5, <1>6, <1>7
     DEF IndexedNext, allVars, IndexBlock, IndexFails, ExportChunk, RestoreCheck

\* The entries of a snapshot that is accepted are the ledger of the block it names, or were
\* compared with nothing.
LEMMA AcceptedSnapshot ==
  ASSUME IndexedShape, RestoreIInv, running, NEW s \in Snapshots, SnapshotAccepted(s)
  PROVE  /\ s.entries \subseteq OutPoint
         /\ Unrooted(s) \/ \E a \in Block : s.entries = LedgerAt[a]
<1>1. disk.tip = tip /\ disk.tip # NoHash /\ tip \in Block /\ TreeShape
  BY TreeAssumption DEF IndexedShape, TreeShape, ChainTypeOK
<1>2. Persisted(tip) /\ Ladder(tip) /\ disk.blocks = Path[tip]
  BY <1>1 DEF IndexedShape, OnDisk, Describes
<1>3. CASE ~ Unrooted(s)
  <2> DEFINE a == s.of
  <2>1. a \in Path[tip] /\ a \in Block /\ Sound(a) /\ UtxoRoot[a] = s.entries
    BY <1>2, <1>3 DEF Persisted, SnapshotAccepted, Unrooted
  <2>2. UtxoRoot[a] = LedgerAt[a]
    <3>1. CASE a = Genesis
      BY <3>1, RootAssumption
    <3>2. CASE a # Genesis
      BY <2>1, <3>2, Unfold DEF Sound, Connectable, RootMatches
    <3> QED BY <3>1, <3>2
  <2> QED BY <2>1, <2>2, LedgerType
<1>4. CASE Unrooted(s)
  <2>1. Height[tip] = 0
    BY <1>4 DEF SnapshotAccepted
  <2>2. tip = Genesis
    BY <1>2, <2>1, RecursionAssumption DEF Ladder
  <2>3. s.of # Genesis
    BY <1>2, <1>4 DEF Ladder, Unrooted
  <2>4. CASE s \in Offered
    BY <1>4, <2>4, IndexAssumption
  <2>5. CASE s = [of |-> backup.of, entries |-> backup.entries] /\ backup.of # NoHash
    BY <1>1, <2>2, <2>3, <2>5 DEF RestoreIInv, BackupOrigin
  <2> QED BY <2>4, <2>5 DEF Snapshots
<1> QED BY <1>3, <1>4

\* Poison stays.
LEMMA PoisonStays == [IndexedNext]_allVars /\ poisoned => poisoned'
BY DEF IndexedNext, allVars, nodeVars, indexVars, snapVars, OpenFresh, OpenExisting, Crash, CatchupFails,
       IndexBlock, IndexFails, ExportChunk, RestoreCheck, RestoreDisk, RestoreMemory, Receive, Follow

\* Every step keeps the sets of a restore ledgers of blocks.
LEMMA RestoreNext ==
  ASSUME IndexedShape, RestoreIInv, [IndexedNext]_allVars, ~ poisoned'
  PROVE  RestoreIInv'
<1>1. CASE UNCHANGED <<running, stale, blind, utxo, tip, restoring, backup, disk>>
  BY <1>1 DEF RestoreIInv, RestoreEntries, BackupOrigin
<1>2. CASE OpenFresh \/ OpenExisting
  <2>1. /\ running' = TRUE /\ utxo' = LedgerAt[tip'] /\ ~ running
        /\ (disk.tip = NoHash /\ disk'.tip = Genesis) \/ disk' = disk
    BY <1>2, OpenShape
  <2>2. ~ stale' /\ stale' \in BOOLEAN /\ UNCHANGED <<restoring, backup>> /\ restoring = NoRestore
    BY <1>2, <2>1 DEF OpenFresh, OpenExisting, Follow, RestoreIInv
  <2>3. backup'.of # NoHash => BackupOrigin'
    BY <2>1, <2>2 DEF BackupOrigin, RestoreIInv
  <2> QED BY <2>1, <2>2, <2>3 DEF RestoreIInv
<1>3. CASE Crash \/ CatchupFails
  BY <1>3 DEF Crash, CatchupFails, Stop, BackupOrigin, RestoreIInv
<1>4. ASSUME NEW s \in Snapshots, RestoreCheck(s) PROVE RestoreIInv'
  <2>1. running /\ SnapshotAccepted(s) /\ UNCHANGED <<running, stale, blind, utxo, tip, backup, disk>>
    BY <1>4 DEF RestoreCheck, nodeVars
  <2>2. restoring' = [step |-> "checked", entries |-> s.entries, blind |-> Unrooted(s)]
    BY <1>4 DEF RestoreCheck
  <2>3. RestoreEntries'
    BY <2>1, <2>2, AcceptedSnapshot DEF RestoreEntries
  <2> QED BY <2>1, <2>3 DEF RestoreIInv, BackupOrigin
<1>5. CASE RestoreDisk
  <2>1. running /\ restoring # NoRestore
    BY <1>5 DEF RestoreDisk, RestoreIInv, NoRestore
  <2>2. UNCHANGED <<running, stale, blind, utxo, tip, backup>>
    BY <1>5 DEF RestoreDisk
  <2>3. DOMAIN disk = {"tip", "height", "blocks", "heights", "confirm", "undo", "utxo"}
    BY <2>1 DEF IndexedShape, OnDisk, Describes
  <2>4. disk'.tip = disk.tip
    BY <1>5, <2>3 DEF RestoreDisk
  <2>5. restoring' = NoRestore \/ restoring' = [restoring EXCEPT !.step = "written"]
    BY <1>5 DEF RestoreDisk
  <2>6. restoring' # NoRestore => RestoreEntries'
    <3>1. RestoreEntries
      BY <2>1 DEF RestoreIInv
    <3>2. CASE restoring' = [restoring EXCEPT !.step = "written"]
      <4>1. restoring'.entries = restoring.entries /\ restoring'.blind = restoring.blind
        BY <3>2
      <4> QED BY <3>1, <4>1 DEF RestoreEntries
    <3> QED BY <2>5, <3>2
  <2> QED BY <2>1, <2>2, <2>4, <2>6 DEF RestoreIInv, BackupOrigin
<1>6. CASE RestoreMemory
  <2>1. running /\ restoring # NoRestore
    BY <1>6 DEF RestoreMemory, RestoreIInv, NoRestore
  <2>2. UNCHANGED <<running, tip, disk, backup>> /\ restoring' = NoRestore /\ utxo' = restoring.entries
        /\ stale' = (restoring.entries # LedgerAt[tip]) /\ blind' = restoring.blind
    BY <1>6 DEF RestoreMemory
  <2>3. RestoreEntries
    BY <2>1 DEF RestoreIInv
  <2>4. stale' \in BOOLEAN /\ (~ stale' => utxo' = LedgerAt[tip])
        /\ (stale' => blind' \/ \E a \in Block : utxo' = LedgerAt[a])
    BY <2>2, <2>3 DEF RestoreEntries
  <2> QED BY <2>1, <2>2, <2>4 DEF BackupOrigin, RestoreIInv
<1>7. ASSUME NEW b \in Block, Receive(b) PROVE RestoreIInv'
  <2>1. /\ running /\ running' = TRUE /\ disk.tip = tip /\ disk'.tip = tip'
        /\ \/ UNCHANGED <<tip, utxo, disk>>
           \/ tip' = b /\ utxo' = LedgerAt[b] /\ b # Genesis /\ b \notin Path[tip]
    BY <1>7, ReceiveShape
  <2>2. stale' = (stale /\ tip' = tip) /\ UNCHANGED <<backup, restoring, blind>>
    BY <1>7 DEF Receive, Follow
  <2>3. disk.tip # NoHash
    BY <2>1 DEF IndexedShape
  <2>4. b # NoHash
    BY TreeAssumption
  <2>5. backup'.of # NoHash => BackupOrigin'
    BY <2>1, <2>2, <2>3, <2>4 DEF BackupOrigin, RestoreIInv
  <2>6. restoring' # NoRestore => RestoreEntries'
    BY <2>2 DEF RestoreIInv, RestoreEntries
  <2>7. CASE UNCHANGED <<tip, utxo, disk>>
    BY <2>1, <2>2, <2>5, <2>6, <2>7 DEF RestoreIInv
  <2>8. CASE tip' = b /\ utxo' = LedgerAt[b] /\ b \notin Path[tip]
    <3>1. tip \in Path[tip]
      BY <2>1, <2>3 DEF IndexedShape, Persisted
    <3>2. tip' # tip
      BY <2>8, <3>1
    <3> QED BY <2>1, <2>2, <2>5, <2>6, <2>8, <3>2 DEF RestoreIInv
  <2> QED BY <2>1, <2>7, <2>8
<1>8. CASE ExportChunk
  <2>1. running /\ UNCHANGED <<running, stale, blind, utxo, tip, restoring, disk>>
    BY <1>8 DEF ExportChunk, nodeVars
  <2>2. disk.tip # NoHash
    BY <2>1 DEF IndexedShape
  <2>3. backup'.of = IF backup.next = 0 THEN disk.tip ELSE backup.of
    BY <1>8 DEF ExportChunk
  <2>4. backup'.of # NoHash => BackupOrigin'
    BY <2>1, <2>2, <2>3 DEF BackupOrigin, RestoreIInv
  <2> QED BY <2>1, <2>4 DEF RestoreIInv, RestoreEntries
<1> QED
  BY <1>1, <1>2, <1>3, <1>4, <1>5, <1>6, <1>7, <1>8
     DEF IndexedNext, allVars, nodeVars, snapVars, IndexBlock, IndexFails

\* An unopened node.
LEMMA IndexedInitIInv == IndexedInit => IndexedShape /\ RestoreIInv
<1> SUFFICES ASSUME IndexedInit PROVE IndexedShape /\ RestoreIInv
  OBVIOUS
<1>1. disk = EmptyDisk /\ disk.tip = NoHash /\ running = FALSE
  BY DEF IndexedInit, NodeInit, EmptyDisk
<1>2. stale = FALSE /\ restoring = NoRestore
  BY DEF IndexedInit
<1>3. backup.of = NoHash
  BY DEF IndexedInit, NoBackup
<1> QED BY <1>1, <1>2, <1>3 DEF IndexedShape, RestoreIInv

\* Both hold of every behaviour of the node with its indexes, until an unsound block is
\* connected to a restored set.
LEMMA IndexedInvariantHolds == IndexedSpec => [](~ poisoned => IndexedShape /\ RestoreIInv)
<1>1. IndexedShape /\ RestoreIInv /\ [IndexedNext]_allVars /\ ~ poisoned' => (IndexedShape /\ RestoreIInv)'
  BY ShapeNext, RestoreNext
<1> QED BY <1>1, PoisonStays, IndexedInitIInv, PTL DEF IndexedSpec

\* The set in memory and the block it belongs to, whatever a restore let in.
MendedIInv ==
  /\ "tip" \in DOMAIN disk /\ disk.tip \in Block \cup {NoHash}
  /\ stale \in BOOLEAN
  /\ nodes \subseteq Block
  /\ running => tip \in Block /\ (~ stale => utxo = LedgerAt[tip])

\* The step that moves the tip sets it right, unless an unsound block extends it.
LEMMA MendedNext ==
  ASSUME MendedIInv, [IndexedNext]_allVars
  PROVE  MendedIInv'
<1>0. Genesis \in Block
  BY TreeAssumption
<1>1. CASE UNCHANGED <<disk, stale, running, tip, utxo, nodes>>
  BY <1>1 DEF MendedIInv
<1>2. CASE OpenFresh
  <2>1. tip' = Genesis /\ utxo' = LedgerAt[Genesis] /\ nodes' = {Genesis}
    BY <1>2, RecursionAssumption DEF OpenFresh, StartFresh
  <2>2. "tip" \in DOMAIN disk' /\ disk'.tip = Genesis
    BY <1>2 DEF OpenFresh, StartFresh, CommitBlock, MoveTip
  <2>3. stale' \in BOOLEAN
    BY <1>2 DEF OpenFresh, Follow
  <2> QED BY <1>0, <2>1, <2>2, <2>3 DEF MendedIInv
<1>3. CASE OpenExisting
  <2>1. disk' = disk /\ disk.tip # NoHash /\ tip' = disk.tip /\ nodes' = Path[disk.tip]
        /\ utxo' = LedgerAt[disk.tip] /\ stale' = FALSE
    BY <1>3 DEF OpenExisting, StartFromDisk
  <2>2. disk.tip \in Block
    BY <2>1 DEF MendedIInv
  <2>3. Path[disk.tip] \subseteq Block
    BY <2>2, EveryLadder DEF Ladder
  <2> QED BY <2>1, <2>2, <2>3 DEF MendedIInv
<1>4. CASE Crash \/ CatchupFails
  <2>1. disk' = disk /\ nodes' = {Genesis} /\ running' = FALSE /\ stale' = FALSE
    BY <1>4 DEF Crash, CatchupFails, Stop
  <2> QED BY <1>0, <2>1 DEF MendedIInv
<1>5. CASE RestoreDisk
  <2>1. "tip" \in DOMAIN disk' /\ disk'.tip = disk.tip /\ UNCHANGED <<stale, running, tip, utxo, nodes>>
    <3>1. disk' = disk \/ disk' = [disk EXCEPT !.utxo = restoring.entries]
      BY <1>5 DEF RestoreDisk
    <3>2. "tip" \in DOMAIN disk' /\ disk'.tip = disk.tip
      BY <3>1 DEF MendedIInv
    <3> QED BY <1>5, <3>2 DEF RestoreDisk
  <2> QED BY <2>1 DEF MendedIInv
<1>6. CASE RestoreMemory
  BY <1>6 DEF RestoreMemory, MendedIInv
<1>7. ASSUME NEW b \in Block, Receive(b) PROVE MendedIInv'
  <2>1. /\ running /\ running' = running /\ stale' \in BOOLEAN /\ tip \in Block
        /\ (tip' = tip => stale' = stale)
    BY <1>7 DEF Receive, Follow, SubmitKnownInvalid, SubmitUnverified, SubmitVerified, nodeVars, MendedIInv
  <2>2. CASE UNCHANGED <<tip, utxo, disk>> /\ nodes' \subseteq Block
    BY <2>1, <2>2 DEF MendedIInv
  <2>3. CASE SubmitVerified(b) /\ ConnectBranch(b) /\ disk'.tip = b /\ "tip" \in DOMAIN disk'
    <3>1. tip' = b /\ utxo' = Apply(b, ParentUtxo(b)) /\ nodes' = nodes \cup {b} /\ Parent[b] \in nodes
      BY <2>3 DEF ConnectBranch, Connects, Accepted, Linked
    <3>2. b # Genesis
      BY <3>1, TreeAssumption DEF MendedIInv
    <3>3. LedgerAt[b] = Apply(b, LedgerAt[Parent[b]])
      BY <3>2, RecursionAssumption
    <3>4. ASSUME ~ stale' PROVE utxo' = LedgerAt[b]
      <4>1. CASE Parent[b] # tip
        BY <3>1, <3>3, <4>1 DEF ParentUtxo
      <4>2. CASE Parent[b] = tip /\ ~ stale
        BY <2>1, <3>1, <3>3, <4>2 DEF ParentUtxo, MendedIInv
      <4>3. CASE Parent[b] = tip /\ stale
        <5>1. Sound(b)
          BY <1>7, <3>1, <3>4, <4>3 DEF Receive, Follow
        <5>2. UtxoRoot[b] = LedgerAt[b]
          BY <3>2, <3>3, <5>1 DEF Sound, LedgerBefore, Connectable, RootMatches
        <5>3. RootMatches(b, utxo)
          BY <2>3, <4>3 DEF SubmitVerified, PreValidated, ExtensionVerifies, BranchVerifies
        <5> QED BY <3>1, <4>3, <5>2, <5>3 DEF ParentUtxo, RootMatches
      <4> QED BY <4>1, <4>2, <4>3 DEF MendedIInv
    <3> QED BY <2>1, <2>3, <3>1, <3>4 DEF MendedIInv
  <2>4. CASE SubmitKnownInvalid(b) \/ SubmitUnverified(b)
    BY <2>2, <2>4 DEF SubmitKnownInvalid, SubmitUnverified, nodeVars, MendedIInv
  <2>5. CASE SubmitVerified(b) /\ UNCHANGED <<tip, utxo, disk>>
    <3>1. nodes' = nodes \/ nodes' = nodes \cup {b}
      BY <2>5 DEF SubmitVerified, ProcessAndCommit, KeepTip, CommitExtension, CommitReorg, CommitFails,
                  ConnectBranch, FlagChild, FlagUnauthoritative, StoreSideBranch, ArchiveDeepFork,
                  FlagBranch, RefuseBlock, chainVars
    <3>2. nodes' \subseteq Block
      BY <3>1 DEF MendedIInv
    <3> QED BY <2>2, <2>5, <3>2
  <2>6. ASSUME SubmitVerified(b)
        PROVE  \/ ConnectBranch(b) /\ disk'.tip = b /\ "tip" \in DOMAIN disk'
               \/ UNCHANGED <<tip, utxo, disk>>
    <3>1. (ConnectBranch(b) /\ disk'.tip = b) \/ UNCHANGED <<tip, utxo, disk>>
      BY <2>6, CommitFollows DEF SubmitVerified
    <3>2. \A d : "tip" \in DOMAIN MoveTip(d, b)
      BY DEF MoveTip
    <3>3. (\E d : disk' = MoveTip(d, b)) \/ UNCHANGED disk
      <4>1. CASE CommitExtension(b)
        BY <4>1 DEF CommitExtension, CommitBlock
      <4>2. CASE CommitReorg(b)
        BY <4>2 DEF CommitReorg, ApplyReorganization
      <4>3. CASE KeepTip(b) \/ CommitFails(b)
        BY <4>3 DEF KeepTip, CommitFails
      <4> QED BY <2>6, <4>1, <4>2, <4>3 DEF SubmitVerified, ProcessAndCommit
    <3> QED BY <3>1, <3>2, <3>3 DEF MendedIInv
  <2> QED BY <1>7, <2>3, <2>4, <2>5, <2>6 DEF Receive
<1> QED
  BY <1>1, <1>2, <1>3, <1>4, <1>5, <1>6, <1>7
     DEF IndexedNext, allVars, nodeVars, snapVars, IndexBlock, IndexFails, ExportChunk, RestoreCheck

\* Whatever entries a client sends and whatever is committed between the steps of a restore:
\* the set in memory is the tip's again after a restart, a reorganisation or a sound block;
\* compared entries are the ledger of a block; and nothing unsound is in the database unless
\* it extended the tip on a restored set.  For every set of blocks and of snapshots.
THEOREM RestoreAlwaysContained == IndexedSpec => []RestoreContained
<1>1. IndexedInit => MendedIInv
  <2> SUFFICES ASSUME IndexedInit PROVE MendedIInv
    OBVIOUS
  <2>1. "tip" \in DOMAIN disk /\ disk.tip = NoHash
    BY DEF IndexedInit, NodeInit, EmptyDisk
  <2>2. stale = FALSE /\ running = FALSE /\ nodes = {Genesis}
    BY DEF IndexedInit, NodeInit
  <2> QED BY <2>1, <2>2, TreeAssumption DEF MendedIInv
<1>2. ASSUME MendedIInv, ~ poisoned => IndexedShape /\ RestoreIInv PROVE RestoreContained
  <2>1. running /\ ~ stale => utxo = LedgerAt[tip]
    BY <1>2 DEF MendedIInv
  <2>2. ASSUME ~ poisoned, running, stale, ~ blind PROVE utxo \in {LedgerAt[a] : a \in Block}
    BY <1>2, <2>2 DEF RestoreIInv
  <2>3. ASSUME ~ poisoned PROVE \A a \in disk.blocks : Sound(a)
    <3>1. CASE disk.tip = NoHash
      BY <1>2, <2>3, <3>1 DEF IndexedShape, EmptyDisk
    <3>2. CASE disk.tip # NoHash
      BY <1>2, <2>3, <3>2 DEF IndexedShape, OnDisk, Describes, Persisted
    <3> QED BY <3>1, <3>2
  <2> QED BY <2>1, <2>2, <2>3 DEF RestoreContained
<1>3. MendedIInv /\ [IndexedNext]_allVars => MendedIInv'
  BY MendedNext
<1> QED BY <1>1, <1>2, <1>3, IndexedInvariantHolds, PTL DEF IndexedSpec

-----------------------------------------------------------------------------
(***************************************************************************)
(* The blocks to come in the relational index.                             *)
(***************************************************************************)

\* The top of a path, taken from below: its blocks and what the first one leaves.
LEMMA PendingFacts ==
  ASSUME NEW t, Ladder(t), NEW s, Pending(s, t)
  PROVE  /\ s \in Seq(Block) /\ Range(s) \subseteq Path[t]
         /\ s # << >> => /\ Head(s) \in Path[t]
                         /\ Pending(Tail(s), t)
                         /\ Range(s) = Range(Tail(s)) \cup {Head(s)}
                         /\ Range(Tail(s)) = Path[t] \ Path[Head(s)]
<1> DEFINE H == Height[t]
<1>1. PICK n \in 0 .. H + 1 : s = [i \in 1 .. n |-> At(t, H - n + i)]
  BY DEF Pending
<1>2. H \in Nat /\ n \in Nat /\ Path[t] \subseteq Block
  BY DEF Ladder
<1>3. \A h \in 0 .. H : At(t, h) \in Path[t] /\ Height[At(t, h)] = h
  BY Rungs
<1>4. \A x \in Path[t] : At(t, Height[x]) = x /\ Height[x] \in 0 .. H
  BY Rungs DEF Ladder
<1>5. ASSUME NEW i \in 1 .. n PROVE H - n + i \in 0 .. H
  BY <1>2
<1>6. ASSUME NEW i \in 1 .. n PROVE s[i] \in Path[t] /\ Height[s[i]] = H - n + i
  BY <1>1, <1>3, <1>5
<1>7. DOMAIN s = 1 .. n
  BY <1>1
<1>8. s \in Seq(Block) /\ Len(s) = n
  <2>1. s \in [1 .. n -> Block]
    BY <1>1, <1>2, <1>6
  <2> QED BY <1>2, <2>1
<1>9. Range(s) \subseteq Path[t]
  BY <1>6, <1>7 DEF Range
<1>10. ASSUME s # << >>
       PROVE  /\ Head(s) \in Path[t]
              /\ Pending(Tail(s), t)
              /\ Range(s) = Range(Tail(s)) \cup {Head(s)}
              /\ Range(Tail(s)) = Path[t] \ Path[Head(s)]
  <2> DEFINE u == Tail(s)
  <2>1. n # 0 /\ n - 1 \in Nat /\ n - 1 \in 0 .. H + 1 /\ 1 \in 1 .. n
    BY <1>2, <1>8, <1>10
  <2>2. u \in Seq(Block) /\ Len(u) = n - 1 /\ Head(s) = s[1] /\ \A i \in 1 .. n - 1 : u[i] = s[i + 1]
    BY <1>8, <1>10
  <2>3. u = [i \in 1 .. n - 1 |-> u[i]]
    <3>1. u \in [1 .. Len(u) -> Block]
      BY <2>2, LenProperties
    <3> QED BY <2>2, <3>1
  <2>4. ASSUME NEW i \in 1 .. n - 1 PROVE u[i] = At(t, H - (n - 1) + i)
    <3>1. i + 1 \in 1 .. n /\ H - n + (i + 1) = H - (n - 1) + i
      BY <1>2, <2>1
    <3> QED BY <1>1, <2>2, <3>1
  <2> HIDE DEF u
  <2>5. u = [i \in 1 .. n - 1 |-> At(t, H - (n - 1) + i)]
    BY <2>3, <2>4
  <2>6. Pending(u, t)
    BY <2>1, <2>5 DEF Pending
  <2>7. Head(s) \in Path[t] /\ Height[Head(s)] = H - n + 1
    BY <1>6, <2>1, <2>2
  <2>8. Path[Head(s)] = {y \in Path[t] : Height[y] <= H - n + 1}
    BY <2>7 DEF Ladder
  <2>9. DOMAIN u = 1 .. n - 1
    BY <2>3
  <2>10. Range(s) = Range(u) \cup {Head(s)}
    <3>1. ASSUME NEW i \in 1 .. n PROVE s[i] \in Range(u) \cup {Head(s)}
      <4>1. CASE i = 1
        BY <2>2, <4>1
      <4>2. CASE i # 1
        <5>1. i - 1 \in 1 .. n - 1 /\ (i - 1) + 1 = i
          BY <1>2, <4>2
        <5>2. u[i - 1] = s[i]
          BY <2>2, <5>1
        <5> QED BY <2>9, <5>1, <5>2 DEF Range
      <4> QED BY <4>1, <4>2
    <3>2. ASSUME NEW i \in 1 .. n - 1 PROVE u[i] \in Range(s)
      <4>1. i + 1 \in 1 .. n /\ u[i] = s[i + 1]
        BY <1>2, <2>2
      <4> QED BY <1>7, <4>1 DEF Range
    <3>3. Head(s) \in Range(s)
      BY <1>7, <2>1, <2>2 DEF Range
    <3> QED BY <1>7, <2>9, <3>1, <3>2, <3>3 DEF Range
  <2>11. ASSUME NEW x \in Range(u) PROVE x \in Path[t] /\ Height[x] > H - n + 1
    <3>1. PICK i \in 1 .. n - 1 : x = u[i]
      BY <2>9 DEF Range
    <3>2. i + 1 \in 1 .. n /\ x = s[i + 1]
      BY <1>2, <2>2, <3>1
    <3>3. x \in Path[t] /\ Height[x] = H - n + (i + 1)
      BY <1>6, <3>2
    <3> QED BY <1>2, <3>3
  <2>12. ASSUME NEW x \in Path[t], ~ (Height[x] <= H - n + 1) PROVE x \in Range(u)
    <3> DEFINE i == Height[x] - (H - n + 1)
    <3>1. Height[x] \in 0 .. H /\ At(t, Height[x]) = x
      BY <1>4
    <3>2. i \in 1 .. n - 1 /\ H - (n - 1) + i = Height[x]
      BY <1>2, <2>12, <3>1
    <3>3. u[i] = x
      BY <2>4, <3>1, <3>2
    <3> QED BY <2>9, <3>2, <3>3 DEF Range
  <2>13. \A x \in Path[t] : Height[x] \in Nat
    BY <1>4
  <2>14. Range(u) = Path[t] \ Path[Head(s)]
    BY <1>2, <2>8, <2>11, <2>12, <2>13
  <2> QED BY <2>6, <2>7, <2>10, <2>14 DEF u
<1> QED BY <1>8, <1>9, <1>10

\* Nothing to come.
LEMMA PendingNone ==
  ASSUME NEW t, Ladder(t)
  PROVE  Pending(<< >>, t) /\ Range(<< >>) = {}
<1>1. Height[t] \in Nat /\ 0 \in 0 .. Height[t] + 1
  BY DEF Ladder
<1>2. << >> = [i \in 1 .. 0 |-> At(t, Height[t] - 0 + i)]
  OBVIOUS
<1>3. Pending(<< >>, t)
  BY <1>1, <1>2 DEF Pending
<1> QED BY <1>3 DEF Range

\* The blocks of the top of a path.
LEMMA TopRange ==
  ASSUME NEW t, Ladder(t), NEW n \in 0 .. Height[t] + 1, NEW s,
         s = [i \in 1 .. n |-> At(t, Height[t] - n + i)]
  PROVE  Pending(s, t) /\ Range(s) = {a \in Path[t] : Height[a] > Height[t] - n}
<1> DEFINE H == Height[t]
<1>1. H \in Nat /\ n \in Nat /\ Pending(s, t)
  BY DEF Ladder, Pending
<1>2. ASSUME NEW x \in Range(s) PROVE x \in Path[t] /\ Height[x] > H - n
  <2>1. PICK i \in 1 .. n : x = At(t, H - n + i)
    BY DEF Range
  <2>2. H - n + i \in 0 .. H /\ H - n + i > H - n
    BY <1>1
  <2>3. x \in Path[t] /\ Height[x] = H - n + i
    BY <2>1, <2>2, Rungs
  <2> QED BY <2>2, <2>3
<1>3. ASSUME NEW x \in Path[t], Height[x] > H - n PROVE x \in Range(s)
  <2>1. Height[x] \in 0 .. H /\ At(t, Height[x]) = x
    BY Rungs DEF Ladder
  <2> DEFINE i == Height[x] - (H - n)
  <2>2. i \in 1 .. n /\ H - n + i = Height[x]
    BY <1>1, <1>3, <2>1
  <2>3. s[i] = x /\ i \in DOMAIN s
    BY <2>1, <2>2
  <2> QED BY <2>3 DEF Range
<1> QED BY <1>1, <1>2, <1>3

\* The blocks that a commit wrote.
LEMMA PendingBranch ==
  ASSUME NEW t, Ladder(t), NEW f \in Path[t], f # t
  PROVE  /\ Pending(ByHeight(Path[t] \ Path[f]), t)
         /\ Range(ByHeight(Path[t] \ Path[f])) = Path[t] \ Path[f]
<1> DEFINE H == Height[t]
           n == H - Height[f]
           s == ByHeight(Path[t] \ Path[f])
<1>1. Height[f] \in Nat /\ n \in Nat /\ s = [i \in 1 .. n |-> At(t, Height[f] + i)]
  BY BranchOrder
<1>2. H \in Nat
  BY DEF Ladder
<1> HIDE DEF s
<1>3. n \in 0 .. H + 1 /\ H - n = Height[f]
  BY <1>1, <1>2
<1>4. s = [i \in 1 .. n |-> At(t, H - n + i)]
  BY <1>1, <1>3
<1>5. Pending(s, t) /\ Range(s) = {a \in Path[t] : Height[a] > H - n}
  BY <1>3, <1>4, TopRange
<1>6. Path[f] = {y \in Path[t] : Height[y] <= Height[f]} /\ \A y \in Path[t] : Height[y] \in Nat
  BY DEF Ladder
<1>7. {a \in Path[t] : Height[a] > H - n} = Path[t] \ Path[f]
  BY <1>1, <1>3, <1>6
<1> QED BY <1>5, <1>7 DEF s

\* The blocks of commits that wrote nothing and of the first commit.
LEMMA PendingStart ==
  /\ ByHeight({}) = << >>
  /\ ByHeight({Genesis}) = [i \in 1 .. 1 |-> Genesis]
  /\ Pending(ByHeight({Genesis}), Genesis) /\ Range(ByHeight({Genesis})) = {Genesis}
<1>1. ByHeight({}) = << >>
  <2>1. Cardinality({}) = 0
    BY FS_EmptySet
  <2> QED BY <2>1 DEF ByHeight
<1> DEFINE s == ByHeight({Genesis})
<1>2. s = [i \in 1 .. 1 |-> Genesis]
  <2>1. Cardinality({Genesis}) = 1
    BY FS_Singleton
  <2>2. {Height[a] : a \in {Genesis}} = {0} /\ Height[Genesis] = 0
    BY RecursionAssumption
  <2>3. Min({Height[a] : a \in {Genesis}}) = 0
    <3>1. Min({0}) = 0
      BY DEF Min
    <3> QED BY <2>2, <3>1
  <2>4. PICK m : m = Min({Height[a] : a \in {Genesis}})
    OBVIOUS
  <2>5. PICK k : k = Cardinality({Genesis})
    OBVIOUS
  <2>6. s = [i \in 1 .. k |-> CHOOSE a \in {Genesis} : Height[a] = m + i - 1]
    BY <2>4, <2>5 DEF ByHeight
  <2>7. m = 0 /\ k = 1
    BY <2>1, <2>3, <2>4, <2>5
  <2> HIDE DEF s
  <2>8. ASSUME NEW i \in 1 .. k PROVE (CHOOSE a \in {Genesis} : Height[a] = m + i - 1) = Genesis
    <3>1. Height[Genesis] = m + i - 1
      BY <2>2, <2>7
    <3> QED BY <3>1
  <2> QED BY <2>6, <2>7, <2>8
<1> HIDE DEF s
<1>3. Range(s) = {Genesis}
  BY <1>2 DEF Range
<1>4. At(Genesis, 0) = Genesis /\ Height[Genesis] = 0
  BY GenesisLadder, RecursionAssumption, Rungs
<1>5. ASSUME NEW i \in 1 .. 1 PROVE At(Genesis, Height[Genesis] - 1 + i) = Genesis
  <2>1. Height[Genesis] - 1 + i = 0
    BY <1>4
  <2> QED BY <1>4, <2>1
<1>6. s = [i \in 1 .. 1 |-> At(Genesis, Height[Genesis] - 1 + i)]
  BY <1>2, <1>5
<1>7. 1 \in 0 .. Height[Genesis] + 1
  BY <1>4
<1>8. Pending(s, Genesis)
  BY <1>6, <1>7 DEF Pending
<1> QED BY <1>1, <1>2, <1>3, <1>8 DEF s

\* The last height of the index, or -1.
LEMMA LatestType ==
  ASSUME RowsIInv
  PROVE  LatestIndexed \in Int /\ LatestIndexed >= -1
<1> DEFINE S == DOMAIN rows.blocks
<1>1. PICK n \in Nat : S \subseteq 0 .. n
  BY DEF RowsIInv
<1>2. CASE rows.blocks = << >>
  BY <1>2 DEF LatestIndexed
<1>3. CASE rows.blocks # << >>
  <2>1. S # {}
    <3>1. PICK f : f = rows.blocks
      OBVIOUS
    <3>2. f \in [DOMAIN f -> Block] /\ f # << >>
      BY <1>3, <3>1 DEF RowsIInv
    <3>3. DOMAIN f # {}
      <4> SUFFICES ASSUME DOMAIN f = {} PROVE FALSE
        OBVIOUS
      <4>1. f = [x \in {} |-> f[x]]
        BY <3>2
      <4>2. << >> = [x \in {} |-> f[x]]
        OBVIOUS
      <4> QED BY <3>2, <4>1, <4>2
    <3> QED BY <3>1, <3>3
  <2> HIDE DEF S
  <2> DEFINE D == {k \in Nat : \E x \in S : k = n - x}
  <2>2. PICK y \in S : TRUE
    BY <2>1
  <2>3. n - y \in D
    BY <1>1
  <2>4. PICK k \in D : \A m \in D : k <= m
    <3>1. D \in SUBSET Nat /\ D # {}
      BY <2>3
    <3> HIDE DEF D
    <3> QED BY <3>1, LeastNat
  <2>5. PICK x \in S : k = n - x
    BY <2>4
  <2>6. ASSUME NEW z \in S PROVE x >= z
    <3>1. z \in 0 .. n /\ x \in 0 .. n
      BY <1>1
    <3>2. n - z \in D
      BY <3>1
    <3>3. k <= n - z
      BY <2>4, <3>2
    <3> QED BY <2>5, <3>1, <3>3
  <2>7. \E m \in S : \A z \in S : m >= z
    BY <2>6
  <2>8. Max(S) \in S
    BY <2>7 DEF Max
  <2>9. Max(S) \in Nat
    <3>1. \A z \in S : z \in Nat
      BY <1>1
    <3> QED BY <2>8, <3>1
  <2> QED BY <1>3, <2>9 DEF LatestIndexed, S
<1> QED BY <1>2, <1>3

\* The blocks that the catch-up of a start walks through are those of the path that are
\* not hidden from it.
LEMMA BacklogFacts ==
  ASSUME RowsIInv, disk.tip # NoHash, OnDisk(disk, FALSE)
  PROVE  /\ Pending(Backlog(disk), disk.tip)
         /\ Range(Backlog(disk)) = {a \in Path[disk.tip] : ~ Hidden(a)}
<1> DEFINE t == disk.tip
           H == Height[t]
           L == LatestIndexed
<1>1. Ladder(t) /\ disk.height = H /\ disk.heights = [h \in 0 .. H |-> At(t, h)] /\ H \in Nat
  BY DEF OnDisk, Describes, Ladder
<1>2. L \in Int /\ L >= -1
  BY LatestType
<1>3. \A a \in Path[t] : Height[a] \in 0 .. H
  BY <1>1 DEF Ladder
<1>4. \A a : Hidden(a) <=> (Height[a] <= L \/ (L = -1 /\ H = 0))
  BY <1>1 DEF Hidden
<1>5. RequiresCatchup(disk.height) <=> IF L = -1 THEN H > 0 ELSE L < H
  BY <1>1 DEF RequiresCatchup
<1>6. CASE RequiresCatchup(disk.height)
  <2> DEFINE n == H - L
             s == Backlog(disk)
  <2>1. n \in 0 .. H + 1 /\ n \in Nat /\ H - n = L /\ ~ (L = -1 /\ H = 0)
    BY <1>1, <1>2, <1>5, <1>6
  <2>2. s = [i \in 1 .. n |-> disk.heights[L + i]]
    BY <1>1, <1>6 DEF Backlog
  <2>3. ASSUME NEW i \in 1 .. n PROVE disk.heights[L + i] = At(t, H - n + i)
    <3>1. L + i \in 0 .. H /\ L + i = H - n + i
      BY <1>1, <1>2, <2>1
    <3>2. disk.heights[L + i] = At(t, L + i)
      BY <1>1, <3>1
    <3> QED BY <3>1, <3>2
  <2> HIDE DEF s, n
  <2>4. s = [i \in 1 .. n |-> At(t, H - n + i)]
    BY <2>2, <2>3
  <2>5. Pending(s, t) /\ Range(s) = {a \in Path[t] : Height[a] > H - n}
    <3>1. n \in 0 .. Height[t] + 1 /\ s = [i \in 1 .. n |-> At(t, Height[t] - n + i)] /\ Ladder(t)
      BY <1>1, <2>1, <2>4
    <3> HIDE DEF t
    <3> QED BY <3>1, TopRange
  <2>6. \A a \in Path[t] : Height[a] > H - n <=> ~ Hidden(a)
    BY <1>2, <1>3, <1>4, <2>1
  <2> QED BY <2>5, <2>6 DEF s
<1>7. CASE ~ RequiresCatchup(disk.height)
  <2>1. Backlog(disk) = << >>
    BY <1>7 DEF Backlog
  <2>2. \A a \in Path[t] : Hidden(a)
    BY <1>1, <1>2, <1>3, <1>4, <1>5, <1>7
  <2> QED BY <1>1, <2>1, <2>2, PendingNone
<1> QED BY <1>6, <1>7

-----------------------------------------------------------------------------
(***************************************************************************)
(* The rows of one block.                                                  *)
(***************************************************************************)

\* All outputs of a block, data carriers included.
AllOuts(b) == UNION {Outs[Body[b][i]] : i \in DOMAIN Body[b]}

\* No transaction spends an output of its own or of a later one.
SpendsEarlier(b) ==
  \A j, k \in DOMAIN Body[b] : Ins[Body[b][j]] \cap Outs[Body[b][k]] # {} => k < j

OutsUpTo(b, k) == UNION {Outs[Body[b][j]] : j \in 1 .. k}

\* The rows r after some transactions: the outputs in outs entered, what is in ins left.
Shown(w, r, outs, ins, exact) ==
  /\ DOMAIN w = {"blocks", "txs", "live", "dead"}
  /\ w.blocks = r.blocks /\ w.txs = r.txs
  /\ exact => w.live = (r.live \cup outs) \ ins

\* One more transaction.
LEMMA ShownStep ==
  ASSUME NEW w, NEW r, NEW outs, NEW ins, NEW exact \in BOOLEAN, Shown(w, r, outs, ins, exact), NEW t,
         exact => Outs[t] \cap (ins \cup Ins[t]) = {}
  PROVE  Shown(IndexTx(w, t), r, outs \cup Outs[t], ins \cup Ins[t], exact)
<1>1. /\ DOMAIN IndexTx(w, t) = {"blocks", "txs", "live", "dead"}
      /\ IndexTx(w, t).blocks = w.blocks /\ IndexTx(w, t).txs = w.txs
      /\ IndexTx(w, t).live = (w.live \ Ins[t]) \cup Outs[t]
  BY DEF IndexTx, Shown
<1> QED BY <1>1 DEF Shown

\* The whole block (the loop of index_block).
LEMMA ShownTxs ==
  ASSUME NEW b \in Block, NEW r, DOMAIN r = {"blocks", "txs", "live", "dead"}
  PROVE  Shown(FoldLeft(IndexTx, r, Body[b]), r, AllOuts(b), Spends(b), SpendsEarlier(b))
<1> DEFINE n == Len(Body[b])
           exact == SpendsEarlier(b)
<1>1. n \in Nat /\ DOMAIN Body[b] = 1 .. n
  BY TransactionAssumption
<1>2. exact \in BOOLEAN
  BY DEF SpendsEarlier
<1> HIDE DEF n, exact
<1>3. PICK h : Trace("row", h, r, Body[b], n)
  BY <1>1, FoldStates
<1>4. h[n] = FoldLeft(IndexTx, r, Body[b])
  BY <1>1, <1>3, DatabaseFolds DEF Trace
<1> DEFINE T == {k \in Nat : k <= n => Shown(h[k], r, OutsUpTo(b, k), SpentUpTo(b, k), exact)}
<1>5. 0 \in T
  <2>1. h[0] = r
    BY <1>3 DEF Trace
  <2>2. OutsUpTo(b, 0) = {} /\ SpentUpTo(b, 0) = {}
    BY DEF OutsUpTo, SpentUpTo
  <2>3. Shown(r, r, {}, {}, exact)
    BY DEF Shown
  <2> QED BY <2>1, <2>2, <2>3
<1>6. ASSUME NEW k \in Nat, k \in T PROVE k + 1 \in T
  <2> SUFFICES ASSUME k + 1 <= n
               PROVE  Shown(h[k + 1], r, OutsUpTo(b, k + 1), SpentUpTo(b, k + 1), exact)
    OBVIOUS
  <2> DEFINE t == Body[b][k + 1]
  <2>1. Shown(h[k], r, OutsUpTo(b, k), SpentUpTo(b, k), exact)
    BY <1>1, <1>6
  <2>2. h[k + 1] = IndexTx(h[k], t)
    <3>1. k + 1 \in 1 .. n /\ (k + 1) - 1 = k
      BY <1>1
    <3> QED BY <1>3, <3>1 DEF Trace, Operation
  <2>3. 1 .. (k + 1) = (1 .. k) \cup {k + 1}
    OBVIOUS
  <2>4. /\ OutsUpTo(b, k + 1) = OutsUpTo(b, k) \cup Outs[t]
        /\ SpentUpTo(b, k + 1) = SpentUpTo(b, k) \cup Ins[t]
    BY <2>3 DEF OutsUpTo, SpentUpTo
  <2>5. ASSUME exact PROVE Outs[t] \cap (SpentUpTo(b, k) \cup Ins[t]) = {}
    <3> SUFFICES ASSUME NEW o, o \in Outs[t], o \in SpentUpTo(b, k) \cup Ins[t] PROVE FALSE
      OBVIOUS
    <3>1. PICK j \in 1 .. k + 1 : o \in Ins[Body[b][j]]
      BY DEF SpentUpTo
    <3>2. j \in DOMAIN Body[b] /\ k + 1 \in DOMAIN Body[b] /\ ~ (k + 1 < j)
      BY <1>1
    <3> QED BY <2>5, <3>1, <3>2 DEF exact, SpendsEarlier
  <2> HIDE DEF t
  <2> QED BY <1>2, <2>1, <2>2, <2>4, <2>5, ShownStep
<1>7. n \in T
  <2> HIDE DEF T
  <2> QED BY <1>1, <1>5, <1>6, OneByOne
<1>8. OutsUpTo(b, n) = AllOuts(b) /\ SpentUpTo(b, n) = Spends(b)
  BY <1>1 DEF OutsUpTo, SpentUpTo, AllOuts, Spends
<1>9. Shown(h[n], r, AllOuts(b), Spends(b), exact)
  BY <1>1, <1>7, <1>8
<1> QED BY <1>4, <1>9 DEF exact

\* The tables after index_block.
LEMMA IndexFields ==
  ASSUME NEW b \in Block, NEW r, DOMAIN r = {"blocks", "txs", "live", "dead"}
  PROVE  /\ DOMAIN IndexRows(r, b) = DOMAIN r
         /\ IndexRows(r, b).blocks = Put(r.blocks, Height[b], b)
         /\ IndexRows(r, b).txs = [t \in DOMAIN r.txs \cup Txs(b) |-> IF t \in Txs(b) THEN b ELSE r.txs[t]]
         /\ SpendsEarlier(b) => IndexRows(r, b).live = (r.live \cup AllOuts(b)) \ Spends(b)
<1>1. PICK s : s = FoldLeft(IndexTx, r, Body[b])
  OBVIOUS
<1>2. Shown(s, r, AllOuts(b), Spends(b), SpendsEarlier(b))
  BY <1>1, ShownTxs
<1>3. IndexRows(r, b) = [s EXCEPT !.blocks = Put(@, Height[b], b),
                                  !.txs    = [t \in DOMAIN @ \cup Txs(b) |-> IF t \in Txs(b) THEN b ELSE @[t]]]
  BY <1>1 DEF IndexRows
<1>4. /\ DOMAIN s = {"blocks", "txs", "live", "dead"} /\ s.blocks = r.blocks /\ s.txs = r.txs
      /\ SpendsEarlier(b) => s.live = (r.live \cup AllOuts(b)) \ Spends(b)
  BY <1>2 DEF Shown
<1>5. /\ DOMAIN IndexRows(r, b) = DOMAIN s
      /\ IndexRows(r, b).blocks = Put(s.blocks, Height[b], b)
      /\ IndexRows(r, b).txs = [t \in DOMAIN s.txs \cup Txs(b) |-> IF t \in Txs(b) THEN b ELSE s.txs[t]]
      /\ IndexRows(r, b).live = s.live
  BY <1>3, <1>4
<1> QED BY <1>4, <1>5

-----------------------------------------------------------------------------
(***************************************************************************)
(* The relational index follows the chain.                                 *)
(***************************************************************************)

\* A submission that moved the tip from one branch to another, f being the fork.
Switches(t, b, f) ==
  /\ Ladder(t) /\ Ladder(b)
  /\ f \in Path[t] /\ f \in Path[b] /\ f # b
  /\ Path[f] = Path[t] \cap Path[b]

\* What a submission leaves to the indexes.
LEMMA ReceiveFollows ==
  ASSUME IndexedShape, RestoreIInv, NEW b \in Block, Receive(b), ~ poisoned'
  PROVE  /\ running /\ running' = TRUE /\ todo = << >> /\ disk.tip # NoHash /\ UNCHANGED <<rows, lost>>
         /\ \/ UNCHANGED <<disk, undone, todo>> /\ history' = HistoryAfter({}, {})
            \/ \E f : /\ Switches(disk.tip, b, f) /\ disk'.tip = b
                      /\ todo' = ByHeight(Path[b] \ Path[f])
                      /\ undone' = undone \cup (Path[disk.tip] \ Path[f])
                      /\ history' = HistoryAfter(Path[disk.tip] \ Path[f], Path[b] \ Path[f])
<1>1. /\ running /\ running' = TRUE /\ todo = << >> /\ disk.tip = tip /\ disk'.tip = tip'
      /\ OnDisk(disk, FALSE) /\ OnDisk(disk', FALSE)
      /\ \/ UNCHANGED <<tip, utxo, disk>>
         \/ tip' = b /\ utxo' = LedgerAt[b] /\ b # Genesis /\ b \notin Path[tip]
  BY ReceiveShape
<1>2. disk.tip # NoHash
  BY <1>1 DEF IndexedShape
<1> DEFINE E == disk.blocks \ disk'.blocks
           W == disk'.blocks \ disk.blocks
<1>3. /\ UNCHANGED <<rows, lost>> /\ history' = HistoryAfter(E, W) /\ todo' = ByHeight(W)
      /\ undone' = undone \cup E
  BY DEF Receive, Follow
<1>4. CASE UNCHANGED disk
  <2>1. E = {} /\ W = {}
    BY <1>4
  <2> HIDE DEF E, W
  <2>2. todo' = << >> /\ undone' = undone /\ history' = HistoryAfter({}, {})
    BY <1>3, <2>1, PendingStart
  <2> QED BY <1>1, <1>2, <1>3, <1>4, <2>2
<1>5. CASE tip' = b /\ b \notin Path[tip]
  <2>1. Ladder(tip) /\ Ladder(b) /\ disk.blocks = Path[tip] /\ disk'.blocks = Path[b]
    BY <1>1, <1>5 DEF OnDisk, Describes
  <2>2. PICK f \in Path[tip] \cap Path[b] : Path[f] = Path[tip] \cap Path[b]
    BY <2>1, ForkExists
  <2>3. E = Path[tip] \ Path[f] /\ W = Path[b] \ Path[f]
    BY <2>1, <2>2
  <2>4. Switches(tip, b, f)
    BY <1>5, <2>1, <2>2 DEF Switches
  <2> HIDE DEF E, W
  <2> QED BY <1>1, <1>2, <1>3, <1>5, <2>3, <2>4
<1> QED BY <1>1, <1>4, <1>5

\* The rows of a block that is indexed.
LEMMA IndexBlockRows ==
  ASSUME DistinctTxs, RowsIInv, running, disk.tip # NoHash, Ladder(disk.tip), IndexBlock
  PROVE  /\ DOMAIN rows' = {"blocks", "txs", "live", "dead"}
         /\ rows'.blocks \in [DOMAIN rows'.blocks -> Block]
         /\ \E n \in Nat : DOMAIN rows'.blocks \subseteq 0 .. n
         /\ \A c \in Path[disk.tip] : c = Head(todo) \/ HasRows(c) => HasRows(c)'
<1> DEFINE t == disk.tip
<1>0. PICK a : a = Head(todo)
  OBVIOUS
<1>1. todo # << >> /\ rows' = IndexRows(rows, a) /\ todo' = Tail(todo)
  BY <1>0 DEF IndexBlock
<1>2. a \in Path[t] /\ Path[t] \subseteq Block /\ t \in Block
  BY <1>0, <1>1, PendingFacts DEF RowsIInv, Ladder
<1>3. DOMAIN rows = {"blocks", "txs", "live", "dead"}
  BY DEF RowsIInv
<1>4. /\ DOMAIN rows' = DOMAIN rows
      /\ rows'.blocks = Put(rows.blocks, Height[a], a)
      /\ rows'.txs = [x \in DOMAIN rows.txs \cup Txs(a) |-> IF x \in Txs(a) THEN a ELSE rows.txs[x]]
  <2> DEFINE new == IndexRows(rows, a)
  <2>1. /\ DOMAIN new = DOMAIN rows
        /\ new.blocks = Put(rows.blocks, Height[a], a)
        /\ new.txs = [x \in DOMAIN rows.txs \cup Txs(a) |-> IF x \in Txs(a) THEN a ELSE rows.txs[x]]
    <3>1. a \in Block
      BY <1>2
    <3> QED BY <1>3, <3>1, IndexFields
  <2> HIDE DEF new
  <2>2. rows' = new
    BY <1>1 DEF new
  <2> QED BY <2>1, <2>2
<1>5. Height[a] \in Nat
  BY <1>2 DEF Ladder
<1>6. rows'.blocks \in [DOMAIN rows'.blocks -> Block]
  BY <1>2, <1>4 DEF Put, RowsIInv
<1>7. \E n \in Nat : DOMAIN rows'.blocks \subseteq 0 .. n
  <2>1. PICK n \in Nat : DOMAIN rows.blocks \subseteq 0 .. n
    BY DEF RowsIInv
  <2>2. DOMAIN rows'.blocks = DOMAIN rows.blocks \cup {Height[a]}
    BY <1>4 DEF Put
  <2>3. n + Height[a] \in Nat /\ DOMAIN rows'.blocks \subseteq 0 .. n + Height[a]
    BY <1>5, <2>1, <2>2
  <2> QED BY <2>3
<1>8. HasRows(a)'
  BY <1>4 DEF HasRows, Put
<1>9. ASSUME NEW c \in Path[t], c = a \/ HasRows(c) PROVE HasRows(c)'
  <2>1. CASE c = a
    BY <1>8, <2>1
  <2>2. CASE c # a
    <3>1. Height[c] # Height[a]
      BY <1>2, <2>2 DEF Ladder
    <3>2. Txs(c) \cap Txs(a) = {}
      BY <1>2, <2>2 DEF DistinctTxs, Txs
    <3>3. Height[c] \in DOMAIN rows'.blocks /\ rows'.blocks[Height[c]] = c
      BY <1>4, <1>9, <2>2, <3>1 DEF HasRows, Put
    <3>4. \A x \in Txs(c) : x \in DOMAIN rows'.txs /\ rows'.txs[x] = c
      BY <1>4, <1>9, <2>2, <3>2 DEF HasRows
    <3> QED BY <3>3, <3>4 DEF HasRows
  <2> QED BY <2>1, <2>2
<1> QED BY <1>0, <1>3, <1>4, <1>6, <1>7, <1>9

\* The part of the invariant of the rows that moves with the chain.
RowsCover ==
  disk.tip # NoHash =>
    /\ Pending(todo, disk.tip)
    /\ \A a \in Path[disk.tip] : a \in lost \cup Due \/ HasRows(a)

\* A step that leaves the tables of the index alone.
LEMMA RowsKept ==
  ASSUME RowsIInv, UNCHANGED rows, ~ running' => todo' = << >>,
         disk'.tip = NoHash => disk.tip = NoHash, RowsCover'
  PROVE  RowsIInv'
BY DEF RowsIInv, RowsCover, HasRows

\* Every step keeps the index and the canonical path together.
LEMMA RowsNext ==
  ASSUME DistinctTxs, IndexedShape, RestoreIInv, RowsIInv, [IndexedNext]_allVars, ~ poisoned'
  PROVE  RowsIInv'
<1>0. disk.tip # NoHash => OnDisk(disk, FALSE) /\ Ladder(disk.tip) /\ Range(<< >>) = {}
  BY PendingNone DEF IndexedShape, OnDisk
<1>1. CASE UNCHANGED <<rows, todo, lost, running, disk>>
  BY <1>1, RowsKept DEF RowsIInv, RowsCover, Due, Hidden, HasRows, LatestIndexed
<1>2. CASE OpenFresh
  <2>1. disk.tip = NoHash /\ disk' = CommitBlock(EmptyDisk, Genesis) /\ disk = EmptyDisk /\ disk'.tip = Genesis
        /\ running' = TRUE
    BY <1>2, OpenShape
  <2>2. Genesis # NoHash /\ disk'.blocks = {Genesis} /\ disk.blocks = {} /\ Path[Genesis] = {Genesis}
    <3>1. OnDisk(disk', FALSE)
      BY <2>1, FirstOnDisk
    <3>2. Genesis # NoHash /\ disk.blocks = {}
      BY <2>1, TreeAssumption DEF EmptyDisk
    <3>3. Path[Genesis] = {Genesis}
      BY RecursionAssumption
    <3>4. disk'.blocks = Path[disk'.tip]
      BY <3>1 DEF OnDisk, Describes
    <3> QED BY <2>1, <3>2, <3>3, <3>4
  <2>3. todo' = ByHeight(disk'.blocks \ disk.blocks) /\ UNCHANGED rows
    BY <1>2 DEF OpenFresh, Follow
  <2>4. disk'.blocks \ disk.blocks = {Genesis}
    BY <2>2
  <2>5. Pending(todo', Genesis) /\ Range(todo') = {Genesis}
    BY <2>3, <2>4, PendingStart
  <2>6. RowsCover'
    BY <2>1, <2>2, <2>5 DEF RowsCover, Due
  <2> QED BY <2>1, <2>2, <2>3, <2>6, RowsKept
<1>3. CASE OpenExisting
  <2>1. disk' = disk /\ disk.tip # NoHash /\ running' = TRUE /\ ~ running
    BY <1>3, OpenShape
  <2>2. todo' = Backlog(disk) /\ lost' = {a \in lost : Hidden(a)} /\ UNCHANGED rows
    BY <1>3 DEF OpenExisting
  <2>3. /\ Pending(todo', disk.tip)
        /\ Range(todo') = {a \in Path[disk.tip] : ~ Hidden(a)}
    BY <1>0, <2>1, <2>2, BacklogFacts
  <2>4. ASSUME NEW a \in Path[disk.tip] PROVE a \in lost' \cup Range(todo') \/ HasRows(a)'
    BY <2>1, <2>2, <2>3 DEF RowsIInv, Due, HasRows
  <2>5. RowsCover'
    BY <2>1, <2>3, <2>4 DEF RowsCover, Due
  <2> QED BY <2>1, <2>2, <2>5, RowsKept
<1>4. CASE Crash \/ CatchupFails
  <2>1. /\ running /\ running' = FALSE /\ disk' = disk /\ todo' = << >> /\ UNCHANGED rows
        /\ lost' = lost \cup {a \in Range(todo) : Hidden(a)}
    BY <1>4 DEF Crash, CatchupFails, Stop
  <2>2. disk.tip # NoHash
    BY <2>1 DEF IndexedShape
  <2>3. \A a : Hidden(a)' <=> Hidden(a)
    BY <2>1 DEF Hidden, LatestIndexed
  <2>4. ASSUME NEW a \in Path[disk.tip] PROVE a \in lost' \cup Due' \/ HasRows(a)'
    BY <2>1, <2>2, <2>3 DEF RowsIInv, Due, HasRows
  <2>5. Pending(todo', disk.tip)
    BY <1>0, <2>1, <2>2, PendingNone
  <2>6. RowsCover'
    BY <2>1, <2>4, <2>5 DEF RowsCover
  <2> QED BY <2>1, <2>6, RowsKept
<1>5. CASE IndexBlock
  <2>1. running /\ running' = running /\ disk' = disk /\ todo # << >> /\ todo' = Tail(todo) /\ lost' = lost \ {Head(todo)}
    BY <1>5 DEF IndexBlock, nodeVars
  <2>2. disk.tip # NoHash
    BY <2>1 DEF IndexedShape
  <2>3. /\ DOMAIN rows' = {"blocks", "txs", "live", "dead"}
        /\ rows'.blocks \in [DOMAIN rows'.blocks -> Block]
        /\ \E n \in Nat : DOMAIN rows'.blocks \subseteq 0 .. n
        /\ \A c \in Path[disk.tip] : c = Head(todo) \/ HasRows(c) => HasRows(c)'
    BY <1>0, <1>5, <2>1, <2>2, IndexBlockRows
  <2>4. Pending(Tail(todo), disk.tip) /\ Range(todo) = Range(Tail(todo)) \cup {Head(todo)}
    BY <1>0, <2>1, <2>2, PendingFacts DEF RowsIInv
  <2>5. ASSUME NEW c \in Path[disk.tip] PROVE c \in lost' \cup Due' \/ HasRows(c)'
    <3>1. c \in lost \cup Range(todo) \/ HasRows(c)
      BY <2>1, <2>2 DEF RowsIInv, Due
    <3>2. Due' = Range(Tail(todo))
      BY <2>1 DEF Due
    <3> QED BY <2>1, <2>3, <2>4, <3>1, <3>2
  <2> QED BY <2>1, <2>2, <2>3, <2>4, <2>5 DEF RowsIInv
<1>6. CASE IndexFails
  <2>1. /\ running /\ running' = running /\ disk' = disk /\ todo # << >> /\ todo' = Tail(todo)
        /\ lost' = lost \cup {Head(todo)} /\ UNCHANGED rows
    BY <1>6 DEF IndexFails, nodeVars
  <2>2. disk.tip # NoHash
    BY <2>1 DEF IndexedShape
  <2>3. Pending(Tail(todo), disk.tip) /\ Range(todo) = Range(Tail(todo)) \cup {Head(todo)}
    BY <1>0, <2>1, <2>2, PendingFacts DEF RowsIInv
  <2>4. ASSUME NEW c \in Path[disk.tip] PROVE c \in lost' \cup Due' \/ HasRows(c)'
    BY <2>1, <2>2, <2>3 DEF RowsIInv, Due, HasRows
  <2>5. RowsCover'
    BY <2>1, <2>3, <2>4 DEF RowsCover
  <2> QED BY <2>1, <2>5, RowsKept
<1>7. ASSUME NEW b \in Block, Receive(b) PROVE RowsIInv'
  <2>1. /\ running /\ running' = TRUE /\ todo = << >> /\ disk.tip # NoHash /\ UNCHANGED <<rows, lost>>
        /\ \/ UNCHANGED <<disk, undone, todo>> /\ history' = HistoryAfter({}, {})
           \/ \E f : /\ Switches(disk.tip, b, f) /\ disk'.tip = b
                     /\ todo' = ByHeight(Path[b] \ Path[f])
                     /\ undone' = undone \cup (Path[disk.tip] \ Path[f])
                     /\ history' = HistoryAfter(Path[disk.tip] \ Path[f], Path[b] \ Path[f])
    BY <1>7, ReceiveFollows
  <2>2. CASE UNCHANGED <<disk, undone, todo>>
    <3>1. running' = running
      BY <2>1 DEF IndexedShape
    <3> QED BY <1>1, <2>1, <2>2, <3>1
  <2>3. ASSUME NEW f, Switches(disk.tip, b, f), disk'.tip = b, todo' = ByHeight(Path[b] \ Path[f])
        PROVE  RowsIInv'
    <3>1. Pending(todo', b) /\ Range(todo') = Path[b] \ Path[f]
      BY <2>3, PendingBranch DEF Switches
    <3>2. Path[f] \subseteq Path[disk.tip]
      BY <2>3 DEF Switches
    <3>3. ASSUME NEW a \in Path[b] PROVE a \in lost' \cup Range(todo') \/ HasRows(a)'
      BY <1>0, <2>1, <3>1, <3>2 DEF RowsIInv, Due, HasRows
    <3>4. RowsCover'
      BY <2>1, <2>3, <3>1, <3>3 DEF RowsCover, Due
    <3>5. disk'.tip # NoHash
      BY <2>3, TreeAssumption
    <3> QED BY <2>1, <3>4, <3>5, RowsKept
  <2> QED BY <2>1, <2>2, <2>3
<1>8. CASE RestoreDisk
  <2>1. /\ UNCHANGED <<rows, todo, lost, running>> /\ running
        /\ disk' = disk \/ disk' = [disk EXCEPT !.utxo = restoring.entries]
    BY <1>8 DEF RestoreDisk, indexVars, RestoreIInv, NoRestore
  <2>2. disk.tip # NoHash
    BY <2>1 DEF IndexedShape
  <2>3. DOMAIN disk = {"tip", "height", "blocks", "heights", "confirm", "undo", "utxo"}
    BY <1>0, <2>2 DEF OnDisk, Describes
  <2>4. disk'.tip = disk.tip
    BY <2>1, <2>3
  <2>5. RowsCover'
    BY <2>1, <2>2, <2>4 DEF RowsCover, RowsIInv, Due, HasRows
  <2> QED BY <2>1, <2>2, <2>4, <2>5, RowsKept DEF RowsIInv
<1> QED
  BY <1>1, <1>2, <1>3, <1>4, <1>5, <1>6, <1>7, <1>8
     DEF IndexedNext, allVars, nodeVars, indexVars, ExportChunk, RestoreCheck, RestoreMemory

\* Rows of an unopened node.
LEMMA RowsInit == IndexedInit => RowsIInv
<1> SUFFICES ASSUME IndexedInit PROVE RowsIInv
  OBVIOUS
<1>1. rows = NoRows /\ todo = << >> /\ disk.tip = NoHash
  BY DEF IndexedInit, NodeInit, EmptyDisk
<1>2. DOMAIN rows = {"blocks", "txs", "live", "dead"} /\ rows.blocks = << >>
  BY <1>1 DEF NoRows
<1>3. rows.blocks \in [DOMAIN rows.blocks -> Block] /\ DOMAIN rows.blocks \subseteq 0 .. 0
  BY <1>2
<1> QED BY <1>1, <1>2, <1>3 DEF RowsIInv

\* All three hold together.
LEMMA RowsInvariantHolds ==
  ASSUME DistinctTxs
  PROVE  IndexedSpec => [](~ poisoned => IndexedShape /\ RestoreIInv /\ RowsIInv)
<1>1. IndexedShape /\ RestoreIInv /\ RowsIInv /\ [IndexedNext]_allVars /\ ~ poisoned' => RowsIInv'
  BY RowsNext
<1> QED BY <1>1, RowsInit, PoisonStays, IndexedInvariantHolds, PTL DEF IndexedSpec

\* Over commits, reorganisations, SQLite errors and crashes between any two rows, a canonical
\* block without its rows is one whose write failed or was cut off while it was hidden.
THEOREM RowsAlwaysFollow == DistinctTxs => (IndexedSpec => []RowsFollowChain)
<1> SUFFICES ASSUME DistinctTxs PROVE IndexedSpec => []RowsFollowChain
  OBVIOUS
<1>1. (~ poisoned => IndexedShape /\ RowsIInv) => RowsFollowChain
  <2> SUFFICES ASSUME IndexedShape, RowsIInv, ~ poisoned, running, todo = << >>, NEW a \in Path[tip], a \notin lost
               PROVE  HasRows(a)
    BY DEF RowsFollowChain, Unlocked, HasRows
  <2>1. disk.tip = tip /\ disk.tip # NoHash
    BY DEF IndexedShape
  <2>2. Range(todo) = {}
    BY DEF Range
  <2> QED BY <2>1, <2>2 DEF RowsIInv, Due
<1> QED BY <1>1, RowsInvariantHolds, PTL

-----------------------------------------------------------------------------
(***************************************************************************)
(* The coins of the relational index.                                      *)
(***************************************************************************)

\* A sound block applies to what its parent leaves.
LEMMA SoundApplies ==
  ASSUME NEW a \in Block, Sound(a)
  PROVE  Applies(a, LedgerBefore(a))
<1>1. CASE a = Genesis
  BY <1>1, GenesisAssumption DEF LedgerBefore
<1>2. CASE a # Genesis
  BY <1>2 DEF Sound, Connectable, Authoritative
<1> QED BY <1>1, <1>2

\* A coin of the path of b and an output of a transaction of b are not the same.
LEMMA FreshOutputs ==
  ASSUME DistinctTxs, OwnOutputs, NEW t, Ladder(t), NEW x \in Path[t], NEW c \in Path[t], c \notin Path[x],
         NEW i \in DOMAIN Body[c], NEW o \in LedgerAt[x]
  PROVE  o \notin Outs[Body[c][i]]
<1> SUFFICES ASSUME o \in Outs[Body[c][i]] PROVE FALSE
  OBVIOUS
<1>1. x \in Block /\ c \in Block /\ t \in Block /\ Path[x] \subseteq Path[t] /\ Path[x] \subseteq Block
  BY DEF Ladder
<1>2. PICK a \in Path[x] : \E j \in DOMAIN Body[a] : o \in Made(Body[a][j])
  BY <1>1, CoinOrigin
<1>3. PICK j \in DOMAIN Body[a] : o \in Made(Body[a][j])
  BY <1>2
<1>4. Body[a][j] \in Tx /\ Body[c][i] \in Tx
  BY <1>1, TransactionAssumption
<1>5. Body[a][j] = Body[c][i]
  BY <1>3, <1>4 DEF Made, OwnOutputs
<1>6. Body[c][i] \in Range(Body[a]) \cap Range(Body[c])
  BY <1>3, <1>5 DEF Range
<1>7. a # c /\ a \in Path[t]
  BY <1>1, <1>2
<1> QED BY <1>1, <1>6, <1>7 DEF DistinctTxs

\* In a sound block an output is spent only by a later transaction: a transaction occurs
\* once, because what it spends the first time is not there the second time.
LEMMA SoundOrder ==
  ASSUME DistinctTxs, OwnOutputs, NEW b \in Block, Sound(b)
  PROVE  SpendsEarlier(b)
<1> SUFFICES ASSUME NEW j \in DOMAIN Body[b], NEW k \in DOMAIN Body[b],
                    NEW o, o \in Ins[Body[b][j]], o \in Outs[Body[b][k]]
             PROVE  k < j
  BY DEF SpendsEarlier
<1> DEFINE U == LedgerBefore(b)
<1>1. Fits(b, U) /\ Conserves(b)
  BY SoundApplies DEF Applies
<1>2. j \in Nat \ {0} /\ k \in Nat \ {0} /\ DOMAIN Body[b] = 1 .. Len(Body[b]) /\ Len(Body[b]) \in Nat
      /\ \A i \in DOMAIN Body[b] : Body[b][i] \in Tx
  BY TransactionAssumption
<1>3. o \in StagedAt(U, b, j)
  BY <1>1 DEF Fits
<1>4. o \notin U
  <2> SUFFICES ASSUME o \in U PROVE FALSE
    OBVIOUS
  <2>1. b # Genesis
    BY DEF LedgerBefore
  <2>2. PICK p \in Block : p = Parent[b]
    BY <2>1, Unfold
  <2>3. U = LedgerAt[p] /\ Path[b] = Path[p] \cup {b} /\ Height[b] = Height[p] + 1
    BY <2>1, <2>2, Unfold
  <2>4. Ladder(b) /\ Ladder(p)
    BY EveryLadder
  <2>5. b \notin Path[p] /\ p \in Path[b] /\ b \in Path[b]
    BY <2>3, <2>4 DEF Ladder
  <2> QED BY <2>3, <2>4, <2>5, FreshOutputs
<1>5. PICK i \in 1 .. j - 1 : o \in Made(Body[b][i])
  BY <1>3, <1>4 DEF StagedAt
<1>6. i \in DOMAIN Body[b] /\ i < j
  BY <1>2, <1>5
<1>7. Body[b][i] = Body[b][k]
  BY <1>2, <1>5, <1>6 DEF Made, OwnOutputs
<1> SUFFICES ASSUME ~ (k < j) PROVE FALSE
  OBVIOUS
<1>8. i \in 1 .. k - 1 /\ k \in 2 .. Len(Body[b])
  BY <1>2, <1>6
<1>9. PICK q : q \in Ins[Body[b][k]]
  BY <1>1, <1>8 DEF Conserves, Stateless
<1>10. q \in StagedAt(U, b, k)
  BY <1>1, <1>9 DEF Fits
<1>11. q \in Ins[Body[b][i]]
  BY <1>7, <1>9
<1> QED BY <1>8, <1>10, <1>11 DEF StagedAt

\* What the blocks above f do to its ledger.
LEMMA LedgerMoves ==
  \A b \in Block : \A f \in Path[b] :
    /\ \A o \in LedgerAt[b] \ LedgerAt[f] : \E c \in Path[b] \ Path[f] : o \in Creates(c)
    /\ \A o \in LedgerAt[f] \ LedgerAt[b] : \E c \in Path[b] \ Path[f] : o \in Spends(c)
<1> DEFINE Gain(b, f) == \A o \in LedgerAt[b] \ LedgerAt[f] : \E c \in Path[b] \ Path[f] : o \in Creates(c)
           Loss(b, f) == \A o \in LedgerAt[f] \ LedgerAt[b] : \E c \in Path[b] \ Path[f] : o \in Spends(c)
           T == {n \in Nat : \A b \in Block : Height[b] = n => \A f \in Path[b] : Gain(b, f) /\ Loss(b, f)}
<1>1. ASSUME NEW n \in Nat, \A m \in Nat : m < n => m \in T PROVE n \in T
  <2> SUFFICES ASSUME NEW b \in Block, Height[b] = n, NEW f \in Path[b]
               PROVE  Gain(b, f) /\ Loss(b, f)
    OBVIOUS
  <2>1. CASE b = f
    BY <2>1
  <2>2. CASE b # f
    <3>1. b # Genesis
      BY <2>2, RecursionAssumption
    <3>2. PICK p \in Block : p = Parent[b]
      BY <3>1, Unfold
    <3>3. Height[b] = Height[p] + 1 /\ Path[b] = Path[p] \cup {b} /\ LedgerAt[b] = Apply(b, LedgerAt[p])
      BY <3>1, <3>2, Unfold
    <3>4. Height[p] \in Nat /\ Height[p] < n
      BY <3>3, RecursionAssumption
    <3>5. Height[p] \in T
      BY <1>1, <3>4
    <3>6. f \in Path[p]
      BY <2>2, <3>3
    <3>7. Gain(p, f) /\ Loss(p, f)
      BY <3>5, <3>6
    <3>8. b \notin Path[f]
      <4>1. Ladder(b) /\ Ladder(p)
        BY EveryLadder
      <4>2. Height[f] <= Height[p] /\ Height[f] \in Nat
        BY <3>6, <4>1 DEF Ladder
      <4>3. \A x \in Path[f] : Height[x] <= Height[f]
        BY <4>1 DEF Ladder
      <4> QED BY <3>3, <3>4, <4>2, <4>3
    <3>9. ASSUME NEW o \in LedgerAt[b] \ LedgerAt[f] PROVE \E c \in Path[b] \ Path[f] : o \in Creates(c)
      <4>1. o \in Creates(b) \/ o \in LedgerAt[p]
        BY <3>3 DEF Apply
      <4>2. CASE o \in Creates(b)
        BY <3>3, <3>8, <4>2
      <4>3. CASE o \in LedgerAt[p]
        BY <3>3, <3>7, <4>3
      <4> QED BY <4>1, <4>2, <4>3
    <3>10. ASSUME NEW o \in LedgerAt[f] \ LedgerAt[b] PROVE \E c \in Path[b] \ Path[f] : o \in Spends(c)
      <4>1. o \in Spends(b) \/ o \notin LedgerAt[p]
        BY <3>3 DEF Apply
      <4>2. CASE o \in Spends(b)
        BY <3>3, <3>8, <4>2
      <4>3. CASE o \notin LedgerAt[p]
        BY <3>3, <3>7, <4>3
      <4> QED BY <4>1, <4>2, <4>3
    <3> QED BY <3>9, <3>10
  <2> QED BY <2>1, <2>2
<1>2. Nat \subseteq T
  <2> HIDE DEF T
  <2> QED BY <1>1, SmallerFirst
<1>3. ASSUME NEW b \in Block, NEW f \in Path[b] PROVE Gain(b, f) /\ Loss(b, f)
  BY <1>2, RecursionAssumption
<1> QED BY <1>3

\* More blocks to blame.
LEMMA DriftMore ==
  ASSUME NEW live, NEW t, NEW U, NEW N, Drift(live, t, U, N), NEW V, NEW M, U \subseteq V, N \subseteq M
  PROVE  Drift(live, t, V, M)
BY DEF Drift

\* Indexing a block takes it off the list, when all above it are still on it.
LEMMA DriftIndexed ==
  ASSUME DistinctTxs, OwnOutputs, NEW t, Ladder(t), \A x \in Path[t] : Sound(x),
         NEW a \in Path[t], NEW live, NEW U, NEW N, Drift(live, t, U, N), Path[t] \ Path[a] \subseteq N
  PROVE  Drift((live \cup AllOuts(a)) \ Spends(a), t, U, N \ {a})
<1>1. t \in Block /\ a \in Block /\ a \in Path[a] /\ Path[a] \subseteq Path[t]
  BY EveryLadder DEF Ladder
<1>2. Creates(a) \subseteq AllOuts(a) /\ AllOuts(a) \subseteq Creates(a) \cup OpReturn
  BY DEF Creates, AllOuts, Made
<1>3. PICK L : LedgerAt[a] = (L \cup Creates(a)) \ Spends(a)
  BY <1>1, RecursionAssumption DEF Apply
<1>4. ASSUME NEW o, o \in live \cup AllOuts(a), o \notin Spends(a), o \notin LedgerAt[t]
      PROVE  \/ o \in OpReturn \/ (\E b \in U : o \in Creates(b)) \/ (\E b \in N \ {a} : o \in Spends(b))
  <2>1. CASE o \in live
    BY <1>4, <2>1 DEF Drift
  <2>2. CASE o \in Creates(a)
    <3>1. o \in LedgerAt[a]
      BY <1>3, <1>4, <2>2
    <3>2. PICK c \in Path[t] \ Path[a] : o \in Spends(c)
      BY <1>1, <1>4, <3>1, LedgerMoves
    <3> QED BY <1>1, <3>2
  <2> QED BY <1>2, <1>4, <2>1, <2>2
<1>5. ASSUME NEW o, o \in LedgerAt[t], o \notin (live \cup AllOuts(a)) \ Spends(a)
      PROVE  (\E b \in U : o \in Spends(b)) \/ (\E b \in N \ {a} : o \in Creates(b))
  <2>1. o \notin Spends(a)
    BY <1>1, <1>5, SpentGone
  <2> QED BY <1>2, <1>5, <2>1 DEF Drift
<1> QED BY <1>4, <1>5 DEF Drift

\* A change of branch adds its two sides to the lists.
LEMMA DriftSwitched ==
  ASSUME DistinctTxs, OwnOutputs, NEW t, NEW b, NEW f, Switches(t, b, f),
         \A x \in Path[t] : Sound(x),
         NEW live, NEW U, NEW N, Drift(live, t, U, N), N \subseteq Path[t],
         NEW M, N \cap Path[f] \subseteq M, Path[b] \ Path[f] \subseteq M
  PROVE  Drift(live, b, U \cup (Path[t] \ Path[f]), M)
<1>1. Ladder(t) /\ Ladder(b) /\ t \in Block /\ b \in Block /\ f \in Path[t] /\ f \in Path[b]
      /\ f \in Block /\ Path[t] \subseteq Block /\ Ladder(f)
  BY EveryLadder DEF Ladder, Switches
<1>2. ASSUME NEW o, o \in live, o \notin LedgerAt[b]
      PROVE  \/ o \in OpReturn
             \/ \E c \in U \cup (Path[t] \ Path[f]) : o \in Creates(c)
             \/ \E c \in M : o \in Spends(c)
  <2>1. CASE o \in LedgerAt[f]
    BY <1>1, <1>2, <2>1, LedgerMoves
  <2>2. CASE o \notin LedgerAt[f] /\ o \in LedgerAt[t]
    BY <1>1, <2>2, LedgerMoves
  <2>3. ASSUME o \notin LedgerAt[f], NEW c \in N, o \in Spends(c), c \notin Path[f]
        PROVE  \E x \in Path[t] \ Path[f] : o \in Creates(x)
    <3>1. c \in Path[t] /\ c \in Block /\ Sound(c)
      BY <1>1, <2>3
    <3>2. c # Genesis
      BY <1>1, <2>3 DEF Ladder
    <3>3. PICK p \in Block : p = Parent[c]
      BY <3>1, <3>2, Unfold
    <3>4. Path[c] = Path[p] \cup {c} /\ LedgerBefore(c) = LedgerAt[p] /\ Height[c] = Height[p] + 1
      BY <3>1, <3>2, <3>3, Unfold
    <3>5. Fits(c, LedgerAt[p])
      BY <3>1, <3>4, SoundApplies DEF Applies
    <3>6. o \in LedgerAt[p] \cup Creates(c)
      BY <2>3, <3>1, <3>5, FitsFacts
    <3>7. f \in Path[p] /\ Path[p] \subseteq Path[t]
      <4>1. Height[f] \in Nat /\ Height[c] \in Nat /\ Height[f] < Height[c]
        BY <1>1, <2>3, <3>1 DEF Ladder
      <4>2. f \in Path[c] /\ f # c /\ Path[c] \subseteq Path[t]
        BY <1>1, <3>1, <4>1 DEF Ladder
      <4> QED BY <3>4, <4>2
    <3> QED BY <2>3, <3>1, <3>6, <3>7, LedgerMoves
  <2>4. CASE o \notin LedgerAt[f] /\ o \notin LedgerAt[t]
    <3>1. o \in OpReturn \/ (\E c \in U : o \in Creates(c)) \/ (\E c \in N : o \in Spends(c))
      BY <1>2, <2>4 DEF Drift
    <3> QED BY <2>3, <2>4, <3>1
  <2> QED BY <2>1, <2>2, <2>4
<1>3. ASSUME NEW o, o \in LedgerAt[b], o \notin live
      PROVE  (\E c \in U \cup (Path[t] \ Path[f]) : o \in Spends(c)) \/ (\E c \in M : o \in Creates(c))
  <2>1. CASE o \notin LedgerAt[f]
    BY <1>1, <1>3, <2>1, LedgerMoves
  <2>2. CASE o \in LedgerAt[f] /\ o \notin LedgerAt[t]
    BY <1>1, <2>2, LedgerMoves
  <2>3. CASE o \in LedgerAt[f] /\ o \in LedgerAt[t]
    <3>1. (\E c \in U : o \in Spends(c)) \/ (\E c \in N : o \in Creates(c))
      BY <1>3, <2>3 DEF Drift
    <3>2. ASSUME NEW c \in N, o \in Creates(c) PROVE c \in Path[f]
      <4>1. PICK i \in DOMAIN Body[c] : o \in Outs[Body[c][i]]
        BY <3>2 DEF Creates, Made
      <4> QED BY <1>1, <2>3, <4>1, FreshOutputs
    <3> QED BY <3>1, <3>2
  <2> QED BY <2>1, <2>2, <2>3
<1> QED BY <1>2, <1>3 DEF Drift

\* A step that leaves tip, coins of the index and disconnected blocks, and forgets no block
\* without rows.
LEMMA DriftKept ==
  ASSUME DriftIInv, disk'.tip = disk.tip, UNCHANGED <<rows, undone>>,
         disk.tip # NoHash => Unindexed \subseteq Unindexed'
  PROVE  DriftIInv'
<1> SUFFICES ASSUME disk'.tip # NoHash PROVE Drift(rows.live, disk.tip, undone, Unindexed')
  BY DEF DriftIInv
<1>1. Drift(rows.live, disk.tip, undone, Unindexed)
  BY DEF DriftIInv
<1> QED BY <1>1, DriftMore

\* Every step keeps the account of the differences.
LEMMA DriftNext ==
  ASSUME DistinctTxs, OwnOutputs, IndexedShape, RestoreIInv, RowsIInv, DriftIInv, [IndexedNext]_allVars, ~ poisoned'
  PROVE  DriftIInv'
<1>0. disk.tip # NoHash => OnDisk(disk, FALSE) /\ Ladder(disk.tip) /\ \A x \in Path[disk.tip] : Sound(x)
  BY DEF IndexedShape, OnDisk, Persisted
<1>1. CASE UNCHANGED <<rows, todo, lost, undone, running, disk>>
  <2>1. Unindexed' = Unindexed
    BY <1>1 DEF Unindexed, Due, Hidden, LatestIndexed
  <2> QED BY <1>1, <2>1, DriftKept
<1>2. CASE OpenFresh
  <2>1. disk.tip = NoHash /\ disk'.tip = Genesis /\ running' = TRUE /\ disk = EmptyDisk
        /\ disk' = CommitBlock(EmptyDisk, Genesis)
    BY <1>2, OpenShape
  <2>2. rows' = NoRows /\ rows'.live = {}
    BY <1>2, <2>1 DEF OpenFresh, RowsIInv, NoRows
  <2>3. disk'.blocks \ disk.blocks = {Genesis}
    <3>1. OnDisk(disk', FALSE)
      BY <2>1, FirstOnDisk
    <3>2. disk'.blocks = Path[disk'.tip]
      BY <3>1 DEF OnDisk, Describes
    <3>3. Path[Genesis] = {Genesis} /\ disk.blocks = {}
      BY <2>1, RecursionAssumption DEF EmptyDisk
    <3> QED BY <2>1, <3>2, <3>3
  <2>4. todo' = ByHeight({Genesis})
    BY <1>2, <2>3 DEF OpenFresh, Follow
  <2>5. Range(todo') = {Genesis}
    BY <2>4, PendingStart
  <2>6. Due' = {Genesis}
    BY <2>1, <2>5 DEF Due
  <2>7. Genesis \in Unindexed'
    BY <2>1, <2>6, RecursionAssumption DEF Unindexed
  <2>8. LedgerAt[Genesis] \subseteq Creates(Genesis)
    BY RecursionAssumption DEF Apply
  <2> QED BY <2>1, <2>2, <2>7, <2>8 DEF DriftIInv, Drift
<1>3. CASE OpenExisting
  <2>1. disk' = disk /\ disk.tip # NoHash /\ running' = TRUE /\ ~ running
    BY <1>3, OpenShape
  <2>2. todo' = Backlog(disk) /\ lost' = {a \in lost : Hidden(a)} /\ UNCHANGED <<rows, undone>>
    BY <1>3 DEF OpenExisting
  <2>3. Range(todo') = {a \in Path[disk.tip] : ~ Hidden(a)}
    BY <1>0, <2>1, <2>2, BacklogFacts
  <2>4. Due' = Range(todo') /\ Due = {a \in Path[disk.tip] : ~ Hidden(a)}
    BY <2>1 DEF Due
  <2>5. Unindexed \subseteq Unindexed'
    BY <2>1, <2>2, <2>3, <2>4 DEF Unindexed
  <2> QED BY <2>1, <2>2, <2>5, DriftKept
<1>4. CASE Crash \/ CatchupFails
  <2>1. /\ running /\ running' = FALSE /\ disk' = disk /\ UNCHANGED <<rows, undone>>
        /\ lost' = lost \cup {a \in Range(todo) : Hidden(a)}
    BY <1>4 DEF Crash, CatchupFails, Stop
  <2>2. \A a : Hidden(a)' <=> Hidden(a)
    BY <2>1 DEF Hidden, LatestIndexed
  <2>3. Due = Range(todo)
    BY <2>1 DEF Due
  <2>4. Due' = {a \in Path[disk.tip] : ~ Hidden(a)}
    BY <2>1, <2>2 DEF Due
  <2>5. Unindexed \subseteq Unindexed'
    BY <2>1, <2>3, <2>4 DEF Unindexed
  <2> QED BY <2>1, <2>5, DriftKept
<1>5. CASE IndexBlock
  <2>1. /\ running /\ running' = running /\ disk' = disk /\ todo # << >> /\ todo' = Tail(todo)
        /\ lost' = lost \ {Head(todo)} /\ rows' = IndexRows(rows, Head(todo)) /\ UNCHANGED undone
    BY <1>5 DEF IndexBlock, nodeVars
  <2>2. disk.tip # NoHash
    BY <2>1 DEF IndexedShape
  <2>3. PICK a : a = Head(todo)
    OBVIOUS
  <2>4. /\ a \in Path[disk.tip] /\ Range(todo) = Range(Tail(todo)) \cup {a}
        /\ Range(Tail(todo)) = Path[disk.tip] \ Path[a]
    BY <1>0, <2>1, <2>2, <2>3, PendingFacts DEF RowsIInv
  <2>5. a \in Block /\ Sound(a) /\ a \in Path[a]
    BY <1>0, <2>2, <2>4, EveryLadder DEF Ladder
  <2>6. SpendsEarlier(a)
    BY <2>5, SoundOrder
  <2>7. rows'.live = (rows.live \cup AllOuts(a)) \ Spends(a)
    BY <2>1, <2>3, <2>5, <2>6, IndexFields DEF RowsIInv
  <2>8. Due = Range(todo) /\ Due' = Range(Tail(todo))
    BY <2>1 DEF Due
  <2>9. Unindexed' = Unindexed \ {a}
    BY <2>1, <2>3, <2>4, <2>5, <2>8 DEF Unindexed
  <2>10. Path[disk.tip] \ Path[a] \subseteq Unindexed
    BY <2>4, <2>8 DEF Unindexed
  <2>11. Drift(rows.live, disk.tip, undone, Unindexed)
    BY <2>2 DEF DriftIInv
  <2>12. Drift((rows.live \cup AllOuts(a)) \ Spends(a), disk.tip, undone, Unindexed \ {a})
    BY <1>0, <2>2, <2>4, <2>10, <2>11, DriftIndexed
  <2> QED BY <2>1, <2>7, <2>9, <2>12 DEF DriftIInv
<1>6. CASE IndexFails
  <2>1. /\ running /\ running' = running /\ disk' = disk /\ todo # << >> /\ todo' = Tail(todo)
        /\ lost' = lost \cup {Head(todo)} /\ UNCHANGED <<rows, undone>>
    BY <1>6 DEF IndexFails, nodeVars
  <2>2. disk.tip # NoHash
    BY <2>1 DEF IndexedShape
  <2>3. Range(todo) = Range(Tail(todo)) \cup {Head(todo)}
    BY <1>0, <2>1, <2>2, PendingFacts DEF RowsIInv
  <2>4. Due = Range(todo) /\ Due' = Range(Tail(todo))
    BY <2>1 DEF Due
  <2>5. Unindexed \subseteq Unindexed'
    BY <2>1, <2>3, <2>4 DEF Unindexed
  <2> QED BY <2>1, <2>5, DriftKept
<1>7. ASSUME NEW b \in Block, Receive(b) PROVE DriftIInv'
  <2>1. /\ running /\ running' = TRUE /\ todo = << >> /\ disk.tip # NoHash /\ UNCHANGED <<rows, lost>>
        /\ \/ UNCHANGED <<disk, undone, todo>> /\ history' = HistoryAfter({}, {})
           \/ \E f : /\ Switches(disk.tip, b, f) /\ disk'.tip = b
                     /\ todo' = ByHeight(Path[b] \ Path[f])
                     /\ undone' = undone \cup (Path[disk.tip] \ Path[f])
                     /\ history' = HistoryAfter(Path[disk.tip] \ Path[f], Path[b] \ Path[f])
    BY <1>7, ReceiveFollows
  <2>2. CASE UNCHANGED <<disk, undone, todo>>
    <3>1. running' = running
      BY <2>1 DEF IndexedShape
    <3> QED BY <1>1, <2>1, <2>2, <3>1
  <2>3. ASSUME NEW f, Switches(disk.tip, b, f), disk'.tip = b, todo' = ByHeight(Path[b] \ Path[f]),
               undone' = undone \cup (Path[disk.tip] \ Path[f])
        PROVE  DriftIInv'
    <3>1. Range(todo') = Path[b] \ Path[f]
      BY <2>3, PendingBranch DEF Switches
    <3>2. Due' = Path[b] \ Path[f]
      BY <2>1, <3>1 DEF Due
    <3>3. Unindexed \subseteq Path[disk.tip]
      BY DEF Unindexed
    <3>4. Range(todo) = {}
      BY <2>1 DEF Range
    <3>5. Due = {}
      BY <2>1, <3>4 DEF Due
    <3>6. Path[f] \subseteq Path[b]
      BY <2>3 DEF Switches
    <3>7. Unindexed \cap Path[f] \subseteq Unindexed' /\ Path[b] \ Path[f] \subseteq Unindexed'
      BY <2>1, <2>3, <3>2, <3>5, <3>6 DEF Unindexed
    <3>8. Drift(rows.live, disk.tip, undone, Unindexed)
      BY <2>1 DEF DriftIInv
    <3>9. PICK M : M = Unindexed'
      OBVIOUS
    <3>10. Drift(rows.live, b, undone \cup (Path[disk.tip] \ Path[f]), M)
      BY <1>0, <2>1, <2>3, <3>3, <3>7, <3>8, <3>9, DriftSwitched
    <3> QED BY <2>1, <2>3, <3>9, <3>10 DEF DriftIInv
  <2> QED BY <2>1, <2>2, <2>3
<1>8. CASE RestoreDisk
  <2>1. /\ UNCHANGED <<rows, todo, lost, undone, running>> /\ running
        /\ disk' = disk \/ disk' = [disk EXCEPT !.utxo = restoring.entries]
    BY <1>8 DEF RestoreDisk, indexVars, RestoreIInv, NoRestore
  <2>2. disk.tip # NoHash
    BY <2>1 DEF IndexedShape
  <2>3. DOMAIN disk = {"tip", "height", "blocks", "heights", "confirm", "undo", "utxo"}
    BY <1>0, <2>2 DEF OnDisk, Describes
  <2>4. disk'.tip = disk.tip
    BY <2>1, <2>3
  <2>5. Unindexed' = Unindexed
    BY <2>1, <2>4 DEF Unindexed, Due
  <2> QED BY <2>1, <2>4, <2>5, DriftKept
<1> QED
  BY <1>1, <1>2, <1>3, <1>4, <1>5, <1>6, <1>7, <1>8
     DEF IndexedNext, allVars, nodeVars, indexVars, ExportChunk, RestoreCheck, RestoreMemory

\* Over commits, reorganisations, SQLite errors and crashes between any two rows, every coin
\* by which a balance of the index is off is accounted for by a data carrier, a disconnected
\* block or a block without rows.
THEOREM DriftAlwaysBounded == DistinctTxs /\ OwnOutputs => (IndexedSpec => []BalanceDrift)
<1> SUFFICES ASSUME DistinctTxs, OwnOutputs PROVE IndexedSpec => []BalanceDrift
  OBVIOUS
<1>1. (~ poisoned => IndexedShape /\ DriftIInv) => BalanceDrift
  <2> SUFFICES ASSUME IndexedShape, DriftIInv, ~ poisoned, running, todo = << >>
               PROVE  BalanceDrift
    BY DEF BalanceDrift, Unlocked
  <2>1. disk.tip = tip /\ disk.tip # NoHash
    BY DEF IndexedShape
  <2>2. Range(todo) = {}
    BY DEF Range
  <2>3. Unindexed \subseteq lost
    BY <2>2 DEF Unindexed, Due
  <2>4. Drift(rows.live, tip, undone, lost)
    BY <2>1, <2>3, DriftMore DEF DriftIInv
  <2> QED BY <2>4 DEF BalanceDrift, Drift, IndexUtxos
<1>2. IndexedInit => DriftIInv
  BY DEF IndexedInit, NodeInit, EmptyDisk, DriftIInv
<1>3. IndexedShape /\ RestoreIInv /\ RowsIInv /\ DriftIInv /\ [IndexedNext]_allVars /\ ~ poisoned' => DriftIInv'
  BY DriftNext
<1> QED BY <1>1, <1>2, <1>3, PoisonStays, RowsInvariantHolds, PTL DEF IndexedSpec

-----------------------------------------------------------------------------
(***************************************************************************)
(* The address index.                                                      *)
(***************************************************************************)

\* The table TRANSACTIONS, with the block itself, resolves all inputs of a sound block.
LEMMA Resolved ==
  ASSUME NEW b \in Block, Sound(b), NEW d, NEW S, Path[b] \subseteq S \cup {b},
         DOMAIN d.confirm = UNION {Txs(a) : a \in S}
  PROVE  \A t \in Txs(b) : Ins[t] \subseteq Findable(d, b)
<1> SUFFICES ASSUME NEW t \in Txs(b), NEW o \in Ins[t] PROVE o \in Findable(d, b)
  OBVIOUS
<1>1. PICK i \in DOMAIN Body[b] : t = Body[b][i]
  BY DEF Txs, Range
<1>2. o \in Spends(b)
  BY <1>1 DEF Spends
<1>3. PICK c \in Path[b] : \E j \in DOMAIN Body[c] : o \in Made(Body[c][j])
  BY <1>2, SpentMade
<1>4. PICK j \in DOMAIN Body[c] : o \in Made(Body[c][j])
  BY <1>3
<1>5. Body[c][j] \in Txs(c)
  BY <1>4 DEF Txs, Range
<1>6. Body[c][j] \in DOMAIN d.confirm \cup Txs(b)
  BY <1>3, <1>5
<1>7. o \in Outs[Body[c][j]]
  BY <1>4 DEF Made
<1> QED BY <1>6, <1>7 DEF Findable

\* The records of a block, and the addresses they are under.
LEMMA RecordsOfBlock ==
  ASSUME NEW b \in Block, NEW d, \A t \in Txs(b) : Ins[t] \subseteq Findable(d, b)
  PROVE  /\ \A adr : Entries(d, b, adr) = Records(b, adr)
         /\ \A adr : Records(b, adr) # {} <=> adr \in Touched(d, b)
<1>1. ASSUME NEW adr, NEW t \in Txs(b)
      PROVE  {o \in Ins[t] \cap (d.utxo \cup Findable(d, b)) : Owner[o] = adr} = {o \in Ins[t] : Owner[o] = adr}
  <2>1. Ins[t] \cap (d.utxo \cup Findable(d, b)) = Ins[t]
    OBVIOUS
  <2> QED BY <2>1
<1>2. ASSUME NEW adr PROVE Entries(d, b, adr) = Records(b, adr)
  BY <1>1 DEF Entries, Records
<1>3. ASSUME NEW adr, adr \in Touched(d, b) PROVE Records(b, adr) # {}
  <2>1. PICK t \in Txs(b) : adr \in {Owner[o] : o \in Outs[t] \cup (Ins[t] \cap Findable(d, b))}
    BY <1>3 DEF Touched
  <2>2. PICK o \in Outs[t] \cup Ins[t] : Owner[o] = adr
    BY <2>1
  <2>3. CASE o \in Ins[t]
    <3>1. <<<<t, "input">>, o>> \in {<<t, "input">>} \X {q \in Ins[t] : Owner[q] = adr}
      BY <2>2, <2>3
    <3> QED BY <3>1 DEF Records
  <2>4. CASE o \in Outs[t]
    <3>1. <<<<t, "output">>, o>> \in {<<t, "output">>} \X {q \in Outs[t] : Owner[q] = adr}
      BY <2>2, <2>4
    <3> QED BY <3>1 DEF Records
  <2> QED BY <2>3, <2>4
<1>4. ASSUME NEW adr, Records(b, adr) # {} PROVE adr \in Touched(d, b)
  <2>1. PICK r : r \in Records(b, adr)
    BY <1>4
  <2>2. PICK t \in Txs(b) : r \in ({<<t, "input">>} \X {o \in Ins[t] : Owner[o] = adr})
                                \cup ({<<t, "output">>} \X {o \in Outs[t] : Owner[o] = adr})
    BY <2>1 DEF Records
  <2>3. PICK o \in Outs[t] \cup Ins[t] : Owner[o] = adr
    BY <2>2
  <2>4. o \in Outs[t] \cup (Ins[t] \cap Findable(d, b))
    BY <2>3
  <2> QED BY <2>3, <2>4 DEF Touched
<1> QED BY <1>2, <1>3, <1>4

\* The heights of the parent's path are those of the path, the last left out.
LEMMA RungsBelow ==
  ASSUME NEW b \in Block, b # Genesis, NEW p, p = Parent[b]
  PROVE  /\ p \in Block /\ Height[p] \in Nat /\ Height[b] = Height[p] + 1
         /\ Ladder(p) /\ Ladder(b) /\ At(b, Height[b]) = b
         /\ \A h \in 0 .. Height[p] : At(b, h) = At(p, h)
<1>1. p \in Block /\ Height[b] = Height[p] + 1 /\ Path[b] = Path[p] \cup {b} /\ Height[p] \in Nat
  BY Unfold, RecursionAssumption
<1>2. Ladder(p) /\ Ladder(b)
  BY <1>1, EveryLadder
<1>3. At(b, Height[b]) = b
  BY <1>2, Rungs
<1>4. ASSUME NEW h \in 0 .. Height[p] PROVE At(b, h) = At(p, h)
  <2>1. At(p, h) \in Path[p] /\ Height[At(p, h)] = h
    BY <1>2, Rungs
  <2>2. At(p, h) \in Path[b]
    BY <1>1, <2>1
  <2> QED BY <1>2, <2>1, <2>2, Rungs
<1> QED BY <1>1, <1>2, <1>3, <1>4

\* Writing a block on top of its parent's index.
LEMMA HistoryUp ==
  ASSUME NEW b \in Block, b # Genesis, NEW p, p = Parent[b], NEW d,
         \A adr : Entries(d, b, adr) = Records(b, adr)
  PROVE  AddEntries(HistoryOf(p), d, b) = HistoryOf(b)
<1> DEFINE H == HistoryOf(p)
           new == {<<adr, Height[b]>> : adr \in {a \in Address : Entries(d, b, a) # {}}}
           at(k) == IF k \in DOMAIN H THEN H[k] ELSE {}
           G == [k \in DOMAIN H \cup new |-> IF k \in new THEN at(k) \cup Entries(d, b, k[1]) ELSE H[k]]
<1>1. /\ Height[p] \in Nat /\ Height[b] = Height[p] + 1 /\ At(b, Height[b]) = b
      /\ \A h \in 0 .. Height[p] : At(b, h) = At(p, h)
  BY RungsBelow
<1>2. DOMAIN H = HistoryKeys(p) /\ \A k \in HistoryKeys(p) : H[k] = Records(At(p, k[2]), k[1])
  BY DEF HistoryOf
<1>3. new = {k \in Address \X {Height[b]} : Records(b, k[1]) # {}}
  OBVIOUS
<1>4. ASSUME NEW k, k \in HistoryKeys(p)
      PROVE  k \notin new /\ k \in HistoryKeys(b) /\ H[k] = Records(At(b, k[2]), k[1])
  <2>1. k \in Address \X (0 .. Height[p]) /\ Records(At(p, k[2]), k[1]) # {}
    BY <1>4 DEF HistoryKeys
  <2>2. k[2] \in 0 .. Height[p] /\ k[2] # Height[b] /\ k[2] \in 0 .. Height[b]
    BY <1>1, <2>1
  <2>3. At(b, k[2]) = At(p, k[2])
    BY <1>1, <2>2
  <2>4. k \in HistoryKeys(b)
    BY <2>1, <2>2, <2>3 DEF HistoryKeys
  <2> QED BY <1>2, <1>3, <1>4, <2>2, <2>3, <2>4
<1>5. ASSUME NEW k \in new
      PROVE  k \in HistoryKeys(b) /\ Entries(d, b, k[1]) = Records(At(b, k[2]), k[1]) /\ at(k) = {}
  <2>1. k \in Address \X {Height[b]} /\ Records(b, k[1]) # {} /\ k[2] = Height[b]
    BY <1>3
  <2>2. k[2] \in 0 .. Height[b] /\ k \in Address \X (0 .. Height[b])
    BY <1>1, <2>1
  <2>3. k \in HistoryKeys(b)
    BY <1>1, <2>1, <2>2 DEF HistoryKeys
  <2>4. k \notin DOMAIN H
    BY <1>2, <1>4
  <2> QED BY <1>1, <2>1, <2>3, <2>4
<1>6. ASSUME NEW k \in HistoryKeys(b) PROVE k \in HistoryKeys(p) \/ k \in new
  <2>1. k \in Address \X (0 .. Height[b]) /\ Records(At(b, k[2]), k[1]) # {}
    BY DEF HistoryKeys
  <2>2. k[2] \in 0 .. Height[p] \/ k[2] = Height[b]
    BY <1>1, <2>1
  <2>3. CASE k[2] \in 0 .. Height[p]
    BY <1>1, <2>1, <2>3 DEF HistoryKeys
  <2>4. CASE k[2] = Height[b]
    BY <1>1, <1>3, <2>1, <2>4
  <2> QED BY <2>2, <2>3, <2>4
<1> HIDE DEF new, H
<1>7. DOMAIN H \cup new = HistoryKeys(b)
  BY <1>2, <1>4, <1>5, <1>6
<1>8. ASSUME NEW k \in HistoryKeys(b) PROVE G[k] = Records(At(b, k[2]), k[1])
  <2>1. CASE k \in new
    BY <1>5, <1>7, <2>1
  <2>2. CASE k \notin new
    BY <1>4, <1>6, <1>7, <2>2
  <2> QED BY <2>1, <2>2
<1>9. G = [k \in HistoryKeys(b) |-> G[k]]
  BY <1>7
<1> HIDE DEF G
<1>10. G = HistoryOf(b)
  BY <1>8, <1>9 DEF HistoryOf
<1>11. AddEntries(H, d, b) = G
  BY DEF AddEntries, G, new
<1> QED BY <1>10, <1>11 DEF H

\* Erasing the last block.
LEMMA HistoryDown ==
  ASSUME NEW b \in Block, b # Genesis, NEW p, p = Parent[b], NEW d,
         \A adr : Records(b, adr) # {} <=> adr \in Touched(d, b)
  PROVE  RemoveEntries(HistoryOf(b), d, b) = HistoryOf(p)
<1> DEFINE K == {<<adr, Height[b]>> : adr \in Touched(d, b)}
           H == HistoryOf(b)
           G == [x \in DOMAIN H \ K |-> H[x]]
<1>1. /\ Height[p] \in Nat /\ Height[b] = Height[p] + 1 /\ At(b, Height[b]) = b
      /\ \A h \in 0 .. Height[p] : At(b, h) = At(p, h)
  BY RungsBelow
<1>2. DOMAIN H = HistoryKeys(b) /\ \A k \in HistoryKeys(b) : H[k] = Records(At(b, k[2]), k[1])
  BY DEF HistoryOf
<1>3. ASSUME NEW k \in HistoryKeys(p)
      PROVE  k \in HistoryKeys(b) /\ k \notin K /\ At(b, k[2]) = At(p, k[2])
  <2>1. k \in Address \X (0 .. Height[p]) /\ Records(At(p, k[2]), k[1]) # {}
    BY DEF HistoryKeys
  <2>2. k[2] \in 0 .. Height[p] /\ k[2] # Height[b] /\ k[2] \in 0 .. Height[b]
    BY <1>1, <2>1
  <2>3. At(b, k[2]) = At(p, k[2])
    BY <1>1, <2>2
  <2>4. k \in HistoryKeys(b)
    BY <2>1, <2>2, <2>3 DEF HistoryKeys
  <2> QED BY <2>2, <2>3, <2>4
<1>4. ASSUME NEW k \in HistoryKeys(b), k \notin K PROVE k \in HistoryKeys(p)
  <2>1. k \in Address \X (0 .. Height[b]) /\ Records(At(b, k[2]), k[1]) # {}
    BY DEF HistoryKeys
  <2>2. k[2] # Height[b]
    <3> SUFFICES ASSUME k[2] = Height[b] PROVE FALSE
      OBVIOUS
    <3>1. k[1] \in Touched(d, b)
      BY <1>1, <2>1
    <3>2. k = <<k[1], Height[b]>>
      BY <2>1
    <3> QED BY <1>4, <3>1, <3>2
  <2>3. k[2] \in 0 .. Height[p]
    BY <1>1, <2>1, <2>2
  <2> QED BY <1>1, <2>1, <2>3 DEF HistoryKeys
<1> HIDE DEF K, H
<1>5. DOMAIN H \ K = HistoryKeys(p)
  BY <1>2, <1>3, <1>4
<1>6. ASSUME NEW k \in HistoryKeys(p) PROVE G[k] = Records(At(p, k[2]), k[1])
  BY <1>2, <1>3, <1>5
<1>7. G = [k \in HistoryKeys(p) |-> G[k]]
  BY <1>5
<1> HIDE DEF G
<1>8. G = HistoryOf(p)
  BY <1>6, <1>7 DEF HistoryOf
<1>9. RemoveEntries(H, d, b) = G
  BY DEF RemoveEntries, Drop, G, K
<1> QED BY <1>8, <1>9 DEF H

\* The database transaction has reached block a: the tables and the address index are its.
Reached(w, a) == Describes(w.d, a, FALSE) /\ w.h = HistoryOf(a)

\* One block down and one block up.
LEMMA ReachedDown ==
  ASSUME DistinctTxs, NEW w, NEW a \in Block, a # Genesis, Sound(a), Reached(w, a)
  PROVE  Reached(EraseIndexed(w, a), Parent[a])
<1>1. Ladder(a)
  BY EveryLadder
<1>2. Applies(a, LedgerBefore(a))
  BY SoundApplies
<1>3. Describes(EraseBlock(w.d, a), Parent[a], FALSE)
  BY <1>1, <1>2, EraseLast DEF Reached
<1>4. DOMAIN w.d.confirm = UNION {Txs(x) : x \in Path[a]}
  BY DEF Reached, Describes, Confirms
<1>5. \A t \in Txs(a) : Ins[t] \subseteq Findable(w.d, a)
  BY <1>4, Resolved
<1>6. \A adr : Records(a, adr) # {} <=> adr \in Touched(w.d, a)
  BY <1>5, RecordsOfBlock
<1>7. RemoveEntries(HistoryOf(a), w.d, a) = HistoryOf(Parent[a])
  BY <1>6, HistoryDown
<1> QED BY <1>3, <1>7 DEF Reached, EraseIndexed

LEMMA ReachedUp ==
  ASSUME DistinctTxs, NEW w, NEW a \in Block, a # Genesis, Sound(a), Reached(w, Parent[a])
  PROVE  Reached(WriteIndexed(w, a), a)
<1>1. Parent[a] \in Block /\ Path[a] = Path[Parent[a]] \cup {a}
  BY Unfold
<1>2. Ladder(Parent[a])
  BY <1>1, EveryLadder
<1>3. Describes(WriteBlock(w.d, a), a, FALSE)
  BY <1>2, WriteNext DEF Reached
<1>4. DOMAIN w.d.confirm = UNION {Txs(x) : x \in Path[Parent[a]]}
  BY DEF Reached, Describes, Confirms
<1>5. \A t \in Txs(a) : Ins[t] \subseteq Findable(w.d, a)
  BY <1>1, <1>4, Resolved
<1>6. \A adr : Entries(w.d, a, adr) = Records(a, adr)
  BY <1>5, RecordsOfBlock
<1>7. AddEntries(HistoryOf(Parent[a]), w.d, a) = HistoryOf(a)
  BY <1>6, HistoryUp
<1> QED BY <1>3, <1>7 DEF Reached, WriteIndexed

\* Erasing the blocks above a fork with their records.
LEMMA ReachedFork ==
  ASSUME DistinctTxs, NEW w, NEW t, Ladder(t), Reached(w, t), NEW f \in Path[t], f # t,
         \A a \in Path[t] : Sound(a)
  PROVE  Reached(FoldLeft(EraseIndexed, w, Reverse(ByHeight(Path[t] \ Path[f]))), f)
<1> DEFINE r == Reverse(ByHeight(Path[t] \ Path[f]))
<1>0. PICK n \in Nat : /\ Height[f] \in Nat /\ Height[t] \in Nat /\ Height[t] = Height[f] + n
                      /\ DOMAIN r = 1 .. n
                      /\ \A k \in 1 .. n : r[k] = At(t, Height[t] - k + 1)
  BY BranchDown
<1> HIDE DEF r
<1>1. Height[f] \in Nat /\ n \in Nat /\ Height[t] \in Nat /\ Height[t] = Height[f] + n
  BY <1>0
<1>2. DOMAIN r = 1 .. n /\ \A k \in 1 .. n : r[k] = At(t, Height[t] - k + 1)
  BY <1>0
<1>3. PICK h : Trace("erase indexed", h, w, r, n)
  BY <1>1, FoldStates
<1>4. h[n] = FoldLeft(EraseIndexed, w, r) /\ h[0] = w
  <2>1. FoldLeft(EraseIndexed, w, r) = FoldOf("erase indexed", w, r, n)
    BY <1>1, <1>2, DatabaseFolds
  <2> QED BY <1>3, <2>1 DEF Trace
<1> DEFINE T == {k \in Nat : k <= n => Reached(h[k], At(t, Height[t] - k))}
<1>5. 0 \in T
  <2>1. At(t, Height[t] - 0) = t
    BY <1>1, Rungs
  <2> QED BY <1>4, <2>1
<1>6. ASSUME NEW k \in Nat, k \in T PROVE k + 1 \in T
  <2> SUFFICES ASSUME k + 1 <= n PROVE Reached(h[k + 1], At(t, Height[t] - (k + 1)))
    OBVIOUS
  <2> DEFINE a == At(t, Height[t] - k)
             c == At(t, Height[t] - (k + 1))
  <2>1. Reached(h[k], a)
    BY <1>1, <1>6
  <2>2. h[k + 1] = EraseIndexed(h[k], a)
    <3>1. k + 1 \in 1 .. n /\ (k + 1) - 1 = k /\ Height[t] - (k + 1) + 1 = Height[t] - k
      BY <1>1
    <3>2. r[k + 1] = a
      BY <1>2, <3>1
    <3> QED BY <1>3, <3>1, <3>2 DEF Trace, Operation
  <2>3. a \in Path[t] /\ a # Genesis /\ Parent[a] = c
    <3>1. Height[t] - k \in 1 .. Height[t] /\ (Height[t] - k) - 1 = Height[t] - (k + 1)
      BY <1>1
    <3>2. Height[t] - k \in 0 .. Height[t]
      BY <1>1
    <3>3. a \in Path[t]
      BY <3>2, Rungs
    <3>4. a # Genesis /\ Parent[a] = At(t, (Height[t] - k) - 1)
      BY <3>1, Rungs
    <3> QED BY <3>1, <3>3, <3>4
  <2> HIDE DEF a, c
  <2>4. a \in Block /\ Sound(a)
    BY <2>3 DEF Ladder
  <2>5. Reached(EraseIndexed(h[k], a), Parent[a])
    BY <2>1, <2>3, <2>4, ReachedDown
  <2> QED BY <2>2, <2>3, <2>5 DEF c
<1>7. n \in T
  <2> HIDE DEF T
  <2> QED BY <1>1, <1>5, <1>6, OneByOne
<1>8. At(t, Height[t] - n) = f
  <2>1. Height[t] - n = Height[f]
    BY <1>1
  <2> QED BY <2>1, Rungs
<1>9. Reached(FoldLeft(EraseIndexed, w, r), f)
  BY <1>1, <1>4, <1>7, <1>8
<1> QED BY <1>9 DEF r

\* Writing the blocks above a fork with their records.
LEMMA ReachedTip ==
  ASSUME DistinctTxs, NEW w, NEW b, Ladder(b), NEW f \in Path[b], f # b, Reached(w, f),
         \A a \in Path[b] : Sound(a)
  PROVE  Reached(FoldLeft(WriteIndexed, w, ByHeight(Path[b] \ Path[f])), b)
<1> DEFINE n == Height[b] - Height[f]
           s == ByHeight(Path[b] \ Path[f])
<1>0. /\ Height[f] \in Nat /\ n \in Nat /\ Height[b] \in Nat
      /\ s = [i \in 1 .. n |-> At(b, Height[f] + i)]
  <2>1. Height[b] \in Nat
    BY DEF Ladder
  <2>2. /\ Height[f] \in Nat /\ n \in Nat
        /\ s = [i \in 1 .. n |-> At(b, Height[f] + i)]
    BY BranchOrder
  <2> QED BY <2>1, <2>2
<1>1. Height[f] \in Nat /\ n \in Nat /\ Height[b] \in Nat /\ Height[b] = Height[f] + n
  <2> HIDE DEF s
  <2> QED BY <1>0
<1> HIDE DEF n, s
<1>2. DOMAIN s = 1 .. n /\ \A k \in 1 .. n : s[k] = At(b, Height[f] + k)
  BY <1>0
<1>3. PICK h : Trace("write indexed", h, w, s, n)
  BY <1>1, FoldStates
<1>4. h[n] = FoldLeft(WriteIndexed, w, s) /\ h[0] = w
  <2>1. FoldLeft(WriteIndexed, w, s) = FoldOf("write indexed", w, s, n)
    BY <1>1, <1>2, DatabaseFolds
  <2> QED BY <1>3, <2>1 DEF Trace
<1> DEFINE T == {k \in Nat : k <= n => Reached(h[k], At(b, Height[f] + k))}
<1>5. 0 \in T
  <2>1. At(b, Height[f] + 0) = f
    BY <1>1, Rungs
  <2> QED BY <1>4, <2>1
<1>6. ASSUME NEW k \in Nat, k \in T PROVE k + 1 \in T
  <2> SUFFICES ASSUME k + 1 <= n PROVE Reached(h[k + 1], At(b, Height[f] + (k + 1)))
    OBVIOUS
  <2> DEFINE a == At(b, Height[f] + k)
             c == At(b, Height[f] + (k + 1))
  <2>1. Reached(h[k], a)
    BY <1>1, <1>6
  <2>2. h[k + 1] = WriteIndexed(h[k], c)
    <3>1. k + 1 \in 1 .. n /\ (k + 1) - 1 = k
      BY <1>1
    <3>2. s[k + 1] = c
      BY <1>2, <3>1
    <3> QED BY <1>3, <3>1, <3>2 DEF Trace, Operation
  <2>3. c \in Path[b] /\ c # Genesis /\ Parent[c] = a
    <3>1. Height[f] + (k + 1) \in 1 .. Height[b] /\ (Height[f] + (k + 1)) - 1 = Height[f] + k
      BY <1>1
    <3>2. Height[f] + (k + 1) \in 0 .. Height[b]
      BY <1>1
    <3>3. c \in Path[b]
      BY <3>2, Rungs
    <3>4. c # Genesis /\ Parent[c] = At(b, (Height[f] + (k + 1)) - 1)
      BY <3>1, Rungs
    <3> QED BY <3>1, <3>3, <3>4
  <2> HIDE DEF a, c
  <2>4. c \in Block /\ Sound(c)
    BY <2>3 DEF Ladder
  <2>5. Reached(WriteIndexed(h[k], c), c)
    BY <2>1, <2>3, <2>4, ReachedUp
  <2> QED BY <2>2, <2>5 DEF c
<1>7. n \in T
  <2> HIDE DEF T
  <2> QED BY <1>1, <1>5, <1>6, OneByOne
<1>8. At(b, Height[f] + n) = b
  BY <1>1, Rungs
<1>9. Reached(FoldLeft(WriteIndexed, w, s), b)
  BY <1>1, <1>4, <1>7, <1>8
<1> QED BY <1>9 DEF s

\* A transaction of the database that touches no block, and one that writes block 0.
LEMMA ShortFolds ==
  ASSUME NEW w
  PROVE  /\ FoldLeft(EraseIndexed, w, Reverse(ByHeight({}))) = w
         /\ FoldLeft(WriteIndexed, w, ByHeight({})) = w
         /\ FoldLeft(WriteIndexed, w, ByHeight({Genesis})) = WriteIndexed(w, Genesis)
<1>1. ByHeight({}) = << >> /\ Reverse(<< >>) = << >> /\ DOMAIN << >> = 1 .. 0
  BY PendingStart DEF Reverse
<1>2. FoldLeft(EraseIndexed, w, << >>) = w /\ FoldLeft(WriteIndexed, w, << >>) = w
  <2>1. PICK g : Trace("erase indexed", g, w, << >>, 0)
    BY FoldStates
  <2>2. PICK h : Trace("write indexed", h, w, << >>, 0)
    BY FoldStates
  <2>3. /\ FoldLeft(EraseIndexed, w, << >>) = FoldOf("erase indexed", w, << >>, 0)
        /\ FoldLeft(WriteIndexed, w, << >>) = FoldOf("write indexed", w, << >>, 0)
    BY <1>1, DatabaseFolds
  <2> QED BY <2>1, <2>2, <2>3 DEF Trace
<1>3. FoldLeft(WriteIndexed, w, ByHeight({Genesis})) = WriteIndexed(w, Genesis)
  <2>1. PICK s : s = ByHeight({Genesis})
    OBVIOUS
  <2>2. s = [i \in 1 .. 1 |-> Genesis]
    BY <2>1, PendingStart
  <2>3. DOMAIN s = 1 .. 1 /\ s[1] = Genesis
    BY <2>2
  <2>4. PICK h : Trace("write indexed", h, w, s, 1)
    BY FoldStates
  <2>5. FoldLeft(WriteIndexed, w, s) = FoldOf("write indexed", w, s, 1)
    BY <2>3, DatabaseFolds
  <2>6. h[0] = w /\ h[1] = FoldOf("write indexed", w, s, 1) /\ h[1] = Operation("write indexed", h[0], s[1])
    <3>1. 1 \in 1 .. 1 /\ 1 - 1 = 0
      OBVIOUS
    <3> QED BY <2>4, <3>1 DEF Trace
  <2> QED BY <2>1, <2>3, <2>5, <2>6 DEF Operation
<1> QED BY <1>1, <1>2, <1>3

\* The index of block 0.
LEMMA HistoryFirst == AddEntries(<< >>, EmptyDisk, Genesis) = HistoryOf(Genesis)
<1>1. Genesis \in Block /\ Sound(Genesis) /\ Path[Genesis] = {Genesis} /\ Height[Genesis] = 0
  BY TreeAssumption, RecursionAssumption DEF Sound
<1>2. At(Genesis, 0) = Genesis
  BY <1>1, GenesisLadder, Rungs
<1>3. DOMAIN EmptyDisk.confirm = UNION {Txs(a) : a \in {}}
  BY DEF EmptyDisk
<1>4. \A t \in Txs(Genesis) : Ins[t] \subseteq Findable(EmptyDisk, Genesis)
  BY <1>1, <1>3, Resolved
<1>5. \A adr : Entries(EmptyDisk, Genesis, adr) = Records(Genesis, adr)
  BY <1>1, <1>4, RecordsOfBlock
<1> DEFINE E(adr) == Entries(EmptyDisk, Genesis, adr)
           new == {<<adr, Height[Genesis]>> : adr \in {a \in Address : E(a) # {}}}
           G == [k \in DOMAIN << >> \cup new |->
                   IF k \in new
                   THEN (IF k \in DOMAIN << >> THEN << >>[k] ELSE {}) \cup E(k[1]) ELSE << >>[k]]
<1>6. new = {k \in Address \X (0 .. 0) : Records(Genesis, k[1]) # {}}
  BY <1>1, <1>5
<1>7. new = HistoryKeys(Genesis)
  <2>1. ASSUME NEW k \in Address \X (0 .. 0) PROVE At(Genesis, k[2]) = Genesis
    BY <1>2
  <2> HIDE DEF new
  <2> QED BY <1>1, <1>6, <2>1 DEF HistoryKeys
<1>8. ASSUME NEW k \in new PROVE E(k[1]) = Records(At(Genesis, k[2]), k[1])
  <2>1. k[2] = 0
    BY <1>6
  <2> QED BY <1>2, <1>5, <2>1
<1> HIDE DEF new, E
<1>9. DOMAIN << >> = {}
  OBVIOUS
<1>10. G = [k \in new |-> E(k[1])]
  BY <1>9
<1> HIDE DEF G
<1>11. G = HistoryOf(Genesis)
  BY <1>7, <1>8, <1>10 DEF HistoryOf
<1>12. AddEntries(<< >>, EmptyDisk, Genesis) = G
  BY DEF AddEntries, G, new, E
<1> QED BY <1>11, <1>12

\* The database transaction of a change of branch takes the index from one tip to the other.
LEMMA HistorySwitched ==
  ASSUME DistinctTxs, NEW b, NEW f, Switches(disk.tip, b, f), Describes(disk, disk.tip, FALSE),
         history = HistoryOf(disk.tip),
         \A a \in Path[disk.tip] : Sound(a), \A a \in Path[b] : Sound(a)
  PROVE  HistoryAfter(Path[disk.tip] \ Path[f], Path[b] \ Path[f]) = HistoryOf(b)
<1>1. PICK t : t = disk.tip
  OBVIOUS
<1>2. PICK w : w = [d |-> disk, h |-> history]
  OBVIOUS
<1>3. Reached(w, t)
  BY <1>1, <1>2 DEF Reached
<1>4. PICK down : down = FoldLeft(EraseIndexed, w, Reverse(ByHeight(Path[t] \ Path[f])))
  OBVIOUS
<1>5. Ladder(t) /\ Ladder(b) /\ f \in Path[t] /\ f \in Path[b] /\ f # b
  BY <1>1 DEF Switches
<1>6. Reached(down, f)
  <2>1. CASE f = t
    <3>1. Path[t] \ Path[f] = {}
      BY <2>1
    <3> QED BY <1>3, <1>4, <2>1, <3>1, ShortFolds
  <2>2. CASE f # t
    BY <1>1, <1>3, <1>4, <1>5, <2>2, ReachedFork
  <2> QED BY <2>1, <2>2
<1>7. PICK up : up = FoldLeft(WriteIndexed, down, ByHeight(Path[b] \ Path[f]))
  OBVIOUS
<1>8. Reached(up, b)
  BY <1>5, <1>6, <1>7, ReachedTip
<1>9. HistoryAfter(Path[disk.tip] \ Path[f], Path[b] \ Path[f]) = up.h
  BY <1>1, <1>2, <1>4, <1>7 DEF HistoryAfter
<1> QED BY <1>8, <1>9 DEF Reached

\* Every step keeps the address index the chain's.
LEMMA HistoryNext ==
  ASSUME DistinctTxs, IndexedShape, RestoreIInv, HistoryIInv, [IndexedNext]_allVars, ~ poisoned'
  PROVE  HistoryIInv'
<1>0. disk.tip # NoHash => OnDisk(disk, FALSE) /\ \A x \in Path[disk.tip] : Sound(x)
  BY DEF IndexedShape, Persisted
<1>1. CASE history' = history /\ disk'.tip = disk.tip
  BY <1>1 DEF HistoryIInv
<1>2. CASE OpenFresh
  <2>1. disk.tip = NoHash /\ disk'.tip = Genesis /\ disk = EmptyDisk /\ disk' = CommitBlock(EmptyDisk, Genesis)
    BY <1>2, OpenShape
  <2>2. disk'.blocks = {Genesis} /\ disk.blocks = {}
    <3>1. OnDisk(disk', FALSE)
      BY <2>1, FirstOnDisk
    <3>2. disk'.blocks = Path[disk'.tip]
      BY <3>1 DEF OnDisk, Describes
    <3>3. Path[Genesis] = {Genesis} /\ disk.blocks = {}
      BY <2>1, RecursionAssumption DEF EmptyDisk
    <3> QED BY <2>1, <3>2, <3>3
  <2>3. disk.blocks \ disk'.blocks = {} /\ disk'.blocks \ disk.blocks = {Genesis}
    BY <2>2
  <2>4. history' = HistoryAfter({}, {Genesis})
    BY <1>2, <2>3 DEF OpenFresh, Follow
  <2>5. history = << >>
    BY <2>1 DEF HistoryIInv
  <2>6. PICK w : w = [d |-> EmptyDisk, h |-> << >>]
    OBVIOUS
  <2>7. HistoryAfter({}, {Genesis}) = WriteIndexed(w, Genesis).h
    BY <2>1, <2>5, <2>6, ShortFolds DEF HistoryAfter
  <2>8. WriteIndexed(w, Genesis).h = AddEntries(<< >>, EmptyDisk, Genesis)
    BY <2>6 DEF WriteIndexed
  <2>9. Genesis # NoHash
    BY TreeAssumption
  <2> QED BY <2>1, <2>4, <2>7, <2>8, <2>9, HistoryFirst DEF HistoryIInv
<1>3. CASE OpenExisting
  <2>1. disk' = disk
    BY <1>3, OpenShape
  <2> QED BY <1>1, <1>3, <2>1 DEF OpenExisting
<1>4. CASE \/ Crash \/ CatchupFails \/ IndexBlock \/ IndexFails \/ ExportChunk \/ RestoreMemory
           \/ (\E s \in Snapshots : RestoreCheck(s)) \/ UNCHANGED allVars
  <2>1. history' = history /\ disk' = disk
    BY <1>4 DEF Crash, CatchupFails, Stop, IndexBlock, IndexFails, ExportChunk, RestoreMemory,
                RestoreCheck, allVars, nodeVars, indexVars
  <2> QED BY <1>1, <2>1
<1>5. ASSUME NEW b \in Block, Receive(b) PROVE HistoryIInv'
  <2>1. /\ disk.tip # NoHash
        /\ \/ UNCHANGED <<disk, undone, todo>> /\ history' = HistoryAfter({}, {})
           \/ \E f : /\ Switches(disk.tip, b, f) /\ disk'.tip = b
                     /\ todo' = ByHeight(Path[b] \ Path[f])
                     /\ undone' = undone \cup (Path[disk.tip] \ Path[f])
                     /\ history' = HistoryAfter(Path[disk.tip] \ Path[f], Path[b] \ Path[f])
    BY <1>5, ReceiveFollows
  <2>2. CASE UNCHANGED <<disk, undone, todo>> /\ history' = HistoryAfter({}, {})
    <3>1. HistoryAfter({}, {}) = history
      <4>1. PICK w : w = [d |-> disk, h |-> history]
        OBVIOUS
      <4>2. HistoryAfter({}, {}) = w.h
        BY <4>1, ShortFolds DEF HistoryAfter
      <4> QED BY <4>1, <4>2
    <3> QED BY <1>1, <2>2, <3>1
  <2>3. ASSUME NEW f, Switches(disk.tip, b, f), disk'.tip = b,
               history' = HistoryAfter(Path[disk.tip] \ Path[f], Path[b] \ Path[f])
        PROVE  HistoryIInv'
    <3>1. disk'.tip # NoHash
      BY <2>3, TreeAssumption
    <3>2. IndexedShape'
      BY ShapeNext
    <3>3. \A x \in Path[b] : Sound(x)
      BY <2>3, <3>1, <3>2 DEF IndexedShape, Persisted
    <3>4. history = HistoryOf(disk.tip) /\ Describes(disk, disk.tip, FALSE)
      BY <1>0, <2>1 DEF HistoryIInv, OnDisk
    <3>5. history' = HistoryOf(b)
      BY <1>0, <2>1, <2>3, <3>3, <3>4, HistorySwitched
    <3> QED BY <2>3, <3>1, <3>5 DEF HistoryIInv
  <2> QED BY <2>1, <2>2, <2>3
<1>6. CASE RestoreDisk
  <2>1. history' = history /\ running /\ (disk' = disk \/ disk' = [disk EXCEPT !.utxo = restoring.entries])
    BY <1>6 DEF RestoreDisk, indexVars, RestoreIInv, NoRestore
  <2>2. disk.tip # NoHash
    BY <2>1 DEF IndexedShape
  <2>3. DOMAIN disk = {"tip", "height", "blocks", "heights", "confirm", "undo", "utxo"}
    BY <1>0, <2>2 DEF OnDisk, Describes
  <2> QED BY <1>1, <2>1, <2>3
<1> QED BY <1>2, <1>3, <1>4, <1>5, <1>6 DEF IndexedNext

\* The address index of the database is that of the canonical chain at every height, over
\* commits, reorganisations, crashes and restores.
THEOREM HistoryAlwaysFollows == DistinctTxs => (IndexedSpec => []HistoryFollowsChain)
<1> SUFFICES ASSUME DistinctTxs PROVE IndexedSpec => []HistoryFollowsChain
  OBVIOUS
<1>1. (~ poisoned => IndexedShape /\ HistoryIInv) => HistoryFollowsChain
  <2> SUFFICES ASSUME IndexedShape, HistoryIInv, ~ poisoned, disk.tip # NoHash
               PROVE  /\ \A k \in DOMAIN history : k[2] <= disk.height
                      /\ \A adr \in Address, a \in Path[disk.tip] :
                           AddressHistory(adr, Height[a], Height[a]) = Records(a, adr)
    BY DEF HistoryFollowsChain, Records
  <2>1. PICK t : t = disk.tip
    OBVIOUS
  <2>2. Ladder(t) /\ disk.height = Height[t] /\ history = HistoryOf(t) /\ Height[t] \in Nat
    BY <2>1 DEF IndexedShape, OnDisk, HistoryIInv, Ladder
  <2>3. DOMAIN history = HistoryKeys(t) /\ \A k \in HistoryKeys(t) : history[k] = Records(At(t, k[2]), k[1])
    BY <2>2 DEF HistoryOf
  <2>4. ASSUME NEW k \in DOMAIN history PROVE k[2] <= disk.height
    BY <2>2, <2>3 DEF HistoryKeys
  <2>5. ASSUME NEW adr \in Address, NEW a \in Path[t]
        PROVE  AddressHistory(adr, Height[a], Height[a]) = Records(a, adr)
    <3>1. Height[a] \in 0 .. Height[t] /\ At(t, Height[a]) = a
      BY <2>2, Rungs DEF Ladder
    <3>2. Height[a] .. Height[a] = {Height[a]}
      BY <2>2, <3>1
    <3>3. PICK k : k = <<adr, Height[a]>>
      OBVIOUS
    <3>4. k \in Address \X (0 .. Height[t]) /\ k[1] = adr /\ k[2] = Height[a]
      BY <3>1, <3>3
    <3>5. k \in DOMAIN history <=> Records(a, adr) # {}
      BY <2>3, <3>1, <3>4 DEF HistoryKeys
    <3>6. k \in DOMAIN history => history[k] = Records(a, adr)
      BY <2>3, <3>1, <3>4
    <3>7. CASE k \in DOMAIN history
      <4>1. {i \in Height[a] .. Height[a] : <<adr, i>> \in DOMAIN history} = {Height[a]}
        BY <3>2, <3>3, <3>7
      <4>2. AddressHistory(adr, Height[a], Height[a]) = history[<<adr, Height[a]>>]
        BY <4>1 DEF AddressHistory
      <4> QED BY <3>3, <3>6, <3>7, <4>2
    <3>8. CASE k \notin DOMAIN history
      <4>1. {i \in Height[a] .. Height[a] : <<adr, i>> \in DOMAIN history} = {}
        BY <3>2, <3>3, <3>8
      <4>2. AddressHistory(adr, Height[a], Height[a]) = {}
        BY <4>1 DEF AddressHistory
      <4> QED BY <3>5, <3>8, <4>2
    <3> QED BY <3>7, <3>8
  <2> QED BY <2>1, <2>4, <2>5
<1>2. IndexedInit => HistoryIInv
  BY DEF IndexedInit, NodeInit, EmptyDisk, HistoryIInv
<1>3. IndexedShape /\ RestoreIInv /\ HistoryIInv /\ [IndexedNext]_allVars /\ ~ poisoned' => HistoryIInv'
  BY HistoryNext
<1> QED BY <1>1, <1>2, <1>3, PoisonStays, IndexedInvariantHolds, PTL DEF IndexedSpec
=============================================================================
