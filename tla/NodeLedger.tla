----------------------------- MODULE NodeLedger -----------------------------
(***************************************************************************)
(* apps/scytale-node/src/node.rs: one node's canonical state, in memory    *)
(* (ChainTree and the UTXO set) and in its database (Storage), over starts,*)
(* block submissions, local mining, storage errors and crashes.            *)
(*                                                                         *)
(* submit_external_block and the commit section of the mining worker hold  *)
(* the chain and the UTXO locks from the first check to the end of the     *)
(* database transaction, so each is one step; the worker holds no lock     *)
(* between building its template and committing the solved block.          *)
(***************************************************************************)
EXTENDS ChainTree, Storage

VARIABLES
  running,   \* the process is up and recover() has returned
  disk,      \* the database
  template   \* the parent of the block the worker is hashing, or NoHash

nodeVars == <<nodes, tip, invalid, utxo, running, disk, template>>

(***************************************************************************)
(* Start and stop.                                                         *)
(***************************************************************************)

\* Node::open: a placeholder tree and an empty UTXO set.
NodeInit ==
  /\ nodes = {Genesis}
  /\ tip = Genesis
  /\ invalid = {}
  /\ utxo = {}
  /\ running = FALSE
  /\ disk = EmptyDisk
  /\ template = NoHash

\* recover on a fresh database: block 0 is committed and applied.
StartFresh ==
  /\ ~ running
  /\ disk.tip = NoHash
  /\ nodes' = {Genesis}
  /\ tip' = Genesis
  /\ invalid' = {}
  /\ utxo' = Apply(Genesis, {})
  /\ disk' = CommitBlock(disk, Genesis)
  /\ running' = TRUE
  /\ UNCHANGED template

\* The replay in recover meets no error: the path can be read back and each of
\* its blocks passes process_block as a child of the one before.
Recoverable ==
  /\ PathReadable(disk)
  /\ \A a \in Path[disk.tip] \ {Genesis} :
       /\ a \in GoodHeader
       /\ CumWork[a] <= MaxWork
       /\ Connectable(a, LedgerBefore(a))

\* Mutant of StartFromDisk: the UTXOS table is loaded instead of a replay.
MutTrustDiskUtxo ==
  /\ ~ running
  /\ disk.tip # NoHash
  /\ Recoverable
  /\ nodes' = Path[disk.tip]
  /\ tip' = disk.tip
  /\ invalid' = {}
  /\ utxo' = disk.utxo
  /\ running' = TRUE
  /\ UNCHANGED <<disk, template>>

\* recover from the canonical path on disk.  Side branches and flags are gone.
StartFromDisk ==
  /\ ~ running
  /\ disk.tip # NoHash
  /\ Recoverable
  /\ nodes' = Path[disk.tip]
  /\ tip' = disk.tip
  /\ invalid' = {}
  /\ utxo' = LedgerAt[disk.tip]
  /\ running' = TRUE
  /\ UNCHANGED <<disk, template>>

\* A crash, or the end of the process after shutdown.
Stop ==
  /\ running
  /\ nodes' = {Genesis}
  /\ tip' = Genesis
  /\ invalid' = {}
  /\ utxo' = {}
  /\ running' = FALSE
  /\ template' = NoHash
  /\ UNCHANGED disk

(***************************************************************************)
(* Committing what process_block connected.                                *)
(***************************************************************************)

\* The tip was extended: commit_block.
CommitExtension(b) ==
  /\ ConnectBranch(b)
  /\ Disconnected(tip, b) = {}
  /\ disk' = CommitBlock(disk, b)

\* The tip changed branch: apply_reorganization.
CommitReorg(b) ==
  /\ ConnectBranch(b)
  /\ Disconnected(tip, b) # {}
  /\ HasUndo(disk, Disconnected(tip, b))
  /\ disk' = ApplyReorganization(disk, Disconnected(tip, b), Connected(tip, b), b)

\* The database transaction fails: chain_before and utxos_before are put back.
CommitFails(b) ==
  /\ Connects(b)
  /\ UNCHANGED <<nodes, tip, invalid, utxo, disk>>

\* process_block returned without moving the tip: nothing to persist.
KeepTip(b) ==
  /\ \/ FlagChild(b)
     \/ FlagUnauthoritative(b)
     \/ StoreSideBranch(b)
     \/ ArchiveDeepFork(b)
     \/ FlagBranch(b)
     \/ RefuseBlock(b)
  /\ UNCHANGED disk

ProcessAndCommit(b) ==
  \/ KeepTip(b)
  \/ CommitExtension(b)
  \/ CommitReorg(b)
  \/ CommitFails(b)

(***************************************************************************)
(* submit_external_block.                                                  *)
(***************************************************************************)

KnownInvalid(b) == b \in invalid \/ Parent[b] \in invalid

\* Path A: a child of the tip on the live set.
ExtensionVerifies(b) ==
  /\ Parent[b] = tip
  /\ ScriptsVerify(b, utxo)
  /\ RootMatches(b, utxo)

\* Path B, pre_validate_reorg_branch: the branch from the common ancestor to b
\* on the replayed ancestor state.
BranchVerifies(b) ==
  /\ Parent[b] # tip
  /\ Parent[b] \in nodes
  /\ \A a \in Path[tip] \cap Path[Parent[b]] : Applies(a, LedgerBefore(a))
  /\ \A a \in (Path[Parent[b]] \ Path[tip]) \cup {b} :
       ScriptsVerify(a, LedgerBefore(a)) /\ RootMatches(a, LedgerBefore(a))

PreValidated(b) == ExtensionVerifies(b) \/ BranchVerifies(b)

\* Refused before anything else.
SubmitKnownInvalid(b) ==
  /\ running
  /\ KnownInvalid(b)
  /\ UNCHANGED nodeVars

\* Every failure of the pre-validation flags the block.
SubmitUnverified(b) ==
  /\ running
  /\ ~ KnownInvalid(b)
  /\ ~ PreValidated(b)
  /\ invalid' = invalid \cup {b}
  /\ UNCHANGED <<nodes, tip, utxo, running, disk, template>>

SubmitVerified(b) ==
  /\ running
  /\ ~ KnownInvalid(b)
  /\ PreValidated(b)
  /\ ProcessAndCommit(b)
  /\ UNCHANGED <<running, template>>

(***************************************************************************)
(* The mining worker.                                                      *)
(***************************************************************************)

\* build_template makes a block that applies to the tip's state, pays itself
\* the subsidy and the fees and commits to the resulting UTXO set; it looks
\* neither at lock times nor at scripts again.
Templated(b) ==
  /\ Parent[b] = template
  /\ b \in WellFormed
  /\ Applies(b, LedgerBefore(b))
  /\ RewardOk(b)
  /\ RootMatches(b, LedgerBefore(b))

BuildTemplate ==
  /\ running
  /\ template = NoHash
  /\ template' = tip
  /\ UNCHANGED <<nodes, tip, invalid, utxo, running, disk>>

\* A solved block whose parent is still the tip is processed and committed.
MineBlock(b) ==
  /\ running
  /\ template # NoHash
  /\ Templated(b)
  /\ template = tip
  /\ ProcessAndCommit(b)
  /\ template' = NoHash
  /\ UNCHANGED running

\* The tip moved during the search, or the search ended without a solution.
DiscardTemplate ==
  /\ running
  /\ template # NoHash
  /\ template' = NoHash
  /\ UNCHANGED <<nodes, tip, invalid, utxo, running, disk>>

NodeNext ==
  \/ StartFresh
  \/ StartFromDisk
  \/ Stop
  \/ BuildTemplate
  \/ DiscardTemplate
  \/ \E b \in Block : \/ SubmitKnownInvalid(b)
                      \/ SubmitUnverified(b)
                      \/ SubmitVerified(b)
                      \/ MineBlock(b)

NodeSpec == NodeInit /\ [][NodeNext]_nodeVars

(***************************************************************************)
(* Properties.                                                             *)
(***************************************************************************)

\* Types of the process state and the database.
NodeTypeOK ==
  /\ nodes \subseteq Block
  /\ tip \in nodes
  /\ invalid \subseteq Block
  /\ utxo \subseteq OutPoint
  /\ running \in BOOLEAN
  /\ template \in Block \cup {NoHash}
  /\ disk.tip \in Block \cup {NoHash}

\* What a running node believes is what it would find on disk after a crash at
\* this very moment: after every submission, mined block, reorganisation or
\* failed write, the persisted tip is the tip in memory and the persisted blocks
\* are its path, no more and no fewer.
MemoryIsDurable ==
  running => /\ disk.tip = tip
             /\ disk.height = Height[tip]
             /\ disk.blocks = Path[tip]

\* The indexes of the database describe the canonical chain: one block per
\* height, none above the tip, each transaction confirmed in the one canonical
\* block that holds it, and an undo delta for every block that may be undone.
IndexesFollowChain ==
  disk.tip # NoHash =>
    /\ disk.heights = [h \in 0 .. disk.height |->
                          CHOOSE a \in Path[disk.tip] : Height[a] = h]
    /\ DOMAIN disk.confirm = UNION {Txs(a) : a \in Path[disk.tip]}
    /\ \A t \in DOMAIN disk.confirm :
         disk.confirm[t] \in Path[disk.tip] /\ t \in Txs(disk.confirm[t])
    /\ DOMAIN disk.undo = Path[disk.tip]

\* The UTXOS table loses no coin over any sequence of reorganisations, and what
\* it holds beyond the replayed ledger are only outputs that one block both
\* created and spent.
DiskUtxoCovers ==
  disk.tip # NoHash =>
    /\ LedgerAt[disk.tip] \subseteq disk.utxo
    /\ disk.utxo \ LedgerAt[disk.tip] \subseteq UNION {SpentInside(b) : b \in Block}

\* A stopped node can always be started again: whatever it had persisted when it
\* went down, recover() reads it back and replays it without an error.
Restartable == ~ running => disk.tip = NoHash \/ Recoverable

\* The UTXO set in memory is the replay of the canonical path, also after a
\* restart, a storage error or a reorganisation.
NodeUtxoIsReplay == running => utxo = LedgerAt[tip]

\* Only blocks that pass the whole validation reach the database, from peers and
\* from the local miner alike.
PersistedSound == \A a \in disk.blocks : Sound(a)

\* The state in memory of a node that starts, stops, mines and meets storage errors.
NodeConsistent == NodeTypeOK /\ NodeUtxoIsReplay

\* The database and memory agree at every step, the indexes and the UTXOS table follow the
\* chain over any sequence of reorganisations, and nothing unsound is stored.
DurableSound ==
  /\ MemoryIsDurable
  /\ IndexesFollowChain
  /\ DiskUtxoCovers
  /\ PersistedSound

\* The node implements DurableLedger: the head is the persisted tip, the coins
\* are those a running node answers queries from.
HeadBlock == IF disk.tip = NoHash THEN Genesis ELSE disk.tip
Coins == IF running THEN utxo ELSE LedgerAt[HeadBlock]

EligibleBlocks == {b \in Block : \A a \in Path[b] : Sound(a)}

RollbackDepth(t, b) == Cardinality(Disconnected(t, b))

Durable ==
  INSTANCE DurableLedger WITH
    Blocks <- Block, First <- Genesis, Eligible <- EligibleBlocks,
    WorkAt <- CumWork, CoinsAt <- LedgerAt,
    Undone <- RollbackDepth, Limit <- MaxReorgDepth,
    head <- HeadBlock, coins <- Coins

\* Over starts, stops, crashes, storage errors and reorganisations, a reader sees
\* one head that moves only to heavier sound blocks, and its coins with it.
ImplementsDurableLedger == Durable!DurableSpec
=============================================================================
