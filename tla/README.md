# A TLA+ model of the Scytale node

This directory models a Scytale node, the Rust program in `crates/` and
`apps/scytale-node`, with the clients that decide something on their own: which
blocks become canonical, what that does to the UTXO set, the database, the indexes
and the pool; what survives crashes, storage errors, reorganisations and lost
messages; how the download, the mining thread, the mining pool, the peer task and
the readers interleave; and what scripts, contracts and wallets make of it. TLC
checks the modules on small instances; TLAPS proves the safety properties of the
chain, the node with its database and indexes, the pool, the headers, the download, the
mining pool and the services for every block tree and every value of the other
constants, except those listed at the end of section 4.

`PROJECT.json` lists, for each definition, the source lines it models, for each run
its properties, and the hazards they are aimed at.

## 1. The system

A node is one process. Its ledger is in three locks (`Shared` in `node.rs`): the
block tree, the UTXO set and the mempool, always taken in this order, and in one
redb database. Blocks come from gossip, from initial block download, from the IPC
socket, from stratum workers and from the local mining thread; all but the last go
through `Node::submit_external_block`.

| Component | State | Operations | Interacts with |
|---|---|---|---|
| Block tree (`consensus/chain.rs`) | `nodes`, `canonical_tip`, `invalid_blocks` | `process_block_with_verifier` | moves the caller's UTXO set; reports disconnected and connected blocks |
| Ledger rules (`core/utxo.rs`, `transaction.rs`) | UTXO set | `apply_block` | tree, node, miner |
| Header rules (`consensus/{target,difficulty,work}.rs`) | none | retarget, compact targets, work, median time | tree |
| Storage (`storage/engine.rs`) | redb tables | `commit_block`, `apply_reorganization`, `apply_utxo_snapshot`, each one transaction | node, under the chain and UTXO locks |
| Node (`node.rs`) | lifecycle, mining handle | `open`, `recover`, `submit_external_block`, mining worker, snapshots | everything |
| Mempool (`mempool/pool.rs`) | entries, spent outpoints, links, bytes | `admit_transaction`, `on_block_connected`, `on_reorg`, selection | node, template builder |
| Mining thread (`node.rs`, `mining/worker.rs`) | cancel flag, handle, template | `start_mining`, `stop_mining`, search, commit | IPC, shutdown, download |
| Block download (`main.rs`, `network/sync.rs`) | `SyncState` | status, headers, blocks | peers, node, mining thread |
| P2P task (`network/p2p.rs`) | known peers, windows, channels | swarm events | inbound task of `main.rs` |
| SQLite indexer (`scytale-indexer`) | rows by height | `index_block`, catch-up | fed after each commit, outside the transaction |
| Stratum (`scytale-stratum`, `stratum_service.rs`) | jobs, sessions, shares, template cache | subscribe, submit, broadcast, ingest | node |
| Scripts (`scytale-script`) | stacks, budget | `execute` | every spend |
| Contracts (`scytale-vm`, `vm_adapter.rs`, `contracts/`) | datums in outputs | validators, fuel, gas | pool and block gate |
| Passbook (`passbook.rs`) | none | statements, journals, provenance | reads tree, UTXO set, pool, database |
| Accounts, CLI, studio | alias store, wallet files | bind, resolve, pay, deploy, call | HTTP gateway |

The hard behaviours: blocks in any order on several branches that each need their own
UTXO set; a branch that fails half-way; a database error after memory has moved; a
crash between two databases; a tip that moves while someone hashes, reads or
broadcasts; one cancel flag shared by all generations of the mining thread; two tasks
joined by bounded channels; requests that are lost or refused; integer boundaries in
targets and work. What makes each component correct is stated with the runs in
section 3.

## 2. Modules

| Module | Models | Notes |
|---|---|---|
| `Ledger` | block tree as constants, UTXO rules, validation verdicts | extended by the chain, pool and passbook modules |
| `ChainTree` | `process_block_with_verifier` | one action per return |
| `Storage` | the redb tables and their write transactions | operators on a database value |
| `NodeLedger` | `recover`, `submit_external_block`, mining commit, errors, crashes | composes `ChainTree` and `Storage` |
| `DurableLedger` | what a reader of the ledger is promised | abstract; `NodeLedger` implements it |
| `IndexedNode` | address index, SQLite index, snapshots | extends `NodeLedger` |
| `Difficulty`, `HeaderChain` | compact targets, retarget, work; header rules along a branch | spells out `GoodHeader` of `Ledger` |
| `Mempool` | pool, its callers, the template filter | on the head and coins of `DurableLedger` |
| `MiningControl` | start, stop, join and the worker's exits, step by step | |
| `BlockSync` | initial block download | extends `MiningControl`, which it pauses |
| `Peers` | peer table, request windows, channels, shutdown | |
| `Stratum` | pool server, broadcaster, ingestion | |
| `ScriptEngine` | the script interpreter | |
| `Contracts` | eUTXO checks, vault, SCY-20, gas | |
| `Passbook` | readers between commits | extends `Ledger` |
| `Wallets` | account numbers, wallet files, payments, studio | |
| `ChainTreeProofs`, `NodeLedgerProofs`, `HeaderPoolProofs`, `BlockSyncProofs`, `StratumProofs`, `ServicesProofs` | theorems about the modules above | section 4 |
| `FoldTheorems` | lemmas: induction on numbers, sums over sets, folds, ranks | |
| `LedgerTheorems` | lemmas about `Ledger`: paths with one block per height, forks, where a coin comes from | |
| `MCUniverse`, `MC*` | instances for TLC | |

How state and code correspond:

- **A block is its hash.** Parent, transactions and every verdict that depends only
  on the block and its ancestors are constants (`Parent`, `Body`, `GoodHeader`,
  `Committed`, `ScriptsOk`, ...). Scripts are run twice, with the height of the tree and
  with the one in the coinbase; both are functions of the block, and `ScriptsOk` is the
  set of those that pass both. A UTXO set is a set of outpoints, because an
  outpoint fixes the output it names; the UTXO root is the set it commits to.
- **Steps.** What runs under a lock from its first check to its end is one action:
  `submit_external_block` and the commit section of the worker hold the chain and UTXO
  locks over the database transaction, and redb transactions are atomic. Where the code
  lets go, the action is cut: the template is built and committed in two steps,
  `stop_mining` takes three, a SQLite row is a step of its own after the commit, a
  restored snapshot is checked, written and put into memory in three steps, a broadcast notifies one session per step,
  every read of a statement and every request of a command is a step.
- **ChainTree.** `FlagChild`, `FlagUnauthoritative`, `StoreSideBranch`,
  `ArchiveDeepFork`, `FlagBranch`, `ConnectBranch` and `RefuseBlock` are the ways
  `process_block_with_verifier` returns; guards repeat the checks in code order.
  `ParentUtxo` is the choice between the live set and a replay.
- **Storage.** A database is a record of tables. `WriteBlock` folds `WriteTx` over the
  transactions, so that the undo delta is what the loop in the code records, outputs
  created and spent in the same block included.
- **NodeLedger.** `CommitFails` is the restored clone after a storage error; it is
  enabled whenever a write could happen. After one, the mining thread ends; the model
  lets it build another template, which allows more behaviours and loses none.
- **IndexedNode.** `todo` holds the blocks whose rows are still to be written; the
  chain lock is held until it is empty. `lost` and `undone` are history. A client may hand
  in what it exported or any entries under any hash (`Offered`); `blind` is a restore whose
  entries were compared with no root, as at height 0 for an unknown block, and `poisoned`
  the history that an unsound block extended the tip on a restored set. The pool that a
  restore empties, and entries that repeat an outpoint or give it another value, are left
  out. The mining worker is in `WorkingSpec` only, where `basis` is the set a template was
  built on.
- **Mempool.** `entries` and `priority_index` change together and are one set; the two
  dependency maps are kept apart, as the code updates them in different places.
- **HeaderChain.** Base and length of numbers are constants: 256 and 32 in the code,
  4 and 5 in the instance. The clock moves forward, up to `MaxTime`.
- **BlockSync.** The peers run the same code and answer from a fixed chain. `causes`
  records why a chain of requests broke. `batch` is the answer being submitted: each block
  is compared with the tip in one step and submitted in another, and the worker or a
  client may move the tip in between. Blocks weigh the same, so the heavier branch
  is the longer one; validation is `NodeLedger`'s.
- **Stratum.** A hash is the list of what was hashed, so that equal lists are equal
  hashes. `inflight` is a submission between finding its job and recording its share. How
  good a header is depends on the share and on the worker's time (`Grade`): the pool takes
  a hash that meets the target in either order of its bytes and any time, the node one
  order, the times in `GoodTime` and the target of the next height (`HeaderAccepted`).
  After a line that cannot be read the session stays in the map (`Abandon`).
- **Peers.** The two tasks and the three channels between them: messages to the inbound
  task, its answers and its own requests to peers. Each can be full.
- **ScriptEngine.** Scripts are sequences of bytes; one action per kind of instruction.
  Widths of keys, signatures and integers are constants; digest and signature are
  given by `Blake3` and `Signed`.
- **Passbook.** Each read of a statement, a view or a lineage is a step, and blocks are
  committed in between, to the database first and then to memory. The tree accepts only
  sound tips (`SoundTip`, which `ChainTreeProofs` shows of the tree), and
  `validate_stateless` only transactions that have inputs. Leaves are listed in the order
  of outpoints and hashed pairwise; a hash is the term that was hashed.
  The pool keeps its links (`links`), and `chained` is the history of transactions that a
  reorganisation left in it next to the transaction they spend from.
- **Contracts.** Bytecode is given by what it computes and by its fuel. One token id and a
  clock that does not go back. Wallets sign transactions on what is or may become an
  output, peers and clients pass them on in any order, and anyone may make a datum, a
  second registry too. `Reorganise` undoes blocks and connects one more; `on_reorg`
  readmits what they held with a verifier that lets every contract pass (`readmitted`).
- **Wallets.** A key stands for its address and passbook; PINs are right and signatures
  verify. The UTXO list keeps its order until the next block, as the `HashMap` of the
  node does; `at` is the number of outputs confirmed
  when a command listed them, which every block raises. The command line reads no
  file of the studio, in which the field `address` is there twice under its two names.

## 3. Runs

| Run | Instance | Shows |
|---|---|---|
| `chain_tree` | 14 blocks, two honest branches and four kinds of fault, depth limit 1, any order and repetition; 2,159 states | the tree, its flags, tip and UTXO set agree; the supply is not inflated; the tip is heaviest within reach |
| `node_ledger` | 7 blocks, a branch with fewer but heavier blocks; 1,245 states | memory against database over errors, crashes and restarts; `DurableLedger` |
| `headers_pool` | `HeaderChain`: up to 5 headers, epoch 2, clamp 2, five 2-bit bytes; `Mempool`: two branches of three blocks, 8 payments, 3 entries or 4 units; 8,158 states | targets, time and work; pool indexes, limits, templates |
| `block_sync` | two peers (one on a fork, one with a stale advertised height), one gossiped and one mined block, three callers of start and stop, batches of two, two requests per window, one loss; 349,134 states | no thread lost, stop returns, a download ends at its peers' height |
| `indexed_node` | 6 blocks, a heavier branch of one block, a block on a forged snapshot, two addresses, two faults, two exports or restores, three of these in all; 48,881 states | both indexes, and restores of honest and forged snapshots among peers' blocks |
| `stratum` | two connections one after the other, window and cache of one job, three tips, two times and both byte orders; 2,229,424 states | credit, memory, notification, candidates, progress |
| `services` | the five modules `ScriptEngine`, `Contracts`, `Passbook`, `Peers`, `Wallets` side by side, of which a behaviour runs one; 1,829,750 states | see below |
| `orphan_flagged`, `retarget_stall`, `sync_stall`, `candidates`, `snapshot_poison` | as above | disagreements, section 5 |

What `services` shows:

- scripts: the budget bounds the stack (`StackWithinBudget`), branches follow
  instructions and not data (`StructureFollowed`), a locking condition opens only to
  those it names, from their height on (`SpendAuthorized`);
- contracts: what a validator of the token lets through makes as much in tokens and further
  registries as it spends (`TokensKept`); no pending transaction is one its contracts have
  not agreed to, although a reorganisation readmits without asking them: they agree from
  the opening of the vaults on, and from now on unless it came back from a block with a
  later date (`PendingAllowed`);
- passbook: a verified statement with a proof states the balance of the block it names
  (`StatementBinds`), journals are complete and list nothing twice (`JournalExact`),
  lineages end at an issuance (`LineageToIssuance`), each although blocks come in
  between the reads; the last two as long as none of them is a reorganisation. A journal
  may list twice what an *earlier* reorganisation left in the pool: after a reorganisation
  away and back, a confirmed child stays pending beside its confirmed parent, because
  `on_block_connected` hears of the last block alone and takes a pending maker for a source
  (`pool.rs:443`);
- peers: the rate holds over reconnects (`RateKept`); a shutdown ends the task also when
  the two tasks wait for each other (`StopEnds`);
- wallets: the alias store opens after any crash (`StoreOpens`), a number saved by the
  command line is its owner's (`NumberHolds`), a payment run again is refused until a
  block comes in between (`RerunRefused`).

The bounds. In `chain_tree` every pair of fault and position that the code tells apart
occurs: a script failure and a wrong root under a good child, a coinbase that takes too
much, a double spend, a transaction on both branches, an output created and spent in
one block, a data carrier, a fork at the depth limit and beyond it, a halving.
`node_ledger` and `indexed_node` need a reorganisation to a lower height and one back,
which leaves rows above the tip. Three epochs in `HeaderChain` bring the target to the
cap and to both ends of the clamp. The pool is small enough that admission evicts, and
its blocks confirm a parent without its child. In `block_sync` a batch of two blocks
makes a download of one or two rounds and a worker's block fall into the middle of a batch;
two requests per window make the peer refuse the third, and every cause of a broken download occurs. In that run IPC can stop mining
or start it when it runs already; a third worker thread is out of its bounds. Three
tips in `stratum` evict a job from window and cache. A script of up to three pieces is
tried on four locks at both sides of a lock height. In `Contracts` two transactions
(`MaxSigned`) of up to two inputs and two outputs, made for one key (`Payee`), are enough for
a child on a second registry; a transaction that its contracts refuse at all times is
signed alone; chains of up to three blocks (`MaxHeight`) are undone to any depth. In
`Passbook` a payment spends from another, the branches are three blocks each, so that the
node goes away and comes back, and a statement and a lineage are not read at once
(`OneReader`; they change nothing). In `Peers` channels of one message can fill, and two events fall within
or beyond a second. In `Wallets` two keys share both candidates, so registrations
collide, and two sessions race. No symmetry is used: liveness is checked in two of the
large runs, and in the others the elements differ.

Deadlock is not checked where a bound or a shutdown ends a behaviour: `headers_pool`,
`block_sync`, `indexed_node` (its bounds end exports and restores), `stratum`, `services`.

Fairness. In `BlockSync`: the worker thread and the callers of `stop_mining` are
scheduled and a search ends after a bounded number of nonces; the inbound task handles
what is in its channel; a peer answers a request that reached it, possibly with an
empty list. Nothing is assumed of the network's losses, which are bounded by `MaxLost`,
nor that a window slides. In `Stratum`: the ticker of the broadcaster ticks and a tick
runs to its end, and not every attempt at a template fails (strong fairness of
`BuildTemplate`, as a template applies by `TemplateApplies` and fails only for a passing
error). The other models answer calls and messages and need none.

## 4. Theorems

`PROJECT.json` lists them. In each proof module an inductive invariant comes first, then
one lemma per operation that keeps it, then the theorems.

**ChainTreeProofs**: for every finite block tree, every verdict and every depth limit,
`ChainConsistent` (types, `PathsStored`, `TipIsLeaf`, `UtxoIsReplay`, `StoredReplays`,
`CanonicalSound`), `FlagsJustified`, `HeaviestWithinReach`, `NoInflation`.
The inductive invariant is `TreeIInv`. `UtxoIsReplay` alone is not inductive: that the
staged set of a new branch is the replay needs every stored path to replay
(`StoredReplays`) and to be stored (`StoredShape`), and that a connected branch never
starts above the tip needs `TipIsLeaf`. `HeaviestWithinReach` adds that a block out of
reach of the tip stays out of reach when the tip advances (`StaysOutOfReach`), an
argument about cardinalities of path differences that holds when all blocks weigh the
same; with retargets it may fail, as a branch refused for its depth can come within
reach by the tip moving to a third branch. `NoInflation` follows from the soundness of
the canonical blocks: along the path, the value of the coins grows by no more than the
subsidy, whatever order a block creates and spends them in.

**NodeLedgerProofs**: `NodeConsistent`, `ImplementsDurableLedger`, `Restartable`,
`DurableSound`. With `NodeIInv` (a running node has `TreeIInv` and its persisted tip is
its tip; a stopped node's persisted path is sound) each action is a step of
`DurableLedger` or leaves head and coins alone. `DiskIInv` says of each table what the
canonical path makes it (`Describes`).
Undoing the old branch and applying the new one is a fold of table writes; that it ends
at the new tip's tables goes by induction on the number of blocks. What the index of
confirmations holds is right only if no transaction is in two blocks of one path
(`DistinctTxs`, a hypothesis of `DatabaseAlwaysSound`): nothing in the code makes a
coinbase differ from an earlier one whose outputs are spent. The part that does not need
it is `DatabaseFollowsNode`.

The node with its indexes (`IndexedSpec`: blocks of peers, crashes, SQLite errors, exports
and restores): `RestoreContained`, `RowsFollowChain`, `BalanceDrift`,
`HistoryFollowsChain`. After a restore the UTXO set may be any, so that `TreeIInv` no longer
holds; what the indexes need of the tree and does not mention the set is `TreeShape`, and
`IndexedShape` is that with the tables of the database. An unsound block may be committed on
such a set; the properties of the indexes and what follows is about nodes to which that has
not happened (`~ poisoned`). What `RestoreContained` says of all of them, that the set is the
tip's again after a restart, a reorganisation or a sound block, is `MendedIInv`: connecting on
another branch and restarting both replay. Four invariants are built on `IndexedShape`:

- `RestoreIInv`: the set in memory, and one being restored, is the ledger of a block unless
  it was compared with no root (`blind`), and that of the tip unless `stale`;
- `RowsIInv`: what is still to be indexed is the top of the canonical path (`Pending`), and
  every canonical block has its rows, is lost, or is among those the running node, or the
  catch-up of its next start, comes to (`Due`). A reorganisation to a lower height leaves
  rows above the tip, which is what `lost` and `Hidden` are about;
- `DriftIInv`: rows and ledger of the persisted tip differ by what disconnected and
  unindexed blocks made and spent. A step moves the ledger by one branch down and one up
  (`LedgerMoves`); rows of a block are marked and replaced transaction by transaction, in
  an order in which no output is spent before it is made (`SoundOrder`);
- `HistoryIInv`: the address index *is* the function that the persisted path determines
  (`HistoryOf`). Erasing the old branch from the top down and writing the new one from the
  bottom up are folds over tables and index together; each block's step finds the owners of
  its inputs in the tables of the moment (`Resolved`), those created in the same block
  included.

**HeaderPoolProofs**, headers: `BranchLawful`, and that the long division of `block_work`
is the quotient. `HeaderIInv` adds rising times and positive targets, without which the
median and the retarget are not bounded. Pool: `PoolConsistent`,
`ExtensionPurgesConflicts`, `TemplateApplies`. `PoolIInv` says that the four maps are
determined by the entries (`Indexed`, `Mirrored`), that the limits hold (`PoolLimited`)
and that the chain below is sound. Removal with descendants is shown to leave a set that
is closed under links (`ReachClosed`); the eviction loop, the readmissions of a
reorganisation and the two loops of the template are folds, followed one call at a time
(`CallStates`). That a connected block leaves no conflict rests on every coin's maker
being on the chain or in the block (`CoinOrigin`). That a template applies rests on the
same fact and on spent coins never coming back (`SpentGone`), so that no chosen
transaction is on the chain already; it has the hypothesis `DistinctTxs` too.

**BlockSyncProofs**: `NoWorkerLost` with `MiningIInv` (a caller holds a handle only while
it joins), `DownloadReachesPeers` with `SyncIInv` (what a peer announced is in the
channel, covered by the target, or reached), for any number of callers, workers and
peers and any losses.

**StratumProofs**: `CreditOnce`, `ShareMemoryBounded`, `WorkersOnCurrentJob`,
`ZeroNonceConnects`, the last for candidates with a header the node accepts. `StratumIInv`: job numbers only grow and enter the window once, so
that what the pruning of `submitted_shares` forgets cannot be credited again
(`CreditMemory`); at most one stray is left per session (`StraysBounded`); every worker
not on the current job is still to be notified (`NotifyProgress`). `CandidateIInv` adds
that a cached job carries the root of the coinbase with extranonce zero.

**ServicesProofs**: `StackWithinBudget` (`ScriptIInv`: two items per unit spent),
`StructureFollowed` (`StructureIInv`; `BeginsApart`: no instruction of a script begins
inside another, so that each step passes exactly one), `SpendAuthorized` for the lock of
wallets and miners (`KeyIInv`: no instruction computes an item as long as a signature, so
what verifies was pushed by the unlocking script (`PushedOnly`); and, instruction by
instruction, what the lock has made of whatever stack it was handed (`KeyShape`)),
`TokensKept` and `PendingAllowed` (`ContractIInv`: all that the chain or the pool holds was
agreed to once, and only a vault looks at the time, so that it is agreed to whenever the
vaults are open; nothing else brings a transaction back than a block that held it),
`RateKept` (`RateIInv`: a window is the end of the history of grants, and what it dropped
is a second old), `StoreOpens` (`StoreIInv`: both indexes of the alias store are inverse
to each other, in memory and in the file), `NumberHolds` (`UsersIInv`: what a file, a
command or a transaction says of a number is bound in the store) and `RerunRefused`
(`RerunIInv`: a pending payment of the command line spends the first output it was told
of; between two blocks the list is one, and no two pending transactions spend the same
output).
The passbook: `StatementBinds` (`StatementIInv`: the root that was read is that of the block
that was read, the proofs are against one set; two sorted lists of leaves with the same
Merkle root are the same list, so a proof that fits the root proves the set of that block,
though the reads were of different tips), `LineageToIssuance` (`LineageIInv`: a transaction
found on a sound chain has its first input made on the same chain) and `JournalExact`
(`JournalIInv`: while no reorganisation comes, what was read is the view at one block that
stays on both chains; a commit that is no reorganisation connects one block, and of the
chain in memory the pool has only what an earlier one left beside its maker).

The assumptions are in the modules that declare the constants and TLC evaluates them on
each instance. Hash links form a finite tree rooted at block 0 (`TreeAssumption`), a body
starts with a coinbase (`TransactionAssumption`), values are numbers and outputs finitely
many (`ValueAssumption`), block 0 applies to the empty set (`GenesisAssumption`), and the
functions defined by recursion along the tree satisfy their equations
(`RecursionAssumption`, `HeightAssumption`: without collisions hash links cannot form a
cycle). `SizeAssumption` has the epoch's time divisible by the clamp, as 86,400 seconds
are by 4; `PoolAssumption` that an outpoint names the transaction that makes it, that fee
rates do not tie (the code breaks ties by time and id) and that nothing unlocks a data
carrier (`script/engine.rs:209`). `BookAssumption` has outpoints name their transaction and
ordered, and block 0 commit to its own outputs (`RootAssumption` of `IndexedNode` says the
same). `LocalOnly` are blocks that no peer sends; the instance of `indexed_node` has none, and
there a peer sends a block that fits the forged snapshot. The others give the types of the constants and that
limits are positive. A hash collision or a block with two bodies is outside the model.

Hypotheses of single theorems: `DistinctTxs` (see above) of `DatabaseAlwaysSound`, the
template, the journal and the three theorems on the indexes' contents; `OwnOutputs` (an
outpoint is made by one transaction only) of `DriftAlwaysBounded`; and, of
`KeyLockAuthorizes`, `Widths`: integers, digests, keys and signatures have lengths that
tell signatures apart, as 8, 32, 32 and 64 bytes do. The instance of `services` has shorter
ones, for which an integer is as long as a signature; there TLC checks the property itself.

The provers have no induction principle. `FoldTheorems` derives one from the library's
theorem that a non-empty set of naturals has a least element, for sets of numbers given
in advance (`OneByOne`, `SmallerFirst`), and with it what the models fold and sum.

Only model-checked:

- `DownloadEnds`, `StopReturns`, `JobFollowsTip`: liveness; `StopEnds`: `ENABLED`;
- `ArithmeticExact`: its part on compact targets (`CompactRoundsDown`) needs powers of a
  variable base, which the provers do not compute with; the part on work is a theorem;
- `SpendAuthorized` for locks other than that of a key: it is about the conditions given in
  `Ways`, and of an arbitrary one it says nothing;
- `IndexedNode` with its mining worker (`WorkingSpec`): there a block
  mined on a restored set gets into the database, the finding of `snapshot_poison`.

## 5. Disagreements between the code and what is said of it

With a run that shows them:

- **Orphans** (`orphan_flagged`): a sound block received before its parent is marked
  invalid for good, because every failure of the pre-validation is.
- **Retarget** (`retarget_stall`): the required target is not rounded to the compact
  form, so that after most epochs no header can carry it.
- **Download** (`sync_stall`): a peer answers five requests a second and then sends empty
  lists; the download does not pause and does not ask again, and stays in `Syncing`.
- **Block found** (`candidates`): the UTXO root of a job is right for extranonce2 = 0 only,
  and its Merkle branch for at most one transaction; other candidates are credited and
  refused.
- **Snapshots** (`snapshot_poison`): the set of any block in the database is accepted for
  the current tip, and at height 0 any entries for an unknown block; a block mined on them
  is committed and the node does not start again.

Stated in the modules and refuted by TLC when checked, without a run of their own:
`SmallestHashWinsTie` (`MCChainTree`; `docs/protocol/consensus.md:44` breaks ties by
hash, the code keeps the branch seen first), `DiskUtxoIsReplay` (`MCNodeLedger`; outputs
a block creates and spends come back to the `UTXOS` table when it is undone),
`NotHeldByConfirmed` (`Mempool`; a child whose parent was confirmed alone is never
selected), `PendingInputsExist` (`Mempool`; a child outlives a parent that a
reorganisation returned to the pool), `ShownNumbersHold` (`Wallets`; the studio stores a
number it never registered, `commands.rs:187`).

Met while modelling, part of the models, with no property against them:

- indexer: blocks that crash between commit and rows at height 0 never get rows; a
  reorganisation never un-indexes; data carriers are shown as unspent;
- stratum: extranonce1 is the same for all sessions; a header meets the target if its
  hash does in either byte order, and its time is not looked at; clearing the cache may drop
  the job being mined; a session whose line cannot be read is never removed and keeps
  counting towards `MAX_WORKER_SESSIONS` (`server.rs:199`);
- contracts: a registry decodes as a token too, so that minting and burning move the
  registry's supply and no tokens; only the first registry of a transaction is compared with
  its successor, so that one anyone has made next to it turns into tokens; templates ignore gas, and a template over the limit is
  refused again and again;
- passbook: a confirmed transaction may stay pending beside its maker after a
  reorganisation away and back, and is listed twice; a statement without proofs verifies whatever it says; its balance is over all
  addresses of an account and its proofs over one; pending entries come first although
  `passbook.rs:106` says last; an index cut at 100 records shows the oldest;
- wallets: a lost answer leaves a number bound that no wallet shows; `embed-data` and `contract
  deploy` fail for the wallets that `wallet new` makes (`README.md:302`, `:322` show them
  together); an output list cut at the gateway's limit hides coins; change below the dust
  limit makes a payment fail.

## 6. Not modelled, and what is left

Not modelled: byte encodings and hashing, Wasm execution, signatures and key encryption
(verdicts or terms here), libp2p, JSON and HTTP framing, formatting commands and queries,
the bridge, the SDK, the explorer. `unwind_block`, `replace_utxo_set` and
`Mempool::insert` are called by tests only. Hazards without a property: two bodies for one
header, a clock set back before a restart, a template refused for gas. Of some the property
tells only that nothing else goes wrong, because the code does not rule them out: a start
that clears the flag of a stop under way (`StopReturns` excuses it by `overtaken`), a
reorganisation between two reads of a lineage (`LineageToIssuance`, by `calm`), two tasks
that wait for each other until a shutdown (`StopEnds`), and the unregistered numbers of the
studio (`NumberHolds` is about files of the command line; `ShownNumbersHold` fails).

What would come next: `GoodHeader` by the clock in `NodeLedger`, so that `Restartable`
covers a clock set back; the worker of `MiningControl` in place of the free template of
`NodeLedger`; and the mining worker in the theorems about the indexes, for a node that
restores no snapshot.
