----------------------------- MODULE IndexedNode -----------------------------
(***************************************************************************)
(* The node of NodeLedger with what hangs on its commits and its UTXO set: *)
(* the address index of the database, the relational index in SQLite       *)
(* (crates/scytale-indexer) and the export and restore of UTXO snapshots.  *)
(*                                                                         *)
(* The address index is written in the database transaction of the block.  *)
(* SQLite is written after it, block by block, still under the chain lock: *)
(* todo holds the blocks to come, and a crash may fall between any two.    *)
(* A restore checks the entries, writes the database and replaces the set  *)
(* in memory in three steps, with no lock held from one to the next; the   *)
(* pool that it empties last is not part of this module.                   *)
(***************************************************************************)
EXTENDS NodeLedger

CONSTANTS
  Address,
  Owner,       \* extract_address_from_locking_condition of an output
  KeyRank,     \* the order of outpoints as keys of the UTXOS table
  ChunkSize,   \* entries in one chunk of an exported snapshot
  LocalOnly,   \* blocks no peer sends
  Offered,     \* snapshots that clients bring along: any entries under any hash
  MaxFaults,   \* bound: ends of the process and SQLite errors
  MaxRequests  \* bound: exports begun and snapshots checked

ASSUME IndexAssumption ==
  /\ Owner \in [OutPoint -> Address]
  /\ KeyRank \in [OutPoint -> Nat]
  /\ \A o, p \in OutPoint : KeyRank[o] = KeyRank[p] => o = p
  /\ ChunkSize \in Nat \ {0}
  /\ LocalOnly \subseteq Block
  /\ \A s \in Offered : s.of \in Block /\ s.entries \subseteq OutPoint

\* Block 0 commits to its own outputs.
ASSUME RootAssumption == UtxoRoot[Genesis] = LedgerAt[Genesis]

VARIABLES
  history,     \* ADDRESS_TX_INDEX: <<address, height>> -> records
  rows,        \* the three tables of indexer.sqlite
  todo,        \* committed blocks that index_block has not seen yet
  catching,    \* todo is the backfill of the start, not of a commit
  lost,        \* history: blocks whose rows are missing and no start will write
  undone,      \* history: blocks that were disconnected
  backup,      \* the snapshot a client of the IPC socket collects
  restoring,   \* the restore under way, the step it has reached and its entries
  stale,       \* history: a restore was not of the tip, and nothing has mended it
  blind,       \* history: the last restore compared its entries with no root
  poisoned,    \* history: an unsound block was connected to a stale set
  basis,       \* the UTXO set the worker's template was built on
  faults,      \* ends of the process and SQLite errors so far
  requests     \* exports begun and snapshots checked so far

indexVars == <<history, rows, todo, catching, lost, undone, faults>>
snapVars  == <<backup, restoring, stale, blind, poisoned, basis, requests>>
allVars   == <<nodeVars, indexVars, snapVars>>

(***************************************************************************)
(* The address index.                                                      *)
(***************************************************************************)

\* Outputs a reader of the TRANSACTIONS table can find.
Findable(d, b) == UNION {Outs[t] : t \in DOMAIN d.confirm \cup Txs(b)}

\* What b adds under each address: one record per input that can be resolved
\* and one per output, data carriers included.
Entries(d, b, adr) ==
  LET mine(S) == {o \in S : Owner[o] = adr}
  IN  UNION {({<<t, "input">>} \X mine(Ins[t] \cap (d.utxo \cup Findable(d, b))))
               \cup ({<<t, "output">>} \X mine(Outs[t])) : t \in Txs(b)}

\* Records are appended to what the key already holds.
AddEntries(h, d, b) ==
  LET new  == {<<adr, Height[b]>> : adr \in {a \in Address : Entries(d, b, a) # {}}}
      at(k) == IF k \in DOMAIN h THEN h[k] ELSE {}
  IN  [k \in DOMAIN h \cup new |->
         IF k \in new THEN at(k) \cup Entries(d, b, k[1]) ELSE h[k]]

\* Mutant of Touched: the addresses that were spent from are left out.
MutTouchedOutputs(d, b) == UNION {{Owner[o] : o \in Outs[t]} : t \in Txs(b)}

\* remove_block_address_records_internal: the addresses b paid or spent from.
Touched(d, b) ==
  UNION {{Owner[o] : o \in Outs[t] \cup (Ins[t] \cap Findable(d, b))} : t \in Txs(b)}

RemoveEntries(h, d, b) == Drop(h, {<<adr, Height[b]>> : adr \in Touched(d, b)})

\* One block of the database transaction: the tables in w.d, the address index in w.h.
EraseIndexed(w, b) == [d |-> EraseBlock(w.d, b), h |-> RemoveEntries(w.h, w.d, b)]
WriteIndexed(w, b) == [d |-> WriteBlock(w.d, b), h |-> AddEntries(w.h, w.d, b)]

\* The address index after the transaction that erases and writes blocks.
HistoryAfter(erased, written) ==
  LET down == FoldLeft(EraseIndexed, [d |-> disk, h |-> history], Reverse(ByHeight(erased)))
  IN  FoldLeft(WriteIndexed, down, ByHeight(written)).h

\* get_address_transactions_with_height, its limit left out
AddressHistory(adr, from, to) ==
  UNION {history[<<adr, h>>] : h \in {i \in from .. to : <<adr, i>> \in DOMAIN history}}

(***************************************************************************)
(* The relational index.                                                   *)
(***************************************************************************)

NoRows == [blocks |-> << >>,    \* index_blocks: height -> block
           txs    |-> << >>,    \* index_transactions: txid -> block
           live   |-> {},       \* index_address_utxos with is_spent = 0
           dead   |-> {}]       \* index_address_utxos with is_spent = 1

\* Mutant of IndexTx: the rows of its inputs stay unspent.
MutMarkNothing(r, t) == [r EXCEPT !.live = @ \cup Outs[t], !.dead = @ \ Outs[t]]

\* One transaction: rows of its inputs are marked, rows of its outputs, data
\* carriers included, are inserted or replaced as unspent.
IndexTx(r, t) ==
  [r EXCEPT !.live = (@ \ Ins[t]) \cup Outs[t],
            !.dead = (@ \cup (Ins[t] \cap r.live)) \ Outs[t]]

\* index_block, one SQLite transaction
IndexRows(r, b) ==
  LET s == FoldLeft(IndexTx, r, Body[b])
  IN  [s EXCEPT !.blocks = Put(@, Height[b], b),
                !.txs    = [t \in DOMAIN @ \cup Txs(b) |-> IF t \in Txs(b) THEN b ELSE @[t]]]

\* get_latest_indexed_height; -1 stands for None
LatestIndexed == IF rows.blocks = << >> THEN -1 ELSE Max(DOMAIN rows.blocks)

\* requires_catchup: an empty index at height 0 is not behind.
RequiresCatchup(h) == IF LatestIndexed = -1 THEN h > 0 ELSE LatestIndexed < h

\* Mutant of Backlog: the backfill starts one block too late.
MutBacklogLate(d) ==
  IF d.tip # NoHash /\ RequiresCatchup(d.height)
  THEN [i \in 1 .. d.height - LatestIndexed - 1 |-> d.heights[LatestIndexed + 1 + i]]
  ELSE << >>

\* The blocks the catch-up of open() and start() walks through, by height.
Backlog(d) ==
  IF d.tip # NoHash /\ RequiresCatchup(d.height)
  THEN [i \in 1 .. d.height - LatestIndexed |-> d.heights[LatestIndexed + i]]
  ELSE << >>

\* get_address_utxos, whose values get_address_balance sums
IndexUtxos(adr) == {o \in rows.live : Owner[o] = adr}

(***************************************************************************)
(* Steps of the node, with what they leave to the indexes.                 *)
(***************************************************************************)

\* The next catch-up will not come across a missing row of b: the table has one
\* at its height or above, or is empty while block 0 is the tip.
Hidden(b) == Height[b] <= LatestIndexed \/ (LatestIndexed = -1 /\ disk.height = 0)

\* No commit is being indexed, so the chain and UTXO locks are free.
Unlocked == todo = << >>

\* What a step of the node adds to the indexes, given the blocks it erased from
\* the database and those it wrote.
Follow ==
  LET erased  == disk.blocks \ disk'.blocks
      written == disk'.blocks \ disk.blocks
      poison  == stale /\ Parent[tip'] = tip /\ ~ Sound(tip')
  IN  /\ history' = HistoryAfter(erased, written)
      /\ todo' = ByHeight(written)
      /\ undone' = undone \cup erased
      /\ stale' = (stale /\ (tip' = tip \/ poison))
      /\ poisoned' = (poisoned \/ poison)

NoBackup  == [of |-> NoHash, next |-> 0, entries |-> {}]
NoRestore == [step |-> "none", entries |-> {}, blind |-> FALSE]

IndexedInit ==
  /\ NodeInit
  /\ history = << >>
  /\ rows = NoRows
  /\ todo = << >>
  /\ catching = FALSE
  /\ lost = {}
  /\ undone = {}
  /\ backup = NoBackup
  /\ restoring = NoRestore
  /\ stale = FALSE
  /\ blind = FALSE
  /\ poisoned = FALSE
  /\ basis = {}
  /\ faults = 0
  /\ requests = 0

OpenFresh ==
  /\ StartFresh
  /\ Follow
  /\ UNCHANGED <<rows, catching, lost, faults, backup, restoring, blind, basis, requests>>

\* open() and start(): the replay, and the backfill of the index.
OpenExisting ==
  /\ StartFromDisk
  /\ todo' = Backlog(disk)
  /\ catching' = (Backlog(disk) # << >>)
  /\ lost' = {b \in lost : Hidden(b)}
  /\ stale' = FALSE
  /\ UNCHANGED <<history, rows, undone, faults, backup, restoring, blind, poisoned, basis, requests>>

\* The process ends, perhaps between a commit and its rows.
Crash ==
  /\ Stop
  /\ todo' = << >>
  /\ catching' = FALSE
  /\ lost' = lost \cup {b \in Range(todo) : Hidden(b)}
  /\ restoring' = NoRestore
  /\ stale' = FALSE
  /\ blind' = FALSE
  /\ basis' = {}
  /\ faults < MaxFaults
  /\ faults' = faults + 1
  /\ UNCHANGED <<history, rows, undone, backup, poisoned, requests>>

\* Blocks come after their parents here; NodeLedger has them in any order.
Receive(b) ==
  /\ Unlocked
  /\ Parent[b] \in nodes
  /\ b \notin LocalOnly
  /\ \/ SubmitKnownInvalid(b)
     \/ SubmitUnverified(b)
     \/ SubmitVerified(b)
  /\ Follow
  /\ UNCHANGED <<rows, catching, lost, faults, backup, restoring, blind, basis, requests>>

\* build_template clones the live UTXO set.
BuildOnLive ==
  /\ Unlocked
  /\ BuildTemplate
  /\ basis' = utxo
  /\ UNCHANGED <<indexVars, backup, restoring, stale, blind, poisoned, requests>>

\* A solved block extends the tip it was built on; its root commits to the set
\* of the template and is compared with the live set.
MineOnBasis(b) ==
  /\ Unlocked
  /\ running
  /\ template # NoHash
  /\ template = tip
  /\ Parent[b] = tip
  /\ b \in WellFormed
  /\ Applies(b, basis)
  /\ RewardOk(b)
  /\ RootMatches(b, basis)
  /\ ProcessAndCommit(b)
  /\ template' = NoHash
  /\ basis' = {}
  /\ Follow
  /\ UNCHANGED <<running, rows, catching, lost, faults, backup, restoring, blind, requests>>

DropTemplate ==
  /\ DiscardTemplate
  /\ basis' = {}
  /\ UNCHANGED <<indexVars, backup, restoring, stale, blind, poisoned, requests>>

\* index_block of the next committed block.
IndexBlock ==
  /\ running
  /\ todo # << >>
  /\ rows' = IndexRows(rows, Head(todo))
  /\ todo' = Tail(todo)
  /\ catching' = (catching /\ Tail(todo) # << >>)
  /\ lost' = lost \ {Head(todo)}
  /\ UNCHANGED <<nodeVars, history, undone, faults, snapVars>>

\* SQLite refuses the rows of a commit: an error is logged.
IndexFails ==
  /\ running
  /\ todo # << >>
  /\ ~ catching
  /\ todo' = Tail(todo)
  /\ lost' = lost \cup {Head(todo)}
  /\ faults < MaxFaults
  /\ faults' = faults + 1
  /\ UNCHANGED <<nodeVars, history, rows, catching, undone, snapVars>>

\* SQLite refuses the rows of a backfill: the start fails.
CatchupFails ==
  /\ catching
  /\ Crash

(***************************************************************************)
(* Snapshots, over the IPC socket.                                         *)
(***************************************************************************)

TableOrder(S) == SetToSortSeq(S, LAMBDA o, p : KeyRank[o] < KeyRank[p])

\* div_ceil, one chunk for an empty table
Chunks(S) == IF S = {} THEN 1 ELSE (Cardinality(S) + ChunkSize - 1) \div ChunkSize

\* Nothing beyond the end of the table.
ChunkOf(S, i) ==
  LET s == TableOrder(S)
  IN  {s[k] : k \in {j \in DOMAIN s : (j - 1) \div ChunkSize = i}}

\* export_snapshot_chunk reads the table as it is now, whichever block the
\* client began with; the client asks for the chunks in turn.
ExportChunk ==
  /\ running
  /\ LET i == backup.next
         first == i = 0
     IN  /\ first => requests < MaxRequests
         /\ requests' = IF first THEN requests + 1 ELSE requests
         /\ backup' = [of      |-> IF first THEN disk.tip ELSE backup.of,
                       next    |-> IF i + 1 >= Chunks(disk.utxo) THEN 0 ELSE i + 1,
                       entries |-> ChunkOf(disk.utxo, i) \cup IF first THEN {} ELSE backup.entries]
  /\ UNCHANGED <<nodeVars, indexVars, restoring, stale, blind, poisoned, basis>>

\* What a client can send: what it brought along, or what it collected here.
Snapshots ==
  Offered \cup {[of |-> b.of, entries |-> b.entries] : b \in {c \in {backup} : c.of # NoHash /\ c.next = 0}}

\* The named block is not in the database, so there is no root to compare with.
Unrooted(s) == s.of \notin disk.blocks

\* Mutant of SnapshotAccepted: the root is not compared with the header.
MutAnySnapshot(s) == Unrooted(s) => Height[tip] = 0

\* The header of the named block commits to the entries; without the block, any
\* entries will do as long as the node is at block 0.
SnapshotAccepted(s) ==
  IF Unrooted(s) THEN Height[tip] = 0 ELSE UtxoRoot[s.of] = s.entries

\* apply_snapshot up to the check; a snapshot that fails it changes nothing.
RestoreCheck(s) ==
  /\ running
  /\ Unlocked
  /\ restoring.step = "none"
  /\ SnapshotAccepted(s)
  /\ requests < MaxRequests
  /\ requests' = requests + 1
  /\ restoring' = [step |-> "checked", entries |-> s.entries, blind |-> Unrooted(s)]
  /\ UNCHANGED <<nodeVars, indexVars, backup, stale, blind, poisoned, basis>>

\* The database transaction of apply_utxo_snapshot, which replaces the table or fails.
\* It waits for no lock of the node.
RestoreDisk ==
  /\ restoring.step = "checked"
  /\ \/ /\ disk' = [disk EXCEPT !.utxo = restoring.entries]
        /\ restoring' = [restoring EXCEPT !.step = "written"]
     \/ /\ disk' = disk
        /\ restoring' = NoRestore
  /\ UNCHANGED <<nodes, tip, invalid, utxo, running, template, indexVars, backup, stale, blind, poisoned, basis, requests>>

\* The set in memory is replaced, under its lock; the tip stays where it is.
RestoreMemory ==
  /\ Unlocked
  /\ restoring.step = "written"
  /\ utxo' = restoring.entries
  /\ stale' = (restoring.entries # LedgerAt[tip])
  /\ blind' = restoring.blind
  /\ restoring' = NoRestore
  /\ UNCHANGED <<nodes, tip, invalid, running, disk, template, indexVars, backup, poisoned, basis, requests>>

IndexedNext ==
  \/ OpenFresh
  \/ OpenExisting
  \/ Crash
  \/ IndexBlock
  \/ IndexFails
  \/ CatchupFails
  \/ ExportChunk
  \/ \E s \in Snapshots : RestoreCheck(s)
  \/ RestoreDisk
  \/ RestoreMemory
  \/ \E b \in Block : Receive(b)

IndexedSpec == IndexedInit /\ [][IndexedNext]_allVars

\* The same node with its mining worker.
WorkingNext ==
  \/ IndexedNext
  \/ BuildOnLive
  \/ DropTemplate
  \/ \E b \in Block : MineOnBasis(b)

WorkingSpec == IndexedInit /\ [][WorkingNext]_allVars

(***************************************************************************)
(* Properties.                                                             *)
(***************************************************************************)

\* Over commits, reorganisations to any height and crashes, ADDRESS_TX_INDEX
\* holds for each address and height exactly what the canonical block at that
\* height paid to it and spent from it, and nothing above the tip; as long as no
\* restore has let in a block that spends coins the chain does not have.
HistoryFollowsChain ==
  disk.tip # NoHash /\ ~ poisoned =>
    /\ \A k \in DOMAIN history : k[2] <= disk.height
    /\ \A adr \in Address, a \in Path[disk.tip] :
         LET mine(S) == {o \in S : Owner[o] = adr}
         IN  AddressHistory(adr, Height[a], Height[a]) =
               UNION {({<<t, "input">>} \X mine(Ins[t])) \cup ({<<t, "output">>} \X mine(Outs[t])) :
                      t \in Txs(a)}

\* When nothing is left to index, every canonical block has its row and its
\* transactions point to it, except blocks whose write failed since the start, and
\* blocks whose write was cut off while they were hidden from the catch-up; again
\* for a node without a block that only a restored set let in.
RowsFollowChain ==
  running /\ Unlocked /\ ~ poisoned =>
    \A a \in Path[tip] \ lost :
      /\ Height[a] \in DOMAIN rows.blocks /\ rows.blocks[Height[a]] = a
      /\ \A t \in Txs(a) : rows.txs[t] = a

\* How far the balances of the index can be off: a coin it shows and the ledger
\* does not have is a data carrier, was made by a block that was disconnected, or
\* was spent by a block without rows; a coin it lacks was spent by a disconnected
\* block or made by a block without rows.  Not so once a restored set has let in a
\* block that the chain alone would refuse.
BalanceDrift ==
  running /\ Unlocked /\ ~ poisoned =>
    \A adr \in Address :
      LET mine == {o \in LedgerAt[tip] : Owner[o] = adr}
      IN  /\ \A o \in IndexUtxos(adr) \ mine :
               \/ o \in OpReturn
               \/ \E b \in undone : o \in Creates(b)
               \/ \E b \in lost : o \in Spends(b)
          /\ \A o \in mine \ IndexUtxos(adr) :
               \/ \E b \in undone : o \in Spends(b)
               \/ \E b \in lost : o \in Creates(b)

\* What a restore can do to a running node, whatever entries a client sends and
\* whichever blocks are committed between its steps.  The set in memory is the one of
\* the tip again as soon as the process restarts, the tip moves to another branch or a
\* sound block extends it.  Entries that were compared with a root are the ledger of
\* some block.  And the database holds only sound blocks, until an unsound one has
\* extended the tip on the restored set.
RestoreContained ==
  /\ running /\ ~ stale => utxo = LedgerAt[tip]
  /\ ~ poisoned =>
       /\ running /\ stale /\ ~ blind => utxo \in {LedgerAt[a] : a \in Block}
       /\ \A a \in disk.blocks : Sound(a)
=============================================================================
