------------------------------ MODULE Passbook ------------------------------
(***************************************************************************)
(* apps/scytale-node/src/passbook.rs: the read-only projections an account *)
(* asks for while blocks arrive.  No reader holds a lock over two reads:   *)
(* every read of the chain, the UTXO set, the pool or the database is a    *)
(* step, and a commit may fall between any two.  A commit holds the locks  *)
(* of the chain and of the UTXO set from before its database transaction   *)
(* until after the pool is told, so that readers of the database and of    *)
(* the pool see its halves.                                                *)
(*                                                                         *)
(* Hashes are terms: equal exactly when what was hashed is.  Amounts and   *)
(* fees of journal entries are functions of the transaction and left out.  *)
(***************************************************************************)
EXTENDS Ledger, SequencesExt

CONSTANTS
  Account,      \* the address the passbook is of
  OwnerOf,      \* extract_address_from_locking_condition of an output
  LockOf,       \* parse_locking_condition: "standard", "scy20", "vault" or "script"
  TokenAmount,  \* the amount in the datum of a "scy20" output
  OrderOf,      \* the order of outpoints by txid and index
  FirstInput,   \* the outpoint in the first input of a transaction
  IndexLimit    \* records the address index is asked for: 100 in the code

VARIABLES
  disk,     \* canonical tip of the database
  memory,   \* canonical tip of the chain tree, with its UTXO set
  waiting,  \* transactions of the pool
  links,    \* parent_to_children of the pool, as <<parent, child>> pairs
  reader,   \* the statement being put together
  trace,    \* the lineage being followed
  calm,     \* history: who saw no reorganization since the first read
  chained   \* history: what a reorganization left in the pool together with its maker

bookVars == <<disk, memory, waiting, links, reader, trace, calm, chained>>

(***************************************************************************)
(* The Merkle tree over a UTXO set.                                        *)
(***************************************************************************)

\* compute_utxo_leaf: an outpoint fixes the output it names.
Leaf(o) == <<"leaf", o>>
Pair(l, r) == <<"node", l, r>>

\* The members of S by their key, the least first.
InOrder(S, key) ==
  LET list[n \in 0 .. Cardinality(S)] ==
        IF n = 0 THEN << >>
        ELSE LET prev == list[n - 1]
                 rest == S \ Range(prev)
             IN  Append(prev, CHOOSE x \in rest : \A y \in rest : key[x] <= key[y])
  IN  list[Cardinality(S)]

Sorted(S) == InOrder(S, OrderOf)
Leaves(S) == [i \in 1 .. Cardinality(S) |-> Leaf(Sorted(S)[i])]

\* An odd level repeats its last hash.
Evened(s) == IF Len(s) % 2 = 1 THEN Append(s, Last(s)) ELSE s

\* The next level up
Merged(s) ==
  LET e == Evened(s)
  IN  [i \in 1 .. Len(e) \div 2 |-> Pair(e[2 * i - 1], e[2 * i])]

\* The levels of the tree over s, from the leaves up.
Levels(s) ==
  LET up[k \in 0 .. Len(s)] == IF k = 0 THEN s ELSE Merged(up[k - 1])
  IN  up

\* The level on which one hash is left.
Depth(s) == Min({k \in 0 .. Len(s) : Len(Levels(s)[k]) = 1})

\* compute_utxo_merkle_root
MerkleRoot(s) == IF s = << >> THEN <<"zero">> ELSE Levels(s)[Depth(s)][1]

\* Where the hashes above the leaf at i are on their levels.
Places(i, depth) ==
  LET at[k \in 0 .. depth] == IF k = 0 THEN i ELSE (at[k - 1] + 1) \div 2
  IN  at

\* The sibling of the hash at i of a level, and on which side it is.
Sibling(level, i) ==
  [hash |-> Evened(level)[IF i % 2 = 1 THEN i + 1 ELSE i - 1], right |-> i % 2 = 1]

\* The audit path of the leaf at i: a sibling on each level.
AuditPath(s, i) ==
  LET depth == Depth(s)
  IN  [k \in 1 .. depth |-> Sibling(Levels(s)[k - 1], Places(i, depth)[k - 1])]

\* generate_utxo_merkle_proof
MerkleProof(S, o) ==
  [op |-> o, value |-> Value[o], path |-> AuditPath(Leaves(S), CHOOSE i \in 1 .. Cardinality(S) : Sorted(S)[i] = o)]

\* UtxoMerkleProof::verify
ProofVerifies(p, root) ==
  LET hash[k \in 0 .. Len(p.path)] ==
        IF k = 0 THEN Leaf(p.op)
        ELSE IF p.path[k].right THEN Pair(hash[k - 1], p.path[k].hash)
                                ELSE Pair(p.path[k].hash, hash[k - 1])
  IN  hash[Len(p.path)] = root

(***************************************************************************)
(* Balances.                                                               *)
(***************************************************************************)

Owns(o) == OwnerOf[o] = Account
OwnedIn(S) == {o \in S : Owns(o)}

\* What generate_statement proves and sum_native_owned adds up.
NativeOwned(S) == {o \in OwnedIn(S) : LockOf[o] # "scy20"}

SumNativeOwned(S) == Quanta(NativeOwned(S))

SumTokenOwned(S) == MapThenSumSet(LAMBDA o : TokenAmount[o], OwnedIn(S) \ NativeOwned(S))

\* pending_delta: inputs count when the UTXO set that was read has them.
PendingDelta(S, txs) ==
  MapThenSumSet(LAMBDA t : SumNativeOwned(Outs[t]) - SumNativeOwned(Ins[t] \cap S), txs)

\* Mutant of VerifyIntegrity: proofs and total are not compared.
MutNoTotal(s) == \A p \in s.proofs : ProofVerifies(p, s.root)

\* PassbookStatement::verify_integrity
VerifyIntegrity(s) ==
  /\ \A p \in s.proofs : ProofVerifies(p, s.root)
  /\ MapThenSumSet(LAMBDA p : p.value, s.proofs) = s.balance

(***************************************************************************)
(* The journal.                                                            *)
(***************************************************************************)

\* What the database finds when its tip is d.
Stored(d) == UNION {Range(Body[b]) : b \in Path[d]}

IsCoinbase(t) == \E b \in Block : Body[b][1] = t

\* The action shown for an output; inputs says that the account funds the transaction.
ActionOf(t, o, inputs, confirmed) ==
  CASE LockOf[o] = "scy20" ->
         IF (IF confirmed THEN IsCoinbase(t) ELSE ~ inputs) THEN "mint" ELSE "transfer"
    [] LockOf[o] = "vault"  -> "deposit"
    [] LockOf[o] = "script" -> "contract"
    [] OTHER -> CASE confirmed /\ IsCoinbase(t) -> "reward"
                  [] inputs -> "change"
                  [] OTHER  -> "received"

Entry(t, o, h, action) == [tx |-> t, op |-> o, height |-> h, action |-> action]

\* block_height of a pending entry: None, which sorts before every height.
Pending == 0 - 1

\* One entry per output of the account; a single one when it only pays.
EntriesOf(t, h, inputs) ==
  IF OwnedIn(Outs[t]) = {}
  THEN IF inputs THEN {Entry(t, << >>, h, "sent")} ELSE {}
  ELSE {Entry(t, o, h, ActionOf(t, o, inputs, h # Pending)) : o \in OwnedIn(Outs[t])}

\* The oldest records of the account at some heights: transactions that pay it or spend from it.
RecordsAt(d, heights) ==
  LET found == UNION {{<<Height[b], t>> : t \in Range(Body[b])} : b \in {a \in Path[d] : Height[a] \in heights}}
      mine  == {r \in found : OwnedIn(Ins[r[2]] \cup Outs[r[2]]) # {}}
      seq   == InOrder(mine, [r \in mine |-> r[1]])
  IN  SubSeq(seq, 1, Min({Len(seq), IndexLimit}))

\* Mutant of AddressRecords: whatever height the database has by now.
MutAllHeights(d, to) == RecordsAt(d, 0 .. Height[d])

\* get_address_transactions_with_height
AddressRecords(d, to) == RecordsAt(d, 0 .. to)

\* project_confirmed_history_via_index: records whose transaction is still found.
ConfirmedEntries(records, d) ==
  UNION {EntriesOf(r[2], r[1], OwnedIn(Ins[r[2]]) # {}) : r \in {q \in Range(records) : q[2] \in Stored(d)}}

\* project_pending_entries
PendingEntries(S, txs) == UNION {EntriesOf(t, Pending, OwnedIn(Ins[t] \cap S) # {}) : t \in txs}

\* assign_entry_numbers
Numbered(entries) == InOrder(entries, [e \in entries |-> e.height])

(***************************************************************************)
(* Blocks and transactions arriving.                                       *)
(***************************************************************************)

Locked == disk # memory

\* A statement of which nothing is read yet.
NewStatement ==
  [pc |-> "idle", height |-> 0, block |-> NoHash, root |-> << >>, proofs |-> {}, seen |-> {},
   balance |-> 0, tokens |-> 0, to |-> 0, pending |-> {}, records |-> << >>, entries |-> << >>,
   delta |-> 0]

BookInit ==
  /\ disk = Genesis /\ memory = Genesis
  /\ waiting = {} /\ links = {}
  /\ reader = NewStatement
  /\ trace = [pc |-> "idle"]
  /\ calm = {} /\ chained = {}

\* submit_transaction needs the UTXO set, so no commit is under way.
Arrive(t) ==
  /\ ~ Locked
  /\ ~ IsCoinbase(t) /\ Stateless(t) /\ Ins[t] \subseteq LedgerAt[memory]
  /\ \A u \in waiting : Ins[t] \cap Ins[u] = {}
  /\ waiting' = waiting \cup {t}
  /\ UNCHANGED <<disk, memory, links, reader, trace, calm, chained>>

\* The tips the chain tree accepts: their branch is sound (CanonicalSound of ChainTree).
SoundTip == {b \in Block : \A a \in Path[b] : Sound(a)}

\* The database transaction of submit_external_block.  A block on top of the tip is heavier than
\* the tip, so that several blocks are connected at once by a reorganization only.
CommitDisk(b) ==
  /\ ~ Locked
  /\ b \in SoundTip
  /\ CumWork[b] > CumWork[memory]
  /\ memory \in Path[b] => Parent[b] = memory
  /\ disk' = b
  /\ calm' = IF disk \in Path[b] THEN calm ELSE {}
  /\ UNCHANGED <<memory, waiting, links, reader, trace, chained>>

\* The blocks of the chain to c that are not on the chain to d, from the tip down.
Undone(c, d) ==
  LET n == Cardinality(Path[c] \ Path[d])
  IN  [i \in 1 .. n |-> CHOOSE b \in Path[c] : Height[b] = Height[c] + 1 - i]

\* admit_transaction, for a transaction of a block undone
Return(pool, t, d) ==
  LET makers == {o[1] : o \in Ins[t] \ LedgerAt[d]}
  IN  IF \/ IsCoinbase(t) \/ t \in Stored(d) \cup pool.txs
         \/ \E u \in pool.txs : Ins[t] \cap Ins[u] # {}
         \/ ~ makers \subseteq pool.txs
      THEN pool
      ELSE [txs |-> pool.txs \cup {t}, links |-> pool.links \cup {<<m, t>> : m \in makers}]

\* on_reorg, if blocks are undone
PoolBack ==
  LET pool == [txs |-> waiting, links |-> links]
      back == FlattenSeq([i \in DOMAIN Undone(memory, disk) |-> Body[Undone(memory, disk)[i]]])
  IN  IF memory \in Path[disk] THEN pool ELSE FoldLeft(LAMBDA p, t : Return(p, t, disk), pool, back)

\* What depends on S by the links, in a pool of n transactions
Dependents(pairs, S, n) ==
  LET grow[k \in 0 .. n] ==
        IF k = 0 THEN S ELSE grow[k - 1] \cup {x[2] : x \in {y \in pairs : y[1] \in grow[k - 1]}}
  IN  grow[n]

\* The pool is told and the locks fall: on_reorg, then on_block_connected of the last block,
\* which keeps a transaction whose inputs are in the UTXO set or made by another in the pool.
CommitMemory ==
  /\ Locked
  /\ memory' = disk
  /\ LET back == {t \in Stored(memory) \ Stored(disk) : ~ IsCoinbase(t)}
         rest == (PoolBack.txs \cap (waiting \cup back)) \ Range(Body[disk])
         pairs == {x \in PoolBack.links : x[2] \in rest}
         lost == {t \in rest : \E o \in Ins[t] \ LedgerAt[disk] : o[1] \notin rest}
     IN  /\ waiting' = (rest \ lost) \ Dependents(pairs, lost, Cardinality(rest))
         /\ links' = {x \in pairs : x[2] \in waiting'}
         /\ chained' = IF memory \in Path[disk] THEN chained
                       ELSE chained \cup {t \in waiting' : \E o \in Ins[t] : o[1] \in rest}
  /\ UNCHANGED <<disk, reader, trace, calm>>

(***************************************************************************)
(* generate_statement, whose second half is view.                          *)
(***************************************************************************)

Step(from, statement) ==
  /\ reader.pc = from
  /\ reader' = statement
  /\ calm' = IF from = "view" THEN calm \cup {"view"} ELSE calm
  /\ UNCHANGED <<disk, memory, waiting, links, trace, chained>>

ReadHeight ==
  ~ Locked /\ Step("idle", [NewStatement EXCEPT !.pc = "tip", !.height = Height[memory]])

ReadTip == ~ Locked /\ Step("tip", [reader EXCEPT !.pc = "block", !.block = memory])

\* get_block finds the blocks of the canonical chain; after a reorganization the call fails.
ReadBlock ==
  LET root == MerkleRoot(Leaves(UtxoRoot[reader.block]))
  IN  Step("block", IF reader.block \in Path[disk]
                    THEN [reader EXCEPT !.pc = "set", !.root = root] ELSE NewStatement)

ReadSet ==
  LET S == LedgerAt[memory]
  IN  /\ ~ Locked
      /\ Step("set", [reader EXCEPT !.pc = "view", !.proofs = {MerkleProof(S, o) : o \in NativeOwned(S)}])

\* view
ViewSet ==
  LET S == LedgerAt[memory]
  IN  /\ ~ Locked
      /\ Step("view", [reader EXCEPT !.pc = "tall", !.seen = S, !.balance = SumNativeOwned(S),
                                     !.tokens = SumTokenOwned(S)])

ViewHeight == ~ Locked /\ Step("tall", [reader EXCEPT !.pc = "pool", !.to = Height[memory]])
ViewPool   == Step("pool", [reader EXCEPT !.pc = "index", !.pending = waiting])
ViewIndex  == Step("index", [reader EXCEPT !.pc = "txs", !.records = AddressRecords(disk, reader.to)])

\* Each record's transaction is looked up; then the entries are numbered.
ViewEntries ==
  LET confirmed == ConfirmedEntries(reader.records, disk)
      pending   == PendingEntries(reader.seen, reader.pending)
  IN  Step("txs", [reader EXCEPT !.pc = "done", !.entries = Numbered(confirmed \cup pending),
                                 !.delta = PendingDelta(reader.seen, reader.pending)])

Deliver == Step("done", NewStatement)

(***************************************************************************)
(* provenance: from an outpoint back along first inputs.                   *)
(***************************************************************************)

HeightOf(t, d) ==
  LET at == {b \in Path[d] : t \in Range(Body[b])}
  IN  IF at = {} THEN 0 ELSE Height[CHOOSE b \in at : TRUE]

\* Mutant of IsIssuance: only block 0 issues.
MutIssuance(t, h) == h = 0

IsIssuance(t, h) == IsCoinbase(t) \/ h = 0

Trace(new) ==
  /\ trace' = new
  /\ calm' = IF trace.pc = "idle" THEN calm \cup {"trace"} ELSE calm
  /\ UNCHANGED <<disk, memory, waiting, links, reader, chained>>

TraceFrom(t) ==
  /\ trace.pc = "idle"
  /\ Trace([pc |-> "lookup", cur |-> t, steps |-> << >>])

\* TransactionNotFound ends the call.
TraceLookup ==
  /\ trace.pc = "lookup"
  /\ Trace(IF trace.cur \in Stored(disk) THEN [trace EXCEPT !.pc = "height"] ELSE [pc |-> "idle"])

\* The height is another read.
TraceStep ==
  /\ trace.pc = "height"
  /\ LET t == trace.cur
         h == HeightOf(t, disk)
         category == IF h = 0 THEN "genesis" ELSE IF IsIssuance(t, h) THEN "coinbase" ELSE "transfer"
         steps == Append(trace.steps, [tx |-> t, category |-> category])
     IN  IF ~ IsIssuance(t, h) /\ Ins[t] # {}
         THEN Trace([trace EXCEPT !.pc = "next", !.steps = steps])
         ELSE Trace([pc |-> "done", steps |-> steps])

\* So is the look at the next transaction, without which the lineage ends.
TraceNext ==
  /\ trace.pc = "next"
  /\ LET m == FirstInput[trace.cur][1]
     IN  IF m \in Stored(disk) THEN Trace([trace EXCEPT !.pc = "lookup", !.cur = m])
                               ELSE Trace([pc |-> "done", steps |-> trace.steps])

TraceDone == trace.pc = "done" /\ Trace([pc |-> "idle"])

BookNext ==
  \/ \E t \in Tx : Arrive(t)
  \/ \E b \in Block : CommitDisk(b)
  \/ CommitMemory
  \/ ReadHeight \/ ReadTip \/ ReadBlock \/ ReadSet
  \/ ViewSet \/ ViewHeight \/ ViewPool \/ ViewIndex \/ ViewEntries \/ Deliver
  \/ \E t \in Tx : TraceFrom(t)
  \/ TraceLookup \/ TraceStep \/ TraceNext \/ TraceDone

BookSpec == BookInit /\ [][BookNext]_bookVars

\* An outpoint names its transaction, block 0 commits to its own outputs
\* (compute_genesis_utxo_root), and outpoints are ordered.
ASSUME BookAssumption ==
  /\ \A t \in Tx : \A o \in Outs[t] : o[1] = t
  /\ \A t \in Tx : Ins[t] # {} => FirstInput[t] \in Ins[t]
  /\ UtxoRoot[Genesis] = LedgerAt[Genesis]
  /\ \A o \in OutPoint : OrderOf[o] \in Nat
  /\ IndexLimit \in Nat

(***************************************************************************)
(* Properties.                                                             *)
(***************************************************************************)

\* A statement that verifies and proves at least one output states the account's balance at
\* the block it names, whatever blocks came in between the five reads it is made of.  (With
\* no output to prove, verify_integrity has nothing to check the root against.)
StatementBinds ==
  reader.pc = "done" /\ reader.proofs # {} /\ VerifyIntegrity(reader) =>
    reader.balance = SumNativeOwned(LedgerAt[reader.block])

\* Every output that a view adds up is in its journal, as long as no reorganization came
\* between its reads and the address index did not stop at its limit.
JournalCovers ==
  reader.pc = "done" /\ "view" \in calm /\ Len(reader.records) < IndexLimit =>
    \A o \in OwnedIn(reader.seen) :
      \E e \in Range(reader.entries) : e.op = o /\ e.height # Pending

\* A transaction that is listed as confirmed and as pending is one that a reorganization left in
\* the pool next to the transaction it spends from: the pool is read after the height, the
\* journal stops at that height, and a block on top of the tip takes out what it confirms.
ListedOnce ==
  reader.pc = "done" /\ "view" \in calm =>
    \A e, f \in Range(reader.entries) :
      e.tx = f.tx => (e.height = Pending <=> f.height = Pending) \/ e.tx \in chained

\* A journal put together from several reads holds every output of the balance above it, and
\* each transaction once but for what a reorganization left in the pool.
JournalExact == JournalCovers /\ ListedOnce

\* A lineage ends where its value was issued, and names block 0 only for its transactions.
LineageToIssuance ==
  trace.pc = "done" /\ "trace" \in calm =>
    /\ Last(trace.steps).category # "transfer"
    /\ \A s \in Range(trace.steps) : s.category = "genesis" => s.tx \in Range(Body[Genesis])
=============================================================================
