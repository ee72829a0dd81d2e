------------------------------ MODULE Mempool ------------------------------
(***************************************************************************)
(* crates/scytale-mempool/src/pool.rs with its callers in node.rs and the  *)
(* template builder of crates/scytale-mining: pending transactions, their  *)
(* dependency links, eviction, and what blocks and reorganisations do to   *)
(* them.                                                                   *)
(*                                                                         *)
(* The ledger underneath is DurableLedger, which NodeLedger implements: a  *)
(* head that moves to heavier sound blocks, and the coins at the head.     *)
(* Each caller holds the UTXO lock and the pool's lock from the first look *)
(* to the last write, so a call is one step.                               *)
(***************************************************************************)
EXTENDS Ledger, SequencesExt

CONSTANTS
  MaxReorgDepth,   \* max_reorg_depth
  Source,          \* the transaction that creates an outpoint
  Rate,            \* fee_rate: fee * 1000 / size, fixed by the transaction
  Size,            \* size_bytes
  Authorized,      \* transactions whose unlocking data satisfies their inputs
  MinRate,         \* min_fee_rate
  MaxCount,        \* max_count
  MaxBytes,        \* max_bytes
  MaxAncestors,    \* MAX_ANCESTORS
  MaxDescendants,  \* MAX_DESCENDANTS
  BlockBytes       \* MAX_BLOCK_PAYLOAD_SIZE

ASSUME PoolAssumption ==
  /\ IsFiniteSet(Tx)
  /\ Source \in [OutPoint -> Tx] /\ \A t \in Tx : \A o \in Outs[t] : Source[o] = t
  /\ Rate \in [Tx -> Nat]
  \* No ties, which added_time and the id would break.
  /\ \A s, t \in Tx : Ins[s] # {} /\ Ins[t] # {} /\ Rate[s] = Rate[t] => s = t
  /\ Size \in [Tx -> 1 .. MaxBytes]    \* the transports bound a transaction
  \* A locking condition that starts with OP_RETURN fails.
  /\ Authorized \subseteq Tx /\ \A t \in Authorized : Ins[t] \cap OpReturn = {}
  /\ {MaxBytes, MaxCount, MaxAncestors, MaxDescendants} \subseteq Nat \ {0}

VARIABLES
  head,   \* the canonical tip
  pool    \* the Mempool

poolVars == <<head, pool>>

EmptyPool ==
  [entries |-> {},      \* entries, and priority_index with them
   spent   |-> << >>,   \* spent_outpoints: outpoint -> transaction
   kids    |-> {},      \* parent_to_children, as <<parent, child>> pairs
   pars    |-> {},      \* child_to_parents, as <<child, parent>> pairs
   bytes   |-> 0]       \* total_bytes

TotalSize(S) == MapThenSumSet(LAMBDA t : Size[t], S)

(***************************************************************************)
(* Removal.                                                                *)
(***************************************************************************)

\* What the links of R lead to from the transactions in S, S included.
Reach(R, S) ==
  LET grow[n \in 0 .. Cardinality(Tx)] ==
        IF n = 0 THEN S
        ELSE grow[n - 1] \cup {x[2] : x \in {y \in R : y[1] \in grow[n - 1]}}
  IN  grow[Cardinality(Tx)]

\* The entries of S leave, with the outpoints they spend and their bytes.
Take(p, S) ==
  LET gone == p.entries \cap S
      freed == UNION {Ins[t] : t \in gone}
  IN  [p EXCEPT !.entries = @ \ S,
                !.spent   = [o \in DOMAIN @ \ freed |-> @[o]],
                !.bytes   = @ - TotalSize(gone)]

\* The links from the transactions in S to their parents leave.
Unlink(p, S) ==
  LET links == {x \in p.pars : x[1] \in S}
  IN  [p EXCEPT !.pars = @ \ links,
                !.kids = @ \ {<<x[2], x[1]>> : x \in links}]

\* remove_transaction_and_descendants for every transaction of S
RemoveWithDescendants(p, S) ==
  LET all == Reach(p.kids, S)
      q   == Unlink(Take(p, all), all)
  IN  [q EXCEPT !.kids = {x \in @ : x[1] \notin all}]

(***************************************************************************)
(* Admission.                                                              *)
(***************************************************************************)

\* The pool's own transactions that t would depend on.
PoolParents(t, U) == {Source[o] : o \in Ins[t] \ U}

\* The checks of admit_transaction before room is made.
Admissible(p, t, U) ==
  /\ Stateless(t)
  /\ Ins[t] # {}
  /\ t \notin p.entries
  /\ Ins[t] \cap DOMAIN p.spent = {}
  /\ PoolParents(t, U) \subseteq p.entries
  /\ Cardinality(Reach(p.pars, PoolParents(t, U))) <= MaxAncestors
  /\ \A s \in PoolParents(t, U) :
       Cardinality({x \in p.kids : x[1] = s}) < MaxDescendants
  /\ t \in Authorized
  /\ Quanta(Outs[t]) <= Quanta(Ins[t])
  /\ Rate[t] >= MinRate

Full(p, t) == Cardinality(p.entries) >= MaxCount \/ p.bytes + Size[t] > MaxBytes

\* Entries from the lowest fee rate up.
Cheapest(S) ==
  [i \in 1 .. Cardinality(S) |-> CHOOSE t \in S : Cardinality({s \in S : Rate[s] <= Rate[t]}) = i]

\* The eviction loop: the cheapest entry and its descendants leave while there
\* is no room and t pays more.
MakeRoom(p, t) ==
  LET Evict(q, s) ==
        IF s \in q.entries /\ Full(q, t) /\ Rate[t] > Rate[s]
        THEN RemoveWithDescendants(q, {s}) ELSE q
  IN  FoldLeft(Evict, p, Cheapest(p.entries))

\* Mutant of Insert: the spent outpoints are not recorded.
MutInsertUnspent(p, t, parents) ==
  [p EXCEPT !.entries = @ \cup {t},
            !.kids    = @ \cup {<<s, t>> : s \in parents},
            !.pars    = @ \cup {<<t, s>> : s \in parents},
            !.bytes   = @ + Size[t]]

Insert(p, t, parents) ==
  [p EXCEPT !.entries = @ \cup {t},
            !.spent   = [o \in DOMAIN @ \cup Ins[t] |-> IF o \in Ins[t] THEN t ELSE @[o]],
            !.kids    = @ \cup {<<s, t>> : s \in parents},
            !.pars    = @ \cup {<<t, s>> : s \in parents},
            !.bytes   = @ + Size[t]]

\* admit_transaction: the pool after the call.  What was evicted stays out even
\* if the newcomer is refused in the end.
Admit(p, t, U) ==
  IF ~ Admissible(p, t, U) THEN p
  ELSE LET q == MakeRoom(p, t)
       IN  IF Full(q, t) THEN q ELSE Insert(q, t, PoolParents(t, U))

(***************************************************************************)
(* Blocks.                                                                 *)
(***************************************************************************)

Payments(b) == {Body[b][i] : i \in 2 .. Len(Body[b])}

\* An input is neither a coin nor an output of a pending transaction.
Broken(p, U) ==
  {t \in p.entries : \E o \in Ins[t] : o \notin U /\ Source[o] \notin p.entries}

\* Mutants of OnBlockConnected: no scan for broken inputs; the confirmed
\* transactions' parents keep them as children.
MutNoScan(p, b, U) == Unlink(Take(p, Payments(b)), Payments(b))

\* on_block_connected: the block's transactions leave, then whatever they broke.
OnBlockConnected(p, b, U) ==
  LET q == Unlink(Take(p, Payments(b)), Payments(b))
  IN  RemoveWithDescendants(q, Broken(q, U))

\* What stands in s and not in S, in its order
Without(s, S) ==
  LET left == {i \in DOMAIN s : s[i] \notin S}
  IN  [i \in 1 .. Cardinality(left) |->
         s[CHOOSE k \in left : Cardinality({j \in left : j <= k}) = i]]

\* transactions_for_mempool: those of the disconnected blocks, from the old tip
\* down, that the new branch does not hold.
Returned(old, new) ==
  LET down == Reverse(ByHeight(Path[old] \ Path[new]))
      kept == UNION {Payments(a) : a \in Path[new] \ Path[old]}
  IN  Without(FlattenSeq([i \in DOMAIN down |-> Tail(Body[down[i]])]), kept)

\* on_reorg
OnReorg(p, txs, U) ==
  LET Readmit(q, t) == Admit(q, t, U) IN FoldLeft(Readmit, p, txs)

(***************************************************************************)
(* Templates.                                                              *)
(***************************************************************************)

\* select_transactions_for_block: by fee rate, after the recorded parents,
\* while the block has room.
Select(p) ==
  LET Consider(sel, t) ==
        IF /\ {x[2] : x \in {y \in p.pars : y[1] = t}} \subseteq Range(sel)
           /\ TotalSize(Range(sel)) + Size[t] <= BlockBytes
        THEN Append(sel, t) ELSE sel
  IN  FoldLeft(Consider, << >>, Reverse(Cheapest(p.entries)))

\* Mutant of Chosen: inputs are not looked up again.
MutTakeSelected(p, U) == Select(p)

\* The second filter, in build_template: every input is a coin or an output of a
\* transaction already chosen, and is spent once.
Chosen(p, U) ==
  LET Spent(sel)  == UNION {Ins[s] : s \in Range(sel)}
      Known(sel)  == U \cup UNION {Outs[s] : s \in Range(sel)}
      Consider(sel, t) ==
        IF Ins[t] \subseteq Known(sel) \ Spent(sel) THEN Append(sel, t) ELSE sel
  IN  FoldLeft(Consider, << >>, Select(p))

(***************************************************************************)
(* The steps.                                                              *)
(***************************************************************************)

Coins == LedgerAt[head]

PoolInit ==
  /\ head = Genesis
  /\ pool = EmptyPool

\* submit_transaction: scripts and contracts are run on the canonical coins, so
\* every input must be one.
SubmitTransaction(t) ==
  /\ Ins[t] # {}
  /\ Ins[t] \subseteq Coins
  /\ pool' = Admit(pool, t, Coins)
  /\ UNCHANGED head

\* Blocks that process_block lets become the head.
Eligible == {b \in Block : \A a \in Path[b] : Sound(a)}

\* The head is extended.
ExtendHead(b) ==
  /\ Parent[b] = head
  /\ head' = b
  /\ pool' = OnBlockConnected(pool, b, LedgerAt[b])

\* The head changes branch: on_reorg, then on_block_connected for the new tip.
SwitchHead(b) ==
  /\ Parent[b] # head
  /\ CumWork[b] > CumWork[head]
  /\ Cardinality(Path[head] \ Path[b]) \in 1 .. MaxReorgDepth
  /\ head' = b
  /\ pool' = OnBlockConnected(OnReorg(pool, Returned(head, b), LedgerAt[b]), b, LedgerAt[b])

\* recover() starts with an empty pool.
Restart ==
  /\ pool' = EmptyPool
  /\ UNCHANGED head

PoolNext ==
  \/ \E t \in Tx : SubmitTransaction(t)
  \/ \E b \in Eligible : ExtendHead(b) \/ SwitchHead(b)
  \/ Restart

PoolSpec == PoolInit /\ [][PoolNext]_poolVars

(***************************************************************************)
(* Properties.                                                             *)
(***************************************************************************)

\* Types of the head and the pool.
PoolTypeOK ==
  /\ head \in Block
  /\ pool.entries \subseteq Tx
  /\ DOMAIN pool.spent \subseteq OutPoint
  /\ pool.kids \subseteq Tx \X Tx
  /\ pool.pars \subseteq Tx \X Tx
  /\ pool.bytes \in Nat

\* No two pending transactions spend the same coin, and the index that prevents
\* it is exact: an outpoint is blocked if and only if a pending transaction
\* spends it, whatever was evicted, confirmed or readmitted.
SpentIndexExact ==
  /\ DOMAIN pool.spent = UNION {Ins[t] : t \in pool.entries}
  /\ \A t \in pool.entries : \A o \in Ins[t] : pool.spent[o] = t

\* The two dependency maps mirror each other, and a link joins a pending
\* transaction to one whose output it spends: removing a parent finds its
\* children, and no link of a transaction that left comes back with it.
DependenciesMirror ==
  /\ pool.kids = {<<x[2], x[1]>> : x \in pool.pars}
  /\ \A x \in pool.pars : x[1] \in pool.entries /\ \E o \in Ins[x[1]] : Source[o] = x[2]

\* The limits hold after every call, and total_bytes is what it says.
PoolWithinLimits ==
  /\ Cardinality(pool.entries) <= MaxCount
  /\ pool.bytes <= MaxBytes
  /\ pool.bytes = TotalSize(pool.entries)
  /\ \A s \in Tx : Cardinality({x \in pool.kids : x[1] = s}) <= MaxDescendants

\* Over evictions, blocks, reorganisations and readmissions, the four maps of the pool agree
\* and its limits hold: all of the above at once.
PoolConsistent ==
  /\ PoolTypeOK
  /\ SpentIndexExact
  /\ DependenciesMirror
  /\ PoolWithinLimits

\* No pending transaction spends a coin that a canonical block spends; a
\* confirmed transaction, in particular, is not pending.
ClearOfChain ==
  \A t \in pool.entries, a \in Path[head] : \A s \in Payments(a) : Ins[t] \cap Ins[s] = {}

\* on_block_connected: a block that extends the head leaves no conflict with the
\* chain in a pool that had none, though it looks at inputs only and takes an
\* input that a pending transaction creates as good.
ExtensionPurgesConflicts ==
  [][ClearOfChain /\ head' # head /\ Parent[head'] = head => ClearOfChain']_poolVars

\* The block a miner would build from the pool applies to the coins at the head:
\* no state of the pool makes build_template fail.
TemplateApplies ==
  LET U   == Coins
      txs == Chosen(pool, U)
      Before(i) == (U \cup UNION {Made(txs[j]) : j \in 1 .. i - 1})
                      \ UNION {Ins[txs[j]] : j \in 1 .. i - 1}
  IN  \A i \in DOMAIN txs :
        /\ Ins[txs[i]] \subseteq Before(i)
        /\ Made(txs[i]) \cap (Before(i) \ Ins[txs[i]]) = {}

\* pool.rs, select_transactions_for_block: a transaction waits for parents that
\* are in the pool.  Once all its inputs are coins, nothing holds it back.
NotHeldByConfirmed ==
  \A t \in pool.entries : Ins[t] \subseteq Coins => \A x \in pool.pars : x[1] # t

\* pool.rs, on_block_connected: it "evicts remaining pending transactions whose
\* inputs are no longer valid".
PendingInputsExist == Broken(pool, Coins) = {}
=============================================================================
