------------------------------- MODULE Storage -------------------------------
(***************************************************************************)
(* crates/scytale-storage/src/engine.rs: the redb tables of the canonical  *)
(* chain.  The whole database is one value, because every operation is one *)
(* write transaction: it takes effect entirely at its commit or not at     *)
(* all.  The operators return the tables after the transaction.            *)
(***************************************************************************)
EXTENDS Ledger, SequencesExt

\* A database without a canonical tip: init_tables on a fresh file.
EmptyDisk ==
  [tip     |-> NoHash,    \* CHAIN_STATE tip_hash
   height  |-> 0,         \* CHAIN_STATE tip_height
   blocks  |-> {},        \* BLOCKS and BLOCK_INDEX
   heights |-> << >>,     \* BLOCK_HEIGHT_INDEX: height -> block
   confirm |-> << >>,     \* TRANSACTIONS and TX_CONFIRM_INDEX: txid -> block
   undo    |-> << >>,     \* BLOCK_UNDO_TABLE: block -> BlockUndo
   utxo    |-> {}]        \* UTXOS

Put(f, k, v) == [x \in DOMAIN f \cup {k} |-> IF x = k THEN v ELSE f[x]]
Drop(f, K)   == [x \in DOMAIN f \ K |-> f[x]]

Txs(b) == Range(Body[b])

(***************************************************************************)
(* Writing one block.                                                      *)
(***************************************************************************)

\* The UTXOS table and the empty undo delta when the first transaction is read.
Batch(d) == [utxo |-> d.utxo, spent |-> {}, created |-> {}]

\* One transaction of the block: what it spends is noted and removed, then its
\* outputs enter.  w holds the UTXOS table and the undo delta being built.
WriteTx(w, t) ==
  [utxo    |-> (w.utxo \ Ins[t]) \cup Made(t),
   spent   |-> w.spent \cup (Ins[t] \cap w.utxo),
   created |-> w.created \cup Made(t)]

\* The tables a block enters, by commit_block or by the second half of
\* apply_reorganization.
WriteBlock(d, b) ==
  LET w == FoldLeft(WriteTx, Batch(d), Body[b])
  IN  [d EXCEPT !.blocks  = @ \cup {b},
                !.heights = Put(@, Height[b], b),
                !.confirm = [t \in DOMAIN @ \cup Txs(b) |-> IF t \in Txs(b) THEN b ELSE @[t]],
                !.undo    = Put(@, b, [spent |-> w.spent, created |-> w.created]),
                !.utxo    = w.utxo]

(***************************************************************************)
(* Removing one block with its undo delta: created outputs first, then the *)
(* spent ones return.                                                      *)
(***************************************************************************)

\* Mutant of EraseBlock: the index by height keeps the erased block.
MutKeepHeight(d, b) ==
  [d EXCEPT !.blocks  = @ \ {b},
            !.confirm = Drop(@, Txs(b)),
            !.undo    = Drop(@, {b}),
            !.utxo    = (@ \ d.undo[b].created) \cup d.undo[b].spent]

EraseBlock(d, b) ==
  [d EXCEPT !.blocks  = @ \ {b},
            !.heights = Drop(@, {Height[b]}),
            !.confirm = Drop(@, Txs(b)),
            !.undo    = Drop(@, {b}),
            !.utxo    = (@ \ d.undo[b].created) \cup d.undo[b].spent]

(***************************************************************************)
(* The write transactions.                                                 *)
(***************************************************************************)

\* Mutant of MoveTip: the persisted height stays behind.
MutStaleHeight(d, b) ==
  [tip |-> b, height |-> d.height, blocks |-> d.blocks, heights |-> d.heights,
   confirm |-> d.confirm, undo |-> d.undo, utxo |-> d.utxo]

\* CHAIN_STATE is written last.
MoveTip(d, b) ==
  [tip |-> b, height |-> Height[b], blocks |-> d.blocks, heights |-> d.heights,
   confirm |-> d.confirm, undo |-> d.undo, utxo |-> d.utxo]

\* commit_block
CommitBlock(d, b) == MoveTip(WriteBlock(d, b), b)

\* apply_reorganization fails when a block to erase has no undo delta.
HasUndo(d, erased) == erased \subseteq DOMAIN d.undo

\* apply_reorganization: erase from the old tip down, write from the fork up.
\* newTip is the last block written.
ApplyReorganization(d, erased, written, newTip) ==
  LET down == FoldLeft(EraseBlock, d, Reverse(ByHeight(erased)))
      up   == FoldLeft(WriteBlock, down, ByHeight(written))
  IN  MoveTip(up, newTip)

(***************************************************************************)
(* Reading the chain back: the walk in Node::recover.                      *)
(***************************************************************************)

\* Parent links from the tip stay inside BLOCKS and their number fits the
\* persisted height.
PathReadable(d) ==
  /\ Path[d.tip] \subseteq d.blocks
  /\ Cardinality(Path[d.tip]) = d.height + 1

\* Outputs that some transaction of b creates and another one of b spends.
SpentInside(b) == Creates(b) \cap Spends(b)
=============================================================================
