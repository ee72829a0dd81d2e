--------------------------- MODULE DurableLedger ---------------------------
(***************************************************************************)
(* What a Scytale node promises to whoever reads its ledger, with nothing  *)
(* of how: there is one head block and the coins that are unspent at it.   *)
(* The head only ever moves to an eligible block with more work, undoing   *)
(* at most Limit blocks, and head and coins move together.  Starts, stops, *)
(* crashes, refused blocks and failed writes are invisible.                *)
(***************************************************************************)
EXTENDS Integers

CONSTANTS
  Blocks,          \* all blocks
  First,           \* the head of a fresh node
  Eligible,        \* the blocks fit to be the head
  WorkAt,          \* block -> total work of the chain that ends in it
  CoinsAt,         \* block -> the unspent outputs at it
  Undone(_, _),    \* how many blocks a move of the head takes back
  Limit            \* the most that may be taken back

VARIABLES head, coins

DurableInit ==
  /\ head = First
  /\ coins = CoinsAt[First]

Advance(b) ==
  /\ b \in Eligible
  /\ WorkAt[b] > WorkAt[head]
  /\ Undone(head, b) <= Limit
  /\ head' = b
  /\ coins' = CoinsAt[b]

DurableNext == \E b \in Blocks : Advance(b)

DurableSpec == DurableInit /\ [][DurableNext]_<<head, coins>>
=============================================================================
