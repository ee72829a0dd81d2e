----------------------------- MODULE MCMempool -----------------------------
(***************************************************************************)
(* Mempool over two honest branches:                                       *)
(*                                                                         *)
(*   G -- a1 [p, c] -- a2 [k] -- a3 []       c spends p, k spends c        *)
(*    \-- b1 [q] ----- b2 [p] -- b3 [c]                                    *)
(*                                                                         *)
(* Disconnecting a1 returns p and its child c to the pool, b2 confirms p   *)
(* alone and b3 then c.  w and c spend the same output; r conflicts with q *)
(* and with s.  r and x are twice as large as the others, and the pool     *)
(* holds three transactions or four units, so that entering it often means *)
(* evicting.                                                               *)
(***************************************************************************)
EXTENDS Mempool

MCBlock  == {"G", "a1", "a2", "a3", "b1", "b2", "b3"}
MCParent == [G |-> "zero", a1 |-> "G", a2 |-> "a1", a3 |-> "a2",
             b1 |-> "G", b2 |-> "b1", b3 |-> "b2"]
MCWork   == [G |-> 1, a1 |-> 1, a2 |-> 1, a3 |-> 3, b1 |-> 2, b2 |-> 1, b3 |-> 3]
MCBody   == [G |-> <<"G">>,
             a1 |-> <<"a1", "p", "c">>, a2 |-> <<"a2", "k">>, a3 |-> <<"a3">>,
             b1 |-> <<"b1", "q">>, b2 |-> <<"b2", "p">>, b3 |-> <<"b3", "c">>]

MCTx == MCBlock \cup {"p", "c", "k", "q", "r", "s", "w", "x"}

MCIns == [t \in MCTx |->
            CASE t = "p"          -> {<<"G", 1>>}
              [] t \in {"c", "w"} -> {<<"p", 1>>}
              [] t = "k"          -> {<<"c", 1>>}
              [] t = "q"          -> {<<"G", 2>>}
              [] t = "r"          -> {<<"G", 2>>, <<"G", 3>>}
              [] t = "s"          -> {<<"G", 3>>}
              [] t = "x"          -> {<<"G", 4>>}
              [] OTHER            -> {}]
MCOuts == [t \in MCTx |-> IF t = "G" THEN {<<"G", 1>>, <<"G", 2>>, <<"G", 3>>, <<"G", 4>>}
                                     ELSE {<<t, 1>>}]
MCOutPoint == UNION {MCOuts[t] : t \in MCTx}
MCSource   == [o \in MCOutPoint |-> o[1]]

MCFee  == [p |-> 2, c |-> 4, k |-> 3, q |-> 1, r |-> 12, s |-> 7, w |-> 5, x |-> 16]
MCSize == [t \in MCTx |-> IF t \in {"r", "x"} THEN 2 ELSE 1]
MCRate == [t \in MCTx |-> IF t \in DOMAIN MCFee THEN MCFee[t] \div MCSize[t] ELSE 0]

MCValue == [o \in MCOutPoint |->
              CASE o[1] = "G" -> 20
                [] o[1] = "p" -> 18
                [] o[1] = "c" -> 14
                [] o[1] = "w" -> 13
                [] o[1] = "k" -> 11
                [] o[1] = "q" -> 19
                [] o[1] = "r" -> 28
                [] o[1] = "s" -> 13
                [] o[1] = "x" -> 4
                [] OTHER      -> 4]

MCUtxoRoot == [b \in Block |-> LedgerAt[b]]
=============================================================================
