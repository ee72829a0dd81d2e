----------------------------- MODULE MCUniverse -----------------------------
(***************************************************************************)
(* A small block tree for model checking.  Records map names to attributes.*)
(*                                                                         *)
(*   G -- a1 -- a2 -- a3      a: honest; a2 spends an output it creates    *)
(*   |     |\-- e1 -- e2      e1: a script fails; e2: good child of e1     *)
(*   |      \-- f1 -- f2      f1: coinbase takes too much; f2: its child   *)
(*    \-- d1 -- d2 -- d3      d: honest rival, shares transaction t1       *)
(*         |\-- h1 -- h2      h1: wrong UTXO root; h2: good child of h1    *)
(*          \-- x1            x1: spends g1 a second time                  *)
(***************************************************************************)
EXTENDS Integers, FiniteSets, Sequences

MCBlock == {"G", "a1", "a2", "a3", "e1", "e2", "f1", "f2",
            "d1", "d2", "d3", "h1", "h2", "x1"}

MCParent == [G  |-> "zero", a1 |-> "G",  a2 |-> "a1", a3 |-> "a2",
             e1 |-> "a1", e2 |-> "e1", f1 |-> "a1", f2 |-> "f1",
             d1 |-> "G",  d2 |-> "d1", d3 |-> "d2",
             h1 |-> "d1", h2 |-> "h1", x1 |-> "d1"]

\* One coinbase per block, named after it, then the transactions.
MCBody == [G  |-> <<"G">>,
           a1 |-> <<"a1", "t1">>,
           a2 |-> <<"a2", "t2", "t3">>,
           a3 |-> <<"a3", "t4">>,
           e1 |-> <<"e1", "t5">>,
           e2 |-> <<"e2">>,
           f1 |-> <<"f1">>,
           f2 |-> <<"f2">>,
           d1 |-> <<"d1", "t1">>,
           d2 |-> <<"d2", "t6">>,
           d3 |-> <<"d3", "t2">>,
           h1 |-> <<"h1", "t5">>,
           h2 |-> <<"h2">>,
           x1 |-> <<"x1", "t7">>]

MCTx == MCBlock \cup {"t1", "t2", "t3", "t4", "t5", "t6", "t7"}

\* A coinbase spends nothing and pays <<its block, 1>>; G also pays <<"G", 2>>,
\* t1 carries data in <<"t1", 2>>.
MCIns == [t \in MCTx |->
            CASE t = "t1" -> {<<"G", 1>>}
              [] t = "t2" -> {<<"t1", 1>>}
              [] t = "t3" -> {<<"t2", 1>>}
              [] t = "t4" -> {<<"a1", 1>>, <<"t3", 1>>}
              [] t = "t5" -> {<<"G", 2>>}
              [] t = "t6" -> {<<"G", 2>>, <<"d1", 1>>}
              [] t = "t7" -> {<<"G", 1>>}
              [] OTHER    -> {}]

MCOuts == [t \in MCTx |->
             IF t \in {"G", "t1"} THEN {<<t, 1>>, <<t, 2>>} ELSE {<<t, 1>>}]

MCOutPoint == UNION {MCOuts[t] : t \in MCTx}

MCOpReturn == {<<"t1", 2>>}

\* Subsidy 4 at heights 0 and 1, then 2.  t1 pays 1 in fees (8 in, 7 out),
\* t6 pays 1; every coinbase but f1's takes exactly its due or less.
MCValue == [o \in MCOutPoint |->
              CASE o \in {<<"G", 1>>, <<"G", 2>>} -> 8
                [] o = <<"t1", 1>>  -> 7
                [] o = <<"t1", 2>>  -> 0
                [] o \in {<<"t2", 1>>, <<"t3", 1>>} -> 7
                [] o = <<"t4", 1>>  -> 12
                [] o \in {<<"t5", 1>>, <<"t7", 1>>} -> 8
                [] o = <<"t6", 1>>  -> 12
                [] o \in {<<"a1", 1>>, <<"d1", 1>>} -> 5
                [] o = <<"d2", 1>>  -> 3
                [] o = <<"f1", 1>>  -> 3
                [] OTHER            -> 2]

MCGoodHeader == MCBlock
MCWellFormed == MCBlock
MCCommitted  == MCBlock
MCScriptsOk  == MCBlock \ {"e1"}
MCBadRoot    == {"h1"}

\* Constant difficulty.
MCWork == [b \in MCBlock |-> 1]
=============================================================================
