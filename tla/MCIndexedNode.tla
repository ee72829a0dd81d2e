---------------------------- MODULE MCIndexedNode ----------------------------
(***************************************************************************)
(* IndexedNode over a1-a2-a3 against the single heavier block d1, so that  *)
(* the tip moves to a lower height and back, leaving rows above it.  t1 is *)
(* in both branches.  w2 is the block the local worker makes on a1 when    *)
(* the set in memory is the one of block 0.  p1 spends a coin that only    *)
(* the forged snapshot of a client has.                                    *)
(***************************************************************************)
EXTENDS IndexedNode, MCUniverse

MCIHonest == {"G", "a1", "a2", "a3", "d1"}
MCIBlock  == MCIHonest \cup {"p1"}
MCIAll    == {"G", "a1", "w2"}

MCIParent == [b \in Block |->
                CASE b = "w2" -> "a1" [] b = "p1" -> "G" [] OTHER -> MCParent[b]]
MCIBody   == [b \in Block |->
                CASE b = "a1" -> <<"a1", "t1", "t5">>
                  [] b = "w2" -> <<"f2">>
                  [] b = "p1" -> <<"f1", "t2">>
                  [] OTHER    -> MCBody[b]]
MCIWork   == [b \in Block |-> CASE b = "d1" -> 3 [] b = "a3" -> 2 [] OTHER -> 1]
MCIScriptsOk == Block
MCForged == {<<"G", 1>>, <<"t1", 1>>}
MCIUtxoRoot == [b \in Block |->
                  CASE b = "w2" -> Apply("w2", LedgerAt["G"])
                    [] b = "p1" -> Apply("p1", MCForged)
                    [] OTHER    -> LedgerAt[b]]

\* The forged snapshot names a block that the node does not have.
MCOffered == {[of |-> "p1", entries |-> MCForged]}
MCNoneOffered == {}

\* a1 spends from alice without paying her.
MCOwner == [o \in MCOutPoint |-> IF o \in {<<"G", 2>>, <<"t3", 1>>} THEN "alice" ELSE "bob"]

\* Keys are ordered by txid, then by index.
MCTxOrder == <<"t3", "a1", "G", "t5", "d1", "t1", "a2", "t2", "a3", "t4", "t6", "t7",
               "e1", "e2", "f1", "f2", "d2", "d3", "h1", "h2", "x1">>
MCKeyRank == [o \in MCOutPoint |-> 2 * (CHOOSE i \in DOMAIN MCTxOrder : MCTxOrder[i] = o[1]) + o[2]]

\* Bound: two faults or two requests, but not all four in one behaviour.
MCTogether == 3

MCIndexedNext == IndexedNext /\ faults' + requests' <= MCTogether
MCIndexedSpec == IndexedInit /\ [][MCIndexedNext]_allVars
=============================================================================
