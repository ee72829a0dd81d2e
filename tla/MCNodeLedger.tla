---------------------------- MODULE MCNodeLedger ----------------------------
(***************************************************************************)
(* NodeLedger over the part of MCUniverse in which a1-a2-a3 and d1-d2      *)
(* compete and e1 fails its scripts.  The d blocks weigh more, so the tip  *)
(* can move to a lower height (a2 to d1) and back (d1 to a3).  a1 spends   *)
(* an output of block 0 that d2 spends too.                                *)
(***************************************************************************)
EXTENDS NodeLedger, MCUniverse

MCNBlock == {"G", "a1", "a2", "a3", "d1", "d2", "e1"}

MCNParent == [b \in MCNBlock |-> MCParent[b]]
MCNBody   == [b \in MCNBlock |->
                CASE b = "a1" -> <<"a1", "t1", "t5">>
                  [] b = "e1" -> <<"e1">>
                  [] OTHER    -> MCBody[b]]
MCNWork   == [b \in MCNBlock |->
                CASE b \in {"d1", "d2"} -> 3 [] b = "a3" -> 2 [] OTHER -> 1]
MCNUtxoRoot == [b \in MCNBlock |-> LedgerAt[b]]

\* The orphan rule of .archive/docs/CHAIN-SELECTION-SPEC.md, section 14: a valid
\* block whose parent is unknown is kept until the parent arrives.  In the least
\* demanding reading, it is not marked invalid for coming early.
OrphansNotFlagged ==
  \A b \in invalid \ {Genesis} : \E a \in Path[b] : ~ Sound(a)

\* .archive/docs/CHAIN-SELECTION-SPEC.md, section 11: after a reorganisation no
\* output of a disconnected block is left in the UTXO set; BlockUndo is the
\* reversible UTXO delta of a block.
DiskUtxoIsReplay == disk.tip # NoHash => disk.utxo = LedgerAt[disk.tip]
=============================================================================
