----------------------------- MODULE MCBlockSync -----------------------------
(***************************************************************************)
(* BlockSync with two peers: p1 has a1-a2 and announces the height 1 it    *)
(* had when it started; p2 has the competing branch b1-b2-b3.  m1 is   *)
(* the block the local worker may find; b1 may arrive over gossipsub.      *)
(***************************************************************************)
EXTENDS BlockSync

MCBlock  == {"G", "a1", "a2", "b1", "b2", "b3", "m1"}
MCParent == [b \in MCBlock \ {"G"} |->
               CASE b \in {"a1", "b1", "m1"} -> "G"
                 [] b = "a2" -> "a1" [] b = "b2" -> "b1" [] b = "b3" -> "b2"]
MCPeer   == {"p1", "p2"}
MCChain  == [p \in MCPeer |-> IF p = "p1" THEN <<"a1", "a2">> ELSE <<"b1", "b2", "b3">>]
MCAdvertised == [p \in MCPeer |-> IF p = "p1" THEN 1 ELSE 3]

\* A node without mining, clients or gossip, and one honest peer three batches ahead.
MCLine           == {"G", "a1", "a2", "a3"}
MCLineParent     == [b \in MCLine \ {"G"} |->
                       CASE b = "a1" -> "G" [] b = "a2" -> "a1" [] b = "a3" -> "a2"]
MCLineChain      == [p \in {"p1"} |-> <<"a1", "a2", "a3">>]
MCLineAdvertised == [p \in {"p1"} |-> 3]
=============================================================================
