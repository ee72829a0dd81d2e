--------------------------- MODULE MCHeadersPool ---------------------------
(***************************************************************************)
(* The header rules of MCHeaderChain and the pool of MCMempool, which have *)
(* no state in common, each by itself in one run: `part' picks the one     *)
(* that moves.                                                             *)
(***************************************************************************)
EXTENDS MCHeaderChain, MCMempool

VARIABLE part

HeadersPoolInit == part \in {"headers", "pool"} /\ HeaderInit /\ PoolInit

HeadersPoolNext ==
  /\ UNCHANGED part
  /\ \/ part = "headers" /\ HeaderNext /\ UNCHANGED poolVars
     \/ part = "pool" /\ PoolNext /\ UNCHANGED headerVars

HeadersPoolSpec == HeadersPoolInit /\ [][HeadersPoolNext]_<<part, headerVars, poolVars>>
=============================================================================
