--------------------------- MODULE MCHeaderChain ---------------------------
(***************************************************************************)
(* HeaderChain with bytes of two bits and targets of five bytes, so that a *)
(* mantissa holds half of a target's digits.  An epoch is two blocks and   *)
(* should take four seconds.  The cap, 400, lies between the first target  *)
(* and its double and can be carried by a header, so that it is reached.   *)
(***************************************************************************)
EXTENDS HeaderChain

\* 0x00ffff of the code: a mantissa with its first byte zero; 15 * 4 * 4 = 240.
MCGenesisBits == [exp |-> 5, man |-> 15]
=============================================================================
