------------------------------ MODULE MCStratum ------------------------------
(***************************************************************************)
(* Two connections, of which the pool takes one at a time.  Every share    *)
(* makes a candidate: a plain one with extranonce2 = 0, a rolled one with  *)
(* another value.  With the time of the job its hash is good; with another *)
(* one, which the node would refuse, only its reversed bytes are.          *)
(***************************************************************************)
EXTENDS Stratum

MCEn2 == [h \in Share |-> IF h = "plain" THEN 0 ELSE 1]
MCGrade == [h \in Share |-> [t \in Time |-> IF t = "curtime" THEN "block" ELSE "reversed"]]
=============================================================================
