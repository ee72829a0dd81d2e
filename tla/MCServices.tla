----------------------------- MODULE MCServices -----------------------------
(***************************************************************************)
(* Five parts that touch the chain only through what it has committed, each *)
(* checked by itself in one run: `side' picks the part that moves.          *)
(***************************************************************************)
EXTENDS ScriptEngine, Contracts, Passbook, Peers, Wallets, TLC

\* Script
KeyA == <<161>>
KeyB == <<162>>
SigA == <<201, 202>>
SigB == <<203, 204>>
MCSigned == {<<KeyA, SigA>>, <<KeyB, SigB>>}
MCBlake3(i) == <<255>> \o i

Piece ==
  {PushData(SigA), PushData(SigB), PushData(KeyA), PushData(KeyB),
   <<OP_0>>, <<OP_1>>, <<OP_1 + 4>>, <<OP_IF>>, <<OP_ELSE>>, <<OP_ENDIF>>, <<OP_2DUP>>,
   <<2, OP_ENDIF, OP_ELSE>>, <<OP_PUSHDATA1, 1, OP_IF>>, <<5>>}
MCUnlocking ==
  {FlattenSeq(t) : t \in UNION {[1 .. n -> Piece] : n \in 0 .. 3}}
    \cup {<<OP_1, OP_1 + 1, op, OP_DUP, op2>> : op \in 115 .. 177, op2 \in {OP_2DUP, OP_ADD, OP_EQUAL}}

Late == PushInt(5) \o <<OP_CHECKLOCKTIMEVERIFY>>
Savings == Late \o PayToKey(KeyA)
Shared == <<OP_IF>> \o PushData(KeyA) \o <<OP_CHECKSIG, OP_ELSE>> \o Late
            \o PushData(KeyB) \o <<OP_CHECKSIG, OP_ENDIF>>
Contract == <<83, 67, 89, 1>>
MCContractLock == {Contract}
MCLocking == {PayToKey(KeyA), Savings, Shared, Contract}
Way(sig, from) == [sig |-> sig, from |-> from]
MCWays == (PayToKey(KeyA) :> {Way(SigA, 0)}) @@ (Savings :> {Way(SigA, 5)})
            @@ (Shared :> {Way(SigA, 0), Way(SigB, 5)})

\* Contracts
MCFuel == [scy20 |-> 2, vault |-> 2]

\* Passbook
MPBlock  == {"G", "a1", "a2", "a3", "d1", "d2", "d3"}
MPParent == [G |-> "zero", a1 |-> "G", a2 |-> "a1", a3 |-> "a2", d1 |-> "G", d2 |-> "d1", d3 |-> "d2"]
MPBody   == [G  |-> <<"G">>, a1 |-> <<"a1", "t1">>, a2 |-> <<"a2", "t3">>, a3 |-> <<"a3", "t2">>,
             d1 |-> <<"d1">>, d2 |-> <<"d2", "t2">>, d3 |-> <<"d3">>]
MPTx     == MPBlock \cup {"t1", "t2", "t3"}
MPIns    == [t \in MPTx |-> CASE t = "t1" -> {<<"G", 1>>} [] t = "t2" -> {<<"G", 2>>}
                              [] t = "t3" -> {<<"t1", 1>>} [] OTHER -> {}]
MPFirst  == [t \in {"t1", "t2", "t3"} |-> CHOOSE o \in MPIns[t] : TRUE]
MPOuts   == [t \in MPTx |-> IF t \in {"G", "t1"} THEN {<<t, 1>>, <<t, 2>>} ELSE {<<t, 1>>}]
MPOut    == UNION {MPOuts[t] : t \in MPTx}
MPValue  == [o \in MPOut |-> CASE o[1] = "G" -> 8 [] o = <<"t1", 1>> -> 5 [] o = <<"t1", 2>> -> 2
                               [] o = <<"t2", 1>> -> 7 [] OTHER -> 4]
\* alice has an output of block 0 and pays t1 from it, with a token locked by a contract, and t3
\* from t1.
MPOwner  == [o \in MPOut |-> IF o \in {<<"G", 1>>, <<"t1", 1>>, <<"t2", 1>>, <<"t3", 1>>, <<"d1", 1>>}
                             THEN "alice" ELSE "other"]
MPLock   == [o \in MPOut |-> CASE o = <<"t1", 2>> -> "scy20" [] o = <<"t2", 1>> -> "vault" [] OTHER -> "standard"]
MPToken  == [o \in MPOut |-> IF MPLock[o] = "scy20" THEN 3 ELSE 0]
MPWork   == [b \in MPBlock |-> 1]
MPNames  == <<"t2", "a1", "G", "d1", "t1", "a2", "d2", "a3", "t3", "d3">>
MPOrder  == [o \in MPOut |-> 2 * (CHOOSE i \in DOMAIN MPNames : MPNames[i] = o[1]) + o[2]]
MPRoot   == [b \in MPBlock |-> LedgerAt[b]]

\* Peers
MQSubnet == [p \in Remote |-> IF p = "r3" THEN "none" ELSE "net"]

\* Wallets
MWCandidate == [k \in Owner |-> <<"n1", "n2">>]
MWOpening == {[key |-> None, path |-> None, values |-> << >>],
              [key |-> "k1", path |-> "p1", values |-> <<3, 5>>]}

\* Readers change nothing, so one at a time is enough.
OneReader == reader'.pc = "idle" \/ trace'.pc = "idle"

VARIABLE side

ServicesInit ==
  /\ side \in {"script", "contracts", "passbook", "peers", "wallets"}
  /\ EngineInit /\ ContractInit /\ BookInit /\ PeersInit /\ WalletsInit
  /\ side # "wallets" => used = {}

ServicesNext ==
  /\ UNCHANGED side
  /\ \/ side = "script"    /\ EngineNext   /\ UNCHANGED <<contractVars, bookVars, peerVars, walletVars>>
     \/ side = "contracts" /\ ContractNext /\ UNCHANGED <<engineVars, bookVars, peerVars, walletVars>>
     \/ side = "passbook"  /\ BookNext /\ OneReader /\ UNCHANGED <<engineVars, contractVars, peerVars, walletVars>>
     \/ side = "peers"     /\ PeersNext    /\ UNCHANGED <<engineVars, contractVars, bookVars, walletVars>>
     \/ side = "wallets"   /\ WalletsNext  /\ UNCHANGED <<engineVars, contractVars, bookVars, peerVars>>

ServicesSpec == ServicesInit /\ [][ServicesNext]_<<side, engineVars, contractVars, bookVars, peerVars, walletVars>>
=============================================================================
