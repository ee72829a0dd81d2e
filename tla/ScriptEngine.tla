---------------------------- MODULE ScriptEngine ----------------------------
(***************************************************************************)
(* ScytaleScript: ScriptEngine::execute of crates/scytale-script, one      *)
(* action per kind of instruction, as verify_transaction_scripts calls it  *)
(* for one input.                                                          *)
(*                                                                         *)
(* Scripts and stack items are sequences of bytes.  The widths of keys,    *)
(* signatures and integers are constants, so that a small instance has     *)
(* short ones; a digest and a signature are what Blake3 and Signed say.    *)
(***************************************************************************)
EXTENDS Integers, Sequences, FiniteSets, SequencesExt

CONSTANTS
  Unlocking,    \* the unlocking scripts (TxIn.authorization) that are tried
  Locking,      \* the locking conditions they are tried on
  ContractLock, \* locking conditions that decode to OutputLock::Script
  Heights,      \* values of current_block_height
  Blake3(_),    \* the digest of an item, an item
  Signed,       \* <<key, signature>> that verify for the sighash of the input
  KeyLen, SigLen,  \* 32 and 64 bytes
  IntWidth,     \* bytes of an integer: 8
  MaxOps,       \* DEFAULT_MAX_OPS_BUDGET
  MaxDepth,     \* MAX_STACK_DEPTH
  MaxItem,      \* MAX_ITEM_SIZE
  Ways          \* for a locking condition: who may spend it, and from which height

Byte == 0 .. 255

ASSUME ScriptAssumption ==
  /\ Unlocking \cup Locking \subseteq Seq(Byte)
  /\ Heights \subseteq Nat
  /\ MaxOps \in Nat /\ MaxDepth \in Nat /\ MaxItem \in Nat
  /\ IntWidth \in Nat \ {0}
  /\ 2 * MaxOps < MaxDepth

VARIABLES
  unlocking, locking, height,  \* the input being verified
  at,        \* "idle", "unlocking", "locking", then "accepted", "refused" or "contract"
  pc,        \* the next byte of the script
  stack,     \* the top is last
  branches,  \* branch_stack
  budget     \* instructions left for both scripts

inputVars  == <<unlocking, locking, height>>
engineVars == <<inputVars, at, pc, stack, branches, budget>>

(***************************************************************************)
(* Bytes and items.                                                        *)
(***************************************************************************)

OP_0 == 0
OP_PUSHDATA1 == 76
OP_1 == 81
OP_16 == 96
OP_IF == 99
OP_ELSE == 103
OP_ENDIF == 104
OP_DUP == 115
OP_DROP == 117
OP_SWAP == 118
OP_ROT == 119
OP_2DUP == 120
OP_EQUAL == 135
OP_EQUALVERIFY == 136
OP_ADD == 147
OP_SUB == 148
OP_LESSTHAN == 155
OP_GREATERTHAN == 156
OP_BLAKE3 == 160
OP_CHECKSIG == 172
OP_CHECKSIGVERIFY == 173
OP_CHECKLOCKTIMEVERIFY == 177

IsPushBytes(b) == b \in 1 .. 75

\* Two's complement, the low byte first; shorter items are padded with zeros.
Modulus == 256 ^ IntWidth
InRange(v) == v >= -(Modulus \div 2) /\ v < Modulus \div 2
IntItem(v) == [k \in 1 .. IntWidth |-> ((v % Modulus) \div 256 ^ (k - 1)) % 256]
IsInt(i) == Len(i) <= IntWidth
IntOf(i) ==
  LET u == FoldRight(LAMBDA b, acc : b + 256 * acc, i, 0)
  IN  IF u < Modulus \div 2 THEN u ELSE u - Modulus

BoolItem(x) == IF x THEN <<1>> ELSE << >>
Truthy(i) == \E k \in DOMAIN i : i[k] # 0

\* verify_signature
VerifySignature(key, sig) ==
  Len(key) = KeyLen /\ Len(sig) = SigLen /\ <<key, sig>> \in Signed

\* ScriptBuilder::push_data, which cuts what is longer than 255 bytes.
PushData(d) ==
  CASE Len(d) = 0   -> <<OP_0>>
    [] Len(d) \in 1 .. 75   -> <<Len(d)>> \o d
    [] Len(d) \in 76 .. 255 -> <<OP_PUSHDATA1, Len(d)>> \o d
    [] OTHER        -> <<OP_PUSHDATA1, 255>> \o SubSeq(d, 1, 255)

\* ScriptBuilder::push_int
PushInt(v) == IF v \in 1 .. 16 THEN <<OP_1 + v - 1>>
              ELSE PushData(IF v = 0 THEN << >> ELSE IntItem(v))

\* The locking condition of a wallet or a miner.
PayToKey(key) ==
  <<OP_DUP, OP_BLAKE3>> \o PushData(Blake3(key)) \o <<OP_EQUALVERIFY, OP_CHECKSIG>>

(***************************************************************************)
(* ScriptStack.  An operation that fails has no result.                    *)
(***************************************************************************)

Top(s, k) == s[Len(s) + 1 - k]
Below(s, k) == SubSeq(s, 1, Len(s) - k)

Push(s, i) == IF Len(s) < MaxDepth /\ Len(i) <= MaxItem THEN {Append(s, i)} ELSE {}
PushAll(s, items) ==
  IF Len(s) + Len(items) <= MaxDepth /\ \A k \in DOMAIN items : Len(items[k]) <= MaxItem
  THEN {s \o items} ELSE {}

\* One item, or two, replaced by a result.
Unary(s, F(_)) == IF Len(s) < 1 THEN {} ELSE Push(Below(s, 1), F(Top(s, 1)))
Binary(s, F(_, _)) == IF Len(s) < 2 THEN {} ELSE Push(Below(s, 2), F(Top(s, 2), Top(s, 1)))

\* Two integers replaced by a result of theirs.
Ints(s) == Len(s) >= 2 /\ IsInt(Top(s, 1)) /\ IsInt(Top(s, 2))
Arith(s, F(_, _)) ==
  IF Ints(s) /\ InRange(F(IntOf(Top(s, 2)), IntOf(Top(s, 1))))
  THEN Push(Below(s, 2), IntItem(F(IntOf(Top(s, 2)), IntOf(Top(s, 1))))) ELSE {}
Compare(s, F(_, _)) ==
  IF Ints(s) THEN Push(Below(s, 2), BoolItem(F(IntOf(Top(s, 2)), IntOf(Top(s, 1))))) ELSE {}

\* Two items removed if they agree.
Agree(s, F(_, _)) ==
  IF Len(s) >= 2 /\ F(Top(s, 2), Top(s, 1)) THEN {Below(s, 2)} ELSE {}

\* Mutant of LockTimeMet: one block early.
MutLockTimeEarly(i) == IntOf(i) >= 0 /\ IntOf(i) <= height + 1

\* OP_CHECKLOCKTIMEVERIFY
LockTimeMet(i) == IntOf(i) >= 0 /\ IntOf(i) <= height

(***************************************************************************)
(* The match of execute_script: the stacks an instruction may leave, of    *)
(* which there is one, or none if it fails or is unknown.                  *)
(***************************************************************************)

Effect(op, s) ==
  CASE op = OP_0   -> Push(s, << >>)
    [] op \in OP_1 .. OP_16 -> Push(s, IntItem(op - OP_1 + 1))
    [] op = OP_DUP  -> IF Len(s) < 1 THEN {} ELSE Push(s, Top(s, 1))
    [] op = OP_DROP -> IF Len(s) < 1 THEN {} ELSE {Below(s, 1)}
    [] op = OP_SWAP -> IF Len(s) < 2 THEN {} ELSE PushAll(Below(s, 2), <<Top(s, 1), Top(s, 2)>>)
    [] op = OP_ROT  -> IF Len(s) < 3 THEN {}
                       ELSE PushAll(Below(s, 3), <<Top(s, 2), Top(s, 1), Top(s, 3)>>)
    [] op = OP_2DUP -> IF Len(s) < 2 THEN {} ELSE PushAll(s, <<Top(s, 2), Top(s, 1)>>)
    [] op = OP_EQUAL       -> Binary(s, LAMBDA a, b : BoolItem(a = b))
    [] op = OP_EQUALVERIFY -> Agree(s, LAMBDA a, b : a = b)
    [] op = OP_ADD         -> Arith(s, LAMBDA a, b : a + b)
    [] op = OP_SUB         -> Arith(s, LAMBDA a, b : a - b)
    [] op = OP_LESSTHAN    -> Compare(s, LAMBDA a, b : a < b)
    [] op = OP_GREATERTHAN -> Compare(s, LAMBDA a, b : a > b)
    [] op = OP_BLAKE3      -> Unary(s, Blake3)
    [] op = OP_CHECKSIG       -> Binary(s, LAMBDA sig, key : BoolItem(VerifySignature(key, sig)))
    [] op = OP_CHECKSIGVERIFY -> Agree(s, LAMBDA sig, key : VerifySignature(key, sig))
    [] op = OP_CHECKLOCKTIMEVERIFY ->
         IF Len(s) >= 1 /\ IsInt(Top(s, 1)) /\ LockTimeMet(Top(s, 1)) THEN {Below(s, 1)} ELSE {}
    [] OTHER -> {}  \* OP_RETURN and bytes that are no instruction

(***************************************************************************)
(* execute_script.                                                         *)
(***************************************************************************)

Script == IF at = "unlocking" THEN unlocking ELSE locking
Running == at \in {"unlocking", "locking"}
Fetches(ops) == Running /\ pc <= Len(Script) /\ Script[pc] \in ops
Active == \A k \in DOMAIN branches : branches[k]

Refuse == at' = "refused" /\ UNCHANGED <<inputVars, pc, stack, branches, budget>>

\* One instruction of the budget is used for the stack s, if both are there.
Charge(results) ==
  IF budget > 0 /\ results # {}
  THEN budget' = budget - 1 /\ stack' \in results
  ELSE FALSE

EngineInit ==
  /\ unlocking = << >> /\ locking = << >> /\ height = 0
  /\ at = "idle" /\ pc = 1 /\ stack = << >> /\ branches = << >> /\ budget = MaxOps

\* An input comes to be verified; the lock of a contract is left to the VM.
Verify(u, l, h) ==
  /\ unlocking' = u /\ locking' = l /\ height' = h
  /\ at' = IF l \in ContractLock THEN "contract" ELSE "unlocking"
  /\ UNCHANGED <<pc, stack, branches, budget>>

\* The pool besides refuses an empty authorization.
RefuseEmpty(l, h) ==
  /\ at' = "refused"
  /\ unlocking' = << >> /\ locking' = l /\ height' = h
  /\ UNCHANGED <<pc, stack, branches, budget>>

\* OP_IF pops its condition, unless it is skipped itself.
If ==
  /\ Fetches({OP_IF})
  /\ IF ~ Active
     THEN branches' = Append(branches, FALSE) /\ UNCHANGED <<stack, budget>>
     ELSE /\ stack # << >> /\ Charge({Below(stack, 1)})
          /\ branches' = Append(branches, Truthy(Top(stack, 1)))
  /\ pc' = pc + 1
  /\ UNCHANGED <<inputVars, at>>

\* OP_ELSE turns the innermost branch if the ones around it are taken.
Else ==
  /\ Fetches({OP_ELSE})
  /\ branches # << >>
  /\ branches' = IF \A k \in 1 .. Len(branches) - 1 : branches[k]
                 THEN [branches EXCEPT ![Len(branches)] = ~ @] ELSE branches
  /\ pc' = pc + 1
  /\ UNCHANGED <<inputVars, at, stack, budget>>

EndIf ==
  /\ Fetches({OP_ENDIF})
  /\ branches # << >>
  /\ branches' = Front(branches)
  /\ pc' = pc + 1
  /\ UNCHANGED <<inputVars, at, stack, budget>>

\* The bytes an instruction at p takes for its data, and those before the data.
Lead(s, p) == IF s[p] = OP_PUSHDATA1 THEN 2 ELSE 1
DataLen(s, p) == IF s[p] = OP_PUSHDATA1 THEN s[p + 1] ELSE s[p]
IsPush(s, p) == s[p] = OP_PUSHDATA1 \/ IsPushBytes(s[p])
Truncated(s, p) ==
  IsPush(s, p) /\ \/ Lead(s, p) + p - 1 > Len(s)
                  \/ p + Lead(s, p) + DataLen(s, p) - 1 > Len(s)
After(s, p) == IF IsPush(s, p) THEN p + Lead(s, p) + DataLen(s, p) ELSE p + 1

\* The data of the push at p.
Data(p) == SubSeq(Script, p + Lead(Script, p), After(Script, p) - 1)

\* Mutant of Skips: the data of a push that is not taken is read as instructions.
MutSkips(p) == IF Active THEN After(Script, p) ELSE p + 1

\* The program counter passes over the data in every branch.
Skips(p) == After(Script, p)

\* Mutant of PushCharged: data is pushed free of charge.
MutPushFree(item) == stack' \in Push(stack, item) /\ UNCHANGED budget

PushCharged(item) == Charge(Push(stack, item))

\* OP_PUSHBYTES_n and OP_PUSHDATA1
PushBytes ==
  /\ Running /\ pc <= Len(Script)
  /\ IsPush(Script, pc) /\ ~ Truncated(Script, pc)
  /\ IF Active
     THEN PushCharged(Data(pc))
     ELSE UNCHANGED <<stack, budget>>
  /\ pc' = Skips(pc)
  /\ UNCHANGED <<inputVars, at, branches>>

Control == {OP_IF, OP_ELSE, OP_ENDIF}

\* Every other instruction.
Execute ==
  /\ Running /\ pc <= Len(Script)
  /\ Script[pc] \notin Control /\ ~ IsPush(Script, pc)
  /\ IF Active THEN Charge(Effect(Script[pc], stack)) ELSE UNCHANGED <<stack, budget>>
  /\ pc' = pc + 1
  /\ UNCHANGED <<inputVars, at, branches>>

\* An instruction ends with an error, and the input is refused.
Fault ==
  /\ Running /\ pc <= Len(Script)
  /\ \/ Script[pc] \in {OP_ELSE, OP_ENDIF} /\ branches = << >>
     \/ Script[pc] = OP_IF /\ Active /\ (budget = 0 \/ stack = << >>)
     \/ Truncated(Script, pc)
     \/ /\ IsPush(Script, pc) /\ ~ Truncated(Script, pc) /\ Active
        /\ budget = 0 \/ Push(stack, Data(pc)) = {}
     \/ /\ Script[pc] \notin Control /\ ~ IsPush(Script, pc) /\ Active
        /\ budget = 0 \/ Effect(Script[pc], stack) = {}
  /\ Refuse

\* The end of a script: its conditionals are closed, and the next one begins.
EndScript ==
  /\ Running /\ pc > Len(Script)
  /\ branches = << >>
  /\ at' = CASE at = "unlocking" -> "locking"
             [] at = "locking" /\ stack # << >> /\ Truthy(Top(stack, 1)) -> "accepted"
             [] OTHER -> "refused"
  /\ pc' = 1
  /\ UNCHANGED <<inputVars, stack, branches, budget>>

\* ... or they are not.
Unbalanced ==
  /\ Running /\ pc > Len(Script)
  /\ branches # << >>
  /\ Refuse

EngineStep == If \/ Else \/ EndIf \/ PushBytes \/ Execute \/ Fault \/ EndScript \/ Unbalanced

EngineNext ==
  \/ /\ at = "idle"
     /\ \/ \E u \in Unlocking, l \in Locking, h \in Heights : Verify(u, l, h)
        \/ \E l \in Locking, h \in Heights : RefuseEmpty(l, h)
  \/ EngineStep

EngineSpec == EngineInit /\ [][EngineNext]_engineVars

(***************************************************************************)
(* Properties.                                                             *)
(***************************************************************************)

\* The budget, not MAX_STACK_DEPTH, limits the stack: an instruction adds at most
\* two items and is charged one, over both scripts, so that StackOverflow of
\* stack.rs:41 is never returned.
StackWithinBudget == Len(stack) <= 2 * (MaxOps - budget)

\* Where the instructions of a script begin, whatever branches are taken.
Begins(s) ==
  FoldLeftDomain(LAMBDA set, p : IF p \in set /\ ~ Truncated(s, p) THEN set \cup {After(s, p)} ELSE set,
                 {1}, s)

\* branch_stack follows the text of the script and not the data in it: its depth
\* is the number of OP_IF less that of OP_ENDIF among the instructions passed,
\* also over data that looks like them in a branch that is not taken.
StructureFollowed ==
  Running =>
    LET passed == {p \in Begins(Script) : p < pc}
        among(op) == {p \in passed : Script[p] = op}
    IN  /\ pc \in Begins(Script)
        /\ Len(branches) = Cardinality(among(OP_IF)) - Cardinality(among(OP_ENDIF))

\* Whatever the unlocking script does to the stack they share, a locking condition
\* is satisfied only by a signature of one of those who may spend it, from the
\* height on that holds for them.
SpendAuthorized ==
  at = "accepted" /\ locking \in DOMAIN Ways =>
    \E w \in Ways[locking] :
      /\ height >= w.from
      /\ \E k \in 1 .. Len(unlocking) + 1 - Len(w.sig) : SubSeq(unlocking, k, k + Len(w.sig) - 1) = w.sig
=============================================================================
