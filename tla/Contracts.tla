------------------------------ MODULE Contracts ------------------------------
(***************************************************************************)
(* Outputs locked by a contract: verify_transaction_eutxo of the core, the *)
(* fuel of ScyVM, the two contracts of the repository (vault and SCY-20)   *)
(* and the gates a transaction passes: admission to the pool, on the clock *)
(* of the node; validate_block_transactions, on the time of the block and  *)
(* with one budget of gas for all of it; and readmission after a           *)
(* reorganisation, which runs no contract.                                 *)
(*                                                                         *)
(* A contract's bytecode is given by what it computes and the fuel it      *)
(* takes.  A signature is the key that signed the transaction's body.      *)
(* Tokens of one id are modelled; amounts stay far below the 128 bits of   *)
(* the code.  An output is known by the transaction that made it.          *)
(***************************************************************************)
EXTENDS Naturals, Sequences, FiniteSets, FiniteSetsExt, SequencesExt

CONSTANTS
  Key, Issuer,   \* keys; the authority of the token
  Rescuer,       \* emergency_key of the vaults
  Payee,         \* bound: the keys that outputs are made for
  MaxAmount,     \* bound: amounts and supplies in a datum
  MaxSupply,     \* max_supply of the registry
  FirstSupply,   \* current_supply at the start, all of it with the issuer
  UnlockTime, Penalty,  \* of the vaults
  Fuel,          \* fuel that a run of each kind of validator takes
  MaxTxGas, MaxBlockGas, MaxWasmFuel,
  MaxClock,      \* bound on time
  MaxSigned,     \* bound: transactions that wallets sign
  MaxHeight,     \* bound: blocks of the chain
  MaxPending     \* transactions the pool has room for

ASSUME ContractAssumption ==
  /\ {Issuer, Rescuer} \cup Payee \subseteq Key
  /\ FirstSupply \in 1 .. MaxSupply /\ MaxSupply <= MaxAmount
  /\ Fuel \in [{"scy20", "vault"} -> Nat]
  /\ {MaxAmount, MaxSupply, UnlockTime, MaxClock} \subseteq Nat

VARIABLES
  signed,     \* the transactions wallets have signed, for whoever passes them on
  live,       \* the UTXO set
  undo,       \* the blocks of the chain: the set before, and the transactions
  now,        \* the clock
  pending,    \* the transactions of the pool
  kin,        \* parent_to_children, as <<parent, child>> pairs
  readmitted  \* history: those in the pool that on_reorg brought back

contractVars == <<signed, live, undo, now, pending, kin, readmitted>>

(***************************************************************************)
(* Datums.                                                                 *)
(***************************************************************************)

DatumOf(kind, k, a, n, max) == [kind |-> kind, owner |-> k, amount |-> a, nonce |-> n, max |-> max]

Token(k, a) == DatumOf("token", k, a, 0, 0)
Vault(k)    == DatumOf("vault", k, 0, 0, 0)

\* With its authority; max_supply: None is a limit no amount reaches.
Registry(k, s, n, max) == DatumOf("registry", k, s, n, max)

\* An output without a contract: it is no datum to a validator.
Coin == DatumOf("coin", Issuer, 0, 0, 0)

\* Where bincode::deserialize of a TokenRegistryDatum succeeds: a token's bytes are
\* too short.
AsRegistry(s) == {i \in DOMAIN s : s[i].kind = "registry"}

\* Where bincode::deserialize of a Scy20Datum succeeds: it leaves trailing bytes alone,
\* and a registry begins like a token, with an id, a key and an amount.
AsTokens(s) == {i \in DOMAIN s : s[i].kind \in {"token", "registry"}}

\* The amounts of the datums at the positions P of s
Amount(s, P) == MapThenSumSet(LAMBDA i : s[i].amount, P)

\* The sum of f[1], ..., f[n]
SumUpTo(f, n) == LET sum[k \in 0 .. n] == IF k = 0 THEN 0 ELSE sum[k - 1] + f[k] IN sum[n]

(***************************************************************************)
(* The contracts.                                                          *)
(***************************************************************************)

\* verify_ed25519 over the hash of the body, which leaves out the witnesses
VerifyEd25519(key, r) == r.signer = key

\* validate of the vault
ValidateVault(d, r, t, time) ==
  \/ r.op = "withdraw" /\ time >= UnlockTime /\ VerifyEd25519(d.owner, r)
  \/ r.op = "rescue" /\ r.accepted /\ t.fee >= Penalty /\ VerifyEd25519(Rescuer, r)

\* canonical_token_total: none if an amount is zero
CanonicalTotal(s) ==
  IF \E i \in AsTokens(s) : s[i].amount = 0 THEN {} ELSE {Amount(s, AsTokens(s))}

\* Mutant of SupplyChange: a transfer need not keep the total.
MutSupplyChange(op, in, out) ==
  CASE op = "mint" /\ out >= in -> {out - in}
    [] op = "burn" /\ in >= out -> {in - out}
    [] op = "transfer"          -> {0}
    [] OTHER                    -> {}

\* By how much an operation moves the supply, if it may.
SupplyChange(op, in, out) ==
  CASE op = "mint" /\ out >= in     -> {out - in}
    [] op = "burn" /\ in >= out     -> {in - out}
    [] op = "transfer" /\ in = out  -> {0}
    [] OTHER                        -> {}

\* expected_supply of a registry with supply s
Expected(op, s, change) ==
  CASE op = "burn" -> {s - c : c \in {x \in change : x <= s}}
    [] OTHER       -> {s + c : c \in change}

\* validate_scy20_execution, for the input with datum d
ValidateScy20(d, r, ins, outs) ==
  /\ AsRegistry(ins) # {} /\ AsRegistry(outs) # {}
  /\ LET reg  == ins[Min(AsRegistry(ins))]
         next == outs[Min(AsRegistry(outs))]
     IN  /\ VerifyEd25519(IF r.op = "mint" THEN reg.owner ELSE d.owner, r)
         /\ r.nonce = reg.nonce /\ next.nonce = reg.nonce + 1
         /\ \E in \in CanonicalTotal(ins), out \in CanonicalTotal(outs) :
              next.amount \in Expected(r.op, reg.amount, SupplyChange(r.op, in, out))
         /\ next.owner = reg.owner /\ next.max = reg.max
         /\ next.amount <= reg.max

(***************************************************************************)
(* verify_transaction_eutxo.                                               *)
(***************************************************************************)

Datums(t) == [i \in DOMAIN t.ins |-> t.ins[i].d]

\* Fuel the contract of a datum takes
FuelOf(d) ==
  CASE d.kind = "coin"  -> 0
    [] d.kind = "vault" -> Fuel["vault"]
    [] OTHER            -> Fuel["scy20"]

\* Fuel used by the first i inputs, each run with what the ones before have left.
Used(t, i) == SumUpTo([k \in DOMAIN t.ins |-> FuelOf(t.ins[k].d)], i)

Fueled(t) ==
  \A i \in DOMAIN t.ins :
    /\ Used(t, i) <= MaxTxGas
    /\ FuelOf(t.ins[i].d) <= MaxWasmFuel

Gas(t) == Used(t, Len(t.ins))

\* The contract of input i agrees.
Agrees(t, i, time) ==
  LET d == t.ins[i].d
  IN CASE d.kind = "coin"  -> TRUE
       [] d.kind = "vault" -> ValidateVault(d, t.red[i], t, time)
       [] OTHER            -> ValidateScy20(d, t.red[i], Datums(t), t.outs)

ContractsAgree(t, time) == (\A i \in DOMAIN t.ins : Agrees(t, i, time)) /\ Fueled(t)

\* Every input is there and every contract agrees.
VerifyEutxo(t, time, set) ==
  /\ \A i \in DOMAIN t.ins : t.ins[i] \in set
  /\ ContractsAgree(t, time)

(***************************************************************************)
(* Transactions a wallet may sign, given the outputs there are.            *)
(***************************************************************************)

Redeemers(ops, n, accepted) == [op : ops, signer : Key, nonce : {n}, accepted : accepted]

Spending(ins, outs, red, fee) == [ins |-> ins, outs |-> outs, red |-> red, fee |-> fee]

Of(kinds, set) == {o \in set : o.d.kind \in kinds}

\* (validate_scy20_execution refuses an amount of zero.)
Amounts == 1 .. MaxAmount

\* A registry, alone, with a token or with another registry.
TokenOuts(n, max) ==
  LET first == {Registry(k, s, n, max) : k \in Key, s \in Amounts}
      more  == {Token(k, a) : k \in Payee, a \in Amounts} \cup {Registry(k, 1, n, max) : k \in Payee}
  IN  {<<r>> : r \in first} \cup {<<r, d>> : r \in first, d \in more}

\* A transaction of the token: a registry alone, or with a token or another registry.
TokenTx(set, A(_)) ==
  \E r \in Of({"registry"}, set), op \in {"transfer", "mint", "burn"} :
    \E x \in Redeemers({op}, r.d.nonce, {FALSE}), o \in TokenOuts(r.d.nonce + 1, r.d.max) :
      \/ A(Spending(<<r>>, o, <<x>>, 0))
      \/ \E t \in Of({"token", "registry"}, set) \ {r}, y \in Redeemers({op}, r.d.nonce, {FALSE}) :
           A(Spending(<<r, t>>, o, <<x, y>>, 0))

VaultTx(set, A(_)) ==
  \E v \in Of({"vault"}, set) :
    \/ \E x \in Redeemers({"withdraw"}, 0, {FALSE}) : A(Spending(<<v>>, << >>, <<x>>, 0))
    \/ \E x \in Redeemers({"rescue"}, 0, BOOLEAN), f \in {0, Penalty} : A(Spending(<<v>>, << >>, <<x>>, f))

\* No validator sees an output made: anyone may create a token's or a registry's datum.
IssueTx(set, A(_)) ==
  \E c \in Of({"coin"}, set), k \in Payee :
    \E d \in {Token(k, 1), Registry(k, 1, 0, MaxSupply)}, x \in Redeemers({"pay"}, 0, {FALSE}) :
      x.signer = c.d.owner /\ A(Spending(<<c>>, <<d>>, <<x>>, 0))

SomeTx(set, A(_)) == TokenTx(set, A) \/ VaultTx(set, A) \/ IssueTx(set, A)

(***************************************************************************)
(* Outputs and blocks.                                                     *)
(***************************************************************************)

OutputsOf(t) == {[of |-> t, at |-> i, d |-> t.outs[i]] : i \in DOMAIN t.outs}

\* apply_block, for the transactions ts: an output is made once, by its transaction.
Applied(set, ts) ==
  (set \cup UNION {OutputsOf(ts[i]) : i \in DOMAIN ts}) \ UNION {ToSet(ts[i].ins) : i \in DOMAIN ts}

BlockGas(ts) == SumUpTo([i \in DOMAIN ts |-> Gas(ts[i])], Len(ts))

\* Mutant of BlockValid: the block's gas is counted, but its contracts are not run.
MutBlockValid(ts, time, set) ==
  /\ \A i \in DOMAIN ts : \A k \in DOMAIN ts[i].ins :
       ts[i].ins[k] \in Applied(set, SubSeq(ts, 1, i - 1))
  /\ BlockGas(ts) <= MaxBlockGas

\* validate_block_transactions, on the set before the block
BlockValid(ts, time, set) ==
  /\ \A i \in DOMAIN ts : VerifyEutxo(ts[i], time, Applied(set, SubSeq(ts, 1, i - 1)))
  /\ BlockGas(ts) <= MaxBlockGas

(***************************************************************************)
(* The pool.                                                               *)
(***************************************************************************)

FirstTx ==
  Spending(<< >>, <<Registry(Issuer, FirstSupply, 0, MaxSupply), Token(Issuer, FirstSupply), Vault(Issuer), Coin>>,
           << >>, 0)

ContractInit ==
  /\ signed = {}
  /\ live = OutputsOf(FirstTx) /\ undo = << >>
  /\ now = 0
  /\ pending = {} /\ kin = {} /\ readmitted = {}

TimePasses ==
  /\ now < MaxClock
  /\ now' = now + 1
  /\ UNCHANGED <<signed, live, undo, pending, kin, readmitted>>

\* Bound: a transaction that a contract refuses at all times is signed alone.
Sign(t) ==
  /\ signed = {} \/ ContractsAgree(t, MaxClock)
  /\ signed' = signed \cup {t}
  /\ UNCHANGED <<live, undo, now, pending, kin, readmitted>>

MaySign == Cardinality(signed) < MaxSigned /\ \A t \in signed : ContractsAgree(t, MaxClock)

Conflicts(t, u) == ToSet(t.ins) \cap ToSet(u.ins) # {}

\* What of the inputs of t a pool with the entries p would have to make.
Unconfirmed(t, set) == {o \in ToSet(t.ins) : o \notin set}

\* The checks of admit_transaction that concern the pool.
Admissible(p, t, set) ==
  /\ Cardinality(p) < MaxPending
  /\ t \notin p /\ \A u \in p : ~ Conflicts(t, u)
  /\ \A o \in Unconfirmed(t, set) : o.of \in p

\* submit_transaction: the contracts are run on the clock of the node.
SubmitContract(t) ==
  /\ Admissible(pending, t, live)
  /\ VerifyEutxo(t, now, live)
  /\ pending' = pending \cup {t}
  /\ UNCHANGED <<signed, live, undo, now, kin, readmitted>>

\* The entries of p that depend on those of S, by the links.
Reach(links, S, p) ==
  LET grow[n \in 0 .. Cardinality(p)] ==
        IF n = 0 THEN S
        ELSE grow[n - 1] \cup {x[2] : x \in {y \in links : y[1] \in grow[n - 1]}}
  IN  grow[Cardinality(p)]

\* An input is neither in the set nor an output of an entry.
Broken(p, set) == {u \in p : \E o \in Unconfirmed(u, set) : o.of \notin p}

\* on_block_connected: what the block confirms leaves, then what it broke.
Connected(p, links, ts, set) ==
  LET rest == p \ ToSet(ts)
  IN  rest \ Reach({x \in links : x[2] \in rest}, Broken(rest, set), rest)

\* The pool after the entries p with the links were told of the block ts.
PoolAfter(p, links, back, ts, set) ==
  /\ pending' = Connected(p, links, ts, set)
  /\ kin' = {x \in links : x[2] \in pending'}
  /\ readmitted' = back \cap pending'

Layer(set, ts) == [set |-> set, txs |-> ts]

\* The tip is extended.
ConnectContracts(ts, time) ==
  /\ Len(undo) < MaxHeight
  /\ BlockValid(ts, time, live)
  /\ live' = Applied(live, ts)
  /\ undo' = Append(undo, Layer(live, ts))
  /\ PoolAfter(pending, kin, readmitted, ts, live')
  /\ UNCHANGED <<signed, now>>

\* A peer's block has a date of the peer's.
PeerBlock(ts, time) == ConnectContracts(ts, time)

(***************************************************************************)
(* A reorganisation: n blocks are undone and n + 1 of a branch connected.  *)
(***************************************************************************)

\* transactions_for_mempool: those of the last n blocks, from the tip down
Returned(n) == FlattenSeq([i \in 1 .. n |-> undo[Len(undo) + 1 - i].txs])

\* For a transaction that the branch does not hold: admit_transaction with
\* ConsensusScriptVerifier, which lets every lock of a contract pass.
Readmit(p, t, branch, set) ==
  IF t \in ToSet(branch) \/ ~ Admissible(p.entries, t, set) THEN p
  ELSE [entries |-> p.entries \cup {t},
        links   |-> p.links \cup {<<o.of, t>> : o \in Unconfirmed(t, set)},
        back    |-> p.back \cup {t}]

\* on_reorg
OnReorg(txs, branch, set) ==
  FoldLeft(LAMBDA p, t : Readmit(p, t, branch, set),
           [entries |-> pending, links |-> kin, back |-> readmitted], txs)

\* pre_validate_reorg_branch, process_block, on_reorg and on_block_connected, which is
\* told of the last block alone.  Bound: all transactions of the branch are in its block j.
Reorganise(n, ts, j, time) ==
  LET h    == Len(undo)
      base == undo[h + 1 - n].set
      new  == Applied(base, ts)
      At(i) == IF i = j THEN ts ELSE << >>
      pool == OnReorg(Returned(n), ts, new)
  IN  /\ h < MaxHeight
      /\ BlockValid(ts, time, base)
      /\ live' = new
      /\ undo' = SubSeq(undo, 1, h - n) \o [i \in 1 .. n + 1 |-> Layer(IF i <= j THEN base ELSE new, At(i))]
      /\ PoolAfter(pool.entries, pool.links, pool.back, At(n + 1), new)
      /\ UNCHANGED <<signed, now>>

(***************************************************************************)
(* The worker.                                                             *)
(***************************************************************************)

Takes(ts, t) == t \notin ToSet(ts) /\ ToSet(t.ins) \subseteq Applied(live, ts)

\* build_template takes what applies, makers before spenders, whatever gas it needs.
Templates ==
  {ts \in UNION {[1 .. n -> pending] : n \in 1 .. Cardinality(pending)} :
    /\ \A i \in DOMAIN ts : Takes(SubSeq(ts, 1, i - 1), ts[i])
    /\ \A t \in pending : ~ Takes(ts, t)}

\* The worker's block, dated by the clock or, after a tip with a later date, above it.
MineContracts(ts, time) ==
  /\ time >= now
  /\ ConnectContracts(ts, time)

\* The node refuses its own block: the next template holds the same transactions.
MineRefused(ts) ==
  /\ ~ BlockValid(ts, now, live)
  /\ UNCHANGED contractVars

\* Bound: a peer's block on the tip holds one or two transactions.
Bodies == {<<t>> : t \in signed} \cup {<<t, u>> : t, u \in signed}

ContractNext ==
  \/ TimePasses
  \/ MaySign /\ SomeTx(live \cup UNION {OutputsOf(t) : t \in signed}, Sign)
  \/ \E t \in signed : SubmitContract(t)
  \/ \E ts \in Bodies, time \in 0 .. MaxClock : PeerBlock(ts, time)
  \/ \E n \in 1 .. Len(undo), time \in 0 .. MaxClock :
       \E j \in 1 .. n + 1, ts \in {<< >>} \cup {<<t>> : t \in signed} : Reorganise(n, ts, j, time)
  \/ \E ts \in Templates, time \in 0 .. MaxClock : MineContracts(ts, time)
  \/ \E ts \in Templates : MineRefused(ts)

ContractSpec == ContractInit /\ [][ContractNext]_contractVars

(***************************************************************************)
(* Properties.                                                             *)
(***************************************************************************)

\* All that canonical_token_total counts but the registry whose supply is compared.
Others(s) == AsTokens(s) \ {Min(AsRegistry(s))}

\* A transaction the validator let through makes as much in tokens and further registries as
\* it spends, whether it mints, burns or transfers: a registry is decoded as a token too, so
\* that the supply it states is on both sides of the sum, and a change of the tokens is never
\* the change of the supply, which types.rs has these operations for.  Tokens can come of a
\* second registry alone, which anyone may make.
TokensKept ==
  \A t \in pending : (\E i \in DOMAIN t.ins : t.ins[i].d.kind \in {"token", "registry"}) =>
    Amount(Datums(t), Others(Datums(t))) = Amount(t.outs, Others(t.outs))

\* Although on_reorg runs no contract, no pending transaction is one its contracts have not
\* agreed to: they would from the opening of the vaults on, and at the clock and after it
\* unless it came back from a block with a later date.
PendingAllowed ==
  \A t \in pending, time \in 0 .. MaxClock :
    time >= UnlockTime \/ (time >= now /\ t \notin readmitted) => ContractsAgree(t, time)
=============================================================================
