--------------------------- MODULE ServicesProofs ---------------------------
(***************************************************************************)
(* Proofs about the parts beside the chain: contracts in the pool, the     *)
(* budget, the structure and the key locks of scripts, the rate of a       *)
(* peer's requests, account numbers and the statements, journals and       *)
(* lineages of the passbook, for every value of their constants.           *)
(***************************************************************************)
EXTENDS ScriptEngine, Contracts, Passbook, Peers, Wallets, LedgerTheorems

-----------------------------------------------------------------------------
(***************************************************************************)
(* Contracts in the pool.  What the contracts agree to once, they agree to *)
(* later, and from the opening of the vaults on whenever it was: only a    *)
(* vault looks at the time.                                                *)
(***************************************************************************)

Datum ==
  [kind : {"token", "registry", "vault", "coin"}, owner : Key, amount : Nat, nonce : Nat, max : Nat]

\* A transaction with datums on both sides
Typed(t) == t.outs \in Seq(Datum) /\ Datums(t) \in Seq(Datum)

\* A transaction that the contracts agree to once the vaults are open
Allowed(t) == \A time \in Nat : time >= UnlockTime => ContractsAgree(t, time)

\* Outputs and transactions as the chain and the pool may hold them
Vetted(T, D) ==
  /\ \A o \in D : o.d \in Datum
  /\ \A t \in T : Typed(t) /\ Allowed(t)

\* What the steps keep.
ContractIInv ==
  /\ now \in Nat
  /\ \A t \in signed : Typed(t)
  /\ \A t \in pending \ readmitted, time \in Nat : time >= now => ContractsAgree(t, time)
  /\ \E T, D : /\ Vetted(T, D)
               /\ live \in SUBSET D /\ pending \in SUBSET T
               /\ undo \in Seq([set : SUBSET D, txs : Seq(T)])

\* A sequence over a set is one over a larger set, and its elements are of the set.
LEMMA SeqOver ==
  ASSUME NEW A, NEW B, A \subseteq B
  PROVE  Seq(A) \subseteq Seq(B) /\ \A u \in Seq(A) : \A i \in 1 .. Len(u) : u[i] \in A
OBVIOUS

\* What the contracts agree to at one time, they agree to later and when the vaults are
\* open (verify_transaction_eutxo).
LEMMA StaysAllowed ==
  ASSUME NEW t, NEW time \in Nat, ContractsAgree(t, time),
         NEW other \in Nat, time <= other \/ UnlockTime <= other
  PROVE  ContractsAgree(t, other)
<1>1. UnlockTime \in Nat
  BY ContractAssumption
<1>2. ASSUME NEW d, NEW r, ValidateVault(d, r, t, time) PROVE ValidateVault(d, r, t, other)
  BY <1>1, <1>2 DEF ValidateVault
<1>3. ASSUME NEW i \in DOMAIN t.ins PROVE Agrees(t, i, other)
  <2>1. Agrees(t, i, time)
    BY DEF ContractsAgree
  <2>2. CASE t.ins[i].d.kind = "vault"
    BY <1>2, <2>1, <2>2 DEF Agrees
  <2>3. CASE t.ins[i].d.kind # "vault"
    BY <2>1, <2>3 DEF Agrees
  <2> QED BY <2>2, <2>3
<1> QED BY <1>3 DEF ContractsAgree

\* The outputs of a transaction have its datums.
LEMMA OutputsTyped ==
  ASSUME NEW t, t.outs \in Seq(Datum), NEW o \in OutputsOf(t)
  PROVE  o.d \in Datum
<1>1. PICK k \in DOMAIN t.outs : o = [of |-> t, at |-> k, d |-> t.outs[k]]
  BY DEF OutputsOf
<1>2. o.d = t.outs[k]
  BY <1>1
<1>3. \A s \in Seq(Datum) : \A m \in DOMAIN s : s[m] \in Datum
  OBVIOUS
<1> QED BY <1>1, <1>2, <1>3

\* apply_block adds the outputs of the block's transactions at most.
LEMMA AppliedTyped ==
  ASSUME NEW D, \A o \in D : o.d \in Datum, NEW set \in SUBSET D,
         NEW ts, \A i \in DOMAIN ts : ts[i].outs \in Seq(Datum)
  PROVE  \A o \in Applied(set, ts) : o.d \in Datum
<1>1. ASSUME NEW i \in DOMAIN ts, NEW o \in OutputsOf(ts[i]) PROVE o.d \in Datum
  BY OutputsTyped
<1> QED BY <1>1 DEF Applied

\* A valid block adds sound transactions and sound outputs (validate_block_transactions).
LEMMA ValidSound ==
  ASSUME NEW T, NEW D, Vetted(T, D), NEW set \in SUBSET D, NEW S, \A t \in S : Typed(t),
         NEW ts \in Seq(S), NEW time \in Nat, BlockValid(ts, time, set)
  PROVE  \E T2, D2 : /\ Vetted(T2, D2) /\ T \subseteq T2 /\ D \subseteq D2
                     /\ ts \in Seq(T2) /\ Applied(set, ts) \in SUBSET D2
<1> DEFINE T2 == T \cup {ts[i] : i \in DOMAIN ts}
           D2 == D \cup Applied(set, ts)
<1>0. DOMAIN ts = 1 .. Len(ts) /\ Len(ts) \in Nat /\ \A i \in DOMAIN ts : ts[i] \in S
  OBVIOUS
<1>1. ASSUME NEW i \in DOMAIN ts PROVE Typed(ts[i]) /\ Allowed(ts[i])
  <2>1. Typed(ts[i])
    BY <1>0
  <2>2. ContractsAgree(ts[i], time)
    BY DEF BlockValid, VerifyEutxo
  <2> QED BY <2>1, <2>2, StaysAllowed DEF Allowed
<1>2. \A o \in Applied(set, ts) : o.d \in Datum
  <2>1. \A i \in DOMAIN ts : ts[i].outs \in Seq(Datum)
    BY <1>1 DEF Typed
  <2>2. \A o \in D : o.d \in Datum
    BY DEF Vetted
  <2> QED BY <2>1, <2>2, AppliedTyped
<1>3. ts \in Seq(T2)
  <2>1. ts \in [1 .. Len(ts) -> T2]
    BY <1>0
  <2> QED BY <1>0, <2>1
<1>4. Vetted(T2, D2)
  BY <1>1, <1>2 DEF Vetted
<1> HIDE DEF T2
<1>5. Applied(set, ts) \in SUBSET D2 /\ D \subseteq D2
  OBVIOUS
<1>6. T \subseteq T2
  BY DEF T2
<1> HIDE DEF D2
<1> QED BY <1>3, <1>4, <1>5, <1>6

-----------------------------------------------------------------------------
(***************************************************************************)
(* on_reorg, as a fold over the transactions of the blocks undone.         *)
(***************************************************************************)

ReadmitStep(f, x, base, s, branch, set) ==
  IF x = {} THEN base ELSE Readmit(f[x \ {Max(x)}], s[Max(x)], branch, set)

\* f is the function that FoldLeft recurses with.
ReadmitsBy(f, base, s, branch, set, n) ==
  f = [x \in SUBSET (1 .. n) |-> ReadmitStep(f, x, base, s, branch, set)]

\* The recursion of FoldLeft in on_reorg defines a function.
LEMMA ReadmitsExist ==
  ASSUME NEW base, NEW s, NEW branch, NEW set, NEW n \in Nat
  PROVE  \E f : ReadmitsBy(f, base, s, branch, set, n)
<1> DEFINE Small(k) == {x \in SUBSET (1 .. n) : Cardinality(x) <= k}
           Turn(f, x) == ReadmitStep(f, x, base, s, branch, set)
           Good(f, k) == f = [x \in Small(k) |-> Turn(f, x)]
           T == {k \in Nat : \E f : Good(f, k)}
<1>1. 0 \in T
  <2> DEFINE f == [x \in Small(0) |-> base]
  <2>1. ASSUME NEW x \in Small(0) PROVE x = {}
    <3>1. x \in SUBSET (1 .. n) /\ Cardinality(x) <= 0
      OBVIOUS
    <3>2. Cardinality(x) \in Nat /\ (Cardinality(x) = 0 <=> x = {})
      BY <3>1, LastOut
    <3> QED BY <3>1, <3>2
  <2>2. f = [x \in Small(0) |-> Turn(f, x)]
    BY <2>1 DEF ReadmitStep
  <2> QED BY <2>2
<1>2. ASSUME NEW k \in Nat, k \in T PROVE k + 1 \in T
  <2>1. PICK f : Good(f, k)
    BY <1>2
  <2> DEFINE g == [x \in Small(k + 1) |-> IF x \in Small(k) THEN f[x] ELSE Turn(f, x)]
  <2>2. ASSUME NEW x \in Small(k + 1) PROVE g[x] = Turn(g, x)
    <3>1. ASSUME x # {} PROVE x \ {Max(x)} \in Small(k) /\ x \ {Max(x)} \in Small(k + 1)
      <4>1. x \in SUBSET (1 .. n) /\ Cardinality(x) <= k + 1
        OBVIOUS
      <4>2. /\ Cardinality(x) \in Nat /\ Cardinality(x \ {Max(x)}) = Cardinality(x) - 1
            /\ x \ {Max(x)} \in SUBSET (1 .. n)
        BY <3>1, <4>1, LastOut
      <4>3. Cardinality(x \ {Max(x)}) <= k /\ Cardinality(x \ {Max(x)}) <= k + 1
        BY <4>1, <4>2
      <4> QED BY <4>2, <4>3
    <3>2. Turn(g, x) = Turn(f, x)
      BY <3>1 DEF ReadmitStep
    <3>3. x \in Small(k) => f[x] = Turn(f, x)
      <4> HIDE DEF Small, Turn
      <4> QED BY <2>1
    <3> HIDE DEF Small, Turn
    <3> QED BY <3>2, <3>3
  <2> HIDE DEF Turn, Small
  <2>3. g = [x \in Small(k + 1) |-> g[x]]
    OBVIOUS
  <2> HIDE DEF g
  <2>4. g = [x \in Small(k + 1) |-> Turn(g, x)]
    BY <2>2, <2>3
  <2> QED BY <2>4
<1>3. Nat \subseteq T
  <2> HIDE DEF T
  <2> QED BY <1>1, <1>2, OneByOne
<1>4. PICK f : Good(f, n)
  BY <1>3
<1>5. Small(n) = SUBSET (1 .. n)
  BY LastOut
<1> QED BY <1>4, <1>5 DEF ReadmitsBy

\* on_reorg brings back transactions of the blocks undone and no others.
LEMMA OnlyReturned ==
  ASSUME NEW T, NEW txs \in Seq(T), NEW branch, NEW set, pending \in SUBSET T
  PROVE  LET pool == OnReorg(txs, branch, set)
         IN  pool.entries \in SUBSET T /\ (pool.entries \ pool.back) \subseteq (pending \ readmitted)
<1> DEFINE n == Len(txs)
           base == [entries |-> pending, links |-> kin, back |-> readmitted]
           f == CHOOSE g : ReadmitsBy(g, base, txs, branch, set, n)
           Fine(p) == p.entries \in SUBSET T /\ (p.entries \ p.back) \subseteq (pending \ readmitted)
           U == {k \in Nat : k <= n => Fine(f[1 .. k])}
<1>0. n \in Nat /\ DOMAIN txs = 1 .. n /\ \A k \in 1 .. n : txs[k] \in T
  OBVIOUS
<1>1. OnReorg(txs, branch, set) = f[1 .. n]
  BY <1>0 DEF OnReorg, FoldLeft, MapThenFoldSet, ReadmitsBy, ReadmitStep
<1>2. ReadmitsBy(f, base, txs, branch, set, n)
  BY <1>0, ReadmitsExist
<1>3. Fine(base)
  OBVIOUS
<1> HIDE DEF f, base
<1>4. \A x \in SUBSET (1 .. n) : f[x] = ReadmitStep(f, x, base, txs, branch, set)
  BY <1>2 DEF ReadmitsBy
<1>5. ASSUME NEW p, NEW t \in T, Fine(p) PROVE Fine(Readmit(p, t, branch, set))
  BY <1>5 DEF Readmit
<1>6. 0 \in U
  <2>1. 1 .. 0 = {} /\ {} \in SUBSET (1 .. n)
    OBVIOUS
  <2>2. f[1 .. 0] = base
    BY <1>4, <2>1 DEF ReadmitStep
  <2> HIDE DEF Fine
  <2> QED BY <1>3, <2>2
<1>7. ASSUME NEW k \in Nat, k \in U PROVE k + 1 \in U
  <2> SUFFICES ASSUME k + 1 <= n PROVE Fine(f[1 .. (k + 1)])
    OBVIOUS
  <2>0. k + 1 \in Nat \ {0} /\ k + 1 \in 1 .. n /\ 1 \in 1 .. (k + 1)
    <3> HIDE DEF n
    <3> QED BY <1>0
  <2>1. 1 .. (k + 1) \in SUBSET (1 .. n) /\ 1 .. (k + 1) # {} /\ k + 1 \in Nat \ {0} /\ k + 1 \in 1 .. n
    <3> HIDE DEF n
    <3>1. \A x \in 1 .. (k + 1) : x \in 1 .. n
      BY <1>0
    <3>2. 1 .. (k + 1) # {}
      BY <2>0
    <3> QED BY <2>0, <3>1, <3>2
  <2>2. Max(1 .. (k + 1)) = k + 1 /\ (1 .. (k + 1)) \ {k + 1} = 1 .. ((k + 1) - 1)
    BY <2>1, LastOfPrefix
  <2>3. (k + 1) - 1 = k
    OBVIOUS
  <2>4. f[1 .. (k + 1)] = Readmit(f[1 .. k], txs[k + 1], branch, set)
    BY <1>4, <2>1, <2>2, <2>3 DEF ReadmitStep
  <2>5. Fine(f[1 .. k])
    BY <1>0, <1>7
  <2>6. txs[k + 1] \in T
    BY <1>0, <2>1
  <2> HIDE DEF Fine
  <2> QED BY <1>5, <2>4, <2>5, <2>6
<1>8. n \in U
  <2> HIDE DEF U
  <2>1. \A k \in Nat : k \in U => k + 1 \in U
    BY <1>7
  <2> QED BY <1>0, <1>6, <2>1, OneByOne
<1>9. Fine(f[1 .. n])
  BY <1>0, <1>8
<1> QED BY <1>1, <1>9

-----------------------------------------------------------------------------
(***************************************************************************)
(* The steps.                                                              *)
(***************************************************************************)

\* What a wallet signs over typed outputs is typed.
LEMMA SignedTyped ==
  ASSUME NEW set, \A o \in set : o.d \in Datum
  PROVE  /\ \A r \in set, n \in Nat, max \in Nat : \A o \in TokenOuts(n, max) : \A red, fee :
              /\ Typed(Spending(<<r>>, o, red, fee))
              /\ \A t \in set : Typed(Spending(<<r, t>>, o, red, fee))
         /\ \A v \in set : \A red, fee : Typed(Spending(<<v>>, << >>, red, fee))
         /\ \A c \in set, k \in Payee : \A d \in {Token(k, 1), Registry(k, 1, 0, MaxSupply)} : \A red, fee :
              Typed(Spending(<<c>>, <<d>>, red, fee))
<1>0. Payee \subseteq Key /\ MaxSupply \in Nat /\ MaxAmount \in Nat /\ Amounts \subseteq Nat
  BY ContractAssumption DEF Amounts
<1>1. ASSUME NEW r \in set, NEW o \in Seq(Datum), NEW red, NEW fee
      PROVE  Typed(Spending(<<r>>, o, red, fee))
  <2> DEFINE u == Spending(<<r>>, o, red, fee)
  <2>1. u.ins = <<r>> /\ u.outs = o
    BY DEF Spending
  <2> HIDE DEF u
  <2>2. Datums(u) = <<r.d>>
    BY <2>1 DEF Datums
  <2>3. Typed(u)
    BY <2>1, <2>2 DEF Typed
  <2> QED BY <2>3 DEF u
<1>2. ASSUME NEW r \in set, NEW t \in set, NEW o \in Seq(Datum), NEW red, NEW fee
      PROVE  Typed(Spending(<<r, t>>, o, red, fee))
  <2> DEFINE u == Spending(<<r, t>>, o, red, fee)
  <2>1. u.ins = <<r, t>> /\ u.outs = o
    BY DEF Spending
  <2> HIDE DEF u
  <2>2. Datums(u) = <<r.d, t.d>>
    BY <2>1 DEF Datums
  <2>3. Typed(u)
    BY <2>1, <2>2 DEF Typed
  <2> QED BY <2>3 DEF u
<1>3. ASSUME NEW n \in Nat, NEW max \in Nat, NEW o \in TokenOuts(n, max) PROVE o \in Seq(Datum)
  <2>1. \A k \in Key, s \in Nat : Registry(k, s, n, max) \in Datum
    BY DEF Registry, DatumOf, Datum
  <2>2. \A k \in Key, a \in Nat : Token(k, a) \in Datum
    BY DEF Token, DatumOf, Datum
  <2> DEFINE first == {Registry(k, s, n, max) : k \in Key, s \in Amounts}
             more == {Token(k, a) : k \in Payee, a \in Amounts} \cup {Registry(k, 1, n, max) : k \in Payee}
  <2>3. first \subseteq Datum /\ more \subseteq Datum
    BY <1>0, <2>1, <2>2
  <2>4. TokenOuts(n, max) = {<<r>> : r \in first} \cup {<<r, d>> : r \in first, d \in more}
    BY DEF TokenOuts
  <2> HIDE DEF first, more
  <2>5. CASE o \in {<<r>> : r \in first}
    BY <2>3, <2>5
  <2>6. CASE o \in {<<r, d>> : r \in first, d \in more}
    <3>1. PICK r \in Datum, d \in Datum : o = <<r, d>>
      BY <2>3, <2>6
    <3> QED BY <3>1
  <2> QED BY <2>4, <2>5, <2>6
<1>4. ASSUME NEW k \in Payee PROVE Token(k, 1) \in Datum /\ Registry(k, 1, 0, MaxSupply) \in Datum
  BY <1>0 DEF Token, Registry, DatumOf, Datum
<1>5. << >> \in Seq(Datum) /\ \A d \in Datum : <<d>> \in Seq(Datum)
  OBVIOUS
<1>6. \A r \in set, n \in Nat, max \in Nat : \A o \in TokenOuts(n, max) : \A red, fee :
        /\ Typed(Spending(<<r>>, o, red, fee))
        /\ \A t \in set : Typed(Spending(<<r, t>>, o, red, fee))
  BY <1>1, <1>2, <1>3
<1>7. \A v \in set : \A red, fee : Typed(Spending(<<v>>, << >>, red, fee))
  BY <1>1, <1>5
<1>8. \A c \in set, k \in Payee : \A d \in {Token(k, 1), Registry(k, 1, 0, MaxSupply)} : \A red, fee :
        Typed(Spending(<<c>>, <<d>>, red, fee))
  BY <1>1, <1>4, <1>5
<1> QED BY <1>6, <1>7, <1>8

\* What a step of the contracts' pool does.
LEMMA ContractSteps ==
  ASSUME ContractIInv, [ContractNext]_contractVars
  PROVE  \/ UNCHANGED contractVars
         \/ TimePasses
         \/ \E t : Typed(t) /\ Sign(t)
         \/ \E t \in signed : SubmitContract(t)
         \/ \E ts \in Seq(signed \cup pending), time \in Nat : ConnectContracts(ts, time)
         \/ \E n \in 1 .. Len(undo), j \in Nat, ts \in Seq(signed), time \in Nat : Reorganise(n, ts, j, time)
<1> DEFINE set == live \cup UNION {OutputsOf(t) : t \in signed}
<1>0. \A o \in set : o.d \in Datum
  <2>1. \A o \in live : o.d \in Datum
    BY DEF ContractIInv, Vetted
  <2>2. ASSUME NEW t \in signed, NEW o \in OutputsOf(t) PROVE o.d \in Datum
    <3>1. t.outs \in Seq(Datum)
      BY DEF ContractIInv, Typed
    <3> QED BY <3>1, OutputsTyped
  <2> QED BY <2>1, <2>2
<1> HIDE DEF set
<1>1. 0 .. MaxClock \subseteq Nat
  BY ContractAssumption
<1>2. CASE UNCHANGED contractVars \/ TimePasses \/ (\E ts \in Templates : MineRefused(ts))
  BY <1>2 DEF MineRefused
<1>3. CASE SomeTx(set, Sign)
  <2>1. CASE TokenTx(set, Sign)
    <3>1. \A r \in set : r.d.nonce + 1 \in Nat /\ r.d.max \in Nat
      BY <1>0 DEF Datum
    <3>2. \A kinds : Of(kinds, set) \subseteq set
      BY DEF Of
    <3>3. PICK r \in set : \E o \in TokenOuts(r.d.nonce + 1, r.d.max) :
            \E red, fee : Sign(Spending(<<r>>, o, red, fee))
                            \/ \E t \in set : Sign(Spending(<<r, t>>, o, red, fee))
      BY <2>1, <3>2 DEF TokenTx
    <3> QED BY <1>0, <3>1, <3>3, SignedTyped
  <2>2. CASE VaultTx(set, Sign)
    <3>1. PICK v \in set : \E red, fee : Sign(Spending(<<v>>, << >>, red, fee))
      BY <2>2 DEF VaultTx, Of
    <3> QED BY <1>0, <3>1, SignedTyped
  <2>3. CASE IssueTx(set, Sign)
    <3>1. PICK c \in set, k \in Payee : \E d \in {Token(k, 1), Registry(k, 1, 0, MaxSupply)} : \E red, fee :
            Sign(Spending(<<c>>, <<d>>, red, fee))
      BY <2>3 DEF IssueTx, Of
    <3> QED BY <1>0, <3>1, SignedTyped
  <2> QED BY <1>3, <2>1, <2>2, <2>3 DEF SomeTx
<1>4. ASSUME NEW ts \in Bodies, NEW time \in 0 .. MaxClock, PeerBlock(ts, time)
      PROVE  \E us \in Seq(signed \cup pending), tm \in Nat : ConnectContracts(us, tm)
  <2>1. (\E t \in signed : ts = <<t>>) \/ (\E t \in signed, u \in signed : ts = <<t, u>>)
    BY DEF Bodies
  <2>2. ts \in Seq(signed \cup pending)
    <3>1. PICK P : P = signed \cup pending
      OBVIOUS
    <3>2. \A t \in P : <<t>> \in Seq(P)
      OBVIOUS
    <3>3. \A t, u \in P : <<t, u>> \in Seq(P)
      OBVIOUS
    <3> QED BY <2>1, <3>1, <3>2, <3>3
  <2> QED BY <1>1, <1>4, <2>2 DEF PeerBlock
<1>5. ASSUME NEW n \in 1 .. Len(undo), NEW time \in 0 .. MaxClock, NEW j \in 1 .. n + 1,
             NEW ts \in {<< >>} \cup {<<t>> : t \in signed}, Reorganise(n, ts, j, time)
      PROVE  \E m \in 1 .. Len(undo), k \in Nat, us \in Seq(signed), tm \in Nat : Reorganise(m, us, k, tm)
  <2>1. ts \in Seq(signed)
    <3>1. << >> \in Seq(signed) /\ \A t \in signed : <<t>> \in Seq(signed)
      OBVIOUS
    <3> QED BY <3>1
  <2>2. j \in Nat
    OBVIOUS
  <2> QED BY <1>1, <1>5, <2>1, <2>2
<1>6. ASSUME NEW ts \in Templates, NEW time \in 0 .. MaxClock, MineContracts(ts, time)
      PROVE  \E us \in Seq(signed \cup pending), tm \in Nat : ConnectContracts(us, tm)
  <2>1. PICK n \in 1 .. Cardinality(pending) : ts \in [1 .. n -> pending]
    BY DEF Templates
  <2>2. ts \in Seq(signed \cup pending)
    BY <2>1
  <2> QED BY <1>1, <1>6, <2>2 DEF MineContracts
<1> QED BY <1>2, <1>3, <1>4, <1>5, <1>6 DEF ContractNext, set

\* on_block_connected adds nothing to the pool.
LEMMA PoolAfterShrinks ==
  ASSUME NEW p, NEW pairs, NEW back, NEW ts, NEW set, PoolAfter(p, pairs, back, ts, set)
  PROVE  pending' \subseteq p /\ (pending' \ readmitted') \subseteq (p \ back)
BY DEF PoolAfter, Connected

\* A block on the tip keeps the invariant.
LEMMA ConnectKeeps ==
  ASSUME ContractIInv, NEW ts \in Seq(signed \cup pending), NEW time \in Nat, ConnectContracts(ts, time)
  PROVE  ContractIInv'
<1>1. PICK T, D : /\ Vetted(T, D) /\ live \in SUBSET D /\ pending \in SUBSET T
                  /\ undo \in Seq([set : SUBSET D, txs : Seq(T)])
  BY DEF ContractIInv
<1>2. \A t \in signed \cup pending : Typed(t)
  BY <1>1 DEF ContractIInv, Vetted
<1>3. BlockValid(ts, time, live)
  BY DEF ConnectContracts
<1>4. PICK T2, D2 : /\ Vetted(T2, D2) /\ T \subseteq T2 /\ D \subseteq D2
                    /\ ts \in Seq(T2) /\ Applied(live, ts) \in SUBSET D2
  BY <1>1, <1>2, <1>3, ValidSound
<1>5. pending' \subseteq pending /\ (pending' \ readmitted') \subseteq (pending \ readmitted)
  BY PoolAfterShrinks DEF ConnectContracts
<1>6. /\ live' = Applied(live, ts) /\ undo' = Append(undo, Layer(live, ts))
      /\ now' = now /\ signed' = signed
  BY DEF ConnectContracts
<1>7. undo' \in Seq([set : SUBSET D2, txs : Seq(T2)])
  <2>1. [set : SUBSET D, txs : Seq(T)] \subseteq [set : SUBSET D2, txs : Seq(T2)]
    <3>1. Seq(T) \subseteq Seq(T2)
      BY <1>4
    <3> QED BY <1>4, <3>1
  <2>2. undo \in Seq([set : SUBSET D2, txs : Seq(T2)])
    <3>1. Seq([set : SUBSET D, txs : Seq(T)]) \subseteq Seq([set : SUBSET D2, txs : Seq(T2)])
      BY <2>1, SeqOver
    <3> QED BY <1>1, <3>1
  <2>3. Layer(live, ts) \in [set : SUBSET D2, txs : Seq(T2)]
    BY <1>1, <1>4 DEF Layer
  <2> QED BY <1>6, <2>2, <2>3, AppendProperties
<1>8. live' \in SUBSET D2 /\ pending' \in SUBSET T2
  BY <1>1, <1>4, <1>5, <1>6
<1>9. /\ now' \in Nat /\ \A t \in signed' : Typed(t)
      /\ \A t \in pending' \ readmitted', tm \in Nat : tm >= now' => ContractsAgree(t, tm)
  BY <1>5, <1>6 DEF ContractIInv
<1> QED BY <1>4, <1>7, <1>8, <1>9 DEF ContractIInv

\* So does a reorganisation, although on_reorg runs no contract.
LEMMA ReorganiseKeeps ==
  ASSUME ContractIInv, NEW n \in 1 .. Len(undo), NEW j \in Nat, NEW ts \in Seq(signed),
         NEW time \in Nat, Reorganise(n, ts, j, time)
  PROVE  ContractIInv'
<1> DEFINE h == Len(undo)
           base == undo[h + 1 - n].set
           new == Applied(base, ts)
           Part(i) == IF i = j THEN ts ELSE << >>
           pool == OnReorg(Returned(n), ts, new)
           Fresh == [i \in 1 .. n + 1 |-> Layer(IF i <= j THEN base ELSE new, Part(i))]
<1>1. PICK T, D : /\ Vetted(T, D) /\ live \in SUBSET D /\ pending \in SUBSET T
                  /\ undo \in Seq([set : SUBSET D, txs : Seq(T)])
  BY DEF ContractIInv
<1>2. /\ BlockValid(ts, time, base) /\ live' = new
      /\ undo' = SubSeq(undo, 1, h - n) \o Fresh
      /\ PoolAfter(pool.entries, pool.links, pool.back, Part(n + 1), new)
      /\ now' = now /\ signed' = signed
  BY DEF Reorganise
<1>3. h \in Nat /\ h + 1 - n \in 1 .. h /\ n \in Nat /\ h - n \in 0 .. h
  BY <1>1
<1>4. \A i \in 1 .. h : undo[i] \in [set : SUBSET D, txs : Seq(T)]
  <2> DEFINE L == [set : SUBSET D, txs : Seq(T)]
  <2>1. undo \in Seq(L)
    BY <1>1
  <2> HIDE DEF L
  <2>2. \A i \in 1 .. Len(undo) : undo[i] \in L
    BY <2>1, SeqOver
  <2> QED BY <2>2 DEF L
<1>5. base \in SUBSET D
  BY <1>3, <1>4
<1>6. \A t \in signed : Typed(t)
  BY DEF ContractIInv
<1> HIDE DEF base
<1>7. PICK T2, D2 : /\ Vetted(T2, D2) /\ T \subseteq T2 /\ D \subseteq D2
                    /\ ts \in Seq(T2) /\ new \in SUBSET D2
  <2>1. BlockValid(ts, time, base) /\ Vetted(T, D)
    BY <1>1, <1>2
  <2> QED BY <1>5, <1>6, <2>1, ValidSound
<1> HIDE DEF new
<1>8. Returned(n) \in Seq(T)
  <2> DEFINE down == [i \in 1 .. n |-> undo[Len(undo) + 1 - i].txs]
  <2>1. ASSUME NEW i \in 1 .. n PROVE undo[h + 1 - i].txs \in Seq(T)
    <3>1. h + 1 - i \in 1 .. h
      BY <1>3
    <3> QED BY <1>4, <3>1
  <2>2. down \in [1 .. n -> Seq(T)]
    BY <2>1
  <2> HIDE DEF down
  <2>3. down \in Seq(Seq(T))
    BY <1>3, <2>2
  <2>4. FlattenSeq(down) \in Seq(T)
    BY <2>3, FlattenType
  <2> QED BY <2>4 DEF Returned, down
<1>9. pool.entries \in SUBSET T /\ (pool.entries \ pool.back) \subseteq (pending \ readmitted)
  BY <1>1, <1>8, OnlyReturned
<1> HIDE DEF pool
<1>10. pending' \subseteq T /\ (pending' \ readmitted') \subseteq (pending \ readmitted)
  <2>1. pending' \subseteq pool.entries /\ (pending' \ readmitted') \subseteq (pool.entries \ pool.back)
    <3> HIDE DEF Part
    <3> QED BY <1>2, PoolAfterShrinks
  <2> QED BY <1>9, <2>1
<1>11. undo' \in Seq([set : SUBSET D2, txs : Seq(T2)])
  <2> DEFINE L == [set : SUBSET D2, txs : Seq(T2)]
  <2>1. undo \in Seq(L)
    <3>1. Seq(T) \subseteq Seq(T2)
      BY <1>7
    <3>2. [set : SUBSET D, txs : Seq(T)] \subseteq L
      BY <1>7, <3>1
    <3> HIDE DEF L
    <3>3. Seq([set : SUBSET D, txs : Seq(T)]) \subseteq Seq(L)
      BY <3>2, SeqOver
    <3> QED BY <1>1, <3>3
  <2>2. ASSUME NEW i \in 1 .. n + 1 PROVE Layer(IF i <= j THEN base ELSE new, Part(i)) \in L
    <3>1. Part(i) \in Seq(T2)
      BY <1>7
    <3>2. (IF i <= j THEN base ELSE new) \in SUBSET D2
      BY <1>5, <1>7
    <3> HIDE DEF Part
    <3> QED BY <3>1, <3>2 DEF Layer
  <2> HIDE DEF L, Part
  <2>3. Fresh \in Seq(L)
    <3>1. Fresh \in [1 .. n + 1 -> L]
      BY <2>2
    <3>2. n + 1 \in Nat
      BY <1>3
    <3> HIDE DEF Fresh
    <3> QED BY <3>1, <3>2
  <2>4. SubSeq(undo, 1, h - n) \in Seq(L)
    BY <1>3, <2>1, SubSeqProperties
  <2> HIDE DEF Fresh
  <2>5. SubSeq(undo, 1, h - n) \o Fresh \in Seq(L)
    BY <2>3, <2>4, ConcatProperties
  <2> QED BY <1>2, <2>5 DEF L
<1>12. live' \in SUBSET D2 /\ pending' \in SUBSET T2
  BY <1>2, <1>7, <1>10
<1>13. /\ now' \in Nat /\ \A t \in signed' : Typed(t)
       /\ \A t \in pending' \ readmitted', tm \in Nat : tm >= now' => ContractsAgree(t, tm)
  BY <1>2, <1>10 DEF ContractIInv
<1> QED BY <1>7, <1>11, <1>12, <1>13 DEF ContractIInv

\* Every step keeps the invariant.
LEMMA ContractStep == ContractIInv /\ [ContractNext]_contractVars => ContractIInv'
<1> SUFFICES ASSUME ContractIInv, [ContractNext]_contractVars PROVE ContractIInv'
  OBVIOUS
<1>1. CASE UNCHANGED contractVars
  BY <1>1 DEF contractVars, ContractIInv
<1>2. CASE TimePasses
  <2>1. /\ now' = now + 1 /\ signed' = signed /\ live' = live /\ undo' = undo
        /\ pending' = pending /\ readmitted' = readmitted
    BY <1>2 DEF TimePasses
  <2>2. now' \in Nat /\ \A time \in Nat : time >= now' => time >= now
    BY <2>1 DEF ContractIInv
  <2>3. \A t \in pending' \ readmitted', time \in Nat : time >= now' => ContractsAgree(t, time)
    BY <2>1, <2>2 DEF ContractIInv
  <2> QED BY <2>1, <2>2, <2>3 DEF ContractIInv
<1>3. ASSUME NEW t, Typed(t), Sign(t) PROVE ContractIInv'
  <2>1. /\ signed' = signed \cup {t} /\ now' = now /\ live' = live /\ undo' = undo
        /\ pending' = pending /\ readmitted' = readmitted
    BY <1>3 DEF Sign
  <2>2. \A u \in signed' : Typed(u)
    BY <1>3, <2>1 DEF ContractIInv
  <2> QED BY <2>1, <2>2 DEF ContractIInv
<1>4. ASSUME NEW t \in signed, SubmitContract(t) PROVE ContractIInv'
  <2>1. /\ pending' = pending \cup {t} /\ signed' = signed /\ now' = now /\ live' = live
        /\ undo' = undo /\ readmitted' = readmitted /\ ContractsAgree(t, now)
    BY <1>4 DEF SubmitContract, VerifyEutxo
  <2>2. now \in Nat /\ Typed(t)
    BY DEF ContractIInv
  <2>3. Allowed(t) /\ \A time \in Nat : time >= now => ContractsAgree(t, time)
    <3>1. ASSUME NEW time \in Nat, time >= UnlockTime \/ time >= now PROVE ContractsAgree(t, time)
      <4>1. now <= time \/ UnlockTime <= time
        BY <2>2, <3>1, ContractAssumption
      <4> QED BY <2>1, <2>2, <4>1, StaysAllowed
    <3> QED BY <3>1 DEF Allowed
  <2>4. \A u \in pending' \ readmitted', time \in Nat : time >= now' => ContractsAgree(u, time)
    BY <2>1, <2>3 DEF ContractIInv
  <2>5. PICK T, D : /\ Vetted(T, D) /\ live \in SUBSET D /\ pending \in SUBSET T
                    /\ undo \in Seq([set : SUBSET D, txs : Seq(T)])
    BY DEF ContractIInv
  <2> DEFINE T2 == T \cup {t}
  <2>6. Vetted(T2, D) /\ pending' \in SUBSET T2 /\ T \subseteq T2
    BY <2>1, <2>2, <2>3, <2>5 DEF Vetted
  <2> HIDE DEF T2
  <2>7. undo \in Seq([set : SUBSET D, txs : Seq(T2)])
    <3>1. Seq(T) \subseteq Seq(T2)
      BY <2>6
    <3>2. [set : SUBSET D, txs : Seq(T)] \subseteq [set : SUBSET D, txs : Seq(T2)]
      BY <3>1
    <3>3. Seq([set : SUBSET D, txs : Seq(T)]) \subseteq Seq([set : SUBSET D, txs : Seq(T2)])
      BY <3>2, SeqOver
    <3> QED BY <2>5, <3>3
  <2> QED BY <2>1, <2>2, <2>4, <2>5, <2>6, <2>7 DEF ContractIInv
<1>5. ASSUME NEW ts \in Seq(signed \cup pending), NEW time \in Nat, ConnectContracts(ts, time)
      PROVE  ContractIInv'
  BY <1>5, ConnectKeeps
<1>6. ASSUME NEW n \in 1 .. Len(undo), NEW j \in Nat, NEW ts \in Seq(signed), NEW time \in Nat,
             Reorganise(n, ts, j, time)
      PROVE  ContractIInv'
  BY <1>6, ReorganiseKeeps
<1> QED BY <1>1, <1>2, <1>3, <1>4, <1>5, <1>6, ContractSteps

\* The first outputs are typed, and nothing is pending.
LEMMA ContractStart == ContractInit => ContractIInv
<1> SUFFICES ASSUME ContractInit PROVE ContractIInv
  OBVIOUS
<1>1. FirstSupply \in Nat /\ Issuer \in Key /\ MaxSupply \in Nat
  BY ContractAssumption
<1> DEFINE outs == <<Registry(Issuer, FirstSupply, 0, MaxSupply), Token(Issuer, FirstSupply), Vault(Issuer), Coin>>
<1>2. /\ Registry(Issuer, FirstSupply, 0, MaxSupply) \in Datum /\ Token(Issuer, FirstSupply) \in Datum
      /\ Vault(Issuer) \in Datum /\ Coin \in Datum
  BY <1>1 DEF Registry, Token, Vault, Coin, DatumOf, Datum
<1>3. outs \in Seq(Datum)
  BY <1>2
<1>4. FirstTx.outs = outs
  BY DEF FirstTx, Spending
<1>5. \A s \in Seq(Datum) : \A m \in DOMAIN s : s[m] \in Datum
  OBVIOUS
<1> HIDE DEF outs
<1>6. \A o \in OutputsOf(FirstTx) : o.d \in Datum
  BY <1>3, <1>4, <1>5 DEF OutputsOf
<1>7. Vetted({}, live)
  BY <1>6 DEF Vetted, ContractInit
<1>8. undo \in Seq([set : SUBSET live, txs : Seq({})]) /\ pending \in SUBSET {}
  BY DEF ContractInit
<1> QED BY <1>7, <1>8 DEF ContractInit, ContractIInv

\* Although a reorganisation readmits without running a contract, every pending transaction
\* is one the contracts agreed to, and will agree to once the vaults are open.
THEOREM PendingAlwaysAllowed == ContractSpec => []PendingAllowed
<1>1. ContractIInv => PendingAllowed
  <2> SUFFICES ASSUME ContractIInv, NEW t \in pending, NEW time \in 0 .. MaxClock,
                      time >= UnlockTime \/ (time >= now /\ t \notin readmitted)
               PROVE  ContractsAgree(t, time)
    BY DEF PendingAllowed
  <2>1. time \in Nat
    BY ContractAssumption
  <2>2. Allowed(t)
    BY DEF ContractIInv, Vetted
  <2> QED BY <2>1, <2>2 DEF Allowed, ContractIInv
<1> QED BY <1>1, ContractStart, ContractStep, PTL DEF ContractSpec

-----------------------------------------------------------------------------
(***************************************************************************)
(* The token.  Each side of the validator's equation counts the supply the *)
(* first registry states, so that the equation leaves all else as it was.  *)
(***************************************************************************)

\* A sum of amounts is the sum over the positions.
LEMMA AmountIsTotal ==
  ASSUME NEW s, NEW P
  PROVE  Amount(s, P) = Total([i \in P |-> s[i].amount], P)
BY DEF Amount, Total, MapThenSumSet, MapThenFoldSet

\* canonical_token_total counts the first registry among the tokens.
LEMMA RegistryCounted ==
  ASSUME NEW s \in Seq(Datum), AsRegistry(s) # {}
  PROVE  LET p == Min(AsRegistry(s))
         IN  /\ s[p].amount \in Nat /\ Amount(s, Others(s)) \in Nat
             /\ Amount(s, AsTokens(s)) = s[p].amount + Amount(s, Others(s))
<1> DEFINE p == Min(AsRegistry(s))
           P == Others(s)
           h == [i \in P \cup {p} |-> s[i].amount]
           g == [i \in P |-> s[i].amount]
<1>1. DOMAIN s = 1 .. Len(s) /\ Len(s) \in Nat /\ AsRegistry(s) \subseteq DOMAIN s /\ P \subseteq DOMAIN s
  BY DEF AsRegistry, Others, AsTokens
<1>2. p \in AsRegistry(s)
  <2>1. AsRegistry(s) \in SUBSET Nat
    BY <1>1
  <2>2. \E x \in AsRegistry(s) : \A y \in AsRegistry(s) : x <= y
    BY <2>1, LeastNat
  <2> QED BY <2>2 DEF Min
<1>3. p \notin P /\ AsTokens(s) = P \cup {p} /\ p \in DOMAIN s
  BY <1>2 DEF AsRegistry, AsTokens, Others
<1>4. IsFiniteSet(P)
  <2>1. IsFiniteSet(1 .. Len(s))
    BY <1>1, FS_Interval
  <2> QED BY <1>1, <2>1, FS_Subset
<1>5. \A i \in DOMAIN s : s[i].amount \in Nat
  <2>1. \A i \in DOMAIN s : s[i] \in Datum
    OBVIOUS
  <2> QED BY <2>1 DEF Datum
<1> HIDE DEF p, P
<1>6. /\ \A i \in P : h[i] = g[i] /\ h[i] \in Nat
      /\ h[p] = s[p].amount /\ h[p] \in Nat
  BY <1>1, <1>3, <1>5
<1>7. Amount(s, P) = Total(g, P) /\ Amount(s, P \cup {p}) = Total(h, P \cup {p})
  BY AmountIsTotal
<1> HIDE DEF h, g
<1>8. Total(g, P) = Total(h, P)
  BY <1>4, <1>6, TotalSame
<1>9. Total(h, P) \in Nat
  BY <1>4, <1>6, TotalNat
<1>10. Total(h, P \cup {p}) = Total(h, P) + h[p]
  BY <1>3, <1>4, <1>6, TotalAdd
<1>11. Amount(s, AsTokens(s)) = Amount(s, P \cup {p})
  BY <1>3
<1>12. Amount(s, P) \in Nat
  BY <1>7, <1>8, <1>9
<1>13. Amount(s, AsTokens(s)) = s[p].amount + Amount(s, P)
  BY <1>6, <1>7, <1>8, <1>9, <1>10, <1>11
<1> QED BY <1>6, <1>12, <1>13 DEF P, p

\* validate_scy20_execution: minted, burned or transferred, all but the first registry stays
\* as much.
LEMMA Scy20Keeps ==
  ASSUME NEW ins \in Seq(Datum), NEW outs \in Seq(Datum), NEW d, NEW r, ValidateScy20(d, r, ins, outs)
  PROVE  Amount(ins, Others(ins)) = Amount(outs, Others(outs))
<1> DEFINE a == ins[Min(AsRegistry(ins))].amount
           b == outs[Min(AsRegistry(outs))].amount
           x == Amount(ins, Others(ins))
           y == Amount(outs, Others(outs))
<1>0. AsRegistry(ins) # {} /\ AsRegistry(outs) # {}
  BY DEF ValidateScy20
<1>1. a \in Nat /\ x \in Nat /\ Amount(ins, AsTokens(ins)) = a + x
  BY <1>0, RegistryCounted
<1>2. b \in Nat /\ y \in Nat /\ Amount(outs, AsTokens(outs)) = b + y
  BY <1>0, RegistryCounted
<1>4. PICK in \in CanonicalTotal(ins), out \in CanonicalTotal(outs) :
        b \in Expected(r.op, a, SupplyChange(r.op, in, out))
  BY DEF ValidateScy20
<1>5. in = a + x /\ out = b + y
  BY <1>1, <1>2, <1>4 DEF CanonicalTotal
<1> HIDE DEF a, b, x, y
<1>6. CASE r.op = "mint"
  <2>1. SupplyChange(r.op, in, out) = IF out >= in THEN {out - in} ELSE {}
    BY <1>6 DEF SupplyChange
  <2>2. b \in {a + c : c \in SupplyChange(r.op, in, out)}
    BY <1>4, <1>6 DEF Expected
  <2>3. b = a + (out - in)
    BY <2>1, <2>2
  <2>4. x = y
    BY <1>1, <1>2, <1>5, <2>3
  <2> QED BY <2>4 DEF x, y
<1>7. CASE r.op = "burn"
  <2>1. SupplyChange(r.op, in, out) = IF in >= out THEN {in - out} ELSE {}
    BY <1>7 DEF SupplyChange
  <2>2. b \in {a - c : c \in {z \in SupplyChange(r.op, in, out) : z <= a}}
    BY <1>4, <1>7 DEF Expected
  <2>3. b = a - (in - out)
    BY <2>1, <2>2
  <2>4. x = y
    BY <1>1, <1>2, <1>5, <2>3
  <2> QED BY <2>4 DEF x, y
<1>8. CASE r.op \notin {"mint", "burn"}
  <2>1. SupplyChange(r.op, in, out) = IF r.op = "transfer" /\ in = out THEN {0} ELSE {}
    BY <1>8 DEF SupplyChange
  <2>2. b \in {a + c : c \in SupplyChange(r.op, in, out)}
    BY <1>4, <1>8 DEF Expected
  <2>3. b = a + 0 /\ in = out
    BY <2>1, <2>2
  <2>4. x = y
    BY <1>1, <1>2, <1>5, <2>3
  <2> QED BY <2>4 DEF x, y
<1> QED BY <1>6, <1>7, <1>8

\* Each transaction of the token that is pending makes as much in tokens and in further
\* registries as it spends, whether it says it mints, burns or transfers.
THEOREM TokensAlwaysKept == ContractSpec => []TokensKept
<1>1. ContractIInv => TokensKept
  <2> SUFFICES ASSUME ContractIInv, NEW t \in pending, NEW i \in DOMAIN t.ins,
                      t.ins[i].d.kind \in {"token", "registry"}
               PROVE  Amount(Datums(t), Others(Datums(t))) = Amount(t.outs, Others(t.outs))
    BY DEF TokensKept
  <2>1. Typed(t) /\ Allowed(t)
    BY DEF ContractIInv, Vetted
  <2>2. UnlockTime \in Nat /\ UnlockTime >= UnlockTime
    BY ContractAssumption
  <2>3. Agrees(t, i, UnlockTime)
    BY <2>1, <2>2 DEF Allowed, ContractsAgree
  <2>4. ValidateScy20(t.ins[i].d, t.red[i], Datums(t), t.outs)
    BY <2>3 DEF Agrees
  <2> QED BY <2>1, <2>4, Scy20Keeps DEF Typed
<1> QED BY <1>1, ContractStart, ContractStep, PTL DEF ContractSpec

-----------------------------------------------------------------------------
(***************************************************************************)
(* The rate of requests.  The window of a peer is the end of the history   *)
(* of what was passed on, and all before it is a second old.               *)
(***************************************************************************)

\* The window r of the history g at the time t.
Sliding(g, r, t) ==
  /\ g \in Seq(Nat) /\ r \in Seq(Nat) /\ Len(r) <= Len(g)
  /\ \A i \in 1 .. Len(r) : r[i] = g[(Len(g) - Len(r)) + i]
  /\ \A i \in 1 .. (Len(g) - Len(r)) : t - g[i] >= Second
  /\ \A i \in 1 .. Len(g) : g[i] <= t
  /\ \A i, j \in 1 .. Len(g) : i <= j => g[i] <= g[j]
  /\ \A i \in 1 .. Len(g) : i + MaxRate <= Len(g) => g[i + MaxRate] - g[i] >= Second

RateIInv ==
  /\ clock \in Nat
  /\ DOMAIN grants = Remote /\ DOMAIN recent = Remote
  /\ \A p \in Remote : Sliding(grants[p], recent[p], clock)

\* Retaining the end of a sequence drops what is before.
LEMMA RetainEnd ==
  ASSUME NEW r \in Seq(Nat), NEW c \in 0 .. Len(r)
  PROVE  /\ Retain(r, (c + 1) .. Len(r)) \in Seq(Nat)
         /\ Len(Retain(r, (c + 1) .. Len(r))) = Len(r) - c
         /\ \A i \in 1 .. (Len(r) - c) : Retain(r, (c + 1) .. Len(r))[i] = r[c + i]
<1> DEFINE n == Len(r)
           K == (c + 1) .. n
           pick(i) == CHOOSE k \in K : Cardinality({j \in K : j <= k}) = i
<1>1. n \in Nat /\ c \in Nat /\ n - c \in Nat /\ c <= n
  OBVIOUS
<1>2. Cardinality(K) = n - c
  <2>1. c + 1 \in Int /\ n \in Int /\ (c + 1 > n => n - c = 0) /\ (n - (c + 1)) + 1 = n - c
    BY <1>1
  <2>2. Cardinality((c + 1) .. n) = IF c + 1 > n THEN 0 ELSE (n - (c + 1)) + 1
    <3> HIDE DEF n
    <3> QED BY <2>1, FS_Interval
  <2>3. Cardinality(K) = IF c + 1 > n THEN 0 ELSE (n - (c + 1)) + 1
    BY <2>2
  <2> HIDE DEF K
  <2> QED BY <2>1, <2>3
<1>3. ASSUME NEW k \in K PROVE Cardinality({j \in K : j <= k}) = k - c
  <2>1. {j \in K : j <= k} = (c + 1) .. k
    BY <1>1
  <2>2. Cardinality((c + 1) .. k) = k - c
    BY <1>1, FS_Interval
  <2> QED BY <2>1, <2>2
<1>4. ASSUME NEW i \in 1 .. (n - c) PROVE pick(i) = c + i
  <2>1. c + i \in K /\ (c + i) - c = i
    BY <1>1
  <2>2. Cardinality({j \in K : j <= c + i}) = i
    BY <1>3, <2>1
  <2>3. ASSUME NEW k \in K, Cardinality({j \in K : j <= k}) = i PROVE k = c + i
    <3>1. k - c = i
      BY <1>3, <2>3
    <3> QED BY <1>1, <3>1
  <2> HIDE DEF K
  <2> QED BY <2>1, <2>2, <2>3
<1> DEFINE s == [i \in 1 .. (n - c) |-> r[pick(i)]]
<1>5. Retain(r, K) = s
  BY <1>2 DEF Retain
<1>6. ASSUME NEW i \in 1 .. (n - c) PROVE s[i] = r[c + i] /\ r[c + i] \in Nat
  <2>1. c + i \in 1 .. n
    BY <1>1
  <2>2. s[i] = r[pick(i)]
    OBVIOUS
  <2> HIDE DEF pick
  <2> QED BY <1>4, <2>1, <2>2
<1>7. s = [i \in 1 .. (n - c) |-> s[i]]
  OBVIOUS
<1> HIDE DEF s
<1>8. s \in Seq(Nat) /\ Len(s) = n - c
  <2> DEFINE m == n - c
  <2>1. s \in [1 .. m -> Nat] /\ m \in Nat
    BY <1>1, <1>6, <1>7
  <2> HIDE DEF m
  <2>2. s \in Seq(Nat) /\ DOMAIN s = 1 .. m
    BY <2>1
  <2>3. Len(s) = m
    BY <2>1, <2>2
  <2> QED BY <2>2, <2>3 DEF m
<1> QED BY <1>5, <1>6, <1>8

\* Pruning a window (retain): what leaves is a second old.
LEMMA PruneWindow ==
  ASSUME NEW g, NEW r, NEW t \in Nat, Sliding(g, r, t)
  PROVE  Sliding(g, Retain(r, {i \in DOMAIN r : t - r[i] < Second}), t)
<1> DEFINE n == Len(r)
           b == Len(g) - n
           K == {i \in DOMAIN r : t - r[i] < Second}
<1>1. /\ g \in Seq(Nat) /\ r \in Seq(Nat) /\ n \in Nat /\ Len(g) \in Nat /\ b \in Nat
      /\ Len(g) = b + n /\ DOMAIN r = 1 .. n /\ Second \in Nat
  BY PeersAssumption DEF Sliding
<1>2. /\ \A i \in 1 .. n : r[i] = g[b + i]
      /\ \A i \in 1 .. b : t - g[i] >= Second
      /\ \A i \in 1 .. Len(g) : g[i] \in Nat /\ g[i] <= t
      /\ \A i, j \in 1 .. Len(g) : i <= j => g[i] <= g[j]
  BY <1>1 DEF Sliding
<1> HIDE DEF n, b
<1>3. ASSUME NEW i \in 1 .. n PROVE b + i \in 1 .. Len(g) /\ r[i] = g[b + i] /\ r[i] \in Nat /\ r[i] <= t
  <2>1. b + i \in 1 .. Len(g)
    BY <1>1
  <2> QED BY <1>2, <2>1
<1>4. ASSUME NEW i \in 1 .. n, NEW j \in 1 .. n, i <= j PROVE r[i] <= r[j]
  <2>1. b + i \in 1 .. Len(g) /\ b + j \in 1 .. Len(g) /\ b + i <= b + j
    BY <1>1, <1>4
  <2> QED BY <1>2, <1>3, <2>1
<1>5. K \in SUBSET Nat
  BY <1>1
<1>6. \E c \in 0 .. n : K = (c + 1) .. n
  <2>1. CASE K = {}
    <3>1. n \in 0 .. n /\ (n + 1) .. n = {}
      BY <1>1
    <3> QED BY <2>1, <3>1
  <2>2. CASE K # {}
    <3>1. PICK k \in K : \A y \in K : k <= y
      <4> HIDE DEF K
      <4> QED BY <1>5, <2>2, LeastNat
    <3>2. k \in 1 .. n /\ t - r[k] < Second
      BY <1>1
    <3>3. ASSUME NEW i \in k .. n PROVE i \in K
      <4>1. i \in 1 .. n /\ k <= i
        BY <1>1, <3>2
      <4>2. r[k] <= r[i] /\ r[k] \in Nat /\ r[i] \in Nat
        BY <1>3, <1>4, <3>2, <4>1
      <4> QED BY <1>1, <3>2, <4>1, <4>2
    <3>4. \A i \in K : i \in k .. n
      BY <1>1, <3>1, <3>2
    <3>5. K = k .. n
      BY <3>3, <3>4
    <3>6. k - 1 \in 0 .. n /\ (k - 1) + 1 = k
      BY <1>1, <3>2
    <3> QED BY <3>5, <3>6
  <2> QED BY <2>1, <2>2
<1>7. PICK c \in 0 .. n : K = (c + 1) .. n
  BY <1>6
<1>8. \A i \in 1 .. c : t - r[i] >= Second
  <2> SUFFICES ASSUME NEW i \in 1 .. c PROVE t - r[i] >= Second
    OBVIOUS
  <2>1. i \in 1 .. n /\ i \notin K
    <3>1. i \in 1 .. n /\ i \notin (c + 1) .. n
      BY <1>1
    <3> HIDE DEF K
    <3> QED BY <1>7, <3>1
  <2>2. ~ (t - r[i] < Second)
    BY <1>1, <2>1
  <2> QED BY <1>1, <1>3, <2>1, <2>2
<1> DEFINE s == Retain(r, K)
<1>9. /\ s \in Seq(Nat) /\ Len(s) = n - c
      /\ \A i \in 1 .. (n - c) : s[i] = r[c + i]
  BY <1>1, <1>7, RetainEnd DEF n
<1> HIDE DEF K, s
<1>10. Len(g) - Len(s) = b + c /\ Len(s) <= Len(g)
  BY <1>1, <1>9
<1>11. ASSUME NEW i \in 1 .. Len(s) PROVE s[i] = g[(Len(g) - Len(s)) + i]
  <2>1. n \in Nat /\ b \in Nat /\ i \in 1 .. (n - c)
    BY <1>1, <1>9
  <2>2. c + i \in 1 .. n /\ b + (c + i) = (b + c) + i
    BY <2>1
  <2> QED BY <1>3, <1>9, <1>10, <2>1, <2>2
<1>12. ASSUME NEW i \in 1 .. (Len(g) - Len(s)) PROVE t - g[i] >= Second
  <2>1. CASE i <= b
    BY <1>1, <1>2, <1>10, <2>1
  <2>2. CASE i > b
    <3>1. i - b \in 1 .. c /\ i - b \in 1 .. n /\ b + (i - b) = i
      BY <1>1, <1>10, <2>2
    <3> QED BY <1>3, <1>8, <3>1
  <2> QED BY <1>1, <1>10, <2>1, <2>2
<1>13. Sliding(g, s, t)
  BY <1>1, <1>9, <1>10, <1>11, <1>12 DEF Sliding
<1> QED BY <1>13 DEF s, K

\* A request passed on (push_back): with fewer than MaxRate in the window, the one MaxRate
\* before it has left the window.
LEMMA SlideAppend ==
  ASSUME NEW g, NEW r, NEW t \in Nat, Sliding(g, r, t), Len(r) < MaxRate
  PROVE  Sliding(Append(g, t), Append(r, t), t)
<1> DEFINE n == Len(r)
           m == Len(g)
           h == Append(g, t)
           s == Append(r, t)
<1>1. /\ g \in Seq(Nat) /\ r \in Seq(Nat) /\ n \in Nat /\ m \in Nat /\ n <= m /\ n < MaxRate
      /\ Second \in Nat /\ MaxRate \in Nat
  BY PeersAssumption DEF Sliding
<1>2. /\ \A i \in 1 .. n : r[i] = g[(m - n) + i]
      /\ \A i \in 1 .. (m - n) : t - g[i] >= Second
      /\ \A i \in 1 .. m : g[i] \in Nat /\ g[i] <= t
      /\ \A i, j \in 1 .. m : i <= j => g[i] <= g[j]
      /\ \A i \in 1 .. m : i + MaxRate <= m => g[i + MaxRate] - g[i] >= Second
  BY <1>1 DEF Sliding
<1>3. /\ h \in Seq(Nat) /\ s \in Seq(Nat) /\ Len(h) = m + 1 /\ Len(s) = n + 1
      /\ h[m + 1] = t /\ s[n + 1] = t
      /\ \A i \in 1 .. m : h[i] = g[i]
      /\ \A i \in 1 .. n : s[i] = r[i]
  BY <1>1
<1> HIDE DEF n, m, h, s
<1>4. Len(h) - Len(s) = m - n /\ Len(s) <= Len(h)
  BY <1>1, <1>3
<1>5. ASSUME NEW i \in 1 .. Len(s) PROVE s[i] = h[(Len(h) - Len(s)) + i]
  <2>1. CASE i = n + 1
    <3>1. (m - n) + (n + 1) = m + 1
      BY <1>1
    <3>2. (Len(h) - Len(s)) + i = m + 1
      BY <1>4, <2>1, <3>1
    <3> QED BY <1>3, <2>1, <3>2
  <2>2. CASE i # n + 1
    <3>1. i \in 1 .. n /\ (m - n) + i \in 1 .. m
      BY <1>1, <1>3, <2>2
    <3> QED BY <1>2, <1>3, <1>4, <3>1
  <2> QED BY <2>1, <2>2
<1>6. ASSUME NEW i \in 1 .. (Len(h) - Len(s)) PROVE t - h[i] >= Second
  <2>1. i \in 1 .. (m - n) /\ i \in 1 .. m
    BY <1>1, <1>4
  <2> QED BY <1>2, <1>3, <2>1
<1>7. ASSUME NEW i \in 1 .. Len(h) PROVE h[i] <= t /\ h[i] \in Nat /\ (i \in 1 .. m \/ i = m + 1)
  <2>1. i \in 1 .. m \/ i = m + 1
    BY <1>1, <1>3
  <2> QED BY <1>2, <1>3, <2>1
<1>8. ASSUME NEW i \in 1 .. Len(h), NEW j \in 1 .. Len(h), i <= j PROVE h[i] <= h[j]
  <2>1. CASE j = m + 1
    BY <1>3, <1>7, <2>1
  <2>2. CASE j \in 1 .. m
    <3>1. i \in 1 .. m
      BY <1>1, <1>8, <2>2
    <3> QED BY <1>2, <1>3, <1>8, <2>2, <3>1
  <2> QED BY <1>7, <2>1, <2>2
<1>9. ASSUME NEW i \in 1 .. Len(h), i + MaxRate <= Len(h) PROVE h[i + MaxRate] - h[i] >= Second
  <2>0. 1 <= MaxRate
    BY <1>1
  <2>1. CASE i + MaxRate = m + 1
    <3>1. i \in 1 .. (m - n) /\ i \in 1 .. m
      BY <1>1, <1>3, <2>0, <2>1
    <3> QED BY <1>2, <1>3, <2>1, <3>1
  <2>2. CASE i + MaxRate # m + 1
    <3>1. i \in 1 .. m /\ i + MaxRate <= m /\ i + MaxRate \in 1 .. m
      BY <1>1, <1>3, <1>9, <2>0, <2>2
    <3> QED BY <1>2, <1>3, <3>1
  <2> QED BY <2>1, <2>2
<1>10. Sliding(h, s, t)
  BY <1>3, <1>4, <1>5, <1>6, <1>7, <1>8, <1>9 DEF Sliding
<1> QED BY <1>10 DEF h, s

\* The clock runs: what was a second old stays so.
LEMMA SlideOn ==
  ASSUME NEW g, NEW r, NEW t \in Nat, Sliding(g, r, t)
  PROVE  Sliding(g, r, t + 1)
<1>1. /\ g \in Seq(Nat) /\ Len(g) \in Nat /\ Len(r) \in Nat /\ Second \in Nat
      /\ \A i \in 1 .. Len(g) : g[i] \in Nat
  BY PeersAssumption DEF Sliding
<1>2. ASSUME NEW i \in 1 .. (Len(g) - Len(r)) PROVE (t + 1) - g[i] >= Second
  <2>1. i \in 1 .. Len(g) /\ t - g[i] >= Second
    BY <1>1 DEF Sliding
  <2> QED BY <1>1, <2>1
<1>3. ASSUME NEW i \in 1 .. Len(g) PROVE g[i] <= t + 1
  BY <1>1 DEF Sliding
<1> QED BY <1>2, <1>3 DEF Sliding

\* A request of p (handle_request): its window is pruned, then grows if there is room.
LEMMA RequestSlides ==
  ASSUME RateIInv, NEW p \in Remote, NEW withinBatch \in BOOLEAN, SyncRequest(p, withinBatch)
  PROVE  RateIInv'
<1>1. Sliding(grants[p], Recent(p), clock) /\ clock \in Nat
  BY PruneWindow DEF RateIInv, Recent, Within
<1>2. clock' = clock
  BY DEF SyncRequest
<1>3. CASE Len(Recent(p)) < MaxRate /\ withinBatch
  <2>1. Sliding(Append(grants[p], clock), Append(Recent(p), clock), clock)
    BY <1>1, <1>3, SlideAppend
  <2>2. /\ recent' = [recent EXCEPT ![p] = Append(Recent(p), clock)]
        /\ grants' = [grants EXCEPT ![p] = Append(grants[p], clock)]
    BY <1>3 DEF SyncRequest
  <2> QED BY <1>2, <2>1, <2>2 DEF RateIInv
<1>4. CASE ~ (Len(Recent(p)) < MaxRate /\ withinBatch)
  <2>1. recent' = [recent EXCEPT ![p] = Recent(p)] /\ grants' = grants
    BY <1>4 DEF SyncRequest
  <2> QED BY <1>1, <1>2, <2>1 DEF RateIInv
<1> QED BY <1>3, <1>4

\* A peer with nothing passed on yet.
LEMMA EmptySlides == ASSUME NEW t \in Nat PROVE Sliding(<< >>, << >>, t)
BY DEF Sliding

\* Every step keeps the windows: only a request, the clock and a restart touch them.
LEMMA RateStep == RateIInv /\ [PeersNext]_peerVars => RateIInv'
<1> SUFFICES ASSUME RateIInv, [PeersNext]_peerVars PROVE RateIInv'
  OBVIOUS
<1>1. CASE UNCHANGED <<recent, grants, clock>>
  BY <1>1 DEF RateIInv
<1>2. ASSUME NEW p \in Remote, NEW b \in BOOLEAN, SyncRequest(p, b) PROVE RateIInv'
  BY <1>2, RequestSlides
<1>3. CASE Ticks
  <2>1. recent' = recent /\ grants' = grants /\ clock' = clock + 1
    BY <1>3 DEF Ticks
  <2>2. \A p \in Remote : Sliding(grants[p], recent[p], clock + 1)
    BY SlideOn DEF RateIInv
  <2> QED BY <2>1, <2>2 DEF RateIInv
<1>4. CASE RestartPeers
  <2>1. /\ recent' = [p \in Remote |-> << >>] /\ grants' = [p \in Remote |-> << >>]
        /\ clock' = clock + 1 /\ clock' \in Nat
    BY <1>4 DEF RestartPeers, RateIInv
  <2> QED BY <2>1, EmptySlides DEF RateIInv
<1>5. \/ UNCHANGED <<recent, grants, clock>>
      \/ \E p \in Remote : \E b \in BOOLEAN : SyncRequest(p, b)
      \/ Ticks \/ RestartPeers
  BY DEF PeersNext, peerVars, ConnectionEstablished, ConnectionClosed, OutgoingConnectionError,
         InvalidGossip, OtherMessage, Passed, PassFailed, SendAnswer, SendRequest, TakeMessage, AnswerRequest, AskPeer,
         StopPeers, SwarmStops, countVars
<1> QED BY <1>1, <1>2, <1>3, <1>4, <1>5

\* However often a peer connects anew, the node passes on at most MaxRate of its requests in
\* any second: the window of request_windows is the end of the history.
THEOREM RateAlwaysKept == PeersSpec => []RateKept
<1>1. PeersInit => RateIInv
  BY EmptySlides DEF PeersInit, RateIInv
<1>2. RateIInv => RateKept
  <2> SUFFICES ASSUME RateIInv, NEW p \in Remote, NEW i \in DOMAIN grants[p],
                      i + MaxRate \in DOMAIN grants[p]
               PROVE  grants[p][i + MaxRate] - grants[p][i] >= Second
    BY DEF RateKept
  <2>1. Sliding(grants[p], recent[p], clock)
    BY DEF RateIInv
  <2>2. grants[p] \in Seq(Nat) /\ DOMAIN grants[p] = 1 .. Len(grants[p])
    BY <2>1 DEF Sliding
  <2>3. i \in 1 .. Len(grants[p]) /\ i + MaxRate <= Len(grants[p])
    BY <2>2, PeersAssumption
  <2> QED BY <2>1, <2>3 DEF Sliding
<1> QED BY <1>1, <1>2, RateStep, PTL DEF PeersSpec

-----------------------------------------------------------------------------
(***************************************************************************)
(* The stack of scripts: no instruction adds more than two items, and each *)
(* one that touches the stack is charged.                                  *)
(***************************************************************************)

\* A stack of at most n items.
StackOf(s, n) == \E S : s \in Seq(S) /\ Len(s) <= n

\* ScriptStack::push adds one item.
LEMMA PushAdds ==
  ASSUME NEW n \in Int, NEW s, StackOf(s, n), NEW i, NEW r \in Push(s, i)
  PROVE  StackOf(r, n + 1)
<1>1. PICK S : s \in Seq(S) /\ Len(s) <= n
  BY DEF StackOf
<1>2. r = Append(s, i)
  BY DEF Push
<1>3. s \in Seq(S \cup {i})
  BY <1>1, SeqMonotonic, Zenon
<1>4. r \in Seq(S \cup {i}) /\ Len(r) = Len(s) + 1
  BY <1>2, <1>3
<1>5. Len(r) <= n + 1
  BY <1>1, <1>4
<1> QED BY <1>4, <1>5 DEF StackOf

\* Several pushes: two items of swap and dup2, three of rot.
LEMMA PushAllAdds ==
  ASSUME NEW n \in Int, NEW s, StackOf(s, n), NEW U, NEW items \in Seq(U),
         NEW r \in PushAll(s, items)
  PROVE  StackOf(r, n + Len(items))
<1>1. PICK S : s \in Seq(S) /\ Len(s) <= n
  BY DEF StackOf
<1>2. r = s \o items
  BY DEF PushAll
<1>3. s \in Seq(S \cup U) /\ items \in Seq(S \cup U)
  BY <1>1, SeqMonotonic, Zenon
<1>4. r \in Seq(S \cup U) /\ Len(r) = Len(s) + Len(items)
  BY <1>2, <1>3
<1>5. Len(r) <= n + Len(items)
  BY <1>1, <1>4
<1> QED BY <1>4, <1>5 DEF StackOf

\* ScriptStack::pop: k items leave.
LEMMA BelowLess ==
  ASSUME NEW n \in Int, NEW s, StackOf(s, n), NEW k \in Nat, k <= Len(s)
  PROVE  StackOf(Below(s, k), n - k)
<1>1. PICK S : s \in Seq(S) /\ Len(s) <= n
  BY DEF StackOf
<1>2. 1 \in 1 .. Len(s) + 1 /\ Len(s) - k \in 0 .. Len(s)
  BY <1>1
<1>3. Below(s, k) \in Seq(S) /\ Len(Below(s, k)) = Len(s) - k
  BY <1>1, <1>2 DEF Below
<1>4. Len(Below(s, k)) <= n - k
  BY <1>1, <1>3
<1> QED BY <1>3, <1>4 DEF StackOf

\* More room is room.
LEMMA StackOfMore ==
  ASSUME NEW n \in Int, NEW m \in Int, n <= m, NEW s, StackOf(s, n)
  PROVE  StackOf(s, m)
<1>1. PICK S : s \in Seq(S) /\ Len(s) <= n
  BY DEF StackOf
<1>2. Len(s) <= m
  BY <1>1
<1> QED BY <1>1, <1>2 DEF StackOf

\* Items are popped before a result is pushed: add, sub, equal, check_sig and the like.
LEMMA Replaced ==
  ASSUME NEW n \in Int, NEW s, StackOf(s, n), NEW k \in 1 .. 2, k <= Len(s), NEW i,
         NEW r \in Push(Below(s, k), i)
  PROVE  StackOf(r, n + 2)
<1>1. StackOf(Below(s, k), n - k) /\ n - k \in Int
  BY BelowLess
<1>2. StackOf(r, (n - k) + 1)
  BY <1>1, PushAdds
<1>3. (n - k) + 1 \in Int /\ n + 2 \in Int /\ (n - k) + 1 <= n + 2
  OBVIOUS
<1> QED BY <1>2, <1>3, StackOfMore

\* The instructions whose effect has several items.
LEMMA SeveralItems ==
  /\ {OP_SWAP, OP_ROT, OP_2DUP} \cap
       {OP_0, OP_DUP, OP_DROP, OP_EQUAL, OP_EQUALVERIFY, OP_ADD, OP_SUB, OP_LESSTHAN, OP_GREATERTHAN,
        OP_BLAKE3, OP_CHECKSIG, OP_CHECKSIGVERIFY, OP_CHECKLOCKTIMEVERIFY} = {}
  /\ {OP_SWAP, OP_ROT, OP_2DUP} \cap OP_1 .. OP_16 = {}
  /\ OP_SWAP # OP_ROT /\ OP_ROT # OP_2DUP /\ OP_SWAP # OP_2DUP
BY DEF OP_1, OP_16, OP_0, OP_DUP, OP_DROP, OP_SWAP, OP_ROT, OP_2DUP, OP_EQUAL,
       OP_EQUALVERIFY, OP_ADD, OP_SUB, OP_LESSTHAN, OP_GREATERTHAN, OP_BLAKE3, OP_CHECKSIG,
       OP_CHECKSIGVERIFY, OP_CHECKLOCKTIMEVERIFY

\* No instruction adds more than two items (the match of execute_script).
LEMMA EffectAddsTwo ==
  ASSUME NEW n \in Int, NEW s, StackOf(s, n), NEW op, NEW r \in Effect(op, s)
  PROVE  StackOf(r, n + 2)
<1>0. Len(s) \in Nat
  BY DEF StackOf
<1>1. ASSUME NEW i, r \in Push(s, i) PROVE StackOf(r, n + 2)
  <2>1. StackOf(r, n + 1)
    BY <1>1, PushAdds
  <2>2. n + 1 \in Int /\ n + 2 \in Int /\ n + 1 <= n + 2
    OBVIOUS
  <2> QED BY <2>1, <2>2, StackOfMore
<1>2. ASSUME NEW k \in 1 .. 2, k <= Len(s), r = Below(s, k) PROVE StackOf(r, n + 2)
  <2>1. StackOf(r, n - k)
    BY <1>2, BelowLess
  <2>2. n - k \in Int /\ n + 2 \in Int /\ n - k <= n + 2
    OBVIOUS
  <2> QED BY <2>1, <2>2, StackOfMore
<1>3. ASSUME NEW k \in 1 .. 2, k <= Len(s), NEW i, r \in Push(Below(s, k), i)
      PROVE  StackOf(r, n + 2)
  BY <1>3, Replaced
<1>4. CASE op = OP_SWAP
  <2> DEFINE items == <<Top(s, 1), Top(s, 2)>>
  <2>1. 2 <= Len(s) /\ r \in PushAll(Below(s, 2), items)
    <3>1. r \in IF Len(s) < 2 THEN {} ELSE PushAll(Below(s, 2), items)
      BY <1>4, SeveralItems DEF Effect
    <3> QED BY <1>0, <3>1
  <2>2. StackOf(Below(s, 2), n - 2) /\ n - 2 \in Int
    BY <2>1, BelowLess
  <2>3. items \in Seq({Top(s, 1), Top(s, 2)}) /\ Len(items) = 2
    OBVIOUS
  <2> HIDE DEF items
  <2>4. StackOf(r, (n - 2) + 2)
    BY <2>1, <2>2, <2>3, PushAllAdds
  <2>5. (n - 2) + 2 \in Int /\ n + 2 \in Int /\ (n - 2) + 2 <= n + 2
    OBVIOUS
  <2> QED BY <2>4, <2>5, StackOfMore
<1>5. CASE op = OP_ROT
  <2> DEFINE items == <<Top(s, 2), Top(s, 1), Top(s, 3)>>
  <2>1. 3 <= Len(s) /\ r \in PushAll(Below(s, 3), items)
    <3>1. r \in IF Len(s) < 3 THEN {} ELSE PushAll(Below(s, 3), items)
      BY <1>5, SeveralItems DEF Effect
    <3> QED BY <1>0, <3>1
  <2>2. StackOf(Below(s, 3), n - 3) /\ n - 3 \in Int
    BY <2>1, BelowLess
  <2>3. items \in Seq({Top(s, 1), Top(s, 2), Top(s, 3)}) /\ Len(items) = 3
    OBVIOUS
  <2> HIDE DEF items
  <2>4. StackOf(r, (n - 3) + 3)
    BY <2>1, <2>2, <2>3, PushAllAdds
  <2>5. (n - 3) + 3 \in Int /\ n + 2 \in Int /\ (n - 3) + 3 <= n + 2
    OBVIOUS
  <2> QED BY <2>4, <2>5, StackOfMore
<1>6. CASE op = OP_2DUP
  <2> DEFINE items == <<Top(s, 2), Top(s, 1)>>
  <2>1. r \in PushAll(s, items)
    <3>1. r \in IF Len(s) < 2 THEN {} ELSE PushAll(s, items)
      BY <1>6, SeveralItems DEF Effect
    <3> QED BY <1>0, <3>1
  <2>2. items \in Seq({Top(s, 1), Top(s, 2)}) /\ Len(items) = 2
    OBVIOUS
  <2> HIDE DEF items
  <2> QED BY <2>1, <2>2, PushAllAdds
<1>7. CASE op \notin {OP_SWAP, OP_ROT, OP_2DUP}
  <2>1. \/ \E i : r \in Push(s, i)
        \/ 1 <= Len(s) /\ r = Below(s, 1)
        \/ 2 <= Len(s) /\ r = Below(s, 2)
        \/ 1 <= Len(s) /\ \E i : r \in Push(Below(s, 1), i)
        \/ 2 <= Len(s) /\ \E i : r \in Push(Below(s, 2), i)
    <3>1. \/ op = OP_0 /\ r \in Push(s, << >>)
          \/ r \in Push(s, IntItem((op - OP_1) + 1))
          \/ ~ (Len(s) < 1) /\ r \in Push(s, Top(s, 1))
          \/ ~ (Len(s) < 1) /\ r = Below(s, 1)
          \/ r \in Binary(s, LAMBDA a, b : BoolItem(a = b))
          \/ r \in Agree(s, LAMBDA a, b : a = b)
          \/ r \in Arith(s, LAMBDA a, b : a + b)
          \/ r \in Arith(s, LAMBDA a, b : a - b)
          \/ r \in Compare(s, LAMBDA a, b : a < b)
          \/ r \in Compare(s, LAMBDA a, b : a > b)
          \/ r \in Unary(s, Blake3)
          \/ r \in Binary(s, LAMBDA sig, key : BoolItem(VerifySignature(key, sig)))
          \/ r \in Agree(s, LAMBDA sig, key : VerifySignature(key, sig))
          \/ Len(s) >= 1 /\ r = Below(s, 1)
      BY <1>7 DEF Effect
    <3> QED BY <1>0, <3>1 DEF Binary, Agree, Arith, Compare, Unary, Ints
  <2> QED BY <1>1, <1>2, <1>3, <2>1
<1> QED BY <1>4, <1>5, <1>6, <1>7

\* What a script may hold, given what it has left to spend.
ScriptIInv ==
  /\ budget \in 0 .. MaxOps
  /\ StackOf(stack, 2 * (MaxOps - budget))

\* A charge pays for what the stack gains.
LEMMA Charged ==
  ASSUME ScriptIInv, NEW results, Charge(results),
         \A r \in results : StackOf(r, 2 * (MaxOps - budget) + 2)
  PROVE  ScriptIInv'
<1>1. MaxOps \in Nat
  BY ScriptAssumption
<1>2. budget > 0 /\ budget' = budget - 1 /\ stack' \in results
  BY DEF Charge
<1>3. budget' \in 0 .. MaxOps /\ 2 * (MaxOps - budget') = 2 * (MaxOps - budget) + 2
  BY <1>1, <1>2 DEF ScriptIInv
<1>4. StackOf(stack', 2 * (MaxOps - budget) + 2)
  BY <1>2
<1>5. StackOf(stack', 2 * (MaxOps - budget'))
  BY <1>3, <1>4
<1> QED BY <1>3, <1>5 DEF ScriptIInv

\* Every step of the engine keeps the bound.
LEMMA ScriptStep == ScriptIInv /\ [EngineNext]_engineVars => ScriptIInv'
<1> SUFFICES ASSUME ScriptIInv, [EngineNext]_engineVars PROVE ScriptIInv'
  OBVIOUS
<1> DEFINE n == 2 * (MaxOps - budget)
<1>0. n \in Int /\ StackOf(stack, n)
  BY ScriptAssumption DEF ScriptIInv
<1>1. CASE UNCHANGED <<stack, budget>>
  BY <1>1 DEF ScriptIInv
<1>2. ASSUME stack # << >>, Charge({Below(stack, 1)}) PROVE ScriptIInv'
  <2>1. 1 <= Len(stack)
    BY <1>0, <1>2 DEF StackOf
  <2>2. StackOf(Below(stack, 1), n - 1)
    BY <1>0, <2>1, BelowLess
  <2>3. n - 1 \in Int /\ n + 2 \in Int /\ n - 1 <= n + 2
    BY <1>0
  <2>4. StackOf(Below(stack, 1), n + 2)
    BY <2>2, <2>3, StackOfMore
  <2> QED BY <1>2, <2>4, Charged
<1>3. ASSUME NEW item, Charge(Push(stack, item)) PROVE ScriptIInv'
  <2>1. ASSUME NEW r \in Push(stack, item) PROVE StackOf(r, n + 2)
    <3>1. StackOf(r, n + 1)
      BY <1>0, PushAdds
    <3>2. n + 1 \in Int /\ n + 2 \in Int /\ n + 1 <= n + 2
      BY <1>0
    <3> QED BY <3>1, <3>2, StackOfMore
  <2> QED BY <1>3, <2>1, Charged
<1>4. ASSUME NEW op, Charge(Effect(op, stack)) PROVE ScriptIInv'
  <2>1. \A r \in Effect(op, stack) : StackOf(r, n + 2)
    BY <1>0, EffectAddsTwo
  <2> QED BY <1>4, <2>1, Charged
<1>5. \/ UNCHANGED <<stack, budget>>
      \/ stack # << >> /\ Charge({Below(stack, 1)})
      \/ \E item : Charge(Push(stack, item))
      \/ \E op : Charge(Effect(op, stack))
  BY DEF EngineNext, EngineStep, engineVars, Verify, RefuseEmpty, If, Else, EndIf, PushBytes,
         PushCharged, Execute, Fault, Refuse, EndScript, Unbalanced
<1> QED BY <1>1, <1>2, <1>3, <1>4, <1>5

\* The operations budget bounds the stack of both scripts: with 2 * MaxOps below
\* MAX_STACK_DEPTH, StackOverflow is never returned.
THEOREM StackStaysWithinBudget == EngineSpec => []StackWithinBudget
<1>1. EngineInit => ScriptIInv
  <2> SUFFICES ASSUME EngineInit PROVE ScriptIInv
    OBVIOUS
  <2>1. budget \in 0 .. MaxOps /\ 2 * (MaxOps - budget) = 0
    BY ScriptAssumption DEF EngineInit
  <2>2. stack \in Seq({}) /\ Len(stack) = 0
    BY DEF EngineInit
  <2> QED BY <2>1, <2>2 DEF ScriptIInv, StackOf
<1>2. ScriptIInv => StackWithinBudget
  BY DEF ScriptIInv, StackOf, StackWithinBudget
<1> QED BY <1>1, <1>2, ScriptStep, PTL DEF EngineSpec

\* One position of the fold of Begins: the instruction at p, if there is one, says
\* where the next begins.
Mark(s, set, p) == IF p \in set /\ ~ Truncated(s, p) THEN set \cup {After(s, p)} ELSE set
MarkStep(s, d, f, x) == IF x = {} THEN {1} ELSE Mark(s, f[x \ {Max(x)}], d[Max(x)])

\* f is the function that FoldLeftDomain recurses with.
MarksBy(s, d, f, n) == f = [x \in SUBSET (1 .. n) |-> MarkStep(s, d, f, x)]

\* The recursion over the positions of a script defines a function.
LEMMA MarksExist ==
  ASSUME NEW s, NEW d, NEW n \in Nat
  PROVE  \E f : MarksBy(s, d, f, n)
<1> DEFINE Small(k) == {x \in SUBSET (1 .. n) : Cardinality(x) <= k}
           MarkAt(f, x) == MarkStep(s, d, f, x)
           Good(f, k) == f = [x \in Small(k) |-> MarkAt(f, x)]
           T == {k \in Nat : \E f : Good(f, k)}
<1>1. 0 \in T
  <2> DEFINE f == [x \in Small(0) |-> {1}]
  <2>1. ASSUME NEW x \in Small(0) PROVE x = {}
    <3>1. x \in SUBSET (1 .. n) /\ Cardinality(x) <= 0
      OBVIOUS
    <3>2. Cardinality(x) \in Nat /\ (Cardinality(x) = 0 <=> x = {})
      BY <3>1, LastOut
    <3> QED BY <3>1, <3>2
  <2>2. f = [x \in Small(0) |-> MarkAt(f, x)]
    BY <2>1 DEF MarkStep
  <2> QED BY <2>2
<1>2. ASSUME NEW k \in Nat, k \in T PROVE k + 1 \in T
  <2>1. PICK f : Good(f, k)
    BY <1>2
  <2> DEFINE g == [x \in Small(k + 1) |-> IF x \in Small(k) THEN f[x] ELSE MarkAt(f, x)]
  <2>2. ASSUME NEW x \in Small(k + 1) PROVE g[x] = MarkAt(g, x)
    <3>1. ASSUME x # {} PROVE x \ {Max(x)} \in Small(k) /\ x \ {Max(x)} \in Small(k + 1)
      <4>1. x \in SUBSET (1 .. n) /\ Cardinality(x) <= k + 1
        OBVIOUS
      <4>2. /\ Cardinality(x) \in Nat /\ Cardinality(x \ {Max(x)}) = Cardinality(x) - 1
            /\ x \ {Max(x)} \in SUBSET (1 .. n)
        BY <3>1, <4>1, LastOut
      <4>3. Cardinality(x \ {Max(x)}) <= k /\ Cardinality(x \ {Max(x)}) <= k + 1
        BY <4>1, <4>2
      <4> QED BY <4>2, <4>3
    <3>2. MarkAt(g, x) = MarkAt(f, x)
      BY <3>1 DEF MarkStep
    <3>3. x \in Small(k) => f[x] = MarkAt(f, x)
      <4> HIDE DEF Small, MarkAt
      <4> QED BY <2>1
    <3> HIDE DEF Small, MarkAt
    <3> QED BY <3>2, <3>3
  <2> HIDE DEF MarkAt, Small
  <2>3. g = [x \in Small(k + 1) |-> g[x]]
    OBVIOUS
  <2> HIDE DEF g
  <2>4. g = [x \in Small(k + 1) |-> MarkAt(g, x)]
    BY <2>2, <2>3
  <2> QED BY <2>4
<1>3. Nat \subseteq T
  <2> HIDE DEF T
  <2> QED BY <1>1, <1>2, OneByOne
<1>4. PICK f : Good(f, n)
  BY <1>3
<1>5. Small(n) = SUBSET (1 .. n)
  BY LastOut
<1> QED BY <1>4, <1>5 DEF MarksBy

\* The beginnings found up to each position of a script.
LEMMA MarkStates ==
  ASSUME NEW s \in Seq(Byte)
  PROVE  \E h : /\ h[0] = {1} /\ h[Len(s)] = Begins(s)
                /\ \A k \in 1 .. Len(s) : h[k] = Mark(s, h[k - 1], k)
<1> DEFINE n == Len(s)
           d == [i \in DOMAIN s |-> i]
           f == CHOOSE g : MarksBy(s, d, g, n)
           h == [k \in 0 .. n |-> f[1 .. k]]
<1>1. n \in Nat /\ DOMAIN d = 1 .. n
  OBVIOUS
<1>2. Begins(s) = f[1 .. n]
  BY <1>1 DEF Begins, FoldLeftDomain, FoldLeft, MapThenFoldSet, MarksBy, MarkStep, Mark
<1>3. MarksBy(s, d, f, n)
  BY <1>1, MarksExist
<1>4. \A k \in 1 .. n : d[k] = k
  BY <1>1
<1> HIDE DEF f, d, n
<1>5. \A x \in SUBSET (1 .. n) : f[x] = MarkStep(s, d, f, x)
  BY <1>3 DEF MarksBy
<1>6. f[1 .. 0] = {1}
  <2>1. 1 .. 0 = {} /\ {} \in SUBSET (1 .. n)
    OBVIOUS
  <2> QED BY <1>5, <2>1 DEF MarkStep
<1>7. ASSUME NEW k \in 1 .. n PROVE f[1 .. k] = Mark(s, f[1 .. (k - 1)], k)
  <2>0. k \in Nat \ {0} /\ k <= n /\ k \in 1 .. k
    BY <1>1
  <2>1. 1 .. k \in SUBSET (1 .. n) /\ 1 .. k # {}
    <3>1. n \in Nat
      BY <1>1
    <3>2. \A i \in 1 .. k : i \in 1 .. n
      BY <2>0, <3>1
    <3> QED BY <2>0, <3>2
  <2>2. Max(1 .. k) = k /\ (1 .. k) \ {k} = 1 .. (k - 1)
    BY <2>0, LastOfPrefix
  <2> QED BY <1>4, <1>5, <2>1, <2>2 DEF MarkStep
<1>8. /\ h[0] = f[1 .. 0] /\ h[n] = f[1 .. n]
      /\ \A k \in 1 .. n : h[k] = f[1 .. k] /\ h[k - 1] = f[1 .. (k - 1)]
  BY <1>1
<1> HIDE DEF h
<1>9. /\ h[0] = {1} /\ h[n] = Begins(s)
      /\ \A k \in 1 .. n : h[k] = Mark(s, h[k - 1], k)
  BY <1>2, <1>6, <1>7, <1>8
<1> QED BY <1>9 DEF n

\* An instruction that is all there ends in the script, after where it begins.
LEMMA AfterLater ==
  ASSUME NEW s \in Seq(Byte), NEW p \in 1 .. Len(s), ~ Truncated(s, p)
  PROVE  After(s, p) \in (p + 1) .. (Len(s) + 1)
<1>1. Len(s) \in Nat /\ \A k \in 1 .. Len(s) : s[k] \in Byte
  OBVIOUS
<1>2. Byte \subseteq Nat
  BY DEF Byte
<1>3. PICK n \in Nat : n = Len(s)
  BY <1>1
<1>4. p \in 1 .. n /\ p \in Nat /\ s[p] \in Nat
  <2>1. s[p] \in Byte
    BY <1>1
  <2>2. s[p] \in Nat
    BY <1>2, <2>1
  <2>3. p \in 1 .. n /\ p \in Nat
    BY <1>3
  <2> QED BY <2>2, <2>3
<1>5. ASSUME NEW a \in Nat, After(s, p) = p + 1 + a, ~ (p + 1 + a - 1 > n)
      PROVE  After(s, p) \in (p + 1) .. (Len(s) + 1)
  BY <1>5, <1>3, <1>4
<1>6. CASE s[p] = OP_PUSHDATA1
  <2>1. Lead(s, p) = 2 /\ IsPush(s, p) /\ DataLen(s, p) = s[p + 1] /\ ~ (p + 1 > Len(s))
    BY <1>6, <1>4 DEF Lead, IsPush, DataLen, Truncated
  <2>2. p + 1 \in 1 .. Len(s)
    BY <1>3, <1>4, <2>1
  <2>3. PICK b : b = s[p + 1]
    OBVIOUS
  <2>4. b \in Nat
    BY <1>1, <1>2, <2>2, <2>3
  <2>5. ~ (p + 2 + b - 1 > n) /\ After(s, p) = p + 2 + b
    BY <1>3, <2>1, <2>3 DEF Truncated, After
  <2>6. /\ b + 1 \in Nat /\ After(s, p) = p + 1 + (b + 1)
        /\ ~ (p + 1 + (b + 1) - 1 > n)
    BY <1>4, <2>4, <2>5
  <2> QED BY <1>5, <2>6
<1>7. CASE s[p] # OP_PUSHDATA1 /\ IsPush(s, p)
  <2>1. Lead(s, p) = 1 /\ DataLen(s, p) = s[p]
    BY <1>7 DEF Lead, DataLen
  <2>2. ~ (p + 1 + s[p] - 1 > n) /\ After(s, p) = p + 1 + s[p]
    BY <1>7, <1>3, <2>1 DEF Truncated, After
  <2> QED BY <1>5, <1>4, <2>2
<1>8. CASE ~ IsPush(s, p)
  BY <1>8, <1>3, <1>4 DEF After
<1> QED BY <1>6, <1>7, <1>8

\* The beginnings of a script: the first byte, after each instruction the next, and
\* none inside an instruction.
LEMMA BeginsApart ==
  ASSUME NEW s \in Seq(Byte)
  PROVE  /\ 1 \in Begins(s) /\ Begins(s) \subseteq 1 .. (Len(s) + 1)
         /\ \A p \in Begins(s) : p <= Len(s) /\ ~ Truncated(s, p) => After(s, p) \in Begins(s)
         /\ \A p, q \in Begins(s) : p < q => After(s, p) <= q
<1> DEFINE n == Len(s)
           P(S, k) == /\ 1 \in S /\ S \subseteq 1 .. (n + 1)
                      /\ \A p \in S : p <= k /\ ~ Truncated(s, p) => After(s, p) \in S
                      /\ \A p, q \in S : p < q => p <= k /\ After(s, p) \in Int /\ After(s, p) <= q
<1>1. PICK h : /\ h[0] = {1} /\ h[n] = Begins(s)
               /\ \A k \in 1 .. n : h[k] = Mark(s, h[k - 1], k)
  BY MarkStates
<1> DEFINE T == {k \in Nat : k <= n => P(h[k], k)}
<1>2. n \in Nat
  OBVIOUS
<1>3. 0 \in T
  BY <1>1, <1>2
<1>4. ASSUME NEW k \in Nat, k \in T PROVE k + 1 \in T
  <2> SUFFICES ASSUME k + 1 <= n PROVE P(h[k + 1], k + 1)
    OBVIOUS
  <2> DEFINE j == k + 1
  <2>1. j \in 1 .. n /\ j - 1 = k /\ k <= n
    BY <1>2
  <2>2. h[j] = Mark(s, h[k], j)
    BY <1>1, <2>1
  <2>3. P(h[k], k)
    BY <1>4, <2>1
  <2>4. PICK S : S = h[k]
    OBVIOUS
  <2>5. P(S, k) /\ \A p \in S : p \in Nat
    BY <2>3, <2>4
  <2>6. CASE j \in S /\ ~ Truncated(s, j)
    <3>1. PICK a : a = After(s, j)
      OBVIOUS
    <3>2. a \in (j + 1) .. (n + 1)
      BY <2>1, <2>6, <3>1, AfterLater
    <3>3. h[j] = S \cup {a}
      BY <2>2, <2>4, <2>6, <3>1 DEF Mark
    <3>4. \A p \in S : p <= j /\ (p < j => p <= k /\ After(s, p) \in Int /\ After(s, p) <= j)
      BY <2>1, <2>5, <2>6
    <3>5. 1 \in S \cup {a} /\ S \cup {a} \subseteq 1 .. (n + 1)
      BY <2>1, <2>5, <3>2
    <3>6. ASSUME NEW p \in S \cup {a}, p <= j, ~ Truncated(s, p) PROVE After(s, p) \in S \cup {a}
      <4>1. p \in S /\ (p = j \/ p <= k)
        BY <2>1, <2>5, <3>2, <3>6
      <4> QED BY <2>5, <3>1, <3>6, <4>1
    <3>7. ASSUME NEW p \in S \cup {a}, NEW q \in S \cup {a}, p < q 
                PROVE  p <= j /\ After(s, p) \in Int /\ After(s, p) <= q
      <4>1. p \in S
        BY <2>1, <2>5, <3>2, <3>4, <3>7
      <4>2. CASE q \in S
        BY <2>1, <2>5, <3>7, <4>1, <4>2
      <4>3. CASE q = a /\ p = j
        BY <3>1, <3>2, <4>3
      <4>4. CASE q = a /\ p # j
        <5>1. p < j /\ After(s, p) \in Int /\ After(s, p) <= j
          BY <2>1, <2>5, <3>4, <4>1, <4>4
        <5> QED BY <2>1, <3>2, <4>4, <5>1
      <4> QED BY <4>1, <4>2, <4>3, <4>4
    <3> QED BY <3>3, <3>5, <3>6, <3>7
  <2>7. CASE ~ (j \in S /\ ~ Truncated(s, j))
    <3>1. h[j] = S
      BY <2>2, <2>4, <2>7 DEF Mark
    <3>2. \A p \in S : p <= j /\ ~ Truncated(s, p) => p <= k
      BY <2>1, <2>5, <2>7
    <3>3. \A p, q \in S : p < q => p <= j
      BY <2>1, <2>5
    <3> QED BY <2>5, <3>1, <3>2, <3>3
  <2> QED BY <2>6, <2>7
<1>5. Nat \subseteq T
  <2> HIDE DEF T
  <2> QED BY <1>3, <1>4, OneByOne
<1>6. P(Begins(s), n)
  BY <1>1, <1>2, <1>5
<1> QED BY <1>6

\* How deep the text of s is nested before its byte at p.
OpsBefore(s, p, op) == {q \in Begins(s) : q < p /\ s[q] = op}
Nesting(s, p) == Cardinality(OpsBefore(s, p, OP_IF)) - Cardinality(OpsBefore(s, p, OP_ENDIF))

\* Over an instruction, only that instruction is passed.
LEMMA OnePassed ==
  ASSUME NEW s \in Seq(Byte), NEW p \in Begins(s), p <= Len(s), ~ Truncated(s, p), NEW op
  PROVE  /\ IsFiniteSet(OpsBefore(s, p, op)) /\ Cardinality(OpsBefore(s, p, op)) \in Nat
         /\ Cardinality(OpsBefore(s, After(s, p), op)) =
              Cardinality(OpsBefore(s, p, op)) + (IF s[p] = op THEN 1 ELSE 0)
<1>1. Len(s) \in Nat /\ p \in 1 .. Len(s)
  <2>1. Len(s) \in Nat /\ Begins(s) \subseteq 1 .. (Len(s) + 1)
    BY BeginsApart
  <2> QED BY <2>1
<1>2. After(s, p) \in (p + 1) .. (Len(s) + 1)
  BY <1>1, AfterLater
<1>3. PICK B : B = Begins(s) /\ B \subseteq 1 .. (Len(s) + 1)
  BY BeginsApart
<1>4. PICK a : a = After(s, p) /\ \A q \in B : p < q => a <= q
  BY <1>3, BeginsApart
<1>5. \A q \in B : q < a <=> q < p \/ q = p
  <2>1. a \in Int /\ p \in Int /\ p < a
    BY <1>1, <1>2, <1>4
  <2>2. \A q \in B : q \in Int
    BY <1>3
  <2> QED BY <1>4, <2>1, <2>2
<1>6. p \in B /\ ~ (p < p)
  BY <1>1, <1>3
<1>7. /\ s[p] = op => OpsBefore(s, a, op) = OpsBefore(s, p, op) \cup {p}
      /\ s[p] # op => OpsBefore(s, a, op) = OpsBefore(s, p, op)
      /\ p \notin OpsBefore(s, p, op)
  BY <1>3, <1>5, <1>6 DEF OpsBefore
<1>8. IsFiniteSet(OpsBefore(s, p, op))
  <2>1. IsFiniteSet(1 .. (Len(s) + 1))
    BY <1>1, FS_Interval
  <2>2. OpsBefore(s, p, op) \subseteq 1 .. (Len(s) + 1)
    BY <1>3 DEF OpsBefore
  <2> QED BY <2>1, <2>2, FS_Subset
<1>9. /\ Cardinality(OpsBefore(s, p, op)) \in Nat
      /\ s[p] = op => Cardinality(OpsBefore(s, a, op)) = Cardinality(OpsBefore(s, p, op)) + 1
  BY <1>7, <1>8, FS_CardinalityType, FS_AddElement
<1> QED BY <1>4, <1>7, <1>8, <1>9

\* What is passed changes the nesting as the instruction says.
LEMMA NestingAfter ==
  ASSUME NEW s \in Seq(Byte), NEW p \in Begins(s), p <= Len(s), ~ Truncated(s, p)
  PROVE  /\ Nesting(s, p) \in Int
         /\ Nesting(s, After(s, p)) =
              IF s[p] = OP_IF THEN Nesting(s, p) + 1
              ELSE IF s[p] = OP_ENDIF THEN Nesting(s, p) - 1 ELSE Nesting(s, p)
<1>1. OP_IF # OP_ENDIF
  BY DEF OP_IF, OP_ENDIF
<1> DEFINE c(q, op) == Cardinality(OpsBefore(s, q, op))
<1>2. /\ c(p, OP_IF) \in Nat
      /\ c(After(s, p), OP_IF) = c(p, OP_IF) + (IF s[p] = OP_IF THEN 1 ELSE 0)
  BY OnePassed
<1>3. /\ c(p, OP_ENDIF) \in Nat
      /\ c(After(s, p), OP_ENDIF) = c(p, OP_ENDIF) + (IF s[p] = OP_ENDIF THEN 1 ELSE 0)
  BY OnePassed
<1>4. \A q : Nesting(s, q) = c(q, OP_IF) - c(q, OP_ENDIF)
  BY DEF Nesting
<1> HIDE DEF c
<1> QED BY <1>1, <1>2, <1>3, <1>4

\* Nothing is passed at the first byte.
LEMMA NestingFirst ==
  ASSUME NEW s \in Seq(Byte)
  PROVE  Nesting(s, 1) = 0
<1>1. Begins(s) \subseteq 1 .. (Len(s) + 1)
  BY BeginsApart
<1>2. \A op : OpsBefore(s, 1, op) = {}
  BY <1>1 DEF OpsBefore
<1>3. Cardinality({}) = 0
  BY FS_EmptySet
<1>4. OpsBefore(s, 1, OP_IF) = {} /\ OpsBefore(s, 1, OP_ENDIF) = {}
  BY <1>2
<1>5. Nesting(s, 1) = 0 - 0
  BY <1>3, <1>4 DEF Nesting
<1> QED BY <1>5

\* Where the engine is in the text, and that both scripts begin at the first byte
\* with no branch open.
StructureIInv ==
  /\ unlocking \in Seq(Byte) /\ locking \in Seq(Byte)
  /\ branches \in Seq(BOOLEAN)
  /\ at = "idle" => pc = 1 /\ branches = << >>
  /\ Running => pc \in Begins(Script) /\ Len(branches) = Nesting(Script, pc)

\* Every step of the engine keeps to the text.
LEMMA StructureStep == StructureIInv /\ [EngineNext]_engineVars => StructureIInv'
<1> SUFFICES ASSUME StructureIInv, [EngineNext]_engineVars PROVE StructureIInv'
  OBVIOUS
<1>0. Script \in Seq(Byte)
  BY DEF StructureIInv, Script
<1>1. ASSUME Running, pc <= Len(Script), ~ Truncated(Script, pc), UNCHANGED <<inputVars, at>>,
             pc' = After(Script, pc), branches' \in Seq(BOOLEAN),
             Len(branches') = IF Script[pc] = OP_IF THEN Len(branches) + 1
                              ELSE IF Script[pc] = OP_ENDIF THEN Len(branches) - 1 ELSE Len(branches)
      PROVE  StructureIInv'
  <2>1. Script' = Script /\ (at' # "idle") /\ Running'
    BY <1>1 DEF Script, Running, inputVars
  <2>2. pc \in Begins(Script) /\ Len(branches) = Nesting(Script, pc)
    BY <1>1 DEF StructureIInv
  <2>3. pc' \in Begins(Script)
    BY <1>0, <1>1, <2>2, BeginsApart
  <2>4. Nesting(Script, After(Script, pc)) =
          IF Script[pc] = OP_IF THEN Nesting(Script, pc) + 1
          ELSE IF Script[pc] = OP_ENDIF THEN Nesting(Script, pc) - 1 ELSE Nesting(Script, pc)
    BY <1>0, <1>1, <2>2, NestingAfter
  <2>5. Len(branches') = Nesting(Script, pc')
    BY <1>1, <2>2, <2>4
  <2>6. unlocking' \in Seq(Byte) /\ locking' \in Seq(Byte)
    BY <1>1 DEF StructureIInv, inputVars
  <2> QED BY <1>1, <2>1, <2>3, <2>5, <2>6 DEF StructureIInv
<1>2. branches \in Seq(BOOLEAN) /\ Len(branches) \in Nat
  BY DEF StructureIInv
<1>3. ASSUME ~ IsPush(Script, pc) PROVE ~ Truncated(Script, pc) /\ After(Script, pc) = pc + 1
  BY <1>3 DEF Truncated, After
<1>4. ASSUME Running, pc <= Len(Script), Script[pc] \in Control PROVE ~ IsPush(Script, pc)
  <2>1. PICK v : v = Script[pc]
    OBVIOUS
  <2>2. v \in {99, 103, 104}
    BY <1>4, <2>1 DEF Control, OP_IF, OP_ELSE, OP_ENDIF
  <2>3. ~ (v = 76 \/ v \in 1 .. 75)
    BY <2>2
  <2> QED BY <2>1, <2>3 DEF IsPush, IsPushBytes, OP_PUSHDATA1
<1>5. OP_IF # OP_ELSE /\ OP_IF # OP_ENDIF /\ OP_ELSE # OP_ENDIF
  BY DEF OP_IF, OP_ELSE, OP_ENDIF
<1>6. CASE If
  <2>1. Running /\ pc <= Len(Script) /\ Script[pc] = OP_IF /\ pc' = pc + 1 /\ UNCHANGED <<inputVars, at>>
    BY <1>6 DEF If, Fetches
  <2>2. PICK b \in BOOLEAN : branches' = Append(branches, b)
    BY <1>6 DEF If, Truthy
  <2>3. branches' \in Seq(BOOLEAN) /\ Len(branches') = Len(branches) + 1
    BY <1>2, <2>2
  <2>4. ~ IsPush(Script, pc)
    BY <1>4, <2>1 DEF Control
  <2> QED BY <1>1, <1>3, <2>1, <2>3, <2>4
<1>7. CASE Else
  <2>1. Running /\ pc <= Len(Script) /\ Script[pc] = OP_ELSE /\ pc' = pc + 1 /\ UNCHANGED <<inputVars, at>>
    BY <1>7 DEF Else, Fetches
  <2>2. branches' \in Seq(BOOLEAN) /\ Len(branches') = Len(branches)
    <3>1. \/ branches' = branches
          \/ branches' = [branches EXCEPT ![Len(branches)] = ~ branches[Len(branches)]]
      BY <1>7 DEF Else
    <3>2. PICK b \in BOOLEAN : b = ~ branches[Len(branches)]
      OBVIOUS
    <3>3. branches # << >>
      BY <1>7 DEF Else
    <3>4. Len(branches) \in DOMAIN branches
      BY <1>2, <3>3
    <3>5. CASE branches' = [branches EXCEPT ![Len(branches)] = b]
      BY <1>2, <3>4, <3>5
    <3> QED BY <1>2, <3>1, <3>2, <3>5
  <2>3. ~ IsPush(Script, pc)
    BY <1>4, <2>1 DEF Control
  <2> QED BY <1>1, <1>3, <1>5, <2>1, <2>2, <2>3
<1>8. CASE EndIf
  <2>1. Running /\ pc <= Len(Script) /\ Script[pc] = OP_ENDIF /\ pc' = pc + 1 /\ UNCHANGED <<inputVars, at>>
    BY <1>8 DEF EndIf, Fetches
  <2>2. branches # << >> /\ branches' = SubSeq(branches, 1, Len(branches) - 1)
    BY <1>8 DEF EndIf, Front
  <2>3. Len(branches) >= 1 /\ Len(branches) - 1 \in 0 .. Len(branches)
    BY <1>2, <2>2
  <2>4. branches' \in Seq(BOOLEAN) /\ Len(branches') = Len(branches) - 1
    <3>1. SubSeq(branches, 1, Len(branches) - 1) \in Seq(BOOLEAN)
      BY <1>2, <2>3, SubSeqProperties
    <3>2. Len(SubSeq(branches, 1, Len(branches) - 1)) = Len(branches) - 1
      <4>1. PICK m \in Nat : m = Len(branches) - 1
        BY <1>2, <2>3
      <4>2. \A i \in 1 .. m : branches[i] \in BOOLEAN
        BY <1>2, <4>1
      <4>3. Len(SubSeq(branches, 1, m)) = IF 1 <= m THEN m - 1 + 1 ELSE 0
        BY <4>2, SubSeqProperties
      <4> QED BY <4>1, <4>3
    <3> QED BY <2>2, <3>1, <3>2
  <2>5. ~ IsPush(Script, pc)
    BY <1>4, <2>1 DEF Control
  <2> QED BY <1>1, <1>3, <1>5, <2>1, <2>4, <2>5
<1>9. CASE PushBytes
  <2>1. /\ Running /\ pc <= Len(Script) /\ IsPush(Script, pc) /\ ~ Truncated(Script, pc)
        /\ pc' = After(Script, pc) /\ UNCHANGED <<inputVars, at, branches>>
    BY <1>9 DEF PushBytes, Skips
  <2>2. Script[pc] \notin Control
    BY <1>4, <2>1
  <2> QED BY <1>1, <1>2, <2>1, <2>2 DEF Control
<1>10. CASE Execute
  <2>1. /\ Running /\ pc <= Len(Script) /\ ~ IsPush(Script, pc) /\ Script[pc] \notin Control
        /\ pc' = pc + 1 /\ UNCHANGED <<inputVars, at, branches>>
    BY <1>10 DEF Execute
  <2> QED BY <1>1, <1>2, <1>3, <2>1 DEF Control
<1>11. CASE Fault \/ Unbalanced
  BY <1>11 DEF Fault, Unbalanced, Refuse, StructureIInv, Running, inputVars
<1>12. ASSUME NEW u \in Seq(Byte), NEW l \in Seq(Byte), unlocking' = u, locking' = l,
              pc' = 1, branches' = << >>, at' # "idle"
       PROVE  StructureIInv'
  <2>1. Script' \in Seq(Byte)
    BY <1>12 DEF Script
  <2>2. 1 \in Begins(Script') /\ Nesting(Script', 1) = 0
    BY <2>1, BeginsApart, NestingFirst
  <2>3. << >> \in Seq(BOOLEAN) /\ Len(<< >>) = 0
    OBVIOUS
  <2> QED BY <1>12, <2>2, <2>3 DEF StructureIInv
<1>13. CASE EndScript
  <2>1. pc' = 1 /\ branches' = << >> /\ at' # "idle" /\ UNCHANGED inputVars
    BY <1>13 DEF EndScript
  <2> QED BY <1>12, <2>1 DEF StructureIInv, inputVars
<1>14. CASE at = "idle" /\ \E u \in Unlocking, l \in Locking, h \in Heights : Verify(u, l, h)
  <2>1. PICK u \in Unlocking, l \in Locking, h \in Heights : Verify(u, l, h)
    BY <1>14
  <2>2. u \in Seq(Byte) /\ l \in Seq(Byte)
    BY ScriptAssumption
  <2>3. pc' = 1 /\ branches' = << >> /\ at' # "idle" /\ unlocking' = u /\ locking' = l
    BY <1>14, <2>1 DEF Verify, StructureIInv
  <2> QED BY <1>12, <2>2, <2>3
<1>15. CASE at = "idle" /\ \E l \in Locking, h \in Heights : RefuseEmpty(l, h)
  <2>1. PICK l \in Locking, h \in Heights : RefuseEmpty(l, h)
    BY <1>15
  <2>2. l \in Seq(Byte) /\ << >> \in Seq(Byte)
    BY ScriptAssumption
  <2>3. pc' = 1 /\ branches' = << >> /\ at' # "idle" /\ unlocking' = << >> /\ locking' = l
    BY <1>15, <2>1 DEF RefuseEmpty, StructureIInv
  <2> QED BY <1>12, <2>2, <2>3
<1>16. CASE UNCHANGED engineVars
  BY <1>16 DEF engineVars, inputVars, StructureIInv, Running, Script
<1> QED
  BY <1>6, <1>7, <1>8, <1>9, <1>10, <1>11, <1>13, <1>14, <1>15, <1>16 DEF EngineNext, EngineStep

\* For all scripts, the branches that are open are those the text opens, and the
\* data of a push is never read as an instruction, taken or not.
THEOREM StructureAlwaysFollowed == EngineSpec => []StructureFollowed
<1>1. EngineInit => StructureIInv
  <2> SUFFICES ASSUME EngineInit PROVE StructureIInv
    OBVIOUS
  <2>1. << >> \in Seq(Byte) /\ << >> \in Seq(BOOLEAN)
    OBVIOUS
  <2> QED BY <2>1 DEF EngineInit, StructureIInv, Running
<1>2. StructureIInv => StructureFollowed
  BY DEF StructureIInv, StructureFollowed, Nesting, OpsBefore
<1> QED BY <1>1, <1>2, StructureStep, PTL DEF EngineSpec

-----------------------------------------------------------------------------
(***************************************************************************)
(* Locks of wallets and miners.  An item as long as a signature is never   *)
(* computed, so one that verifies was pushed by the unlocking script.      *)
(***************************************************************************)

\* The widths of the code are such: integers have 8 bytes, digests and keys 32,
\* signatures 64.
Widths ==
  /\ KeyLen \in 1 .. 75 /\ KeyLen # SigLen
  /\ SigLen \in Nat /\ SigLen > 1 /\ SigLen # IntWidth
  /\ \A i : Blake3(i) \in Seq(Byte) /\ Len(Blake3(i)) = KeyLen

\* The bytes x occur in u one after the other.
PartOf(x, u) == \E k \in 1 .. Len(u) + 1 - Len(x) : SubSeq(u, k, k + Len(x) - 1) = x

\* Every item of s that could be a signature occurs in u.
PushedOnly(s, u) == \E S : s \in Seq(S) /\ \A x \in S : Len(x) = SigLen => PartOf(x, u)

\* Some key with the digest of key has signed, and its signature occurs in u.
Opened(key, u) ==
  \E k, sig : Blake3(k) = Blake3(key) /\ <<k, sig>> \in Signed /\ PartOf(sig, u)

\* Where the locking script of a key can be, and what it has made of the stack by then.
KeyShape(key, p, s, u) ==
  \/ p = 1
  \/ p = 2 /\ Len(s) >= 2 /\ Top(s, 1) = Top(s, 2)
  \/ p = 3 /\ Len(s) >= 2 /\ Top(s, 1) = Blake3(Top(s, 2))
  \/ p = KeyLen + 4 /\ Len(s) >= 3 /\ Top(s, 1) = Blake3(key) /\ Top(s, 2) = Blake3(Top(s, 3))
  \/ p = KeyLen + 5 /\ Len(s) >= 1 /\ Blake3(Top(s, 1)) = Blake3(key)
  \/ p = KeyLen + 6 /\ Len(s) >= 1 /\ (Truthy(Top(s, 1)) => Opened(key, u))

OnKeyLock(key) == at = "locking" /\ locking = PayToKey(key)

KeyIInv(key) ==
  /\ unlocking \in Seq(Byte) /\ locking \in Seq(Byte)
  /\ height \in Nat /\ pc \in Nat \ {0}
  /\ at = "idle" => stack = << >> /\ branches = << >> /\ pc = 1
  /\ at = "unlocking" \/ OnKeyLock(key) => PushedOnly(stack, unlocking)
  /\ OnKeyLock(key) => branches = << >> /\ KeyShape(key, pc, stack, unlocking)
  /\ at = "accepted" /\ locking = PayToKey(key) => Opened(key, unlocking)

\* The operands.
LEMMA Tops ==
  ASSUME NEW S, NEW s \in Seq(S)
  PROVE  /\ Len(s) \in Nat
         /\ \A k \in 1 .. Len(s) : Top(s, k) \in S
         /\ \A k \in 0 .. Len(s) : Below(s, k) \in Seq(S) /\ Len(Below(s, k)) = Len(s) - k
         /\ \A k \in 0 .. Len(s) : \A j \in 1 .. Len(s) - k : Top(Below(s, k), j) = Top(s, k + j)
         /\ \A x : Append(s, x) \in Seq(S \cup {x}) /\ Len(Append(s, x)) = Len(s) + 1
         /\ \A x : Top(Append(s, x), 1) = x
         /\ \A x : \A j \in 1 .. Len(s) : Top(Append(s, x), j + 1) = Top(s, j)
<1>1. Len(s) \in Nat /\ s \in [1 .. Len(s) -> S]
  BY LenProperties
<1>2. ASSUME NEW k \in 1 .. Len(s) PROVE Top(s, k) \in S
  <2>1. Len(s) + 1 - k \in 1 .. Len(s)
    BY <1>1
  <2> QED BY <1>1, <2>1 DEF Top
<1>3. ASSUME NEW k \in 0 .. Len(s)
      PROVE  Below(s, k) \in Seq(S) /\ Len(Below(s, k)) = Len(s) - k
  <2>1. 1 \in 1 .. Len(s) + 1 /\ Len(s) - k \in 0 .. Len(s)
    BY <1>1
  <2> QED BY <2>1 DEF Below
<1>4. ASSUME NEW k \in 0 .. Len(s), NEW j \in 1 .. Len(s) - k PROVE Top(Below(s, k), j) = Top(s, k + j)
  <2>1. Len(s) - k \in 0 .. Len(s) /\ (Len(s) - k) + 1 - j \in 1 .. (Len(s) - k)
        /\ (Len(s) - k) + 1 - j = Len(s) + 1 - (k + j)
    BY <1>1
  <2>2. Below(s, k) = [i \in 1 .. (Len(s) - k) |-> s[i]]
    <3>1. SubSeq(s, 1, Len(s) - k) = [i \in 1 .. ((Len(s) - k) - 1) + 1 |-> s[(i + 1) - 1]]
      BY <1>1
    <3>2. ((Len(s) - k) - 1) + 1 = Len(s) - k /\ \A i \in 1 .. (Len(s) - k) : (i + 1) - 1 = i
      BY <1>1
    <3> QED BY <3>1, <3>2 DEF Below
  <2>3. Below(s, k)[(Len(s) - k) + 1 - j] = s[(Len(s) - k) + 1 - j]
    BY <2>1, <2>2
  <2> QED BY <1>3, <2>1, <2>3 DEF Top
<1>5. ASSUME NEW x PROVE Append(s, x) \in Seq(S \cup {x}) /\ Len(Append(s, x)) = Len(s) + 1
  <2>1. s \in Seq(S \cup {x})
    BY SeqMonotonic, Zenon
  <2> QED BY <2>1
<1>6. ASSUME NEW x PROVE Top(Append(s, x), 1) = x
  <2>1. (Len(s) + 1) + 1 - 1 = Len(s) + 1
    BY <1>1
  <2> QED BY <1>1, <1>5, <2>1 DEF Top
<1>7. ASSUME NEW x, NEW j \in 1 .. Len(s) PROVE Top(Append(s, x), j + 1) = Top(s, j)
  <2>1. (Len(s) + 1) + 1 - (j + 1) = Len(s) + 1 - j /\ Len(s) + 1 - j \in 1 .. Len(s)
    BY <1>1
  <2>2. Append(s, x)[Len(s) + 1 - j] = s[Len(s) + 1 - j]
    BY <2>1
  <2> QED BY <1>5, <2>1, <2>2 DEF Top
<1> QED BY <1>1, <1>2, <1>3, <1>4, <1>5, <1>6, <1>7

\* What the engine computes is not as long as a signature.
LEMMA ComputedShort ==
  ASSUME Widths
  PROVE  /\ \A v : Len(IntItem(v)) # SigLen
         /\ \A x : Len(BoolItem(x)) # SigLen
         /\ Len(<< >>) # SigLen
         /\ \A i : Len(Blake3(i)) # SigLen
<1>1. ASSUME NEW v PROVE Len(IntItem(v)) # SigLen
  <2>1. PICK f : f = IntItem(v)
    OBVIOUS
  <2>2. IntWidth \in Nat
    BY ScriptAssumption
  <2>3. DOMAIN f = 1 .. IntWidth /\ f = [k \in 1 .. IntWidth |-> f[k]]
    BY <2>1 DEF IntItem
  <2>4. PICK S : S = {f[k] : k \in 1 .. IntWidth}
    OBVIOUS
  <2>5. f \in [1 .. IntWidth -> S]
    BY <2>3, <2>4
  <2>6. f \in Seq(S)
    BY <2>2, <2>5
  <2>7. Len(f) = IntWidth
    BY <2>2, <2>3, <2>6, LenProperties
  <2> QED BY <2>1, <2>7 DEF Widths
<1>2. ASSUME NEW x PROVE Len(BoolItem(x)) # SigLen
  BY DEF BoolItem, Widths
<1>3. Len(<< >>) # SigLen
  BY DEF Widths
<1>4. ASSUME NEW i PROVE Len(Blake3(i)) # SigLen
  BY DEF Widths
<1> QED BY <1>1, <1>2, <1>3, <1>4

\* Items that come on top.
LEMMA HeldMore ==
  ASSUME NEW s, NEW u, PushedOnly(s, u), NEW i, Len(i) = SigLen => PartOf(i, u), NEW r \in Push(s, i)
  PROVE  PushedOnly(r, u)
<1>1. PICK S : s \in Seq(S) /\ \A x \in S : Len(x) = SigLen => PartOf(x, u)
  BY DEF PushedOnly
<1>2. r = Append(s, i)
  BY DEF Push
<1>3. r \in Seq(S \cup {i})
  BY <1>1, <1>2, Tops
<1> QED BY <1>1, <1>3 DEF PushedOnly

\* Items that leave, and those that stay.
LEMMA HeldLess ==
  ASSUME NEW s, NEW u, PushedOnly(s, u)
  PROVE  /\ Len(s) \in Nat
         /\ \A k \in 0 .. Len(s) : PushedOnly(Below(s, k), u)
         /\ \A k \in 1 .. Len(s) : Len(Top(s, k)) = SigLen => PartOf(Top(s, k), u)
<1>1. PICK S : s \in Seq(S) /\ \A x \in S : Len(x) = SigLen => PartOf(x, u)
  BY DEF PushedOnly
<1>2. Len(s) \in Nat /\ (\A k \in 1 .. Len(s) : Top(s, k) \in S) /\ \A k \in 0 .. Len(s) : Below(s, k) \in Seq(S)
  BY <1>1, Tops
<1> QED BY <1>1, <1>2 DEF PushedOnly

\* Items put back in another order.
LEMMA HeldAll ==
  ASSUME NEW s, NEW u, PushedOnly(s, u), NEW T, \A x \in T : Len(x) = SigLen => PartOf(x, u),
         NEW items \in Seq(T), NEW r \in PushAll(s, items)
  PROVE  PushedOnly(r, u)
<1>1. PICK S : s \in Seq(S) /\ \A x \in S : Len(x) = SigLen => PartOf(x, u)
  BY DEF PushedOnly
<1>2. s \in Seq(S \cup T) /\ items \in Seq(S \cup T)
  BY <1>1, SeqMonotonic, Zenon
<1>3. r = s \o items
  BY DEF PushAll
<1>4. r \in Seq(S \cup T)
  BY <1>2, <1>3
<1> QED BY <1>1, <1>4 DEF PushedOnly

\* No instruction makes a signature.
LEMMA EffectHeld ==
  ASSUME Widths, NEW s, NEW u, PushedOnly(s, u), NEW op, NEW r \in Effect(op, s)
  PROVE  PushedOnly(r, u)
<1>0. Len(s) \in Nat
  BY HeldLess
<1> DEFINE Fine(x) == Len(x) = SigLen => PartOf(x, u)
<1>a. /\ \A k \in 0 .. Len(s) : PushedOnly(Below(s, k), u)
      /\ \A k \in 1 .. Len(s) : Fine(Top(s, k))
  BY HeldLess
<1> HIDE DEF Fine
<1>1. ASSUME NEW i, r \in Push(s, i), Len(i) # SigLen PROVE PushedOnly(r, u)
  BY <1>1, HeldMore
<1>2. ASSUME NEW k \in 1 .. 2, k <= Len(s), r = Below(s, k) PROVE PushedOnly(r, u)
  BY <1>0, <1>2, <1>a
<1>3. ASSUME NEW k \in 1 .. 2, k <= Len(s), NEW i, Len(i) # SigLen, r \in Push(Below(s, k), i)
      PROVE  PushedOnly(r, u)
  <2>1. PushedOnly(Below(s, k), u)
    BY <1>0, <1>3, <1>a
  <2> QED BY <1>3, <2>1, HeldMore
<1>4. CASE op = OP_SWAP
  <2> DEFINE items == <<Top(s, 1), Top(s, 2)>>
  <2>1. 2 <= Len(s) /\ r \in PushAll(Below(s, 2), items)
    <3>1. r \in IF Len(s) < 2 THEN {} ELSE PushAll(Below(s, 2), items)
      BY <1>4, SeveralItems DEF Effect
    <3> QED BY <1>0, <3>1
  <2>2. PushedOnly(Below(s, 2), u) /\ \A x \in {Top(s, 1), Top(s, 2)} : Fine(x)
    BY <1>0, <1>a, <2>1
  <2>3. items \in Seq({Top(s, 1), Top(s, 2)})
    OBVIOUS
  <2> HIDE DEF items
  <2> QED BY <2>1, <2>2, <2>3, HeldAll DEF Fine
<1>5. CASE op = OP_ROT
  <2> DEFINE items == <<Top(s, 2), Top(s, 1), Top(s, 3)>>
  <2>1. 3 <= Len(s) /\ r \in PushAll(Below(s, 3), items)
    <3>1. r \in IF Len(s) < 3 THEN {} ELSE PushAll(Below(s, 3), items)
      BY <1>5, SeveralItems DEF Effect
    <3> QED BY <1>0, <3>1
  <2>2. PushedOnly(Below(s, 3), u) /\ \A x \in {Top(s, 1), Top(s, 2), Top(s, 3)} : Fine(x)
    BY <1>0, <1>a, <2>1
  <2>3. items \in Seq({Top(s, 1), Top(s, 2), Top(s, 3)})
    OBVIOUS
  <2> HIDE DEF items
  <2> QED BY <2>1, <2>2, <2>3, HeldAll DEF Fine
<1>6. CASE op = OP_2DUP
  <2> DEFINE items == <<Top(s, 2), Top(s, 1)>>
  <2>1. 2 <= Len(s) /\ r \in PushAll(s, items)
    <3>1. r \in IF Len(s) < 2 THEN {} ELSE PushAll(s, items)
      BY <1>6, SeveralItems DEF Effect
    <3> QED BY <1>0, <3>1
  <2>2. \A x \in {Top(s, 1), Top(s, 2)} : Fine(x)
    BY <1>0, <1>a, <2>1
  <2>3. items \in Seq({Top(s, 1), Top(s, 2)})
    OBVIOUS
  <2> HIDE DEF items
  <2> QED BY <2>1, <2>2, <2>3, HeldAll DEF Fine
<1>7. CASE op \notin {OP_SWAP, OP_ROT, OP_2DUP}
  <2>1. \/ r \in Push(s, << >>)
        \/ r \in Push(s, IntItem((op - OP_1) + 1))
        \/ ~ (Len(s) < 1) /\ r \in Push(s, Top(s, 1))
        \/ ~ (Len(s) < 1) /\ r = Below(s, 1)
        \/ r \in Binary(s, LAMBDA a, b : BoolItem(a = b))
        \/ r \in Agree(s, LAMBDA a, b : a = b)
        \/ r \in Arith(s, LAMBDA a, b : a + b)
        \/ r \in Arith(s, LAMBDA a, b : a - b)
        \/ r \in Compare(s, LAMBDA a, b : a < b)
        \/ r \in Compare(s, LAMBDA a, b : a > b)
        \/ r \in Unary(s, Blake3)
        \/ r \in Binary(s, LAMBDA sig, key : BoolItem(VerifySignature(key, sig)))
        \/ r \in Agree(s, LAMBDA sig, key : VerifySignature(key, sig))
        \/ Len(s) >= 1 /\ r = Below(s, 1)
    BY <1>7 DEF Effect
  <2>2. CASE ~ (Len(s) < 1) /\ r \in Push(s, Top(s, 1))
    <3>1. Fine(Top(s, 1))
      BY <1>0, <1>a, <2>2
    <3> QED BY <2>2, <3>1, HeldMore DEF Fine
  <2>3. CASE r \in Push(s, << >>) \/ r \in Push(s, IntItem((op - OP_1) + 1))
    BY <1>1, <2>3, ComputedShort
  <2>4. ASSUME NEW x, 2 <= Len(s), r \in Push(Below(s, 2), BoolItem(x)) PROVE PushedOnly(r, u)
    BY <1>3, <2>4, ComputedShort
  <2>5. ASSUME NEW v, 2 <= Len(s), r \in Push(Below(s, 2), IntItem(v)) PROVE PushedOnly(r, u)
    BY <1>3, <2>5, ComputedShort
  <2>6. ASSUME NEW i, 1 <= Len(s), r \in Push(Below(s, 1), Blake3(i)) PROVE PushedOnly(r, u)
    BY <1>3, <2>6, ComputedShort
  <2>7. \/ ~ (Len(s) < 1) /\ r \in Push(s, Top(s, 1))
        \/ r \in Push(s, << >>) \/ r \in Push(s, IntItem((op - OP_1) + 1))
        \/ 1 <= Len(s) /\ r = Below(s, 1)
        \/ 2 <= Len(s) /\ r = Below(s, 2)
        \/ 2 <= Len(s) /\ \E x : r \in Push(Below(s, 2), BoolItem(x))
        \/ 2 <= Len(s) /\ \E v : r \in Push(Below(s, 2), IntItem(v))
        \/ 1 <= Len(s) /\ \E i : r \in Push(Below(s, 1), Blake3(i))
    BY <1>0, <2>1 DEF Binary, Agree, Arith, Compare, Unary, Ints
  <2> QED BY <1>2, <2>2, <2>3, <2>4, <2>5, <2>6, <2>7
<1> QED BY <1>4, <1>5, <1>6, <1>7

\* The bytes of the lock of a key.
LEMMA KeyLockBytes ==
  ASSUME Widths, NEW key, NEW l, l = PayToKey(key)
  PROVE  /\ Len(l) = KeyLen + 5
         /\ l[1] = OP_DUP /\ l[2] = OP_BLAKE3 /\ l[3] = KeyLen
         /\ l[KeyLen + 4] = OP_EQUALVERIFY /\ l[KeyLen + 5] = OP_CHECKSIG
         /\ SubSeq(l, 4, KeyLen + 3) = Blake3(key)
<1>1. PICK h : h = Blake3(key)
  OBVIOUS
<1>2. h \in Seq(Byte) /\ Len(h) = KeyLen /\ KeyLen \in 1 .. 75 /\ KeyLen \in Int
  BY <1>1 DEF Widths
<1>3. PushData(h) = <<KeyLen>> \o h
  <2>1. Len(h) # 0 /\ Len(h) \in 1 .. 75 /\ Len(h) \notin 76 .. 255
    BY <1>2
  <2>2. PushData(h) = <<Len(h)>> \o h
    <3> DEFINE n == Len(h)
               small == 1 .. 75
               middle == 76 .. 255
               one == <<n>> \o h
               two == <<OP_PUSHDATA1, n>> \o h
               cut == <<OP_PUSHDATA1, 255>> \o SubSeq(h, 1, 255)
    <3>1. PushData(h) = CASE n = 0       -> <<OP_0>>
                          [] n \in small  -> one
                          [] n \in middle -> two
                          [] OTHER       -> cut
      BY DEF PushData
    <3>2. n # 0 /\ n \in small /\ n \notin middle
      BY <2>1
    <3> HIDE DEF n, small, middle, one, two, cut
    <3>3. PushData(h) = one
      BY <3>1, <3>2
    <3> QED BY <3>3 DEF one, n
  <2> QED BY <1>2, <2>2
<1>4. l = (<<OP_DUP, OP_BLAKE3>> \o (<<KeyLen>> \o h)) \o <<OP_EQUALVERIFY, OP_CHECKSIG>>
  BY <1>1, <1>3 DEF PayToKey
<1>5. h \in Seq(Int) /\ h \in [1 .. KeyLen -> Int]
  <2>1. Byte \subseteq Int
    BY DEF Byte
  <2>2. h \in Seq(Int)
    BY <1>2, <2>1, SeqMonotonic, Zenon
  <2> QED BY <1>2, <2>2, LenProperties
<1>6. PICK p : p = <<KeyLen>> \o h
  OBVIOUS
<1>7. p \in Seq(Int) /\ Len(p) = KeyLen + 1 /\ p[1] = KeyLen /\ \A i \in 1 .. KeyLen : p[i + 1] = h[i]
  <2>1. <<KeyLen>> \in Seq(Int) /\ Len(<<KeyLen>>) = 1
    BY <1>2
  <2> QED BY <1>2, <1>5, <1>6, <2>1
<1>8. PICK q : q = <<OP_DUP, OP_BLAKE3>> \o p
  OBVIOUS
<1>9. /\ q \in Seq(Int) /\ Len(q) = KeyLen + 3 /\ q[1] = OP_DUP /\ q[2] = OP_BLAKE3
      /\ \A i \in 1 .. KeyLen + 1 : q[i + 2] = p[i]
  <2>1. <<OP_DUP, OP_BLAKE3>> \in Seq(Int) /\ Len(<<OP_DUP, OP_BLAKE3>>) = 2
    BY DEF OP_DUP, OP_BLAKE3
  <2> QED BY <1>2, <1>7, <1>8, <2>1
<1>10. l = q \o <<OP_EQUALVERIFY, OP_CHECKSIG>>
  BY <1>4, <1>6, <1>8
<1>11. /\ l \in Seq(Int) /\ Len(l) = KeyLen + 5 /\ \A i \in 1 .. KeyLen + 3 : l[i] = q[i]
       /\ l[KeyLen + 4] = OP_EQUALVERIFY /\ l[KeyLen + 5] = OP_CHECKSIG
  <2>1. <<OP_EQUALVERIFY, OP_CHECKSIG>> \in Seq(Int) /\ Len(<<OP_EQUALVERIFY, OP_CHECKSIG>>) = 2
    BY DEF OP_EQUALVERIFY, OP_CHECKSIG
  <2>2. PICK v : v = <<OP_EQUALVERIFY, OP_CHECKSIG>>
    OBVIOUS
  <2>3. v \in Seq(Int) /\ Len(v) = 2 /\ v[1] = OP_EQUALVERIFY /\ v[2] = OP_CHECKSIG
    BY <2>1, <2>2
  <2>4. l \in Seq(Int) /\ Len(l) = KeyLen + 5
    BY <1>2, <1>9, <1>10, <2>2, <2>3
  <2>5. ASSUME NEW i \in 1 .. KeyLen + 3 PROVE l[i] = q[i]
    BY <1>2, <1>9, <1>10, <2>2, <2>3
  <2>6. l[KeyLen + 4] = v[1] /\ l[KeyLen + 5] = v[2]
    <3>1. /\ KeyLen + 4 \in 1 .. Len(q) + Len(v) /\ KeyLen + 4 > Len(q) /\ (KeyLen + 4) - Len(q) = 1
          /\ KeyLen + 5 \in 1 .. Len(q) + Len(v) /\ KeyLen + 5 > Len(q) /\ (KeyLen + 5) - Len(q) = 2
      BY <1>2, <1>9, <2>3
    <3>2. \A i \in 1 .. Len(q) + Len(v) : i > Len(q) => (q \o v)[i] = v[i - Len(q)]
      <4>1. q \in Seq(Int) /\ v \in Seq(Int) /\ Len(q) \in Int
        BY <1>2, <1>9, <2>3
      <4>2. \A i \in 1 .. Len(q) + Len(v) : (q \o v)[i] = IF i <= Len(q) THEN q[i] ELSE v[i - Len(q)]
        BY <4>1, ConcatProperties
      <4> QED BY <4>1, <4>2
    <3> QED BY <1>10, <2>2, <3>1, <3>2
  <2> QED BY <2>3, <2>4, <2>5, <2>6
<1>12. l[3] = KeyLen /\ \A i \in 1 .. KeyLen : l[i + 3] = h[i]
  <2>1. l[3] = q[3] /\ q[3] = p[1]
    <3>1. 3 \in 1 .. KeyLen + 3 /\ 1 \in 1 .. KeyLen + 1 /\ 1 + 2 = 3
      BY <1>2
    <3> QED BY <1>9, <1>11, <3>1
  <2>2. ASSUME NEW i \in 1 .. KeyLen PROVE l[i + 3] = h[i]
    <3>1. i + 3 \in 1 .. KeyLen + 3 /\ i + 1 \in 1 .. KeyLen + 1 /\ (i + 1) + 2 = i + 3
      BY <1>2
    <3>2. l[i + 3] = q[i + 3] /\ q[(i + 1) + 2] = p[i + 1] /\ p[i + 1] = h[i]
      BY <1>7, <1>9, <1>11, <3>1
    <3> QED BY <3>1, <3>2
  <2> QED BY <1>7, <2>1, <2>2
<1>13. SubSeq(l, 4, KeyLen + 3) = h
  <2>1. SubSeq(l, 4, KeyLen + 3) = [i \in 1 .. ((KeyLen + 3) - 4) + 1 |-> l[(i + 4) - 1]]
    BY <1>2, <1>11
  <2>2. ((KeyLen + 3) - 4) + 1 = KeyLen
    BY <1>2
  <2>3. ASSUME NEW i \in 1 .. KeyLen PROVE l[(i + 4) - 1] = h[i]
    <3>1. (i + 4) - 1 = i + 3
      BY <1>2
    <3> QED BY <1>12, <3>1
  <2>4. h = [i \in 1 .. KeyLen |-> h[i]]
    BY <1>5
  <2> QED BY <2>1, <2>2, <2>3, <2>4
<1>14. l[1] = OP_DUP /\ l[2] = OP_BLAKE3
  <2>1. 1 \in 1 .. KeyLen + 3 /\ 2 \in 1 .. KeyLen + 3
    BY <1>2
  <2> QED BY <1>9, <1>11, <2>1
<1> QED BY <1>1, <1>11, <1>12, <1>13, <1>14
\* The instructions of the lock of a key are told apart.
LEMMA KeyOps ==
  /\ \A op \in {OP_DUP, OP_BLAKE3, OP_EQUALVERIFY, OP_CHECKSIG} :
       op \notin Control /\ op # OP_PUSHDATA1 /\ ~ IsPushBytes(op)
  /\ \A s : Effect(OP_DUP, s) = IF Len(s) < 1 THEN {} ELSE Push(s, Top(s, 1))
  /\ \A s : Effect(OP_BLAKE3, s) = Unary(s, Blake3)
  /\ \A s : Effect(OP_EQUALVERIFY, s) = Agree(s, LAMBDA a, b : a = b)
  /\ \A s : Effect(OP_CHECKSIG, s) = Binary(s, LAMBDA sig, key : BoolItem(VerifySignature(key, sig)))
<1>1. \A op \in {OP_DUP, OP_BLAKE3, OP_EQUALVERIFY, OP_CHECKSIG} :
        op \notin Control /\ op # OP_PUSHDATA1 /\ ~ IsPushBytes(op)
  BY DEF OP_DUP, OP_BLAKE3, OP_EQUALVERIFY, OP_CHECKSIG, Control, OP_IF, OP_ELSE, OP_ENDIF,
         OP_PUSHDATA1, IsPushBytes
<1>2. /\ OP_DUP \notin {OP_0, OP_DROP, OP_SWAP, OP_ROT, OP_2DUP, OP_EQUAL, OP_EQUALVERIFY, OP_ADD,
          OP_SUB, OP_LESSTHAN, OP_GREATERTHAN, OP_BLAKE3, OP_CHECKSIG, OP_CHECKSIGVERIFY,
          OP_CHECKLOCKTIMEVERIFY}
      /\ OP_DUP \notin OP_1 .. OP_16
      /\ OP_BLAKE3 \notin {OP_0, OP_DUP, OP_DROP, OP_SWAP, OP_ROT, OP_2DUP, OP_EQUAL, OP_EQUALVERIFY,
          OP_ADD, OP_SUB, OP_LESSTHAN, OP_GREATERTHAN, OP_CHECKSIG, OP_CHECKSIGVERIFY,
          OP_CHECKLOCKTIMEVERIFY}
      /\ OP_BLAKE3 \notin OP_1 .. OP_16
      /\ OP_EQUALVERIFY \notin {OP_0, OP_DUP, OP_DROP, OP_SWAP, OP_ROT, OP_2DUP, OP_EQUAL, OP_ADD, OP_SUB,
          OP_LESSTHAN, OP_GREATERTHAN, OP_BLAKE3, OP_CHECKSIG, OP_CHECKSIGVERIFY,
          OP_CHECKLOCKTIMEVERIFY}
      /\ OP_EQUALVERIFY \notin OP_1 .. OP_16
      /\ OP_CHECKSIG \notin {OP_0, OP_DUP, OP_DROP, OP_SWAP, OP_ROT, OP_2DUP, OP_EQUAL, OP_EQUALVERIFY,
          OP_ADD, OP_SUB, OP_LESSTHAN, OP_GREATERTHAN, OP_BLAKE3, OP_CHECKSIGVERIFY,
          OP_CHECKLOCKTIMEVERIFY}
      /\ OP_CHECKSIG \notin OP_1 .. OP_16
  BY DEF OP_1, OP_16, OP_0, OP_DUP, OP_DROP, OP_SWAP, OP_ROT, OP_2DUP, OP_EQUAL, OP_EQUALVERIFY, OP_ADD,
         OP_SUB, OP_LESSTHAN, OP_GREATERTHAN, OP_BLAKE3, OP_CHECKSIG, OP_CHECKSIGVERIFY,
         OP_CHECKLOCKTIMEVERIFY
<1>3. ASSUME NEW s PROVE Effect(OP_DUP, s) = IF Len(s) < 1 THEN {} ELSE Push(s, Top(s, 1))
  BY <1>2 DEF Effect
<1>4. ASSUME NEW s PROVE Effect(OP_BLAKE3, s) = Unary(s, Blake3)
  BY <1>2 DEF Effect
<1>5. ASSUME NEW s PROVE Effect(OP_EQUALVERIFY, s) = Agree(s, LAMBDA a, b : a = b)
  BY <1>2 DEF Effect
<1>6. ASSUME NEW s
      PROVE  Effect(OP_CHECKSIG, s) = Binary(s, LAMBDA sig, key : BoolItem(VerifySignature(key, sig)))
  BY <1>2 DEF Effect
<1> QED BY <1>1, <1>3, <1>4, <1>5, <1>6

\* What the lock of a key makes of the stack, instruction by instruction.
LEMMA KeyEffects ==
  ASSUME Widths, NEW key, NEW u, NEW s, PushedOnly(s, u), NEW r, NEW p, KeyShape(key, p, s, u)
  PROVE  /\ p = 1 /\ r \in Effect(OP_DUP, s) => KeyShape(key, 2, r, u)
         /\ p = 2 /\ r \in Effect(OP_BLAKE3, s) => KeyShape(key, 3, r, u)
         /\ p = 3 /\ r \in Push(s, Blake3(key)) => KeyShape(key, KeyLen + 4, r, u)
         /\ p = KeyLen + 4 /\ r \in Effect(OP_EQUALVERIFY, s) => KeyShape(key, KeyLen + 5, r, u)
         /\ p = KeyLen + 5 /\ r \in Effect(OP_CHECKSIG, s) => KeyShape(key, KeyLen + 6, r, u)
<1>1. PICK S : s \in Seq(S) /\ \A x \in S : Len(x) = SigLen => PartOf(x, u)
  BY DEF PushedOnly
<1>2. KeyLen \in 1 .. 75 /\ KeyLen \in Int
  BY DEF Widths
<1>3. /\ Len(s) \in Nat
      /\ \A k \in 0 .. Len(s) : Below(s, k) \in Seq(S) /\ Len(Below(s, k)) = Len(s) - k
      /\ \A k \in 0 .. Len(s) : \A j \in 1 .. Len(s) - k : Top(Below(s, k), j) = Top(s, k + j)
  BY <1>1, Tops
<1>4. ASSUME NEW b, NEW T, b \in Seq(T), NEW x, r \in Push(b, x)
      PROVE  /\ Len(r) = Len(b) + 1 /\ Len(b) \in Nat /\ Top(r, 1) = x
             /\ \A j \in 1 .. Len(b) : Top(r, j + 1) = Top(b, j)
  <2>1. r = Append(b, x)
    BY <1>4 DEF Push
  <2> QED BY <1>4, <2>1, Tops
<1>5. ASSUME p = 1, r \in Effect(OP_DUP, s) PROVE KeyShape(key, 2, r, u)
  <2>1. ~ (Len(s) < 1) /\ r \in Push(s, Top(s, 1))
    BY <1>5, KeyOps
  <2>2. Len(r) = Len(s) + 1 /\ Top(r, 1) = Top(s, 1) /\ \A j \in 1 .. Len(s) : Top(r, j + 1) = Top(s, j)
    BY <1>1, <1>4, <2>1
  <2>3. Len(r) >= 2 /\ 1 \in 1 .. Len(s) /\ 1 + 1 = 2
    BY <1>3, <2>1, <2>2
  <2> QED BY <2>2, <2>3 DEF KeyShape
<1>6. ASSUME p = 2, r \in Effect(OP_BLAKE3, s) PROVE KeyShape(key, 3, r, u)
  <2>1. r \in Push(Below(s, 1), Blake3(Top(s, 1)))
    BY <1>6, KeyOps DEF Unary
  <2>2. Len(s) >= 2 /\ Top(s, 1) = Top(s, 2)
    BY <1>2, <1>6 DEF KeyShape
  <2>3. 1 \in 0 .. Len(s) /\ 1 \in 1 .. Len(s) - 1 /\ 1 + 1 = 2
    BY <1>3, <2>2
  <2>4. Below(s, 1) \in Seq(S) /\ Len(Below(s, 1)) = Len(s) - 1 /\ Top(Below(s, 1), 1) = Top(s, 2)
    BY <1>3, <2>3
  <2>5. /\ Len(r) = Len(Below(s, 1)) + 1 /\ Top(r, 1) = Blake3(Top(s, 1))
        /\ \A j \in 1 .. Len(Below(s, 1)) : Top(r, j + 1) = Top(Below(s, 1), j)
    BY <1>4, <2>1, <2>4
  <2>6. Len(r) >= 2 /\ Top(r, 2) = Top(s, 2)
    BY <1>3, <2>2, <2>3, <2>4, <2>5
  <2> QED BY <2>2, <2>5, <2>6 DEF KeyShape
<1>7. ASSUME p = 3, r \in Push(s, Blake3(key)) PROVE KeyShape(key, KeyLen + 4, r, u)
  <2>1. Len(s) >= 2 /\ Top(s, 1) = Blake3(Top(s, 2))
    BY <1>2, <1>7 DEF KeyShape
  <2>2. Len(r) = Len(s) + 1 /\ Top(r, 1) = Blake3(key) /\ \A j \in 1 .. Len(s) : Top(r, j + 1) = Top(s, j)
    BY <1>1, <1>4, <1>7
  <2>3. Len(r) >= 3 /\ 1 \in 1 .. Len(s) /\ 1 + 1 = 2 /\ 2 \in 1 .. Len(s) /\ 2 + 1 = 3
    BY <1>3, <2>1, <2>2
  <2>4. Top(r, 2) = Top(s, 1) /\ Top(r, 3) = Top(s, 2)
    BY <2>2, <2>3
  <2> QED BY <2>1, <2>2, <2>3, <2>4 DEF KeyShape
<1>8. ASSUME p = KeyLen + 4, r \in Effect(OP_EQUALVERIFY, s) PROVE KeyShape(key, KeyLen + 5, r, u)
  <2>1. r = Below(s, 2) /\ Top(s, 2) = Top(s, 1)
    BY <1>8, KeyOps DEF Agree
  <2>2. Len(s) >= 3 /\ Top(s, 1) = Blake3(key) /\ Top(s, 2) = Blake3(Top(s, 3))
    BY <1>2, <1>8 DEF KeyShape
  <2>3. 2 \in 0 .. Len(s) /\ 1 \in 1 .. Len(s) - 2 /\ 2 + 1 = 3
    BY <1>3, <2>2
  <2>4. Len(r) = Len(s) - 2 /\ Top(r, 1) = Top(s, 3)
    BY <1>3, <2>1, <2>3
  <2>5. Len(r) >= 1
    BY <1>3, <2>2, <2>4
  <2> QED BY <2>1, <2>2, <2>4, <2>5 DEF KeyShape
<1>9. ASSUME p = KeyLen + 5, r \in Effect(OP_CHECKSIG, s) PROVE KeyShape(key, KeyLen + 6, r, u)
  <2> DEFINE good == VerifySignature(Top(s, 1), Top(s, 2))
  <2>1. ~ (Len(s) < 2) /\ r \in Push(Below(s, 2), BoolItem(good))
    BY <1>9, KeyOps DEF Binary
  <2>2. Blake3(Top(s, 1)) = Blake3(key)
    BY <1>2, <1>9 DEF KeyShape
  <2>3. 2 \in 0 .. Len(s) /\ 1 \in 1 .. Len(s) /\ 2 \in 1 .. Len(s)
    BY <1>3, <2>1
  <2>4. Below(s, 2) \in Seq(S)
    BY <1>3, <2>3
  <2>5. Len(r) = Len(Below(s, 2)) + 1 /\ Len(Below(s, 2)) \in Nat /\ Top(r, 1) = BoolItem(good)
    BY <1>4, <2>1, <2>4
  <2>6. Len(r) >= 1
    BY <2>5
  <2>7. ASSUME Truthy(Top(r, 1)) PROVE Opened(key, u)
    <3>1. good
      BY <2>5, <2>7 DEF BoolItem, Truthy
    <3>2. Len(Top(s, 2)) = SigLen => PartOf(Top(s, 2), u)
      BY <2>3, HeldLess
    <3> QED BY <2>2, <3>1, <3>2 DEF VerifySignature, Opened
  <2> QED BY <2>6, <2>7 DEF KeyShape
<1> QED BY <1>5, <1>6, <1>7, <1>8, <1>9
\* The data of a push is a part of the script, and the next instruction comes later.
LEMMA PushedData ==
  ASSUME NEW s \in Seq(Byte), NEW p \in Nat \ {0}, p <= Len(s), IsPush(s, p), ~ Truncated(s, p)
  PROVE  /\ After(s, p) \in Nat \ {0}
         /\ PartOf(SubSeq(s, p + Lead(s, p), After(s, p) - 1), s)
<1>1. PICK a : a = p + Lead(s, p)
  OBVIOUS
<1>2. a \in Nat \ {0} /\ (a = p + 1 \/ a = p + 2) /\ a - 1 <= Len(s) /\ Len(s) \in Nat
  BY <1>1 DEF Truncated, Lead
<1>3. PICK d : d = DataLen(s, p)
  OBVIOUS
<1>4. d \in Nat
  <2>0. \A v \in Byte : v \in Nat
    BY DEF Byte
  <2>1. s[p] \in Byte
    OBVIOUS
  <2>2. CASE s[p] # OP_PUSHDATA1
    <3>1. d = s[p]
      BY <1>3, <2>2 DEF DataLen
    <3> QED BY <2>0, <2>1, <3>1
  <2>3. CASE s[p] = OP_PUSHDATA1
    <3>1. a = p + 2
      BY <1>1, <2>3 DEF Lead
    <3>2. p + 1 \in 1 .. Len(s)
      BY <1>2, <3>1
    <3>3. s[p + 1] \in Byte
      BY <3>2
    <3>4. d = s[p + 1]
      BY <1>3, <2>3 DEF DataLen
    <3> QED BY <2>0, <3>3, <3>4
  <2> QED BY <2>2, <2>3
<1>5. After(s, p) = a + d /\ a + d - 1 <= Len(s)
  <2>1. After(s, p) = a + d
    BY <1>1, <1>3 DEF After
  <2>2. ~ (a + d - 1 > Len(s))
    BY <1>1, <1>3 DEF Truncated
  <2> QED BY <1>2, <1>4, <2>1, <2>2
<1>6. PICK x : x = SubSeq(s, a, a + d - 1)
  OBVIOUS
<1>7. Len(x) = d
  <2>1. a \in Int /\ a + d - 1 \in Int
    BY <1>2, <1>4
  <2>2. \A i \in a .. a + d - 1 : s[i] \in Byte
    BY <1>2, <1>4, <1>5
  <2>3. Len(x) = IF a <= a + d - 1 THEN (a + d - 1) - a + 1 ELSE 0
    BY <1>6, <2>1, <2>2, SubSeqProperties
  <2> QED BY <1>2, <1>4, <2>3
<1>8. a \in 1 .. Len(s) + 1 - Len(x) /\ SubSeq(s, a, a + Len(x) - 1) = x
  BY <1>2, <1>4, <1>5, <1>6, <1>7
<1>9. PartOf(x, s)
  BY <1>8 DEF PartOf
<1>10. a + d \in Nat \ {0}
  BY <1>2, <1>4
<1>11. SubSeq(s, p + Lead(s, p), After(s, p) - 1) = x
  <2>1. (a + d) - 1 = a + d - 1
    BY <1>2, <1>4
  <2> QED BY <1>1, <1>5, <1>6, <2>1, Zenon
<1> QED BY <1>5, <1>9, <1>10, <1>11

\* What an instruction of either script does to the stack.
LEMMA Instruction ==
  ASSUME If \/ Else \/ EndIf \/ PushBytes \/ Execute
  PROVE  /\ Running /\ pc <= Len(Script) /\ UNCHANGED <<inputVars, at>>
         /\ \/ stack' = stack
            \/ If /\ stack # << >> /\ stack' = Below(stack, 1)
            \/ PushBytes /\ stack' \in Push(stack, Data(pc))
            \/ Execute /\ stack' \in Effect(Script[pc], stack)
         /\ \/ pc' = pc + 1
            \/ PushBytes /\ pc' = After(Script, pc) /\ IsPush(Script, pc) /\ ~ Truncated(Script, pc)
<1>1. CASE If
  BY <1>1 DEF If, Fetches, Charge
<1>2. CASE Else
  BY <1>2 DEF Else, Fetches
<1>3. CASE EndIf
  BY <1>3 DEF EndIf, Fetches
<1>4. CASE PushBytes
  BY <1>4 DEF PushBytes, PushCharged, Charge, Skips
<1>5. CASE Execute
  BY <1>5 DEF Execute, Charge
<1> QED BY <1>1, <1>2, <1>3, <1>4, <1>5

\* Where the next instruction is.
LEMMA NextCounter ==
  ASSUME unlocking \in Seq(Byte), locking \in Seq(Byte), pc \in Nat \ {0},
         If \/ Else \/ EndIf \/ PushBytes \/ Execute
  PROVE  pc' \in Nat \ {0}
<1>1. Script \in Seq(Byte)
  BY DEF Script
<1>2. /\ pc <= Len(Script)
      /\ pc' = pc + 1 \/ (pc' = After(Script, pc) /\ IsPush(Script, pc) /\ ~ Truncated(Script, pc))
  BY Instruction
<1>3. CASE pc' = pc + 1
  BY <1>3
<1>4. CASE pc' = After(Script, pc) /\ IsPush(Script, pc) /\ ~ Truncated(Script, pc)
  BY <1>1, <1>2, <1>4, PushedData
<1> QED BY <1>2, <1>3, <1>4

\* The unlocking script leaves signatures only where it pushed them.
LEMMA UnlockingHolds ==
  ASSUME Widths, unlocking \in Seq(Byte), at = "unlocking", pc \in Nat \ {0},
         PushedOnly(stack, unlocking), If \/ Else \/ EndIf \/ PushBytes \/ Execute
  PROVE  PushedOnly(stack', unlocking)
<1>1. Script = unlocking
  BY DEF Script
<1>2. /\ pc <= Len(unlocking)
      /\ \/ stack' = stack
         \/ stack # << >> /\ stack' = Below(stack, 1)
         \/ PushBytes /\ stack' \in Push(stack, Data(pc))
         \/ stack' \in Effect(unlocking[pc], stack)
  BY <1>1, Instruction
<1>3. CASE stack # << >> /\ stack' = Below(stack, 1)
  <2>1. PICK S : stack \in Seq(S)
    BY DEF PushedOnly
  <2>2. 1 \in 0 .. Len(stack)
    BY <1>3, <2>1
  <2> QED BY <1>3, <2>2, HeldLess
<1>4. CASE PushBytes /\ stack' \in Push(stack, Data(pc))
  <2>1. IsPush(unlocking, pc) /\ ~ Truncated(unlocking, pc)
    BY <1>1, <1>4 DEF PushBytes
  <2>2. PartOf(Data(pc), unlocking)
    BY <1>1, <1>2, <2>1, PushedData DEF Data
  <2> QED BY <1>4, <2>2, HeldMore
<1>5. CASE stack' \in Effect(unlocking[pc], stack)
  BY <1>5, EffectHeld
<1> QED BY <1>2, <1>3, <1>4, <1>5

\* A step of the lock of a key.
LEMMA LockingStep ==
  ASSUME Widths, NEW key, locking = PayToKey(key), at = "locking", pc \in Nat \ {0},
         branches = << >>, PushedOnly(stack, unlocking), KeyShape(key, pc, stack, unlocking),
         If \/ Else \/ EndIf \/ PushBytes \/ Execute
  PROVE  /\ branches' = << >> /\ PushedOnly(stack', unlocking)
         /\ KeyShape(key, pc', stack', unlocking)
<1>1. Script = locking /\ Active
  BY DEF Script, Active
<1>2. /\ Len(locking) = KeyLen + 5
      /\ locking[1] = OP_DUP /\ locking[2] = OP_BLAKE3 /\ locking[3] = KeyLen
      /\ locking[KeyLen + 4] = OP_EQUALVERIFY /\ locking[KeyLen + 5] = OP_CHECKSIG
      /\ SubSeq(locking, 4, KeyLen + 3) = Blake3(key)
  BY KeyLockBytes
<1>3. KeyLen \in 1 .. 75 /\ KeyLen \in Int
  BY DEF Widths
<1>4. pc <= KeyLen + 5
  BY <1>1, <1>2, Instruction
<1>5. pc = 1 \/ pc = 2 \/ pc = 3 \/ pc = KeyLen + 4 \/ pc = KeyLen + 5
  BY <1>3, <1>4 DEF KeyShape
<1>6. ASSUME NEW op \in {OP_DUP, OP_BLAKE3, OP_EQUALVERIFY, OP_CHECKSIG}, locking[pc] = op
      PROVE  /\ branches' = << >> /\ pc' = pc + 1
             /\ stack' \in Effect(op, stack) /\ PushedOnly(stack', unlocking)
  <2>1. op \notin Control /\ op # OP_PUSHDATA1 /\ ~ IsPushBytes(op)
    BY KeyOps
  <2>2. ~ If /\ ~ Else /\ ~ EndIf
    BY <1>1, <1>6, <2>1 DEF If, Else, EndIf, Fetches, Control
  <2>3. ~ PushBytes
    BY <1>1, <1>6, <2>1 DEF PushBytes, IsPush
  <2>4. Execute
    BY <2>2, <2>3
  <2>5. branches' = << >> /\ pc' = pc + 1 /\ stack' \in Effect(op, stack)
    BY <1>1, <1>6, <2>4 DEF Execute, Charge
  <2> QED BY <2>5, EffectHeld
<1>7. CASE pc = 3
  <2>1. IsPushBytes(KeyLen) /\ KeyLen # OP_PUSHDATA1
    BY <1>3 DEF IsPushBytes, OP_PUSHDATA1
  <2>2. IsPush(locking, 3) /\ Lead(locking, 3) = 1 /\ DataLen(locking, 3) = KeyLen
    BY <1>2, <2>1 DEF IsPush, Lead, DataLen
  <2>3. KeyLen \notin Control
    BY <1>3 DEF Control, OP_IF, OP_ELSE, OP_ENDIF
  <2>4. ~ If /\ ~ Else /\ ~ EndIf
    BY <1>1, <1>2, <1>7, <2>3 DEF If, Else, EndIf, Fetches, Control
  <2>5. ~ Execute
    BY <1>1, <1>7, <2>2 DEF Execute
  <2>6. PushBytes
    BY <2>4, <2>5
  <2>7. After(locking, 3) = 3 + 1 + KeyLen
    BY <2>2 DEF After
  <2>8. 3 + 1 + KeyLen = KeyLen + 4 /\ (KeyLen + 4) - 1 = KeyLen + 3 /\ 3 + 1 = 4
    BY <1>3
  <2>9. Data(pc) = Blake3(key)
    BY <1>1, <1>2, <1>7, <2>2, <2>7, <2>8 DEF Data
  <2>10. branches' = << >> /\ pc' = KeyLen + 4 /\ stack' \in Push(stack, Blake3(key))
    BY <1>1, <1>7, <2>6, <2>7, <2>8, <2>9 DEF PushBytes, PushCharged, Charge, Skips
  <2>11. PushedOnly(stack', unlocking)
    BY <2>10, HeldMore, ComputedShort
  <2>12. KeyShape(key, KeyLen + 4, stack', unlocking)
    BY <1>7, <2>10, KeyEffects
  <2> QED BY <2>10, <2>11, <2>12
<1>8. CASE pc = 1
  <2>1. pc + 1 = 2
    BY <1>8
  <2>2. branches' = << >> /\ pc' = pc + 1 /\ stack' \in Effect(OP_DUP, stack) /\ PushedOnly(stack', unlocking)
    BY <1>2, <1>6, <1>8
  <2> QED BY <1>8, <2>1, <2>2, KeyEffects
<1>9. CASE pc = 2
  <2>1. pc + 1 = 3
    BY <1>9
  <2>2. branches' = << >> /\ pc' = pc + 1 /\ stack' \in Effect(OP_BLAKE3, stack) /\ PushedOnly(stack', unlocking)
    BY <1>2, <1>6, <1>9
  <2> QED BY <1>9, <2>1, <2>2, KeyEffects
<1>10. CASE pc = KeyLen + 4
  <2>1. pc + 1 = KeyLen + 5
    BY <1>3, <1>10
  <2> QED BY <1>2, <1>6, <1>10, <2>1, KeyEffects
<1>11. CASE pc = KeyLen + 5
  <2>1. pc + 1 = KeyLen + 6
    BY <1>3, <1>11
  <2> QED BY <1>2, <1>6, <1>11, <2>1, KeyEffects
<1> QED BY <1>5, <1>7, <1>8, <1>9, <1>10, <1>11
\* Every step of the engine keeps what is said of the lock of a key.
LEMMA KeyStep ==
  ASSUME Widths, NEW key, KeyIInv(key), [EngineNext]_engineVars
  PROVE  KeyIInv(key)'
<1>0. PushedOnly(<< >>, unlocking') /\ << >> \in Seq(Byte)
  <2>1. << >> \in Seq({})
    OBVIOUS
  <2> QED BY <2>1 DEF PushedOnly
<1>1. CASE If \/ Else \/ EndIf \/ PushBytes \/ Execute
  <2>1. Running /\ UNCHANGED <<inputVars, at>>
    BY <1>1, Instruction
  <2>2. pc' \in Nat \ {0}
    BY <1>1, NextCounter DEF KeyIInv
  <2>3. ASSUME at = "unlocking" PROVE PushedOnly(stack', unlocking)
    BY <1>1, <2>3, UnlockingHolds DEF KeyIInv
  <2>4. ASSUME OnKeyLock(key)
        PROVE  /\ branches' = << >> /\ PushedOnly(stack', unlocking)
               /\ KeyShape(key, pc', stack', unlocking)
    <3>1. /\ locking = PayToKey(key) /\ at = "locking" /\ pc \in Nat \ {0}
          /\ branches = << >> /\ PushedOnly(stack, unlocking) /\ KeyShape(key, pc, stack, unlocking)
      BY <2>4 DEF KeyIInv, OnKeyLock
    <3> QED BY <1>1, <3>1, LockingStep
  <2>5. /\ unlocking' = unlocking /\ locking' = locking /\ height' = height /\ at' = at
        /\ at \in {"unlocking", "locking"}
    BY <2>1 DEF inputVars, Running
  <2>6. OnKeyLock(key)' <=> OnKeyLock(key)
    BY <2>5 DEF OnKeyLock
  <2> QED BY <2>2, <2>3, <2>4, <2>5, <2>6 DEF KeyIInv
<1>2. CASE Fault \/ Unbalanced
  <2>1. at' = "refused" /\ UNCHANGED <<inputVars, pc, stack, branches>>
    BY <1>2 DEF Fault, Unbalanced, Refuse
  <2> QED BY <2>1 DEF KeyIInv, OnKeyLock, inputVars
<1>3. CASE EndScript
  <2>1. /\ Running /\ pc > Len(Script) /\ branches = << >> /\ branches' = << >> /\ pc' = 1
        /\ stack' = stack /\ unlocking' = unlocking /\ locking' = locking /\ height' = height
    BY <1>3 DEF EndScript, inputVars
  <2>2. CASE at = "unlocking"
    <3>1. at' = "locking"
      BY <1>3, <2>2 DEF EndScript
    <3> QED BY <2>1, <2>2, <3>1 DEF KeyIInv, OnKeyLock, KeyShape
  <2>3. CASE at = "locking"
    <3>1. \/ at' = "refused"
          \/ at' = "accepted" /\ Truthy(Top(stack, 1))
      BY <1>3, <2>3 DEF EndScript
    <3>2. ASSUME locking = PayToKey(key), Truthy(Top(stack, 1)) PROVE Opened(key, unlocking)
      <4>1. KeyShape(key, pc, stack, unlocking)
        BY <2>3, <3>2 DEF KeyIInv, OnKeyLock
      <4>2. Len(locking) = KeyLen + 5 /\ KeyLen \in 1 .. 75
        BY <3>2, KeyLockBytes DEF Widths
      <4>3. pc > KeyLen + 5
        BY <2>1, <2>3, <4>2 DEF Script
      <4>4. ~ (pc = 1 \/ pc = 2 \/ pc = 3 \/ pc = KeyLen + 4 \/ pc = KeyLen + 5)
        BY <4>2, <4>3
      <4> QED BY <3>2, <4>1, <4>4 DEF KeyShape
    <3> QED BY <2>1, <3>1, <3>2 DEF KeyIInv, OnKeyLock
  <2> QED BY <2>1, <2>2, <2>3 DEF Running
<1>4. CASE at = "idle" /\ \E u \in Unlocking, l \in Locking, h \in Heights : Verify(u, l, h)
  <2>1. PICK u \in Unlocking, l \in Locking, h \in Heights : Verify(u, l, h)
    BY <1>4
  <2>2. unlocking' \in Seq(Byte) /\ locking' \in Seq(Byte) /\ height' \in Nat
    BY <2>1, ScriptAssumption DEF Verify
  <2>3. at' \in {"contract", "unlocking"} /\ pc' = pc /\ stack' = << >> /\ branches' = << >>
    BY <1>4, <2>1 DEF Verify, KeyIInv
  <2> QED BY <1>0, <2>2, <2>3 DEF KeyIInv, OnKeyLock
<1>5. CASE at = "idle" /\ \E l \in Locking, h \in Heights : RefuseEmpty(l, h)
  <2>1. PICK l \in Locking, h \in Heights : RefuseEmpty(l, h)
    BY <1>5
  <2>2. unlocking' \in Seq(Byte) /\ locking' \in Seq(Byte) /\ height' \in Nat
    BY <1>0, <2>1, ScriptAssumption DEF RefuseEmpty
  <2>3. at' = "refused" /\ pc' = pc
    BY <2>1 DEF RefuseEmpty
  <2> QED BY <2>2, <2>3 DEF KeyIInv, OnKeyLock
<1>6. CASE UNCHANGED engineVars
  BY <1>6 DEF KeyIInv, OnKeyLock, engineVars, inputVars
<1> QED BY <1>1, <1>2, <1>3, <1>4, <1>5, <1>6 DEF EngineNext, EngineStep

\* The input's lock is that of a key, and Ways says so: whoever signs with a key of
\* that digest may spend it, at any height.
KeyLocked ==
  \E key : /\ locking = PayToKey(key)
           /\ \A k, s : <<k, s>> \in Signed /\ Blake3(k) = Blake3(key) =>
                \E w \in Ways[locking] : w.from = 0 /\ w.sig = s

\* For all unlocking scripts, whatever they do to the stack and to the branches: the
\* lock that wallets and miners put on their outputs opens only if the unlocking
\* script carries a signature of this input by a key with the digest in the lock.
THEOREM KeyLockAuthorizes == Widths => (EngineSpec => [](KeyLocked => SpendAuthorized))
<1> SUFFICES ASSUME Widths PROVE EngineSpec => [](KeyLocked => SpendAuthorized)
  OBVIOUS
<1> DEFINE I == \A key : KeyIInv(key)
<1>1. EngineInit => I
  <2> SUFFICES ASSUME EngineInit, NEW key PROVE KeyIInv(key)
    OBVIOUS
  <2>1. << >> \in Seq(Byte)
    OBVIOUS
  <2> QED BY <2>1 DEF EngineInit, KeyIInv, OnKeyLock
<1>2. I /\ [EngineNext]_engineVars => I'
  <2> SUFFICES ASSUME I, [EngineNext]_engineVars, NEW key PROVE KeyIInv(key)'
    OBVIOUS
  <2>1. KeyIInv(key)
    OBVIOUS
  <2> QED BY <2>1, KeyStep
<1>3. I => (KeyLocked => SpendAuthorized)
  <2> SUFFICES ASSUME I, KeyLocked, at = "accepted" PROVE SpendAuthorized
    BY DEF SpendAuthorized
  <2>1. PICK key : /\ locking = PayToKey(key)
                   /\ \A k, s : <<k, s>> \in Signed /\ Blake3(k) = Blake3(key) =>
                        \E w \in Ways[locking] : w.from = 0 /\ w.sig = s
    BY DEF KeyLocked
  <2>2. Opened(key, unlocking) /\ height \in Nat
    BY <2>1 DEF KeyIInv
  <2>3. PICK k, s : Blake3(k) = Blake3(key) /\ <<k, s>> \in Signed /\ PartOf(s, unlocking)
    BY <2>2 DEF Opened
  <2>4. PICK w \in Ways[locking] : w.from = 0 /\ w.sig = s
    BY <2>1, <2>3
  <2>5. height >= w.from
    BY <2>2, <2>4
  <2> QED BY <2>3, <2>4, <2>5 DEF SpendAuthorized, PartOf
<1> QED BY <1>1, <1>2, <1>3, PTL DEF EngineSpec

-----------------------------------------------------------------------------
(***************************************************************************)
(* Account numbers and wallets.                                            *)
(*                                                                         *)
(* A number is held by a key once the file and, while the node is up, the  *)
(* node bind it.  alias_store.json may lose a binding that no client was   *)
(* told of (a flush that failed after its rename is overwritten by the     *)
(* next one), but never one that is held.                                  *)
(***************************************************************************)

Held(n, k) == BoundTo(sidecar, n, k) /\ (running => BoundTo(aliases, n, k))

\* The two indexes of the store agree, in the file and in memory, and what the
\* node answers from memory is in the file.
StoreIInv ==
  /\ Consistent(sidecar)
  /\ Consistent(aliases)
  /\ running => \A n \in DOMAIN aliases.account : BoundTo(sidecar, n, aliases.account[n])

\* A number is shown in a file, waits to be saved, was resolved to a key or is
\* paid only if it is held.
FileOK(f) ==
  /\ f.number \in Number \cup {None}
  /\ f.number # None /\ f.by = "cli" => Held(f.number, f.key)

BindOK(c) ==
  /\ c.pc = "bind" /\ c = [pc |-> "bind", path |-> c.path, key |-> c.key, attempt |-> c.attempt]
  /\ c.key \in Owner /\ c.attempt \in 1 .. Len(Candidate[c.key])

SaveOK(c) ==
  /\ c.pc = "save" /\ c = [pc |-> "save", path |-> c.path, key |-> c.key, number |-> c.number]
  /\ c.number \in Number \cup {None}
  /\ c.number # None => Held(c.number, c.key)

AskOK(c) ==
  /\ c.pc \in {"resolve", "list"}
  /\ c = [pc |-> c.pc, kind |-> c.kind, key |-> c.key, number |-> c.number, to |-> c.to, amount |-> c.amount]
  /\ \/ c.pc = "resolve" /\ c.to = c.number
     \/ c.pc = "list" /\ (c.number \in Number => Held(c.number, c.to))

SubmitOK(c) ==
  /\ c.pc = "submit"
  /\ c = [pc |-> "submit", kind |-> c.kind, key |-> c.key, number |-> c.number, to |-> c.to,
          amount |-> c.amount, seen |-> c.seen, at |-> c.at]
  /\ c.number \in Number => Held(c.number, c.to)

CommandOK(c) == c = Idle \/ BindOK(c) \/ SaveOK(c) \/ AskOK(c) \/ SubmitOK(c)

UsersIInv ==
  /\ files = [p \in WalletPath |-> files[p]]
  /\ cmd = [s \in Session |-> cmd[s]]
  /\ \A p \in WalletPath : FileOK(files[p])
  /\ \A s \in Session : CommandOK(cmd[s])
  /\ \A t \in unmined : t.number \in Number => Held(t.number, t.to)

-----------------------------------------------------------------------------

\* A binding that conflicts with none keeps the indexes in agreement and every
\* earlier binding (AliasStore::bind).
LEMMA BindingAdded ==
  ASSUME NEW d, Consistent(d), NEW n, NEW k, Vacant(d, n, k)
  PROVE  /\ Consistent(WithAlias(d, n, k))
         /\ BoundTo(WithAlias(d, n, k), n, k)
         /\ \A m, j : BoundTo(d, m, j) => BoundTo(WithAlias(d, n, k), m, j)
<1> DEFINE e == WithAlias(d, n, k)
<1>1. /\ e.account = [y \in DOMAIN d.account \cup {n} |-> IF y = n THEN k ELSE d.account[y]]
      /\ e.passbook = [y \in DOMAIN d.passbook \cup {k} |-> IF y = k THEN n ELSE d.passbook[y]]
  BY DEF WithAlias, Put
<1> HIDE DEF e
<1>2. Consistent(e)
  BY <1>1 DEF Consistent, BoundTo, Vacant
<1>3. BoundTo(e, n, k) /\ \A m, j : BoundTo(d, m, j) => BoundTo(e, m, j)
  BY <1>1 DEF BoundTo, Vacant
<1> QED BY <1>2, <1>3 DEF e

\* What the steps of the store do to the numbers that are held.
LEMMA BindKeepsHeld ==
  ASSUME StoreIInv, NEW n, NEW k, NEW r, BindAlias(n, k, r)
  PROVE  /\ StoreIInv'
         /\ \A m, j : Held(m, j) => Held(m, j)'
         /\ r = "accepted" => Held(n, k)'
<1> DEFINE next == WithAlias(aliases, n, k)
<1>0. running
  BY DEF BindAlias
<1>1. CASE UNCHANGED storeVars /\ (r = "accepted" => BoundTo(aliases, n, k))
  <2>1. UNCHANGED <<aliases, sidecar, running>>
    BY <1>1 DEF storeVars
  <2>2. BoundTo(aliases, n, k) => Held(n, k)
    BY <1>0 DEF StoreIInv, Held, BoundTo
  <2> QED BY <1>1, <2>1, <2>2 DEF StoreIInv, Held
<1>2. ASSUME Vacant(aliases, n, k)
      PROVE  /\ Consistent(next) /\ BoundTo(next, n, k)
             /\ \A m, j : BoundTo(aliases, m, j) => BoundTo(next, m, j)
  BY <1>2, BindingAdded DEF StoreIInv
<1> HIDE DEF next
<1>3. CASE Vacant(aliases, n, k) /\ r = "accepted" /\ FlushOk(next)
  <2>1. sidecar' = next /\ aliases' = next /\ running' = running
    BY <1>3 DEF FlushOk
  <2>2. StoreIInv'
    BY <1>2, <1>3, <2>1 DEF StoreIInv, BoundTo
  <2> QED BY <1>0, <1>2, <1>3, <2>1, <2>2 DEF Held
<1>4. CASE Vacant(aliases, n, k) /\ FlushFails(next, r)
  <2>1. r # "accepted" /\ sidecar' \in {sidecar, next} /\ UNCHANGED <<aliases, running>>
    BY <1>4 DEF FlushFails
  <2>2. \A m, j : BoundTo(aliases, m, j) => BoundTo(sidecar', m, j)
    BY <1>0, <1>2, <1>4, <2>1 DEF StoreIInv, BoundTo
  <2>3. StoreIInv'
    BY <1>2, <1>4, <2>1, <2>2 DEF StoreIInv, BoundTo
  <2> QED BY <1>0, <2>1, <2>2, <2>3 DEF Held
<1>5. CASE Vacant(aliases, n, k) /\ r = "lost" /\ FlushCrash(next)
  <2>1. sidecar' \in {sidecar, next} /\ running' = FALSE /\ aliases' = NoAliases
    BY <1>5 DEF FlushCrash
  <2>2. Consistent(NoAliases)
    BY DEF Consistent, NoAliases, BoundTo
  <2>3. StoreIInv'
    BY <1>2, <1>5, <2>1, <2>2 DEF StoreIInv
  <2> QED BY <1>0, <1>2, <1>5, <2>1, <2>3 DEF Held
<1> QED BY <1>1, <1>3, <1>4, <1>5 DEF BindAlias, next

\* Steps that leave the alias store alone.
LEMMA StoreStillHeld ==
  ASSUME StoreIInv, UNCHANGED storeVars
  PROVE  StoreIInv' /\ \A m, j : Held(m, j) => Held(m, j)'
BY DEF storeVars, StoreIInv, Held

\* What users and files have stays right when the store only adds to what is held
\* and whatever file, command or payment is new is right.
LEMMA UsersMove ==
  ASSUME UsersIInv, \A m, j : Held(m, j) => Held(m, j)',
         files' = files \/ \E p \in WalletPath : \E f : files' = [files EXCEPT ![p] = f] /\ FileOK(f)',
         cmd' = cmd \/ \E s \in Session : \E c : cmd' = [cmd EXCEPT ![s] = c] /\ CommandOK(c)',
         \A t \in unmined' : t \in unmined \/ (t.number \in Number => Held(t.number, t.to)')
  PROVE  UsersIInv'
<1>1. \A p \in WalletPath : FileOK(files[p]) => files'[p] # files[p] \/ FileOK(files[p])'
  BY DEF FileOK
<1>2. \A p \in WalletPath : FileOK(files[p])'
  <2>1. CASE files' = files
    BY <1>1, <2>1 DEF UsersIInv, FileOK
  <2>2. ASSUME NEW p \in WalletPath, NEW f, files' = [files EXCEPT ![p] = f], FileOK(f)'
        PROVE  \A q \in WalletPath : FileOK(files[q])'
    <3>1. files'[p] = f /\ \A q \in WalletPath : q # p => files'[q] = files[q]
      BY <2>2 DEF UsersIInv
    <3> QED BY <2>2, <3>1 DEF UsersIInv, FileOK
  <2> QED BY <2>1, <2>2
<1>3. ASSUME NEW c, CommandOK(c) PROVE CommandOK(c)'
  BY <1>3 DEF CommandOK, BindOK, SaveOK, AskOK, SubmitOK, Idle
<1>4. \A s \in Session : CommandOK(cmd[s])'
  <2>1. CASE cmd' = cmd
    BY <1>3, <2>1 DEF UsersIInv
  <2>2. ASSUME NEW s \in Session, NEW c, cmd' = [cmd EXCEPT ![s] = c], CommandOK(c)'
        PROVE  \A r \in Session : CommandOK(cmd[r])'
    <3>1. cmd'[s] = c /\ \A r \in Session : r # s => cmd'[r] = cmd[r]
      BY <2>2 DEF UsersIInv
    <3> QED BY <1>3, <2>2, <3>1 DEF UsersIInv
  <2> QED BY <2>1, <2>2
<1>5. files' = [p \in WalletPath |-> files'[p]] /\ cmd' = [s \in Session |-> cmd'[s]]
  BY DEF UsersIInv
<1> QED BY <1>2, <1>4, <1>5 DEF UsersIInv

\* No alias and no user at first.
LEMMA WalletsInitial == WalletsInit => StoreIInv /\ UsersIInv
<1> SUFFICES ASSUME WalletsInit PROVE StoreIInv /\ UsersIInv
  OBVIOUS
<1>1. StoreIInv
  BY DEF WalletsInit, StoreIInv, NoAliases, Consistent, BoundTo
<1>2. PICK o \in Opening :
        files = [p \in WalletPath |-> IF p = o.path THEN WalletFile(o.key, "plain", None, "cli") ELSE NoFile]
  BY DEF WalletsInit
<1>3. \A p \in WalletPath : files[p].number = None
  BY <1>2 DEF WalletFile, NoFile
<1>4. \A p \in WalletPath : FileOK(files[p])
  BY <1>3 DEF FileOK
<1>5. cmd = [s \in Session |-> Idle] /\ unmined = {}
  BY DEF WalletsInit
<1> QED BY <1>1, <1>2, <1>4, <1>5 DEF UsersIInv, CommandOK

\* Every command on the alias store and the wallets keeps the invariant.
LEMMA WalletsStep ==
  StoreIInv /\ UsersIInv /\ [WalletsNext]_walletVars => StoreIInv' /\ UsersIInv'
<1> SUFFICES ASSUME StoreIInv, UsersIInv, [WalletsNext]_walletVars PROVE StoreIInv' /\ UsersIInv'
  OBVIOUS
<1>i. ASSUME NEW c, c = Idle PROVE CommandOK(c)'
  BY <1>i DEF CommandOK, Idle
<1>e. ASSUME NEW s \in Session, Ends(s)
      PROVE  \E r \in Session : \E c : cmd' = [cmd EXCEPT ![r] = c] /\ CommandOK(c)'
  BY <1>e, <1>i DEF Ends
<1>1. CASE StartNode
  <2>1. /\ ~ running /\ running' = TRUE /\ aliases' = sidecar /\ UNCHANGED <<sidecar, files, cmd, unmined>>
    BY <1>1 DEF StartNode, spendVars
  <2>2. StoreIInv' /\ \A m, j : Held(m, j) => Held(m, j)'
    BY <2>1 DEF StoreIInv, Held, Consistent, BoundTo
  <2> QED BY <2>1, <2>2, UsersMove
<1>2. CASE CrashNode
  <2>1. /\ running' = FALSE /\ aliases' = NoAliases /\ unmined' = {} /\ UNCHANGED <<sidecar, files, cmd>>
    BY <1>2 DEF CrashNode
  <2>2. StoreIInv' /\ \A m, j : Held(m, j) => Held(m, j)'
    BY <2>1 DEF StoreIInv, Held, Consistent, BoundTo, NoAliases
  <2> QED BY <2>1, <2>2, UsersMove
<1>3. ASSUME NEW n \in Number, NEW k \in Owner, OtherBinds(n, k) PROVE StoreIInv' /\ UsersIInv'
  <2>1. PICK r \in {"accepted", "conflict", "failed", "lost"} : BindAlias(n, k, r)
    BY <1>3 DEF OtherBinds
  <2>2. UNCHANGED <<files, cmd>> /\ unmined' \subseteq unmined
    BY <1>3 DEF OtherBinds
  <2>3. StoreIInv' /\ \A m, j : Held(m, j) => Held(m, j)'
    BY <2>1, BindKeepsHeld
  <2> QED BY <2>2, <2>3, UsersMove
<1>c. ASSUME NEW s \in Session, NEW c, c = cmd[s] PROVE CommandOK(c)
  BY <1>c DEF UsersIInv
<1>b. ASSUME NEW c, CommandOK(c), c.pc = "bind" PROVE BindOK(c)
  BY <1>b DEF CommandOK, Idle, SaveOK, AskOK, SubmitOK
<1>4. ASSUME NEW s \in Session, Register(s) PROVE StoreIInv' /\ UsersIInv'
  <2>1. PICK c : c = cmd[s]
    OBVIOUS
  <2>2. PICK n : n = Candidate[c.key][c.attempt]
    OBVIOUS
  <2>3. c.pc = "bind" /\ UNCHANGED files /\ unmined' \subseteq unmined
    BY <1>4, <2>1 DEF Register
  <2>4. PICK r \in {"accepted", "conflict", "failed", "lost"} :
          /\ BindAlias(n, c.key, r) \/ RateLimited(r)
          /\ AfterBind(s, r) \/ AfterBind(s, "lost")
    BY <1>4, <2>1, <2>2 DEF Register
  <2>5. BindOK(c)
    BY <1>b, <1>c, <2>1, <2>3
  <2>6. n \in Number
    <3>1. Candidate[c.key] \in Seq(Number) /\ c.attempt \in 1 .. Len(Candidate[c.key])
      BY <2>5, WalletAssumption DEF BindOK
    <3> QED BY <2>2, <3>1, ElementOfSeq
  <2>7. /\ StoreIInv' /\ \A m, j : Held(m, j) => Held(m, j)'
        /\ r = "accepted" => Held(n, c.key)'
    BY <2>4, BindKeepsHeld, StoreStillHeld DEF RateLimited
  <2>8. ASSUME NEW a \in {r, "lost"}, AfterBind(s, a)
        PROVE  \E t \in Session : \E x : cmd' = [cmd EXCEPT ![t] = x] /\ CommandOK(x)'
    <3> DEFINE Saving(m) == [pc |-> "save", path |-> c.path, key |-> c.key, number |-> m]
               Next(x) == cmd' = [cmd EXCEPT ![s] = x]
    <3>1. \/ a = "accepted" /\ Next(Saving(n))
          \/ Next(Saving(None))
          \/ c.attempt < Len(Candidate[c.key]) /\ Next([c EXCEPT !.attempt = @ + 1])
          \/ Next(Idle)
      BY <2>1, <2>2, <2>8 DEF AfterBind
    <3>2. CASE a = "accepted" /\ Next(Saving(n))
      <4>1. SaveOK(Saving(n))'
        BY <2>6, <2>7, <2>8, <3>2 DEF SaveOK
      <4> HIDE DEF Saving
      <4> QED BY <3>2, <4>1 DEF CommandOK
    <3>3. CASE Next(Saving(None))
      <4>1. SaveOK(Saving(None))'
        BY DEF SaveOK
      <4> HIDE DEF Saving
      <4> QED BY <3>3, <4>1 DEF CommandOK
    <3>4. CASE c.attempt < Len(Candidate[c.key]) /\ Next([c EXCEPT !.attempt = @ + 1])
      <4> DEFINE d == [c EXCEPT !.attempt = @ + 1]
      <4>1. Len(Candidate[c.key]) \in Nat /\ c.attempt \in Nat
        BY <2>5, WalletAssumption, LenProperties DEF BindOK
      <4>2. d = [pc |-> "bind", path |-> c.path, key |-> c.key, attempt |-> c.attempt + 1]
        BY <2>5 DEF BindOK
      <4>3. BindOK(d)'
        BY <2>5, <3>4, <4>1, <4>2 DEF BindOK
      <4> HIDE DEF d
      <4> QED BY <3>4, <4>3 DEF CommandOK, d
    <3>5. CASE Next(Idle)
      BY <3>5, <1>i
    <3> QED BY <3>1, <3>2, <3>3, <3>4, <3>5
  <2> QED BY <2>3, <2>4, <2>7, <2>8, UsersMove
\* The other commands leave the store alone.
<1>h. ASSUME UNCHANGED storeVars PROVE StoreIInv' /\ \A m, j : Held(m, j) => Held(m, j)'
  BY <1>h, StoreStillHeld
<1>5. ASSUME NEW s \in Session, RegisterOffline(s) PROVE StoreIInv' /\ UsersIInv'
  <2>1. cmd[s].pc = "bind" /\ AfterBind(s, "lost") /\ UNCHANGED <<storeVars, files, unmined>>
    BY <1>5 DEF RegisterOffline, spendVars
  <2>2. PICK c : c = cmd[s]
    OBVIOUS
  <2> DEFINE d == [pc |-> "save", path |-> c.path, key |-> c.key, number |-> None]
  <2>3. cmd' = [cmd EXCEPT ![s] = d]
    BY <2>1, <2>2 DEF AfterBind
  <2>4. CommandOK(d)'
    BY DEF CommandOK, SaveOK
  <2> HIDE DEF d
  <2> QED BY <1>h, <2>1, <2>3, <2>4, UsersMove
<1>6. ASSUME NEW s \in Session, SaveWallet(s) PROVE StoreIInv' /\ UsersIInv'
  <2>1. PICK c : c = cmd[s]
    OBVIOUS
  <2> DEFINE f == WalletFile(c.key, "locked", c.number, "cli")
  <2>2. /\ c.pc = "save" /\ files' = [files EXCEPT ![c.path] = f] /\ Ends(s)
        /\ UNCHANGED <<storeVars, unmined>>
    BY <1>6, <2>1 DEF SaveWallet, spendVars
  <2>3. SaveOK(c)
    BY <1>c, <2>1, <2>2 DEF CommandOK, Idle, BindOK, AskOK, SubmitOK
  <2>4. FileOK(f)'
    BY <1>h, <2>2, <2>3 DEF SaveOK, FileOK, WalletFile
  <2>5. files' = files \/ c.path \in WalletPath
    BY <2>2 DEF UsersIInv
  <2> HIDE DEF f
  <2> QED BY <1>h, <1>e, <2>2, <2>4, <2>5, UsersMove
<1>7. ASSUME NEW p \in WalletPath, NEW k \in Owner, NEW force \in BOOLEAN, WalletRestore(p, k, force)
      PROVE  StoreIInv' /\ UsersIInv'
  <2> DEFINE f == WalletFile(k, "plain", None, "cli")
  <2>1. files' = [files EXCEPT ![p] = f] /\ UNCHANGED <<storeVars, cmd, unmined>>
    BY <1>7 DEF WalletRestore, spendVars
  <2>2. FileOK(f)'
    BY DEF FileOK, WalletFile
  <2> HIDE DEF f
  <2> QED BY <1>h, <2>1, <2>2, UsersMove
<1>8. ASSUME NEW p \in WalletPath, NEW k \in Owner, StudioNew(p, k) PROVE StoreIInv' /\ UsersIInv'
  <2> DEFINE f == WalletFile(k, "locked", Candidate[k][1], "studio")
  <2>1. files' = [files EXCEPT ![p] = f] /\ UNCHANGED <<storeVars, cmd, unmined>>
    BY <1>8 DEF StudioNew, spendVars
  <2>2. Candidate[k][1] \in Number
    <3>1. Candidate[k] \in Seq(Number) /\ Candidate[k] # << >>
      BY WalletAssumption
    <3> QED BY <3>1, ElementOfSeq, EmptySeq
  <2>3. FileOK(f)'
    BY <2>2 DEF FileOK, WalletFile
  <2> HIDE DEF f
  <2> QED BY <1>h, <2>1, <2>3, UsersMove
<1>9. ASSUME NEW s \in Session, NEW p \in WalletPath, NEW k \in Owner, NEW force \in BOOLEAN,
             WalletNew(s, p, k, force)
      PROVE  StoreIInv' /\ UsersIInv'
  <2> DEFINE f == WalletFile(k, "plain", None, "cli")
             c == [pc |-> "bind", path |-> p, key |-> k, attempt |-> 1]
  <2>1. /\ files' = [files EXCEPT ![p] = f] /\ cmd' = [cmd EXCEPT ![s] = c]
        /\ UNCHANGED <<storeVars, unmined>>
    BY <1>9 DEF WalletNew, spendVars
  <2>2. FileOK(f)'
    BY DEF FileOK, WalletFile
  <2>3. CommandOK(c)'
    <3>1. Len(Candidate[k]) \in Nat \ {0}
      BY WalletAssumption, EmptySeq
    <3> QED BY <3>1 DEF CommandOK, BindOK
  <2> HIDE DEF f, c
  <2> QED BY <1>h, <2>1, <2>2, <2>3, UsersMove
<1>10. ASSUME NEW s \in Session, NEW p \in WalletPath, NEW kind, NEW to, NEW v, Spend(s, p, kind, to, v)
       PROVE  StoreIInv' /\ UsersIInv'
  <2>1. PICK k : k = files[p].key
    OBVIOUS
  <2> DEFINE c == [pc |-> IF to \in Number THEN "resolve" ELSE "list", kind |-> kind,
                   key |-> k, number |-> to, to |-> to, amount |-> v]
  <2>2. cmd' = [cmd EXCEPT ![s] = c] /\ UNCHANGED <<storeVars, files, unmined>>
    BY <1>10, <2>1 DEF Spend, spendVars
  <2>3. CommandOK(c)'
    BY DEF CommandOK, AskOK
  <2> HIDE DEF c
  <2> QED BY <1>h, <2>2, <2>3, UsersMove
<1>a. ASSUME NEW c, CommandOK(c), c.pc \in {"resolve", "list"} PROVE AskOK(c)
  BY <1>a DEF CommandOK, Idle, BindOK, SaveOK, SubmitOK
<1>11. ASSUME NEW s \in Session, Resolve(s) PROVE StoreIInv' /\ UsersIInv'
  <2>1. PICK c : c = cmd[s]
    OBVIOUS
  <2>2. c.pc = "resolve" /\ running /\ UNCHANGED <<storeVars, files, unmined>>
    BY <1>11, <2>1 DEF Resolve, spendVars
  <2>3. AskOK(c)
    BY <1>a, <1>c, <2>1, <2>2
  <2>4. CASE c.to \in DOMAIN aliases.account
    <3>1. PICK k : k = aliases.account[c.to]
      OBVIOUS
    <3> DEFINE d == [pc |-> "list", kind |-> c.kind, key |-> c.key, number |-> c.number, to |-> k,
                     amount |-> c.amount]
    <3>2. cmd' = [cmd EXCEPT ![s].pc = "list", ![s].to = k]
      BY <1>11, <2>1, <2>4, <3>1 DEF Resolve
    <3>3. cmd = [r \in Session |-> cmd[r]]
      BY DEF UsersIInv
    <3>4. cmd'[s] = d /\ cmd' = [cmd EXCEPT ![s] = cmd'[s]]
      BY <2>1, <2>3, <3>2, <3>3 DEF AskOK
    <3>5. Held(c.number, k)
      BY <2>2, <2>3, <2>4, <3>1 DEF AskOK, Held, StoreIInv, BoundTo
    <3>6. CommandOK(d)'
      BY <1>h, <2>2, <3>5 DEF CommandOK, AskOK
    <3> HIDE DEF d
    <3> QED BY <1>h, <2>2, <3>4, <3>6, UsersMove
  <2>5. CASE c.to \notin DOMAIN aliases.account
    BY <1>11, <1>e, <1>h, <2>1, <2>2, <2>5, UsersMove DEF Resolve
  <2> QED BY <2>4, <2>5
<1>12. ASSUME NEW s \in Session, ListCoins(s) PROVE StoreIInv' /\ UsersIInv'
  <2>1. PICK c, x, n : c = cmd[s] /\ x = {o \in coins : o.owner = c.key} /\ n = made
    OBVIOUS
  <2> DEFINE d == [pc |-> "submit", kind |-> c.kind, key |-> c.key, number |-> c.number,
                   to |-> c.to, amount |-> c.amount, seen |-> x, at |-> n]
  <2>2. c.pc = "list" /\ cmd' = [cmd EXCEPT ![s] = d] /\ UNCHANGED <<storeVars, files, unmined>>
    BY <1>12, <2>1 DEF ListCoins, spendVars
  <2>3. AskOK(c)
    BY <1>a, <1>c, <2>1, <2>2
  <2>4. CommandOK(d)'
    BY <1>h, <2>2, <2>3 DEF CommandOK, AskOK, SubmitOK
  <2> HIDE DEF d
  <2> QED BY <1>h, <2>2, <2>4, UsersMove
<1>13. ASSUME NEW s \in Session, Submit(s) PROVE StoreIInv' /\ UsersIInv'
  <2>1. PICK c : c = cmd[s]
    OBVIOUS
  <2>2. c.pc = "submit" /\ Ends(s) /\ UNCHANGED <<storeVars, files>>
    BY <1>13, <2>1 DEF Submit
  <2>3. \A t \in unmined' : t \in unmined \/ \E ins : t = Payment(c, ins)
    BY <1>13, <2>1 DEF Submit
  <2>4. SubmitOK(c)
    BY <1>c, <2>1, <2>2 DEF CommandOK, Idle, BindOK, SaveOK, AskOK
  <2>5. \A ins : Payment(c, ins).number = c.number /\ Payment(c, ins).to = c.to
    BY DEF Payment
  <2>6. \A t \in unmined' : t \in unmined \/ (t.number \in Number => Held(t.number, t.to)')
    BY <1>h, <2>2, <2>3, <2>4, <2>5 DEF SubmitOK
  <2> QED BY <1>h, <1>e, <2>2, <2>6, UsersMove
<1>14. ASSUME NEW s \in Session, Cut(s) PROVE StoreIInv' /\ UsersIInv'
  BY <1>14, <1>h, <1>e, UsersMove DEF Cut, spendVars
<1>15. ASSUME NEW c \in coins, NEW k \in Owner, ContractCall(c, k) PROVE StoreIInv' /\ UsersIInv'
  <2>1. /\ UNCHANGED <<storeVars, files, cmd>>
        /\ \E t : t.number = None /\ unmined' = unmined \cup {t}
    BY <1>15 DEF ContractCall
  <2> QED BY <1>h, <2>1, UsersMove, WalletAssumption
<1>16. CASE MinePending \/ \E k \in Owner, v \in Spent : Receive(k, v + MinerFee)
  <2>1. UNCHANGED <<storeVars, files, cmd>> /\ unmined' \subseteq unmined
    BY <1>16 DEF MinePending, Receive, Confirm
  <2> QED BY <1>h, <2>1, UsersMove
<1>17. CASE UNCHANGED walletVars
  BY <1>17, <1>h, UsersMove DEF walletVars, spendVars
<1> QED BY <1>1, <1>2, <1>3, <1>4, <1>5, <1>6, <1>7, <1>8, <1>9, <1>10, <1>11, <1>12, <1>13, <1>14,
          <1>15, <1>16, <1>17
        DEF WalletsNext, TransferP2pkh, EmbedData, DeployContract, SignAndBroadcast

-----------------------------------------------------------------------------

\* The invariant of the account numbers: the indexes of the store agree in memory and on
\* disk, and whatever a client was told of a number is held by the store.
THEOREM WalletsInvariant == WalletsSpec => [](StoreIInv /\ UsersIInv)
BY WalletsInitial, WalletsStep, PTL DEF WalletsSpec

\* alias_store.json passes validate_indexes at every point of bind and flush, so that
\* Node::open never refuses it, for any number of clients, keys and numbers.
THEOREM AliasStoreOpens == WalletsSpec => []StoreOpens
<1>1. StoreIInv /\ UsersIInv => StoreOpens
  BY DEF StoreIInv, StoreOpens
<1> QED BY <1>1, WalletsInvariant, PTL

\* The number that wallet new saved resolves to the file's key, in the node and in its
\* file, and pending payments to it pay that key.
THEOREM RegisteredNumberHolds == WalletsSpec => []NumberHolds
<1>1. StoreIInv /\ UsersIInv => NumberHolds
  <2> SUFFICES ASSUME StoreIInv, UsersIInv, NEW p \in WalletPath, files[p].number # None, files[p].by = "cli"
               PROVE  /\ BoundTo(sidecar, files[p].number, files[p].key)
                      /\ running => BoundTo(aliases, files[p].number, files[p].key)
                      /\ \A t \in unmined : t.number = files[p].number => t.to = files[p].key
    BY DEF NumberHolds
  <2>1. files[p].number \in Number /\ Held(files[p].number, files[p].key)
    BY DEF UsersIInv, FileOK
  <2>2. ASSUME NEW t \in unmined, t.number = files[p].number PROVE t.to = files[p].key
    <3>1. Held(t.number, t.to)
      BY <2>1, <2>2 DEF UsersIInv
    <3> QED BY <2>1, <2>2, <3>1 DEF Held, BoundTo
  <2> QED BY <2>1, <2>2 DEF Held
<1> QED BY <1>1, WalletsInvariant, PTL

-----------------------------------------------------------------------------
(***************************************************************************)
(* A payment that is run again.                                            *)
(***************************************************************************)

\* The first output that a wallet spends of those it was told.
FirstOf(S) == ByValue(ToSet(Listed(S)))[1]

\* Pending payments of the command line spend the first output they were told, and
\* no two pending transactions share one.
RerunIInv ==
  /\ \A t \in unmined : t.kind \in {"transfer", "embed"} => FirstOf(t.seen) \in t.ins
  /\ \A t, u \in unmined : t # u => t.ins \cap u.ins = {}

\* The selection starts from the front.
LEMMA FrontSelected ==
  ASSUME NEW kind \in {"transfer", "embed"}, NEW S, NEW needed,
         NEW ins \in Selected(kind, Offered(kind, S), needed)
  PROVE  FirstOf(S) \in ins
<1> DEFINE P == ByValue(ToSet(Listed(S)))
           first(i) == ToSet(SubSeq(P, 1, i))
           enough == {i \in 1 .. Len(Listed(S)) : SumOf(first(i)) >= needed}
<1>1. Offered(kind, S) = Listed(S) /\ Preferred(kind, Listed(S)) = P
  BY DEF Offered, Preferred
<1>2. enough # {} /\ ins = first(Min(enough))
  BY <1>1 DEF Selected
<1> HIDE DEF P
<1>3. enough \in SUBSET Nat /\ \A i \in enough : i >= 1
  OBVIOUS
<1>4. \E i \in enough : \A j \in enough : i <= j
  <2> HIDE DEF enough
  <2> QED BY <1>2, <1>3, LeastNat
<1>5. PICK n : n = Min(enough)
  OBVIOUS
<1>6. n \in Nat /\ n >= 1
  <2> HIDE DEF enough
  <2> QED BY <1>3, <1>4, <1>5 DEF Min
<1> HIDE DEF enough
<1>7. P[1] \in ToSet(SubSeq(P, 1, n))
  <2>1. PICK Q : Q = {P[i] : i \in 1 .. n}
    OBVIOUS
  <2>2. \A i \in 1 .. n : P[i] \in Q
    BY <2>1
  <2>3. /\ SubSeq(P, 1, n) \in Seq(Q)
        /\ Len(SubSeq(P, 1, n)) = IF 1 <= n THEN n - 1 + 1 ELSE 0
        /\ \A i \in 1 .. n - 1 + 1 : SubSeq(P, 1, n)[i] = P[1 + i - 1]
    BY <1>6, <2>2, SubSeqProperties
  <2>4. PICK r : r = SubSeq(P, 1, n)
    OBVIOUS
  <2>5. r \in Seq(Q) /\ Len(r) = n
    BY <1>6, <2>3, <2>4
  <2>6. 1 \in DOMAIN r
    BY <1>6, <2>5
  <2>7. r[1] = P[1]
    <3>1. 1 \in 1 .. n - 1 + 1 /\ 1 + 1 - 1 = 1
      BY <1>6
    <3> QED BY <2>3, <2>4, <3>1
  <2> QED BY <2>4, <2>6, <2>7 DEF ToSet
<1> QED BY <1>2, <1>5, <1>7 DEF FirstOf, P

\* A transaction joins the pending ones by a submission or a call only.
LEMMA PendingGrows ==
  ASSUME [WalletsNext]_walletVars
  PROVE  \/ unmined' \subseteq unmined
         \/ \E s \in Session : Submit(s)
         \/ \E c \in coins, k \in Owner : ContractCall(c, k)
<1>1. StartNode \/ CrashNode \/ MinePending \/ UNCHANGED walletVars => unmined' \subseteq unmined
  BY DEF StartNode, CrashNode, MinePending, walletVars, spendVars
<1>2. \A k, n, v : OtherBinds(n, k) \/ Receive(k, v) => unmined' \subseteq unmined
  BY DEF OtherBinds, Receive, spendVars
<1>3. \A p, k, force : StudioNew(p, k) \/ WalletRestore(p, k, force) => unmined' \subseteq unmined
  BY DEF StudioNew, WalletRestore, spendVars
<1>4. \A s, p, k, force : WalletNew(s, p, k, force) => unmined' \subseteq unmined
  BY DEF WalletNew, spendVars
<1>5. \A s : Register(s) \/ RegisterOffline(s) => unmined' \subseteq unmined
  BY DEF Register, RegisterOffline, spendVars
<1>6. \A s : SaveWallet(s) \/ Resolve(s) \/ ListCoins(s) \/ Cut(s) => unmined' \subseteq unmined
  BY DEF SaveWallet, Resolve, ListCoins, Cut, spendVars
<1>7. \A s, p, v, to : TransferP2pkh(s, p, to, v) \/ SignAndBroadcast(s, p, to, v) => unmined' \subseteq unmined
  BY DEF TransferP2pkh, SignAndBroadcast, Spend, spendVars
<1>8. \A s, p, v : DeployContract(s, p, v) \/ EmbedData(s, p) => unmined' \subseteq unmined
  BY DEF DeployContract, EmbedData, Spend, spendVars
<1> QED BY <1>1, <1>2, <1>3, <1>4, <1>5, <1>6, <1>7, <1>8 DEF WalletsNext

\* Every step keeps it.
LEMMA RerunStep == RerunIInv /\ [WalletsNext]_walletVars => RerunIInv'
<1> SUFFICES ASSUME RerunIInv, [WalletsNext]_walletVars PROVE RerunIInv'
  OBVIOUS
<1>1. CASE unmined' \subseteq unmined
  BY <1>1 DEF RerunIInv
<1>2. ASSUME NEW t, unmined' = unmined \cup {t}, Admits(t),
             t.kind \in {"transfer", "embed"} => FirstOf(t.seen) \in t.ins
      PROVE  RerunIInv'
  <2>1. \A u \in unmined : u.ins \cap t.ins = {}
    BY <1>2 DEF Admits
  <2> QED BY <1>2, <2>1 DEF RerunIInv
<1>3. ASSUME NEW s \in Session, Submit(s) PROVE RerunIInv'
  <2>1. PICK c, sel : c = cmd[s] /\ sel = Selected(c.kind, Offered(c.kind, c.seen), c.amount + MinerFee)
    OBVIOUS
  <2>2. unmined' = unmined \cup {t \in {Payment(c, ins) : ins \in sel} : Admits(t)}
    BY <1>3, <2>1 DEF Submit
  <2>3. \A x, y \in sel : x = y
    BY <2>1 DEF Selected
  <2>4. CASE unmined' \subseteq unmined
    BY <1>1, <2>4
  <2>5. CASE ~ (unmined' \subseteq unmined)
    <3>1. PICK ins \in sel : Admits(Payment(c, ins))
      BY <2>2, <2>5
    <3>2. PICK t : t = Payment(c, ins)
      OBVIOUS
    <3>3. unmined' = unmined \cup {t} /\ Admits(t)
      BY <2>2, <2>3, <3>1, <3>2
    <3>4. t.kind = c.kind /\ t.seen = c.seen /\ t.ins = ins
      BY <3>2 DEF Payment
    <3>5. t.kind \in {"transfer", "embed"} => FirstOf(t.seen) \in t.ins
      BY <2>1, <3>1, <3>4, FrontSelected
    <3> QED BY <1>2, <3>3, <3>5
  <2> QED BY <2>4, <2>5
<1>4. ASSUME NEW c \in coins, NEW k \in Owner, ContractCall(c, k) PROVE RerunIInv'
  <2>1. PICK t : t.kind = "call" /\ Admits(t) /\ unmined' = unmined \cup {t}
    BY <1>4 DEF ContractCall
  <2> QED BY <1>2, <2>1
<1> QED BY <1>1, <1>3, <1>4, PendingGrows

\* A payment of the command line that is run again, after a lost answer or with
\* another amount, is refused as long as no block comes in between: both spend
\* the first of them, whatever the amounts, and the pool takes an output once.
THEOREM RerunAlwaysRefused == WalletsSpec => []RerunRefused
<1>1. WalletsInit => RerunIInv
  BY DEF WalletsInit, RerunIInv
<1>2. RerunIInv /\ [WalletsNext]_walletVars => RerunIInv'
  BY RerunStep
<1>3. RerunIInv => RerunRefused
  BY DEF RerunIInv, RerunRefused
<1> QED BY <1>1, <1>2, <1>3, PTL DEF WalletsSpec


-----------------------------------------------------------------------------
(***************************************************************************)
(* The passbook.  First the lists it is made of: sorting keeps what there  *)
(* is.                                                                     *)
(***************************************************************************)

Least(rest, key) == CHOOSE x \in rest : \A y \in rest : key[x] <= key[y]
Picked(S, key, prev) == Append(prev, Least(S \ Range(prev), key))
SortStep(f, S, key, n) == IF n = 0 THEN << >> ELSE Picked(S, key, f[n - 1])

\* f is the function that InOrder recurses with.
Sorts(f, S, key, m) == f = [n \in 0 .. m |-> SortStep(f, S, key, n)]

\* The recursion of InOrder defines a function.
LEMMA SortsExist ==
  ASSUME NEW S, NEW key, NEW m \in Nat
  PROVE  \E f : Sorts(f, S, key, m)
<1> DEFINE T == {k \in Nat : \E f : Sorts(f, S, key, k)}
<1>1. 0 \in T
  <2> DEFINE g == [n \in 0 .. 0 |-> << >>]
  <2>1. Sorts(g, S, key, 0)
    BY DEF Sorts, SortStep
  <2> QED BY <2>1
<1>2. ASSUME NEW k \in Nat, k \in T PROVE k + 1 \in T
  <2>1. PICK f : Sorts(f, S, key, k)
    BY <1>2
  <2> DEFINE g == [n \in 0 .. (k + 1) |-> IF n \in 0 .. k THEN f[n] ELSE SortStep(f, S, key, n)]
  <2>2. ASSUME NEW n \in 0 .. (k + 1) PROVE g[n] = SortStep(g, S, key, n)
    <3>1. n # 0 => n - 1 \in 0 .. k /\ n - 1 \in 0 .. (k + 1)
      OBVIOUS
    <3>2. SortStep(g, S, key, n) = SortStep(f, S, key, n)
      BY <3>1 DEF SortStep
    <3>3. n \in 0 .. k => f[n] = SortStep(f, S, key, n)
      BY <2>1 DEF Sorts
    <3> QED BY <3>2, <3>3
  <2>3. g = [n \in 0 .. (k + 1) |-> g[n]]
    OBVIOUS
  <2> HIDE DEF g
  <2>4. Sorts(g, S, key, k + 1)
    BY <2>2, <2>3 DEF Sorts
  <2> QED BY <2>4
<1>3. Nat \subseteq T
  <2> HIDE DEF T
  <2> QED BY <1>1, <1>2, OneByOne
<1> QED BY <1>3

\* What an appended sequence holds.
LEMMA AppendRange ==
  ASSUME NEW S, NEW p \in Seq(S), NEW x \in S
  PROVE  Range(Append(p, x)) = Range(p) \cup {x}
<1> DEFINE q == Append(p, x)
<1>1. /\ Len(p) \in Nat /\ DOMAIN p = 1 .. Len(p) /\ DOMAIN q = 1 .. (Len(p) + 1)
      /\ \A i \in 1 .. Len(p) : q[i] = p[i]
      /\ q[Len(p) + 1] = x
  OBVIOUS
<1> HIDE DEF q
<1>2. \A i \in 1 .. (Len(p) + 1) : i \in 1 .. Len(p) \/ i = Len(p) + 1
  BY <1>1
<1>3. Range(p) = {p[i] : i \in DOMAIN p} /\ Range(q) = {q[i] : i \in DOMAIN q}
  BY DEF Range
<1>4. Range(q) \subseteq Range(p) \cup {x}
  BY <1>1, <1>2, <1>3
<1>5. \A i \in 1 .. Len(p) : i \in 1 .. (Len(p) + 1)
  BY <1>1
<1>6. Len(p) + 1 \in 1 .. (Len(p) + 1)
  BY <1>1
<1>7. Range(p) \cup {x} \subseteq Range(q)
  BY <1>1, <1>3, <1>5, <1>6
<1>8. Range(q) = Range(p) \cup {x}
  BY <1>4, <1>7
<1> QED BY <1>8 DEF q

\* A least key there is, in a set that is not empty.
LEMMA LeastThere ==
  ASSUME NEW rest, rest # {}, NEW key, \A x \in rest : key[x] \in Int /\ key[x] >= 0 - 1
  PROVE  Least(rest, key) \in rest
<1> DEFINE D == {n \in Nat : \E x \in rest : n = key[x] + 1}
<1>1. D \in SUBSET Nat /\ D # {}
  <2>1. PICK x \in rest : TRUE
    OBVIOUS
  <2>2. key[x] + 1 \in Nat
    OBVIOUS
  <2> QED BY <2>1, <2>2
<1>2. PICK n \in D : \A m \in D : n <= m
  <2> HIDE DEF D
  <2> QED BY <1>1, LeastNat
<1>3. PICK x \in rest : n = key[x] + 1
  BY <1>2
<1>4. ASSUME NEW y \in rest PROVE key[x] <= key[y]
  <2>1. key[y] \in Int /\ key[y] >= 0 - 1 /\ key[x] \in Int
    OBVIOUS
  <2>2. key[y] + 1 \in D
    BY <2>1
  <2>3. n <= key[y] + 1
    BY <1>2, <2>2
  <2> QED BY <1>3, <2>1, <2>3
<1> QED BY <1>3, <1>4 DEF Least

\* InOrder lists every member of a finite set, and nothing else (sort_by of the UTXO
\* leaves, of the index records and of the journal).
LEMMA InOrderLists ==
  ASSUME NEW S, IsFiniteSet(S), NEW key, \A x \in S : key[x] \in Int /\ key[x] >= 0 - 1
  PROVE  /\ InOrder(S, key) \in Seq(S)
         /\ Len(InOrder(S, key)) = Cardinality(S)
         /\ Range(InOrder(S, key)) = S
<1> DEFINE m == Cardinality(S)
           f == CHOOSE g : Sorts(g, S, key, m)
<1>1. m \in Nat
  BY FS_CardinalityType
<1>2. InOrder(S, key) = f[m]
  BY DEF InOrder, Sorts, SortStep, Picked, Least
<1>3. Sorts(f, S, key, m)
  BY <1>1, SortsExist
<1> HIDE DEF f
<1>4. \A n \in 0 .. m : f[n] = SortStep(f, S, key, n)
  BY <1>3 DEF Sorts
<1> DEFINE Good(n) == f[n] \in Seq(S) /\ Len(f[n]) = n
                        /\ IsFiniteSet(Range(f[n])) /\ Cardinality(Range(f[n])) = n
           T == {n \in Nat : n <= m => Good(n)}
<1>5. 0 \in T
  <2>1. f[0] = << >>
    BY <1>1, <1>4 DEF SortStep
  <2>2. Range(<< >>) = {}
    BY DEF Range
  <2>3. IsFiniteSet({}) /\ Cardinality({}) = 0
    BY FS_EmptySet
  <2>4. << >> \in Seq(S) /\ Len(<< >>) = 0
    OBVIOUS
  <2>5. Good(0)
    BY <2>1, <2>2, <2>3, <2>4
  <2> QED BY <2>5
<1>6. ASSUME NEW n \in Nat, n \in T PROVE n + 1 \in T
  <2> SUFFICES ASSUME n + 1 <= m PROVE Good(n + 1)
    OBVIOUS
  <2>1. n <= m /\ n + 1 \in 0 .. m /\ (n + 1) - 1 = n /\ n + 1 # 0 /\ n # m
    BY <1>1
  <2>2. Good(n)
    BY <1>6, <2>1
  <2> DEFINE R == Range(f[n])
             x == Least(S \ R, key)
  <2>3. f[n + 1] = Append(f[n], x)
    BY <1>4, <2>1 DEF SortStep, Picked
  <2>4. R \subseteq S
    BY <2>2 DEF Range
  <2>5. S \ R # {}
    <3>1. ASSUME S \subseteq R PROVE FALSE
      <4>1. S = R
        BY <2>4, <3>1
      <4> QED BY <2>1, <2>2, <4>1
    <3> QED BY <3>1
  <2>6. x \in S \ R
    <3> HIDE DEF R
    <3> QED BY <2>5, LeastThere
  <2> HIDE DEF x
  <2>7. Range(f[n + 1]) = R \cup {x}
    <3>1. PICK p : p = f[n]
      OBVIOUS
    <3>2. p \in Seq(S)
      BY <2>2, <3>1
    <3>3. Range(Append(p, x)) = Range(p) \cup {x}
      BY <2>6, <3>2, AppendRange
    <3> QED BY <2>3, <3>1, <3>3
  <2>8. IsFiniteSet(R \cup {x}) /\ Cardinality(R \cup {x}) = n + 1
    BY <2>2, <2>6, FS_AddElement
  <2>9. f[n + 1] \in Seq(S) /\ Len(f[n + 1]) = n + 1
    BY <2>2, <2>3, <2>6
  <2> QED BY <2>7, <2>8, <2>9
<1>7. Nat \subseteq T
  <2> HIDE DEF T
  <2> QED BY <1>5, <1>6, OneByOne
<1>8. Good(m)
  BY <1>1, <1>7
<1>9. Range(f[m]) \subseteq S
  BY <1>8 DEF Range
<1>10. Range(f[m]) = S
  BY <1>1, <1>8, <1>9, FS_Subset
<1> QED BY <1>2, <1>8, <1>10

-----------------------------------------------------------------------------
(***************************************************************************)
(* The Merkle tree.  Every hash of a level is the left or the right half   *)
(* of a hash of the next, so that a level fixes which hashes are below it. *)
(***************************************************************************)

\* A level with at least one hash
Level(s) == (\E S : s \in Seq(S)) /\ Len(s) >= 1

\* The hash above h, from one step of an audit path
Joined(step, h) == IF step.right THEN Pair(h, step.hash) ELSE Pair(step.hash, h)

\* An odd level repeats its last hash, and has no other hashes for it.
LEMMA EvenedShape ==
  ASSUME NEW s, Level(s)
  PROVE  /\ Len(s) \in Nat
         /\ DOMAIN s = 1 .. Len(s)
         /\ Len(Evened(s)) = 2 * ((Len(s) + 1) \div 2)
         /\ \A i \in 1 .. Len(s) : Evened(s)[i] = s[i]
         /\ \A i \in 1 .. Len(Evened(s)) : Evened(s)[i] \in Range(s)
<1>1. PICK S : s \in Seq(S)
  BY DEF Level
<1>2. PICK n : n = Len(s)
  OBVIOUS
<1>3. n \in Nat /\ n >= 1 /\ DOMAIN s = 1 .. n /\ \A i \in 1 .. n : s[i] \in S
  BY <1>1, <1>2 DEF Level
<1>4. \A i \in 1 .. n : s[i] \in Range(s)
  BY <1>3 DEF Range
<1>5. CASE n % 2 = 1
  <2>1. Evened(s) = Append(s, s[n])
    BY <1>2, <1>5 DEF Evened, Last
  <2>2. s[n] \in S
    BY <1>3
  <2>3. PICK e : e = Append(s, s[n])
    OBVIOUS
  <2>4. Len(e) = n + 1 /\ e[n + 1] = s[n] /\ \A i \in 1 .. n : e[i] = s[i]
    BY <1>1, <1>2, <2>2, <2>3
  <2>5. n + 1 = 2 * ((n + 1) \div 2)
    BY <1>3, <1>5
  <2>6. \A i \in 1 .. (n + 1) : i \in 1 .. n \/ i = n + 1
    BY <1>3
  <2>7. n \in 1 .. n
    BY <1>3
  <2>8. \A i \in 1 .. (n + 1) : e[i] \in Range(s)
    BY <1>4, <2>4, <2>6, <2>7
  <2> QED BY <1>2, <1>3, <2>1, <2>3, <2>4, <2>5, <2>8
<1>6. CASE n % 2 # 1
  <2>1. Evened(s) = s
    BY <1>2, <1>6 DEF Evened
  <2>2. n = 2 * ((n + 1) \div 2)
    BY <1>3, <1>6
  <2> QED BY <1>2, <1>3, <1>4, <2>1, <2>2
<1> QED BY <1>5, <1>6

\* The next level: half as long, made of pairs of hashes of this one; the hash at i goes
\* with its sibling into the one at (i + 1) \div 2 (compute_utxo_merkle_root).
LEMMA MergedShape ==
  ASSUME NEW s, Level(s)
  PROVE  /\ Level(Merged(s))
         /\ Len(Merged(s)) = (Len(s) + 1) \div 2
         /\ DOMAIN Merged(s) = 1 .. Len(Merged(s))
         /\ \A j \in 1 .. Len(Merged(s)) :
              \E l, r \in Range(s) : Merged(s)[j] = Pair(l, r)
         /\ \A i \in 1 .. Len(s) :
              /\ (i + 1) \div 2 \in 1 .. Len(Merged(s))
              /\ Merged(s)[(i + 1) \div 2] = Joined(Sibling(s, i), s[i])
<1> DEFINE e == Evened(s)
           n == Len(s)
           h == (n + 1) \div 2
<1>1. /\ n \in Nat /\ n >= 1 /\ Len(e) = 2 * h
      /\ \A i \in 1 .. n : e[i] = s[i]
      /\ \A i \in 1 .. (2 * h) : e[i] \in Range(s)
  BY EvenedShape DEF Level
<1> HIDE DEF e, n
<1>2. h \in Nat /\ h >= 1 /\ (2 * h) \div 2 = h /\ n <= 2 * h
  BY <1>1
<1> HIDE DEF h
<1>3. Merged(s) = [i \in 1 .. h |-> Pair(e[2 * i - 1], e[2 * i])]
  <2>1. Merged(s) = [i \in 1 .. (Len(e) \div 2) |-> Pair(e[2 * i - 1], e[2 * i])]
    BY DEF Merged, e
  <2> QED BY <1>1, <1>2, <2>1
<1> DEFINE P == {Pair(e[2 * i - 1], e[2 * i]) : i \in 1 .. h}
<1>4. Merged(s) \in Seq(P) /\ Len(Merged(s)) = h /\ DOMAIN Merged(s) = 1 .. h
  <2>1. ASSUME NEW i \in 1 .. h PROVE Pair(e[2 * i - 1], e[2 * i]) \in P
    OBVIOUS
  <2> HIDE DEF P
  <2>2. Merged(s) \in [1 .. h -> P]
    BY <1>3, <2>1
  <2> QED BY <1>2, <2>2
<1>5. Level(Merged(s))
  <2> HIDE DEF P
  <2> QED BY <1>2, <1>4 DEF Level
<1>6. ASSUME NEW j \in 1 .. h PROVE \E l, r \in Range(s) : Merged(s)[j] = Pair(l, r)
  <2>1. 2 * j - 1 \in 1 .. (2 * h) /\ 2 * j \in 1 .. (2 * h)
    BY <1>2
  <2>2. Merged(s)[j] = Pair(e[2 * j - 1], e[2 * j])
    BY <1>3
  <2> QED BY <1>1, <2>1, <2>2
<1>7. ASSUME NEW i \in 1 .. n
      PROVE  (i + 1) \div 2 \in 1 .. h /\ Merged(s)[(i + 1) \div 2] = Joined(Sibling(s, i), s[i])
  <2> DEFINE j == (i + 1) \div 2
  <2>1. j \in 1 .. h
    BY <1>1 DEF h
  <2>2. Merged(s)[j] = Pair(e[2 * j - 1], e[2 * j])
    BY <1>3, <2>1
  <2>3. e[i] = s[i]
    BY <1>1
  <2>4. CASE i % 2 = 1
    <3>1. 2 * j - 1 = i /\ 2 * j = i + 1
      BY <2>4
    <3>2. Sibling(s, i) = [hash |-> e[i + 1], right |-> TRUE]
      BY <2>4 DEF Sibling, e
    <3> QED BY <2>1, <2>2, <2>3, <3>1, <3>2 DEF Joined
  <2>5. CASE i % 2 # 1
    <3>1. 2 * j - 1 = i - 1 /\ 2 * j = i
      BY <2>5
    <3>2. Sibling(s, i) = [hash |-> e[i - 1], right |-> FALSE]
      BY <2>5 DEF Sibling, e
    <3> QED BY <2>1, <2>2, <2>3, <3>1, <3>2 DEF Joined
  <2> QED BY <2>4, <2>5
<1>8. h = (Len(s) + 1) \div 2
  BY DEF h, n
<1> QED BY <1>4, <1>5, <1>6, <1>7, <1>8 DEF n

LevelStep(f, s, k) == IF k = 0 THEN s ELSE Merged(f[k - 1])

\* f is the function that Levels recurses with.
Climbs(f, s, m) == f = [k \in 0 .. m |-> LevelStep(f, s, k)]

\* The recursion of Levels defines a function.
LEMMA ClimbsExist ==
  ASSUME NEW s, NEW m \in Nat
  PROVE  \E f : Climbs(f, s, m)
<1> DEFINE T == {k \in Nat : \E f : Climbs(f, s, k)}
<1>1. 0 \in T
  <2> DEFINE g == [n \in 0 .. 0 |-> s]
  <2>1. Climbs(g, s, 0)
    BY DEF Climbs, LevelStep
  <2> QED BY <2>1
<1>2. ASSUME NEW k \in Nat, k \in T PROVE k + 1 \in T
  <2>1. PICK f : Climbs(f, s, k)
    BY <1>2
  <2> DEFINE g == [n \in 0 .. (k + 1) |-> IF n \in 0 .. k THEN f[n] ELSE LevelStep(f, s, n)]
  <2>2. ASSUME NEW n \in 0 .. (k + 1) PROVE g[n] = LevelStep(g, s, n)
    <3>1. n # 0 => n - 1 \in 0 .. k /\ n - 1 \in 0 .. (k + 1)
      OBVIOUS
    <3>2. LevelStep(g, s, n) = LevelStep(f, s, n)
      BY <3>1 DEF LevelStep
    <3>3. n \in 0 .. k => f[n] = LevelStep(f, s, n)
      BY <2>1 DEF Climbs
    <3> QED BY <3>2, <3>3
  <2>3. g = [n \in 0 .. (k + 1) |-> g[n]]
    OBVIOUS
  <2> HIDE DEF g
  <2>4. Climbs(g, s, k + 1)
    BY <2>2, <2>3 DEF Climbs
  <2> QED BY <2>4
<1>3. Nat \subseteq T
  <2> HIDE DEF T
  <2> QED BY <1>1, <1>2, OneByOne
<1> QED BY <1>3

\* The levels shrink to one hash.
LEMMA LevelsShape ==
  ASSUME NEW s, Level(s)
  PROVE  /\ Len(s) \in Nat
         /\ Levels(s)[0] = s
         /\ \A k \in 1 .. Len(s) : Levels(s)[k] = Merged(Levels(s)[k - 1])
         /\ \A k \in 0 .. Len(s) : Level(Levels(s)[k])
         /\ Depth(s) \in 0 .. Len(s)
         /\ Len(Levels(s)[Depth(s)]) = 1
<1> DEFINE m == Len(s)
           f == CHOOSE g : Climbs(g, s, m)
<1>1. m \in Nat /\ m >= 1
  BY EvenedShape DEF Level
<1> HIDE DEF m
<1>2. Climbs(f, s, m)
  BY <1>1, ClimbsExist
<1>3. Levels(s) = f
  BY DEF Levels, Climbs, LevelStep, m
<1> HIDE DEF f
<1>4. \A k \in 0 .. m : f[k] = LevelStep(f, s, k)
  BY <1>2 DEF Climbs
<1>5. f[0] = s
  BY <1>1, <1>4 DEF LevelStep
<1>6. \A k \in 1 .. m : f[k] = Merged(f[k - 1])
  BY <1>1, <1>4 DEF LevelStep
<1> DEFINE Bound(k) == Level(f[k]) /\ Len(f[k]) \in Nat /\ (Len(f[k]) = 1 \/ Len(f[k]) + k <= m)
           T == {k \in Nat : k <= m => Bound(k)}
<1>7. 0 \in T
  BY <1>1, <1>5 DEF m
<1>8. ASSUME NEW k \in Nat, k \in T PROVE k + 1 \in T
  <2> SUFFICES ASSUME k + 1 <= m PROVE Bound(k + 1)
    <3> HIDE DEF Bound
    <3> QED OBVIOUS
  <2>1. k <= m /\ k + 1 \in 1 .. m /\ (k + 1) - 1 = k
    BY <1>1
  <2>2. Bound(k)
    BY <1>8, <2>1
  <2>3. f[k + 1] = Merged(f[k])
    BY <1>6, <2>1
  <2>4. PICK a : a = f[k]
    OBVIOUS
  <2>5. Level(Merged(a)) /\ Len(Merged(a)) = (Len(a) + 1) \div 2
    BY <2>2, <2>4, MergedShape
  <2>6. PICK n : n = Len(a)
    OBVIOUS
  <2>7. n \in Nat /\ n >= 1 /\ (n = 1 \/ n + k <= m)
    BY <2>2, <2>4, <2>6 DEF Level
  <2>8. (n + 1) \div 2 \in Nat /\ ((n + 1) \div 2 = 1 \/ (n + 1) \div 2 + (k + 1) <= m)
    BY <1>1, <2>7
  <2> QED BY <2>3, <2>4, <2>5, <2>6, <2>8
<1>9. Nat \subseteq T
  <2> HIDE DEF T
  <2> QED BY <1>7, <1>8, OneByOne
<1>10. ASSUME NEW k \in 0 .. m PROVE Bound(k)
  BY <1>1, <1>9
<1>11. Len(f[m]) = 1
  <2>1. m \in 0 .. m
    BY <1>1
  <2>2. Level(f[m]) /\ Len(f[m]) \in Nat /\ (Len(f[m]) = 1 \/ Len(f[m]) + m <= m)
    BY <1>10, <2>1
  <2>3. Len(f[m]) >= 1
    BY <2>2 DEF Level
  <2> QED BY <1>1, <2>2, <2>3
<1> DEFINE D == {k \in 0 .. m : Len(f[k]) = 1}
<1>12. Depth(s) = Min(D)
  BY <1>3 DEF Depth, m
<1>13. D \in SUBSET Nat /\ D # {}
  BY <1>1, <1>11
<1>14. Min(D) \in D
  <2> HIDE DEF D
  <2>1. \E x \in D : \A y \in D : x <= y
    BY <1>13, LeastNat
  <2> QED BY <2>1 DEF Min
<1>15. Depth(s) \in 0 .. m /\ Len(f[Depth(s)]) = 1
  BY <1>12, <1>14
<1>16. \A k \in 0 .. m : Level(f[k])
  BY <1>10
<1> QED BY <1>1, <1>3, <1>5, <1>6, <1>15, <1>16 DEF m

PlaceStep(f, i, k) == IF k = 0 THEN i ELSE (f[k - 1] + 1) \div 2

\* f is the function that Places recurses with.
Halves(f, i, m) == f = [k \in 0 .. m |-> PlaceStep(f, i, k)]

\* The recursion of Places defines a function.
LEMMA HalvesExist ==
  ASSUME NEW i, NEW m \in Nat
  PROVE  \E f : Halves(f, i, m)
<1> DEFINE T == {k \in Nat : \E f : Halves(f, i, k)}
<1>1. 0 \in T
  <2> DEFINE g == [n \in 0 .. 0 |-> i]
  <2>1. Halves(g, i, 0)
    BY DEF Halves, PlaceStep
  <2> QED BY <2>1
<1>2. ASSUME NEW k \in Nat, k \in T PROVE k + 1 \in T
  <2>1. PICK f : Halves(f, i, k)
    BY <1>2
  <2> DEFINE g == [n \in 0 .. (k + 1) |-> IF n \in 0 .. k THEN f[n] ELSE PlaceStep(f, i, n)]
  <2>2. ASSUME NEW n \in 0 .. (k + 1) PROVE g[n] = PlaceStep(g, i, n)
    <3>1. n # 0 => n - 1 \in 0 .. k /\ n - 1 \in 0 .. (k + 1)
      OBVIOUS
    <3>2. PlaceStep(g, i, n) = PlaceStep(f, i, n)
      BY <3>1 DEF PlaceStep
    <3>3. n \in 0 .. k => f[n] = PlaceStep(f, i, n)
      BY <2>1 DEF Halves
    <3> QED BY <3>2, <3>3
  <2>3. g = [n \in 0 .. (k + 1) |-> g[n]]
    OBVIOUS
  <2> HIDE DEF g
  <2>4. Halves(g, i, k + 1)
    BY <2>2, <2>3 DEF Halves
  <2> QED BY <2>4
<1>3. Nat \subseteq T
  <2> HIDE DEF T
  <2> QED BY <1>1, <1>2, OneByOne
<1> QED BY <1>3

\* Above the leaf at i there is a hash on every level, up to the root.
LEMMA PlacesShape ==
  ASSUME NEW s, Level(s), NEW i \in 1 .. Len(s)
  PROVE  LET d == Depth(s) IN
         /\ d \in Nat
         /\ Places(i, d)[0] = i
         /\ \A k \in 1 .. d : Places(i, d)[k] = (Places(i, d)[k - 1] + 1) \div 2
         /\ \A k \in 0 .. d : Places(i, d)[k] \in 1 .. Len(Levels(s)[k])
         /\ Places(i, d)[d] = 1
<1> DEFINE d == Depth(s)
           f == CHOOSE g : Halves(g, i, d)
<1>1. /\ Len(s) \in Nat /\ d \in 0 .. Len(s) /\ Levels(s)[0] = s
      /\ \A k \in 1 .. Len(s) : Levels(s)[k] = Merged(Levels(s)[k - 1])
      /\ \A k \in 0 .. Len(s) : Level(Levels(s)[k])
      /\ Len(Levels(s)[d]) = 1
  BY LevelsShape
<1> HIDE DEF d
<1>2. d \in Nat
  BY <1>1
<1>3. Halves(f, i, d)
  BY <1>2, HalvesExist
<1>4. Places(i, d) = f
  BY DEF Places, Halves, PlaceStep
<1> HIDE DEF f
<1>5. \A k \in 0 .. d : f[k] = PlaceStep(f, i, k)
  BY <1>3 DEF Halves
<1>6. f[0] = i
  BY <1>2, <1>5 DEF PlaceStep
<1>7. \A k \in 1 .. d : f[k] = (f[k - 1] + 1) \div 2
  BY <1>2, <1>5 DEF PlaceStep
<1> DEFINE T == {k \in Nat : k <= d => f[k] \in 1 .. Len(Levels(s)[k])}
<1>8. 0 \in T
  BY <1>1, <1>6
<1>9. ASSUME NEW k \in Nat, k \in T PROVE k + 1 \in T
  <2> SUFFICES ASSUME k + 1 <= d PROVE f[k + 1] \in 1 .. Len(Levels(s)[k + 1])
    OBVIOUS
  <2>1. k <= d /\ k + 1 \in 1 .. d /\ (k + 1) - 1 = k /\ k + 1 \in 1 .. Len(s) /\ k \in 0 .. Len(s)
    BY <1>1, <1>2
  <2>2. PICK a : a = Levels(s)[k]
    OBVIOUS
  <2>3. Level(a) /\ Levels(s)[k + 1] = Merged(a) /\ f[k] \in 1 .. Len(a)
    BY <1>1, <1>9, <2>1, <2>2
  <2>4. (f[k] + 1) \div 2 \in 1 .. Len(Merged(a))
    BY <2>3, MergedShape
  <2> QED BY <1>7, <2>1, <2>3, <2>4
<1>10. Nat \subseteq T
  <2> HIDE DEF T
  <2> QED BY <1>8, <1>9, OneByOne
<1>11. \A k \in 0 .. d : f[k] \in 1 .. Len(Levels(s)[k])
  BY <1>2, <1>10
<1>12. f[d] = 1
  <2>1. d \in 0 .. d
    BY <1>2
  <2>2. f[d] \in 1 .. Len(Levels(s)[d])
    BY <1>11, <2>1
  <2>3. Len(Levels(s)[d]) = 1
    BY <1>1
  <2> QED BY <2>2, <2>3
<1> QED BY <1>2, <1>4, <1>6, <1>7, <1>11, <1>12 DEF d

HashStep(f, p, k) == IF k = 0 THEN Leaf(p.op) ELSE Joined(p.path[k], f[k - 1])

\* f is the function that ProofVerifies recurses with.
Hashes(f, p, m) == f = [k \in 0 .. m |-> HashStep(f, p, k)]

\* The audit path of a leaf leads to the root of its tree and to no other
\* (generate_utxo_merkle_proof and UtxoMerkleProof::verify).
LEMMA PathLeadsToRoot ==
  ASSUME NEW s, Level(s), NEW i \in 1 .. Len(s), NEW o, s[i] = Leaf(o),
         NEW p, p.op = o, p.path = AuditPath(s, i), NEW root
  PROVE  ProofVerifies(p, root) <=> root = MerkleRoot(s)
<1> DEFINE d == Depth(s)
           place == Places(i, d)
           up == Levels(s)
<1>1. /\ Len(s) \in Nat /\ d \in 0 .. Len(s) /\ up[0] = s
      /\ \A k \in 1 .. Len(s) : up[k] = Merged(up[k - 1])
      /\ \A k \in 0 .. Len(s) : Level(up[k])
  BY LevelsShape
<1>2. /\ d \in Nat /\ place[0] = i /\ place[d] = 1
      /\ \A k \in 1 .. d : place[k] = (place[k - 1] + 1) \div 2
      /\ \A k \in 0 .. d : place[k] \in 1 .. Len(up[k])
  BY PlacesShape
<1>3. AuditPath(s, i) = [k \in 1 .. d |-> Sibling(up[k - 1], place[k - 1])]
  BY DEF AuditPath
<1> HIDE DEF d, place, up
<1>4. Len(AuditPath(s, i)) = d
  BY <1>2, <1>3
<1> DEFINE f == CHOOSE g : Hashes(g, p, d)
           w == [k \in 0 .. d |-> up[k][place[k]]]
<1>5. ProofVerifies(p, root) <=> f[d] = root
  <2>1. Len(p.path) = d
    BY <1>4
  <2>2. PICK n : n = Len(p.path)
    OBVIOUS
  <2>3. ProofVerifies(p, root) <=> (CHOOSE g : Hashes(g, p, n))[n] = root
    BY <2>2 DEF ProofVerifies, Hashes, HashStep, Joined
  <2> QED BY <2>1, <2>2, <2>3
<1>6. ASSUME NEW k \in 1 .. d PROVE up[k][place[k]] = Joined(p.path[k], up[k - 1][place[k - 1]])
  <2>1. k - 1 \in 0 .. d /\ k \in 1 .. Len(s) /\ k - 1 \in 0 .. Len(s)
    <3>1. Len(s) \in Nat /\ d \in 0 .. Len(s)
      BY <1>1
    <3> QED BY <3>1
  <2>2. PICK a, j : a = up[k - 1] /\ j = place[k - 1]
    OBVIOUS
  <2>3. Level(a) /\ j \in 1 .. Len(a) /\ up[k] = Merged(a) /\ place[k] = (j + 1) \div 2
    BY <1>1, <1>2, <2>1, <2>2
  <2>4. Merged(a)[(j + 1) \div 2] = Joined(Sibling(a, j), a[j])
    BY <2>3, MergedShape
  <2>5. p.path[k] = Sibling(a, j)
    BY <1>3, <2>2
  <2> QED BY <2>2, <2>3, <2>4, <2>5
<1>7. up[0][place[0]] = Leaf(p.op)
  BY <1>1, <1>2
<1>8. Hashes(w, p, d)
  <2>1. ASSUME NEW k \in 0 .. d PROVE w[k] = HashStep(w, p, k)
    <3>1. CASE k = 0
      BY <1>7, <3>1 DEF HashStep
    <3>2. CASE k # 0
      <4>1. k \in 1 .. d /\ k - 1 \in 0 .. d
        BY <1>2, <3>2
      <4>2. w[k] = up[k][place[k]] /\ w[k - 1] = up[k - 1][place[k - 1]]
        BY <4>1
      <4> QED BY <1>6, <3>2, <4>1, <4>2 DEF HashStep
    <3> QED BY <3>1, <3>2
  <2>2. w = [k \in 0 .. d |-> w[k]]
    OBVIOUS
  <2> HIDE DEF w
  <2> QED BY <2>1, <2>2 DEF Hashes
<1>9. Hashes(f, p, d)
  <2> HIDE DEF w
  <2> QED BY <1>8
<1> HIDE DEF f
<1>10. \A k \in 0 .. d : f[k] = HashStep(f, p, k)
  BY <1>9 DEF Hashes
<1> DEFINE T == {k \in Nat : k <= d => f[k] = up[k][place[k]]}
<1>11. 0 \in T
  BY <1>2, <1>7, <1>10 DEF HashStep
<1>12. ASSUME NEW k \in Nat, k \in T PROVE k + 1 \in T
  <2> SUFFICES ASSUME k + 1 <= d PROVE f[k + 1] = up[k + 1][place[k + 1]]
    OBVIOUS
  <2>1. k <= d /\ k + 1 \in 1 .. d /\ k + 1 \in 0 .. d /\ (k + 1) - 1 = k /\ k + 1 # 0
    BY <1>2
  <2>2. f[k + 1] = Joined(p.path[k + 1], f[k])
    BY <1>10, <2>1 DEF HashStep
  <2>3. f[k] = up[k][place[k]]
    BY <1>12, <2>1
  <2>4. up[k + 1][place[k + 1]] = Joined(p.path[k + 1], up[k][place[k]])
    BY <1>6, <2>1
  <2> QED BY <2>2, <2>3, <2>4
<1>13. Nat \subseteq T
  <2> HIDE DEF T
  <2> QED BY <1>11, <1>12, OneByOne
<1>14. f[d] = up[d][1]
  BY <1>2, <1>13
<1>15. MerkleRoot(s) = up[d][1]
  <2>1. s # << >>
    BY DEF Level
  <2> QED BY <2>1 DEF MerkleRoot, up, d
<1> QED BY <1>5, <1>14, <1>15

\* A level fixes the hashes of the level below.
LEMMA BelowFixed ==
  ASSUME NEW a, Level(a), NEW b, Level(b), Range(Merged(a)) \subseteq Range(Merged(b))
  PROVE  Range(a) \subseteq Range(b)
<1> SUFFICES ASSUME NEW x \in Range(a) PROVE x \in Range(b)
  OBVIOUS
<1>1. PICK i \in 1 .. Len(a) : x = a[i]
  BY EvenedShape DEF Range
<1>2. /\ (i + 1) \div 2 \in 1 .. Len(Merged(a))
      /\ Merged(a)[(i + 1) \div 2] = Joined(Sibling(a, i), a[i])
      /\ DOMAIN Merged(a) = 1 .. Len(Merged(a))
  BY MergedShape
<1>3. PICK y : y = Joined(Sibling(a, i), a[i])
  OBVIOUS
<1>4. y \in Range(Merged(b))
  BY <1>2, <1>3 DEF Range
<1>5. /\ DOMAIN Merged(b) = 1 .. Len(Merged(b))
      /\ \A j \in 1 .. Len(Merged(b)) : \E l, r \in Range(b) : Merged(b)[j] = Pair(l, r)
  BY MergedShape
<1>6. PICK l, r \in Range(b) : y = Pair(l, r)
  BY <1>4, <1>5 DEF Range
<1>7. \E h : y = Pair(x, h) \/ y = Pair(h, x)
  BY <1>1, <1>3 DEF Joined
<1> QED BY <1>6, <1>7 DEF Pair

\* Two trees with the same root have the same leaves, when no leaf is a pair: the root
\* commits to the set (compute_utxo_root).
LEMMA RootCommits ==
  ASSUME NEW s, Level(s), \A x \in Range(s) : \E o : x = Leaf(o),
         NEW t, Level(t), \A x \in Range(t) : \E o : x = Leaf(o),
         Depth(s) <= Depth(t), MerkleRoot(s) = MerkleRoot(t)
  PROVE  Range(s) = Range(t)
<1> DEFINE d == Depth(s)
           e == Depth(t)
           up == Levels(s)
           vp == Levels(t)
<1>1. /\ Len(s) \in Nat /\ d \in 0 .. Len(s) /\ up[0] = s
      /\ \A k \in 1 .. Len(s) : up[k] = Merged(up[k - 1])
      /\ \A k \in 0 .. Len(s) : Level(up[k])
      /\ Len(up[d]) = 1
  BY LevelsShape
<1>2. /\ Len(t) \in Nat /\ e \in 0 .. Len(t) /\ vp[0] = t
      /\ \A k \in 1 .. Len(t) : vp[k] = Merged(vp[k - 1])
      /\ \A k \in 0 .. Len(t) : Level(vp[k])
      /\ Len(vp[e]) = 1
  BY LevelsShape
<1>3. up[d][1] = vp[e][1]
  <2>1. s # << >> /\ t # << >>
    BY DEF Level
  <2> QED BY <2>1 DEF MerkleRoot
<1>4. d <= e
  OBVIOUS
<1> HIDE DEF d, e, up, vp
<1>5. d \in Nat /\ e \in Nat
  BY <1>1, <1>2
<1>6. ASSUME NEW a, Level(a), Len(a) = 1 PROVE Range(a) = {a[1]}
  BY <1>6, EvenedShape DEF Range
<1> DEFINE T == {k \in Nat : k <= d => Range(up[d - k]) = Range(vp[e - k])}
<1>7. 0 \in T
  <2>1. Level(up[d]) /\ Level(vp[e])
    BY <1>1, <1>2
  <2>2. Range(up[d]) = Range(vp[e])
    BY <1>1, <1>2, <1>3, <1>6, <2>1
  <2>3. d - 0 = d /\ e - 0 = e
    BY <1>5
  <2> QED BY <2>2, <2>3
<1>8. ASSUME NEW k \in Nat, k \in T PROVE k + 1 \in T
  <2> SUFFICES ASSUME k + 1 <= d PROVE Range(up[d - (k + 1)]) = Range(vp[e - (k + 1)])
    OBVIOUS
  <2>1. /\ k <= d /\ d - k \in 1 .. Len(s) /\ (d - k) - 1 = d - (k + 1)
        /\ e - k \in 1 .. Len(t) /\ (e - k) - 1 = e - (k + 1)
        /\ d - (k + 1) \in 0 .. Len(s) /\ e - (k + 1) \in 0 .. Len(t)
    BY <1>1, <1>2, <1>4, <1>5
  <2>2. PICK a, b : a = up[d - (k + 1)] /\ b = vp[e - (k + 1)]
    OBVIOUS
  <2>3. Level(a) /\ Level(b)
    BY <1>1, <1>2, <2>1, <2>2
  <2>4. up[d - k] = Merged(a) /\ vp[e - k] = Merged(b)
    BY <1>1, <1>2, <2>1, <2>2
  <2>5. Range(Merged(a)) = Range(Merged(b))
    BY <1>8, <2>1, <2>4
  <2>6. Range(a) \subseteq Range(b)
    BY <2>3, <2>5, BelowFixed
  <2>7. Range(b) \subseteq Range(a)
    BY <2>3, <2>5, BelowFixed
  <2> QED BY <2>2, <2>6, <2>7
<1>9. Nat \subseteq T
  <2> HIDE DEF T
  <2> QED BY <1>7, <1>8, OneByOne
<1>10. Range(up[d - d]) = Range(vp[e - d])
  BY <1>5, <1>9
<1>11. Range(s) = Range(vp[e - d])
  <2>1. d - d = 0
    BY <1>5
  <2> QED BY <1>1, <1>10, <2>1
<1>12. CASE d = e
  <2>1. e - d = 0
    BY <1>5, <1>12
  <2> QED BY <1>2, <1>11, <2>1
<1>13. CASE d # e
  <2>1. e - d \in 1 .. Len(t) /\ (e - d) - 1 \in 0 .. Len(t)
    BY <1>1, <1>2, <1>4, <1>5, <1>13
  <2>2. PICK b : b = vp[(e - d) - 1]
    OBVIOUS
  <2>3. Level(b) /\ vp[e - d] = Merged(b)
    BY <1>2, <2>1, <2>2
  <2>4. /\ Level(Merged(b)) /\ DOMAIN Merged(b) = 1 .. Len(Merged(b))
        /\ \A j \in 1 .. Len(Merged(b)) : \E l, r \in Range(b) : Merged(b)[j] = Pair(l, r)
    BY <2>3, MergedShape
  <2>5. 1 \in 1 .. Len(Merged(b))
    BY <2>4, EvenedShape DEF Level
  <2>6. Merged(b)[1] \in Range(s) /\ \E l, r : Merged(b)[1] = Pair(l, r)
    BY <1>11, <2>3, <2>4, <2>5 DEF Range
  <2>7. \E o : Merged(b)[1] = Leaf(o)
    BY <2>6
  <2> QED BY <2>6, <2>7 DEF Leaf, Pair
<1> QED BY <1>12, <1>13

-----------------------------------------------------------------------------
(***************************************************************************)
(* The UTXO sets a statement is about.                                     *)
(***************************************************************************)

\* The UTXO set of every block is a finite set of outpoints.
LEMMA LedgerFinite == \A b \in Block : LedgerAt[b] \in SUBSET OutPoint /\ IsFiniteSet(LedgerAt[b])
<1>1. ASSUME NEW b \in Block PROVE IsFiniteSet(Creates(b))
  <2> DEFINE D == DOMAIN Body[b]
             f == [i \in D |-> Made(Body[b][i])]
             R == {Made(Body[b][i]) : i \in D}
  <2>1. Body[b] \in Seq(Tx) /\ D = 1 .. Len(Body[b]) /\ Len(Body[b]) \in Nat
    BY TransactionAssumption
  <2>2. IsFiniteSet(D)
    <3>1. PICK n : n = Len(Body[b])
      OBVIOUS
    <3>2. D = 1 .. n /\ 1 \in Int /\ n \in Int
      BY <2>1, <3>1
    <3> HIDE DEF D
    <3> QED BY <3>2, FS_Interval
  <2>3. f \in Surjection(D, R)
    BY DEF Surjection
  <2>4. IsFiniteSet(R)
    <3> HIDE DEF f, R, D
    <3> QED BY <2>2, <2>3, FS_Surjection
  <2>5. ASSUME NEW i \in D PROVE IsFiniteSet(Made(Body[b][i]))
    <3>1. IsFiniteSet(Outs[Body[b][i]])
      BY <2>1, ValueAssumption
    <3>2. Made(Body[b][i]) \subseteq Outs[Body[b][i]]
      BY DEF Made
    <3> QED BY <3>1, <3>2, FS_Subset
  <2>6. IsFiniteSet(UNION R)
    <3>1. \A x \in R : IsFiniteSet(x)
      BY <2>5
    <3> HIDE DEF R
    <3> QED BY <2>4, <3>1, FS_UNION
  <2> QED BY <2>6 DEF Creates
<1>2. ASSUME NEW b \in Block, NEW U \in SUBSET OutPoint, IsFiniteSet(U)
      PROVE  Apply(b, U) \in SUBSET OutPoint /\ IsFiniteSet(Apply(b, U))
  <2>1. IsFiniteSet(U \cup Creates(b))
    BY <1>1, <1>2, FS_Union
  <2>2. Apply(b, U) \subseteq U \cup Creates(b)
    BY DEF Apply
  <2>3. IsFiniteSet(Apply(b, U))
    BY <2>1, <2>2, FS_Subset
  <2> QED BY <2>3, ApplyType
<1> DEFINE Good(b) == LedgerAt[b] \in SUBSET OutPoint /\ IsFiniteSet(LedgerAt[b])
           T == {n \in Nat : \A b \in Block : Height[b] = n => Good(b)}
<1>3. ASSUME NEW n \in Nat, \A m \in Nat : m < n => m \in T PROVE n \in T
  <2> SUFFICES ASSUME NEW b \in Block, Height[b] = n PROVE Good(b)
    OBVIOUS
  <2>1. CASE b = Genesis
    <3>1. {} \in SUBSET OutPoint /\ IsFiniteSet({})
      BY FS_EmptySet
    <3>2. LedgerAt[b] = Apply(b, {})
      BY <2>1, RecursionAssumption
    <3> QED BY <1>2, <3>1, <3>2
  <2>2. CASE b # Genesis
    <3>1. Parent[b] \in Block /\ Height[b] = Height[Parent[b]] + 1 /\ LedgerAt[b] = Apply(b, LedgerAt[Parent[b]])
      BY <2>2, Unfold
    <3>2. Height[Parent[b]] \in Nat /\ Height[Parent[b]] < n
      BY <3>1, RecursionAssumption
    <3>3. Good(Parent[b])
      BY <1>3, <3>1, <3>2
    <3> QED BY <1>2, <3>1, <3>3
  <2> QED BY <2>1, <2>2
<1>4. Nat \subseteq T
  <2> HIDE DEF T
  <2> QED BY <1>3, SmallerFirst
<1> QED BY <1>4, RecursionAssumption

\* The leaves of a UTXO set are those of its outpoints, in order.
LEMMA LeavesShape ==
  ASSUME NEW S \in SUBSET OutPoint, IsFiniteSet(S)
  PROVE  /\ Cardinality(S) \in Nat
         /\ Len(Leaves(S)) = Cardinality(S)
         /\ S # {} => Level(Leaves(S))
         /\ \A i \in 1 .. Cardinality(S) : Leaves(S)[i] = Leaf(Sorted(S)[i]) /\ Sorted(S)[i] \in S
         /\ \A o \in S : \E i \in 1 .. Cardinality(S) : Sorted(S)[i] = o
         /\ Range(Leaves(S)) = {Leaf(o) : o \in S}
<1> DEFINE n == Cardinality(S)
           s == Sorted(S)
<1>1. n \in Nat /\ (n = 0 <=> S = {})
  BY FS_CardinalityType, FS_EmptySet
<1>2. \A x \in S : OrderOf[x] \in Int /\ OrderOf[x] >= 0 - 1
  <2>1. \A x \in S : OrderOf[x] \in Nat
    BY BookAssumption
  <2> QED BY <2>1
<1>3. s \in Seq(S) /\ Len(s) = n /\ Range(s) = S
  BY <1>2, InOrderLists DEF Sorted
<1>4. Leaves(S) = [i \in 1 .. n |-> Leaf(s[i])]
  BY DEF Leaves
<1> HIDE DEF n, s
<1>5. DOMAIN s = 1 .. n /\ \A i \in 1 .. n : s[i] \in S
  BY <1>3
<1>6. \A o \in S : \E i \in 1 .. n : s[i] = o
  BY <1>3, <1>5 DEF Range
<1> DEFINE L == {Leaf(o) : o \in S}
<1>7. Leaves(S) \in [1 .. n -> L]
  BY <1>4, <1>5
<1>8. Leaves(S) \in Seq(L) /\ Len(Leaves(S)) = n /\ DOMAIN Leaves(S) = 1 .. n
  <2> HIDE DEF L
  <2> QED BY <1>1, <1>7
<1>9. S # {} => Level(Leaves(S))
  <2> HIDE DEF L
  <2> QED BY <1>1, <1>8 DEF Level
<1>10. Range(Leaves(S)) = L
  <2>1. Range(Leaves(S)) = {Leaves(S)[i] : i \in 1 .. n}
    BY <1>8 DEF Range
  <2>2. \A i \in 1 .. n : Leaves(S)[i] = Leaf(s[i])
    BY <1>4
  <2> QED BY <1>5, <1>6, <2>1, <2>2
<1> QED BY <1>1, <1>4, <1>5, <1>6, <1>8, <1>9, <1>10 DEF n, s

\* The root in a header fixes the UTXO set (compute_utxo_root).
LEMMA RootFixesSet ==
  ASSUME NEW S \in SUBSET OutPoint, IsFiniteSet(S), S # {},
         NEW T \in SUBSET OutPoint, IsFiniteSet(T),
         MerkleRoot(Leaves(S)) = MerkleRoot(Leaves(T))
  PROVE  S = T
<1> DEFINE s == Leaves(S)
           t == Leaves(T)
<1>1. Level(s) /\ Range(s) = {Leaf(o) : o \in S}
  BY LeavesShape
<1>2. Len(t) = Cardinality(T) /\ (T # {} => Level(t)) /\ Range(t) = {Leaf(o) : o \in T}
  BY LeavesShape
<1>3. MerkleRoot(s) = MerkleRoot(t)
  OBVIOUS
<1> HIDE DEF s, t
<1>4. \A x \in Range(s) : \E o : x = Leaf(o)
  BY <1>1
<1>5. \A x \in Range(t) : \E o : x = Leaf(o)
  BY <1>2
<1>6. CASE T = {}
  <2>1. MerkleRoot(t) = <<"zero">>
    <3>1. Cardinality(T) = 0
      BY <1>6, FS_EmptySet
    <3>2. t = << >>
      BY <3>1 DEF t, Leaves
    <3> QED BY <3>2 DEF MerkleRoot
  <2> DEFINE d == Depth(s)
             x == Levels(s)[d][1]
  <2>2. /\ Len(s) \in Nat /\ d \in 0 .. Len(s) /\ Levels(s)[0] = s
        /\ \A k \in 1 .. Len(s) : Levels(s)[k] = Merged(Levels(s)[k - 1])
        /\ \A k \in 0 .. Len(s) : Level(Levels(s)[k])
        /\ Len(Levels(s)[d]) = 1
    BY <1>1, LevelsShape
  <2>3. MerkleRoot(s) = x
    BY <1>1 DEF MerkleRoot, Level
  <2> HIDE DEF d
  <2>4. CASE d = 0
    <3>1. x = s[1] /\ Len(s) = 1
      BY <2>2, <2>4
    <3>2. s[1] \in Range(s)
      BY <1>1, <3>1, EvenedShape DEF Range
    <3>3. PICK o : x = Leaf(o)
      BY <1>4, <3>1, <3>2
    <3> QED BY <1>3, <2>1, <2>3, <3>3 DEF Leaf
  <2>5. CASE d # 0
    <3>1. d \in 1 .. Len(s) /\ d - 1 \in 0 .. Len(s)
      BY <2>2, <2>5
    <3>2. PICK b : b = Levels(s)[d - 1]
      OBVIOUS
    <3>3. Level(b) /\ Levels(s)[d] = Merged(b)
      BY <2>2, <3>1, <3>2
    <3>4. Len(Merged(b)) = 1
      BY <2>2, <3>3
    <3>5. \E l, r : Merged(b)[1] = Pair(l, r)
      <4>1. \A j \in 1 .. Len(Merged(b)) : \E l, r \in Range(b) : Merged(b)[j] = Pair(l, r)
        BY <3>3, MergedShape
      <4>2. 1 \in 1 .. Len(Merged(b))
        BY <3>4
      <4> QED BY <4>1, <4>2
    <3>6. PICK l, r : x = Pair(l, r)
      BY <3>3, <3>5
    <3> QED BY <1>3, <2>1, <2>3, <3>6 DEF Pair
  <2> QED BY <2>4, <2>5
<1>7. CASE T # {}
  <2>1. Level(t)
    BY <1>2, <1>7
  <2>2. Depth(s) \in Int /\ Depth(t) \in Int
    <3>1. Depth(s) \in 0 .. Len(s) /\ Depth(t) \in 0 .. Len(t)
      BY <1>1, <2>1, LevelsShape
    <3> QED BY <3>1
  <2>3. Depth(s) <= Depth(t) \/ Depth(t) <= Depth(s)
    BY <2>2
  <2>4. Range(s) = Range(t)
    <3>1. CASE Depth(s) <= Depth(t)
      BY <1>1, <1>3, <1>4, <1>5, <2>1, <3>1, RootCommits
    <3>2. CASE Depth(t) <= Depth(s)
      BY <1>1, <1>3, <1>4, <1>5, <2>1, <3>2, RootCommits
    <3> QED BY <2>3, <3>1, <3>2
  <2>5. \A o : o \in S <=> Leaf(o) \in Range(s)
    BY <1>1 DEF Leaf
  <2>6. \A o : o \in T <=> Leaf(o) \in Range(t)
    BY <1>2 DEF Leaf
  <2> QED BY <2>4, <2>5, <2>6
<1> QED BY <1>6, <1>7

\* A proof of a coin verifies against the root of the set it was made from and no other.
LEMMA ProofOfCoin ==
  ASSUME NEW S \in SUBSET OutPoint, IsFiniteSet(S), NEW o \in S, NEW root
  PROVE  ProofVerifies(MerkleProof(S, o), root) <=> root = MerkleRoot(Leaves(S))
<1> DEFINE p == MerkleProof(S, o)
           i == CHOOSE j \in 1 .. Cardinality(S) : Sorted(S)[j] = o
           s == Leaves(S)
<1>1. /\ Len(s) = Cardinality(S) /\ Level(s)
      /\ \A j \in 1 .. Cardinality(S) : s[j] = Leaf(Sorted(S)[j])
      /\ \E j \in 1 .. Cardinality(S) : Sorted(S)[j] = o
  BY LeavesShape
<1>2. i \in 1 .. Cardinality(S) /\ Sorted(S)[i] = o
  BY <1>1
<1>3. p.op = o /\ p.path = AuditPath(s, i)
  BY DEF MerkleProof
<1> HIDE DEF p, i, s
<1>4. i \in 1 .. Len(s) /\ s[i] = Leaf(o)
  BY <1>1, <1>2
<1>5. ProofVerifies(p, root) <=> root = MerkleRoot(s)
  BY <1>1, <1>3, <1>4, PathLeadsToRoot
<1> QED BY <1>5 DEF p, s

\* A sum over the image of a set under a one-to-one map.
LEMMA TotalImage ==
  ASSUME NEW N, IsFiniteSet(N), NEW g, NEW h, NEW k,
         \A x, y \in N : g[x] = g[y] => x = y,
         \A x \in N : h[g[x]] = k[x] /\ k[x] \in Int
  PROVE  Total(h, {g[x] : x \in N}) = Total(k, N)
<1> DEFINE Image(A) == {g[x] : x \in A}
           P(A) == IsFiniteSet(Image(A)) /\ Total(h, Image(A)) = Total(k, A)
           T == {n \in Nat : \A A \in SUBSET N : Cardinality(A) = n => P(A)}
<1>1. 0 \in T
  <2> SUFFICES ASSUME NEW A \in SUBSET N, Cardinality(A) = 0 PROVE P(A)
    OBVIOUS
  <2>1. A = {}
    BY FS_Subset, FS_EmptySet
  <2>2. Image(A) = {}
    BY <2>1
  <2>3. IsFiniteSet({}) /\ Total(h, {}) = 0 /\ Total(k, {}) = 0
    BY FS_EmptySet, TotalUnfold
  <2> HIDE DEF Image
  <2> QED BY <2>1, <2>2, <2>3
<1>2. ASSUME NEW n \in Nat, n \in T PROVE n + 1 \in T
  <2> SUFFICES ASSUME NEW A \in SUBSET N, Cardinality(A) = n + 1 PROVE P(A)
    <3> HIDE DEF P
    <3> QED OBVIOUS
  <2>1. IsFiniteSet(A)
    BY FS_Subset
  <2>2. A # {}
    BY FS_EmptySet
  <2>3. PICK x \in A : TRUE
    BY <2>2
  <2> DEFINE B == A \ {x}
  <2>4. B \in SUBSET N /\ IsFiniteSet(B) /\ Cardinality(B) = n /\ A = B \cup {x} /\ x \notin B
    <3>1. B \in SUBSET N /\ A = B \cup {x} /\ x \notin B
      BY <2>3
    <3>2. IsFiniteSet(B) /\ Cardinality(B) = Cardinality(A) - 1
      BY <2>1, <2>3, FS_RemoveElement
    <3>3. Cardinality(B) = n
      BY <3>2
    <3> QED BY <3>1, <3>2, <3>3
  <2>5. P(B)
    BY <1>2, <2>4
  <2>6. Image(A) = Image(B) \cup {g[x]}
    BY <2>4
  <2>7. g[x] \notin Image(B)
    BY <2>3, <2>4
  <2>8. \A y \in Image(B) : h[y] \in Int
    BY <2>4
  <2>9. \A y \in B : k[y] \in Int
    BY <2>4
  <2>10. h[g[x]] = k[x] /\ k[x] \in Int
    BY <2>3
  <2> HIDE DEF Image, B
  <2>11. Total(h, Image(B) \cup {g[x]}) = Total(h, Image(B)) + h[g[x]]
    BY <2>5, <2>7, <2>8, <2>10, TotalAdd
  <2>12. Total(k, B \cup {x}) = Total(k, B) + k[x]
    BY <2>4, <2>9, <2>10, TotalAdd
  <2>13. IsFiniteSet(Image(B) \cup {g[x]})
    BY <2>5, FS_AddElement
  <2> QED BY <2>4, <2>5, <2>6, <2>10, <2>11, <2>12, <2>13
<1>3. Nat \subseteq T
  <2> HIDE DEF T
  <2> QED BY <1>1, <1>2, OneByOne
<1>4. Cardinality(N) \in Nat
  BY FS_CardinalityType
<1>5. P(N)
  <2> HIDE DEF P
  <2> QED BY <1>3, <1>4
<1> QED BY <1>5

\* What the proofs of a statement add up to is what its outputs are worth
\* (verify_integrity).
LEMMA ProofsWorth ==
  ASSUME NEW S, NEW N \in SUBSET OutPoint, IsFiniteSet(N)
  PROVE  MapThenSumSet(LAMBDA p : p.value, {MerkleProof(S, o) : o \in N}) = Quanta(N)
<1> DEFINE g == [o \in N |-> MerkleProof(S, o)]
           P == {MerkleProof(S, o) : o \in N}
           h == [p \in P |-> p.value]
<1>1. MapThenSumSet(LAMBDA p : p.value, P) = Total(h, P)
  BY DEF Total, MapThenSumSet, MapThenFoldSet
<1>2. P = {g[x] : x \in N}
  OBVIOUS
<1>3. \A x \in N : g[x].op = x /\ g[x].value = Value[x] /\ g[x] \in P
  BY DEF MerkleProof
<1>4. \A x, y \in N : g[x] = g[y] => x = y
  <2> HIDE DEF g
  <2> QED BY <1>3
<1>5. \A x \in N : h[g[x]] = Value[x] /\ Value[x] \in Int
  <2>1. \A x \in N : Value[x] \in Int
    BY ValueAssumption
  <2> HIDE DEF g, P
  <2> QED BY <1>3, <2>1
<1>6. Total(h, {g[x] : x \in N}) = Total(Value, N)
  <2> HIDE DEF g, h
  <2> QED BY <1>4, <1>5, TotalImage
<1>7. Quanta(N) = Total(Value, N)
  BY DEF Quanta, Total
<1> QED BY <1>1, <1>2, <1>6, <1>7

-----------------------------------------------------------------------------
(***************************************************************************)
(* Statements.  Their block is a canonical one, so that its root is that   *)
(* of its UTXO set; their proofs are made from some UTXO set.  When one    *)
(* proof verifies the two sets are one, and then all of them do.           *)
(***************************************************************************)

ProofsFrom(S) == {MerkleProof(S, o) : o \in NativeOwned(S)}

\* The reads that are still to come once a value was read
AfterView  == {"tall", "pool", "index", "txs", "done"}
AfterSet   == {"view"} \cup AfterView
AfterBlock == {"set"} \cup AfterSet
AfterTip   == {"block"} \cup AfterBlock

BookFields == DOMAIN NewStatement

StatementIInv ==
  /\ disk \in SoundTip /\ memory \in SoundTip
  /\ DOMAIN reader = BookFields
  /\ reader.pc \in AfterTip => reader.block \in SoundTip
  /\ reader.pc \in AfterBlock => reader.root = MerkleRoot(Leaves(UtxoRoot[reader.block]))
  /\ reader.pc \in AfterSet => \E m \in Block : reader.proofs = ProofsFrom(LedgerAt[m])

\* A canonical block commits to the UTXO set it leaves.
LEMMA TipRoot == ASSUME NEW b \in SoundTip PROVE b \in Block /\ UtxoRoot[b] = LedgerAt[b]
<1>1. b \in Block /\ b \in Path[b]
  BY EveryLadder DEF SoundTip, Ladder
<1>2. Sound(b)
  BY <1>1 DEF SoundTip
<1>3. CASE b = Genesis
  BY <1>1, <1>3, BookAssumption
<1>4. CASE b # Genesis
  BY <1>1, <1>2, <1>4, Unfold DEF Sound, Connectable, RootMatches
<1> QED BY <1>3, <1>4

\* Block 0 is a tip.
LEMMA GenesisTip == Genesis \in SoundTip
BY TreeAssumption, RecursionAssumption DEF SoundTip, Sound

\* StatementIInv holds at first, and every step keeps it.
LEMMA StatementStep == StatementIInv /\ [BookNext]_bookVars => StatementIInv'
<1> SUFFICES ASSUME StatementIInv, [BookNext]_bookVars PROVE StatementIInv'
  OBVIOUS
<1> USE DEF AfterTip, AfterBlock, AfterSet, AfterView
<1>1. /\ disk \in SoundTip /\ memory \in SoundTip /\ DOMAIN reader = BookFields
      /\ reader.pc \in AfterTip => reader.block \in SoundTip
      /\ reader.pc \in AfterBlock => reader.root = MerkleRoot(Leaves(UtxoRoot[reader.block]))
      /\ reader.pc \in AfterSet => \E m \in Block : reader.proofs = ProofsFrom(LedgerAt[m])
  BY DEF StatementIInv
<1>2. memory \in Block
  BY <1>1, TipRoot
<1>3. ASSUME reader' = reader, disk' \in SoundTip, memory' \in SoundTip PROVE StatementIInv'
  BY <1>1, <1>3 DEF StatementIInv
<1>4. ASSUME reader' = NewStatement, UNCHANGED <<disk, memory>> PROVE StatementIInv'
  BY <1>1, <1>4 DEF StatementIInv, NewStatement, BookFields
<1>5. BookFields = {"pc", "height", "block", "root", "proofs", "seen", "balance", "tokens", "to",
                    "pending", "records", "entries", "delta"}
  BY DEF BookFields, NewStatement
<1>6. CASE UNCHANGED bookVars
  BY <1>1, <1>3, <1>6 DEF bookVars
<1>7. ASSUME NEW t \in Tx, Arrive(t) PROVE StatementIInv'
  BY <1>1, <1>3, <1>7 DEF Arrive
<1>8. ASSUME NEW b \in Block, CommitDisk(b) PROVE StatementIInv'
  BY <1>1, <1>3, <1>8 DEF CommitDisk
<1>9. CASE CommitMemory
  BY <1>1, <1>3, <1>9 DEF CommitMemory
<1>10. CASE ReadHeight
  BY <1>1, <1>10 DEF ReadHeight, Step, StatementIInv, NewStatement, BookFields
<1>11. CASE ReadTip
  <2>1. reader' = [reader EXCEPT !.pc = "block", !.block = memory] /\ UNCHANGED <<disk, memory>>
    BY <1>11 DEF ReadTip, Step
  <2>2. reader'.pc = "block" /\ reader'.block = memory /\ DOMAIN reader' = BookFields
    BY <1>1, <1>5, <2>1
  <2> QED BY <1>1, <2>1, <2>2 DEF StatementIInv
<1>12. CASE ReadBlock
  <2>1. CASE reader.block \notin Path[disk]
    BY <1>4, <1>12, <2>1 DEF ReadBlock, Step
  <2>2. CASE reader.block \in Path[disk]
    <3>1. /\ reader.pc = "block" /\ UNCHANGED <<disk, memory>>
          /\ reader' = [reader EXCEPT !.pc = "set", !.root = MerkleRoot(Leaves(UtxoRoot[reader.block]))]
      BY <1>12, <2>2 DEF ReadBlock, Step
    <3>2. /\ reader'.pc = "set" /\ reader'.block = reader.block /\ DOMAIN reader' = BookFields
          /\ reader'.root = MerkleRoot(Leaves(UtxoRoot[reader.block]))
      BY <1>1, <1>5, <3>1
    <3> QED BY <1>1, <3>1, <3>2 DEF StatementIInv
  <2> QED BY <2>1, <2>2
<1>13. CASE ReadSet
  <2>1. /\ reader.pc = "set" /\ UNCHANGED <<disk, memory>>
        /\ reader' = [reader EXCEPT !.pc = "view", !.proofs = ProofsFrom(LedgerAt[memory])]
    BY <1>13 DEF ReadSet, Step, ProofsFrom
  <2>2. /\ reader'.pc = "view" /\ reader'.block = reader.block /\ DOMAIN reader' = BookFields
        /\ reader'.root = reader.root /\ reader'.proofs = ProofsFrom(LedgerAt[memory])
    BY <1>1, <1>5, <2>1
  <2> QED BY <1>1, <1>2, <2>1, <2>2 DEF StatementIInv
<1>14. ASSUME reader.pc \in AfterSet, UNCHANGED <<disk, memory>>, DOMAIN reader' = BookFields,
              reader'.block = reader.block, reader'.root = reader.root, reader'.proofs = reader.proofs
       PROVE  StatementIInv'
  BY <1>1, <1>14 DEF StatementIInv
<1>15. CASE ViewSet
  <2>1. PICK S, v, w : /\ reader.pc = "view" /\ UNCHANGED <<disk, memory>>
                       /\ reader' = [reader EXCEPT !.pc = "tall", !.seen = S, !.balance = v, !.tokens = w]
    BY <1>15 DEF ViewSet, Step
  <2>2. /\ reader'.block = reader.block /\ DOMAIN reader' = BookFields
        /\ reader'.root = reader.root /\ reader'.proofs = reader.proofs
    BY <1>1, <1>5, <2>1
  <2> QED BY <1>14, <2>1, <2>2
<1>16. CASE ViewHeight
  <2>1. PICK v : /\ reader.pc = "tall" /\ UNCHANGED <<disk, memory>>
                 /\ reader' = [reader EXCEPT !.pc = "pool", !.to = v]
    BY <1>16 DEF ViewHeight, Step
  <2>2. /\ reader'.block = reader.block /\ DOMAIN reader' = BookFields
        /\ reader'.root = reader.root /\ reader'.proofs = reader.proofs
    BY <1>1, <1>5, <2>1
  <2> QED BY <1>14, <2>1, <2>2
<1>17. CASE ViewPool
  <2>1. PICK v : /\ reader.pc = "pool" /\ UNCHANGED <<disk, memory>>
                 /\ reader' = [reader EXCEPT !.pc = "index", !.pending = v]
    BY <1>17 DEF ViewPool, Step
  <2>2. /\ reader'.block = reader.block /\ DOMAIN reader' = BookFields
        /\ reader'.root = reader.root /\ reader'.proofs = reader.proofs
    BY <1>1, <1>5, <2>1
  <2> QED BY <1>14, <2>1, <2>2
<1>18. CASE ViewIndex
  <2>1. PICK v : /\ reader.pc = "index" /\ UNCHANGED <<disk, memory>>
                 /\ reader' = [reader EXCEPT !.pc = "txs", !.records = v]
    BY <1>18 DEF ViewIndex, Step
  <2>2. /\ reader'.block = reader.block /\ DOMAIN reader' = BookFields
        /\ reader'.root = reader.root /\ reader'.proofs = reader.proofs
    BY <1>1, <1>5, <2>1
  <2> QED BY <1>14, <2>1, <2>2
<1>19. CASE ViewEntries
  <2>1. PICK v, w : /\ reader.pc = "txs" /\ UNCHANGED <<disk, memory>>
                    /\ reader' = [reader EXCEPT !.pc = "done", !.entries = v, !.delta = w]
    BY <1>19 DEF ViewEntries, Step
  <2>2. /\ reader'.block = reader.block /\ DOMAIN reader' = BookFields
        /\ reader'.root = reader.root /\ reader'.proofs = reader.proofs
    BY <1>1, <1>5, <2>1
  <2> QED BY <1>14, <2>1, <2>2
<1>20. CASE Deliver
  BY <1>4, <1>20 DEF Deliver, Step
<1>21. ASSUME NEW new, Trace(new) PROVE StatementIInv'
  BY <1>1, <1>3, <1>21 DEF Trace
<1>22. CASE \E t \in Tx : TraceFrom(t)
  BY <1>21, <1>22 DEF TraceFrom
<1>23. CASE TraceLookup \/ TraceStep \/ TraceNext \/ TraceDone
  BY <1>21, <1>23 DEF TraceLookup, TraceStep, TraceNext, TraceDone
<1> QED BY <1>6, <1>7, <1>8, <1>9, <1>10, <1>11, <1>12, <1>13, <1>15, <1>16, <1>17, <1>18, <1>19,
           <1>20, <1>22, <1>23 DEF BookNext

\* A statement that verifies has the balance of its block.
LEMMA VerifiedBinds == StatementIInv => StatementBinds
<1> SUFFICES ASSUME StatementIInv, reader.pc = "done", reader.proofs # {}, VerifyIntegrity(reader)
             PROVE  reader.balance = SumNativeOwned(LedgerAt[reader.block])
  BY DEF StatementBinds
<1>1. PICK m \in Block : reader.proofs = ProofsFrom(LedgerAt[m])
  BY DEF StatementIInv, AfterSet, AfterView
<1>2. PICK S : S = LedgerAt[m]
  OBVIOUS
<1>3. PICK N : N = NativeOwned(S)
  OBVIOUS
<1>4. S \in SUBSET OutPoint /\ IsFiniteSet(S)
  BY <1>2, LedgerFinite
<1>5. N \subseteq S
  BY <1>3 DEF NativeOwned, OwnedIn
<1>6. N \in SUBSET OutPoint /\ IsFiniteSet(N)
  BY <1>4, <1>5, FS_Subset
<1>7. reader.proofs = {MerkleProof(S, o) : o \in N}
  BY <1>1, <1>2, <1>3 DEF ProofsFrom
<1>8. reader.block \in SoundTip /\ reader.root = MerkleRoot(Leaves(UtxoRoot[reader.block]))
  BY DEF StatementIInv, AfterTip, AfterBlock, AfterSet, AfterView
<1>9. PICK T : T = LedgerAt[reader.block]
  OBVIOUS
<1>10. reader.block \in Block /\ reader.root = MerkleRoot(Leaves(T))
  BY <1>8, <1>9, TipRoot
<1>11. T \in SUBSET OutPoint /\ IsFiniteSet(T)
  BY <1>9, <1>10, LedgerFinite
<1>12. PICK o \in N : MerkleProof(S, o) \in reader.proofs
  BY <1>7
<1>13. ProofVerifies(MerkleProof(S, o), reader.root)
  BY <1>12 DEF VerifyIntegrity
<1>14. reader.root = MerkleRoot(Leaves(S))
  BY <1>4, <1>5, <1>13, ProofOfCoin
<1>15. S = T
  <2>1. S # {}
    BY <1>5, <1>12
  <2> QED BY <1>4, <1>10, <1>11, <1>14, <2>1, RootFixesSet
<1>16. MapThenSumSet(LAMBDA p : p.value, reader.proofs) = reader.balance
  BY DEF VerifyIntegrity
<1>17. MapThenSumSet(LAMBDA p : p.value, {MerkleProof(S, x) : x \in N}) = Quanta(N)
  BY <1>6, ProofsWorth
<1>18. reader.balance = Quanta(N)
  BY <1>7, <1>16, <1>17
<1> QED BY <1>3, <1>9, <1>15, <1>18 DEF SumNativeOwned

\* A statement that verifies and proves an output states the account's balance at the
\* block it names, for every chain and however commits fall between its reads
\* (generate_statement and verify_integrity of passbook.rs).
THEOREM StatementAlwaysBinds == BookSpec => []StatementBinds
<1>1. BookInit => StatementIInv
  BY GenesisTip DEF BookInit, StatementIInv, NewStatement, BookFields, AfterTip, AfterBlock, AfterSet, AfterView
<1> QED BY <1>1, StatementStep, VerifiedBinds, PTL DEF BookSpec

-----------------------------------------------------------------------------
(***************************************************************************)
(* Lineages.  While no reorganization comes, a transaction that was found  *)
(* is still found; its first input was made on the same path.              *)
(***************************************************************************)

Hop == [tx : Tx, category : {"genesis", "coinbase", "transfer"}]

LineageIInv ==
  /\ disk \in SoundTip
  /\ trace.pc \in {"idle", "lookup", "height", "next", "done"}
  /\ trace.pc \in {"lookup", "height", "next"} =>
       trace \in [pc : {"lookup", "height", "next"}, cur : Tx, steps : Seq(Hop)]
  /\ "trace" \in calm =>
       /\ trace.pc = "height" => trace.cur \in Stored(disk)
       /\ trace.pc = "next" => FirstInput[trace.cur][1] \in Stored(disk)
       /\ trace.pc \in {"lookup", "height", "next", "done"} =>
            \A s \in Range(trace.steps) : s.category = "genesis" => s.tx \in Range(Body[Genesis])
       /\ trace.pc = "done" => Last(trace.steps).category # "transfer"

\* A transaction on a sound path that is no issuance has a first input, which a transaction
\* on the path created.
LEMMA InputStored ==
  ASSUME NEW d \in SoundTip, NEW b \in Path[d], b # Genesis, NEW t \in Range(Body[b]), ~ IsCoinbase(t)
  PROVE  t \in Tx /\ Ins[t] # {} /\ FirstInput[t][1] \in Stored(d) /\ FirstInput[t][1] \in Tx
<1>1. d \in Block /\ Sound(b)
  BY DEF SoundTip
<1>2. Path[d] \subseteq Block /\ Path[b] \subseteq Path[d]
  BY <1>1, EveryLadder DEF Ladder
<1>3. b \in Block
  BY <1>2
<1>4. Body[b] \in Seq(Tx) /\ DOMAIN Body[b] = 1 .. Len(Body[b]) /\ Len(Body[b]) \in Nat
  BY <1>3, TransactionAssumption
<1>5. PICK i \in DOMAIN Body[b] : t = Body[b][i]
  BY DEF Range
<1>6. t \in Tx
  BY <1>4, <1>5
<1>7. i # 1
  BY <1>3, <1>5 DEF IsCoinbase
<1>8. i \in 2 .. Len(Body[b])
  BY <1>4, <1>7
<1>9. Ins[t] # {}
  BY <1>1, <1>5, <1>8 DEF Sound, Connectable, Authoritative, Applies, Conserves, Stateless
<1>10. PICK o \in Ins[t] : o = FirstInput[t]
  BY <1>6, <1>9, BookAssumption
<1>11. o \in Spends(b)
  BY <1>5, <1>10 DEF Spends
<1>12. PICK c \in Path[b] : \E j \in DOMAIN Body[c] : o \in Made(Body[c][j])
  BY <1>1, <1>3, <1>11, SpentMade
<1>13. PICK j \in DOMAIN Body[c] : o \in Made(Body[c][j])
  BY <1>12
<1>14. c \in Block /\ c \in Path[d]
  BY <1>2, <1>12
<1>15. Body[c][j] \in Tx
  BY <1>13, <1>14, TransactionAssumption
<1>16. o[1] = Body[c][j]
  BY <1>13, <1>15, BookAssumption DEF Made
<1>17. o[1] \in Stored(d)
  BY <1>13, <1>14, <1>16 DEF Stored, Range
<1> QED BY <1>6, <1>9, <1>10, <1>15, <1>16, <1>17

\* On an extension of the chain everything is found that was found before.
LEMMA StoredGrows ==
  ASSUME NEW b \in Block, NEW d \in Path[b]
  PROVE  Path[d] \subseteq Path[b] /\ Stored(d) \subseteq Stored(b)
<1>1. Path[d] \subseteq Path[b]
  BY EveryLadder DEF Ladder
<1> QED BY <1>1 DEF Stored

\* LineageIInv holds at first, and every step keeps it.
LEMMA LineageStep == LineageIInv /\ [BookNext]_bookVars => LineageIInv'
<1> SUFFICES ASSUME LineageIInv, [BookNext]_bookVars PROVE LineageIInv'
  OBVIOUS
<1>1. disk \in SoundTip /\ disk \in Block
  BY DEF LineageIInv, SoundTip
<1>2. ASSUME UNCHANGED <<disk, trace>>, calm' = calm \/ calm' = calm \cup {"view"} PROVE LineageIInv'
  BY <1>2 DEF LineageIInv
<1>3. CASE UNCHANGED bookVars
  BY <1>2, <1>3 DEF bookVars
<1>4. ASSUME NEW t \in Tx, Arrive(t) PROVE LineageIInv'
  BY <1>2, <1>4 DEF Arrive
<1>5. ASSUME NEW b \in Block, CommitDisk(b) PROVE LineageIInv'
  <2>1. disk' = b /\ b \in SoundTip /\ UNCHANGED trace /\ calm' = IF disk \in Path[b] THEN calm ELSE {}
    BY <1>5 DEF CommitDisk
  <2>2. CASE disk \in Path[b]
    <3>1. Stored(disk) \subseteq Stored(b)
      BY <2>2, StoredGrows
    <3> QED BY <2>1, <2>2, <3>1 DEF LineageIInv
  <2>3. CASE disk \notin Path[b]
    BY <2>1, <2>3 DEF LineageIInv
  <2> QED BY <2>2, <2>3
<1>6. CASE CommitMemory
  BY <1>2, <1>6 DEF CommitMemory
<1>7. ASSUME NEW from, NEW new, Step(from, new) PROVE LineageIInv'
  BY <1>2, <1>7 DEF Step
<1>8. CASE ReadHeight \/ ReadTip \/ ReadBlock \/ ReadSet
  BY <1>7, <1>8 DEF ReadHeight, ReadTip, ReadBlock, ReadSet
<1>9. CASE ViewSet \/ ViewHeight \/ ViewPool \/ ViewIndex \/ ViewEntries \/ Deliver
  BY <1>7, <1>9 DEF ViewSet, ViewHeight, ViewPool, ViewIndex, ViewEntries, Deliver
<1>10. ASSUME NEW t \in Tx, TraceFrom(t) PROVE LineageIInv'
  <2>1. trace' = [pc |-> "lookup", cur |-> t, steps |-> << >>] /\ UNCHANGED disk
    BY <1>10 DEF TraceFrom, Trace
  <2>2. Range(<< >>) = {}
    BY DEF Range
  <2> QED BY <1>1, <2>1, <2>2 DEF LineageIInv
<1>11. CASE TraceLookup
  <2>1. trace.pc = "lookup" /\ UNCHANGED <<disk, calm>>
    BY <1>11 DEF TraceLookup, Trace
  <2>2. trace \in [pc : {"lookup", "height", "next"}, cur : Tx, steps : Seq(Hop)]
    BY <2>1 DEF LineageIInv
  <2>3. CASE trace.cur \in Stored(disk)
    <3>1. trace' = [trace EXCEPT !.pc = "height"]
      BY <1>11, <2>3 DEF TraceLookup, Trace
    <3>2. /\ trace' \in [pc : {"lookup", "height", "next"}, cur : Tx, steps : Seq(Hop)]
          /\ trace'.pc = "height" /\ trace'.cur = trace.cur /\ trace'.steps = trace.steps
      BY <2>2, <3>1
    <3> QED BY <2>1, <2>3, <3>2 DEF LineageIInv
  <2>4. CASE trace.cur \notin Stored(disk)
    <3>1. trace' = [pc |-> "idle"]
      BY <1>11, <2>4 DEF TraceLookup, Trace
    <3> QED BY <1>1, <2>1, <3>1 DEF LineageIInv
  <2> QED BY <2>3, <2>4
<1>12. CASE TraceStep
  <2>1. trace.pc = "height" /\ UNCHANGED <<disk, calm>>
    BY <1>12 DEF TraceStep, Trace
  <2>2. trace \in [pc : {"lookup", "height", "next"}, cur : Tx, steps : Seq(Hop)]
    BY <2>1 DEF LineageIInv
  <2> DEFINE t == trace.cur
             h == HeightOf(t, disk)
             category == IF h = 0 THEN "genesis" ELSE IF IsIssuance(t, h) THEN "coinbase" ELSE "transfer"
             hop == [tx |-> t, category |-> category]
             steps == Append(trace.steps, hop)
             goesOn == ~ IsIssuance(t, h) /\ Ins[t] # {}
  <2>3. trace' = IF goesOn THEN [trace EXCEPT !.pc = "next", !.steps = steps]
                           ELSE [pc |-> "done", steps |-> steps]
    BY <1>12 DEF TraceStep, Trace
  <2>4. t \in Tx /\ trace.steps \in Seq(Hop) /\ hop \in Hop
    BY <2>2 DEF Hop
  <2>6. ASSUME "trace" \in calm
        PROVE  /\ category = "genesis" => t \in Range(Body[Genesis])
               /\ ~ goesOn => category # "transfer"
               /\ goesOn => FirstInput[t][1] \in Stored(disk)
    <3>1. t \in Stored(disk)
      BY <2>1, <2>6 DEF LineageIInv
    <3> DEFINE found == {b \in Path[disk] : t \in Range(Body[b])}
    <3>2. found # {}
      BY <3>1 DEF Stored
    <3>3. PICK b \in found : h = Height[b]
      BY <3>2 DEF HeightOf
    <3>4. b \in Path[disk] /\ b \in Block /\ t \in Range(Body[b])
      BY <1>1, <3>3, EveryLadder DEF Ladder
    <3>5. b = Genesis <=> Height[b] = 0
      <4>1. b # Genesis => Height[b] = Height[Parent[b]] + 1 /\ Parent[b] \in Block
        BY <3>4, Unfold
      <4>2. b # Genesis => Height[Parent[b]] \in Nat
        BY <4>1, RecursionAssumption
      <4>3. Height[Genesis] = 0
        BY RecursionAssumption
      <4> QED BY <4>1, <4>2, <4>3
    <3>6. category = "genesis" => t \in Range(Body[Genesis])
      BY <3>3, <3>4, <3>5
    <3>7. CASE IsIssuance(t, h)
      BY <3>6, <3>7
    <3>8. CASE ~ IsIssuance(t, h)
      <4>1. ~ IsCoinbase(t) /\ b # Genesis
        BY <3>3, <3>5, <3>8 DEF IsIssuance
      <4>2. Ins[t] # {} /\ FirstInput[t][1] \in Stored(disk)
        BY <1>1, <3>4, <4>1, InputStored
      <4> QED BY <3>6, <3>8, <4>2
    <3> QED BY <3>7, <3>8
  <2> HIDE DEF t, h, goesOn, category
  <2>7. hop.tx = t /\ hop.category = category
    OBVIOUS
  <2> HIDE DEF hop
  <2>8. steps \in Seq(Hop) /\ Last(steps) = hop
    BY <2>4 DEF Last
  <2>9. Range(steps) = Range(trace.steps) \cup {hop}
    BY <2>4, AppendRange
  <2> HIDE DEF steps
  <2>10. ASSUME "trace" \in calm
         PROVE  \A s \in Range(steps) : s.category = "genesis" => s.tx \in Range(Body[Genesis])
    <3>1. \A s \in Range(trace.steps) : s.category = "genesis" => s.tx \in Range(Body[Genesis])
      BY <2>1, <2>10 DEF LineageIInv
    <3> QED BY <2>6, <2>7, <2>9, <2>10, <3>1
  <2>11. CASE goesOn
    <3>1. trace' = [trace EXCEPT !.pc = "next", !.steps = steps]
      BY <2>3, <2>11
    <3>2. /\ trace' \in [pc : {"lookup", "height", "next"}, cur : Tx, steps : Seq(Hop)]
          /\ trace'.pc = "next" /\ trace'.steps = steps /\ trace'.cur = t
      BY <2>2, <2>8, <2>11, <3>1 DEF t
    <3>3. "trace" \in calm => FirstInput[t][1] \in Stored(disk)
      BY <2>6, <2>11
    <3> QED BY <1>1, <2>1, <2>10, <3>2, <3>3 DEF LineageIInv
  <2>12. CASE ~ goesOn
    <3>1. trace' = [pc |-> "done", steps |-> steps]
      BY <2>3, <2>12
    <3>2. trace'.pc = "done" /\ trace'.steps = steps
      BY <3>1
    <3> QED BY <1>1, <2>1, <2>6, <2>7, <2>8, <2>10, <2>12, <3>2 DEF LineageIInv
  <2> QED BY <2>11, <2>12
<1>13. CASE TraceDone
  <2>1. trace' = [pc |-> "idle"] /\ UNCHANGED <<disk, calm>>
    BY <1>13 DEF TraceDone, Trace
  <2> QED BY <1>1, <2>1 DEF LineageIInv
<1>14. CASE TraceNext
  <2>1. trace.pc = "next" /\ UNCHANGED <<disk, calm>>
    BY <1>14 DEF TraceNext, Trace
  <2>2. trace \in [pc : {"lookup", "height", "next"}, cur : Tx, steps : Seq(Hop)]
    BY <2>1 DEF LineageIInv
  <2>3. PICK m : m = FirstInput[trace.cur][1]
    OBVIOUS
  <2>4. CASE m \in Stored(disk)
    <3>1. trace' = [trace EXCEPT !.pc = "lookup", !.cur = m]
      BY <1>14, <2>3, <2>4 DEF TraceNext, Trace
    <3>2. m \in Tx
      <4>1. Path[disk] \subseteq Block
        BY <1>1, EveryLadder DEF Ladder
      <4> QED BY <2>4, <4>1, TransactionAssumption DEF Stored, Range
    <3>3. /\ trace' \in [pc : {"lookup", "height", "next"}, cur : Tx, steps : Seq(Hop)]
          /\ trace'.pc = "lookup" /\ trace'.steps = trace.steps
      BY <2>2, <3>1, <3>2
    <3> QED BY <1>1, <2>1, <3>3 DEF LineageIInv
  <2>5. CASE m \notin Stored(disk)
    <3>1. trace' = [pc |-> "done", steps |-> trace.steps]
      BY <1>14, <2>3, <2>5 DEF TraceNext, Trace
    <3>2. "trace" \notin calm
      BY <2>1, <2>3, <2>5 DEF LineageIInv
    <3>3. trace'.pc = "done"
      BY <3>1
    <3> QED BY <1>1, <2>1, <3>2, <3>3 DEF LineageIInv
  <2> QED BY <2>4, <2>5
<1> QED BY <1>3, <1>4, <1>5, <1>6, <1>8, <1>9, <1>10, <1>11, <1>12, <1>13, <1>14 DEF BookNext

\* A lineage that no reorganization disturbs ends where its value was issued, and names
\* block 0 only for transactions of block 0, for every chain (provenance of passbook.rs).
THEOREM LineageAlwaysIssued == BookSpec => []LineageToIssuance
<1>1. BookInit => LineageIInv
  BY GenesisTip DEF BookInit, LineageIInv
<1>2. LineageIInv => LineageToIssuance
  BY DEF LineageIInv, LineageToIssuance
<1> QED BY <1>1, <1>2, LineageStep, PTL DEF BookSpec

-----------------------------------------------------------------------------
(***************************************************************************)
(* Journals.  The height is read after the UTXO set and the pool after the *)
(* height: while no reorganization comes, the three reads go up one path,  *)
(* and the journal is about the blocks up to the height.                   *)
(***************************************************************************)

\* A finite union of finite sets is finite.
LEMMA UnionFinite ==
  ASSUME NEW X, IsFiniteSet(X), NEW F, \A x \in X : IsFiniteSet(F[x])
  PROVE  IsFiniteSet({F[x] : x \in X}) /\ IsFiniteSet(UNION {F[x] : x \in X})
<1> DEFINE R == {F[x] : x \in X}
           g == [x \in X |-> F[x]]
<1>1. g \in Surjection(X, R)
  BY DEF Surjection
<1>2. \A y \in R : IsFiniteSet(y)
  OBVIOUS
<1> HIDE DEF R, g
<1>3. IsFiniteSet(R)
  BY <1>1, FS_Surjection
<1>4. IsFiniteSet(UNION R)
  BY <1>2, <1>3, FS_UNION
<1> QED BY <1>3, <1>4 DEF R

\* The image of a finite set is finite.
LEMMA ImageFinite ==
  ASSUME NEW X, IsFiniteSet(X), NEW F
  PROVE  IsFiniteSet({F[x] : x \in X})
<1> DEFINE R == {F[x] : x \in X}
           g == [x \in X |-> F[x]]
<1>1. g \in Surjection(X, R)
  BY DEF Surjection
<1> HIDE DEF R, g
<1>2. IsFiniteSet(R)
  BY <1>1, FS_Surjection
<1> QED BY <1>2 DEF R

\* A block's transactions are finitely many.
LEMMA BodyFinite == ASSUME NEW b \in Block PROVE IsFiniteSet(Range(Body[b])) /\ Range(Body[b]) \subseteq Tx
<1> DEFINE s == Body[b]
           D == DOMAIN s
<1>1. s \in Seq(Tx) /\ D = 1 .. Len(s) /\ Len(s) \in Nat
  BY TransactionAssumption
<1>2. IsFiniteSet(D)
  BY <1>1, FS_Interval
<1>3. IsFiniteSet({s[i] : i \in D})
  <2> HIDE DEF D, s
  <2> QED BY <1>2, ImageFinite
<1> QED BY <1>1, <1>3 DEF Range

\* The records of some blocks: transactions that pay the account or spend from it.
Notes(B) == {r \in UNION {{<<Height[b], t>> : t \in Range(Body[b])} : b \in B} :
               OwnedIn(Ins[r[2]] \cup Outs[r[2]]) # {}}
Listing(B) == InOrder(Notes(B), [r \in Notes(B) |-> r[1]])

\* The index is asked for blocks of one path, the database's.
LEMMA RecordsListed ==
  ASSUME NEW d \in Block, NEW n \in Path[d]
  PROVE  AddressRecords(d, Height[n])
           = SubSeq(Listing(Path[n]), 1, Min({Len(Listing(Path[n])), IndexLimit}))
<1> DEFINE B == {a \in Path[d] : Height[a] \in 0 .. Height[n]}
<1>1. B = Path[n]
  <2>1. Path[n] = {y \in Path[d] : Height[y] <= Height[n]} /\ \A y \in Path[d] : Height[y] \in 0 .. Height[d]
    BY EveryLadder DEF Ladder
  <2>2. Height[n] \in Nat
    BY EveryLadder DEF Ladder
  <2> QED BY <2>1, <2>2
<1>2. AddressRecords(d, Height[n]) = SubSeq(Listing(B), 1, Min({Len(Listing(B)), IndexLimit}))
  BY DEF AddressRecords, RecordsAt, Listing, Notes
<1> HIDE DEF B
<1> QED BY <1>1, <1>2

\* What the notes of a path are.
LEMMA NotesShape ==
  ASSUME NEW n \in Block
  PROVE  /\ IsFiniteSet(Notes(Path[n]))
         /\ \A r \in Notes(Path[n]) : r[1] \in Nat /\ r[2] \in Stored(n)
         /\ \A b \in Path[n], t \in Tx :
              t \in Range(Body[b]) /\ OwnedIn(Outs[t]) # {} => <<Height[b], t>> \in Notes(Path[n])
<1> DEFINE F == [b \in Path[n] |-> {<<Height[b], t>> : t \in Range(Body[b])}]
           G == UNION {F[b] : b \in Path[n]}
<1>1. Path[n] \subseteq Block /\ Cardinality(Path[n]) = Height[n] + 1 /\ Height[n] \in Nat
  BY EveryLadder DEF Ladder
<1>2. IsFiniteSet(Path[n])
  BY <1>1, TreeAssumption, FS_Subset
<1>3. ASSUME NEW b \in Path[n] PROVE IsFiniteSet(F[b])
  <2> DEFINE g == [t \in Range(Body[b]) |-> <<Height[b], t>>]
             X == Range(Body[b])
  <2>1. IsFiniteSet(X)
    BY <1>1, BodyFinite
  <2>2. F[b] = {g[t] : t \in X}
    OBVIOUS
  <2>3. IsFiniteSet({g[t] : t \in X})
    <3> HIDE DEF g, X
    <3> QED BY <2>1, ImageFinite
  <2> QED BY <2>2, <2>3
<1>4. IsFiniteSet(G)
  <2> HIDE DEF F
  <2> QED BY <1>2, <1>3, UnionFinite
<1>5. Notes(Path[n]) = {r \in G : OwnedIn(Ins[r[2]] \cup Outs[r[2]]) # {}}
  <2>1. G = UNION {{<<Height[b], t>> : t \in Range(Body[b])} : b \in Path[n]}
    <3>1. \A b \in Path[n] : F[b] = {<<Height[b], t>> : t \in Range(Body[b])}
      OBVIOUS
    <3>2. {F[b] : b \in Path[n]} = {{<<Height[b], t>> : t \in Range(Body[b])} : b \in Path[n]}
      <4> HIDE DEF F
      <4> QED BY <3>1
    <3> QED BY <3>2, Zenon
  <2> HIDE DEF G
  <2> QED BY <2>1 DEF Notes
<1>6. \A r \in G : \E b \in Path[n] : \E t \in Range(Body[b]) : r = <<Height[b], t>>
  OBVIOUS
<1>7. \A b \in Path[n] : \A t \in Range(Body[b]) : <<Height[b], t>> \in G
  OBVIOUS
<1> HIDE DEF G
<1>8. IsFiniteSet(Notes(Path[n]))
  BY <1>4, <1>5, FS_Subset
<1>9. ASSUME NEW r \in Notes(Path[n]) PROVE r[1] \in Nat /\ r[2] \in Stored(n)
  <2>1. PICK b \in Path[n] : \E t \in Range(Body[b]) : r = <<Height[b], t>>
    BY <1>5, <1>6
  <2>2. Height[b] \in Nat
    BY <1>1, RecursionAssumption
  <2> QED BY <2>1, <2>2 DEF Stored
<1>10. ASSUME NEW b \in Path[n], NEW t \in Tx, t \in Range(Body[b]), OwnedIn(Outs[t]) # {}
       PROVE  <<Height[b], t>> \in Notes(Path[n])
  <2>1. OwnedIn(Ins[t] \cup Outs[t]) # {}
    BY <1>10 DEF OwnedIn
  <2>2. <<Height[b], t>> \in G
    BY <1>7, <1>10
  <2> QED BY <1>5, <2>1, <2>2
<1> QED BY <1>8, <1>9, <1>10

\* The records of the index are notes of the path, all of them below the limit.
LEMMA RecordsShape ==
  ASSUME NEW n \in Block
  PROVE  /\ Range(AddressRecords(n, Height[n])) \subseteq Notes(Path[n])
         /\ Len(AddressRecords(n, Height[n])) < IndexLimit =>
              Range(AddressRecords(n, Height[n])) = Notes(Path[n])
<1> DEFINE N == Notes(Path[n])
           s == Listing(Path[n])
           k == Min({Len(s), IndexLimit})
<1>1. n \in Path[n]
  BY EveryLadder DEF Ladder
<1>2. AddressRecords(n, Height[n]) = SubSeq(s, 1, k)
  BY <1>1, RecordsListed
<1>3. IsFiniteSet(N) /\ \A r \in N : r[1] \in Nat
  BY NotesShape
<1>4. s \in Seq(N) /\ Len(s) = Cardinality(N) /\ Range(s) = N
  <2> DEFINE key == [r \in N |-> r[1]]
  <2>1. \A r \in N : key[r] \in Int /\ key[r] >= 0 - 1
    BY <1>3
  <2>2. s = InOrder(N, key)
    BY DEF Listing
  <2> HIDE DEF key, N
  <2> QED BY <1>3, <2>1, <2>2, InOrderLists
<1> HIDE DEF N, s
<1>5. PICK m : m = Len(s)
  OBVIOUS
<1>6. m \in Nat /\ IndexLimit \in Nat /\ DOMAIN s = 1 .. m
  BY <1>4, <1>5, BookAssumption
<1>7. k = IF m <= IndexLimit THEN m ELSE IndexLimit
  <2>1. \E x \in {m, IndexLimit} : \A y \in {m, IndexLimit} : x <= y
    BY <1>6
  <2>2. k \in {m, IndexLimit} /\ \A y \in {m, IndexLimit} : k <= y
    BY <1>5, <2>1 DEF Min
  <2> HIDE DEF k
  <2> QED BY <1>6, <2>2
<1>8. k \in Nat /\ k <= m
  <2> HIDE DEF k
  <2> QED BY <1>6, <1>7
<1> HIDE DEF k
<1>9. /\ SubSeq(s, 1, k) \in Seq(N) /\ Len(SubSeq(s, 1, k)) = k
      /\ \A i \in 1 .. k : SubSeq(s, 1, k)[i] = s[i]
  <2>1. 1 \in 1 .. (Len(s) + 1) /\ k \in (1 - 1) .. Len(s)
    BY <1>5, <1>6, <1>8
  <2>2. /\ SubSeq(s, 1, k) \in Seq(N) /\ Len(SubSeq(s, 1, k)) = k - 1 + 1
        /\ \A i \in 1 .. k - 1 + 1 : SubSeq(s, 1, k)[i] = s[1 + i - 1]
    BY <1>4, <2>1, SubSeqProperties
  <2>3. k - 1 + 1 = k /\ \A i \in 1 .. k : 1 + i - 1 = i
    BY <1>8
  <2> QED BY <2>2, <2>3
<1>10. Range(SubSeq(s, 1, k)) \subseteq N
  BY <1>9 DEF Range
<1>11. ASSUME k < IndexLimit PROVE Range(SubSeq(s, 1, k)) = N
  <2>1. k = m
    BY <1>6, <1>7, <1>11
  <2>2. DOMAIN SubSeq(s, 1, k) = 1 .. m
    BY <1>9, <2>1
  <2>3. \A i \in 1 .. m : SubSeq(s, 1, k)[i] = s[i]
    BY <1>9, <2>1
  <2>4. Range(SubSeq(s, 1, k)) = Range(s)
    BY <1>6, <2>2, <2>3 DEF Range
  <2> QED BY <1>4, <2>4
<1> QED BY <1>2, <1>9, <1>10, <1>11 DEF N

\* A transaction that can still be spent from a chain is not on it.
LEMMA UnspentNotStored ==
  ASSUME DistinctTxs, NEW d \in SoundTip, NEW t \in Tx, Ins[t] # {}, Ins[t] \subseteq LedgerAt[d]
  PROVE  t \notin Stored(d)
<1> SUFFICES ASSUME t \in Stored(d) PROVE FALSE
  OBVIOUS
<1>1. d \in Block /\ \A a \in Path[d] : Sound(a)
  BY DEF SoundTip
<1>2. OwnOutputs
  BY BookAssumption DEF OwnOutputs
<1>3. PICK b \in Path[d] : t \in Range(Body[b])
  BY DEF Stored
<1>4. Ins[t] \subseteq Spends(b)
  BY <1>3 DEF Range, Spends
<1>5. Spends(b) \cap LedgerAt[d] = {}
  BY <1>1, <1>2, SpentGone
<1> QED BY <1>4, <1>5

\* What the entries of one transaction are.
LEMMA EntriesShape ==
  ASSUME NEW t \in Tx, NEW h, NEW inputs
  PROVE  /\ IsFiniteSet(EntriesOf(t, h, inputs))
         /\ \A e \in EntriesOf(t, h, inputs) : e.tx = t /\ e.height = h
         /\ \A o \in OwnedIn(Outs[t]) : \E e \in EntriesOf(t, h, inputs) : e.op = o /\ e.height = h
<1> DEFINE X == OwnedIn(Outs[t])
           g == [o \in X |-> Entry(t, o, h, ActionOf(t, o, inputs, h # Pending))]
<1>1. IsFiniteSet(X)
  <2>1. X \subseteq Outs[t] /\ IsFiniteSet(Outs[t])
    BY ValueAssumption DEF OwnedIn
  <2> QED BY <2>1, FS_Subset
<1>2. CASE X = {}
  <2> DEFINE sent == Entry(t, << >>, h, "sent")
  <2>1. sent.tx = t /\ sent.height = h
    BY DEF Entry
  <2>2. EntriesOf(t, h, inputs) = {} \/ EntriesOf(t, h, inputs) = {sent}
    BY <1>2 DEF EntriesOf
  <2> HIDE DEF sent
  <2>3. IsFiniteSet(EntriesOf(t, h, inputs))
    BY <2>2, FS_EmptySet, FS_Singleton
  <2> QED BY <1>2, <2>1, <2>2, <2>3
<1>3. CASE X # {}
  <2>1. EntriesOf(t, h, inputs) = {g[o] : o \in X}
    BY <1>3 DEF EntriesOf
  <2>2. IsFiniteSet({g[o] : o \in X})
    <3> HIDE DEF X, g
    <3> QED BY <1>1, ImageFinite
  <2>3. \A o \in X : g[o].tx = t /\ g[o].height = h /\ g[o].op = o
    BY DEF Entry
  <2> HIDE DEF g
  <2> QED BY <2>1, <2>2, <2>3
<1> QED BY <1>2, <1>3

\* The entries of the records of a path, read from a database that has the path.
LEMMA ConfirmedShape ==
  ASSUME NEW d \in Block, NEW n \in Path[d], NEW records, Range(records) \subseteq Notes(Path[n])
  PROVE  /\ ConfirmedEntries(records, d) = ConfirmedEntries(records, n)
         /\ IsFiniteSet(ConfirmedEntries(records, n))
         /\ \A e \in ConfirmedEntries(records, n) : e.tx \in Stored(n) /\ e.height \in Nat
         /\ \A r \in Range(records) : \A o \in OwnedIn(Outs[r[2]]) :
              \E e \in ConfirmedEntries(records, n) : e.op = o /\ e.height = r[1]
<1> DEFINE R == Range(records)
           F == [r \in R |-> EntriesOf(r[2], r[1], OwnedIn(Ins[r[2]]) # {})]
           All == UNION {F[r] : r \in R}
<1>1. n \in Block /\ Stored(n) \subseteq Stored(d) /\ n \in Path[n]
  BY EveryLadder, StoredGrows DEF Ladder
<1>2. \A r \in R : r[1] \in Nat /\ r[2] \in Stored(n)
  BY <1>1, NotesShape
<1>3. Stored(n) \subseteq Tx
  <2>1. Path[n] \subseteq Block
    BY <1>1, EveryLadder DEF Ladder
  <2> QED BY <2>1, BodyFinite DEF Stored
<1>4. {q \in R : q[2] \in Stored(d)} = R /\ {q \in R : q[2] \in Stored(n)} = R
  BY <1>1, <1>2
<1>5. ConfirmedEntries(records, d) = All /\ ConfirmedEntries(records, n) = All
  <2>1. All = UNION {EntriesOf(r[2], r[1], OwnedIn(Ins[r[2]]) # {}) : r \in R}
    OBVIOUS
  <2> HIDE DEF All, F
  <2> QED BY <1>4, <2>1 DEF ConfirmedEntries
<1>6. ASSUME NEW r \in R
      PROVE  /\ IsFiniteSet(F[r])
             /\ \A e \in F[r] : e.tx = r[2] /\ e.height = r[1]
             /\ \A o \in OwnedIn(Outs[r[2]]) : \E e \in F[r] : e.op = o /\ e.height = r[1]
  <2>1. r[2] \in Tx
    BY <1>2, <1>3
  <2>2. F[r] = EntriesOf(r[2], r[1], OwnedIn(Ins[r[2]]) # {})
    OBVIOUS
  <2>3. PICK inputs : inputs = (OwnedIn(Ins[r[2]]) # {})
    OBVIOUS
  <2> HIDE DEF F
  <2> QED BY <2>1, <2>2, <2>3, EntriesShape
<1>7. IsFiniteSet(R)
  BY <1>1, NotesShape, FS_Subset
<1> HIDE DEF F, R
<1>8. IsFiniteSet(All)
  <2>1. \A r \in R : IsFiniteSet(F[r])
    BY <1>6
  <2> QED BY <1>7, <2>1, UnionFinite
<1>9. \A e \in All : e.tx \in Stored(n) /\ e.height \in Nat
  BY <1>2, <1>6
<1>10. \A r \in R : \A o \in OwnedIn(Outs[r[2]]) : \E e \in All : e.op = o /\ e.height = r[1]
  BY <1>6
<1> QED BY <1>5, <1>8, <1>9, <1>10 DEF R

\* The entries of the pool's transactions.
LEMMA PendingShape ==
  ASSUME NEW S, NEW txs \in SUBSET Tx, IsFiniteSet(txs)
  PROVE  /\ IsFiniteSet(PendingEntries(S, txs))
         /\ \A e \in PendingEntries(S, txs) : e.tx \in txs /\ e.height = Pending
<1> DEFINE F == [t \in txs |-> EntriesOf(t, Pending, OwnedIn(Ins[t] \cap S) # {})]
           All == UNION {F[t] : t \in txs}
<1>1. PendingEntries(S, txs) = All
  <2>1. All = UNION {EntriesOf(t, Pending, OwnedIn(Ins[t] \cap S) # {}) : t \in txs}
    OBVIOUS
  <2> HIDE DEF All, F
  <2> QED BY <2>1 DEF PendingEntries
<1>2. ASSUME NEW t \in txs PROVE IsFiniteSet(F[t]) /\ \A e \in F[t] : e.tx = t /\ e.height = Pending
  <2>1. F[t] = EntriesOf(t, Pending, OwnedIn(Ins[t] \cap S) # {}) /\ t \in Tx
    OBVIOUS
  <2>2. PICK inputs : inputs = (OwnedIn(Ins[t] \cap S) # {})
    OBVIOUS
  <2>3. PICK h : h = Pending
    OBVIOUS
  <2> HIDE DEF F
  <2> QED BY <2>1, <2>2, <2>3, EntriesShape
<1> HIDE DEF F
<1>3. IsFiniteSet(All)
  <2>1. \A t \in txs : IsFiniteSet(F[t])
    BY <1>2
  <2> QED BY <2>1, UnionFinite
<1>4. \A e \in All : e.tx \in txs /\ e.height = Pending
  BY <1>2
<1> QED BY <1>1, <1>3, <1>4

AfterTall == {"pool", "index", "txs", "done"}
AfterPool == {"index", "txs", "done"}

\* Transactions that are on the chain up to n only if they are in c
Fresh(n, txs, c) == txs \in SUBSET Tx /\ IsFiniteSet(txs) /\ txs \cap Stored(n) \subseteq c

\* What a view s has read goes up the path to n: the UTXO set at or below n, the height of n,
\* a pool that has of the path at most what is in c, and the index up to n.
ReadUpTo(n, s, c) ==
  /\ \E m \in Path[n] : s.seen = LedgerAt[m]
  /\ s.pc \in AfterTall => s.to = Height[n]
  /\ s.pc \in AfterPool => Fresh(n, s.pending, c)
  /\ s.pc \in {"txs", "done"} => s.records = AddressRecords(n, Height[n])
  /\ s.pc = "done" =>
       Range(s.entries) = ConfirmedEntries(s.records, n) \cup PendingEntries(s.seen, s.pending)

\* The pool has of the chain in memory only what a reorganization left next to its maker, a
\* commit that is no reorganization connects one block, and the block that a view without a
\* reorganization is about stays on both chains.
JournalIInv ==
  /\ disk \in SoundTip /\ memory \in SoundTip
  /\ DOMAIN reader = BookFields
  /\ waiting \in SUBSET Tx /\ IsFiniteSet(waiting)
  /\ \A t \in waiting : Ins[t] # {}
  /\ waiting \cap Stored(memory) \subseteq chained
  /\ disk # memory /\ memory \in Path[disk] => disk # Genesis /\ Parent[disk] = memory
  /\ reader.pc \in AfterView /\ "view" \in calm =>
       \E n \in Path[memory] \cap Path[disk] : ReadUpTo(n, reader, chained)

\* What is on one chain and not on another, no coinbase, is finitely many transactions with inputs.
LEMMA BackShape ==
  ASSUME NEW c \in SoundTip, NEW d \in SoundTip
  PROVE  LET back == {t \in Stored(c) \ Stored(d) : ~ IsCoinbase(t)}
         IN  back \in SUBSET Tx /\ IsFiniteSet(back) /\ \A t \in back : Ins[t] # {}
<1> DEFINE back == {t \in Stored(c) \ Stored(d) : ~ IsCoinbase(t)}
           F == [b \in Path[c] |-> Range(Body[b])]
<1>1. c \in Block /\ d \in Block
  BY DEF SoundTip
<1>2. Path[c] \subseteq Block /\ Genesis \in Path[d]
  BY <1>1, EveryLadder DEF Ladder
<1>3. IsFiniteSet(Path[c])
  BY <1>2, TreeAssumption, FS_Subset
<1>4. \A b \in Path[c] : IsFiniteSet(F[b]) /\ F[b] \subseteq Tx
  BY <1>2, BodyFinite
<1>5. Stored(c) = UNION {F[b] : b \in Path[c]}
  BY DEF Stored
<1>6. IsFiniteSet(Stored(c)) /\ Stored(c) \subseteq Tx
  <2>1. \A b \in Path[c] : IsFiniteSet(F[b])
    BY <1>4
  <2> HIDE DEF F
  <2>2. IsFiniteSet(UNION {F[b] : b \in Path[c]})
    BY <1>3, <2>1, UnionFinite
  <2> QED BY <1>4, <1>5, <2>2
<1>7. IsFiniteSet(back)
  BY <1>6, FS_Subset
<1>8. ASSUME NEW t \in back PROVE Ins[t] # {}
  <2>1. PICK b \in Path[c] : t \in Range(Body[b])
    BY DEF Stored
  <2>2. b # Genesis
    BY <1>2, <2>1 DEF Stored
  <2> QED BY <2>1, <2>2, InputStored
<1> QED BY <1>6, <1>7, <1>8

\* JournalIInv holds at first, and every step keeps it.
LEMMA JournalStep ==
  ASSUME DistinctTxs PROVE JournalIInv /\ [BookNext]_bookVars => JournalIInv'
<1> SUFFICES ASSUME JournalIInv, [BookNext]_bookVars PROVE JournalIInv'
  OBVIOUS
<1> USE DEF AfterView, AfterTall, AfterPool
<1>1. /\ disk \in SoundTip /\ memory \in SoundTip /\ DOMAIN reader = BookFields
      /\ waiting \in SUBSET Tx /\ IsFiniteSet(waiting)
      /\ \A t \in waiting : Ins[t] # {}
      /\ waiting \cap Stored(memory) \subseteq chained
      /\ disk # memory /\ memory \in Path[disk] => disk # Genesis /\ Parent[disk] = memory
      /\ reader.pc \in AfterView /\ "view" \in calm =>
           \E n \in Path[memory] \cap Path[disk] : ReadUpTo(n, reader, chained)
  BY DEF JournalIInv
<1>2. /\ disk \in Block /\ memory \in Block /\ disk \in Path[disk] /\ memory \in Path[memory]
      /\ Path[disk] \subseteq Block /\ Path[memory] \subseteq Block
  BY <1>1, EveryLadder DEF SoundTip, Ladder
<1>3. BookFields = {"pc", "height", "block", "root", "proofs", "seen", "balance", "tokens", "to",
                    "pending", "records", "entries", "delta"}
  BY DEF BookFields, NewStatement
<1>4. ASSUME UNCHANGED <<disk, memory, waiting, chained>>, DOMAIN reader' = BookFields,
             reader'.pc \in AfterView /\ "view" \in calm' =>
               \E n \in Path[memory] \cap Path[disk] : ReadUpTo(n, reader', chained)
      PROVE  JournalIInv'
  BY <1>1, <1>4 DEF JournalIInv
<1>5. ASSUME UNCHANGED <<disk, memory, waiting, reader, chained>>, "view" \in calm' => "view" \in calm
      PROVE  JournalIInv'
  BY <1>1, <1>5 DEF JournalIInv
<1>6. ASSUME UNCHANGED <<disk, memory, waiting, chained>>, DOMAIN reader' = BookFields, reader'.pc \notin AfterView
      PROVE  JournalIInv'
  BY <1>4, <1>6
<1>7. CASE UNCHANGED bookVars
  BY <1>5, <1>7 DEF bookVars
<1>8. ASSUME NEW t \in Tx, Arrive(t) PROVE JournalIInv'
  <2>1. /\ waiting' = waiting \cup {t} /\ UNCHANGED <<disk, memory, reader, calm, chained>>
        /\ Ins[t] # {} /\ Ins[t] \subseteq LedgerAt[memory]
    BY <1>8 DEF Arrive, Stateless
  <2>3. t \notin Stored(memory)
    BY <1>1, <2>1, UnspentNotStored
  <2>2. IsFiniteSet(waiting')
    BY <1>1, <2>1, FS_AddElement
  <2> QED BY <1>1, <2>1, <2>2, <2>3 DEF JournalIInv
<1>9. ASSUME NEW b \in Block, CommitDisk(b) PROVE JournalIInv'
  <2>1. /\ b \in SoundTip /\ disk' = b /\ calm' = (IF disk \in Path[b] THEN calm ELSE {})
        /\ disk = memory /\ CumWork[b] > CumWork[memory] /\ (memory \in Path[b] => Parent[b] = memory)
        /\ UNCHANGED <<memory, waiting, reader, chained>>
    BY <1>9 DEF CommitDisk, Locked
  <2>4. memory \in Path[b] => b # Genesis
    <3>1. Path[Genesis] = {Genesis}
      BY RecursionAssumption
    <3>2. CumWork[Genesis] \in Nat
      BY TreeAssumption, RecursionAssumption
    <3> QED BY <2>1, <3>1, <3>2
  <2>2. CASE disk \in Path[b]
    <3>1. Path[disk] \subseteq Path[b]
      BY <2>2, StoredGrows
    <3> QED BY <1>1, <2>1, <2>2, <2>4, <3>1 DEF JournalIInv
  <2>3. CASE disk \notin Path[b]
    BY <1>1, <2>1, <2>3 DEF JournalIInv
  <2> QED BY <2>2, <2>3
<1>10. CASE CommitMemory
  <2> DEFINE back == {t \in Stored(memory) \ Stored(disk) : ~ IsCoinbase(t)}
             rest == (PoolBack.txs \cap (waiting \cup back)) \ Range(Body[disk])
             lost == {t \in rest : \E o \in Ins[t] \ LedgerAt[disk] : o[1] \notin rest}
  <2>1. /\ disk # memory /\ memory' = disk /\ waiting' \subseteq rest \ lost /\ UNCHANGED <<disk, reader, calm>>
        /\ chained' = IF memory \in Path[disk] THEN chained
                      ELSE chained \cup {t \in waiting' : \E o \in Ins[t] : o[1] \in rest}
    BY <1>10 DEF CommitMemory, Locked
  <2>2. back \in SUBSET Tx /\ IsFiniteSet(back) /\ \A t \in back : Ins[t] # {} /\ t \notin Stored(disk)
    BY <1>1, BackShape
  <2> HIDE DEF back
  <2>3. IsFiniteSet(waiting \cup back)
    BY <1>1, <2>2, FS_Union
  <2>4. waiting' \subseteq waiting \cup back /\ waiting' \cap Range(Body[disk]) = {}
    BY <2>1
  <2>5. IsFiniteSet(waiting')
    BY <2>3, <2>4, FS_Subset
  <2>6. waiting' \in SUBSET Tx /\ \A t \in waiting' : Ins[t] # {}
    BY <1>1, <2>2, <2>4
  <2>7. chained \subseteq chained'
    BY <2>1
  <2>8. ASSUME NEW t \in waiting', t \in Stored(disk) PROVE t \in chained'
    <3>1. CASE memory \in Path[disk]
      <4>1. Path[disk] = Path[memory] \cup {disk}
        BY <1>1, <1>2, <2>1, <3>1, Unfold
      <4>2. t \in Stored(memory)
        BY <2>4, <2>8, <4>1 DEF Stored
      <4> QED BY <1>1, <2>2, <2>4, <2>7, <2>8, <4>2
    <3>2. CASE memory \notin Path[disk]
      <4>1. PICK o \in Ins[t] : o \notin LedgerAt[disk]
        BY <1>1, <2>6, <2>8, UnspentNotStored
      <4>2. o[1] \in rest
        BY <2>1, <4>1
      <4> QED BY <2>1, <3>2, <4>2
    <3> QED BY <3>1, <3>2
  <2> HIDE DEF rest, lost
  <2>9. ASSUME NEW n, ReadUpTo(n, reader, chained) PROVE ReadUpTo(n, reader, chained')
    BY <2>7, <2>9 DEF ReadUpTo, Fresh
  <2> QED BY <1>1, <2>1, <2>5, <2>6, <2>8, <2>9 DEF JournalIInv
<1>11. CASE ReadHeight
  <2>1. UNCHANGED <<disk, memory, waiting, chained>> /\ DOMAIN reader' = BookFields /\ reader'.pc = "tip"
    BY <1>11 DEF ReadHeight, Step, BookFields, NewStatement
  <2> QED BY <1>6, <2>1
<1>12. CASE ReadTip
  <2>1. UNCHANGED <<disk, memory, waiting, chained>> /\ reader' = [reader EXCEPT !.pc = "block", !.block = memory]
    BY <1>12 DEF ReadTip, Step
  <2>2. DOMAIN reader' = BookFields /\ reader'.pc = "block"
    BY <1>1, <1>3, <2>1
  <2> QED BY <1>6, <2>1, <2>2
<1>13. ASSUME reader' = NewStatement, UNCHANGED <<disk, memory, waiting, chained>> PROVE JournalIInv'
  BY <1>6, <1>13 DEF NewStatement, BookFields
<1>14. CASE ReadBlock
  <2>1. PICK root : /\ UNCHANGED <<disk, memory, waiting, chained>>
                    /\ reader' = [reader EXCEPT !.pc = "set", !.root = root] \/ reader' = NewStatement
    BY <1>14 DEF ReadBlock, Step
  <2>2. CASE reader' = [reader EXCEPT !.pc = "set", !.root = root]
    <3>1. DOMAIN reader' = BookFields /\ reader'.pc = "set"
      BY <1>1, <1>3, <2>2
    <3> QED BY <1>6, <2>1, <3>1
  <2> QED BY <1>13, <2>1, <2>2
<1>15. CASE ReadSet
  <2>1. PICK v : UNCHANGED <<disk, memory, waiting, chained>> /\ reader' = [reader EXCEPT !.pc = "view", !.proofs = v]
    BY <1>15 DEF ReadSet, Step
  <2>2. DOMAIN reader' = BookFields /\ reader'.pc = "view"
    BY <1>1, <1>3, <2>1
  <2> QED BY <1>6, <2>1, <2>2
<1>16. CASE ViewSet
  <2>1. PICK v, w : /\ UNCHANGED <<disk, memory, waiting, chained>> /\ disk = memory
                    /\ reader' = [reader EXCEPT !.pc = "tall", !.seen = LedgerAt[memory], !.balance = v, !.tokens = w]
    BY <1>16 DEF ViewSet, Step, Locked
  <2>2. DOMAIN reader' = BookFields /\ reader'.pc = "tall" /\ reader'.seen = LedgerAt[memory]
    BY <1>1, <1>3, <2>1
  <2>3. ReadUpTo(memory, reader', chained)
    BY <1>2, <2>2 DEF ReadUpTo
  <2> QED BY <1>2, <1>4, <2>1, <2>2, <2>3
<1>17. CASE ViewHeight
  <2>1. /\ UNCHANGED <<disk, memory, waiting, chained, calm>> /\ disk = memory /\ reader.pc = "tall"
        /\ reader' = [reader EXCEPT !.pc = "pool", !.to = Height[memory]]
    BY <1>17 DEF ViewHeight, Step, Locked
  <2>2. DOMAIN reader' = BookFields /\ reader'.pc = "pool" /\ reader'.seen = reader.seen /\ reader'.to = Height[memory]
    BY <1>1, <1>3, <2>1
  <2>3. ASSUME "view" \in calm PROVE ReadUpTo(memory, reader', chained)
    <3>1. PICK n \in Path[memory] : ReadUpTo(n, reader, chained)
      BY <1>1, <2>1, <2>3
    <3>2. Path[n] \subseteq Path[memory]
      BY <1>2, StoredGrows
    <3>3. \E m \in Path[memory] : reader.seen = LedgerAt[m]
      BY <3>1, <3>2 DEF ReadUpTo
    <3> QED BY <2>2, <3>3 DEF ReadUpTo
  <2> QED BY <1>2, <1>4, <2>1, <2>2, <2>3
<1>18. CASE ViewPool
  <2>1. /\ UNCHANGED <<disk, memory, waiting, chained, calm>> /\ reader.pc = "pool"
        /\ reader' = [reader EXCEPT !.pc = "index", !.pending = waiting]
    BY <1>18 DEF ViewPool, Step
  <2>2. /\ DOMAIN reader' = BookFields /\ reader'.pc = "index" /\ reader'.seen = reader.seen
        /\ reader'.to = reader.to /\ reader'.pending = waiting
    BY <1>1, <1>3, <2>1
  <2>3. ASSUME NEW n \in Path[memory], ReadUpTo(n, reader, chained) PROVE ReadUpTo(n, reader', chained)
    <3>1. Stored(n) \subseteq Stored(memory)
      BY <1>2, StoredGrows
    <3>3. Fresh(n, waiting, chained)
      BY <1>1, <3>1 DEF Fresh
    <3> QED BY <2>1, <2>2, <2>3, <3>3 DEF ReadUpTo
  <2> QED BY <1>1, <1>4, <2>1, <2>2, <2>3
<1>19. CASE ViewIndex
  <2>1. /\ UNCHANGED <<disk, memory, waiting, chained, calm>> /\ reader.pc = "index"
        /\ reader' = [reader EXCEPT !.pc = "txs", !.records = AddressRecords(disk, reader.to)]
    BY <1>19 DEF ViewIndex, Step
  <2>2. /\ DOMAIN reader' = BookFields /\ reader'.pc = "txs" /\ reader'.seen = reader.seen
        /\ reader'.to = reader.to /\ reader'.pending = reader.pending
        /\ reader'.records = AddressRecords(disk, reader.to)
    BY <1>1, <1>3, <2>1
  <2>3. ASSUME NEW n \in Path[disk], ReadUpTo(n, reader, chained) PROVE ReadUpTo(n, reader', chained)
    <3>1. reader.to = Height[n] /\ n \in Block /\ n \in Path[n]
      BY <1>2, <2>1, <2>3, EveryLadder DEF ReadUpTo, Ladder
    <3>2. AddressRecords(disk, Height[n]) = AddressRecords(n, Height[n])
      BY <1>2, <3>1, RecordsListed
    <3> QED BY <2>1, <2>2, <2>3, <3>1, <3>2 DEF ReadUpTo
  <2> QED BY <1>1, <1>4, <2>1, <2>2, <2>3
<1>20. CASE ViewEntries
  <2> DEFINE all == ConfirmedEntries(reader.records, disk) \cup PendingEntries(reader.seen, reader.pending)
  <2>1. PICK v : /\ UNCHANGED <<disk, memory, waiting, chained, calm>> /\ reader.pc = "txs"
                 /\ reader' = [reader EXCEPT !.pc = "done", !.entries = Numbered(all), !.delta = v]
    BY <1>20 DEF ViewEntries, Step
  <2>2. /\ DOMAIN reader' = BookFields /\ reader'.pc = "done" /\ reader'.seen = reader.seen
        /\ reader'.to = reader.to /\ reader'.pending = reader.pending
        /\ reader'.records = reader.records /\ reader'.entries = Numbered(all)
    <3> HIDE DEF all
    <3> QED BY <1>1, <1>3, <2>1
  <2>3. ASSUME NEW n \in Path[disk], ReadUpTo(n, reader, chained) PROVE ReadUpTo(n, reader', chained)
    <3>1. /\ reader.records = AddressRecords(n, Height[n]) /\ n \in Block
          /\ Fresh(n, reader.pending, chained) /\ reader.to = Height[n]
          /\ \E m \in Path[n] : reader.seen = LedgerAt[m]
      BY <1>2, <2>1, <2>3 DEF ReadUpTo
    <3>2. Range(reader.records) \subseteq Notes(Path[n])
      BY <3>1, RecordsShape
    <3>3. PICK C : C = ConfirmedEntries(reader.records, n)
      OBVIOUS
    <3>4. PICK P : P = PendingEntries(reader.seen, reader.pending)
      OBVIOUS
    <3>5. all = C \cup P /\ IsFiniteSet(C) /\ \A e \in C : e.height \in Nat
      BY <1>2, <3>2, <3>3, <3>4, ConfirmedShape
    <3>6. IsFiniteSet(P) /\ \A e \in P : e.height = 0 - 1
      BY <3>1, <3>4, PendingShape DEF Fresh, Pending
    <3>7. IsFiniteSet(all)
      BY <3>5, <3>6, FS_Union
    <3> HIDE DEF all
    <3>8. Range(Numbered(all)) = all
      <4> DEFINE key == [e \in all |-> e.height]
      <4>1. \A e \in all : key[e] \in Int /\ key[e] >= 0 - 1
        BY <3>5, <3>6
      <4>2. Numbered(all) = InOrder(all, key)
        BY DEF Numbered
      <4> HIDE DEF key
      <4> QED BY <3>7, <4>1, <4>2, InOrderLists
    <3>9. Range(reader'.entries) = ConfirmedEntries(reader'.records, n) \cup PendingEntries(reader'.seen, reader'.pending)
      BY <2>2, <3>3, <3>4, <3>5, <3>8
    <3> QED BY <2>2, <3>1, <3>9 DEF ReadUpTo
  <2> QED BY <1>1, <1>4, <2>1, <2>2, <2>3
<1>21. CASE Deliver
  BY <1>13, <1>21 DEF Deliver, Step
<1>22. ASSUME NEW new, Trace(new) PROVE JournalIInv'
  BY <1>5, <1>22 DEF Trace
<1>23. CASE \E t \in Tx : TraceFrom(t)
  BY <1>22, <1>23 DEF TraceFrom
<1>24. CASE TraceLookup \/ TraceStep \/ TraceNext \/ TraceDone
  BY <1>22, <1>24 DEF TraceLookup, TraceStep, TraceNext, TraceDone
<1> QED BY <1>7, <1>8, <1>9, <1>10, <1>11, <1>12, <1>14, <1>15, <1>16, <1>17, <1>18, <1>19, <1>20,
           <1>21, <1>23, <1>24 DEF BookNext

\* A journal of reads that go up one path is exact.
LEMMA ReadsExact == JournalIInv => JournalExact
<1> SUFFICES ASSUME JournalIInv, reader.pc = "done", "view" \in calm
             PROVE  /\ Len(reader.records) < IndexLimit =>
                         \A o \in OwnedIn(reader.seen) :
                           \E e \in Range(reader.entries) : e.op = o /\ e.height # Pending
                    /\ \A e, f \in Range(reader.entries) :
                         e.tx = f.tx => (e.height = Pending <=> f.height = Pending) \/ e.tx \in chained
  BY DEF JournalExact, JournalCovers, ListedOnce
<1>1. memory \in Block /\ Path[memory] \subseteq Block
  BY EveryLadder DEF JournalIInv, SoundTip, Ladder
<1>2. PICK n \in Path[memory] : ReadUpTo(n, reader, chained)
  BY DEF JournalIInv, AfterView
<1>3. PICK m \in Path[n] : reader.seen = LedgerAt[m]
  BY <1>2 DEF ReadUpTo
<1>4. PICK C : C = ConfirmedEntries(reader.records, n)
  OBVIOUS
<1>5. PICK P : P = PendingEntries(reader.seen, reader.pending)
  OBVIOUS
<1>6. /\ reader.records = AddressRecords(n, Height[n]) /\ Fresh(n, reader.pending, chained)
      /\ Range(reader.entries) = C \cup P
  BY <1>2, <1>4, <1>5 DEF ReadUpTo, AfterPool
<1>7. n \in Block /\ n \in Path[n] /\ m \in Block /\ Path[m] \subseteq Path[n] /\ Path[n] \subseteq Block
  BY <1>1, EveryLadder DEF Ladder
<1>8. Range(reader.records) \subseteq Notes(Path[n])
  BY <1>6, <1>7, RecordsShape
<1>9. /\ \A e \in C : e.tx \in Stored(n) /\ e.height \in Nat
      /\ \A r \in Range(reader.records) : \A o \in OwnedIn(Outs[r[2]]) :
           \E e \in C : e.op = o /\ e.height = r[1]
  BY <1>4, <1>7, <1>8, ConfirmedShape
<1>10. \A e \in P : e.tx \in reader.pending /\ e.height = Pending
  BY <1>5, <1>6, PendingShape DEF Fresh
<1>11. ASSUME NEW e \in Range(reader.entries), NEW f \in Range(reader.entries), e.tx = f.tx
       PROVE  (e.height = Pending <=> f.height = Pending) \/ e.tx \in chained
  <2>1. \A h \in Nat : h # Pending
    BY DEF Pending
  <2> QED BY <1>6, <1>9, <1>10, <1>11, <2>1 DEF Fresh
<1>12. ASSUME Len(reader.records) < IndexLimit, NEW o \in OwnedIn(reader.seen)
       PROVE  \E e \in Range(reader.entries) : e.op = o /\ e.height # Pending
  <2>1. PICK a \in Path[m] : \E i \in DOMAIN Body[a] : o \in Made(Body[a][i])
    BY <1>3, <1>7, CoinOrigin DEF OwnedIn
  <2>2. PICK i \in DOMAIN Body[a] : o \in Made(Body[a][i])
    BY <2>1
  <2>3. PICK t : t = Body[a][i]
    OBVIOUS
  <2>4. a \in Path[n] /\ a \in Block
    BY <1>7, <2>1
  <2>5. t \in Tx /\ t \in Range(Body[a])
    BY <2>2, <2>3, <2>4, BodyFinite DEF Range
  <2>6. o \in OwnedIn(Outs[t])
    BY <1>12, <2>2, <2>3 DEF OwnedIn, Made
  <2>7. <<Height[a], t>> \in Notes(Path[n])
    BY <1>7, <2>4, <2>5, <2>6, NotesShape
  <2>8. Range(reader.records) = Notes(Path[n])
    BY <1>6, <1>7, <1>12, RecordsShape
  <2>9. PICK e \in C : e.op = o /\ e.height = Height[a]
    <3>1. PICK r : r = <<Height[a], t>>
      OBVIOUS
    <3>2. r[1] = Height[a] /\ r[2] = t
      BY <3>1
    <3> QED BY <1>9, <2>6, <2>7, <2>8, <3>1, <3>2
  <2>10. Height[a] \in Nat
    BY <2>4, RecursionAssumption
  <2>11. Height[a] # Pending
    BY <2>10 DEF Pending
  <2> QED BY <1>6, <2>9, <2>11
<1> QED BY <1>11, <1>12

\* A journal put together while no reorganization comes has every output of the balance above
\* it, and lists as confirmed and as pending at most what an earlier reorganization left in the
\* pool next to the transaction it spends from, for every chain, pool and account (view of
\* passbook.rs, on_reorg and on_block_connected of pool.rs); no transaction is twice on a path.
THEOREM JournalAlwaysExact == DistinctTxs => (BookSpec => []JournalExact)
<1> SUFFICES ASSUME DistinctTxs PROVE BookSpec => []JournalExact
  OBVIOUS
<1>1. BookInit => JournalIInv
  BY GenesisTip, FS_EmptySet DEF BookInit, JournalIInv, NewStatement, BookFields, AfterView
<1>2. JournalIInv /\ [BookNext]_bookVars => JournalIInv'
  BY JournalStep
<1> QED BY <1>1, <1>2, ReadsExact, PTL DEF BookSpec
=============================================================================
