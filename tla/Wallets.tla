------------------------------- MODULE Wallets -------------------------------
(***************************************************************************)
(* Wallets and the commands that use them: scytale-cli (wallet new and     *)
(* restore, transfer-p2pkh, embed-data, contract deploy and call), the     *)
(* studio, and the parts of the node they talk to: the account numbers of  *)
(* crates/scytale-account behind the HTTP gateway, the UTXO set and the    *)
(* pool.                                                                   *)
(*                                                                         *)
(* Every request is a step, so that commands, blocks, crashes of the node  *)
(* and commands cut short fall between any two.  A key stands for its      *)
(* address and passbook; PINs are right and signatures verify.  What a     *)
(* validator says of a call is left to Contracts.                          *)
(***************************************************************************)
EXTENDS Naturals, Sequences, FiniteSets, FiniteSetsExt, SequencesExt

CONSTANTS
  Owner,        \* key pairs
  Number,       \* account numbers
  Candidate,    \* derive_candidate of a key, for each attempt: 10 in the code
  WalletPath,   \* places of wallet files
  Session,      \* commands running at the same time
  None,         \* no file, number or key
  Spent,        \* amounts that are sent
  MinerFee, DustLimit,
  GatewayLimit, \* outputs a call of the gateway lists: 100
  MaxCoins,     \* bound: outputs ever confirmed
  Opening,      \* first states: a key, its wallet file and the values of its outputs
  MaxAsked      \* bound: commands, requests and payments of others, and crashes

ASSUME WalletAssumption ==
  /\ Candidate \in [Owner -> Seq(Number) \ {<< >>}]
  /\ None \notin Number
  /\ {MinerFee, DustLimit, GatewayLimit, MaxCoins, MaxAsked} \subseteq Nat
  /\ Spent \subseteq Nat
  /\ \A o \in Opening : /\ o.key \in Owner \cup {None} /\ o.path \in WalletPath \cup {None}
                         /\ o.values \in Seq(Nat)

VARIABLES
  aliases,   \* SidecarData of the running node
  sidecar,   \* alias_store.json
  leftover,  \* a crash left the temporary file of alias_store.json
  running,   \* the node is up
  files,     \* wallet files
  used,      \* keys that were generated
  asked,     \* how many of these there were
  cmd,       \* what each session is doing
  coins,     \* the UTXO set
  made,      \* outputs confirmed so far
  unmined    \* the pool

storeVars  == <<aliases, sidecar, leftover, running>>
spendVars  == <<coins, made, unmined>>
walletVars == <<storeVars, files, used, asked, cmd, spendVars>>

Asked == asked < MaxAsked /\ asked' = asked + 1

(***************************************************************************)
(* AliasStore.                                                             *)
(***************************************************************************)

NoAliases == [account |-> << >>, passbook |-> << >>]

BoundTo(d, n, k) == n \in DOMAIN d.account /\ d.account[n] = k

\* Mutant of Vacant: a passbook may take a second number.
MutVacant(d, n, k) == n \notin DOMAIN d.account

\* Neither AccountConflict nor PassbookConflict
Vacant(d, n, k) == n \notin DOMAIN d.account /\ k \notin DOMAIN d.passbook

Put(f, x, v) == [y \in DOMAIN f \cup {x} |-> IF y = x THEN v ELSE f[y]]

WithAlias(d, n, k) == [account |-> Put(d.account, n, k), passbook |-> Put(d.passbook, k, n)]

\* flush wrote the temporary file and renamed it; only then does the node take the data.
FlushOk(next) ==
  /\ ~ leftover
  /\ sidecar' = next /\ aliases' = next
  /\ UNCHANGED <<leftover, running>>

\* Mutant of FlushFails: an error of the file system is only logged.
MutFlushFails(next, r) ==
  r = "accepted" /\ aliases' = next /\ leftover' = FALSE /\ UNCHANGED <<sidecar, running>>

\* An error before or after the rename; create_new fails on a leftover file, which is removed.
FlushFails(next, r) ==
  /\ r = "failed"
  /\ sidecar' \in IF leftover THEN {sidecar} ELSE {sidecar, next}
  /\ leftover' = FALSE
  /\ UNCHANGED <<aliases, running>>

\* The node dies before or after the rename.
FlushCrash(next) ==
  /\ \/ sidecar' = next /\ leftover' = FALSE
     \/ sidecar' = sidecar /\ leftover' \in {leftover, TRUE}
  /\ running' = FALSE /\ aliases' = NoAliases

\* bind_alias and AliasStore::bind, under the lock of the store; r is the answer.
BindAlias(n, k, r) ==
  /\ running
  /\ LET d == aliases IN
       \/ BoundTo(d, n, k) /\ r = "accepted" /\ UNCHANGED storeVars
       \/ /\ ~ BoundTo(d, n, k) /\ ~ Vacant(d, n, k)
          /\ r = "conflict" /\ UNCHANGED storeVars
       \/ /\ Vacant(d, n, k)
          /\ \/ r = "accepted" /\ FlushOk(WithAlias(d, n, k))
             \/ FlushFails(WithAlias(d, n, k), r)
             \/ r = "lost" /\ FlushCrash(WithAlias(d, n, k))

\* The limit on write requests was reached.
RateLimited(r) == running /\ r = "failed" /\ UNCHANGED storeVars

Consistent(d) ==
  /\ \A n \in DOMAIN d.account : BoundTo(d, n, d.account[n]) /\ d.account[n] \in DOMAIN d.passbook
                                   /\ d.passbook[d.account[n]] = n
  /\ \A k \in DOMAIN d.passbook : BoundTo(d, d.passbook[k], k)

\* Node::open: a file that fails validate_indexes keeps the node down.
StartNode ==
  /\ ~ running /\ Consistent(sidecar)
  /\ running' = TRUE /\ aliases' = sidecar
  /\ leftover' \in IF leftover THEN BOOLEAN ELSE {FALSE}  \* its name holds the process id
  /\ UNCHANGED <<sidecar, files, used, asked, cmd, spendVars>>

\* Pending transactions are lost with the node.
CrashNode ==
  /\ Asked /\ running
  /\ running' = FALSE /\ aliases' = NoAliases /\ unmined' = {}
  /\ UNCHANGED <<sidecar, leftover, files, used, cmd, coins, made>>

\* Any client of the gateway binds a number to a key it can sign for.
OtherBinds(n, k) ==
  /\ Asked /\ k \in used
  /\ \E r \in {"accepted", "conflict", "failed", "lost"} : BindAlias(n, k, r)
  /\ unmined' = IF running' THEN unmined ELSE {}
  /\ UNCHANGED <<files, used, cmd, coins, made>>

(***************************************************************************)
(* Making a wallet.                                                        *)
(***************************************************************************)

Idle == [pc |-> "idle"]
Ends(s) == cmd' = [cmd EXCEPT ![s] = Idle]

WalletFile(k, secret, n, by) == [key |-> k, secret |-> secret, number |-> n, by |-> by]
NoFile == WalletFile(None, "none", None, "none")
Exists(p) == files[p] # NoFile

\* A node with no numbers yet; there may be a wallet with outputs.
WalletsInit ==
  /\ aliases = NoAliases /\ sidecar = NoAliases /\ leftover = FALSE /\ running = TRUE
  /\ \E o \in Opening :
       /\ files = [p \in WalletPath |-> IF p = o.path THEN WalletFile(o.key, "plain", None, "cli") ELSE NoFile]
       /\ used = {o.key} \ {None}
       /\ coins = {[n |-> i, owner |-> o.key, value |-> o.values[i]] : i \in DOMAIN o.values}
       /\ made = Len(o.values)
  /\ asked = 0 /\ cmd = [s \in Session |-> Idle] /\ unmined = {}

\* generate_new and generate_with_mnemonic write the key before it is encrypted.
WalletNew(s, p, k, force) ==
  /\ Asked
  /\ cmd[s].pc = "idle" /\ k \notin used
  /\ ~ Exists(p) \/ force
  /\ files' = [files EXCEPT ![p] = WalletFile(k, "plain", None, "cli")]
  /\ used' = used \cup {k}
  /\ cmd' = [cmd EXCEPT ![s] = [pc |-> "bind", path |-> p, key |-> k, attempt |-> 1]]
  /\ UNCHANGED <<storeVars, spendVars>>

\* register_account after the answer r to an attempt.  A wallet that gets no answer is saved
\* without a number; an error ends the command, and the file stays as it was generated.
AfterBind(s, r) ==
  LET c == cmd[s]
      save(n) == [pc |-> "save", path |-> c.path, key |-> c.key, number |-> n]
  IN  cmd' = [cmd EXCEPT ![s] =
        CASE r = "accepted" -> save(Candidate[c.key][c.attempt])
          [] r = "lost"     -> save(None)
          [] r = "conflict" /\ c.attempt < Len(Candidate[c.key]) -> [c EXCEPT !.attempt = @ + 1]
          [] OTHER -> Idle]

Register(s) ==
  /\ cmd[s].pc = "bind"
  /\ \E r \in {"accepted", "conflict", "failed", "lost"} :
       /\ BindAlias(Candidate[cmd[s].key][cmd[s].attempt], cmd[s].key, r) \/ RateLimited(r)
       /\ AfterBind(s, r) \/ AfterBind(s, "lost")
  /\ unmined' = IF running' THEN unmined ELSE {}
  /\ UNCHANGED <<files, used, asked, coins, made>>

RegisterOffline(s) ==
  /\ cmd[s].pc = "bind" /\ ~ running
  /\ AfterBind(s, "lost")
  /\ UNCHANGED <<storeVars, files, used, asked, spendVars>>

\* save_to, through another file and a rename
SaveWallet(s) ==
  /\ cmd[s].pc = "save"
  /\ files' = [files EXCEPT ![cmd[s].path] = WalletFile(cmd[s].key, "locked", cmd[s].number, "cli")]
  /\ Ends(s)
  /\ UNCHANGED <<storeVars, used, asked, spendVars>>

\* wallet restore never registers.
WalletRestore(p, k, force) ==
  /\ Asked
  /\ k \in used
  /\ ~ Exists(p) \/ force
  /\ files' = [files EXCEPT ![p] = WalletFile(k, "plain", None, "cli")]
  /\ UNCHANGED <<storeVars, used, cmd, spendVars>>

\* create_wallet_with_pin of the studio: the number is its first candidate, which no node saw.
StudioNew(p, k) ==
  /\ Asked
  /\ k \notin used /\ ~ Exists(p)
  /\ files' = [files EXCEPT ![p] = WalletFile(k, "locked", Candidate[k][1], "studio")]
  /\ used' = used \cup {k}
  /\ UNCHANGED <<storeVars, cmd, spendVars>>

(***************************************************************************)
(* Spending.                                                               *)
(***************************************************************************)

\* Which wallet files a kind of command can sign with: signing_key or signing_key_with_pin.  A
\* file of the studio has address and its alias p2pkh_address, a duplicate field to the command line.
CanSign(kind, f) ==
  IF kind = "studio" THEN f.secret = "locked"
  ELSE f.by = "cli" /\ (kind = "transfer" \/ f.secret = "plain")

\* The order in which the node lists outputs.  It is that of a HashMap, the same until the next block.
Listed(S) == [i \in 1 .. Cardinality(S) |-> CHOOSE c \in S : Cardinality({d \in S : d.n < c.n}) = i - 1]

\* GetUtxosByLock lists all, the gateway the first of them.
Offered(kind, S) ==
  IF kind \in {"deploy", "studio"} THEN SubSeq(Listed(S), 1, Min({Len(Listed(S)), GatewayLimit}))
                                   ELSE Listed(S)

Larger(d, c) == d.value > c.value \/ (d.value = c.value /\ d.n < c.n)
ByValue(S) == [i \in 1 .. Cardinality(S) |-> CHOOSE c \in S : Cardinality({d \in S : Larger(d, c)}) = i - 1]

\* All but the studio sort by value first.
Preferred(kind, seq) == IF kind = "studio" THEN seq ELSE ByValue(ToSet(seq))

SumOf(S) == MapThenSumSet(LAMBDA c : c.value, S)

\* Mutant of Selected: the smallest output that is enough.
MutSelected(kind, seq, needed) ==
  LET enough == {c \in ToSet(seq) : c.value >= needed}
  IN  IF enough = {} THEN {} ELSE {{CHOOSE c \in enough : \A d \in enough : c.value <= d.value}}

\* Outputs from the front until there is enough; none if there never is.
Selected(kind, seq, needed) ==
  LET first(i) == ToSet(SubSeq(Preferred(kind, seq), 1, i))
      enough   == {i \in 1 .. Len(seq) : SumOf(first(i)) >= needed}
  IN  IF enough = {} THEN {} ELSE {first(Min(enough))}

\* A command begins: it reads its wallet file.
Spend(s, p, kind, to, amount) ==
  /\ Asked
  /\ cmd[s].pc = "idle" /\ Exists(p)
  /\ CanSign(kind, files[p])
  /\ cmd' = [cmd EXCEPT ![s] = [pc |-> IF to \in Number THEN "resolve" ELSE "list", kind |-> kind,
                                key |-> files[p].key, number |-> to, to |-> to, amount |-> amount]]
  /\ UNCHANGED <<storeVars, files, used, spendVars>>

\* What a user may start: each goes on with the requests below.
TransferP2pkh(s, p, to, amount)    == Spend(s, p, "transfer", to, amount)
EmbedData(s, p)                    == Spend(s, p, "embed", "data", 0)
DeployContract(s, p, amount)       == Spend(s, p, "deploy", "script", amount)
SignAndBroadcast(s, p, to, amount) == Spend(s, p, "studio", to, amount)

\* resolve_account and resolve_alias; an unknown number ends the command.
Resolve(s) ==
  /\ cmd[s].pc = "resolve" /\ running
  /\ IF cmd[s].to \in DOMAIN aliases.account
     THEN cmd' = [cmd EXCEPT ![s].pc = "list", ![s].to = aliases.account[cmd[s].to]]
     ELSE Ends(s)
  /\ UNCHANGED <<storeVars, files, used, asked, spendVars>>

\* The outputs of the key; pending spends are not told.
ListCoins(s) ==
  /\ cmd[s].pc = "list" /\ running
  /\ LET c == cmd[s] IN
       cmd' = [cmd EXCEPT ![s] = [pc |-> "submit", kind |-> c.kind, key |-> c.key, number |-> c.number,
                                  to |-> c.to, amount |-> c.amount, seen |-> {x \in coins : x.owner = c.key},
                                  at |-> made]]
  /\ UNCHANGED <<storeVars, files, used, asked, spendVars>>

\* The signed transaction: what is asked for, and what is left back to the sender.
Payment(c, ins) ==
  LET left == SumOf(ins) - c.amount - MinerFee
      back == IF left > 0 THEN <<[owner |-> c.key, value |-> left]>> ELSE << >>
  IN  [key |-> c.key, kind |-> c.kind, number |-> c.number, to |-> c.to, seen |-> c.seen, at |-> c.at,
       ins |-> ins, outs |-> <<[owner |-> c.to, value |-> c.amount]>> \o back]

\* The node's rules that tell these transactions apart
Admits(t) ==
  /\ t.ins \subseteq coins
  /\ \A u \in unmined : u.ins \cap t.ins = {}
  /\ \A i \in DOMAIN t.outs : t.outs[i].owner # "data" => t.outs[i].value >= DustLimit

\* Insufficient funds and refusals end the command as well; an answer that is lost says nothing.
Submit(s) ==
  /\ cmd[s].pc = "submit" /\ running
  /\ LET c == cmd[s]
         sel == Selected(c.kind, Offered(c.kind, c.seen), c.amount + MinerFee)
         txs == {t \in {Payment(c, ins) : ins \in sel} : Admits(t)}
     IN  unmined' = unmined \cup txs
  /\ Ends(s)
  /\ UNCHANGED <<storeVars, files, used, asked, coins, made>>

\* contract call spends the one output it is given, whose value it asks the node for.
ContractCall(c, to) ==
  /\ running /\ c \in coins /\ c.owner = "script"
  /\ LET t == [key |-> "script", kind |-> "call", number |-> None, to |-> to, seen |-> {c}, at |-> made,
               ins |-> {c}, outs |-> <<[owner |-> to, value |-> c.value - MinerFee]>>]
     IN  c.value >= MinerFee /\ Admits(t) /\ unmined' = unmined \cup {t}
  /\ UNCHANGED <<storeVars, files, used, asked, cmd, coins, made>>

\* The user interrupts a command, or the node is down when it asks.
Cut(s) == cmd[s].pc # "idle" /\ Ends(s) /\ UNCHANGED <<storeVars, files, used, asked, spendVars>>

\* A block with the pending transactions, or one of a peer that pays a key.
Confirm(outs, ins) ==
  /\ made + Len(outs) <= MaxCoins
  /\ coins' = (coins \ ins) \cup {[n |-> made + i, owner |-> outs[i].owner, value |-> outs[i].value] :
                                    i \in {j \in DOMAIN outs : outs[j].owner # "data"}}
  /\ made' = made + Len(outs)
  /\ UNCHANGED <<storeVars, files, used, cmd>>

MinePending ==
  /\ running /\ unmined # {}
  /\ LET txs == SetToSeq(unmined)
     IN  Confirm(FlattenSeq([i \in DOMAIN txs |-> txs[i].outs]), UNION {t.ins : t \in unmined})
  /\ unmined' = {} /\ UNCHANGED asked

Receive(k, v) == Asked /\ running /\ Confirm(<<[owner |-> k, value |-> v]>>, {}) /\ UNCHANGED unmined

WalletsNext ==
  \/ StartNode \/ CrashNode
  \/ \E k \in Owner : \/ \E n \in Number : OtherBinds(n, k)
                      \/ \E v \in Spent : Receive(k, v + MinerFee)
  \/ \E p \in WalletPath, k \in Owner :
       \/ StudioNew(p, k)
       \/ \E force \in BOOLEAN : \/ WalletRestore(p, k, force)
                                 \/ \E s \in Session : WalletNew(s, p, k, force)
  \/ \E s \in Session :
       \/ Register(s) \/ RegisterOffline(s) \/ SaveWallet(s)
       \/ Resolve(s) \/ ListCoins(s) \/ Submit(s) \/ Cut(s)
       \/ \E p \in WalletPath, v \in Spent :
            \/ \E to \in Number \cup Owner : TransferP2pkh(s, p, to, v)
            \/ \E to \in Owner : SignAndBroadcast(s, p, to, v)
            \/ DeployContract(s, p, v)
       \/ \E p \in WalletPath : EmbedData(s, p)
  \/ \E c \in coins, k \in Owner : ContractCall(c, k)
  \/ MinePending

WalletsSpec == WalletsInit /\ [][WalletsNext]_walletVars

(***************************************************************************)
(* Properties.                                                             *)
(***************************************************************************)

\* A node always starts again: at whatever point of bind and flush it died or the file
\* system failed, alias_store.json passes validate_indexes.
StoreOpens == Consistent(sidecar)

\* The number in a file that the command line saved is its owner's: the node and its file
\* resolve it to the file's key, and a payment to that number pays the key, however
\* registrations collide, answers are lost and the node dies.
NumberHolds ==
  \A p \in WalletPath : Exists(p) /\ files[p].number # None /\ files[p].by = "cli" =>
    /\ BoundTo(sidecar, files[p].number, files[p].key)
    /\ running => BoundTo(aliases, files[p].number, files[p].key)
    /\ \A t \in unmined : t.number = files[p].number => t.to = files[p].key

\* A payment that is run again, because its answer was lost or the amount was wrong, does not
\* pay twice as long as no block came in between: both spend the first output of one list.
RerunRefused ==
  \A t, u \in unmined :
    t # u /\ t.key = u.key /\ {t.kind, u.kind} \subseteq {"transfer", "embed"} =>
      t.at # u.at \/ t.seen # u.seen

\* The number that a wallet file shows as registered is its owner's.
ShownNumbersHold ==
  \A p \in WalletPath : Exists(p) /\ files[p].number # None =>
    BoundTo(sidecar, files[p].number, files[p].key)
=============================================================================
