--------------------------- MODULE LedgerTheorems ---------------------------
(***************************************************************************)
(* Facts about the tree of blocks and its ledgers: a path is a ladder with *)
(* one block at every height, and two paths part at one block.             *)
(***************************************************************************)
EXTENDS Ledger, FoldTheorems

\* Applying a block keeps a UTXO set inside OutPoint (UtxoSet::apply_block).
LEMMA ApplyType ==
  ASSUME NEW b \in Block, NEW U \in SUBSET OutPoint
  PROVE  Apply(b, U) \subseteq OutPoint
<1>1. ASSUME NEW i \in DOMAIN Body[b] PROVE Made(Body[b][i]) \subseteq OutPoint
  <2>1. Body[b][i] \in Tx
    BY TransactionAssumption
  <2>2. Outs[Body[b][i]] \subseteq OutPoint
    BY <2>1, TransactionAssumption
  <2> QED BY <2>2 DEF Made
<1>2. Creates(b) \subseteq OutPoint
  BY <1>1 DEF Creates
<1> QED BY <1>2 DEF Apply

\* Unfolding the recursion along Parent for a block other than block 0.
LEMMA Unfold ==
  ASSUME NEW b \in Block, b # Genesis
  PROVE  /\ Parent[b] \in Block
         /\ Height[b] = Height[Parent[b]] + 1
         /\ CumWork[b] = CumWork[Parent[b]] + Work[b]
         /\ Work[b] \in Nat \ {0}
         /\ Path[b] = Path[Parent[b]] \cup {b}
         /\ LedgerAt[b] = Apply(b, LedgerAt[Parent[b]])
         /\ LedgerBefore(b) = LedgerAt[Parent[b]]
BY TreeAssumption, RecursionAssumption DEF LedgerBefore

-----------------------------------------------------------------------------
(***************************************************************************)
(* Paths as ladders: one block at every height.                            *)
(***************************************************************************)

\* The block at height h on the path of t.
At(t, h) == CHOOSE a \in Path[t] : Height[a] = h

\* The path of t climbs from block 0 to t, one block for each height.
Ladder(t) ==
  /\ t \in Block /\ t \in Path[t] /\ Genesis \in Path[t] /\ Path[t] \subseteq Block
  /\ Height[t] \in Nat
  /\ Cardinality(Path[t]) = Height[t] + 1
  /\ \A h \in 0 .. Height[t] : \E x \in Path[t] : Height[x] = h
  /\ \A x, y \in Path[t] : Height[x] = Height[y] => x = y
  /\ \A x \in Path[t] :
       /\ Height[x] \in 0 .. Height[t]
       /\ x # Genesis => Parent[x] \in Path[t]
       /\ Path[x] = {y \in Path[t] : Height[y] <= Height[x]}
       /\ Cardinality(Path[x]) = Height[x] + 1

\* Block 0 alone is a ladder.
LEMMA GenesisLadder == Ladder(Genesis)
<1>1. Path[Genesis] = {Genesis} /\ Height[Genesis] = 0 /\ Genesis \in Block
  BY TreeAssumption, RecursionAssumption
<1>2. Cardinality({Genesis}) = 1
  BY FS_Singleton
<1> QED BY <1>1, <1>2 DEF Ladder

\* A block on a ladder makes one more.
LEMMA NextLadder ==
  ASSUME NEW b \in Block, b # Genesis, Ladder(Parent[b])
  PROVE  Ladder(b)
<1> DEFINE p == Parent[b]
<1>1. Path[b] = Path[p] \cup {b} /\ Height[b] = Height[p] + 1
  BY Unfold
<1>2. /\ p \in Path[p] /\ Genesis \in Path[p] /\ Path[p] \subseteq Block /\ Height[p] \in Nat
      /\ Cardinality(Path[p]) = Height[p] + 1
      /\ \A h \in 0 .. Height[p] : \E x \in Path[p] : Height[x] = h
      /\ \A x, y \in Path[p] : Height[x] = Height[y] => x = y
      /\ \A x \in Path[p] :
           /\ Height[x] \in 0 .. Height[p]
           /\ x # Genesis => Parent[x] \in Path[p]
           /\ Path[x] = {y \in Path[p] : Height[y] <= Height[x]}
           /\ Cardinality(Path[x]) = Height[x] + 1
  BY DEF Ladder
<1> HIDE DEF p
<1>3. b \notin Path[p]
  <2> SUFFICES ASSUME b \in Path[p] PROVE FALSE
    OBVIOUS
  <2> QED BY <1>1, <1>2
<1>4. Cardinality(Path[b]) = Height[b] + 1
  <2>1. IsFiniteSet(Path[p])
    BY <1>2, TreeAssumption, FS_Subset
  <2>2. Cardinality(Path[p] \cup {b}) = Cardinality(Path[p]) + 1
    BY <1>3, <2>1, FS_AddElement
  <2> QED BY <1>1, <1>2, <2>2
<1>5. /\ b \in Path[b] /\ Genesis \in Path[b] /\ Path[b] \subseteq Block /\ Height[b] \in Nat
  BY <1>1, <1>2
<1>6. ASSUME NEW h \in 0 .. Height[b] PROVE \E x \in Path[b] : Height[x] = h
  <2>1. CASE h = Height[b]
    BY <1>5, <2>1
  <2>2. CASE h # Height[b]
    <3>1. h \in 0 .. Height[p]
      BY <1>1, <1>2, <2>2
    <3> QED BY <1>1, <1>2, <3>1
  <2> QED BY <2>1, <2>2
<1>7. ASSUME NEW x \in Path[b], NEW y \in Path[b], Height[x] = Height[y] PROVE x = y
  BY <1>1, <1>2, <1>7
<1>8. ASSUME NEW x \in Path[b]
      PROVE  /\ Height[x] \in 0 .. Height[b]
             /\ x # Genesis => Parent[x] \in Path[b]
             /\ Path[x] = {y \in Path[b] : Height[y] <= Height[x]}
             /\ Cardinality(Path[x]) = Height[x] + 1
  <2>1. CASE x = b
    <3>1. \A y \in Path[b] : Height[y] <= Height[b]
      BY <1>1, <1>2
    <3>2. Path[b] = {y \in Path[b] : Height[y] <= Height[b]}
      BY <3>1
    <3>3. Parent[b] \in Path[b]
      BY <1>1, <1>2 DEF p
    <3> QED BY <1>4, <1>5, <2>1, <3>2, <3>3
  <2>2. CASE x # b
    <3>1. x \in Path[p]
      BY <1>1, <2>2
    <3>2. Height[x] \in 0 .. Height[p]
      BY <1>2, <3>1
    <3>3. {y \in Path[b] : Height[y] <= Height[x]} = {y \in Path[p] : Height[y] <= Height[x]}
      BY <1>1, <1>2, <3>2
    <3> QED BY <1>1, <1>2, <3>1, <3>2, <3>3
  <2> QED BY <2>1, <2>2
<1> QED BY <1>4, <1>5, <1>6, <1>7, <1>8 DEF Ladder

\* Every block on a ladder stands on a ladder of its own.
LEMMA LowerLadder ==
  ASSUME NEW t, Ladder(t), NEW x \in Path[t]
  PROVE  Ladder(x)
<1>1. /\ x \in Block /\ Genesis \in Path[t] /\ Path[t] \subseteq Block /\ Height[t] \in Nat
      /\ \A h \in 0 .. Height[t] : \E y \in Path[t] : Height[y] = h
      /\ \A y, z \in Path[t] : Height[y] = Height[z] => y = z
      /\ \A y \in Path[t] :
           /\ Height[y] \in 0 .. Height[t]
           /\ y # Genesis => Parent[y] \in Path[t]
           /\ Path[y] = {z \in Path[t] : Height[z] <= Height[y]}
           /\ Cardinality(Path[y]) = Height[y] + 1
  BY DEF Ladder
<1>2. Height[Genesis] = 0 /\ Height[x] \in 0 .. Height[t]
  BY <1>1, RecursionAssumption
<1>3. Path[x] = {y \in Path[t] : Height[y] <= Height[x]}
  BY <1>1
<1>4. /\ x \in Path[x] /\ Genesis \in Path[x] /\ Path[x] \subseteq Block
      /\ Cardinality(Path[x]) = Height[x] + 1
  <2>1. Height[Genesis] <= Height[x] /\ Height[x] <= Height[x]
    BY <1>1, <1>2
  <2>2. x \in Path[x] /\ Genesis \in Path[x] /\ Path[x] \subseteq Block
    BY <1>1, <1>3, <2>1
  <2> QED BY <1>1, <2>2
<1>5. ASSUME NEW h \in 0 .. Height[x] PROVE \E y \in Path[x] : Height[y] = h
  <2>1. PICK y \in Path[t] : Height[y] = h
    BY <1>1, <1>2
  <2> QED BY <1>2, <1>3, <2>1
<1>6. ASSUME NEW y \in Path[x]
      PROVE  /\ Height[y] \in 0 .. Height[x]
             /\ y # Genesis => Parent[y] \in Path[x]
             /\ Path[y] = {z \in Path[x] : Height[z] <= Height[y]}
             /\ Cardinality(Path[y]) = Height[y] + 1
  <2>1. y \in Path[t] /\ Height[y] \in 0 .. Height[x]
    BY <1>1, <1>2, <1>3
  <2>2. ASSUME y # Genesis PROVE Parent[y] \in Path[x]
    <3>1. Parent[y] \in Path[t] /\ Height[y] = Height[Parent[y]] + 1 /\ Height[Parent[y]] \in Nat
      BY <1>1, <2>1, <2>2, Unfold
    <3> QED BY <1>2, <1>3, <2>1, <3>1
  <2>3. {z \in Path[x] : Height[z] <= Height[y]} = {z \in Path[t] : Height[z] <= Height[y]}
    BY <1>1, <1>2, <1>3, <2>1
  <2> QED BY <1>1, <2>1, <2>2, <2>3
<1>7. \A y, z \in Path[x] : Height[y] = Height[z] => y = z
  BY <1>1, <1>3
<1> QED BY <1>1, <1>2, <1>4, <1>5, <1>6, <1>7 DEF Ladder

\* The rungs: the block at a height is the only one there, and its parent is the
\* block one lower.
LEMMA Rungs ==
  ASSUME NEW t, Ladder(t)
  PROVE  /\ \A h \in 0 .. Height[t] : At(t, h) \in Path[t] /\ Height[At(t, h)] = h
         /\ \A x \in Path[t] : At(t, Height[x]) = x
         /\ At(t, Height[t]) = t
         /\ \A h \in 1 .. Height[t] : At(t, h) # Genesis /\ Parent[At(t, h)] = At(t, h - 1)
<1>1. ASSUME NEW h \in 0 .. Height[t] PROVE At(t, h) \in Path[t] /\ Height[At(t, h)] = h
  BY DEF Ladder, At
<1>2. ASSUME NEW x \in Path[t] PROVE At(t, Height[x]) = x
  BY <1>1 DEF Ladder
<1>3. At(t, Height[t]) = t
  BY <1>2 DEF Ladder
<1>4. ASSUME NEW h \in 1 .. Height[t]
      PROVE  At(t, h) # Genesis /\ Parent[At(t, h)] = At(t, h - 1)
  <2>1. At(t, h) \in Path[t] /\ Height[At(t, h)] = h /\ Height[t] \in Nat
    BY <1>1 DEF Ladder
  <2>2. At(t, h) # Genesis
    BY <2>1, RecursionAssumption
  <2>3. /\ Parent[At(t, h)] \in Path[t]
        /\ Height[Parent[At(t, h)]] \in Nat
        /\ Height[At(t, h)] = Height[Parent[At(t, h)]] + 1
    BY <2>1, <2>2, Unfold DEF Ladder
  <2>4. Height[Parent[At(t, h)]] = h - 1
    BY <2>1, <2>3
  <2> QED BY <1>2, <2>2, <2>3, <2>4
<1> QED BY <1>1, <1>2, <1>3, <1>4

\* Every block stands on a ladder.
LEMMA EveryLadder == \A b \in Block : Ladder(b)
<1> DEFINE T == {n \in Nat : \A b \in Block : Height[b] = n => Ladder(b)}
<1>1. 0 \in T
  <2> SUFFICES ASSUME NEW b \in Block, Height[b] = 0 PROVE Ladder(b)
    OBVIOUS
  <2>1. CASE b = Genesis
    BY <2>1, GenesisLadder
  <2>2. CASE b # Genesis
    <3>1. Parent[b] \in Block /\ Height[b] = Height[Parent[b]] + 1
      BY <2>2, Unfold
    <3>2. Height[Parent[b]] \in Nat
      BY <3>1, RecursionAssumption
    <3> QED BY <3>1, <3>2
  <2> QED BY <2>1, <2>2
<1>2. ASSUME NEW n \in Nat, n \in T PROVE n + 1 \in T
  <2> SUFFICES ASSUME NEW b \in Block, Height[b] = n + 1 PROVE Ladder(b)
    OBVIOUS
  <2>1. b # Genesis
    BY RecursionAssumption
  <2>2. Parent[b] \in Block /\ Height[b] = Height[Parent[b]] + 1 /\ Height[Parent[b]] \in Nat
    BY <2>1, Unfold, RecursionAssumption
  <2>3. Height[Parent[b]] = n
    BY <2>2
  <2>4. Ladder(Parent[b])
    BY <1>2, <2>2, <2>3
  <2> QED BY <2>1, <2>4, NextLadder
<1>3. Nat \subseteq T
  <2> HIDE DEF T
  <2> QED BY <1>1, <1>2, OneByOne
<1> QED BY <1>3, RecursionAssumption

\* A coin of the replay was made by a transaction of a block on the path.
LEMMA CoinOrigin ==
  \A b \in Block : \A o \in LedgerAt[b] :
    \E a \in Path[b] : \E i \in DOMAIN Body[a] : o \in Made(Body[a][i])
<1> DEFINE Origin(b) == \A o \in LedgerAt[b] :
                          \E a \in Path[b] : \E i \in DOMAIN Body[a] : o \in Made(Body[a][i])
           T == {n \in Nat : \A b \in Block : Height[b] = n => Origin(b)}
<1>1. ASSUME NEW n \in Nat, \A m \in Nat : m < n => m \in T PROVE n \in T
  <2> SUFFICES ASSUME NEW b \in Block, Height[b] = n, NEW o \in LedgerAt[b]
               PROVE  \E a \in Path[b] : \E i \in DOMAIN Body[a] : o \in Made(Body[a][i])
    OBVIOUS
  <2>1. CASE o \in Creates(b)
    <3>1. b \in Path[b]
      BY EveryLadder DEF Ladder
    <3> QED BY <2>1, <3>1 DEF Creates
  <2>2. CASE o \notin Creates(b)
    <3>1. b # Genesis
      BY <2>2, RecursionAssumption DEF Apply
    <3>2. /\ Parent[b] \in Block /\ Height[b] = Height[Parent[b]] + 1
          /\ Path[b] = Path[Parent[b]] \cup {b} /\ LedgerAt[b] = Apply(b, LedgerAt[Parent[b]])
          /\ Height[Parent[b]] \in Nat
      BY <3>1, Unfold, RecursionAssumption
    <3>3. o \in LedgerAt[Parent[b]]
      BY <2>2, <3>2 DEF Apply
    <3>4. Height[Parent[b]] \in T
      BY <1>1, <3>2
    <3>5. Origin(Parent[b])
      BY <3>2, <3>4
    <3> QED BY <3>2, <3>3, <3>5
  <2> QED BY <2>1, <2>2
<1>2. Nat \subseteq T
  <2> HIDE DEF T
  <2> QED BY <1>1, SmallerFirst
<1> QED BY <1>2, RecursionAssumption

\* No two blocks of one path hold the same transaction.  Nothing in the code
\* makes a coinbase differ from an earlier one whose outputs are all spent, so
\* this is a hypothesis about the blocks where a theorem needs it.
DistinctTxs ==
  \A b \in Block : \A x, y \in Path[b] : x # y => Range(Body[x]) \cap Range(Body[y]) = {}

\* Every coin that a sound block spends was made by a transaction of its path.
LEMMA SpentMade ==
  ASSUME NEW a \in Block, Sound(a), NEW o \in Spends(a)
  PROVE  \E c \in Path[a] : \E j \in DOMAIN Body[c] : o \in Made(Body[c][j])
<1>1. Fits(a, LedgerBefore(a))
  <2>1. CASE a = Genesis
    BY <2>1, GenesisAssumption DEF Applies, LedgerBefore
  <2>2. CASE a # Genesis
    BY <2>2 DEF Sound, Connectable, ScriptsVerify
  <2> QED BY <2>1, <2>2
<1>2. PICK i \in DOMAIN Body[a] : o \in Ins[Body[a][i]]
  BY DEF Spends
<1>3. o \in StagedAt(LedgerBefore(a), a, i)
  BY <1>1, <1>2 DEF Fits
<1>4. a \in Path[a] /\ Path[a] \subseteq Block
  BY EveryLadder DEF Ladder
<1>5. CASE o \in LedgerBefore(a)
  <2>1. a # Genesis
    BY <1>5 DEF LedgerBefore
  <2>2. Parent[a] \in Block /\ LedgerBefore(a) = LedgerAt[Parent[a]] /\ Path[Parent[a]] \subseteq Path[a]
    BY <2>1, Unfold
  <2>3. PICK c \in Path[Parent[a]] : \E j \in DOMAIN Body[c] : o \in Made(Body[c][j])
    BY <1>5, <2>2, CoinOrigin
  <2> QED BY <2>2, <2>3
<1>6. CASE o \notin LedgerBefore(a)
  <2>1. PICK j \in 1 .. i - 1 : o \in Made(Body[a][j])
    BY <1>3, <1>6 DEF StagedAt
  <2>2. j \in DOMAIN Body[a]
    <3>1. Body[a] \in Seq(Tx)
      BY TransactionAssumption
    <3> QED BY <1>2, <2>1, <3>1
  <2> QED BY <1>4, <2>1, <2>2
<1> QED BY <1>5, <1>6

\* An outpoint holds the id of the transaction that creates it.
OwnOutputs == \A t, u \in Tx : t # u => Outs[t] \cap Outs[u] = {}

\* What the blocks of a sound path spend is not a coin at its end.
LEMMA SpentGone ==
  ASSUME DistinctTxs, OwnOutputs
  PROVE  \A b \in Block : (\A a \in Path[b] : Sound(a)) =>
           \A a \in Path[b] : Spends(a) \cap LedgerAt[b] = {}
<1> DEFINE Gone(b) == (\A a \in Path[b] : Sound(a)) =>
                        \A a \in Path[b] : Spends(a) \cap LedgerAt[b] = {}
           T == {n \in Nat : \A b \in Block : Height[b] = n => Gone(b)}
<1>1. ASSUME NEW n \in Nat, \A m \in Nat : m < n => m \in T PROVE n \in T
  <2> SUFFICES ASSUME NEW b \in Block, Height[b] = n, \A a \in Path[b] : Sound(a),
                      NEW a \in Path[b], NEW o \in Spends(a), o \in LedgerAt[b]
               PROVE  FALSE
    OBVIOUS
  <2>1. \E U : LedgerAt[b] = Apply(b, U)
    BY RecursionAssumption
  <2>2. a # b
    BY <2>1 DEF Apply
  <2>3. b # Genesis
    BY <2>2, RecursionAssumption
  <2>4. PICK p \in Block : p = Parent[b]
    BY <2>3, Unfold
  <2>5. Height[b] = Height[p] + 1 /\ Path[b] = Path[p] \cup {b} /\ LedgerAt[b] = Apply(b, LedgerAt[p])
    BY <2>3, <2>4, Unfold
  <2>6. Height[p] \in Nat /\ Height[p] < n
    BY <2>5, RecursionAssumption
  <2>7. Height[p] \in T
    BY <1>1, <2>6
  <2>8. a \in Path[p] /\ \A x \in Path[p] : Sound(x)
    BY <2>2, <2>5
  <2>9. o \notin LedgerAt[p]
    <3>1. Gone(p)
      BY <2>7
    <3> QED BY <2>8, <3>1
  <2>10. o \in Creates(b)
    BY <2>5, <2>9 DEF Apply
  <2>11. PICK i \in DOMAIN Body[b] : o \in Made(Body[b][i])
    BY <2>10 DEF Creates
  <2>12. Path[p] \subseteq Block /\ Path[a] \subseteq Path[p] /\ \A x \in Path[p] : Height[x] \in 0 .. Height[p]
    BY <2>8, EveryLadder DEF Ladder
  <2>13. PICK c \in Path[a] : \E j \in DOMAIN Body[c] : o \in Made(Body[c][j])
    BY <2>8, <2>12, SpentMade
  <2>14. c # b /\ c \in Path[b] /\ b \in Path[b]
    <3>1. Height[c] \in 0 .. Height[p]
      BY <2>12, <2>13
    <3>2. Height[c] # Height[b]
      BY <2>5, <2>6, <3>1
    <3> QED BY <2>5, <2>12, <2>13, <3>2
  <2>15. PICK j \in DOMAIN Body[c] : o \in Made(Body[c][j])
    BY <2>13
  <2>16. Body[b][i] \in Tx /\ Body[c][j] \in Tx
    BY <2>12, <2>13, TransactionAssumption
  <2>17. Body[b][i] = Body[c][j]
    BY <2>11, <2>15, <2>16 DEF Made, OwnOutputs
  <2>18. Body[b][i] \in Range(Body[b]) \cap Range(Body[c])
    BY <2>15, <2>17 DEF Range
  <2> QED BY <2>14, <2>18 DEF DistinctTxs
<1>2. Nat \subseteq T
  <2> HIDE DEF T
  <2> QED BY <1>1, SmallerFirst
<1> QED BY <1>2, RecursionAssumption

\* Two paths part at one block (find_common_ancestor).
LEMMA ForkExists ==
  ASSUME NEW t, Ladder(t), NEW b, Ladder(b)
  PROVE  \E f \in Path[t] \cap Path[b] : Path[f] = Path[t] \cap Path[b]
<1> DEFINE D == {n \in Nat : \E x \in Path[t] \cap Path[b] : n = Height[t] - Height[x]}
<1>1. Height[t] \in Nat /\ \A x \in Path[t] : Height[x] \in 0 .. Height[t]
  BY DEF Ladder
<1>2. Genesis \in Path[t] \cap Path[b] /\ Height[t] - Height[Genesis] \in Nat
  BY <1>1, RecursionAssumption DEF Ladder
<1>3. D \in SUBSET Nat /\ D # {}
  BY <1>2
<1>4. PICK n \in D : \A m \in D : n <= m
  <2> HIDE DEF D
  <2> QED BY <1>3, LeastNat
<1>5. PICK f \in Path[t] \cap Path[b] : n = Height[t] - Height[f]
  OBVIOUS
<1>6. ASSUME NEW x \in Path[t] \cap Path[b] PROVE Height[x] <= Height[f]
  <2>1. Height[t] - Height[x] \in Nat /\ Height[x] \in Nat /\ Height[f] \in Nat
    BY <1>1
  <2>2. n <= Height[t] - Height[x]
    BY <1>4, <2>1
  <2> QED BY <1>1, <1>5, <2>1, <2>2
<1>7. /\ Path[f] = {y \in Path[t] : Height[y] <= Height[f]}
      /\ Path[f] = {y \in Path[b] : Height[y] <= Height[f]}
  BY DEF Ladder
<1>8. Path[f] = Path[t] \cap Path[b]
  BY <1>6, <1>7
<1> QED BY <1>8

\* The blocks above a fork, in the order in which the database takes them.
LEMMA BranchOrder ==
  ASSUME NEW t, Ladder(t), NEW f \in Path[t], f # t
  PROVE  /\ Height[f] \in Nat /\ Height[t] - Height[f] \in Nat
         /\ ByHeight(Path[t] \ Path[f]) =
              [i \in 1 .. (Height[t] - Height[f]) |-> At(t, Height[f] + i)]
<1> DEFINE E == Path[t] \ Path[f]
           hf == Height[f]
           n == Height[t] - Height[f]
<1>1. /\ Height[t] \in Nat /\ Path[t] \subseteq Block
      /\ \A x \in Path[t] : Height[x] \in 0 .. Height[t]
      /\ Path[f] = {y \in Path[t] : Height[y] <= hf}
      /\ Cardinality(Path[t]) = Height[t] + 1
      /\ Cardinality(Path[f]) = hf + 1
      /\ t \in Path[t]
      /\ \A x, y \in Path[t] : Height[x] = Height[y] => x = y
  BY DEF Ladder
<1>2. hf \in Nat /\ n \in Nat /\ Height[t] = hf + n
  BY <1>1
<1>3. n # 0
  BY <1>1, <1>2
<1>4. Cardinality(E) = n
  <2>1. IsFiniteSet(Path[t])
    BY <1>1, TreeAssumption, FS_Subset
  <2>2. Path[t] \cap Path[f] = Path[f]
    BY <1>1
  <2>3. Cardinality(Path[t] \ Path[f]) = Cardinality(Path[t]) - Cardinality(Path[t] \cap Path[f])
    BY <2>1, FS_Difference
  <2>4. Cardinality(E) = Cardinality(Path[t]) - Cardinality(Path[f])
    BY <2>2, <2>3
  <2>5. Cardinality(E) = (Height[t] + 1) - (hf + 1)
    BY <1>1, <2>4
  <2> HIDE DEF E
  <2> QED BY <1>1, <1>2, <2>5
<1>5. \A x \in E : Height[x] \in Nat /\ Height[x] > hf
  BY <1>1, <1>2
<1>6. ASSUME NEW i \in 1 .. n
      PROVE  /\ At(t, hf + i) \in E
             /\ Height[At(t, hf + i)] = hf + i
             /\ \A x \in E : Height[x] = hf + i => x = At(t, hf + i)
  <2>1. hf + i \in 0 .. Height[t] /\ ~ (hf + i <= hf)
    BY <1>2
  <2>2. At(t, hf + i) \in Path[t] /\ Height[At(t, hf + i)] = hf + i
    BY <2>1, Rungs
  <2>3. At(t, hf + i) \in E
    BY <1>1, <2>1, <2>2
  <2> QED BY <1>1, <2>2, <2>3
<1> HIDE DEF E, n, hf
<1> DEFINE S == {Height[a] : a \in E}
<1>7. Min(S) = hf + 1
  <2>1. hf + 1 \in S
    <3>1. At(t, hf + 1) \in E /\ Height[At(t, hf + 1)] = hf + 1
      BY <1>2, <1>3, <1>6
    <3> QED BY <3>1
  <2>2. \A y \in S : y \in Nat /\ hf + 1 <= y
    BY <1>2, <1>5
  <2> HIDE DEF S
  <2>3. \A x \in S : (\A y \in S : x <= y) => x = hf + 1
    BY <1>2, <2>1, <2>2
  <2> QED BY <2>1, <2>2, <2>3 DEF Min
<1>8. ByHeight(E) = [i \in 1 .. n |-> CHOOSE a \in E : Height[a] = Min(S) + i - 1]
  BY <1>4 DEF ByHeight
<1> HIDE DEF S
<1>9. ASSUME NEW i \in 1 .. n PROVE (CHOOSE a \in E : Height[a] = Min(S) + i - 1) = At(t, hf + i)
  <2>1. Min(S) + i - 1 = hf + i
    BY <1>2, <1>7
  <2> QED BY <1>6, <2>1
<1>10. ByHeight(E) = [i \in 1 .. n |-> At(t, hf + i)]
  BY <1>8, <1>9
<1> QED BY <1>2, <1>10 DEF E, n, hf
=============================================================================
