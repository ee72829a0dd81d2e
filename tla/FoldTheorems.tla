---------------------------- MODULE FoldTheorems ----------------------------
(***************************************************************************)
(* Facts about natural numbers and about the folds of the community        *)
(* modules, for the proofs about the modules that sum over a set of        *)
(* outputs or write the blocks of a branch one after the other.            *)
(*                                                                         *)
(* Induction is over the elements of a set T, which the caller defines by  *)
(* the property to prove; a recursive function is shown to exist on ever   *)
(* larger arguments.                                                       *)
(***************************************************************************)
EXTENDS Integers, Sequences, FiniteSets, FiniteSetsExt, SequencesExt,
        FiniteSetTheorems, SequenceTheorems, WellFoundedInduction, TLAPS

\* A set of natural numbers that is not empty has a least element: the next worker of
\* start_mining, the shortest prefix of outputs that is enough.
LEMMA LeastNat ==
  ASSUME NEW T \in SUBSET Nat, T # {}
  PROVE  \E x \in T : \A y \in T : x <= y
<1>1. PICK x \in T : \A y \in T : ~ (<<y, x>> \in OpToRel(<, Nat))
  BY NatLessThanWellFounded, WFMin
<1>2. \A y \in T : ~ (y < x)
  BY <1>1 DEF OpToRel
<1> QED BY <1>2

\* Induction: what holds of a number when it holds of all below it holds of all.
LEMMA SmallerFirst ==
  ASSUME NEW T, \A n \in Nat : (\A m \in Nat : m < n => m \in T) => n \in T
  PROVE  Nat \subseteq T
<1> DEFINE Bad == {n \in Nat : n \notin T}
<1>1. ASSUME Bad # {} PROVE FALSE
  <2>1. PICK n \in Bad : \A m \in Bad : n <= m
    <3>1. Bad \in SUBSET Nat
      OBVIOUS
    <3> HIDE DEF Bad
    <3> QED BY <1>1, <3>1, LeastNat
  <2>2. \A m \in Nat : m < n => m \in T
    BY <2>1
  <2> QED BY <2>1, <2>2
<1> QED BY <1>1

\* Induction from one number to the next.
LEMMA OneByOne ==
  ASSUME NEW T, 0 \in T, \A n \in Nat : n \in T => n + 1 \in T
  PROVE  Nat \subseteq T
<1>1. ASSUME NEW n \in Nat, \A m \in Nat : m < n => m \in T PROVE n \in T
  <2>1. CASE n = 0
    BY <2>1
  <2>2. CASE n # 0
    <3>1. n - 1 \in Nat /\ n - 1 < n /\ (n - 1) + 1 = n
      BY <2>2
    <3> QED BY <1>1, <3>1
  <2> QED BY <2>1, <2>2
<1> QED BY <1>1, SmallerFirst

-----------------------------------------------------------------------------
(***************************************************************************)
(* Sums over finite sets: MapThenSumSet.                                   *)
(***************************************************************************)

AnyOf(s) == CHOOSE x \in s : TRUE

\* f is the function that MapThenSumSet recurses with, for the addends h.
Sums(f, h, S) ==
  f = [s \in SUBSET S |-> IF s = {} THEN 0 ELSE h[AnyOf(s)] + f[s \ {AnyOf(s)}]]

Total(h, S) == MapThenSumSet(LAMBDA x : h[x], S)

\* The recursion of MapThenSumSet over a finite set defines a function.
LEMMA SumsExist ==
  ASSUME NEW S, IsFiniteSet(S), NEW h
  PROVE  \E f : Sums(f, h, S)
<1> DEFINE Small(n) == {s \in SUBSET S : Cardinality(s) <= n}
           Step(f, s) == IF s = {} THEN 0 ELSE h[AnyOf(s)] + f[s \ {AnyOf(s)}]
           Good(f, n) == f = [s \in Small(n) |-> Step(f, s)]
           T == {n \in Nat : \E f : Good(f, n)}
<1>1. ASSUME NEW s \in SUBSET S
      PROVE  /\ IsFiniteSet(s) /\ Cardinality(s) \in Nat
             /\ Cardinality(s) = 0 <=> s = {}
             /\ s # {} => /\ AnyOf(s) \in s /\ Cardinality(s \ {AnyOf(s)}) = Cardinality(s) - 1
                          /\ s \ {AnyOf(s)} \in SUBSET S
  <2>1. IsFiniteSet(s)
    BY FS_Subset
  <2>2. s # {} => AnyOf(s) \in s
    BY DEF AnyOf
  <2> QED BY <2>1, <2>2, FS_CardinalityType, FS_EmptySet, FS_RemoveElement
<1>2. 0 \in T
  <2> DEFINE f == [s \in Small(0) |-> 0]
  <2>1. ASSUME NEW s \in Small(0) PROVE s = {}
    <3>1. s \in SUBSET S /\ Cardinality(s) <= 0
      OBVIOUS
    <3>2. Cardinality(s) \in Nat /\ (Cardinality(s) = 0 <=> s = {})
      BY <1>1, <3>1
    <3> QED BY <3>1, <3>2
  <2>2. f = [s \in Small(0) |-> Step(f, s)]
    BY <2>1
  <2> QED BY <2>2
<1>3. ASSUME NEW n \in Nat, n \in T PROVE n + 1 \in T
  <2>1. PICK f : Good(f, n)
    BY <1>3
  <2> DEFINE g == [s \in Small(n + 1) |-> IF s \in Small(n) THEN f[s] ELSE Step(f, s)]
  <2>2. ASSUME NEW s \in Small(n + 1) PROVE g[s] = Step(g, s)
    <3>1. s # {} => s \ {AnyOf(s)} \in Small(n) /\ s \ {AnyOf(s)} \in Small(n + 1)
      BY <1>1
    <3>2. Step(g, s) = Step(f, s)
      BY <3>1
    <3>3. s \in Small(n) => f[s] = Step(f, s)
      <4> HIDE DEF Small, Step
      <4> QED BY <2>1
    <3> HIDE DEF Small, Step
    <3> QED BY <3>2, <3>3
  <2>3. g = [s \in Small(n + 1) |-> Step(g, s)]
    <3> HIDE DEF Step, Small
    <3>1. g = [s \in Small(n + 1) |-> g[s]]
      OBVIOUS
    <3> HIDE DEF g
    <3> QED BY <2>2, <3>1
  <2> QED
    <3> HIDE DEF Step, Small, g
    <3> QED BY <2>3
<1>4. Nat \subseteq T
  <2> HIDE DEF T
  <2> QED BY <1>2, <1>3, OneByOne
<1>5. Cardinality(S) \in Nat
  BY FS_CardinalityType
<1>6. PICK f : Good(f, Cardinality(S))
  BY <1>4, <1>5
<1>7. Small(Cardinality(S)) = SUBSET S
  BY FS_Subset
<1> QED BY <1>6, <1>7 DEF Sums

\* Two such functions agree where both are defined, and their addends do.
LEMMA SumsAgree ==
  ASSUME NEW S, NEW f, NEW h, Sums(f, h, S),
         NEW R, NEW g, NEW k, Sums(g, k, R),
         NEW u, IsFiniteSet(u), u \in SUBSET S, u \in SUBSET R, \A x \in u : h[x] = k[x]
  PROVE  f[u] = g[u]
<1> DEFINE T == {n \in Nat : \A s \in SUBSET u : Cardinality(s) = n => f[s] = g[s]}
<1>1. ASSUME NEW n \in Nat, \A m \in Nat : m < n => m \in T PROVE n \in T
  <2> SUFFICES ASSUME NEW s \in SUBSET u, Cardinality(s) = n PROVE f[s] = g[s]
    OBVIOUS
  <2>1. s \in SUBSET S /\ s \in SUBSET R /\ IsFiniteSet(s)
    BY FS_Subset
  <2>2. CASE s = {}
    BY <2>1, <2>2 DEF Sums
  <2>3. CASE s # {}
    <3> DEFINE r == s \ {AnyOf(s)}
    <3>1. AnyOf(s) \in s
      BY <2>3 DEF AnyOf
    <3>2. Cardinality(r) = n - 1 /\ n - 1 \in Nat
      BY <2>1, <3>1, FS_RemoveElement, FS_CardinalityType, FS_Subset
    <3>3. f[r] = g[r]
      BY <1>1, <3>2
    <3>4. f[s] = h[AnyOf(s)] + f[r] /\ g[s] = k[AnyOf(s)] + g[r]
      BY <2>1, <2>3 DEF Sums
    <3> QED BY <3>1, <3>3, <3>4
  <2> QED BY <2>2, <2>3
<1>2. Nat \subseteq T
  <2> HIDE DEF T
  <2> QED BY <1>1, SmallerFirst
<1>3. Cardinality(u) \in Nat
  BY FS_CardinalityType
<1> QED BY <1>2, <1>3

\* The sum is the value of that function.
LEMMA TotalIsSum ==
  ASSUME NEW S, IsFiniteSet(S), NEW h
  PROVE  \E f : Sums(f, h, S) /\ Total(h, S) = f[S]
<1> DEFINE f == CHOOSE g : Sums(g, h, S)
<1>1. Sums(f, h, S)
  BY SumsExist
<1>2. Total(h, S) = f[S]
  BY DEF Total, MapThenSumSet, MapThenFoldSet, Sums, AnyOf
<1> QED BY <1>1, <1>2

\* A sum is the same for addends that are the same.
LEMMA TotalSame ==
  ASSUME NEW S, IsFiniteSet(S), NEW h, NEW k, \A x \in S : h[x] = k[x]
  PROVE  Total(h, S) = Total(k, S)
<1>1. PICK f : Sums(f, h, S) /\ Total(h, S) = f[S]
  BY TotalIsSum
<1>2. PICK g : Sums(g, k, S) /\ Total(k, S) = g[S]
  BY TotalIsSum
<1> QED BY <1>1, <1>2, SumsAgree

\* The sum over nothing, and a first summand taken out.
LEMMA TotalUnfold ==
  ASSUME NEW S, IsFiniteSet(S), NEW h
  PROVE  /\ S = {} => Total(h, S) = 0
         /\ S # {} => \E x \in S : Total(h, S) = h[x] + Total(h, S \ {x})
<1>1. PICK f : Sums(f, h, S) /\ Total(h, S) = f[S]
  BY TotalIsSum
<1>2. CASE S = {}
  BY <1>1, <1>2 DEF Sums
<1>3. CASE S # {}
  <2> DEFINE R == S \ {AnyOf(S)}
  <2>1. AnyOf(S) \in S /\ R \in SUBSET S /\ IsFiniteSet(R)
    BY <1>3, FS_Subset DEF AnyOf
  <2>2. PICK g : Sums(g, h, R) /\ Total(h, R) = g[R]
    BY <2>1, TotalIsSum
  <2>3. f[R] = g[R]
    BY <1>1, <2>1, <2>2, SumsAgree
  <2>4. f[S] = h[AnyOf(S)] + f[R]
    BY <1>1, <1>3 DEF Sums
  <2> QED BY <1>1, <1>3, <2>1, <2>2, <2>3, <2>4
<1> QED BY <1>2, <1>3

\* Sums of integers are integers, and do not depend on the order.
LEMMA TotalAdd ==
  ASSUME NEW h, NEW S, IsFiniteSet(S), \A x \in S : h[x] \in Int
  PROVE  /\ Total(h, S) \in Int
         /\ \A x : x \notin S /\ h[x] \in Int => Total(h, S \cup {x}) = Total(h, S) + h[x]
<1> DEFINE P(A) == /\ Total(h, A) \in Int
                   /\ \A x : x \notin A /\ h[x] \in Int => Total(h, A \cup {x}) = Total(h, A) + h[x]
           T == {n \in Nat : \A A \in SUBSET S : Cardinality(A) = n => P(A)}
<1>1. ASSUME NEW n \in Nat, \A m \in Nat : m < n => m \in T PROVE n \in T
  <2> SUFFICES ASSUME NEW A \in SUBSET S, Cardinality(A) = n PROVE P(A)
    OBVIOUS
  <2>1. IsFiniteSet(A)
    BY FS_Subset
  <2>2. ASSUME NEW y \in A PROVE P(A \ {y})
    <3>1. IsFiniteSet(A \ {y}) /\ Cardinality(A \ {y}) = n - 1
      BY <2>1, FS_RemoveElement
    <3>2. n - 1 \in Nat
      BY <3>1, FS_CardinalityType
    <3>3. n - 1 < n /\ A \ {y} \in SUBSET S
      OBVIOUS
    <3> HIDE DEF P
    <3> QED BY <1>1, <3>1, <3>2, <3>3
  <2>3. Total(h, A) \in Int
    <3>1. CASE A = {}
      BY <2>1, <3>1, TotalUnfold
    <3>2. CASE A # {}
      <4>1. PICK y \in A : Total(h, A) = h[y] + Total(h, A \ {y})
        BY <2>1, <3>2, TotalUnfold
      <4> QED BY <2>2, <4>1
    <3> QED BY <3>1, <3>2
  <2>4. ASSUME NEW x, x \notin A, h[x] \in Int PROVE Total(h, A \cup {x}) = Total(h, A) + h[x]
    <3>1. IsFiniteSet(A \cup {x}) /\ A \cup {x} # {}
      BY <2>1, FS_AddElement
    <3>2. PICK y \in A \cup {x} : Total(h, A \cup {x}) = h[y] + Total(h, (A \cup {x}) \ {y})
      BY <3>1, TotalUnfold
    <3>3. CASE y = x
      <4>1. (A \cup {x}) \ {x} = A
        BY <2>4
      <4>2. Total(h, A \cup {x}) = h[x] + Total(h, A)
        BY <3>2, <3>3, <4>1
      <4> QED BY <2>3, <2>4, <4>2
    <3>4. CASE y # x
      <4>1. y \in A /\ (A \cup {x}) \ {y} = (A \ {y}) \cup {x} /\ A = (A \ {y}) \cup {y} /\ x \notin A \ {y}
        BY <2>4, <3>2, <3>4
      <4>2. h[y] \in Int
        BY <4>1
      <4>3. P(A \ {y})
        BY <2>2, <4>1
      <4>4. /\ Total(h, A \ {y}) \in Int
            /\ Total(h, (A \ {y}) \cup {x}) = Total(h, A \ {y}) + h[x]
            /\ Total(h, (A \ {y}) \cup {y}) = Total(h, A \ {y}) + h[y]
        BY <2>4, <4>1, <4>2, <4>3
      <4>5. Total(h, A \cup {x}) = h[y] + Total(h, (A \ {y}) \cup {x})
        BY <3>2, <4>1
      <4>6. Total(h, A) = Total(h, (A \ {y}) \cup {y})
        BY <4>1
      <4> QED BY <2>4, <4>2, <4>4, <4>5, <4>6
    <3> QED BY <3>3, <3>4
  <2> QED BY <2>3, <2>4
<1>2. Nat \subseteq T
  <2> HIDE DEF T
  <2> QED BY <1>1, SmallerFirst
<1>3. Cardinality(S) \in Nat
  BY FS_CardinalityType
<1>4. P(S)
  <2> HIDE DEF P
  <2> QED BY <1>2, <1>3
<1> QED BY <1>4

\* The sum over two sets that share nothing.
LEMMA TotalUnion ==
  ASSUME NEW h, NEW A, NEW B, IsFiniteSet(A), IsFiniteSet(B), A \cap B = {},
         \A x \in A \cup B : h[x] \in Int
  PROVE  Total(h, A \cup B) = Total(h, A) + Total(h, B)
<1> DEFINE T == {n \in Nat : \A C \in SUBSET B : Cardinality(C) = n =>
                                Total(h, A \cup C) = Total(h, A) + Total(h, C)}
<1>0. Total(h, A) \in Int
  BY TotalAdd
<1>1. 0 \in T
  <2> SUFFICES ASSUME NEW C \in SUBSET B, Cardinality(C) = 0
               PROVE  Total(h, A \cup C) = Total(h, A) + Total(h, C)
    OBVIOUS
  <2>1. C = {}
    BY FS_Subset, FS_EmptySet
  <2>2. Total(h, C) = 0 /\ A \cup C = A
    BY <2>1, TotalUnfold, FS_EmptySet
  <2>3. Total(h, A \cup C) = Total(h, A)
    BY <2>2
  <2> QED BY <1>0, <2>2, <2>3
<1>2. ASSUME NEW n \in Nat, n \in T PROVE n + 1 \in T
  <2> SUFFICES ASSUME NEW C \in SUBSET B, Cardinality(C) = n + 1
               PROVE  Total(h, A \cup C) = Total(h, A) + Total(h, C)
    OBVIOUS
  <2>1. IsFiniteSet(C)
    BY FS_Subset
  <2>2. PICK x : x \in C
    BY <2>1, FS_EmptySet
  <2> DEFINE D == C \ {x}
  <2>3. IsFiniteSet(D) /\ Cardinality(D) = n /\ D \in SUBSET B
    <3>1. IsFiniteSet(C \ {x}) /\ Cardinality(C \ {x}) = Cardinality(C) - 1
      BY <2>1, <2>2, FS_RemoveElement
    <3> QED BY <3>1
  <2>4. Total(h, A \cup D) = Total(h, A) + Total(h, D)
    BY <1>2, <2>3
  <2>5. IsFiniteSet(A \cup D) /\ x \notin A \cup D /\ h[x] \in Int
    BY <2>2, <2>3, FS_Union
  <2>6. Total(h, (A \cup D) \cup {x}) = Total(h, A \cup D) + h[x]
    BY <2>5, TotalAdd
  <2>7. Total(h, D \cup {x}) = Total(h, D) + h[x] /\ Total(h, D) \in Int
    BY <2>3, <2>5, TotalAdd
  <2>8. (A \cup D) \cup {x} = A \cup C /\ D \cup {x} = C
    BY <2>2
  <2>9. /\ Total(h, A \cup C) = Total(h, A \cup D) + h[x]
        /\ Total(h, C) = Total(h, D) + h[x]
    BY <2>6, <2>7, <2>8
  <2> QED BY <1>0, <2>4, <2>5, <2>7, <2>9
<1>3. Nat \subseteq T
  <2> HIDE DEF T
  <2> QED BY <1>1, <1>2, OneByOne
<1> QED BY <1>3, FS_CardinalityType

\* A sum of natural numbers is one, and grows with the set.
LEMMA TotalNat ==
  ASSUME NEW h, NEW S, IsFiniteSet(S), \A x \in S : h[x] \in Nat
  PROVE  /\ Total(h, S) \in Nat
         /\ \A A \in SUBSET S : Total(h, A) <= Total(h, S)
<1> DEFINE T == {n \in Nat : \A A \in SUBSET S : Cardinality(A) = n => Total(h, A) \in Nat}
<1>1. ASSUME NEW n \in Nat, \A m \in Nat : m < n => m \in T PROVE n \in T
  <2> SUFFICES ASSUME NEW A \in SUBSET S, Cardinality(A) = n PROVE Total(h, A) \in Nat
    OBVIOUS
  <2>1. IsFiniteSet(A)
    BY FS_Subset
  <2>2. CASE A = {}
    BY <2>1, <2>2, TotalUnfold
  <2>3. CASE A # {}
    <3>1. PICK x \in A : Total(h, A) = h[x] + Total(h, A \ {x})
      BY <2>1, <2>3, TotalUnfold
    <3>2. IsFiniteSet(A \ {x}) /\ Cardinality(A \ {x}) = n - 1 /\ A \ {x} \in SUBSET S
      BY <2>1, FS_RemoveElement
    <3>3. n - 1 \in Nat /\ n - 1 < n
      BY <3>2, FS_CardinalityType
    <3>4. Total(h, A \ {x}) \in Nat
      BY <1>1, <3>2, <3>3
    <3> QED BY <3>1, <3>4
  <2> QED BY <2>2, <2>3
<1>2. Nat \subseteq T
  <2> HIDE DEF T
  <2> QED BY <1>1, SmallerFirst
<1>3. ASSUME NEW A \in SUBSET S PROVE Total(h, A) \in Nat
  BY <1>2, FS_Subset, FS_CardinalityType
<1>4. ASSUME NEW A \in SUBSET S PROVE Total(h, A) <= Total(h, S)
  <2>1. IsFiniteSet(A) /\ IsFiniteSet(S \ A) /\ A \cap (S \ A) = {} /\ A \cup (S \ A) = S
    BY FS_Subset
  <2>2. Total(h, A \cup (S \ A)) = Total(h, A) + Total(h, S \ A)
    BY <2>1, TotalUnion
  <2>3. Total(h, A) \in Nat /\ Total(h, S \ A) \in Nat
    BY <1>3
  <2>4. Total(h, S) = Total(h, A) + Total(h, S \ A)
    BY <2>1, <2>2
  <2> QED BY <2>3, <2>4
<1> QED BY <1>3, <1>4

-----------------------------------------------------------------------------
(***************************************************************************)
(* FoldLeft recurses over sets of positions and takes out the last one.    *)
(***************************************************************************)

\* A set of positions has a last one, and taking it out makes the set smaller.
LEMMA LastOut ==
  ASSUME NEW n \in Nat, NEW s \in SUBSET (1 .. n)
  PROVE  /\ Cardinality(s) \in Nat
         /\ Cardinality(s) <= n
         /\ Cardinality(s) = 0 <=> s = {}
         /\ s # {} => /\ Max(s) \in s
                      /\ s \ {Max(s)} \in SUBSET (1 .. n)
                      /\ Cardinality(s \ {Max(s)}) = Cardinality(s) - 1
<1>1. IsFiniteSet(1 .. n) /\ Cardinality(1 .. n) = n
  BY FS_Interval
<1>2. IsFiniteSet(s) /\ Cardinality(s) <= n
  BY <1>1, FS_Subset
<1>3. ASSUME s # {} PROVE Max(s) \in s
  <2> DEFINE D == {m \in Nat : \E x \in s : m = n - x}
  <2>1. D \in SUBSET Nat
    OBVIOUS
  <2>2. D # {}
    <3>1. PICK x : x \in s
      BY <1>3
    <3>2. n - x \in Nat
      BY <3>1
    <3> QED BY <3>1, <3>2
  <2>3. PICK m \in D : \A k \in D : m <= k
    <3> HIDE DEF D
    <3> QED BY <2>1, <2>2, LeastNat
  <2>4. PICK x \in s : m = n - x
    BY <2>3
  <2>5. ASSUME NEW y \in s PROVE x >= y
    <3>1. n - y \in D
      OBVIOUS
    <3>2. m <= n - y
      BY <2>3, <3>1
    <3> QED BY <2>4, <3>2
  <2> QED BY <2>5 DEF Max
<1> QED BY <1>2, <1>3, FS_CardinalityType, FS_EmptySet, FS_RemoveElement

\* The positions up to k, from the last one down.
LEMMA LastOfPrefix ==
  ASSUME NEW k \in Nat \ {0}
  PROVE  Max(1 .. k) = k /\ (1 .. k) \ {k} = 1 .. (k - 1)
<1>1. k \in 1 .. k /\ \A y \in 1 .. k : k >= y
  OBVIOUS
<1>2. \A x \in 1 .. k : (\A y \in 1 .. k : x >= y) => x = k
  OBVIOUS
<1> QED BY <1>1, <1>2 DEF Max

-----------------------------------------------------------------------------
(***************************************************************************)
(* Sequences: FlattenSeq and SetToSeq.                                     *)
(***************************************************************************)

JoinStep(f, seqs, i) == IF i = 1 THEN seqs[i] ELSE f[i - 1] \o seqs[i]

\* f is the function that FlattenSeq recurses with.
Joins(f, seqs, n) == f = [i \in 1 .. n |-> JoinStep(f, seqs, i)]

\* The recursion of FlattenSeq defines a function.
LEMMA JoinsExist ==
  ASSUME NEW seqs, NEW n \in Nat
  PROVE  \E f : Joins(f, seqs, n)
<1> DEFINE T == {k \in Nat : \E f : Joins(f, seqs, k)}
<1>1. 0 \in T
  <2>1. Joins(<< >>, seqs, 0)
    BY DEF Joins
  <2> QED BY <2>1
<1>2. ASSUME NEW k \in Nat, k \in T PROVE k + 1 \in T
  <2>1. PICK f : Joins(f, seqs, k)
    BY <1>2
  <2> DEFINE g == [i \in 1 .. (k + 1) |-> IF i \in 1 .. k THEN f[i] ELSE JoinStep(f, seqs, i)]
  <2>2. ASSUME NEW i \in 1 .. (k + 1) PROVE g[i] = JoinStep(g, seqs, i)
    <3>1. i # 1 => i - 1 \in 1 .. k /\ i - 1 \in 1 .. (k + 1)
      OBVIOUS
    <3>2. JoinStep(g, seqs, i) = JoinStep(f, seqs, i)
      BY <3>1 DEF JoinStep
    <3>3. i \in 1 .. k => f[i] = JoinStep(f, seqs, i)
      BY <2>1 DEF Joins
    <3> QED BY <3>2, <3>3
  <2>3. g = [i \in 1 .. (k + 1) |-> g[i]]
    OBVIOUS
  <2> HIDE DEF g
  <2>4. Joins(g, seqs, k + 1)
    BY <2>2, <2>3 DEF Joins
  <2> QED BY <2>4
<1>3. Nat \subseteq T
  <2> HIDE DEF T
  <2> QED BY <1>1, <1>2, OneByOne
<1> QED BY <1>3

\* Joining sequences over S gives a sequence over S.
LEMMA FlattenType ==
  ASSUME NEW S, NEW seqs \in Seq(Seq(S))
  PROVE  FlattenSeq(seqs) \in Seq(S)
<1> DEFINE n == Len(seqs)
           f == CHOOSE g : Joins(g, seqs, n)
<1>1. n \in Nat /\ \A i \in 1 .. n : seqs[i] \in Seq(S)
  OBVIOUS
<1>2. CASE n = 0
  <2>1. seqs = << >>
    BY <1>2
  <2> QED BY <1>2, <2>1 DEF FlattenSeq
<1>3. CASE n # 0
  <2>1. FlattenSeq(seqs) = f[n]
    BY <1>3 DEF FlattenSeq, Joins, JoinStep
  <2>2. Joins(f, seqs, n)
    BY <1>1, JoinsExist
  <2> HIDE DEF f, n
  <2>3. \A i \in 1 .. n : f[i] = JoinStep(f, seqs, i)
    BY <2>2 DEF Joins
  <2> DEFINE T == {k \in Nat : k + 1 <= n => f[k + 1] \in Seq(S)}
  <2>4. 0 \in T
    <3>1. ASSUME 1 <= n PROVE f[1] \in Seq(S)
      BY <1>1, <2>3, <3>1 DEF JoinStep
    <3> QED BY <3>1
  <2>5. ASSUME NEW k \in Nat, k \in T PROVE k + 1 \in T
    <3> SUFFICES ASSUME (k + 1) + 1 <= n PROVE f[(k + 1) + 1] \in Seq(S)
      OBVIOUS
    <3>1. (k + 1) + 1 \in 1 .. n /\ (k + 1) + 1 # 1 /\ ((k + 1) + 1) - 1 = k + 1 /\ k + 1 <= n
      BY <1>1
    <3>2. f[k + 1] \in Seq(S) /\ seqs[(k + 1) + 1] \in Seq(S)
      BY <1>1, <2>5, <3>1
    <3>3. f[(k + 1) + 1] = f[k + 1] \o seqs[(k + 1) + 1]
      BY <2>3, <3>1 DEF JoinStep
    <3> QED BY <3>2, <3>3
  <2>6. Nat \subseteq T
    <3> HIDE DEF T
    <3> QED BY <2>4, <2>5, OneByOne
  <2>7. n - 1 \in Nat /\ (n - 1) + 1 = n
    BY <1>1, <1>3
  <2> QED BY <2>1, <2>6, <2>7
<1> QED BY <1>2, <1>3

\* A finite set can be listed.
LEMMA SetToSeqType ==
  ASSUME NEW S, IsFiniteSet(S)
  PROVE  SetToSeq(S) \in Seq(S) /\ DOMAIN SetToSeq(S) = 1 .. Cardinality(S)
<1>1. Cardinality(S) \in Nat /\ ExistsBijection(1 .. Cardinality(S), S)
  BY FS_CardinalityType
<1>2. PICK f \in [1 .. Cardinality(S) -> S] : IsInjective(f)
  BY <1>1 DEF ExistsBijection, Bijection, Injection, IsInjective
<1>3. SetToSeq(S) \in [1 .. Cardinality(S) -> S]
  BY <1>2 DEF SetToSeq
<1> QED BY <1>1, <1>3

\* Of finitely many elements with different numbers, one has each rank.
LEMMA EveryRank ==
  ASSUME NEW S, IsFiniteSet(S), NEW f, \A x \in S : f[x] \in Nat,
         \A x, y \in S : f[x] = f[y] => x = y
  PROVE  /\ Cardinality(S) \in Nat
         /\ \A i \in 1 .. Cardinality(S) :
              \E x \in S : Cardinality({y \in S : f[y] <= f[x]}) = i
<1> DEFINE n == Cardinality(S)
           Below(x) == {y \in S : f[y] <= f[x]}
           r == [x \in S |-> Cardinality(Below(x))]
<1>1. n \in Nat /\ IsFiniteSet(1 .. n) /\ Cardinality(1 .. n) = n
  BY FS_CardinalityType, FS_Interval
<1>2. ASSUME NEW x \in S
      PROVE  IsFiniteSet(Below(x)) /\ Cardinality(Below(x)) \in 1 .. n
  <2>1. Below(x) \in SUBSET S /\ x \in Below(x)
    OBVIOUS
  <2> HIDE DEF Below
  <2>2. IsFiniteSet(Below(x)) /\ Cardinality(Below(x)) <= n
    BY <2>1, FS_Subset
  <2>3. Cardinality(Below(x)) \in Nat /\ Cardinality(Below(x)) # 0
    BY <2>1, <2>2, FS_CardinalityType, FS_EmptySet
  <2> QED BY <1>1, <2>2, <2>3
<1>3. ASSUME NEW x \in S, NEW y \in S, f[x] < f[y]
      PROVE  Cardinality(Below(x)) # Cardinality(Below(y))
  <2>1. Below(x) \in SUBSET Below(y) /\ y \in Below(y) /\ y \notin Below(x)
    BY <1>3
  <2>2. IsFiniteSet(Below(y))
    BY <1>2
  <2> HIDE DEF Below
  <2> QED BY <2>1, <2>2, FS_Subset
<1>4. r \in Injection(S, 1 .. n)
  <2>1. r \in [S -> 1 .. n]
    BY <1>2
  <2>2. ASSUME NEW x \in S, NEW y \in S, x # y PROVE r[x] # r[y]
    <3>1. f[x] \in Nat /\ f[y] \in Nat /\ f[x] # f[y]
      BY <2>2
    <3>2. f[x] < f[y] \/ f[y] < f[x]
      BY <3>1
    <3> HIDE DEF Below
    <3> QED BY <1>3, <3>2
  <2> HIDE DEF r
  <2> QED BY <2>1, <2>2 DEF Injection, IsInjective
<1>5. r \in Surjection(S, 1 .. n)
  <2> HIDE DEF r
  <2>1. Cardinality(S) = Cardinality(1 .. n)
    BY <1>1
  <2> QED BY <1>1, <1>4, <2>1, FS_Injection
<1>6. \A i \in 1 .. n : \E x \in S : r[x] = i
  <2> HIDE DEF r
  <2> QED BY <1>5 DEF Surjection
<1> QED BY <1>1, <1>6
=============================================================================
