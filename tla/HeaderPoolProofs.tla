-------------------------- MODULE HeaderPoolProofs --------------------------
(***************************************************************************)
(* Proofs about the header rules along a branch and about the pool of      *)
(* pending transactions, for every value of their constants.               *)
(*                                                                         *)
(* Headers: HeaderIInv, kept by AcceptKeeps.  Pool: PoolIInv, kept by      *)
(* every call; the loops of the pool are folds, and CallStates gives the   *)
(* states they pass through.                                               *)
(***************************************************************************)
EXTENDS HeaderChain, Mempool, LedgerTheorems

-----------------------------------------------------------------------------
(***************************************************************************)
(* Arithmetic of the retarget.                                             *)
(***************************************************************************)

\* Division of a number by a positive one.
LEMMA DivBounds ==
  ASSUME NEW a \in Nat, NEW d \in Nat \ {0}
  PROVE  /\ a \div d \in Nat
         /\ d * (a \div d) <= a
         /\ a < d * (a \div d) + d
BY Z3

\* An order between products and factors.
LEMMA Cancel ==
  ASSUME NEW a \in Int, NEW b \in Int, NEW d \in Nat \ {0}
  PROVE  /\ d * a < d * b => a < b
         /\ a <= b => d * a <= d * b
BY Z3

\* The clamp of the observed time (calculate_next_target): between a Clamp-th of the
\* expected time and Clamp times it.
LEMMA ClampBounds ==
  ASSUME NEW observed \in Int
  PROVE  /\ ClampedTime(observed) \in Nat
         /\ ExpectedTime <= Clamp * ClampedTime(observed)
         /\ ClampedTime(observed) <= ExpectedTime * Clamp
         /\ ExpectedTime \in Nat \ {0}
<1> DEFINE E == ExpectedTime
           least == E \div Clamp
           most == E * Clamp
<1>1. Epoch \in Nat \ {0} /\ Interval \in Nat \ {0} /\ Clamp \in Nat \ {0} /\ (Epoch * Interval) % Clamp = 0
  BY SizeAssumption
<1>2. E \in Nat /\ E # 0
  BY <1>1, Z3 DEF ExpectedTime
<1>3. E % Clamp = 0
  BY <1>1 DEF ExpectedTime
<1> HIDE DEF E
<1>4. least \in Nat /\ Clamp * least = E
  BY <1>1, <1>2, <1>3, Z3
<1>5. most \in Nat /\ E <= most
  BY <1>1, <1>2, Z3
<1>6. E <= Clamp * most /\ least <= most
  <2>1. most <= Clamp * most /\ least <= Clamp * least
    BY <1>1, <1>4, <1>5, Z3
  <2> QED BY <1>1, <1>2, <1>4, <1>5, <2>1, Z3
<1>7. ClampedTime(observed) = IF observed < least THEN least ELSE IF observed > most THEN most ELSE observed
  BY DEF ClampedTime, E
<1> HIDE DEF least, most
<1>8. ASSUME observed >= least PROVE Clamp * least <= Clamp * observed
  BY <1>1, <1>4, <1>8, Cancel
<1> QED BY <1>1, <1>2, <1>4, <1>5, <1>6, <1>7, <1>8 DEF E, most

\* One retarget (calculate_next_target): within the cap, and by at most the clamping factor.
LEMMA RetargetClamped ==
  ASSUME NEW T \in 1 .. MaxTarget, NEW start \in Int, NEW end \in Int
  PROVE  /\ NextTarget(T, start, end) \in 0 .. MaxTarget
         /\ NextTarget(T, start, end) <= Clamp * T
         /\ T < Clamp * (NextTarget(T, start, end) + 1)
<1> DEFINE E == ExpectedTime
           m == ClampedTime(end - start)
           q == (T * m) \div E
           R == NextTarget(T, start, end)
<1>1. Clamp \in Nat \ {0} /\ Top \in Nat /\ MaxTarget \in Nat /\ MaxTarget <= Top - 1 /\ T \in Nat /\ T <= MaxTarget
  BY SizeAssumption
<1>2. m \in Nat /\ E <= Clamp * m /\ m <= E * Clamp /\ E \in Nat \ {0}
  BY ClampBounds
<1>3. R = LET c == IF q >= Top THEN Top - 1 ELSE q IN IF c > MaxTarget THEN MaxTarget ELSE c
  BY DEF NextTarget, ScaleTarget
<1> HIDE DEF E, m
<1>4. T * m \in Nat
  BY <1>1, <1>2
<1>5. q \in Nat /\ E * q <= T * m /\ T * m < E * q + E
  BY <1>2, <1>4, DivBounds
<1> HIDE DEF q
<1>6. q <= Clamp * T
  <2>1. T * m <= T * (E * Clamp)
    BY <1>1, <1>2, Cancel
  <2>2. T * (E * Clamp) = E * (Clamp * T) /\ Clamp * T \in Int
    BY <1>1, <1>2
  <2>3. E * q < E * (Clamp * T + 1)
    <3>1. E * (Clamp * T + 1) = E * (Clamp * T) + E
      BY <1>2, <2>2
    <3>2. E * (Clamp * T) \in Int /\ E * q \in Int
      BY <1>2, <1>5, <2>2
    <3> QED BY <1>2, <1>4, <1>5, <2>1, <2>2, <3>1, <3>2
  <2>4. q < Clamp * T + 1
    BY <1>2, <1>5, <2>2, <2>3, Cancel
  <2> QED BY <1>5, <2>2, <2>4
<1>7. T < Clamp * (q + 1)
  <2>1. T * E <= T * (Clamp * m)
    BY <1>1, <1>2, Cancel
  <2>2. T * (Clamp * m) = Clamp * (T * m) /\ T * E = E * T
    BY <1>1, <1>2
  <2>3. T * m < E * (q + 1) /\ E * (q + 1) \in Int
    BY <1>2, <1>5
  <2>4. Clamp * (T * m) < Clamp * (E * (q + 1))
    BY <1>1, <1>4, <2>3, Z3
  <2>5. Clamp * (E * (q + 1)) = E * (Clamp * (q + 1)) /\ Clamp * (q + 1) \in Int
    BY <1>1, <1>2, <1>5
  <2>6. E * T < E * (Clamp * (q + 1))
    BY <1>1, <1>2, <1>4, <2>1, <2>2, <2>4, <2>5
  <2> QED BY <1>1, <1>2, <2>5, <2>6, Cancel
<1>8. \A x \in Nat : x >= T => T < Clamp * (x + 1)
  <2> TAKE x \in Nat
  <2>1. x + 1 <= Clamp * (x + 1) /\ Clamp * (x + 1) \in Int
    BY <1>1, Z3
  <2> QED BY <1>1, <2>1
<1>9. R \in 0 .. MaxTarget /\ (R = q \/ (R = MaxTarget /\ R <= q))
  BY <1>1, <1>3, <1>5
<1> HIDE DEF R
<1>10. R <= Clamp * T
  BY <1>1, <1>5, <1>6, <1>9
<1>11. T < Clamp * (R + 1)
  BY <1>1, <1>7, <1>8, <1>9
<1> QED BY <1>9, <1>10, <1>11 DEF R

\* block_work on 256 bits is the quotient its comment names, and positive.
LEMMA WorkOfTarget ==
  ASSUME NEW T \in 1 .. Top - 1
  PROVE  BlockWork(T) = WorkOf(T) /\ BlockWork(T) > 0
<1> DEFINE d == T + 1
           q == Top \div d
<1>1. Top \in Nat /\ T \in Nat /\ T >= 1 /\ T <= Top - 1 /\ d \in Nat \ {0} /\ d >= 2 /\ d <= Top
  BY SizeAssumption
<1>2. q \in Nat /\ d * q <= Top /\ Top < d * q + d
  BY <1>1, DivBounds
<1>3. q < Top /\ q > 0
  BY <1>1, <1>2, Z3
<1>4. CASE T = Top - 1
  <2>1. q = 1
    BY <1>1, <1>4, Z3
  <2> QED BY <1>4, <2>1 DEF BlockWork, WorkOf
<1>5. CASE T # Top - 1
  <2>1. Top - 1 - T = Top - d
    BY <1>1
  <2>2. (Top - d) \div d = q - 1
    BY <1>1, <1>2, Z3
  <2>3. ((Top - 1 - T) \div (T + 1) + 1) % Top = q
    <3>1. (Top - 1 - T) \div (T + 1) + 1 = q
      BY <1>2, <2>1, <2>2
    <3>2. q % Top = q
      BY <1>1, <1>2, <1>3
    <3> QED BY <3>1, <3>2
  <2> QED BY <1>3, <1>5, <2>3 DEF BlockWork, WorkOf
<1> QED BY <1>4, <1>5

-----------------------------------------------------------------------------
(***************************************************************************)
(* The branch.                                                             *)
(***************************************************************************)

Header == [bits : Compact, time : Nat]

\* The times of a branch rise.
Rising(s) == \A i, j \in 1 .. Len(s) : i < j => s[i].time < s[j].time

\* The median of rising times is one of them (calculate_median_time_past).
LEMMA MedianOfRising ==
  ASSUME NEW s \in Seq(Header), s # << >>, Rising(s)
  PROVE  MedianTimePast(s) \in Nat /\ MedianTimePast(s) <= s[Len(s)].time
<1> DEFINE n == Len(s)
           first == IF n > MtpWindow THEN n - MtpWindow + 1 ELSE 1
           window == first .. n
           middle == Cardinality(window) \div 2
           times == {s[i].time : i \in window}
           IsMedian(t) == /\ Cardinality({i \in window : s[i].time < t}) <= middle
                      /\ Cardinality({i \in window : s[i].time <= t}) > middle
<1>1. n \in Nat \ {0} /\ MtpWindow \in Nat \ {0}
  BY HeaderAssumption
<1>2. first \in 1 .. n
  BY <1>1
<1>3. \A i \in 1 .. n : s[i].time \in Nat
  <2> TAKE i \in 1 .. n
  <2>1. s[i] \in Header
    OBVIOUS
  <2> QED BY <2>1 DEF Header
<1>4. \A i, j \in 1 .. n : i < j => s[i].time < s[j].time
  BY DEF Rising
<1>5. MedianTimePast(s) = CHOOSE t \in times : IsMedian(t)
  BY DEF MedianTimePast
<1> HIDE DEF n, first
<1>6. Cardinality(window) = (n - first) + 1
  <2>1. first \in Int /\ n \in Int /\ ~ (first > n)
    BY <1>1, <1>2
  <2> QED BY <2>1, FS_Interval
<1>7. middle \in Nat /\ first + middle \in window
  <2>1. (n - first) + 1 \in Nat \ {0}
    BY <1>1, <1>2
  <2>2. middle \in Nat /\ 2 * middle <= (n - first) + 1
    BY <1>6, <2>1
  <2> HIDE DEF middle
  <2> QED BY <1>1, <1>2, <2>2
<1> HIDE DEF middle
<1> DEFINE m == first + middle
<1>8. m \in window /\ m \in 1 .. n /\ m \in Nat
  BY <1>1, <1>2, <1>7
<1>9. {i \in window : s[i].time < s[m].time} = first .. (m - 1)
  <2> HIDE DEF m
  <2>1. ASSUME NEW i \in window PROVE s[i].time < s[m].time <=> i < m
    <3>1. i \in 1 .. n /\ i \in Nat
      BY <1>1, <1>2
    <3>2. i < m => s[i].time < s[m].time
      BY <1>4, <1>8, <3>1
    <3>3. m < i => s[m].time < s[i].time
      BY <1>4, <1>8, <3>1
    <3>4. s[i].time \in Nat /\ s[m].time \in Nat
      BY <1>3, <1>8, <3>1
    <3> QED BY <1>8, <3>1, <3>2, <3>3, <3>4
  <2>2. {i \in window : s[i].time < s[m].time} = {i \in window : i < m}
    BY <2>1
  <2>3. {i \in window : i < m} = first .. (m - 1)
    BY <1>1, <1>2, <1>8
  <2> QED BY <2>2, <2>3
<1>10. {i \in window : s[i].time <= s[m].time} = first .. m
  <2> HIDE DEF m
  <2>1. ASSUME NEW i \in window PROVE s[i].time <= s[m].time <=> i <= m
    <3>1. i \in 1 .. n /\ i \in Nat
      BY <1>1, <1>2
    <3>2. i < m => s[i].time < s[m].time
      BY <1>4, <1>8, <3>1
    <3>3. m < i => s[m].time < s[i].time
      BY <1>4, <1>8, <3>1
    <3>4. s[i].time \in Nat /\ s[m].time \in Nat
      BY <1>3, <1>8, <3>1
    <3> QED BY <1>8, <3>1, <3>2, <3>3, <3>4
  <2>2. {i \in window : s[i].time <= s[m].time} = {i \in window : i <= m}
    BY <2>1
  <2>3. {i \in window : i <= m} = first .. m
    BY <1>1, <1>2, <1>8
  <2> QED BY <2>2, <2>3
<1>11. Cardinality(first .. (m - 1)) = middle /\ Cardinality(first .. m) = middle + 1
  <2>1. first \in Int /\ m - 1 \in Int /\ m \in Int /\ m = first + middle /\ middle \in Nat
    BY <1>2, <1>7, <1>8
  <2> HIDE DEF m
  <2>2. Cardinality(first .. (m - 1)) = IF first > m - 1 THEN 0 ELSE ((m - 1) - first) + 1
    BY <2>1, FS_Interval
  <2>3. Cardinality(first .. m) = IF first > m THEN 0 ELSE (m - first) + 1
    BY <2>1, FS_Interval
  <2> QED BY <2>1, <2>2, <2>3
<1>12. s[m].time \in times /\ IsMedian(s[m].time)
  <2>1. /\ Cardinality({i \in window : s[i].time < s[m].time}) = middle
        /\ Cardinality({i \in window : s[i].time <= s[m].time}) = middle + 1
    <3> HIDE DEF window, m
    <3> QED BY <1>9, <1>10, <1>11
  <2>2. IsMedian(s[m].time)
    BY <1>7, <2>1
  <2> HIDE DEF IsMedian
  <2> QED BY <1>8, <2>2
<1>13. MedianTimePast(s) \in times
  <2> HIDE DEF IsMedian, times
  <2> QED BY <1>5, <1>12
<1>14. PICK i \in window : MedianTimePast(s) = s[i].time
  BY <1>13
<1>15. i \in 1 .. n /\ (i < n \/ i = n) /\ n \in 1 .. n
  BY <1>1, <1>2
<1>16. s[i].time \in Nat /\ s[n].time \in Nat /\ s[i].time <= s[n].time
  BY <1>3, <1>4, <1>15
<1> QED BY <1>14, <1>16 DEF n

\* What holds of every branch: BranchLawful, with rising times and targets that are
\* positive and within the cap.
HeaderIInv ==
  /\ headers \in Seq(Header) /\ headers # << >>
  /\ \A i \in 1 .. Len(headers) : TargetAt(i) \in 1 .. MaxTarget
  /\ Rising(headers)
  /\ now \in 0 .. MaxTime
  /\ TimeAboveMedian
  /\ AdjustmentClamped

\* The target the next header must carry, at a boundary or not (process_block).
LEMMA RequiredBounds ==
  ASSUME HeaderIInv
  PROVE  LET n == Len(headers)
         IN  /\ RequiredTarget \in 0 .. MaxTarget
             /\ IF n % Epoch = 0
                THEN RequiredTarget <= Clamp * TargetAt(n) /\ Clamp * (RequiredTarget + 1) > TargetAt(n)
                ELSE RequiredTarget = TargetAt(n)
<1> DEFINE n == Len(headers)
           T == TargetAt(n)
           start == EpochStart.time
           end == Tip.time
<1>1. n \in Nat \ {0} /\ Epoch \in Nat \ {0} /\ Clamp \in Nat \ {0} /\ n \in 1 .. n
  BY SizeAssumption DEF HeaderIInv
<1>2. T \in 1 .. MaxTarget /\ T = FromCompact(Tip.bits)
  BY <1>1 DEF HeaderIInv, TargetAt, Tip
<1>3. n % Epoch = 0 => n >= Epoch
  BY <1>1, Z3
<1>4. CASE n % Epoch = 0
  <2>1. Boundary
    BY <1>3, <1>4 DEF Boundary
  <2>2. \A i \in 1 .. n : headers[i].time \in Int
    <3> TAKE i \in 1 .. n
    <3>1. headers[i] \in Header
      BY DEF HeaderIInv
    <3> QED BY <3>1 DEF Header
  <2>3. start \in Int
    <3>1. n > Epoch + 1 => n - Epoch \in 1 .. n
      BY <1>1
    <3>2. 1 \in 1 .. n
      BY <1>1
    <3> QED BY <2>2, <3>1, <3>2 DEF EpochStart
  <2>4. end \in Int
    BY <1>1, <2>2 DEF Tip
  <2>5. RequiredTarget = NextTarget(T, start, end)
    BY <1>2, <2>1 DEF RequiredTarget
  <2> HIDE DEF T, start, end, n
  <2>6. /\ RequiredTarget \in 0 .. MaxTarget
        /\ RequiredTarget <= Clamp * T
        /\ T < Clamp * (RequiredTarget + 1)
    BY <1>2, <2>3, <2>4, <2>5, RetargetClamped
  <2>7. T \in Int /\ Clamp * (RequiredTarget + 1) \in Int
    BY <1>1, <1>2, <2>6
  <2>8. Clamp * (RequiredTarget + 1) > T
    BY <2>6, <2>7
  <2> QED BY <1>4, <2>6, <2>8 DEF n, T
<1>5. CASE n % Epoch # 0
  <2>1. ~ Boundary
    BY <1>5 DEF Boundary
  <2>2. RequiredTarget = T
    BY <1>2, <2>1 DEF RequiredTarget
  <2>3. T \in 0 .. MaxTarget
    BY <1>2, SizeAssumption
  <2> HIDE DEF T, n
  <2> QED BY <1>5, <2>2, <2>3 DEF n, T
<1> QED BY <1>4, <1>5

\* A header that is accepted continues a lawful branch.
LEMMA AcceptKeeps ==
  ASSUME HeaderIInv, AcceptHeader
  PROVE  HeaderIInv'
<1>1. PICK bits \in Compact, t \in 1 .. MaxTime :
        /\ TargetOk(bits) /\ FromCompact(bits) > 0 /\ TimeOk(t)
        /\ headers' = Append(headers, [bits |-> bits, time |-> t])
  BY DEF AcceptHeader
<1>0. PICK n : n = Len(headers)
  OBVIOUS
<1> DEFINE h == [bits |-> bits, time |-> t]
           s == Append(headers, h)
<1>2. n \in Nat \ {0} /\ headers \in Seq(Header) /\ t \in Nat /\ n \in 1 .. n /\ headers' = s
  BY <1>0, <1>1, HeaderAssumption DEF HeaderIInv
<1>3. h \in Header /\ h.bits = bits /\ h.time = t
  BY <1>2 DEF Header
<1> HIDE DEF h
<1>4. /\ s \in Seq(Header) /\ s # << >> /\ Len(s) = n + 1 /\ s[n + 1] = h
      /\ \A i \in 1 .. n : s[i] = headers[i]
  BY <1>0, <1>2, <1>3
<1> HIDE DEF s
<1>5. \A i \in 1 .. n : headers[i].time \in Nat
  <2> TAKE i \in 1 .. n
  <2>1. headers[i] \in Header
    BY <1>0, <1>2
  <2> QED BY <2>1 DEF Header
<1>6. headers[n].time < t
  BY <1>0, <1>1, <1>2, <1>5 DEF TimeOk, Tip
<1>7. Rising(s)
  <2> SUFFICES ASSUME NEW i \in 1 .. (n + 1), NEW j \in 1 .. (n + 1), i < j
               PROVE  s[i].time < s[j].time
    BY <1>4 DEF Rising
  <2>1. i \in 1 .. n
    BY <1>2
  <2>2. CASE j = n + 1
    <3>1. i < n \/ i = n
      BY <1>2, <2>1
    <3>2. headers[i].time <= headers[n].time
      BY <1>0, <1>2, <1>5, <2>1, <3>1 DEF HeaderIInv, Rising
    <3>3. headers[i].time < t
      BY <1>2, <1>5, <1>6, <2>1, <3>2
    <3> QED BY <1>3, <1>4, <2>1, <2>2, <3>3
  <2>3. CASE j # n + 1
    <3>1. j \in 1 .. n
      BY <1>2, <2>3
    <3> QED BY <1>0, <1>4, <2>1, <3>1 DEF HeaderIInv, Rising
  <2> QED BY <2>2, <2>3
<1>8. \A i \in 1 .. n : TargetAt(i)' = TargetAt(i)
  BY <1>2, <1>4 DEF TargetAt
<1>9. TargetAt(n + 1)' = RequiredTarget /\ RequiredTarget > 0
  BY <1>1, <1>2, <1>3, <1>4 DEF TargetAt, TargetOk
<1>10. /\ RequiredTarget \in 0 .. MaxTarget
       /\ IF n % Epoch = 0
          THEN RequiredTarget <= Clamp * TargetAt(n) /\ Clamp * (RequiredTarget + 1) > TargetAt(n)
          ELSE RequiredTarget = TargetAt(n)
  BY <1>0, RequiredBounds
<1>11. \A i \in 1 .. (n + 1) : TargetAt(i)' \in 1 .. MaxTarget
  <2> TAKE i \in 1 .. (n + 1)
  <2>1. CASE i = n + 1
    BY <1>9, <1>10, <2>1, SizeAssumption
  <2>2. CASE i # n + 1
    <3>1. i \in 1 .. n
      BY <1>2, <2>2
    <3> QED BY <1>0, <1>8, <3>1 DEF HeaderIInv
  <2> QED BY <2>1, <2>2
<1>12. AdjustmentClamped'
  <2> SUFFICES ASSUME NEW i \in 2 .. (n + 1)
               PROVE  IF (i - 1) % Epoch = 0
                      THEN /\ TargetAt(i)' <= Clamp * TargetAt(i - 1)'
                           /\ Clamp * (TargetAt(i)' + 1) > TargetAt(i - 1)'
                      ELSE TargetAt(i)' = TargetAt(i - 1)'
    BY <1>2, <1>4 DEF AdjustmentClamped
  <2>1. CASE i = n + 1
    <3>1. i - 1 = n
      BY <1>2, <2>1
    <3> QED BY <1>2, <1>8, <1>9, <1>10, <2>1, <3>1
  <2>2. CASE i # n + 1
    <3>1. i \in 2 .. n /\ i \in 1 .. n /\ i - 1 \in 1 .. n
      BY <1>2, <2>2
    <3> QED BY <1>0, <1>8, <3>1 DEF HeaderIInv, AdjustmentClamped
  <2> QED BY <2>1, <2>2
<1>13. TimeAboveMedian'
  <2> SUFFICES ASSUME NEW i \in 2 .. (n + 1)
               PROVE  s[i].time > MedianTimePast(SubSeq(s, 1, i - 1))
    BY <1>2, <1>4 DEF TimeAboveMedian
  <2>1. SubSeq(s, 1, i - 1) = SubSeq(headers, 1, i - 1)
    <3>1. i - 1 \in 1 .. n
      BY <1>2
    <3>2. \A k \in 1 .. (i - 1) : s[k] = headers[k]
      BY <1>2, <1>4, <3>1
    <3> QED BY <1>0, <1>2, <1>4, <3>1, <3>2
  <2>2. CASE i = n + 1
    <3>1. SubSeq(headers, 1, i - 1) = headers
      BY <1>0, <1>2, <2>2
    <3>2. MedianTimePast(headers) \in Nat /\ MedianTimePast(headers) <= headers[n].time
      BY <1>0, MedianOfRising DEF HeaderIInv
    <3>3. s[i].time = t /\ MedianTimePast(SubSeq(s, 1, i - 1)) = MedianTimePast(headers)
      BY <1>3, <1>4, <2>1, <2>2, <3>1
    <3>4. headers[n].time \in Nat
      BY <1>2, <1>5
    <3> QED BY <1>2, <1>6, <3>2, <3>3, <3>4
  <2>3. CASE i # n + 1
    <3>1. i \in 2 .. n /\ i \in 1 .. n
      BY <1>2, <2>3
    <3> QED BY <1>0, <1>4, <2>1, <3>1 DEF HeaderIInv, TimeAboveMedian
  <2> QED BY <2>2, <2>3
<1>14. now' \in 0 .. MaxTime
  BY DEF AcceptHeader, HeaderIInv
<1> QED BY <1>2, <1>4, <1>7, <1>11, <1>12, <1>13, <1>14 DEF HeaderIInv

\* Every step keeps the branch lawful.
LEMMA HeaderStep == HeaderIInv /\ [HeaderNext]_headerVars => HeaderIInv'
<1> SUFFICES ASSUME HeaderIInv, [HeaderNext]_headerVars PROVE HeaderIInv'
  OBVIOUS
<1>1. ASSUME headers' = headers, now' \in 0 .. MaxTime PROVE HeaderIInv'
  BY <1>1 DEF HeaderIInv, TargetAt, TimeAboveMedian, AdjustmentClamped
<1>2. CASE Tick
  <2>1. headers' = headers /\ now' \in 0 .. MaxTime
    BY <1>2, HeaderAssumption DEF Tick, HeaderIInv
  <2> QED BY <1>1, <2>1
<1>3. CASE UNCHANGED headerVars
  BY <1>1, <1>3 DEF headerVars, HeaderIInv
<1> QED BY <1>2, <1>3, AcceptKeeps DEF HeaderNext

\* The invariant along every branch.
LEMMA HeaderAlways == HeaderSpec => []HeaderIInv
<1>1. HeaderInit => HeaderIInv
  <2> SUFFICES ASSUME HeaderInit PROVE HeaderIInv
    OBVIOUS
  <2>1. GenesisBits \in Compact /\ FromCompact(GenesisBits) \in 1 .. MaxTarget /\ MaxTime \in Nat
    BY HeaderAssumption
  <2>2. /\ headers \in Seq(Header) /\ headers # << >> /\ Len(headers) = 1
        /\ headers[1].bits = GenesisBits
    BY <2>1 DEF HeaderInit, Header
  <2>3. now \in 0 .. MaxTime
    BY <2>1 DEF HeaderInit
  <2>4. \A i \in 1 .. 1 : i = 1
    OBVIOUS
  <2>5. 2 .. 1 = {}
    OBVIOUS
  <2> QED BY <2>1, <2>2, <2>3, <2>4, <2>5
          DEF HeaderIInv, Rising, TargetAt, TimeAboveMedian, AdjustmentClamped
<1> QED BY <1>1, HeaderStep, PTL DEF HeaderSpec

\* Along every branch, over any number of retargets, times lie above the median of the
\* headers before, and targets within the cap and within the clamp of one another.
THEOREM BranchAlwaysLawful == HeaderSpec => []BranchLawful
<1>1. HeaderIInv => BranchLawful
  <2> SUFFICES ASSUME HeaderIInv PROVE BranchLawful
    OBVIOUS
  <2>1. Top \in Nat /\ MaxTarget \in Nat /\ MaxTarget <= Top - 1
    BY SizeAssumption
  <2>2. DOMAIN headers = 1 .. Len(headers)
    BY DEF HeaderIInv
  <2>3. \A i \in DOMAIN headers : TargetAt(i) \in 1 .. Top - 1 /\ TargetAt(i) <= MaxTarget
    BY <2>1, <2>2 DEF HeaderIInv
  <2> QED BY <2>3 DEF HeaderIInv, BranchLawful, HeaderTypeOK, TargetWithinCap, Header
<1> QED BY <1>1, HeaderAlways, PTL

\* Chain selection adds positive numbers: block_work is 2^256 / (target + 1) for every
\* target that a branch carries.
THEOREM WorkAlwaysQuotient == HeaderSpec => []WorkIsQuotient
<1>1. HeaderIInv => WorkIsQuotient
  <2> SUFFICES ASSUME HeaderIInv, NEW i \in DOMAIN headers
               PROVE  BlockWork(TargetAt(i)) = WorkOf(TargetAt(i)) /\ BlockWork(TargetAt(i)) > 0
    BY DEF WorkIsQuotient
  <2>1. TargetAt(i) \in 1 .. MaxTarget
    BY DEF HeaderIInv
  <2>2. TargetAt(i) \in 1 .. Top - 1
    BY <2>1, SizeAssumption
  <2> QED BY <2>2, WorkOfTarget
<1> QED BY <1>1, HeaderAlways, PTL

-----------------------------------------------------------------------------
(***************************************************************************)
(* Descendants in the pool.  The search of remove_transaction_and_-        *)
(* descendants ends with a set that the links do not leave.                *)
(***************************************************************************)

Follows(R, A) == {x[2] : x \in {y \in R : y[1] \in A}}
GrowStep(f, R, S, n) == IF n = 0 THEN S ELSE f[n - 1] \cup Follows(R, f[n - 1])
Grows(f, R, S, m) == f = [n \in 0 .. m |-> GrowStep(f, R, S, n)]

\* The search defines a function.
LEMMA GrowsExist ==
  ASSUME NEW R, NEW S, NEW m \in Nat
  PROVE  \E f : Grows(f, R, S, m)
<1> DEFINE T == {k \in Nat : \E f : Grows(f, R, S, k)}
<1>1. 0 \in T
  <2> DEFINE f == [n \in 0 .. 0 |-> S]
  <2>1. Grows(f, R, S, 0)
    BY DEF Grows, GrowStep
  <2> QED BY <2>1
<1>2. ASSUME NEW k \in Nat, k \in T PROVE k + 1 \in T
  <2>1. PICK f : Grows(f, R, S, k)
    BY <1>2
  <2>2. \A n \in 0 .. k : f[n] = GrowStep(f, R, S, n)
    BY <2>1 DEF Grows
  <2> DEFINE g == [n \in 0 .. (k + 1) |-> IF n <= k THEN f[n] ELSE GrowStep(f, R, S, n)]
  <2>3. \A n \in 0 .. k : g[n] = f[n]
    OBVIOUS
  <2>4. ASSUME NEW n \in 0 .. (k + 1) PROVE g[n] = GrowStep(g, R, S, n)
    <3>1. g[n] = GrowStep(f, R, S, n)
      BY <2>2
    <3>2. n # 0 => n - 1 \in 0 .. k
      OBVIOUS
    <3>3. n # 0 => g[n - 1] = f[n - 1]
      BY <2>3, <3>2
    <3> HIDE DEF g
    <3> QED BY <3>1, <3>3 DEF GrowStep
  <2>5. g = [n \in 0 .. (k + 1) |-> g[n]]
    OBVIOUS
  <2> HIDE DEF g
  <2>6. Grows(g, R, S, k + 1)
    BY <2>4, <2>5 DEF Grows
  <2> QED BY <2>6
<1>3. Nat \subseteq T
  <2> HIDE DEF T
  <2> QED BY <1>1, <1>2, OneByOne
<1> QED BY <1>3

\* What the links lead to from S: S itself, and with a transaction all it leads to.
LEMMA ReachClosed ==
  ASSUME NEW R \in SUBSET (Tx \X Tx), NEW S \in SUBSET Tx
  PROVE  /\ S \subseteq Reach(R, S)
         /\ Reach(R, S) \subseteq Tx
         /\ \A x \in R : x[1] \in Reach(R, S) => x[2] \in Reach(R, S)
<1> DEFINE N == Cardinality(Tx)
           f == CHOOSE g : Grows(g, R, S, N)
<1>1. IsFiniteSet(Tx) /\ N \in Nat
  BY PoolAssumption, FS_CardinalityType
<1>2. Reach(R, S) = f[N]
  BY DEF Reach, Grows, GrowStep, Follows
<1>3. Grows(f, R, S, N)
  BY <1>1, GrowsExist
<1> HIDE DEF f, N
<1>4. /\ f[0] = S
      /\ \A n \in 1 .. N : f[n] = f[n - 1] \cup Follows(R, f[n - 1])
  <2>1. \A n \in 0 .. N : f[n] = GrowStep(f, R, S, n)
    BY <1>3 DEF Grows
  <2>2. 0 \in 0 .. N /\ \A n \in 1 .. N : n \in 0 .. N /\ n # 0
    BY <1>1
  <2> QED BY <2>1, <2>2 DEF GrowStep
<1> DEFINE Closed(A) == Follows(R, A) \subseteq A
           Good(n) == /\ S \subseteq f[n] /\ f[n] \subseteq Tx
                      /\ (Closed(f[n]) \/ Cardinality(f[n]) >= n)
           T == {n \in Nat : n <= N => Good(n)}
<1>5. 0 \in T
  <2>1. IsFiniteSet(S)
    BY <1>1, FS_Subset
  <2>2. Cardinality(S) >= 0
    BY <2>1, FS_CardinalityType
  <2> QED BY <1>4, <2>2
<1>6. ASSUME NEW n \in Nat, n \in T PROVE n + 1 \in T
  <2> SUFFICES ASSUME n + 1 <= N
               PROVE  /\ S \subseteq f[n + 1] /\ f[n + 1] \subseteq Tx
                      /\ (Closed(f[n + 1]) \/ Cardinality(f[n + 1]) >= n + 1)
    OBVIOUS
  <2> DEFINE A == f[n]
             B == f[n + 1]
  <2>1. n <= N /\ n + 1 \in 1 .. N /\ (n + 1) - 1 = n
    BY <1>1
  <2>2. S \subseteq A /\ A \subseteq Tx /\ (Closed(A) \/ Cardinality(A) >= n)
    <3>1. Good(n)
      <4> HIDE DEF Good
      <4> QED BY <1>6, <2>1
    <3> QED BY <3>1
  <2>3. B = A \cup Follows(R, A)
    BY <1>4, <2>1
  <2> HIDE DEF A, B, Closed
  <2>4. Follows(R, A) \subseteq Tx
    BY DEF Follows
  <2>5. S \subseteq B /\ B \subseteq Tx
    BY <2>2, <2>3, <2>4
  <2>6. CASE Closed(A)
    <3>1. B = A
      BY <2>3, <2>6 DEF Closed
    <3> QED BY <2>5, <2>6, <3>1 DEF B
  <2>7. CASE ~ Closed(A)
    <3>1. PICK z \in Follows(R, A) : z \notin A
      BY <2>7 DEF Closed
    <3>2. IsFiniteSet(A) /\ IsFiniteSet(B)
      BY <1>1, <2>2, <2>5, FS_Subset
    <3>3. A \cup {z} \in SUBSET B
      BY <2>3, <3>1
    <3>4. Cardinality(A \cup {z}) = Cardinality(A) + 1 /\ Cardinality(A) \in Nat
      BY <3>1, <3>2, FS_AddElement, FS_CardinalityType
    <3>5. Cardinality(A \cup {z}) <= Cardinality(B) /\ Cardinality(B) \in Nat
      BY <3>2, <3>3, FS_Subset, FS_CardinalityType
    <3>6. Cardinality(A) >= n
      BY <2>2, <2>7
    <3>7. Cardinality(B) >= n + 1
      BY <3>4, <3>5, <3>6
    <3> QED BY <2>5, <3>7 DEF B
  <2> QED BY <2>6, <2>7
<1>7. Nat \subseteq T
  <2> HIDE DEF T
  <2> QED BY <1>5, <1>6, OneByOne
<1>8. S \subseteq f[N] /\ f[N] \subseteq Tx /\ (Closed(f[N]) \/ Cardinality(f[N]) >= N)
  <2>1. N \in T /\ N <= N
    BY <1>1, <1>7
  <2>2. Good(N)
    <3> HIDE DEF Good
    <3> QED BY <2>1
  <2> QED BY <2>2
<1>9. Closed(f[N])
  <2>1. CASE Cardinality(f[N]) >= N
    <3>1. Cardinality(f[N]) <= Cardinality(Tx) /\ Cardinality(f[N]) \in Nat
      BY <1>1, <1>8, FS_Subset, FS_CardinalityType
    <3>2. Cardinality(Tx) = Cardinality(f[N])
      BY <1>1, <2>1, <3>1 DEF N
    <3>3. f[N] = Tx
      BY <1>1, <1>8, <3>2, FS_Subset
    <3>4. Follows(R, Tx) \subseteq Tx
      BY DEF Follows
    <3> QED BY <3>3, <3>4
  <2> QED BY <1>8, <2>1
<1>10. \A x \in R : x[1] \in f[N] => x[2] \in f[N]
  BY <1>9 DEF Follows
<1> QED BY <1>2, <1>8, <1>10

-----------------------------------------------------------------------------
(***************************************************************************)
(* The maps of the pool, limits aside.                                     *)
(***************************************************************************)

\* spent_outpoints holds the inputs of the entries and who spends them.
Indexed(p) ==
  /\ DOMAIN p.spent = UNION {Ins[t] : t \in p.entries}
  /\ \A t \in p.entries : \A o \in Ins[t] : p.spent[o] = t

\* The two maps of dependencies mirror each other and belong to entries.
Mirrored(p) ==
  /\ p.pars \in SUBSET (Tx \X Tx)
  /\ p.kids = {<<x[2], x[1]>> : x \in p.pars}
  /\ \A x \in p.pars : x[1] \in p.entries /\ \E o \in Ins[x[1]] : Source[o] = x[2]

PoolOK(p) ==
  /\ p = [entries |-> p.entries, spent |-> p.spent, kids |-> p.kids, pars |-> p.pars, bytes |-> p.bytes]
  /\ p.entries \in SUBSET Tx /\ IsFiniteSet(p.entries)
  /\ p.entries \subseteq Authorized
  /\ \A t \in p.entries : Ins[t] # {}
  /\ Indexed(p)
  /\ Mirrored(p)
  /\ p.bytes = TotalSize(p.entries)

\* q is what is left of p.
LeftOf(q, p) ==
  /\ q.entries \subseteq p.entries
  /\ DOMAIN q.spent \subseteq DOMAIN p.spent
  /\ q.kids \subseteq p.kids

\* The sizes of some entries and of the others.
LEMMA SizesSplit ==
  ASSUME NEW E \in SUBSET Tx, IsFiniteSet(E), NEW S
  PROVE  /\ TotalSize(E) \in Nat /\ TotalSize(E \ S) \in Nat
         /\ TotalSize(E) - TotalSize(E \cap S) = TotalSize(E \ S)
         /\ TotalSize(E \ S) <= TotalSize(E)
<1>1. \A A : TotalSize(A) = Total(Size, A)
  BY DEF TotalSize, Total
<1>2. \A t \in Tx : Size[t] \in Nat
  BY PoolAssumption
<1>3. IsFiniteSet(E \cap S) /\ IsFiniteSet(E \ S) /\ (E \cap S) \cap (E \ S) = {}
  BY FS_Subset
<1>4. (E \cap S) \cup (E \ S) = E
  OBVIOUS
<1>5. Total(Size, (E \cap S) \cup (E \ S)) = Total(Size, E \cap S) + Total(Size, E \ S)
  <2>1. \A t \in (E \cap S) \cup (E \ S) : Size[t] \in Int
    BY <1>2
  <2> QED BY <1>3, <2>1, TotalUnion
<1>6. Total(Size, E) = Total(Size, E \cap S) + Total(Size, E \ S)
  BY <1>4, <1>5
<1>7. Total(Size, E \cap S) \in Nat /\ Total(Size, E \ S) \in Nat /\ Total(Size, E) \in Nat
  <2>1. /\ \A t \in E : Size[t] \in Nat
        /\ \A t \in E \cap S : Size[t] \in Nat
        /\ \A t \in E \ S : Size[t] \in Nat
    BY <1>2
  <2> QED BY <1>3, <2>1, TotalNat
<1> QED BY <1>1, <1>6, <1>7

\* Entries leave with their outpoints, their bytes and their links to parents.
LEMMA TakenOut ==
  ASSUME NEW p, PoolOK(p), NEW S
  PROVE  LET q == Unlink(Take(p, S), S)
         IN  /\ PoolOK(q) /\ LeftOf(q, p)
             /\ q.entries = p.entries \ S
             /\ q.kids = {k \in p.kids : k[2] \notin S}
             /\ q.bytes <= p.bytes
<1> DEFINE gone == p.entries \cap S
           freed == UNION {Ins[t] : t \in gone}
           links == {x \in p.pars : x[1] \in S}
           q == Unlink(Take(p, S), S)
<1>1. q = [entries |-> p.entries \ S,
           spent |-> [o \in DOMAIN p.spent \ freed |-> p.spent[o]],
           kids |-> p.kids \ {<<x[2], x[1]>> : x \in links},
           pars |-> p.pars \ links,
           bytes |-> p.bytes - TotalSize(gone)]
  <2>1. p = [entries |-> p.entries, spent |-> p.spent, kids |-> p.kids, pars |-> p.pars, bytes |-> p.bytes]
    BY DEF PoolOK
  <2> DEFINE k == Take(p, S)
  <2>2. k = [entries |-> p.entries \ S,
             spent |-> [o \in DOMAIN p.spent \ freed |-> p.spent[o]],
             kids |-> p.kids, pars |-> p.pars,
             bytes |-> p.bytes - TotalSize(gone)]
    <3>1. k = [p EXCEPT !.entries = p.entries \ S,
                        !.spent = [o \in DOMAIN p.spent \ freed |-> p.spent[o]],
                        !.bytes = p.bytes - TotalSize(gone)]
      BY DEF Take
    <3>2. PICK f : f = [o \in DOMAIN p.spent \ freed |-> p.spent[o]]
      OBVIOUS
    <3>3. PICK g : g = p.bytes - TotalSize(gone)
      OBVIOUS
    <3> HIDE DEF k, gone, freed
    <3>4. k = [p EXCEPT !.entries = p.entries \ S, !.spent = f, !.bytes = g]
      BY <3>1, <3>2, <3>3
    <3>5. k = [entries |-> p.entries \ S, spent |-> f, kids |-> p.kids, pars |-> p.pars, bytes |-> g]
      BY <2>1, <3>4
    <3> QED BY <3>2, <3>3, <3>5
  <2> HIDE DEF k
  <2>3. q = [k EXCEPT !.pars = k.pars \ {x \in k.pars : x[1] \in S},
                      !.kids = k.kids \ {<<x[2], x[1]>> : x \in {y \in k.pars : y[1] \in S}}]
    BY DEF Unlink, k
  <2>4. k.pars = p.pars /\ k.kids = p.kids
    BY <2>2
  <2>5. q = [k EXCEPT !.pars = p.pars \ links,
                      !.kids = p.kids \ {<<x[2], x[1]>> : x \in links}]
    BY <2>3, <2>4
  <2> HIDE DEF q, links, freed, gone
  <2> QED BY <2>2, <2>5
<1>2. /\ q.entries = p.entries \ S
      /\ q.spent = [o \in DOMAIN p.spent \ freed |-> p.spent[o]]
      /\ q.kids = p.kids \ {<<x[2], x[1]>> : x \in links}
      /\ q.pars = p.pars \ links
      /\ q.bytes = p.bytes - TotalSize(gone)
      /\ q = [entries |-> q.entries, spent |-> q.spent, kids |-> q.kids, pars |-> q.pars, bytes |-> q.bytes]
  BY <1>1
<1> HIDE DEF q
<1>3. /\ p.entries \in SUBSET Tx /\ IsFiniteSet(p.entries) /\ p.bytes = TotalSize(p.entries)
      /\ p.entries \subseteq Authorized /\ \A t \in p.entries : Ins[t] # {}
      /\ DOMAIN p.spent = UNION {Ins[t] : t \in p.entries}
      /\ \A t \in p.entries : \A o \in Ins[t] : p.spent[o] = t
      /\ p.pars \in SUBSET (Tx \X Tx)
      /\ p.kids = {<<x[2], x[1]>> : x \in p.pars}
      /\ \A x \in p.pars : x[1] \in p.entries /\ \E o \in Ins[x[1]] : Source[o] = x[2]
  BY DEF PoolOK, Indexed, Mirrored
<1>4. /\ q.entries \in SUBSET Tx /\ IsFiniteSet(q.entries) /\ q.entries \subseteq Authorized
      /\ \A t \in q.entries : Ins[t] # {}
  BY <1>2, <1>3, FS_Subset
<1>5. q.bytes = TotalSize(q.entries) /\ q.bytes <= p.bytes
  <2>1. /\ TotalSize(p.entries) - TotalSize(gone) = TotalSize(p.entries \ S)
        /\ TotalSize(p.entries \ S) <= TotalSize(p.entries)
    BY <1>3, SizesSplit
  <2> HIDE DEF gone
  <2> QED BY <1>2, <1>3, <2>1
<1>6. Indexed(q)
  <2>1. DOMAIN q.spent = DOMAIN p.spent \ freed
    BY <1>2
  <2>2. ASSUME NEW o \in DOMAIN p.spent, o \notin freed PROVE \E t \in q.entries : o \in Ins[t]
    <3>1. PICK t \in p.entries : o \in Ins[t]
      BY <1>3
    <3>2. t \notin S
      BY <2>2, <3>1
    <3> QED BY <1>2, <3>1, <3>2
  <2>3. ASSUME NEW t \in q.entries, NEW o \in Ins[t] PROVE o \in DOMAIN p.spent /\ o \notin freed
    <3>1. t \in p.entries /\ t \notin S /\ p.spent[o] = t
      BY <1>2, <1>3
    <3>2. ASSUME NEW u \in gone, o \in Ins[u] PROVE FALSE
      <4>1. p.spent[o] = u
        BY <1>3, <3>2
      <4> QED BY <3>1, <4>1
    <3> QED BY <1>3, <3>1, <3>2
  <2>4. DOMAIN q.spent = UNION {Ins[t] : t \in q.entries}
    <3> HIDE DEF freed
    <3> QED BY <2>1, <2>2, <2>3
  <2>5. ASSUME NEW t \in q.entries, NEW o \in Ins[t] PROVE q.spent[o] = t
    <3>1. q.spent[o] = p.spent[o]
      BY <1>2, <2>3
    <3> QED BY <1>2, <1>3, <3>1
  <2> QED BY <2>4, <2>5 DEF Indexed
<1>7. q.kids = {k \in p.kids : k[2] \notin S}
  <2>1. ASSUME NEW k \in p.kids PROVE k[2] \in S <=> k \in {<<x[2], x[1]>> : x \in links}
    <3>1. PICK x \in p.pars : k = <<x[2], x[1]>>
      BY <1>3
    <3>2. k[2] = x[1]
      BY <3>1
    <3>3. ASSUME NEW y \in links, k = <<y[2], y[1]>> PROVE k[2] \in S
      BY <3>3
    <3> QED BY <3>1, <3>2, <3>3
  <2> QED BY <1>2, <2>1
<1>8. Mirrored(q)
  <2>1. q.pars = {x \in p.pars : x[1] \notin S}
    BY <1>2
  <2>2. ASSUME NEW x \in q.pars PROVE x[1] \in q.entries /\ \E o \in Ins[x[1]] : Source[o] = x[2]
    BY <1>2, <1>3, <2>1
  <2>3. ASSUME NEW k \in q.kids PROVE \E x \in q.pars : k = <<x[2], x[1]>>
    <3>1. PICK x \in p.pars : k = <<x[2], x[1]>>
      BY <1>3, <1>7
    <3>2. x[1] \notin S
      BY <1>7, <3>1
    <3> QED BY <2>1, <3>1, <3>2
  <2>4. ASSUME NEW x \in q.pars PROVE <<x[2], x[1]>> \in q.kids
    <3>1. <<x[2], x[1]>> \in p.kids
      BY <1>3, <2>1
    <3>2. <<x[2], x[1]>>[2] \notin S
      BY <2>1
    <3> QED BY <1>7, <3>1, <3>2
  <2>5. q.pars \in SUBSET (Tx \X Tx)
    BY <1>3, <2>1
  <2>6. q.kids = {<<x[2], x[1]>> : x \in q.pars}
    BY <2>3, <2>4
  <2> QED BY <2>2, <2>5, <2>6 DEF Mirrored
<1>9. LeftOf(q, p)
  BY <1>2 DEF LeftOf
<1>10. PoolOK(q)
  BY <1>2, <1>4, <1>5, <1>6, <1>8 DEF PoolOK
<1> QED BY <1>2, <1>5, <1>7, <1>9, <1>10 DEF q

\* remove_transaction_and_descendants leaves a consistent pool without S.
LEMMA Removed ==
  ASSUME NEW p, PoolOK(p), NEW S \in SUBSET Tx
  PROVE  LET r == RemoveWithDescendants(p, S)
         IN  /\ PoolOK(r) /\ LeftOf(r, p)
             /\ r.entries \cap S = {}
             /\ r.bytes <= p.bytes
<1> DEFINE all == Reach(p.kids, S)
           q == Unlink(Take(p, all), all)
           r == RemoveWithDescendants(p, S)
<1>1. p.kids \in SUBSET (Tx \X Tx)
  BY DEF PoolOK, Mirrored
<1>2. S \subseteq all /\ \A k \in p.kids : k[1] \in all => k[2] \in all
  BY <1>1, ReachClosed
<1>3. r = [q EXCEPT !.kids = {x \in q.kids : x[1] \notin all}]
  BY DEF RemoveWithDescendants
<1> HIDE DEF all, r
<1>4. /\ PoolOK(q) /\ LeftOf(q, p) /\ q.entries = p.entries \ all
      /\ q.kids = {k \in p.kids : k[2] \notin all} /\ q.bytes <= p.bytes
  BY TakenOut
<1> HIDE DEF q
<1>5. {x \in q.kids : x[1] \notin all} = q.kids
  BY <1>2, <1>4
<1>6. r = q
  <2>1. q = [entries |-> q.entries, spent |-> q.spent, kids |-> q.kids, pars |-> q.pars, bytes |-> q.bytes]
    BY <1>4 DEF PoolOK
  <2>2. r = [q EXCEPT !.kids = q.kids]
    BY <1>3, <1>5
  <2> QED BY <2>1, <2>2
<1>7. r.entries \cap S = {}
  BY <1>2, <1>4, <1>6
<1> QED BY <1>4, <1>6, <1>7 DEF r

\* The limits of the pool.
PoolLimited(p) ==
  /\ Cardinality(p.entries) <= MaxCount
  /\ p.bytes <= MaxBytes
  /\ \A s \in Tx : Cardinality({x \in p.kids : x[1] = s}) <= MaxDescendants

\* The links of K from s.
LinksFrom(K, s) == {x \in K : x[1] = s}

\* Links are finitely many, and a transaction of a smaller set has no more.
LEMMA FewerLinks ==
  ASSUME NEW K \in SUBSET (Tx \X Tx), NEW L \in SUBSET K, NEW s
  PROVE  /\ IsFiniteSet(LinksFrom(K, s))
         /\ Cardinality(LinksFrom(L, s)) \in Nat
         /\ Cardinality(LinksFrom(K, s)) \in Nat
         /\ Cardinality(LinksFrom(L, s)) <= Cardinality(LinksFrom(K, s))
<1> DEFINE A == LinksFrom(K, s)
           B == LinksFrom(L, s)
<1>1. IsFiniteSet(Tx \X Tx)
  BY PoolAssumption, FS_Product
<1>2. A \in SUBSET (Tx \X Tx) /\ B \in SUBSET A
  BY DEF LinksFrom
<1> HIDE DEF A, B
<1>3. IsFiniteSet(A)
  BY <1>1, <1>2, FS_Subset
<1>4. IsFiniteSet(B) /\ Cardinality(B) <= Cardinality(A)
  BY <1>2, <1>3, FS_Subset
<1>5. Cardinality(A) \in Nat /\ Cardinality(B) \in Nat
  BY <1>3, <1>4, FS_CardinalityType
<1> QED BY <1>3, <1>4, <1>5 DEF A, B

\* What is left of a pool within its limits is within them.
LEMMA LeftLimited ==
  ASSUME NEW p, PoolOK(p), PoolLimited(p), NEW q, PoolOK(q), LeftOf(q, p), q.bytes <= p.bytes
  PROVE  PoolLimited(q)
<1>1. /\ q.entries \in SUBSET p.entries /\ IsFiniteSet(p.entries) /\ q.kids \in SUBSET p.kids
      /\ p.kids \in SUBSET (Tx \X Tx)
      /\ p.entries \in SUBSET Tx /\ q.entries \in SUBSET Tx
  BY DEF LeftOf, PoolOK, Mirrored
<1>2. /\ Cardinality(q.entries) <= Cardinality(p.entries)
      /\ Cardinality(q.entries) \in Nat /\ Cardinality(p.entries) \in Nat
  BY <1>1, FS_Subset, FS_CardinalityType
<1>3. Cardinality(q.entries) <= MaxCount
  BY <1>2, PoolAssumption DEF PoolLimited
<1>4. q.bytes <= MaxBytes
  <2>1. q.bytes = TotalSize(q.entries) /\ p.bytes = TotalSize(p.entries) /\ IsFiniteSet(q.entries)
    BY DEF PoolOK
  <2>2. TotalSize(q.entries) \in Nat
    BY <1>1, <2>1, SizesSplit
  <2>3. TotalSize(p.entries) \in Nat
    BY <1>1, SizesSplit
  <2> QED BY <2>1, <2>2, <2>3, PoolAssumption DEF PoolLimited
<1>5. ASSUME NEW s \in Tx PROVE Cardinality({x \in q.kids : x[1] = s}) <= MaxDescendants
  <2>1. /\ Cardinality({x \in q.kids : x[1] = s}) <= Cardinality({x \in p.kids : x[1] = s})
        /\ Cardinality({x \in q.kids : x[1] = s}) \in Nat
        /\ Cardinality({x \in p.kids : x[1] = s}) \in Nat
    <3>1. /\ Cardinality(LinksFrom(q.kids, s)) <= Cardinality(LinksFrom(p.kids, s))
          /\ Cardinality(LinksFrom(q.kids, s)) \in Nat
          /\ Cardinality(LinksFrom(p.kids, s)) \in Nat
      BY <1>1, FewerLinks
    <3> QED BY <3>1 DEF LinksFrom
  <2>2. Cardinality({x \in p.kids : x[1] = s}) <= MaxDescendants /\ MaxDescendants \in Nat
    BY PoolAssumption DEF PoolLimited
  <2> QED BY <2>1, <2>2
<1> QED BY <1>3, <1>4, <1>5 DEF PoolLimited

\* Insert: a new entry with its outpoints, its links and its bytes.
LEMMA Inserted ==
  ASSUME NEW p, PoolOK(p), PoolLimited(p), NEW t \in Tx, t \in Authorized, Ins[t] # {},
         t \notin p.entries, Ins[t] \cap DOMAIN p.spent = {}, ~ Full(p, t),
         NEW P, P \subseteq {Source[o] : o \in Ins[t]},
         \A s \in P : Cardinality({x \in p.kids : x[1] = s}) < MaxDescendants
  PROVE  PoolOK(Insert(p, t, P)) /\ PoolLimited(Insert(p, t, P))
<1> DEFINE q == Insert(p, t, P)
           up == {<<t, s>> : s \in P}
           dn == {<<s, t>> : s \in P}
           sp == [o \in DOMAIN p.spent \cup Ins[t] |-> IF o \in Ins[t] THEN t ELSE p.spent[o]]
<1>1. /\ q.entries = p.entries \cup {t} /\ q.spent = sp
      /\ q.kids = p.kids \cup dn /\ q.pars = p.pars \cup up
      /\ q.bytes = p.bytes + Size[t]
      /\ q = [entries |-> q.entries, spent |-> q.spent, kids |-> q.kids, pars |-> q.pars, bytes |-> q.bytes]
  <2>1. p = [entries |-> p.entries, spent |-> p.spent, kids |-> p.kids, pars |-> p.pars, bytes |-> p.bytes]
    BY DEF PoolOK
  <2>2. q = [p EXCEPT !.entries = p.entries \cup {t}, !.spent = sp, !.kids = p.kids \cup dn,
                      !.pars = p.pars \cup up, !.bytes = p.bytes + Size[t]]
    BY DEF Insert
  <2> HIDE DEF q, sp, up, dn
  <2>3. q = [entries |-> p.entries \cup {t}, spent |-> sp, kids |-> p.kids \cup dn,
             pars |-> p.pars \cup up, bytes |-> p.bytes + Size[t]]
    BY <2>1, <2>2
  <2> QED BY <2>3
<1> HIDE DEF q
<1>2. /\ p.entries \in SUBSET Tx /\ IsFiniteSet(p.entries) /\ p.bytes = TotalSize(p.entries)
      /\ p.entries \subseteq Authorized /\ \A u \in p.entries : Ins[u] # {}
      /\ DOMAIN p.spent = UNION {Ins[u] : u \in p.entries}
      /\ \A u \in p.entries : \A o \in Ins[u] : p.spent[o] = u
      /\ p.pars \in SUBSET (Tx \X Tx)
      /\ p.kids = {<<x[2], x[1]>> : x \in p.pars}
      /\ \A x \in p.pars : x[1] \in p.entries /\ \E o \in Ins[x[1]] : Source[o] = x[2]
  BY DEF PoolOK, Indexed, Mirrored
<1>3. Size[t] \in Nat /\ Source \in [OutPoint -> Tx] /\ Ins[t] \subseteq OutPoint
  BY PoolAssumption, TransactionAssumption
<1>4. P \subseteq Tx
  BY <1>3
<1>5. /\ q.entries \in SUBSET Tx /\ IsFiniteSet(q.entries) /\ q.entries \subseteq Authorized
      /\ \A u \in q.entries : Ins[u] # {}
  BY <1>1, <1>2, FS_AddElement
<1>6. Cardinality(q.entries) = Cardinality(p.entries) + 1 /\ Cardinality(p.entries) \in Nat
  <2>1. PICK E : E = p.entries
    OBVIOUS
  <2>2. IsFiniteSet(E) /\ t \notin E
    BY <1>2, <2>1
  <2>3. Cardinality(E \cup {t}) = Cardinality(E) + 1 /\ Cardinality(E) \in Nat
    BY <2>2, FS_AddElement, FS_CardinalityType
  <2> QED BY <1>1, <2>1, <2>3
<1>7. q.bytes = TotalSize(q.entries) /\ q.bytes \in Nat
  <2>1. \A u \in p.entries : Size[u] \in Int
    BY <1>2, PoolAssumption
  <2>2. Size[t] \in Int
    BY <1>3
  <2>3. Total(Size, p.entries \cup {t}) = Total(Size, p.entries) + Size[t]
    BY <1>2, <2>1, <2>2, TotalAdd
  <2>4. \A A : TotalSize(A) = Total(Size, A)
    BY DEF TotalSize, Total
  <2>5. TotalSize(q.entries) \in Nat
    BY <1>5, SizesSplit
  <2> QED BY <1>1, <1>2, <2>3, <2>4, <2>5
<1>8. Indexed(q)
  <2>1. DOMAIN q.spent = DOMAIN p.spent \cup Ins[t]
    BY <1>1
  <2>2. DOMAIN q.spent = UNION {Ins[u] : u \in q.entries}
    BY <1>1, <1>2, <2>1
  <2>3. ASSUME NEW u \in q.entries, NEW o \in Ins[u] PROVE q.spent[o] = u
    <3>1. o \in DOMAIN q.spent
      BY <2>2
    <3>2. q.spent[o] = IF o \in Ins[t] THEN t ELSE p.spent[o]
      BY <1>1, <2>1, <3>1
    <3>3. CASE u = t
      BY <2>3, <3>2, <3>3
    <3>4. CASE u # t
      <4>1. u \in p.entries /\ o \in DOMAIN p.spent
        BY <1>1, <1>2, <2>3, <3>4
      <4>2. o \notin Ins[t]
        BY <4>1
      <4> QED BY <1>2, <2>3, <3>2, <4>1, <4>2
    <3> QED BY <3>3, <3>4
  <2> QED BY <2>2, <2>3 DEF Indexed
<1>9. Mirrored(q)
  <2>1. q.pars \in SUBSET (Tx \X Tx)
    BY <1>1, <1>2, <1>4
  <2>2. dn = {<<x[2], x[1]>> : x \in up}
    <3>1. ASSUME NEW y \in dn PROVE \E x \in up : y = <<x[2], x[1]>>
      <4>1. PICK s \in P : y = <<s, t>>
        OBVIOUS
      <4>2. <<t, s>> \in up /\ <<t, s>>[1] = t /\ <<t, s>>[2] = s
        OBVIOUS
      <4> QED BY <4>1, <4>2
    <3>2. ASSUME NEW x \in up PROVE <<x[2], x[1]>> \in dn
      <4>1. PICK s \in P : x = <<t, s>>
        OBVIOUS
      <4>2. x[1] = t /\ x[2] = s
        BY <4>1
      <4> QED BY <4>2
    <3> HIDE DEF up, dn
    <3> QED BY <3>1, <3>2
  <2>3. ASSUME NEW x \in up PROVE x[1] = t /\ \E o \in Ins[x[1]] : Source[o] = x[2]
    <3>1. PICK s \in P : x = <<t, s>>
      OBVIOUS
    <3>2. PICK o \in Ins[t] : Source[o] = s
      OBVIOUS
    <3> QED BY <3>1, <3>2
  <2> HIDE DEF up, dn
  <2>4. q.kids = {<<x[2], x[1]>> : x \in q.pars}
    BY <1>1, <1>2, <2>2
  <2>5. ASSUME NEW x \in q.pars PROVE x[1] \in q.entries /\ \E o \in Ins[x[1]] : Source[o] = x[2]
    BY <1>1, <1>2, <2>3
  <2> QED BY <2>1, <2>4, <2>5 DEF Mirrored
<1>10. PoolOK(q)
  BY <1>1, <1>5, <1>7, <1>8, <1>9 DEF PoolOK
<1>11. Cardinality(q.entries) <= MaxCount /\ q.bytes <= MaxBytes
  <2>1. ~ (Cardinality(p.entries) >= MaxCount) /\ ~ (p.bytes + Size[t] > MaxBytes)
    BY DEF Full
  <2>2. MaxCount \in Nat /\ MaxBytes \in Nat
    BY PoolAssumption
  <2>3. p.bytes + Size[t] \in Nat
    BY <1>1, <1>7
  <2> QED BY <1>1, <1>6, <2>1, <2>2, <2>3
<1>12. ASSUME NEW s \in Tx PROVE Cardinality({x \in q.kids : x[1] = s}) <= MaxDescendants
  <2> DEFINE K == {x \in p.kids : x[1] = s}
             L == {x \in q.kids : x[1] = s}
  <2>1. p.kids \in SUBSET (Tx \X Tx) /\ p.kids \in SUBSET p.kids
    BY DEF PoolOK, Mirrored
  <2>2. IsFiniteSet(K) /\ Cardinality(K) \in Nat
    <3>1. IsFiniteSet(LinksFrom(p.kids, s)) /\ Cardinality(LinksFrom(p.kids, s)) \in Nat
      BY <2>1, FewerLinks
    <3> QED BY <3>1 DEF LinksFrom
  <2>3. Cardinality(K) <= MaxDescendants /\ MaxDescendants \in Nat
    BY PoolAssumption DEF PoolLimited
  <2>4. CASE s \in P
    <3>1. L = K \cup {<<s, t>>}
      BY <1>1, <2>4
    <3>2. Cardinality(K) < MaxDescendants
      BY <2>4
    <3> HIDE DEF K, L
    <3>3. Cardinality(L) <= Cardinality(K) + 1
      <4>1. CASE <<s, t>> \in K
        <5>1. L = K
          BY <3>1, <4>1
        <5> QED BY <2>2, <5>1
      <4>2. CASE <<s, t>> \notin K
        <5>1. Cardinality(K \cup {<<s, t>>}) = Cardinality(K) + 1
          BY <2>2, <4>2, FS_AddElement
        <5> QED BY <2>2, <3>1, <5>1
      <4> QED BY <4>1, <4>2
    <3>4. IsFiniteSet(L) /\ Cardinality(L) \in Nat
      BY <2>2, <3>1, FS_AddElement, FS_CardinalityType
    <3>5. Cardinality(L) <= MaxDescendants
      BY <2>2, <2>3, <3>2, <3>3, <3>4
    <3> QED BY <3>5 DEF L
  <2>5. CASE s \notin P
    <3>1. L = K
      BY <1>1, <2>5
    <3> QED BY <2>3, <3>1
  <2> QED BY <2>4, <2>5
<1>13. PoolLimited(q)
  BY <1>11, <1>12 DEF PoolLimited
<1> QED BY <1>10, <1>13 DEF q

-----------------------------------------------------------------------------
(***************************************************************************)
(* Sequences of calls: the eviction loop and the readmissions of on_reorg  *)
(* are folds, and go through one pool per call.                            *)
(***************************************************************************)

\* One turn of a loop over transactions: the eviction for the newcomer c, the
\* choice from the pool c, the choice with the coins c, or the admission of x with
\* the coins c.
Call(kind, c, q, x) ==
  IF kind = "evict"
  THEN IF x \in q.entries /\ Full(q, c) /\ Rate[c] > Rate[x]
       THEN RemoveWithDescendants(q, {x}) ELSE q
  ELSE IF kind = "select"
  THEN IF /\ {z[2] : z \in {y \in c.pars : y[1] = x}} \subseteq Range(q)
          /\ TotalSize(Range(q)) + Size[x] <= BlockBytes
       THEN Append(q, x) ELSE q
  ELSE IF kind = "choose"
  THEN IF Ins[x] \subseteq (c \cup UNION {Outs[s] : s \in Range(q)}) \ UNION {Ins[s] : s \in Range(q)}
       THEN Append(q, x) ELSE q
  ELSE Admit(q, x, c)

CallStep(kind, c, f, x, base, s) ==
  IF x = {} THEN base ELSE Call(kind, c, f[x \ {Max(x)}], s[Max(x)])

\* f is the function that FoldLeft recurses with.
CallsBy(kind, c, f, base, s, n) == f = [x \in SUBSET (1 .. n) |-> CallStep(kind, c, f, x, base, s)]

\* The recursion of FoldLeft over the positions of a sequence defines a function.
LEMMA CallsExist ==
  ASSUME NEW kind, NEW c, NEW base, NEW s, NEW n \in Nat
  PROVE  \E f : CallsBy(kind, c, f, base, s, n)
<1> DEFINE Small(k) == {x \in SUBSET (1 .. n) : Cardinality(x) <= k}
           Step(f, x) == CallStep(kind, c, f, x, base, s)
           Good(f, k) == f = [x \in Small(k) |-> Step(f, x)]
           T == {k \in Nat : \E f : Good(f, k)}
<1>1. 0 \in T
  <2> DEFINE f == [x \in Small(0) |-> base]
  <2>1. ASSUME NEW x \in Small(0) PROVE x = {}
    <3>1. x \in SUBSET (1 .. n) /\ Cardinality(x) <= 0
      OBVIOUS
    <3>2. Cardinality(x) \in Nat /\ (Cardinality(x) = 0 <=> x = {})
      BY <3>1, LastOut
    <3> QED BY <3>1, <3>2
  <2>2. f = [x \in Small(0) |-> Step(f, x)]
    BY <2>1 DEF CallStep
  <2> QED BY <2>2
<1>2. ASSUME NEW k \in Nat, k \in T PROVE k + 1 \in T
  <2>1. PICK f : Good(f, k)
    BY <1>2
  <2> DEFINE g == [x \in Small(k + 1) |-> IF x \in Small(k) THEN f[x] ELSE Step(f, x)]
  <2>2. ASSUME NEW x \in Small(k + 1) PROVE g[x] = Step(g, x)
    <3>1. ASSUME x # {} PROVE x \ {Max(x)} \in Small(k) /\ x \ {Max(x)} \in Small(k + 1)
      <4>1. x \in SUBSET (1 .. n) /\ Cardinality(x) <= k + 1
        OBVIOUS
      <4>2. /\ Cardinality(x) \in Nat /\ Cardinality(x \ {Max(x)}) = Cardinality(x) - 1
            /\ x \ {Max(x)} \in SUBSET (1 .. n)
        BY <3>1, <4>1, LastOut
      <4>3. Cardinality(x \ {Max(x)}) <= k /\ Cardinality(x \ {Max(x)}) <= k + 1
        BY <4>1, <4>2
      <4> QED BY <4>2, <4>3
    <3>2. Step(g, x) = Step(f, x)
      BY <3>1 DEF CallStep
    <3>3. x \in Small(k) => f[x] = Step(f, x)
      <4> HIDE DEF Small, Step
      <4> QED BY <2>1
    <3> HIDE DEF Small, Step
    <3> QED BY <3>2, <3>3
  <2> HIDE DEF Step, Small
  <2>3. g = [x \in Small(k + 1) |-> g[x]]
    OBVIOUS
  <2> HIDE DEF g
  <2>4. g = [x \in Small(k + 1) |-> Step(g, x)]
    BY <2>2, <2>3
  <2> QED BY <2>4
<1>3. Nat \subseteq T
  <2> HIDE DEF T
  <2> QED BY <1>1, <1>2, OneByOne
<1>4. PICK f : Good(f, n)
  BY <1>3
<1>5. Small(n) = SUBSET (1 .. n)
  BY LastOut
<1> QED BY <1>4, <1>5 DEF CallsBy

\* What FoldLeft returns, and a record of the states it goes through.
CallsOf(kind, c, base, s, n) == (CHOOSE f : CallsBy(kind, c, f, base, s, n))[1 .. n]
Calls(kind, c, h, base, s, n) ==
  /\ h[0] = base
  /\ h[n] = CallsOf(kind, c, base, s, n)
  /\ \A k \in 1 .. n : h[k] = Call(kind, c, h[k - 1], s[k])

\* The fold takes the sequence's elements one by one from the first.
LEMMA CallStates ==
  ASSUME NEW kind, NEW c, NEW base, NEW s, NEW n \in Nat
  PROVE  \E h : Calls(kind, c, h, base, s, n)
<1> DEFINE f == CHOOSE g : CallsBy(kind, c, g, base, s, n)
           h == [k \in 0 .. n |-> f[1 .. k]]
<1>0. CallsBy(kind, c, f, base, s, n) /\ CallsOf(kind, c, base, s, n) = f[1 .. n]
  BY CallsExist DEF CallsOf
<1> HIDE DEF f
<1>1. \A x \in SUBSET (1 .. n) : f[x] = CallStep(kind, c, f, x, base, s)
  BY <1>0 DEF CallsBy
<1>2. f[1 .. 0] = base
  <2>1. 1 .. 0 = {} /\ {} \in SUBSET (1 .. n)
    OBVIOUS
  <2> QED BY <1>1, <2>1 DEF CallStep
<1>3. ASSUME NEW k \in 1 .. n PROVE f[1 .. k] = Call(kind, c, f[1 .. (k - 1)], s[k])
  <2>1. 1 .. k \in SUBSET (1 .. n) /\ 1 .. k # {} /\ k \in Nat \ {0}
    OBVIOUS
  <2>2. Max(1 .. k) = k /\ (1 .. k) \ {k} = 1 .. (k - 1)
    BY <2>1, LastOfPrefix
  <2>3. CallStep(kind, c, f, 1 .. k, base, s) = Call(kind, c, f[1 .. (k - 1)], s[k])
    BY <2>1, <2>2 DEF CallStep
  <2> QED BY <1>1, <2>1, <2>3
<1>4. /\ h[0] = f[1 .. 0] /\ h[n] = f[1 .. n]
      /\ \A k \in 1 .. n : h[k] = f[1 .. k] /\ h[k - 1] = f[1 .. (k - 1)]
  OBVIOUS
<1> HIDE DEF h
<1>5. Calls(kind, c, h, base, s, n)
  BY <1>0, <1>2, <1>3, <1>4 DEF Calls
<1> QED BY <1>5


\* The loops of the model are such folds: the eviction,
LEMMA EvictionFold ==
  ASSUME NEW p, NEW c, NEW n \in Nat, NEW s, s = Cheapest(p.entries), DOMAIN s = 1 .. n
  PROVE  MakeRoom(p, c) = CallsOf("evict", c, p, s, n)
BY DEF MakeRoom, FoldLeft, MapThenFoldSet, CallsOf, CallsBy, CallStep, Call

\* the readmissions of a reorganisation,
LEMMA ReadmissionFold ==
  ASSUME NEW p, NEW c, NEW n \in Nat, NEW s, DOMAIN s = 1 .. n
  PROVE  OnReorg(p, s, c) = CallsOf("admit", c, p, s, n)
BY DEF OnReorg, FoldLeft, MapThenFoldSet, CallsOf, CallsBy, CallStep, Call

\* the selection from the pool,
LEMMA SelectionFold ==
  ASSUME NEW p, NEW n \in Nat, NEW s, s = Reverse(Cheapest(p.entries)), DOMAIN s = 1 .. n
  PROVE  Select(p) = CallsOf("select", p, << >>, s, n)
BY DEF Select, FoldLeft, MapThenFoldSet, CallsOf, CallsBy, CallStep, Call

\* and the second filter of the template.
LEMMA ChoiceFold ==
  ASSUME NEW p, NEW c, NEW n \in Nat, NEW s, s = Select(p), DOMAIN s = 1 .. n
  PROVE  Chosen(p, c) = CallsOf("choose", c, << >>, s, n)
BY DEF Chosen, FoldLeft, MapThenFoldSet, CallsOf, CallsBy, CallStep, Call

-----------------------------------------------------------------------------
(***************************************************************************)
(* The calls keep the pool consistent and within its limits.               *)
(***************************************************************************)

PoolGood(p) == PoolOK(p) /\ PoolLimited(p)

\* The eviction loop only takes away.
LEMMA RoomMade ==
  ASSUME NEW p, PoolOK(p), NEW t
  PROVE  PoolOK(MakeRoom(p, t)) /\ LeftOf(MakeRoom(p, t), p) /\ MakeRoom(p, t).bytes <= p.bytes
<1> DEFINE n == Cardinality(p.entries)
           s == Cheapest(p.entries)
<1>1. n \in Nat /\ DOMAIN s = 1 .. n
  <2>1. IsFiniteSet(p.entries)
    BY DEF PoolOK
  <2> QED BY <2>1, FS_CardinalityType DEF Cheapest
<1> HIDE DEF n, s
<1>2. PICK h : Calls("evict", t, h, p, s, n)
  BY <1>1, CallStates
<1>3. h[n] = MakeRoom(p, t)
  BY <1>1, <1>2, EvictionFold DEF Calls, s
<1> DEFINE T == {k \in Nat : k <= n => PoolOK(h[k]) /\ LeftOf(h[k], p) /\ h[k].bytes <= p.bytes}
<1>4. \A q : PoolOK(q) => q.bytes \in Nat
  <2> SUFFICES ASSUME NEW q, PoolOK(q) PROVE q.bytes \in Nat
    OBVIOUS
  <2>1. q.entries \in SUBSET Tx /\ IsFiniteSet(q.entries) /\ q.bytes = TotalSize(q.entries)
    BY DEF PoolOK
  <2>2. TotalSize(q.entries) \in Nat
    BY <2>1, SizesSplit
  <2> QED BY <2>1, <2>2
<1>5. 0 \in T
  <2>1. h[0] = p
    BY <1>2 DEF Calls
  <2>2. LeftOf(p, p) /\ p.bytes <= p.bytes
    BY <1>4 DEF LeftOf
  <2> QED BY <2>1, <2>2
<1>6. ASSUME NEW k \in Nat, k \in T PROVE k + 1 \in T
  <2> SUFFICES ASSUME k + 1 <= n
               PROVE  PoolOK(h[k + 1]) /\ LeftOf(h[k + 1], p) /\ h[k + 1].bytes <= p.bytes
    OBVIOUS
  <2> DEFINE q == h[k]
             r == h[k + 1]
             x == s[k + 1]
  <2>1. PoolOK(q) /\ LeftOf(q, p) /\ q.bytes <= p.bytes
    BY <1>1, <1>6
  <2>2. r = Call("evict", t, q, x)
    <3>1. k + 1 \in 1 .. n /\ (k + 1) - 1 = k
      BY <1>1
    <3> QED BY <1>2, <3>1 DEF Calls
  <2> HIDE DEF q, r, x
  <2>3. CASE r = q
    BY <2>1, <2>3 DEF r
  <2>4. CASE x \in q.entries /\ r = RemoveWithDescendants(q, {x})
    <3>1. {x} \in SUBSET Tx
      BY <2>1, <2>4 DEF PoolOK
    <3>2. PoolOK(r) /\ LeftOf(r, q) /\ r.bytes <= q.bytes
      BY <2>1, <2>4, <3>1, Removed
    <3>3. r.bytes <= p.bytes
      BY <1>4, <2>1, <3>2
    <3>4. LeftOf(r, p)
      BY <2>1, <3>2 DEF LeftOf
    <3> QED BY <3>2, <3>3, <3>4 DEF r
  <2> QED BY <2>2, <2>3, <2>4 DEF Call
<1>7. n \in T
  <2> HIDE DEF T
  <2> QED BY <1>1, <1>5, <1>6, OneByOne
<1>8. n <= n
  BY <1>1
<1>9. PoolOK(h[n]) /\ LeftOf(h[n], p) /\ h[n].bytes <= p.bytes
  BY <1>7, <1>8
<1> QED BY <1>3, <1>9

\* admit_transaction, refused, refused after evictions, or accepted.
LEMMA AdmitKeepsPool ==
  ASSUME NEW p, PoolGood(p), NEW t, NEW U
  PROVE  PoolGood(Admit(p, t, U))
<1> DEFINE q == MakeRoom(p, t)
           P == PoolParents(t, U)
<1>1. CASE ~ Admissible(p, t, U)
  BY <1>1 DEF Admit
<1>2. CASE Admissible(p, t, U)
  <2>1. PoolOK(p) /\ PoolLimited(p)
    BY DEF PoolGood
  <2>2. PoolOK(q) /\ LeftOf(q, p) /\ q.bytes <= p.bytes
    BY <2>1, RoomMade
  <2>3. Admit(p, t, U) = IF Full(q, t) THEN q ELSE Insert(q, t, P)
    BY <1>2 DEF Admit
  <2>4. /\ t \in Tx /\ t \in Authorized /\ Ins[t] # {} /\ t \notin p.entries /\ Ins[t] \cap DOMAIN p.spent = {}
        /\ \A s \in P : Cardinality({x \in p.kids : x[1] = s}) < MaxDescendants
    BY <1>2, PoolAssumption DEF Admissible
  <2>5. P \subseteq {Source[o] : o \in Ins[t]}
    BY DEF PoolParents
  <2> HIDE DEF q, P
  <2>6. PoolLimited(q)
    BY <2>1, <2>2, LeftLimited
  <2>7. t \notin q.entries /\ Ins[t] \cap DOMAIN q.spent = {}
    BY <2>2, <2>4 DEF LeftOf
  <2>8. ASSUME NEW s \in P PROVE Cardinality({x \in q.kids : x[1] = s}) < MaxDescendants
    <3>1. p.kids \in SUBSET (Tx \X Tx) /\ q.kids \in SUBSET p.kids
      BY <2>1, <2>2 DEF PoolOK, Mirrored, LeftOf
    <3>2. /\ Cardinality({x \in q.kids : x[1] = s}) <= Cardinality({x \in p.kids : x[1] = s})
          /\ Cardinality({x \in q.kids : x[1] = s}) \in Nat
          /\ Cardinality({x \in p.kids : x[1] = s}) \in Nat
      <4>1. /\ Cardinality(LinksFrom(q.kids, s)) <= Cardinality(LinksFrom(p.kids, s))
            /\ Cardinality(LinksFrom(q.kids, s)) \in Nat
            /\ Cardinality(LinksFrom(p.kids, s)) \in Nat
        BY <3>1, FewerLinks
      <4> QED BY <4>1 DEF LinksFrom
    <3>3. Cardinality({x \in p.kids : x[1] = s}) < MaxDescendants /\ MaxDescendants \in Nat
      BY <2>4, PoolAssumption
    <3> QED BY <3>2, <3>3
  <2>9. CASE ~ Full(q, t)
    <3>1. PoolOK(Insert(q, t, P)) /\ PoolLimited(Insert(q, t, P))
      BY <2>2, <2>4, <2>5, <2>6, <2>7, <2>8, <2>9, Inserted
    <3> QED BY <2>3, <2>9, <3>1 DEF PoolGood
  <2>10. CASE Full(q, t)
    BY <2>2, <2>3, <2>6, <2>10 DEF PoolGood
  <2> QED BY <2>9, <2>10
<1> QED BY <1>1, <1>2

\* on_block_connected
LEMMA ConnectKeepsPool ==
  ASSUME NEW p, PoolGood(p), NEW b, NEW U
  PROVE  PoolGood(OnBlockConnected(p, b, U))
<1> DEFINE S == Payments(b)
           q == Unlink(Take(p, S), S)
           B == Broken(q, U)
           r == RemoveWithDescendants(q, B)
<1>1. PoolOK(p) /\ PoolLimited(p)
  BY DEF PoolGood
<1>2. OnBlockConnected(p, b, U) = r
  BY DEF OnBlockConnected
<1>3. B \subseteq q.entries
  BY DEF Broken
<1> HIDE DEF S, B, r
<1>4. PoolOK(q) /\ LeftOf(q, p) /\ q.bytes <= p.bytes
  BY <1>1, TakenOut
<1> HIDE DEF q
<1>5. PoolLimited(q)
  BY <1>1, <1>4, LeftLimited
<1>6. B \in SUBSET Tx
  BY <1>3, <1>4 DEF PoolOK
<1>7. PoolOK(r) /\ LeftOf(r, q) /\ r.bytes <= q.bytes
  BY <1>4, <1>6, Removed DEF r
<1>8. PoolLimited(r)
  BY <1>4, <1>5, <1>7, LeftLimited
<1> QED BY <1>2, <1>7, <1>8 DEF PoolGood

\* on_reorg, whatever transactions come back.
LEMMA ReorgKeepsPool ==
  ASSUME NEW p, PoolGood(p), NEW s, NEW n \in Nat, DOMAIN s = 1 .. n, NEW U
  PROVE  PoolGood(OnReorg(p, s, U))
<1>1. PICK h : Calls("admit", U, h, p, s, n)
  BY CallStates
<1>2. h[n] = OnReorg(p, s, U)
  <2>1. OnReorg(p, s, U) = CallsOf("admit", U, p, s, n)
    BY ReadmissionFold
  <2> QED BY <1>1, <2>1 DEF Calls
<1> DEFINE T == {k \in Nat : k <= n => PoolGood(h[k])}
<1>3. 0 \in T
  BY <1>1 DEF Calls
<1>4. ASSUME NEW k \in Nat, k \in T PROVE k + 1 \in T
  <2> SUFFICES ASSUME k + 1 <= n PROVE PoolGood(h[k + 1])
    OBVIOUS
  <2>1. PoolGood(h[k]) /\ k + 1 \in 1 .. n /\ (k + 1) - 1 = k
    BY <1>4
  <2>2. h[k + 1] = Admit(h[k], s[k + 1], U)
    <3>1. h[k + 1] = Call("admit", U, h[k], s[k + 1])
      BY <1>1, <2>1 DEF Calls
    <3> QED BY <3>1 DEF Call
  <2> QED BY <2>1, <2>2, AdmitKeepsPool
<1>5. n \in T
  <2> HIDE DEF T
  <2> QED BY <1>3, <1>4, OneByOne
<1> QED BY <1>2, <1>5

\* A new pool is consistent.
LEMMA EmptyGood == PoolGood(EmptyPool)
<1> DEFINE p == EmptyPool
<1>1. p.entries = {} /\ p.spent = << >> /\ p.kids = {} /\ p.pars = {} /\ p.bytes = 0
  BY DEF EmptyPool
<1>2. p = [entries |-> p.entries, spent |-> p.spent, kids |-> p.kids, pars |-> p.pars, bytes |-> p.bytes]
  BY DEF EmptyPool
<1> HIDE DEF p
<1>3. IsFiniteSet({}) /\ Cardinality({}) = 0
  BY FS_EmptySet
<1>4. TotalSize({}) = 0
  <2>1. TotalSize({}) = Total(Size, {})
    BY DEF TotalSize, Total
  <2> QED BY <1>3, <2>1, TotalUnfold
<1>5. Indexed(p)
  BY <1>1 DEF Indexed
<1>6. Mirrored(p)
  BY <1>1 DEF Mirrored
<1>7. PoolOK(p)
  BY <1>1, <1>2, <1>3, <1>4, <1>5, <1>6 DEF PoolOK
<1>8. PoolLimited(p)
  <2>1. \A s \in Tx : {x \in p.kids : x[1] = s} = {}
    BY <1>1
  <2> QED BY <1>1, <1>3, <2>1, PoolAssumption DEF PoolLimited
<1> QED BY <1>7, <1>8 DEF PoolGood, p

\* transactions_for_mempool is a sequence.
LEMMA ReturnedListed ==
  ASSUME NEW old \in Block, NEW new \in Block, Path[old] \ Path[new] # {}
  PROVE  \E n \in Nat : DOMAIN Returned(old, new) = 1 .. n
<1> DEFINE up == ByHeight(Path[old] \ Path[new])
           down == Reverse(up)
           bodies == [i \in DOMAIN down |-> Tail(Body[down[i]])]
           all == FlattenSeq(bodies)
           kept == UNION {Payments(a) : a \in Path[new] \ Path[old]}
           left == {i \in DOMAIN all : all[i] \notin kept}
<1>1. Ladder(old) /\ Ladder(new)
  BY EveryLadder
<1>2. PICK f \in Path[old] \cap Path[new] : Path[f] = Path[old] \cap Path[new]
  BY <1>1, ForkExists
<1>3. f # old /\ Path[old] \ Path[f] = Path[old] \ Path[new]
  BY <1>2
<1> DEFINE m == Height[old] - Height[f]
<1>4. /\ Height[f] \in Nat /\ m \in Nat
      /\ up = [i \in 1 .. m |-> At(old, Height[f] + i)]
  BY <1>1, <1>2, <1>3, BranchOrder, SMTT(30)
<1>5. ASSUME NEW i \in 1 .. m PROVE At(old, Height[f] + i) \in Block
  <2>1. /\ Height[old] \in Nat /\ Path[old] \subseteq Block
    BY <1>1 DEF Ladder
  <2>2. Height[f] + i \in 0 .. Height[old]
    BY <1>4, <2>1
  <2>3. At(old, Height[f] + i) \in Path[old]
    BY <1>1, <2>2, Rungs
  <2> QED BY <2>1, <2>3
<1> HIDE DEF m
<1>6. up \in Seq(Block) /\ Len(up) = m
  BY <1>4, <1>5
<1>7. down \in Seq(Block) /\ DOMAIN down = 1 .. m
  <2> HIDE DEF up
  <2>1. down = [i \in 1 .. Len(up) |-> up[(Len(up) - i) + 1]]
    BY DEF Reverse
  <2>2. \A i \in 1 .. m : (m - i) + 1 \in 1 .. m
    BY <1>4
  <2> HIDE DEF down
  <2> QED BY <1>4, <1>6, <2>1, <2>2
<1> HIDE DEF down
<1>8. bodies \in Seq(Seq(Tx))
  <2>1. ASSUME NEW i \in 1 .. m PROVE Tail(Body[down[i]]) \in Seq(Tx)
    <3>1. down[i] \in Block
      <4>1. \A d \in Seq(Block) : \A j \in DOMAIN d : d[j] \in Block
        OBVIOUS
      <4> QED BY <1>7, <4>1
    <3>2. Body[down[i]] \in Seq(Tx) /\ Body[down[i]] # << >>
      BY <3>1, TransactionAssumption
    <3> QED BY <3>2
  <2> QED BY <1>4, <1>7, <2>1
<1>9. all \in Seq(Tx)
  <2> HIDE DEF bodies
  <2> QED BY <1>8, FlattenType
<1>10. Returned(old, new) = Without(all, kept)
  BY DEF Returned, down
<1> HIDE DEF all, kept
<1>11. DOMAIN Without(all, kept) = 1 .. Cardinality(left)
  BY DEF Without
<1>12. Cardinality(left) \in Nat
  <2>1. Len(all) \in Nat /\ DOMAIN all = 1 .. Len(all)
    BY <1>9
  <2>2. left \in SUBSET (1 .. Len(all))
    BY <2>1
  <2> HIDE DEF left
  <2> QED BY <2>1, <2>2, LastOut
<1> QED BY <1>10, <1>11, <1>12

\* The chain is sound; the pool is consistent and within its limits.
PoolIInv ==
  /\ head \in Block /\ \A a \in Path[head] : Sound(a)
  /\ PoolGood(pool)

\* Every call keeps it: submissions, blocks, reorganisations, restarts.
LEMMA PoolStep ==
  ASSUME PoolIInv, [PoolNext]_poolVars
  PROVE  PoolIInv'
<1>1. head \in Block /\ (\A a \in Path[head] : Sound(a)) /\ PoolGood(pool)
  BY DEF PoolIInv
<1>2. ASSUME NEW t \in Tx, SubmitTransaction(t) PROVE PoolIInv'
  <2>1. PoolGood(Admit(pool, t, Coins))
    BY <1>1, AdmitKeepsPool
  <2>2. pool' = Admit(pool, t, Coins) /\ head' = head
    BY <1>2 DEF SubmitTransaction
  <2>3. PoolGood(pool')
    BY <2>1, <2>2
  <2> QED BY <1>1, <2>2, <2>3 DEF PoolIInv
<1>3. ASSUME NEW b \in Eligible, ExtendHead(b) PROVE PoolIInv'
  <2>1. PoolGood(OnBlockConnected(pool, b, LedgerAt[b]))
    BY <1>1, ConnectKeepsPool
  <2>2. pool' = OnBlockConnected(pool, b, LedgerAt[b]) /\ head' = b /\ b \in Block
        /\ \A a \in Path[b] : Sound(a)
    BY <1>3 DEF ExtendHead, Eligible
  <2>3. PoolGood(pool')
    BY <2>1, <2>2
  <2> QED BY <2>2, <2>3 DEF PoolIInv
<1>4. ASSUME NEW b \in Eligible, SwitchHead(b) PROVE PoolIInv'
  <2> DEFINE r == OnReorg(pool, Returned(head, b), LedgerAt[b])
  <2>1. b \in Block /\ (\A a \in Path[b] : Sound(a)) /\ Path[head] \ Path[b] # {}
    <3>1. /\ Cardinality(Path[head] \ Path[b]) >= 1
          /\ b \in Block /\ \A a \in Path[b] : Sound(a)
      BY <1>4 DEF SwitchHead, Eligible
    <3>2. Cardinality({}) = 0
      BY FS_EmptySet
    <3> QED BY <3>1, <3>2
  <2>2. PICK n \in Nat : DOMAIN Returned(head, b) = 1 .. n
    BY <1>1, <2>1, ReturnedListed
  <2>3. PoolGood(r)
    BY <1>1, <2>2, ReorgKeepsPool
  <2>4. pool' = OnBlockConnected(r, b, LedgerAt[b]) /\ head' = b
    BY <1>4 DEF SwitchHead
  <2> HIDE DEF r
  <2>5. PoolGood(pool')
    BY <2>3, <2>4, ConnectKeepsPool
  <2> QED BY <2>1, <2>4, <2>5 DEF PoolIInv
<1>5. CASE Restart
  <2>1. PoolGood(EmptyPool)
    BY EmptyGood
  <2> QED BY <1>1, <1>5, <2>1 DEF Restart, PoolIInv
<1>6. CASE UNCHANGED poolVars
  BY <1>1, <1>6 DEF poolVars, PoolIInv
<1> QED BY <1>2, <1>3, <1>4, <1>5, <1>6 DEF PoolNext

\* The pool's maps agree and its limits hold after every call.
LEMMA PoolAlwaysGood == PoolSpec => []PoolIInv
<1>1. PoolInit => PoolIInv
  <2>1. Genesis \in Block /\ Path[Genesis] = {Genesis} /\ Sound(Genesis)
    BY TreeAssumption, RecursionAssumption DEF Sound
  <2> QED BY <2>1, EmptyGood DEF PoolInit, PoolIInv
<1>2. PoolIInv /\ [PoolNext]_poolVars => PoolIInv'
  BY PoolStep
<1> QED BY <1>1, <1>2, PTL DEF PoolSpec

\* The maps of the mempool agree and its limits hold after every admission,
\* eviction, connected block, reorganisation and restart (pool.rs): the index of
\* spent outpoints is exact, the two maps of dependencies mirror each other, and
\* count, bytes and children stay within their limits.
THEOREM PoolAlwaysConsistent == PoolSpec => []PoolConsistent
<1>1. PoolIInv => PoolConsistent
  <2> SUFFICES ASSUME PoolIInv PROVE PoolConsistent
    OBVIOUS
  <2>1. PoolOK(pool) /\ PoolLimited(pool) /\ head \in Block
    BY DEF PoolIInv, PoolGood
  <2>2. SpentIndexExact
    BY <2>1 DEF PoolOK, Indexed, SpentIndexExact
  <2>3. DependenciesMirror
    BY <2>1 DEF PoolOK, Mirrored, DependenciesMirror
  <2>4. PoolWithinLimits
    BY <2>1 DEF PoolOK, PoolLimited, PoolWithinLimits
  <2>5. PoolTypeOK
    <3>1. pool.entries \in SUBSET Tx /\ IsFiniteSet(pool.entries)
          /\ pool.bytes = TotalSize(pool.entries)
      BY <2>1 DEF PoolOK
    <3>2. pool.bytes \in Nat
      BY <3>1, SizesSplit
    <3>3. pool.pars \subseteq Tx \X Tx /\ pool.kids \subseteq Tx \X Tx
      BY <2>1 DEF PoolOK, Mirrored
    <3>4. DOMAIN pool.spent \subseteq OutPoint
      BY <2>2, <3>1, TransactionAssumption DEF SpentIndexExact
    <3> QED BY <2>1, <3>1, <3>2, <3>3, <3>4 DEF PoolTypeOK
  <2> QED BY <2>2, <2>3, <2>4, <2>5 DEF PoolConsistent
<1> QED BY <1>1, PoolAlwaysGood, PTL


\* A pending transaction is on no block of a path that the pool is clear of.
LEMMA NotPending ==
  ASSUME PoolIInv, ClearOfChain, NEW a \in Path[head], NEW i \in DOMAIN Body[a]
  PROVE  Body[a][i] \notin pool.entries
<1> SUFFICES ASSUME Body[a][i] \in pool.entries PROVE FALSE
  OBVIOUS
<1>1. Ins[Body[a][i]] # {}
  BY DEF PoolIInv, PoolGood, PoolOK
<1>2. a \in Block
  BY EveryLadder DEF PoolIInv, Ladder
<1>3. i # 1 /\ i \in 2 .. Len(Body[a])
  <2>1. Body[a] \in Seq(Tx) /\ Ins[Body[a][1]] = {}
    BY <1>2, TransactionAssumption
  <2>2. i \in 1 .. Len(Body[a]) /\ Len(Body[a]) \in Nat
    BY <2>1
  <2>3. i # 1
    BY <1>1, <2>1
  <2> QED BY <2>2, <2>3
<1>4. Body[a][i] \in Payments(a)
  BY <1>3 DEF Payments
<1> QED BY <1>1, <1>4 DEF ClearOfChain

\* What a block of the tree spends is not the output of what stays pending when
\* it is connected: its makers are on the chain or in the block.
LEMMA MakersGone ==
  ASSUME PoolIInv, ClearOfChain, NEW b \in Block, Parent[b] = head, Sound(b),
         NEW s \in Payments(b), NEW o \in Ins[s]
  PROVE  /\ o \notin LedgerAt[b]
         /\ Source[o] \in pool.entries => Source[o] \in Payments(b)
<1>1. b # Genesis /\ head \in Block
  BY TreeAssumption DEF PoolIInv
<1>2. LedgerBefore(b) = LedgerAt[head] /\ LedgerAt[b] = Apply(b, LedgerAt[head])
  BY <1>1, Unfold
<1>3. Fits(b, LedgerAt[head])
  BY <1>1, <1>2 DEF Sound, Connectable, ScriptsVerify
<1>4. PICK i \in 2 .. Len(Body[b]) : s = Body[b][i]
  BY DEF Payments
<1>5. Body[b] \in Seq(Tx) /\ Ins[Body[b][1]] = {} /\ Len(Body[b]) \in Nat /\ DOMAIN Body[b] = 1 .. Len(Body[b])
  BY TransactionAssumption
<1>6. i \in DOMAIN Body[b] /\ i \in Nat
  BY <1>4, <1>5
<1>7. o \notin LedgerAt[b]
  BY <1>2, <1>4, <1>6 DEF Apply, Spends
<1>8. o \in StagedAt(LedgerAt[head], b, i)
  BY <1>3, <1>4, <1>6 DEF Fits
<1>9. ASSUME Source[o] \in pool.entries PROVE Source[o] \in Payments(b)
  <2>1. CASE o \in LedgerAt[head]
    <3>0. PICK a \in Path[head] : \E j \in DOMAIN Body[a] : o \in Made(Body[a][j])
      BY <1>1, <2>1, CoinOrigin
    <3>1. PICK j \in DOMAIN Body[a] : o \in Made(Body[a][j])
      BY <3>0
    <3>2. a \in Block
      BY <1>1, EveryLadder DEF Ladder
    <3>3. Body[a][j] \in Tx /\ o \in Outs[Body[a][j]]
      BY <3>1, <3>2, TransactionAssumption DEF Made
    <3>4. Source[o] = Body[a][j]
      BY <3>3, PoolAssumption
    <3> QED BY <1>9, <3>4, NotPending
  <2>2. CASE o \notin LedgerAt[head]
    <3>1. PICK j \in 1 .. i - 1 : o \in Made(Body[b][j])
      BY <1>8, <2>2 DEF StagedAt
    <3>2. j \in DOMAIN Body[b]
      BY <1>4, <1>5, <1>6
    <3>3. Body[b][j] \in Tx /\ o \in Outs[Body[b][j]]
      BY <1>5, <3>1, <3>2 DEF Made
    <3>4. Source[o] = Body[b][j]
      BY <3>3, PoolAssumption
    <3>5. j # 1
      <4>1. Ins[Source[o]] # {}
        BY <1>9 DEF PoolIInv, PoolGood, PoolOK
      <4> QED BY <1>5, <3>4, <4>1
    <3>6. j \in 2 .. Len(Body[b])
      BY <1>4, <1>5, <3>5
    <3> QED BY <3>4, <3>6 DEF Payments
  <2> QED BY <2>1, <2>2
<1> QED BY <1>7, <1>9

\* on_block_connected purges every conflict with a block that extends the head,
\* though it keeps a transaction whose input is the output of a pending one: what
\* the block spends was made on the chain or in the block, never in the pool.
THEOREM ConflictsPurged == PoolSpec => ExtensionPurgesConflicts
<1>1. ASSUME PoolIInv, [PoolNext]_poolVars, ClearOfChain, head' # head, Parent[head'] = head
      PROVE  ClearOfChain'
  <2>1. PICK b \in Eligible : ExtendHead(b)
    BY <1>1 DEF PoolNext, poolVars, SubmitTransaction, SwitchHead, Restart
  <2>2. b \in Block /\ head \in Block
    BY <1>1, <2>1 DEF Eligible, PoolIInv
  <2>3. b \in Path[b] /\ Path[b] = Path[head] \cup {b}
    <3>1. b # Genesis
      BY <2>1, <2>2, TreeAssumption DEF ExtendHead
    <3> QED BY <2>1, <2>2, <3>1, Unfold DEF ExtendHead
  <2>4. Sound(b) /\ Parent[b] = head /\ head' = b
    BY <2>1, <2>3 DEF Eligible, ExtendHead
  <2> DEFINE S == Payments(b)
             q == Unlink(Take(pool, S), S)
             U == LedgerAt[b]
             r == RemoveWithDescendants(q, Broken(q, U))
  <2>5. pool' = r
    BY <2>1 DEF ExtendHead, OnBlockConnected
  <2>6. PoolOK(pool)
    BY <1>1 DEF PoolIInv, PoolGood
  <2>7. PoolOK(q) /\ q.entries = pool.entries \ S
    <3> HIDE DEF S
    <3> QED BY <2>6, TakenOut
  <2>8. Broken(q, U) \in SUBSET q.entries
    BY DEF Broken
  <2>9. r.entries \subseteq q.entries /\ r.entries \cap Broken(q, U) = {}
    <3>1. Broken(q, U) \in SUBSET Tx
      BY <2>7, <2>8 DEF PoolOK
    <3> HIDE DEF q, U
    <3> QED BY <2>7, <3>1, Removed DEF LeftOf
  <2> SUFFICES ASSUME NEW t \in r.entries, NEW a \in Path[b], NEW s \in Payments(a),
                      NEW o \in Ins[t], o \in Ins[s]
               PROVE  FALSE
    BY <2>4, <2>5 DEF ClearOfChain
  <2> HIDE DEF q, r
  <2>10. t \in q.entries /\ t \in pool.entries
    BY <2>7, <2>9
  <2>11. CASE a \in Path[head]
    BY <1>1, <2>10, <2>11 DEF ClearOfChain
  <2>12. CASE a = b
    <3>1. /\ o \notin U
          /\ Source[o] \in pool.entries => Source[o] \in S
      BY <1>1, <2>2, <2>4, <2>12, MakersGone
    <3>2. t \notin Broken(q, U)
      BY <2>9
    <3>3. Source[o] \in q.entries
      BY <2>10, <3>1, <3>2 DEF Broken
    <3> QED BY <2>7, <3>1, <3>3
  <2> QED BY <2>3, <2>11, <2>12
<1>2. PoolIInv /\ [PoolNext]_poolVars
        => [ClearOfChain /\ head' # head /\ Parent[head'] = head => ClearOfChain']_poolVars
  BY <1>1
<1> QED BY <1>2, PoolAlwaysGood, PTL DEF PoolSpec, ExtensionPurgesConflicts

-----------------------------------------------------------------------------
(***************************************************************************)
(* Templates.                                                              *)
(***************************************************************************)

\* The order by fee rate lists entries.
LEMMA CheapestListed ==
  ASSUME NEW E \in SUBSET Tx, IsFiniteSet(E), \A t \in E : Ins[t] # {}
  PROVE  Reverse(Cheapest(E)) \in Seq(E)
<1> DEFINE c == Cheapest(E)
           n == Cardinality(E)
<1>1. /\ \A t \in E : Rate[t] \in Nat
      /\ \A s, t \in E : Rate[s] = Rate[t] => s = t
  BY PoolAssumption
<1>2. /\ n \in Nat
      /\ \A i \in 1 .. n : \E t \in E : Cardinality({s \in E : Rate[s] <= Rate[t]}) = i
  BY <1>1, EveryRank
<1>3. c = [i \in 1 .. n |-> CHOOSE t \in E : Cardinality({s \in E : Rate[s] <= Rate[t]}) = i]
  BY DEF Cheapest
<1>4. \A i \in 1 .. n : c[i] \in E
  BY <1>2, <1>3
<1>5. c \in Seq(E) /\ Len(c) = n
  <2> HIDE DEF n
  <2> QED BY <1>2, <1>3, <1>4
<1> HIDE DEF c, n
<1>6. Reverse(c) = [i \in 1 .. n |-> c[(n - i) + 1]]
  BY <1>5 DEF Reverse
<1>7. \A i \in 1 .. n : c[(n - i) + 1] \in E
  <2>1. \A i \in 1 .. n : (n - i) + 1 \in 1 .. n
    BY <1>2
  <2> QED BY <1>4, <2>1
<1>8. Reverse(c) \in Seq(E)
  BY <1>2, <1>6, <1>7
<1> QED BY <1>8 DEF c

\* select_transactions_for_block returns entries.
LEMMA SelectListed ==
  ASSUME NEW p, PoolOK(p)
  PROVE  Select(p) \in Seq(p.entries)
<1>1. PICK E : E = p.entries
  OBVIOUS
<1>2. E \in SUBSET Tx /\ IsFiniteSet(E) /\ \A t \in E : Ins[t] # {}
  BY <1>1 DEF PoolOK
<1>3. PICK s : s = Reverse(Cheapest(E))
  OBVIOUS
<1>4. s \in Seq(E)
  BY <1>2, <1>3, CheapestListed
<1>5. PICK n \in Nat : DOMAIN s = 1 .. n
  BY <1>4
<1>6. PICK h : Calls("select", p, h, << >>, s, n)
  BY <1>5, CallStates
<1>7. Select(p) = h[n]
  <2>1. Select(p) = CallsOf("select", p, << >>, s, n)
    BY <1>1, <1>3, <1>5, SelectionFold
  <2> QED BY <1>6, <2>1 DEF Calls
<1> DEFINE T == {k \in Nat : k <= n => h[k] \in Seq(E)}
<1>8. 0 \in T
  <2>1. h[0] = << >>
    BY <1>6 DEF Calls
  <2>2. << >> \in Seq(E)
    OBVIOUS
  <2> QED BY <2>1, <2>2
<1>9. ASSUME NEW k \in Nat, k \in T PROVE k + 1 \in T
  <2> SUFFICES ASSUME k + 1 <= n PROVE h[k + 1] \in Seq(E)
    OBVIOUS
  <2>1. h[k] \in Seq(E) /\ k + 1 \in 1 .. n /\ (k + 1) - 1 = k
    BY <1>5, <1>9
  <2>2. h[k + 1] = Call("select", p, h[k], s[k + 1])
    BY <1>6, <2>1 DEF Calls
  <2>3. h[k + 1] = h[k] \/ h[k + 1] = Append(h[k], s[k + 1])
    BY <2>2 DEF Call
  <2>4. s[k + 1] \in E
    BY <1>4, <1>5, <2>1
  <2>5. \A q \in Seq(E) : \A x \in E : Append(q, x) \in Seq(E)
    OBVIOUS
  <2> QED BY <2>1, <2>3, <2>4, <2>5
<1>10. n \in T
  <2> HIDE DEF T
  <2> QED BY <1>5, <1>8, <1>9, OneByOne
<1> QED BY <1>1, <1>5, <1>7, <1>10

\* What stands before the i-th of the transactions s spends and creates.
SpentBefore(s, i) == UNION {Ins[s[j]] : j \in 1 .. i - 1}
MadeBefore(s, i)  == UNION {Outs[s[j]] : j \in 1 .. i - 1}

\* Each of the transactions s finds its inputs, none of them spent before.
Served(s, U) ==
  \A i \in 1 .. Len(s) : Ins[s[i]] \subseteq (U \cup MadeBefore(s, i)) \ SpentBefore(s, i)

\* The second filter chooses entries that find their inputs.
LEMMA ChosenServed ==
  ASSUME NEW p, PoolOK(p), NEW U
  PROVE  Chosen(p, U) \in Seq(p.entries) /\ Served(Chosen(p, U), U)
<1>1. PICK E : E = p.entries
  OBVIOUS
<1>2. PICK s : s = Select(p)
  OBVIOUS
<1>3. s \in Seq(E)
  BY <1>1, <1>2, SelectListed
<1>4. PICK n \in Nat : DOMAIN s = 1 .. n
  BY <1>3
<1>5. PICK h : Calls("choose", U, h, << >>, s, n)
  BY <1>4, CallStates
<1>6. Chosen(p, U) = h[n]
  <2>1. Chosen(p, U) = CallsOf("choose", U, << >>, s, n)
    BY <1>2, <1>4, ChoiceFold
  <2> QED BY <1>5, <2>1 DEF Calls
<1> DEFINE T == {k \in Nat : k <= n => h[k] \in Seq(E) /\ Served(h[k], U)}
<1>7. 0 \in T
  <2>1. h[0] = << >>
    BY <1>5 DEF Calls
  <2>2. << >> \in Seq(E) /\ Len(<< >>) = 0
    OBVIOUS
  <2>3. Served(<< >>, U)
    BY <2>2 DEF Served
  <2> QED BY <2>1, <2>2, <2>3
<1>8. ASSUME NEW k \in Nat, k \in T PROVE k + 1 \in T
  <2> SUFFICES ASSUME k + 1 <= n PROVE h[k + 1] \in Seq(E) /\ Served(h[k + 1], U)
    OBVIOUS
  <2>1. h[k] \in Seq(E) /\ Served(h[k], U) /\ k + 1 \in 1 .. n /\ (k + 1) - 1 = k
    BY <1>4, <1>8
  <2>2. h[k + 1] = Call("choose", U, h[k], s[k + 1])
    BY <1>5, <2>1 DEF Calls
  <2>3. PICK q, t : q = h[k] /\ t = s[k + 1]
    OBVIOUS
  <2>4. t \in E /\ q \in Seq(E) /\ Served(q, U)
    BY <1>3, <1>4, <2>1, <2>3
  <2>5. CASE h[k + 1] = q
    BY <2>4, <2>5
  <2>6. CASE h[k + 1] # q
    <3>1. /\ h[k + 1] = Append(q, t)
          /\ Ins[t] \subseteq (U \cup UNION {Outs[x] : x \in Range(q)}) \ UNION {Ins[x] : x \in Range(q)}
      BY <2>2, <2>3, <2>6 DEF Call
    <3>2. PICK r : r = Append(q, t)
      OBVIOUS
    <3>3. PICK m \in Nat : m = Len(q)
      BY <2>4
    <3>4. r \in Seq(E) /\ Len(r) = m + 1 /\ r[m + 1] = t /\ \A i \in 1 .. m : r[i] = q[i]
      BY <2>4, <3>2, <3>3
    <3>5. Range(q) = {q[j] : j \in 1 .. m}
      BY <2>4, <3>3 DEF Range
    <3>6. ASSUME NEW i \in 1 .. m
          PROVE  Ins[r[i]] \subseteq (U \cup MadeBefore(r, i)) \ SpentBefore(r, i)
      <4>1. \A j \in 1 .. i - 1 : r[j] = q[j]
        BY <3>4
      <4>2. MadeBefore(r, i) = MadeBefore(q, i) /\ SpentBefore(r, i) = SpentBefore(q, i)
        BY <4>1 DEF MadeBefore, SpentBefore
      <4> QED BY <2>4, <3>3, <3>4, <4>2 DEF Served
    <3>7. Ins[r[m + 1]] \subseteq (U \cup MadeBefore(r, m + 1)) \ SpentBefore(r, m + 1)
      <4>1. (m + 1) - 1 = m
        BY <3>3
      <4>2. UNION {Outs[x] : x \in Range(q)} = MadeBefore(r, m + 1)
        BY <3>4, <3>5, <4>1 DEF MadeBefore
      <4>3. UNION {Ins[x] : x \in Range(q)} = SpentBefore(r, m + 1)
        BY <3>4, <3>5, <4>1 DEF SpentBefore
      <4> QED BY <3>1, <3>4, <4>2, <4>3
    <3>8. \A i \in 1 .. m + 1 : i \in 1 .. m \/ i = m + 1
      BY <3>3
    <3>9. Served(r, U)
      BY <3>4, <3>6, <3>7, <3>8 DEF Served
    <3> QED BY <3>1, <3>2, <3>4, <3>9
  <2> QED BY <2>5, <2>6
<1>9. n \in T
  <2> HIDE DEF T
  <2> QED BY <1>4, <1>7, <1>8, OneByOne
<1> QED BY <1>1, <1>4, <1>6, <1>9

\* The transaction that creates an outpoint is no other's.
LEMMA SourcesDiffer == OwnOutputs
BY PoolAssumption DEF OwnOutputs

\* No transaction of a template is on the chain already.
LEMMA ChosenAreNew ==
  ASSUME DistinctTxs, PoolIInv, NEW s \in Seq(pool.entries), Served(s, LedgerAt[head])
  PROVE  \A i \in 1 .. Len(s) : \A a \in Path[head] : s[i] \notin Range(Body[a])
<1>1. PICK E : E = pool.entries
  OBVIOUS
<1>2. PICK n \in Nat : n = Len(s)
  OBVIOUS
<1>3. s \in Seq(E) /\ DOMAIN s = 1 .. n /\ \A i \in 1 .. n : s[i] \in E
  BY <1>1, <1>2
<1>4. E \in SUBSET Tx /\ \A t \in E : Ins[t] # {}
  BY <1>1 DEF PoolIInv, PoolGood, PoolOK
<1>5. head \in Block /\ \A a \in Path[head] : Sound(a)
  BY DEF PoolIInv
<1>6. Path[head] \subseteq Block /\ \A a \in Path[head] : Path[a] \subseteq Path[head]
  BY <1>5, EveryLadder DEF Ladder
<1> DEFINE New(i) == \A a \in Path[head] : s[i] \notin Range(Body[a])
           T == {i \in Nat : i \in 1 .. n => New(i)}
<1>7. ASSUME NEW i \in Nat, \A m \in Nat : m < i => m \in T PROVE i \in T
  <2> SUFFICES ASSUME i \in 1 .. n, NEW a \in Path[head], s[i] \in Range(Body[a])
               PROVE  FALSE
    OBVIOUS
  <2>1. PICK o : o \in Ins[s[i]]
    BY <1>3, <1>4
  <2>2. o \in Spends(a)
    BY <2>1 DEF Range, Spends
  <2>3. o \notin LedgerAt[head]
    BY <1>5, <2>2, SourcesDiffer, SpentGone
  <2>4. PICK j \in 1 .. i - 1 : o \in Outs[s[j]]
    BY <1>2, <2>1, <2>3 DEF Served, MadeBefore
  <2>5. j \in Nat /\ j < i /\ j \in 1 .. n
    BY <2>4
  <2>6. Source[o] = s[j]
    BY <1>3, <1>4, <2>4, <2>5, PoolAssumption
  <2>7. PICK c \in Path[a] : Source[o] \in Range(Body[c])
    <3>1. PICK c \in Path[a] : \E k \in DOMAIN Body[c] : o \in Made(Body[c][k])
      BY <1>5, <1>6, <2>2, SpentMade
    <3>2. PICK k \in DOMAIN Body[c] : o \in Made(Body[c][k])
      BY <3>1
    <3>3. Body[c][k] \in Tx
      BY <1>6, <3>2, TransactionAssumption
    <3>4. Source[o] = Body[c][k]
      BY <3>2, <3>3, PoolAssumption DEF Made
    <3> QED BY <3>2, <3>4 DEF Range
  <2> QED BY <1>6, <1>7, <2>5, <2>6, <2>7
<1>8. Nat \subseteq T
  <2> HIDE DEF T
  <2> QED BY <1>7, SmallerFirst
<1> QED BY <1>2, <1>8

\* No state of the pool makes build_template fail: each transaction it chooses
\* finds its inputs among the coins at the head and the outputs of those before
\* it, and creates nothing that is there already (template.rs, select_transactions
\* of pool.rs).  It rests on no transaction being on one chain twice.
THEOREM TemplateAlwaysApplies == DistinctTxs => (PoolSpec => []TemplateApplies)
<1> SUFFICES ASSUME DistinctTxs PROVE PoolSpec => []TemplateApplies
  OBVIOUS
<1>1. ASSUME PoolIInv PROVE TemplateApplies
  <2> DEFINE U == LedgerAt[head]
             s == Chosen(pool, Coins)
             Before(i) == (U \cup UNION {Made(s[j]) : j \in 1 .. i - 1}) \ UNION {Ins[s[j]] : j \in 1 .. i - 1}
  <2>1. s \in Seq(pool.entries) /\ Served(s, U)
    BY <1>1, ChosenServed DEF Coins, PoolIInv, PoolGood
  <2> HIDE DEF s
  <2>2. \A i \in 1 .. Len(s) : \A a \in Path[head] : s[i] \notin Range(Body[a])
    BY <1>1, <2>1, ChosenAreNew
  <2>3. PICK E : E = pool.entries
    OBVIOUS
  <2>4. E \in SUBSET Tx /\ E \subseteq Authorized /\ \A t \in E : Ins[t] # {}
    BY <1>1, <2>3 DEF PoolIInv, PoolGood, PoolOK
  <2>5. PICK n \in Nat : n = Len(s)
    BY <2>1
  <2>6. DOMAIN s = 1 .. n /\ \A i \in 1 .. n : s[i] \in E
    BY <2>1, <2>3, <2>5
  <2>7. ASSUME NEW i \in 1 .. n PROVE Ins[s[i]] \subseteq Before(i)
    <3> SUFFICES ASSUME NEW o \in Ins[s[i]], o \notin U
                 PROVE  o \in UNION {Made(s[j]) : j \in 1 .. i - 1}
      BY <2>1, <2>5 DEF Served, SpentBefore
    <3>1. PICK j \in 1 .. i - 1 : o \in Outs[s[j]]
      BY <2>1, <2>5 DEF Served, MadeBefore
    <3>2. o \notin OpReturn
      BY <2>4, <2>6, PoolAssumption
    <3> QED BY <3>1, <3>2 DEF Made
  <2>8. ASSUME NEW i \in 1 .. n, NEW o \in Made(s[i]), o \in Before(i) PROVE FALSE
    <3>1. s[i] \in Tx /\ Ins[s[i]] # {}
      BY <2>4, <2>6
    <3>2. Source[o] = s[i]
      BY <2>8, <3>1, PoolAssumption DEF Made
    <3>3. CASE o \in U
      <4>1. head \in Block
        BY <1>1 DEF PoolIInv
      <4>2. PICK a \in Path[head] : \E k \in DOMAIN Body[a] : o \in Made(Body[a][k])
        BY <3>3, <4>1, CoinOrigin
      <4>3. PICK k \in DOMAIN Body[a] : o \in Made(Body[a][k])
        BY <4>2
      <4>4. a \in Block
        BY <4>1, EveryLadder DEF Ladder
      <4>5. Body[a][k] \in Tx
        BY <4>4, TransactionAssumption
      <4>6. Source[o] = Body[a][k]
        BY <4>3, <4>5, PoolAssumption DEF Made
      <4>7. s[i] \in Range(Body[a])
        BY <3>2, <4>6 DEF Range
      <4> QED BY <2>2, <2>5, <4>7
    <3>4. CASE o \notin U
      <4>1. PICK j \in 1 .. i - 1 : o \in Made(s[j])
        BY <2>8, <3>4
      <4>2. j \in 1 .. n
        BY <4>1
      <4>3. Source[o] = s[j]
        BY <2>4, <2>6, <4>1, <4>2, PoolAssumption DEF Made
      <4>4. Ins[s[i]] \subseteq SpentBefore(s, i)
        BY <3>2, <4>1, <4>3 DEF SpentBefore
      <4>5. Ins[s[i]] \cap SpentBefore(s, i) = {}
        BY <2>1, <2>5 DEF Served
      <4> QED BY <3>1, <4>4, <4>5
    <3> QED BY <3>3, <3>4
  <2>9. /\ \A i \in 1 .. n : Ins[s[i]] \subseteq Before(i)
        /\ \A i \in 1 .. n : Made(s[i]) \cap (Before(i) \ Ins[s[i]]) = {}
    <3> HIDE DEF Before
    <3> QED BY <2>7, <2>8
  <2> QED BY <2>6, <2>9 DEF TemplateApplies, Coins, s
<1> QED BY <1>1, PoolAlwaysGood, PTL
=============================================================================
