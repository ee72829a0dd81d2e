----------------------------- MODULE Difficulty -----------------------------
(***************************************************************************)
(* The arithmetic of proof of work in crates/scytale-consensus: the compact*)
(* encoding of a target (target.rs), the retarget (difficulty.rs) and the  *)
(* work of a block (work.rs).  Byte arrays and limbs are the numbers they  *)
(* stand for.  The sizes are constants: Base = 256 and Bytes = 32 in the   *)
(* code, small values for model checking.                                  *)
(***************************************************************************)
EXTENDS Integers, FiniteSets

CONSTANTS
  Base,        \* values of one byte
  Bytes,       \* bytes of a target
  Epoch,       \* epoch_blocks
  Interval,    \* target_block_interval_secs
  Clamp,       \* clamping_factor
  MaxTarget    \* max_target

Top == Base ^ Bytes     \* 2^256: targets are below it

ASSUME SizeAssumption ==
  /\ Base \in Nat /\ Base > 1 /\ Base % 2 = 0
  /\ Bytes \in Nat /\ Bytes > 3
  /\ {Epoch, Interval, Clamp} \subseteq Nat \ {0}
  /\ Top \in Nat /\ MaxTarget \in 1 .. Top - 1
  \* 86400 seconds and 4 in the code: least, below, is exact.
  /\ (Epoch * Interval) % Clamp = 0

(***************************************************************************)
(* The compact form: one byte of exponent, three bytes of mantissa, whose  *)
(* top bit is a sign.                                                      *)
(***************************************************************************)

SignBit == (Base ^ 3) \div 2

Compact == [exp : 0 .. Bytes + 1, man : 0 .. Base ^ 3 - 1]

\* Target::from_compact
FromCompact(c) ==
  IF c.man >= SignBit \/ c.man = 0 \/ c.exp = 0 THEN 0
  ELSE IF c.exp <= 3     THEN c.man \div Base ^ (3 - c.exp)
  ELSE IF c.exp <= Bytes THEN c.man * Base ^ (c.exp - 3)
  ELSE Top - 1

\* The bytes of T without leading zeros, and its three highest ones.
Length(T)    == CHOOSE n \in 1 .. Bytes : Base ^ (n - 1) <= T /\ T < Base ^ n
Leading(T,n) == IF n >= 3 THEN T \div Base ^ (n - 3) ELSE T * Base ^ (3 - n)

\* Mutant of ToCompact: a leading byte with the sign bit set is kept.
MutSignedMantissa(T) ==
  IF T = 0 THEN [exp |-> 0, man |-> 0]
  ELSE [exp |-> Length(T), man |-> Leading(T, Length(T))]

\* Target::to_compact: a mantissa that would look negative moves down a byte.
ToCompact(T) ==
  IF T = 0 THEN [exp |-> 0, man |-> 0]
  ELSE LET n == Length(T)
           m == Leading(T, n)
       IN  IF m >= SignBit THEN [exp |-> n + 1, man |-> m \div Base]
                           ELSE [exp |-> n, man |-> m]

(***************************************************************************)
(* The retarget.                                                           *)
(***************************************************************************)

ExpectedTime == Epoch * Interval

\* scale_target_by_ratio, capped at the largest 256-bit number
ScaleTarget(T, multiplier, divisor) ==
  LET q == (T * multiplier) \div divisor
  IN  IF q >= Top THEN Top - 1 ELSE q

ClampedTime(observed) ==
  LET least == ExpectedTime \div Clamp
      most  == ExpectedTime * Clamp
  IN  IF observed < least THEN least ELSE IF observed > most THEN most ELSE observed

\* Mutant of NextTarget: no upper bound.
MutUncapped(T, start, end) == ScaleTarget(T, ClampedTime(end - start), ExpectedTime)

\* calculate_next_target, for end > start
NextTarget(T, start, end) ==
  LET calculated == ScaleTarget(T, ClampedTime(end - start), ExpectedTime)
  IN  IF calculated > MaxTarget THEN MaxTarget ELSE calculated

(***************************************************************************)
(* The work of a block, and what the code's comment says it is.            *)
(***************************************************************************)

\* block_work: one for the largest target, else ~T / (T + 1) + 1 in 256 bits
BlockWork(T) ==
  IF T = Top - 1 THEN 1 ELSE ((Top - 1 - T) \div (T + 1) + 1) % Top

WorkOf(T) == Top \div (T + 1)
=============================================================================
