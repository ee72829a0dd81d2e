---------------------------- MODULE HeaderChain ----------------------------
(***************************************************************************)
(* The header rules of process_block_with_verifier (chain.rs) along one    *)
(* branch of the block tree: the target every header must carry, the       *)
(* retarget at epoch boundaries, and the rules on timestamps.              *)
(*                                                                         *)
(* ChainTree takes their verdict as the constant GoodHeader; here they are *)
(* spelled out.  The headers of a branch are a sequence, block 0 first.    *)
(***************************************************************************)
EXTENDS Difficulty, Sequences

CONSTANTS
  GenesisBits,   \* genesis_difficulty_target
  MtpWindow,     \* headers the median time is taken over: 11 in the code
  MaxDrift,      \* MAX_FUTURE_DRIFT
  MaxTime,       \* bound: the last second explored
  MaxLength      \* bound: the longest branch explored

ASSUME HeaderAssumption ==
  /\ GenesisBits \in Compact
  /\ FromCompact(GenesisBits) \in 1 .. MaxTarget
  /\ {MtpWindow, MaxLength} \subseteq Nat \ {0}
  /\ {MaxDrift, MaxTime} \subseteq Nat

VARIABLES
  headers,   \* the branch: [bits : Compact, time : seconds]
  now        \* the node's clock

headerVars == <<headers, now>>

\* The length of the branch is the height of the block that comes next.
Tip == headers[Len(headers)]

(***************************************************************************)
(* What process_block demands of the next header.                          *)
(***************************************************************************)

Boundary == Len(headers) >= Epoch /\ Len(headers) % Epoch = 0

\* The first header of the window that is measured: one block before the epoch,
\* or block 0 when there is none.
EpochStart ==
  IF Len(headers) > Epoch + 1 THEN headers[Len(headers) - Epoch] ELSE headers[1]

\* The target the next header must have: the parent's, recomputed at a boundary.
RequiredTarget ==
  IF Boundary THEN NextTarget(FromCompact(Tip.bits), EpochStart.time, Tip.time)
              ELSE FromCompact(Tip.bits)

\* calculate_median_time_past over the last headers of the sequence s.
MedianTimePast(s) ==
  LET first  == IF Len(s) > MtpWindow THEN Len(s) - MtpWindow + 1 ELSE 1
      window == first .. Len(s)
      middle == Cardinality(window) \div 2
  IN  CHOOSE t \in {s[i].time : i \in window} :
        /\ Cardinality({i \in window : s[i].time < t}) <= middle
        /\ Cardinality({i \in window : s[i].time <= t}) > middle

\* Later than the parent, not too far ahead of the clock, not before the median.
TimeOk(t) ==
  /\ t > Tip.time
  /\ t <= now + MaxDrift
  /\ t >= MedianTimePast(headers)

\* At a boundary the epoch must have taken time.
EpochMeasured == Boundary => Tip.time > EpochStart.time

\* validate_block_target
TargetOk(bits) == FromCompact(bits) = RequiredTarget

(***************************************************************************)
(* The steps.                                                              *)
(***************************************************************************)

HeaderInit ==
  /\ headers = <<[bits |-> GenesisBits, time |-> 0]>>
  /\ now = 0

\* A header passes.  A target of zero is met by no hash.
AcceptHeader ==
  /\ Len(headers) < MaxLength
  /\ EpochMeasured
  /\ \E bits \in Compact : \E t \in 1 .. MaxTime :
       /\ TargetOk(bits)
       /\ FromCompact(bits) > 0
       /\ TimeOk(t)
       /\ headers' = Append(headers, [bits |-> bits, time |-> t])
  /\ UNCHANGED now

\* Time passes.
Tick ==
  /\ now < MaxTime
  /\ now' = now + 1
  /\ UNCHANGED headers

HeaderNext == AcceptHeader \/ Tick

HeaderSpec == HeaderInit /\ [][HeaderNext]_headerVars

(***************************************************************************)
(* Properties.                                                             *)
(***************************************************************************)

TargetAt(i) == FromCompact(headers[i].bits)

\* Types of the branch and the clock; a branch never ends in an unmeetable target.
HeaderTypeOK ==
  /\ headers \in Seq([bits : Compact, time : Nat])
  /\ headers # << >>
  /\ \A i \in DOMAIN headers : TargetAt(i) \in 1 .. Top - 1
  /\ now \in 0 .. MaxTime

\* docs/protocol/consensus.md, section 3: a block is later than the median of
\* the headers before it.  The code only refuses a time below the median; that
\* it cannot be equal follows from the rule on the parent, over a whole window.
TimeAboveMedian ==
  \A i \in 2 .. Len(headers) :
    headers[i].time > MedianTimePast(SubSeq(headers, 1, i - 1))

\* No sequence of retargets brings the target above max_target.
TargetWithinCap == \A i \in DOMAIN headers : TargetAt(i) <= MaxTarget

\* docs/protocol/tokenomics.md, section 4: the target is constant within an epoch
\* and changes by at most the clamping factor, up or down, from one to the next.
AdjustmentClamped ==
  \A i \in 2 .. Len(headers) :
    IF (i - 1) % Epoch = 0
    THEN /\ TargetAt(i) <= Clamp * TargetAt(i - 1)
         /\ Clamp * (TargetAt(i) + 1) > TargetAt(i - 1)
    ELSE TargetAt(i) = TargetAt(i - 1)

\* Header by header and over any number of retargets, times rise and targets stay within
\* the cap and the clamp.
BranchLawful ==
  /\ HeaderTypeOK
  /\ TimeAboveMedian
  /\ TargetWithinCap
  /\ AdjustmentClamped

\* Every accepted header adds work, and block_work is the 2^256 / (target + 1) of
\* its comment: chain selection adds positive numbers.
WorkIsQuotient ==
  \A i \in DOMAIN headers :
    /\ BlockWork(TargetAt(i)) = WorkOf(TargetAt(i))
    /\ BlockWork(TargetAt(i)) > 0

\* to_compact rounds a required target down to the nearest one that a header can
\* carry.
CompactRoundsDown ==
  LET carried == {FromCompact(c) : c \in Compact}
      rounded == FromCompact(ToCompact(RequiredTarget))
  IN  /\ rounded <= RequiredTarget
      /\ \A T \in carried : T <= RequiredTarget => T <= rounded

\* The arithmetic on 256 bits and on the compact form does what its comments say, for the
\* targets that retargets lead to.
ArithmeticExact == WorkIsQuotient /\ CompactRoundsDown

\* docs/protocol/tokenomics.md, section 4: after every 1440 blocks the target is
\* adjusted and mining goes on.  In the least demanding reading, some header can
\* carry the target that is required next.
NextHeaderExists == \E bits \in Compact : TargetOk(bits)
=============================================================================
