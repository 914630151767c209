------------------------ MODULE ThresholdsController ------------------------
(***************************************************************************)
(* The controller that sizes the next batch of thresholds from how far the *)
(* previous batch reached (app/pkg/thresholds/thresholds-controller.go).   *)
(*                                                                         *)
(* A policy is a record                                                    *)
(*   hundredths        the percentage as written in the configuration,     *)
(*   mantissa, shift   the float32 the configuration is parsed into:       *)
(*                     mantissa / 2^shift.                                 *)
(* Its increment expression is ComputeIncrement(i, current, new, amount),  *)
(* where i is the position of the policy.                                  *)
(***************************************************************************)
EXTENDS Integers, Sequences

CONSTANTS
  InitialThresholdsAmount,      \* cfg.Core.ThresholdsInitialAmount
  Policies,                     \* sequence of policies, in configuration order
  ComputeIncrement(_, _, _, _), \* the compiled increment expressions
  Timestamps,                   \* delays (ms) an item can be reported with
  MaxTimestamp                  \* stands for math.MaxUint32

Uint16Range == 65536
MaxInt32    == 2147483647
Uint16      == 0 .. Uint16Range - 1

(***************************************************************************)
(* What NewThresholdsController checks before it returns a controller.     *)
(***************************************************************************)
ASSUME InitialAmountIsPositive == InitialThresholdsAmount \in 1 .. 255

ASSUME PoliciesAreValid ==
  /\ Policies \in Seq([hundredths : 0 .. 100, mantissa : Nat, shift : Nat])
  /\ \E i \in DOMAIN Policies : Policies[i].mantissa = 0

ASSUME TimestampsAreDelays ==
  /\ MaxTimestamp \in Nat
  /\ 0 \in Timestamps
  /\ Timestamps \subseteq 0 .. MaxTimestamp

\* An expression evaluates to an int or a float64, cut to an int32.
ASSUME IncrementsAreIntegers ==
  \A i \in DOMAIN Policies, c \in Timestamps \cup {MaxTimestamp},
     n \in Timestamps, a \in Uint16 :
       ComputeIncrement(i, c, n, a) \in Int

VARIABLES
  thresholdsAmount,  \* uint16: how many thresholds the next batch has
  currentTimestamp   \* uint32: the timestamp of the last input

controllerVars == <<thresholdsAmount, currentTimestamp>>

-----------------------------------------------------------------------------
(* Matching a policy                                                       *)

LargerOf(a, b) == IF a >= b THEN a ELSE b
LeastOf(S) == CHOOSE x \in S : \A y \in S : x <= y

CeilDiv(n, d) == (n + d - 1) \div d

\* Mutant: the product is truncated, not rounded up.
MinMatchingLevelTruncated(policy, amount) ==
  (policy.hundredths * amount) \div 100

(***************************************************************************)
(* policy.Percentage * float32(amount), rounded up to an integer.  The     *)
(* product mantissa * amount has up to 40 bits; it is held as hi * 2^16 +  *)
(* lo.  float32 keeps 24 of them: `drop' bits go, to the nearest value,    *)
(* ties to the even one.                                                   *)
(***************************************************************************)
MinMatchingLevel(policy, amount) ==
  LET upper == (policy.mantissa \div 4096) * amount
                 + ((policy.mantissa % 4096) * amount) \div 4096
      hi    == upper \div 16
      lo    == (upper % 16) * 4096 + (((policy.mantissa % 4096) * amount) % 4096)
      drop  == LeastOf({d \in 0 .. 16 : hi < 2^(8 + d)})
      kept  == hi * 2^(16 - drop) + lo \div 2^drop
      tail  == 2 * (lo % 2^drop)
      up    == tail > 2^drop \/ (tail = 2^drop /\ kept % 2 = 1)
      value == IF drop > 0 /\ up THEN kept + 1 ELSE kept
  IN  IF policy.mantissa = 0 THEN 0 ELSE CeilDiv(value, 2^(policy.shift - drop))

\* The level from which, by the comment above Update, the policy matches:
\* "ThresholdLevel is higher than or equal to policy.Percentage * amount".
DocumentedLevel(policy, amount) == CeilDiv(policy.hundredths * amount, 100)

\* Mutant: the comparison is the wrong way round.
MatchingBelow(level, amount) ==
  {i \in DOMAIN Policies : level <= MinMatchingLevel(Policies[i], amount)}

Matching(level, amount) ==
  {i \in DOMAIN Policies : level >= MinMatchingLevel(Policies[i], amount)}

\* The policies are iterated in order and the first that matches is applied.
ChosenPolicy(level, amount) == LeastOf(Matching(level, amount))

-----------------------------------------------------------------------------
(* Applying its increment                                                  *)

(***************************************************************************)
(* uint16(max(1, int32(amount) + increment)).  An int32 sum that overflows *)
(* is negative, so the max is 1; a sum beyond 16 bits is cut.              *)
(***************************************************************************)
Increased(amount, increment) ==
  IF increment > MaxInt32 - amount
    THEN 1
    ELSE LargerOf(1, amount + increment) % Uint16Range

NewAmount(level, timestamp) ==
  IF Matching(level, thresholdsAmount) = {}
    THEN thresholdsAmount
    ELSE Increased(thresholdsAmount,
                   ComputeIncrement(ChosenPolicy(level, thresholdsAmount),
                                    currentTimestamp, timestamp, thresholdsAmount))

ControllerInit ==
  /\ thresholdsAmount = InitialThresholdsAmount
  /\ currentTimestamp = MaxTimestamp

Update(level, timestamp) ==
  /\ thresholdsAmount' = NewAmount(level, timestamp)
  /\ currentTimestamp' = timestamp

(***************************************************************************)
(* The inputs the workers manager gives: a batch without any success is    *)
(* reported as level 0 at timestamp 0, another one as the level that was   *)
(* hit and the delay of its item.                                          *)
(***************************************************************************)
ReportMiss == Update(0, 0)

ReportHit ==
  \E level \in 1 .. thresholdsAmount, timestamp \in Timestamps :
    Update(level, timestamp)

ControllerNext == ReportMiss \/ ReportHit

ControllerSpec == ControllerInit /\ [][ControllerNext]_controllerVars

-----------------------------------------------------------------------------
(* Properties                                                              *)

\* The amount is a uint16 and the timestamp one of those reported, or the
\* initial one.
ControllerTypeOK ==
  /\ thresholdsAmount \in Uint16
  /\ currentTimestamp \in Timestamps \cup {MaxTimestamp}

\* "This value is always greater than 0" (GetThresholdsAmount): an amount of 0
\* would make the manager run batches without a single threshold.  The code takes
\* the maximum with 1 before it cuts the sum to 16 bits, not after.
AmountPositive == thresholdsAmount > 0

\* No sequence of inputs leads to an amount for which a batch that reached
\* further is answered with fewer thresholds than one that reached less far.
\* It rests on the first matching policy winning over the later, laxer ones.
\* Below 4 thresholds it fails: a quarter of the amount is cut to 0, so a miss
\* keeps all 3 thresholds while a hit of the 0.3 policy removes one.
MonotoneResponse ==
  thresholdsAmount >= 4 => \A level \in 0 .. thresholdsAmount - 1, timestamp \in Timestamps :
      NewAmount(level, timestamp) <= NewAmount(level + 1, timestamp)

\* Computing with float32 instead of the written percentage moves the level a
\* policy asks for by at most one, and never down.
RoundingAtMostOne ==
  \A i \in DOMAIN Policies :
    MinMatchingLevel(Policies[i], thresholdsAmount)
      - DocumentedLevel(Policies[i], thresholdsAmount) \in {0, 1}
=============================================================================
