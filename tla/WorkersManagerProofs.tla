------------------------ MODULE WorkersManagerProofs ------------------------
(***************************************************************************)
(* Theorems about the thresholds controller and the batch loop, for any    *)
(* policies a configuration can hold, any inputs, any size of the pool,    *)
(* any offset and any order in which the workers answer: first the         *)
(* controller, then where the IDs of a batch can be, then what the batches *)
(* settle.                                                                 *)
(***************************************************************************)
EXTENDS WorkersManager, TLAPS
LOCAL INSTANCE WellFoundedInduction
LOCAL INSTANCE FiniteSetTheorems

-----------------------------------------------------------------------------
(* The thresholds controller                                               *)

\* A non-empty set of naturals has a least element, and LeastOf is one.
LEMMA LeastOfNaturals ==
  ASSUME NEW S \in SUBSET Nat, S # {}
  PROVE  LeastOf(S) \in S /\ \A y \in S : LeastOf(S) <= y
<1>1. PICK x \in S : \A y \in S : ~ (<<y, x>> \in OpToRel(<, Nat))
  BY NatLessThanWellFounded, WFMin
<1>2. ASSUME NEW y \in S
      PROVE  x <= y
  <2>1. x \in Nat /\ y \in Nat
    OBVIOUS
  <2>2. <<y, x>> \in OpToRel(<, Nat) <=> y < x
    BY <2>1, Zenon DEF OpToRel
  <2>3. ~ (<<y, x>> \in OpToRel(<, Nat))
    BY <1>1
  <2>4. ~ (y < x)
    BY <2>2, <2>3
  <2> QED  BY <2>1, <2>4
<1> QED  BY <1>2 DEF LeastOf

\* The first policy that matches is one of the configured policies.
LEMMA ChosenPolicyIsAPolicy ==
  ASSUME NEW lvl, NEW amount, Matching(lvl, amount) # {}
  PROVE  ChosenPolicy(lvl, amount) \in DOMAIN Policies
<1>1. Matching(lvl, amount) \in SUBSET DOMAIN Policies
  BY DEF Matching
<1>2. DOMAIN Policies \in SUBSET Nat
  BY PoliciesAreValid
<1> QED  BY <1>1, <1>2, LeastOfNaturals DEF ChosenPolicy

LEMMA Uint16IsNatural == Uint16 \subseteq Nat
<1>1. Uint16Range \in Nat
  BY DEF Uint16Range
<1> QED  BY <1>1 DEF Uint16

LEMMA Uint16IsBounded ==
  ASSUME NEW a \in Uint16
  PROVE  a \in Nat /\ a <= 65535
<1>1. Uint16Range = 65536
  BY DEF Uint16Range
<1>2. Uint16Range \in Nat
  BY DEF Uint16Range
<1>3. a \in Nat /\ a < Uint16Range
  BY <1>2 DEF Uint16
<1> QED  BY <1>1, <1>3

\* What is left of a number cut to 16 bits.
LEMMA CutToUint16 ==
  ASSUME NEW n \in Nat
  PROVE  /\ n % Uint16Range \in Uint16
         /\ n < Uint16Range => n % Uint16Range = n
<1>1. Uint16Range \in Nat /\ Uint16Range > 1
  BY DEF Uint16Range
<1> QED  BY <1>1 DEF Uint16

\* Whatever an expression yields, the amount stays a uint16.
LEMMA IncreasedIsUint16 ==
  ASSUME NEW amount \in Uint16, NEW increment \in Int
  PROVE  Increased(amount, increment) \in Uint16
<1>1. Uint16Range \in Nat /\ Uint16Range > 1
  BY DEF Uint16Range
<1>2. LargerOf(1, amount + increment) \in Nat /\ 1 \in Uint16
  BY <1>1 DEF LargerOf, Uint16
<1> QED  BY <1>2, CutToUint16 DEF Increased

LEMMA NewAmountIsUint16 ==
  ASSUME ControllerTypeOK, NEW lvl, NEW timestamp \in Timestamps
  PROVE  NewAmount(lvl, timestamp) \in Uint16
<1>1. CASE Matching(lvl, thresholdsAmount) = {}
  BY <1>1 DEF NewAmount, ControllerTypeOK
<1>2. CASE Matching(lvl, thresholdsAmount) # {}
  <2>1. ComputeIncrement(ChosenPolicy(lvl, thresholdsAmount),
                         currentTimestamp, timestamp, thresholdsAmount) \in Int
    BY <1>2, ChosenPolicyIsAPolicy, IncrementsAreIntegers DEF ControllerTypeOK
  <2> QED  BY <1>2, <2>1, IncreasedIsUint16 DEF NewAmount, ControllerTypeOK
<1> QED  BY <1>1, <1>2

LEMMA InitControllerTypeOK == ControllerInit => ControllerTypeOK
<1>1. Uint16Range \in Nat /\ Uint16Range > 256
  BY DEF Uint16Range
<1>2. InitialThresholdsAmount \in Uint16
  BY <1>1, InitialAmountIsPositive DEF Uint16
<1> QED  BY <1>2 DEF ControllerInit, ControllerTypeOK

LEMMA UpdateControllerTypeOK ==
  ASSUME ControllerTypeOK, NEW lvl, NEW timestamp \in Timestamps,
         Update(lvl, timestamp)
  PROVE  ControllerTypeOK'
BY NewAmountIsUint16 DEF Update, ControllerTypeOK

LEMMA NextControllerTypeOK ==
  ASSUME ControllerTypeOK, [ControllerNext]_controllerVars
  PROVE  ControllerTypeOK'
<1>1. CASE ReportMiss
  BY <1>1, UpdateControllerTypeOK, TimestampsAreDelays DEF ReportMiss
<1>2. CASE ReportHit
  BY <1>2, UpdateControllerTypeOK DEF ReportHit
<1>3. CASE UNCHANGED controllerVars
  BY <1>3 DEF controllerVars, ControllerTypeOK
<1> QED  BY <1>1, <1>2, <1>3 DEF ControllerNext

\* After any sequence of batches the amount is a uint16 and the timestamp one
\* that was reported, or the one Update starts from.
THEOREM ControllerTypeCorrect == ControllerSpec => []ControllerTypeOK
<1>1. ControllerInit => ControllerTypeOK
  BY InitControllerTypeOK
<1>2. ControllerTypeOK /\ [ControllerNext]_controllerVars => ControllerTypeOK'
  BY NextControllerTypeOK
<1> QED  BY <1>1, <1>2, PTL DEF ControllerSpec

-----------------------------------------------------------------------------

\* No expression takes the amount of now beyond 16 bits.  Nothing in the code
\* demands it of a configuration, and that of config.yml violates it at 52429.
IncrementsFit ==
  \A i \in DOMAIN Policies, n \in Timestamps :
    thresholdsAmount
      + ComputeIncrement(i, currentTimestamp, n, thresholdsAmount) < Uint16Range

LEMMA IncreasedIsPositive ==
  ASSUME NEW amount \in Uint16, NEW increment \in Int,
         amount + increment < Uint16Range
  PROVE  Increased(amount, increment) > 0
<1>1. Uint16Range \in Nat /\ Uint16Range > 1
  BY DEF Uint16Range
<1>2. /\ LargerOf(1, amount + increment) \in Nat
      /\ LargerOf(1, amount + increment) > 0
      /\ LargerOf(1, amount + increment) < Uint16Range
  BY <1>1 DEF LargerOf, Uint16
<1> QED  BY <1>2, CutToUint16 DEF Increased

LEMMA UpdateAmountPositive ==
  ASSUME IncrementsFit, ControllerTypeOK, AmountPositive,
         NEW lvl, NEW timestamp \in Timestamps, Update(lvl, timestamp)
  PROVE  AmountPositive'
<1>1. CASE Matching(lvl, thresholdsAmount) = {}
  BY <1>1 DEF NewAmount, Update, AmountPositive
<1>2. CASE Matching(lvl, thresholdsAmount) # {}
  <2> DEFINE increment == ComputeIncrement(ChosenPolicy(lvl, thresholdsAmount),
                            currentTimestamp, timestamp, thresholdsAmount)
  <2>1. increment \in Int /\ thresholdsAmount + increment < Uint16Range
    BY <1>2, ChosenPolicyIsAPolicy, IncrementsAreIntegers
    DEF ControllerTypeOK, IncrementsFit
  <2>2. Increased(thresholdsAmount, increment) > 0
    BY <2>1, IncreasedIsPositive DEF ControllerTypeOK
  <2> QED  BY <1>2, <2>2 DEF NewAmount, Update, AmountPositive
<1> QED  BY <1>1, <1>2

(***************************************************************************)
(* Percentages are float32: the mantissa has 24 bits and, below 2^8, at    *)
(* least 16 of them are behind the point.                                  *)
(***************************************************************************)
Mantissas == 16777216

PercentagesAreFloats ==
  \A i \in DOMAIN Policies :
    /\ Policies[i].mantissa < Mantissas
    /\ Policies[i].mantissa # 0 => Policies[i].shift >= 16

\* A policy that is tried earlier never increments less, for 4 thresholds or more.
PoliciesAreOrdered ==
  \A i, j \in DOMAIN Policies, c \in Timestamps \cup {MaxTimestamp},
     n \in Timestamps, a \in Uint16 :
       i <= j /\ a >= 4 => ComputeIncrement(j, c, n, a) <= ComputeIncrement(i, c, n, a)

LEMMA PowerOfTwo ==
  ASSUME NEW n \in Nat
  PROVE  2^n \in Nat /\ 2^n > 0
<1> DEFINE S == 1 .. n
<1>1. IsFiniteSet(S) /\ Cardinality(S) = n
  BY FS_Interval
<1>2. IsFiniteSet(SUBSET S) /\ Cardinality(SUBSET S) = 2^n
  BY <1>1, FS_SUBSET
<1>3. 2^n \in Nat
  BY <1>2, FS_CardinalityType
<1>4. 2^n # 0
  BY <1>2, FS_EmptySet
<1> QED  BY <1>3, <1>4

\* The subsets of m + n elements are the pairs of a subset of m and one of n.
LEMMA PowersMultiply ==
  ASSUME NEW m \in Nat, NEW n \in Nat
  PROVE  2^(m + n) = 2^m * 2^n
<1> DEFINE A == 1 .. m
           B == m + 1 .. m + n
           U == 1 .. m + n
           S == (SUBSET A) \X (SUBSET B)
           Merged == [p \in S |-> p[1] \cup p[2]]
<1>1. /\ IsFiniteSet(A) /\ Cardinality(A) = m
      /\ IsFiniteSet(B) /\ Cardinality(B) = n
      /\ IsFiniteSet(U) /\ Cardinality(U) = m + n
  <2>1. IsFiniteSet(A) /\ Cardinality(A) = m
    BY FS_Interval
  <2>2. IsFiniteSet(U) /\ Cardinality(U) = m + n
    <3>1. m + n \in Nat
      OBVIOUS
    <3> QED  BY <3>1, FS_Interval
  <2>3. IsFiniteSet(B) /\ Cardinality(B) = n
    <3>1. m + 1 \in Int /\ m + n \in Int
      OBVIOUS
    <3>2. /\ IsFiniteSet(B)
          /\ Cardinality(B) = IF m + 1 > m + n THEN 0 ELSE (m + n) - (m + 1) + 1
      BY <3>1, FS_Interval
    <3> QED  BY <3>2
  <2> QED  BY <2>1, <2>2, <2>3
<1>2. A \cap B = {} /\ A \cup B = U
  OBVIOUS
<1> HIDE DEF A, B, U
<1>3. /\ IsFiniteSet(SUBSET A) /\ Cardinality(SUBSET A) = 2^m
      /\ IsFiniteSet(SUBSET B) /\ Cardinality(SUBSET B) = 2^n
      /\ Cardinality(SUBSET U) = 2^(m + n)
  BY <1>1, FS_SUBSET
<1>4. IsFiniteSet(S) /\ Cardinality(S) = 2^m * 2^n
  BY <1>3, FS_Product
<1>5. Merged \in Bijection(S, SUBSET U)
  <2>1. Merged \in [S -> SUBSET U]
    BY <1>2
  <2>2. ASSUME NEW p \in S, NEW q \in S, Merged[p] = Merged[q]
        PROVE  p = q
    <3>1. p[1] \cup p[2] = q[1] \cup q[2]
      BY <2>2
    <3>2. p[1] = q[1] /\ p[2] = q[2]
      BY <1>2, <3>1
    <3> QED  BY <3>2
  <2>3. ASSUME NEW T \in SUBSET U
        PROVE  \E p \in S : Merged[p] = T
    <3>1. <<T \cap A, T \cap B>> \in S
      OBVIOUS
    <3>2. Merged[<<T \cap A, T \cap B>>] = T
      BY <1>2, <3>1
    <3> QED  BY <3>1, <3>2
  <2> QED  BY <2>1, <2>2, <2>3 DEF Bijection, Injection, Surjection, IsInjective
<1>6. Cardinality(SUBSET U) = Cardinality(S)
  BY <1>4, <1>5, FS_Bijection DEF ExistsBijection
<1> QED  BY <1>3, <1>4, <1>6

\* Division by a positive divisor.
LEMMA DivBounds ==
  ASSUME NEW x \in Nat, NEW d \in Nat, d > 0
  PROVE  /\ x \div d \in Nat
         /\ x % d \in 0 .. d - 1
         /\ x = d * (x \div d) + (x % d)
<1>1. x = d * (x \div d) + (x % d)
  OBVIOUS
<1>2. x % d \in 0 .. d - 1
  OBVIOUS
<1>3. x \div d \in Nat
  <2>1. x \div d \in Int
    OBVIOUS
  <2>2. ASSUME NEW q \in Int, q < 0, x = d * q + (x % d)
        PROVE  FALSE
    <3>1. d * q <= d * (-1)
      BY <2>2
    <3>2. d * q \in Int /\ d * (-1) = -d
      BY <2>2
    <3> QED  BY <1>2, <2>2, <3>1, <3>2
  <2> QED  BY <1>1, <2>1, <2>2
<1> QED  BY <1>1, <1>2, <1>3

\* CeilDiv is the least integer that is not below the quotient.
LEMMA CeilDivBounds ==
  ASSUME NEW n \in Nat, NEW d \in Nat, d > 0
  PROVE  /\ CeilDiv(n, d) \in Nat
         /\ d * CeilDiv(n, d) >= n
         /\ d * (CeilDiv(n, d) - 1) < n
<1> DEFINE x == n + d - 1
           q == x \div d
           r == x % d
<1>1. x \in Nat
  OBVIOUS
<1>2. q \in Nat /\ r \in 0 .. d - 1 /\ x = d * q + r
  BY <1>1, DivBounds
<1>3. CeilDiv(n, d) = q
  BY DEF CeilDiv
<1> HIDE DEF q, r
<1>4. d * (q - 1) = d * q - d /\ d * q \in Nat
  BY <1>2
<1> QED  BY <1>2, <1>3, <1>4

\* Two quotients that differ by less than a hundredth: the larger integer above
\* is at most one above the other.
LEMMA NearbyCeilings ==
  ASSUME NEW v \in Nat, NEW w \in Nat, w > 0, NEW p \in Nat,
         100 * v > w * (p - 1), 100 * v < w * (p + 1)
  PROVE  CeilDiv(v, w) - CeilDiv(p, 100) \in {0, 1}
<1> DEFINE c == CeilDiv(p, 100)
           e == CeilDiv(v, w)
<1>1. c \in Int /\ 100 * c >= p /\ 100 * (c - 1) < p
  BY CeilDivBounds
<1>2. e \in Int /\ w * e >= v /\ w * (e - 1) < v
  BY CeilDivBounds
<1> HIDE DEF c, e
<1>3. ASSUME e <= c - 1 PROVE FALSE
  <2>1. w * e <= w * (c - 1)
    BY <1>1, <1>2, <1>3
  <2>2. w * (100 * (c - 1)) <= w * (p - 1)
    BY <1>1
  <2>3. w * (100 * (c - 1)) = 100 * (w * (c - 1))
    BY <1>1
  <2>4. w * (c - 1) \in Int /\ w * e \in Int /\ w * (p - 1) \in Int
    BY <1>1, <1>2
  <2> QED  BY <1>2, <2>1, <2>2, <2>3, <2>4
<1>4. ASSUME e >= c + 2 PROVE FALSE
  <2>1. w * (e - 1) >= w * (c + 1)
    BY <1>1, <1>2, <1>4
  <2>2. w * (100 * (c + 1)) >= w * (p + 1)
    BY <1>1
  <2>3. w * (100 * (c + 1)) = 100 * (w * (c + 1))
    BY <1>1
  <2>4. w * (c + 1) \in Int /\ w * (e - 1) \in Int /\ w * (p + 1) \in Int
    BY <1>1, <1>2
  <2> QED  BY <1>2, <2>1, <2>2, <2>3, <2>4
<1> QED  BY <1>1, <1>2, <1>3, <1>4 DEF c, e

\* The bits of a product, from its three pieces.
LEMMA BitsCombine ==
  ASSUME NEW hi \in Nat, NEW u \in Nat, NEW v \in Nat, u <= 15, v <= 4095,
         NEW upper \in Nat, NEW n \in Nat,
         upper = (16 * hi) + u, n = (4096 * upper) + v
  PROVE  /\ (u * 4096) + v \in Nat
         /\ (u * 4096) + v <= 65535
         /\ (hi * 65536) + ((u * 4096) + v) = n
OBVIOUS

\* The two halves in which MinMatchingLevel holds the product are its parts.
LEMMA ProductIsSplit ==
  ASSUME NEW m \in Nat, NEW a \in Nat
  PROVE  LET upper == (m \div 4096) * a + ((m % 4096) * a) \div 4096
             hi    == upper \div 16
             lo    == (upper % 16) * 4096 + (((m % 4096) * a) % 4096)
         IN  hi \in Nat /\ lo \in Nat /\ (hi * 65536) + lo = m * a
<1> DEFINE q == m \div 4096
           s == m % 4096
           r == s * a
           upper == q * a + r \div 4096
<1>1. q \in Nat /\ s \in Nat /\ m = (4096 * q) + s
  OBVIOUS
<1> HIDE DEF q, s
<1>2. q * a \in Nat /\ r \in Nat
  BY <1>1
<1>3. m * a = (4096 * (q * a)) + r
  BY <1>1
<1> HIDE DEF r
<1>4. /\ r \div 4096 \in Nat /\ r % 4096 \in Nat /\ r % 4096 <= 4095
      /\ r = (4096 * (r \div 4096)) + (r % 4096)
  BY <1>2
<1>5. upper \in Nat
  BY <1>2, <1>4
<1>6. m * a = (4096 * upper) + (r % 4096) /\ m * a \in Nat
  BY <1>2, <1>3, <1>4
<1> HIDE DEF upper
<1>7. /\ upper \div 16 \in Nat /\ upper % 16 \in Nat /\ upper % 16 <= 15
      /\ upper = (16 * (upper \div 16)) + (upper % 16)
  BY <1>5
<1>8. /\ ((upper % 16) * 4096) + (r % 4096) \in Nat
      /\ ((upper \div 16) * 65536) + (((upper % 16) * 4096) + (r % 4096)) = m * a
  BY <1>4, <1>5, <1>6, <1>7, BitsCombine
<1>9. /\ upper \div 16 \in Nat
      /\ ((upper % 16) * 4096) + (r % 4096) \in Nat
      /\ ((upper \div 16) * 65536) + (((upper % 16) * 4096) + (r % 4096)) = m * a
  BY <1>7, <1>8
<1> QED  BY <1>9 DEF upper, r, q, s

\* What MinMatchingLevel calls value, when it drops d bits.
RoundedOff(hi, lo, d) ==
  LET kept == hi * 2^(16 - d) + lo \div 2^d
      tail == 2 * (lo % 2^d)
      up   == tail > 2^d \/ (tail = 2^d /\ kept % 2 = 1)
  IN  IF d > 0 /\ up THEN kept + 1 ELSE kept

\* The value, in units of D, is the product rounded to the nearest.
IsNearest(value, D, product) ==
  2 * (value * D - product) <= D /\ 2 * (product - value * D) <= D

\* hi is the product without its last 16 bits, lo its last 16 bits.
AreParts(hi, lo, product) ==
  hi \in Nat /\ lo \in Nat /\ product \in Nat /\ hi * 65536 + lo = product

\* Rounding the last d bits away, to the nearest value and to the even one of two,
\* adds or removes half of the last bit that is kept, or less.
LEMMA RoundingIsHalf ==
  ASSUME NEW hi, NEW lo, NEW product, AreParts(hi, lo, product), NEW d \in 0 .. 16
  PROVE  /\ RoundedOff(hi, lo, d) \in Nat
         /\ IsNearest(RoundedOff(hi, lo, d), 2^d, product)
<1> DEFINE D == 2^d
           E == 2^(16 - d)
           q == lo \div D
           r == lo % D
           kept  == hi * E + q
           up    == 2 * r > D \/ (2 * r = D /\ kept % 2 = 1)
           value == IF d > 0 /\ up THEN kept + 1 ELSE kept
<1>0. hi \in Nat /\ lo \in Nat /\ product \in Nat /\ hi * 65536 + lo = product
  BY DEF AreParts
<1>1. /\ D \in Nat /\ D > 0 /\ E \in Nat /\ E > 0
  BY PowerOfTwo
<1>2. E * D = 65536
  <2>1. 16 - d \in Nat /\ d \in Nat /\ (16 - d) + d = 16
    OBVIOUS
  <2>2. 2^16 = E * D
    BY <2>1, PowersMultiply
  <2>3. 2^16 = 65536
    BY SMT
  <2> QED  BY <2>2, <2>3
<1>3. d = 0 => D = 1
  BY SMT
<1> HIDE DEF D, E
<1>4. q \in Nat /\ r \in 0 .. D - 1 /\ lo = D * q + r
  BY <1>0, <1>1, DivBounds
<1> HIDE DEF q, r
<1>5. hi * E \in Nat /\ (hi * E) * D = hi * 65536
  <2>1. (hi * E) * D = hi * (E * D)
    BY <1>0, <1>1
  <2> QED  BY <1>0, <1>1, <1>2, <2>1
<1>6. kept \in Nat /\ kept * D = hi * 65536 + D * q
  <2>1. (hi * E + q) * D = (hi * E) * D + D * q
    BY <1>0, <1>1, <1>4, <1>5
  <2> QED  BY <1>0, <1>4, <1>5, <2>1
<1>7. kept * D = product - r /\ (kept + 1) * D = kept * D + D
  BY <1>0, <1>1, <1>4, <1>6
<1> HIDE DEF kept
<1>8. value \in Nat
  BY <1>6
<1>9. CASE d > 0 /\ up
  <2>1. value * D = product - r + D /\ 2 * r >= D
    BY <1>0, <1>1, <1>4, <1>7, <1>9
  <2> QED  BY <1>0, <1>1, <1>4, <1>8, <1>9, <2>1 DEF RoundedOff, IsNearest, D, E, q, r, kept
<1>10. CASE ~ (d > 0 /\ up)
  <2>1. value * D = product - r /\ 2 * r <= D
    BY <1>0, <1>1, <1>3, <1>4, <1>7, <1>10
  <2> QED  BY <1>0, <1>1, <1>4, <1>8, <1>10, <2>1 DEF RoundedOff, IsNearest, D, E, q, r, kept
<1> QED  BY <1>9, <1>10

\* The parts of MinMatchingLevel.
UpperPart(m, a) == ((m \div 4096) * a + ((m % 4096) * a) \div 4096)
HighPart(m, a)  == UpperPart(m, a) \div 16
LowPart(m, a)   == (UpperPart(m, a) % 16) * 4096 + (((m % 4096) * a) % 4096)
Dropped(m, a)   == LeastOf({d \in 0 .. 16 : HighPart(m, a) < 2^(8 + d)})

Rounded(m, a) == RoundedOff(HighPart(m, a), LowPart(m, a), Dropped(m, a))

LEMMA LevelOfParts ==
  ASSUME NEW policy, NEW a, policy.mantissa # 0
  PROVE  MinMatchingLevel(policy, a) =
           CeilDiv(Rounded(policy.mantissa, a),
                   2^(policy.shift - Dropped(policy.mantissa, a)))
BY DEF MinMatchingLevel, Rounded, RoundedOff, Dropped, HighPart, LowPart, UpperPart

\* The product of 24 and 16 bits is rounded to 24 bits.
LEMMA ProductIsRounded ==
  ASSUME NEW m \in Nat, m < Mantissas, NEW a \in Uint16
  PROVE  /\ Dropped(m, a) \in 0 .. 16
         /\ Rounded(m, a) \in Nat
         /\ IsNearest(Rounded(m, a), 2^Dropped(m, a), m * a)
<1>1. a \in Nat /\ a <= 65535
  BY Uint16IsBounded
<1>2. AreParts(HighPart(m, a), LowPart(m, a), m * a)
  BY <1>1, ProductIsSplit DEF HighPart, LowPart, UpperPart, AreParts
<1>3. HighPart(m, a) < Mantissas
  <2>1. m * a <= 16777215 * 65535
    <3>1. m * a <= m * 65535
      BY <1>1
    <3> QED  BY <1>1, <3>1 DEF Mantissas
  <2> QED  BY <1>1, <1>2, <2>1, SMT DEF Mantissas, AreParts
<1>4. Dropped(m, a) \in 0 .. 16
  <2> DEFINE fits == {d \in 0 .. 16 : HighPart(m, a) < 2^(8 + d)}
  <2>1. 2^24 = Mantissas
    BY SMT DEF Mantissas
  <2>2. 16 \in fits
    BY <1>3, <2>1
  <2>3. fits \in SUBSET Nat /\ fits # {}
    <3>1. 0 .. 16 \subseteq Nat
      OBVIOUS
    <3>2. fits \subseteq 0 .. 16
      OBVIOUS
    <3> QED  BY <2>2, <3>1, <3>2
  <2>4. LeastOf(fits) \in fits
    BY <2>3, LeastOfNaturals
  <2> QED  BY <2>4 DEF Dropped
<1> QED  BY <1>2, <1>4, RoundingIsHalf DEF Rounded

\* The policies are records of naturals.
LEMMA PolicyFields ==
  ASSUME NEW i \in DOMAIN Policies
  PROVE  /\ Policies[i].hundredths \in 0 .. 100
         /\ Policies[i].mantissa \in Nat
         /\ Policies[i].shift \in Nat
<1> DEFINE Policy == [hundredths : 0 .. 100, mantissa : Nat, shift : Nat]
<1>1. Policies \in Seq(Policy)
  BY PoliciesAreValid
<1>2. Policies[i] \in Policy
  <2> HIDE DEF Policy
  <2> QED  BY <1>1
<1> QED  BY <1>2

\* The level a policy asks for is an integer.
LEMMA LevelIsInteger ==
  ASSUME PercentagesAreFloats, NEW i \in DOMAIN Policies, NEW a \in Uint16
  PROVE  MinMatchingLevel(Policies[i], a) \in Int
<1> DEFINE m == Policies[i].mantissa
<1>1. CASE m = 0
  BY <1>1 DEF MinMatchingLevel
<1>2. CASE m # 0
  <2>1. m \in Nat /\ m < Mantissas /\ Policies[i].shift \in Nat /\ Policies[i].shift >= 16
    BY <1>2, PolicyFields DEF PercentagesAreFloats
  <2>2. Dropped(m, a) \in 0 .. 16 /\ Rounded(m, a) \in Nat
    BY <2>1, ProductIsRounded
  <2>3. Policies[i].shift - Dropped(m, a) \in Nat
    BY <2>1, <2>2
  <2> QED  BY <1>2, <2>2, <2>3, PowerOfTwo, CeilDivBounds, LevelOfParts
<1> QED  BY <1>1, <1>2

\* A batch that reached further matches all policies that one before it matches,
\* so the first that it matches is not a later one.
LEMMA FurtherMatchesEarlier ==
  ASSUME PercentagesAreFloats, NEW a \in Uint16, NEW lvl \in Nat
  PROVE  /\ Matching(lvl, a) # {} /\ Matching(lvl + 1, a) # {}
         /\ ChosenPolicy(lvl + 1, a) <= ChosenPolicy(lvl, a)
<1>1. \A i \in DOMAIN Policies : MinMatchingLevel(Policies[i], a) \in Int
  BY LevelIsInteger
<1>2. Matching(lvl, a) \subseteq Matching(lvl + 1, a)
  BY <1>1 DEF Matching
<1>3. Matching(lvl, a) # {}
  <2>1. PICK i \in DOMAIN Policies : Policies[i].mantissa = 0
    BY PoliciesAreValid
  <2>2. MinMatchingLevel(Policies[i], a) = 0
    BY <2>1 DEF MinMatchingLevel
  <2> QED  BY <2>2 DEF Matching
<1>4. /\ Matching(lvl, a) \in SUBSET Nat
      /\ Matching(lvl + 1, a) \in SUBSET Nat
  <2>1. DOMAIN Policies \subseteq Nat
    BY PoliciesAreValid
  <2> QED  BY <2>1 DEF Matching
<1>5. /\ ChosenPolicy(lvl, a) \in Matching(lvl, a)
      /\ \A i \in Matching(lvl + 1, a) : ChosenPolicy(lvl + 1, a) <= i
  BY <1>2, <1>3, <1>4, LeastOfNaturals DEF ChosenPolicy
<1> QED  BY <1>2, <1>3, <1>5

LEMMA IncreasedIsMonotone ==
  ASSUME NEW a \in Uint16, NEW small \in Int, NEW large \in Int,
         small <= large, a + large < Uint16Range
  PROVE  Increased(a, small) <= Increased(a, large)
<1>1. /\ a \in Nat /\ Uint16Range \in Nat /\ Uint16Range > 1
      /\ MaxInt32 \in Nat /\ MaxInt32 > Uint16Range
  BY Uint16IsBounded DEF Uint16Range, MaxInt32
<1>2. small <= MaxInt32 - a /\ large <= MaxInt32 - a
  BY <1>1
<1>3. /\ LargerOf(1, a + small) \in Nat /\ LargerOf(1, a + large) \in Nat
      /\ LargerOf(1, a + small) < Uint16Range
      /\ LargerOf(1, a + large) < Uint16Range
      /\ LargerOf(1, a + small) <= LargerOf(1, a + large)
  BY <1>1 DEF LargerOf
<1>4. /\ Increased(a, small) = LargerOf(1, a + small)
      /\ Increased(a, large) = LargerOf(1, a + large)
  BY <1>1, <1>2, <1>3, CutToUint16 DEF Increased
<1> QED  BY <1>3, <1>4

\* With ordered policies, a batch that reached further is never answered with
\* fewer thresholds than one that reached less far, whatever float32 makes of the
\* percentages, for every amount that the increments keep within 16 bits.
THEOREM ResponseIsMonotone ==
  ASSUME PercentagesAreFloats, PoliciesAreOrdered
  PROVE  ControllerSpec => [](IncrementsFit => MonotoneResponse)
<1>1. ASSUME ControllerTypeOK, IncrementsFit
      PROVE  MonotoneResponse
  <2> SUFFICES ASSUME thresholdsAmount >= 4,
                      NEW lvl \in 0 .. thresholdsAmount - 1,
                      NEW timestamp \in Timestamps
               PROVE  NewAmount(lvl, timestamp) <= NewAmount(lvl + 1, timestamp)
    BY DEF MonotoneResponse
  <2> DEFINE i == ChosenPolicy(lvl, thresholdsAmount)
             j == ChosenPolicy(lvl + 1, thresholdsAmount)
             increment(k) == ComputeIncrement(k, currentTimestamp, timestamp,
                                              thresholdsAmount)
  <2>1. /\ thresholdsAmount \in Uint16 /\ lvl \in Nat
        /\ currentTimestamp \in Timestamps \cup {MaxTimestamp}
    BY <1>1, Uint16IsNatural DEF ControllerTypeOK
  <2>2. /\ Matching(lvl, thresholdsAmount) # {}
        /\ Matching(lvl + 1, thresholdsAmount) # {}
        /\ j <= i
    BY <2>1, FurtherMatchesEarlier
  <2>3. i \in DOMAIN Policies /\ j \in DOMAIN Policies
    BY <2>2, ChosenPolicyIsAPolicy
  <2>4. /\ NewAmount(lvl, timestamp) = Increased(thresholdsAmount, increment(i))
        /\ NewAmount(lvl + 1, timestamp) = Increased(thresholdsAmount, increment(j))
    BY <2>2 DEF NewAmount
  <2> HIDE DEF i, j
  <2>5. /\ increment(i) \in Int /\ increment(j) \in Int
        /\ thresholdsAmount + increment(j) < Uint16Range
    BY <1>1, <2>1, <2>3, IncrementsAreIntegers DEF IncrementsFit
  <2>6. increment(i) <= increment(j)
    BY <2>1, <2>2, <2>3 DEF PoliciesAreOrdered
  <2> QED  BY <2>1, <2>4, <2>5, <2>6, IncreasedIsMonotone
<1> QED  BY <1>1, ControllerTypeCorrect, PTL

(***************************************************************************)
(* A percentage is the float32 next to the one that was written: the error *)
(* is at most half of its last bit.  It is at most 1, so that at least 23  *)
(* of the 24 bits are behind the point.                                    *)
(***************************************************************************)
PercentagesAreRounded ==
  \A i \in DOMAIN Policies :
    LET policy == Policies[i]
    IN  IF policy.mantissa = 0
          THEN policy.hundredths = 0
          ELSE /\ policy.mantissa < Mantissas
               /\ policy.shift >= 23
               /\ 100 * policy.mantissa - policy.hundredths * 2^policy.shift \in -50 .. 50

\* What the rounding errors are: of the percentage m, written as h hundredths, in
\* units of D * W, and of its product by the amount a, in units of D.
ErrorsAreBounded(m, h, a, v, D, W) ==
  /\ m \in Nat /\ h \in Nat /\ v \in Nat
  /\ D \in Nat /\ 0 < D /\ D <= 65536
  /\ W \in Nat /\ 0 < W /\ D * W >= 8388608
  /\ 100 * m - h * (D * W) \in -50 .. 50
  /\ IsNearest(v, D, m * a)

\* Together they are less than a hundredth, for an amount of 16 bits.
LEMMA ErrorsAreSmall ==
  ASSUME NEW a \in Uint16, NEW m, NEW h, NEW v, NEW D, NEW W,
         ErrorsAreBounded(m, h, a, v, D, W)
  PROVE  100 * v > W * (h * a - 1) /\ 100 * v < W * (h * a + 1)
<1> DEFINE M == D * W
           e == 100 * m - h * M
           x == v * D
           y == m * a
<1>1. /\ a \in Nat /\ a <= 65535
      /\ m \in Nat /\ h \in Nat /\ v \in Nat
      /\ D \in Nat /\ 0 < D /\ D <= 65536 /\ W \in Nat /\ 0 < W
  BY Uint16IsBounded DEF ErrorsAreBounded
<1>2. M \in Nat /\ h * M \in Nat /\ x \in Nat /\ y \in Nat /\ e \in Int
  BY <1>1
<1>3. e >= -50 /\ e <= 50 /\ 100 * m = h * M + e
  BY <1>1, <1>2 DEF ErrorsAreBounded
<1>4. 100 * y = M * (h * a) + e * a
  <2>1. 100 * y = (100 * m) * a
    BY <1>1
  <2>2. (h * M + e) * a = M * (h * a) + e * a
    BY <1>1, <1>2
  <2> QED  BY <1>3, <2>1, <2>2
<1>5. e * a <= 50 * 65535 /\ e * a >= -(50 * 65535) /\ e * a \in Int
  <2>1. e * a <= 50 * a /\ e * a >= (-50) * a
    BY <1>1, <1>2, <1>3
  <2> QED  BY <1>1, <1>2, <2>1
<1>6. M >= 8388608 /\ 2 * (x - y) <= D /\ 2 * (y - x) <= D
  BY DEF ErrorsAreBounded, IsNearest
<1> HIDE DEF M, e, x, y
<1>7. M * (h * a) \in Int
  BY <1>1, <1>2
<1>8. 100 * x < M * (h * a) + M /\ 100 * x > M * (h * a) - M
  BY <1>1, <1>2, <1>4, <1>5, <1>6, <1>7
<1>9. /\ 100 * x = D * (100 * v)
      /\ M * (h * a) + M = D * (W * (h * a + 1))
      /\ M * (h * a) - M = D * (W * (h * a - 1))
  BY <1>1 DEF M, x
<1>10. \A s, t \in Int : D * s < D * t => s < t
  BY <1>1
<1>11. W * (h * a + 1) \in Int /\ W * (h * a - 1) \in Int /\ 100 * v \in Int
  BY <1>1
<1> QED  BY <1>8, <1>9, <1>10, <1>11

\* The level of a policy is the documented one, or one more.
LEMMA LevelIsNear ==
  ASSUME PercentagesAreRounded, NEW i \in DOMAIN Policies, NEW a \in Uint16
  PROVE  MinMatchingLevel(Policies[i], a) - DocumentedLevel(Policies[i], a) \in {0, 1}
<1> DEFINE m == Policies[i].mantissa
           h == Policies[i].hundredths
           d == Dropped(m, a)
           v == Rounded(m, a)
           D == 2^d
           W == 2^(Policies[i].shift - d)
<1>1. a \in Nat /\ m \in Nat /\ h \in Nat /\ Policies[i].shift \in Nat
  BY PolicyFields, Uint16IsNatural
<1>2. CASE m = 0
  <2>1. h = 0 /\ h * a = 0
    BY <1>1, <1>2 DEF PercentagesAreRounded
  <2>2. CeilDiv(0, 100) = 0
    BY SMT DEF CeilDiv
  <2> QED  BY <1>2, <2>1, <2>2 DEF MinMatchingLevel, DocumentedLevel
<1>3. CASE m # 0
  <2>1. /\ m < Mantissas /\ Policies[i].shift >= 23
        /\ 100 * m - h * 2^Policies[i].shift \in -50 .. 50
    BY <1>3 DEF PercentagesAreRounded
  <2>2. d \in 0 .. 16 /\ v \in Nat /\ IsNearest(v, D, m * a)
    BY <1>1, <2>1, ProductIsRounded
  <2>3. Policies[i].shift - d \in Nat /\ d \in Nat
    BY <1>1, <2>1, <2>2
  <2>4. 2^Policies[i].shift = D * W
    <3>1. d + (Policies[i].shift - d) = Policies[i].shift
      BY <1>1, <2>3
    <3> QED  BY <2>3, <3>1, PowersMultiply
  <2>5. D \in Nat /\ D > 0 /\ W \in Nat /\ W > 0
    BY <2>3, PowerOfTwo
  <2>6. D <= 65536
    <3>1. 16 - d \in Nat /\ d + (16 - d) = 16
      BY <2>2
    <3>2. 2^16 = D * 2^(16 - d)
      BY <2>3, <3>1, PowersMultiply
    <3>3. 2^(16 - d) \in Nat /\ 2^(16 - d) > 0
      BY <3>1, PowerOfTwo
    <3>4. 2^16 = 65536
      BY SMT
    <3> HIDE DEF D
    <3>5. \A k \in Nat : k > 0 => D <= D * k
      BY <2>5
    <3> QED  BY <3>2, <3>3, <3>4, <3>5
  <2>7. D * W >= 8388608
    <3>1. Policies[i].shift - 23 \in Nat /\ 23 + (Policies[i].shift - 23) = Policies[i].shift
      BY <1>1, <2>1
    <3>2. 2^Policies[i].shift = 2^23 * 2^(Policies[i].shift - 23)
      BY <3>1, PowersMultiply
    <3>3. 2^(Policies[i].shift - 23) \in Nat /\ 2^(Policies[i].shift - 23) > 0
      BY <3>1, PowerOfTwo
    <3>4. 2^23 = 8388608
      BY SMT
    <3>5. \A k \in Nat : k > 0 => 8388608 * k >= 8388608
      OBVIOUS
    <3> QED  BY <2>4, <3>2, <3>3, <3>4, <3>5
  <2>8. 100 * m - h * (D * W) \in -50 .. 50
    BY <2>1, <2>4
  <2>9. ErrorsAreBounded(m, h, a, v, D, W)
    <3> HIDE DEF D, W, v, d, m, h
    <3> QED  BY <1>1, <2>2, <2>5, <2>6, <2>7, <2>8 DEF ErrorsAreBounded
  <2> HIDE DEF D, W, v, d, m, h
  <2>10. 100 * v > W * (h * a - 1) /\ 100 * v < W * (h * a + 1)
    BY <2>9, ErrorsAreSmall
  <2>11. h * a \in Nat
    BY <1>1
  <2>12. CeilDiv(v, W) - CeilDiv(h * a, 100) \in {0, 1}
    BY <2>2, <2>5, <2>10, <2>11, NearbyCeilings
  <2>13. MinMatchingLevel(Policies[i], a) = CeilDiv(v, W)
    BY <1>3, LevelOfParts DEF v, W, d, m
  <2> QED  BY <2>12, <2>13 DEF DocumentedLevel, h
<1> QED  BY <1>2, <1>3

\* RoundingAtMostOne, for every configuration whose percentages are the float32
\* next to what was written: getMinMatchingThresholdsLevel never asks for less
\* than the documented level, and for at most one threshold more.
THEOREM RoundingIsAtMostOne ==
  ASSUME PercentagesAreRounded
  PROVE  ControllerSpec => []RoundingAtMostOne
<1>1. ControllerTypeOK => RoundingAtMostOne
  BY LevelIsNear DEF ControllerTypeOK, RoundingAtMostOne
<1> QED  BY <1>1, ControllerTypeCorrect, PTL

-----------------------------------------------------------------------------
(***************************************************************************)
(* Where the IDs of a batch can be.  Threshold k of a batch is Probe(k).   *)
(* The IDs still queued are the last ones of the batch, in order, because  *)
(* both ends of the channel are first-in first-out.  An ID that a worker   *)
(* took is held by one worker, or is once in the results channel, or was   *)
(* received: never two of these.  So when the manager has received the     *)
(* highest threshold the queue is empty, and when it has gone down to a    *)
(* level, every ID above it was received.                                  *)
(***************************************************************************)

Probe(k) == lastSuccID + k * offset

\* How many thresholds of the batch the workers took.
Taken == sent - Len(idsChan)

Active == {w \in Workers : phase[w] # "idle"}

\* The IDs on their way through the workers and the results channel.
Handed == {resultsChan[i].id : i \in DOMAIN resultsChan}
            \cup {item[w].id : w \in Active}

\* No ID is handed twice.
HandedOnce ==
  /\ \A v, w \in Active : item[v].id = item[w].id => v = w
  /\ \A i, j \in DOMAIN resultsChan :
       resultsChan[i].id = resultsChan[j].id => i = j
  /\ \A w \in Active, i \in DOMAIN resultsChan : item[w].id # resultsChan[i].id

\* Where the IDs of an open batch are.
BatchIDs ==
  /\ Len(idsChan) <= sent
  /\ \A i \in DOMAIN idsChan : idsChan[i] = Probe(Taken + i)
  /\ \A id \in Handed : id < lastSuccID \/ \E k \in 1 .. Taken : id = Probe(k)
  /\ \A id \in DOMAIN results : \E k \in 1 .. Taken : id = Probe(k)
  /\ DOMAIN results \cap Handed = {}

Sending ==
  /\ BatchIDs
  /\ level = thresholdsAmount
  /\ sent < level
  /\ highestThresholdID = Probe(sent)

\* The scan went down from `sent' to `level', past received thresholds only.
Deciding ==
  /\ BatchIDs
  /\ level \in 1 .. sent
  /\ highestThresholdID = Probe(level)
  /\ \A k \in level + 1 .. sent : Probe(k) \in DOMAIN results

Decided ==
  /\ idsChan = <<>>
  /\ \A id \in Handed : id < highestThresholdID

HitReceived ==
  highestThresholdID \in DOMAIN results /\ results[highestThresholdID].success

Inv ==
  /\ TypeOK
  /\ OffsetInRange
  /\ highestThresholdID \in Nat
  /\ HandedOnce
  /\ pc = "send" => Sending
  /\ pc \in {"collect", "scan"} => Deciding
  /\ pc \in {"fill", "update", "start"} => Decided
  /\ pc = "fill" => HitReceived
  /\ pc = "update" => level = 0 \/ HitReceived

-----------------------------------------------------------------------------
(* Arithmetic of the thresholds of a batch                                 *)

LEMMA ProductGrows ==
  ASSUME NEW j \in Nat, NEW k \in Nat, NEW o \in Nat, j < k, o > 0
  PROVE  j * o < k * o
OBVIOUS

LEMMA PoolSize == IdealMaxThresholdsAmount \in Nat /\ IdealMaxThresholdsAmount > 0
BY PoolIsNotEmpty

LEMMA OffsetRange == OffsetInRange /\ offset \in Nat => offset \in Nat \ {0}
BY OffsetIsPositive DEF OffsetInRange

\* The thresholds of a batch are distinct and in ascending order.
LEMMA ProbeFacts ==
  ASSUME TypeOK, OffsetInRange
  PROVE  /\ offset \in Nat /\ offset > 0
         /\ Probe(0) = lastSuccID
         /\ \A k \in Nat : Probe(k) \in Nat /\ Probe(k + 1) = Probe(k) + offset
         /\ \A k \in Nat : k > 0 => Probe(k) > lastSuccID
         /\ \A j, k \in Nat : j < k => Probe(j) < Probe(k)
<1>1. offset \in Nat /\ offset > 0 /\ lastSuccID \in Nat
  BY OffsetRange DEF TypeOK
<1>2. \A k \in Nat : Probe(k) \in Nat /\ Probe(k + 1) = Probe(k) + offset
  BY <1>1 DEF Probe
<1>3. \A j, k \in Nat : j < k => Probe(j) < Probe(k)
  <2> TAKE j, k \in Nat
  <2> HAVE j < k
  <2>1. j * offset < k * offset
    BY <1>1, ProductGrows
  <2>2. j * offset \in Nat /\ k * offset \in Nat
    BY <1>1
  <2> QED  BY <1>1, <2>1, <2>2 DEF Probe
<1>4. Probe(0) = lastSuccID
  BY <1>1 DEF Probe
<1> QED  BY <1>1, <1>2, <1>3, <1>4

\* No drift takes the offset out of its range.
LEMMA NextOffsetRange ==
  ASSUME offset \in Nat, OffsetInRange, NEW drift \in {-1, 0, 1}
  PROVE  /\ NextOffset(drift) \in Nat
         /\ NextOffset(drift) > InitialOffset \div 2
         /\ NextOffset(drift) < 2 * InitialOffset
<1>1. offset + drift \in Nat /\ offset + drift < Uint16Range
  BY OffsetIsPositive DEF OffsetInRange, Uint16Range
<1>2. (offset + drift) % Uint16Range = offset + drift
  BY <1>1, CutToUint16
<1> QED  BY <1>1, <1>2, OffsetIsPositive DEF NextOffset

-----------------------------------------------------------------------------
(* The ways an ID moves                                                    *)

LEMMA HandedAreIDs == TypeOK => Handed \subseteq Nat
<1> SUFFICES ASSUME TypeOK PROVE Handed \subseteq Nat
  OBVIOUS
<1>1. \A i \in DOMAIN resultsChan : resultsChan[i] \in Result
  BY DEF TypeOK
<1>2. \A w \in Active : item[w] \in Result
  BY DEF TypeOK, Active
<1> QED  BY <1>1, <1>2 DEF Handed, Result

\* Receiving a result takes its ID, and no other, out of those handed.
LEMMA ResultReceived ==
  ASSUME TypeOK, HandedOnce, resultsChan # <<>>,
         resultsChan' = Tail(resultsChan), UNCHANGED workerVars
  PROVE  /\ HandedOnce'
         /\ Head(resultsChan) \in Result
         /\ Head(resultsChan).id \in Handed
         /\ Handed' = Handed \ {Head(resultsChan).id}
<1>1. resultsChan \in Seq(Result)
  BY DEF TypeOK
<1>2. /\ Len(resultsChan) \in Nat \ {0}
      /\ DOMAIN resultsChan = 1 .. Len(resultsChan)
      /\ DOMAIN resultsChan' = 1 .. Len(resultsChan) - 1
      /\ \A i \in DOMAIN resultsChan' : resultsChan'[i] = resultsChan[i + 1]
      /\ Head(resultsChan) = resultsChan[1]
      /\ Head(resultsChan) \in Result
  BY <1>1
<1>3. phase' = phase /\ item' = item /\ Active' = Active
  BY DEF workerVars, Active
<1>4. HandedOnce'
  <2>1. \A i, j \in DOMAIN resultsChan' :
          resultsChan'[i].id = resultsChan'[j].id => i = j
    <3> TAKE i, j \in DOMAIN resultsChan'
    <3>1. i + 1 \in DOMAIN resultsChan /\ j + 1 \in DOMAIN resultsChan
      BY <1>2
    <3>2. resultsChan[i + 1].id = resultsChan[j + 1].id => i + 1 = j + 1
      BY <3>1 DEF HandedOnce
    <3> QED  BY <1>2, <3>2
  <2>2. \A w \in Active, i \in DOMAIN resultsChan' : item[w].id # resultsChan'[i].id
    <3> TAKE w \in Active, i \in DOMAIN resultsChan'
    <3>1. i + 1 \in DOMAIN resultsChan /\ resultsChan'[i] = resultsChan[i + 1]
      BY <1>2
    <3> QED  BY <3>1 DEF HandedOnce
  <2> QED  BY <1>3, <2>1, <2>2 DEF HandedOnce
<1>5. Handed' \subseteq Handed \ {Head(resultsChan).id}
  <2>1. ASSUME NEW i \in DOMAIN resultsChan'
        PROVE  resultsChan'[i].id \in Handed \ {Head(resultsChan).id}
    <3>1. i + 1 \in DOMAIN resultsChan /\ 1 \in DOMAIN resultsChan /\ i + 1 # 1
      BY <1>2
    <3>2. resultsChan'[i] = resultsChan[i + 1]
      BY <1>2
    <3>3. resultsChan[i + 1].id # resultsChan[1].id
      BY <3>1 DEF HandedOnce
    <3>4. resultsChan[i + 1].id \in Handed
      BY <3>1 DEF Handed
    <3> QED  BY <1>2, <3>2, <3>3, <3>4
  <2>2. ASSUME NEW w \in Active
        PROVE  item[w].id \in Handed \ {Head(resultsChan).id}
    <3>1. 1 \in DOMAIN resultsChan
      BY <1>2
    <3>2. item[w].id # resultsChan[1].id
      BY <3>1 DEF HandedOnce
    <3> QED  BY <1>2, <3>2 DEF Handed
  <2> QED  BY <1>3, <2>1, <2>2 DEF Handed
<1>6. Handed \ {Head(resultsChan).id} \subseteq Handed'
  <2>1. ASSUME NEW i \in DOMAIN resultsChan, resultsChan[i].id # resultsChan[1].id
        PROVE  resultsChan[i].id \in Handed'
    <3>1. i # 1
      BY <2>1
    <3>2. i - 1 \in DOMAIN resultsChan' /\ resultsChan'[i - 1] = resultsChan[i]
      BY <1>2, <3>1
    <3> QED  BY <3>2 DEF Handed
  <2>2. ASSUME NEW w \in Active
        PROVE  item[w].id \in Handed'
    BY <1>3 DEF Handed
  <2> QED  BY <1>2, <2>1, <2>2 DEF Handed
<1>7. Head(resultsChan).id \in Handed
  BY <1>2 DEF Handed
<1> QED  BY <1>2, <1>4, <1>5, <1>6, <1>7

\* A worker that takes an ID nobody was handed adds just that ID.
LEMMA IDTaken ==
  ASSUME TypeOK, HandedOnce, NEW w \in Workers, TakeID(w),
         Head(idsChan) \notin Handed
  PROVE  /\ HandedOnce'
         /\ Handed' = Handed \cup {Head(idsChan)}
<1>1. /\ Active' = Active \cup {w}
      /\ w \notin Active
      /\ resultsChan' = resultsChan
  BY DEF TakeID, Active, TypeOK
<1>2. /\ item'[w].id = Head(idsChan)
      /\ \A v \in Active : item'[v] = item[v]
  BY <1>1 DEF TakeID, Active, TypeOK, NoResult, Result
<1>3. HandedOnce'
  BY <1>1, <1>2 DEF HandedOnce, Handed
<1>4. Handed' = Handed \cup {Head(idsChan)}
  BY <1>1, <1>2 DEF Handed
<1> QED  BY <1>3, <1>4

\* A fetch leaves the ID where it is.
LEMMA IDFetched ==
  ASSUME TypeOK, HandedOnce, NEW w \in Workers, FetchFails(w) \/ FetchSucceeds(w)
  PROVE  HandedOnce' /\ Handed' = Handed
<1>1. Active' = Active /\ resultsChan' = resultsChan
  BY DEF FetchFails, FetchSucceeds, Active, TypeOK
<1>2. \A v \in Workers : item'[v].id = item[v].id
  <2>1. CASE FetchFails(w)
    BY <2>1 DEF FetchFails
  <2>2. CASE FetchSucceeds(w)
    <3>1. PICK delay \in Timestamps :
            item' = [item EXCEPT ![w] = [id |-> item[w].id, success |-> TRUE,
                                         timestamp |-> delay]]
      BY <2>2 DEF FetchSucceeds
    <3> QED  BY <3>1 DEF TypeOK
  <2> QED  BY <2>1, <2>2
<1>3. Active \subseteq Workers
  BY DEF Active
<1>4. HandedOnce'
  BY <1>1, <1>2, <1>3 DEF HandedOnce
<1>5. Handed' = Handed
  BY <1>1, <1>2, <1>3 DEF Handed
<1> QED  BY <1>4, <1>5

\* Sending its result passes the ID from the worker to the channel.
LEMMA IDSent ==
  ASSUME TypeOK, HandedOnce, NEW w \in Workers, SendResult(w)
  PROVE  HandedOnce' /\ Handed' = Handed
<1>1. /\ w \in Active
      /\ Active' = Active \ {w}
      /\ \A v \in Active \ {w} : item'[v] = item[v]
  BY DEF SendResult, Active, TypeOK
<1>2. /\ resultsChan \in Seq(Result)
      /\ item[w] \in Result
      /\ resultsChan' = Append(resultsChan, item[w])
  BY DEF SendResult, TypeOK
<1>3. /\ Len(resultsChan) \in Nat
      /\ DOMAIN resultsChan = 1 .. Len(resultsChan)
      /\ DOMAIN resultsChan' = 1 .. Len(resultsChan) + 1
      /\ \A i \in DOMAIN resultsChan : resultsChan'[i] = resultsChan[i]
      /\ resultsChan'[Len(resultsChan) + 1] = item[w]
  BY <1>2
<1>4. HandedOnce'
  <2>1. \A i \in DOMAIN resultsChan' :
          \/ i \in DOMAIN resultsChan /\ resultsChan'[i] = resultsChan[i]
          \/ i = Len(resultsChan) + 1 /\ resultsChan'[i] = item[w]
    BY <1>3
  <2> QED  BY <1>1, <2>1 DEF HandedOnce
<1>5. Handed' = Handed
  <2>1. Handed' \subseteq Handed
    <3>1. \A i \in DOMAIN resultsChan' :
            \/ i \in DOMAIN resultsChan /\ resultsChan'[i] = resultsChan[i]
            \/ resultsChan'[i] = item[w]
      BY <1>3
    <3> QED  BY <1>1, <3>1 DEF Handed
  <2>2. Handed \subseteq Handed'
    <3>1. DOMAIN resultsChan \subseteq DOMAIN resultsChan'
      BY <1>3
    <3>2. item[w].id \in Handed'
      BY <1>3 DEF Handed
    <3> QED  BY <1>1, <1>3, <3>1, <3>2 DEF Handed
  <2> QED  BY <2>1, <2>2
<1> QED  BY <1>4, <1>5

\* While no thresholds are sent or received the batch keeps its shape.
LEMMA BatchIDsUnchanged ==
  ASSUME BatchIDs, Handed' = Handed,
         UNCHANGED <<lastSuccID, offset, sent, idsChan, results>>
  PROVE  BatchIDs'
BY DEF BatchIDs, Taken, Probe

\* The IDs still queued come after those that were taken, so the highest
\* threshold is only received when the queue is empty.
LEMMA QueueDrained ==
  ASSUME TypeOK, OffsetInRange, Deciding, highestThresholdID \in DOMAIN results
  PROVE  idsChan = <<>> /\ Taken = sent
<1>1. /\ sent \in Nat /\ level \in Nat
      /\ Len(idsChan) \in Nat /\ Len(idsChan) <= sent
  BY DEF TypeOK, Deciding, BatchIDs
<1>2. Probe(sent) \in DOMAIN results
  <2>1. CASE level = sent
    BY <2>1 DEF Deciding
  <2>2. CASE level < sent
    BY <1>1, <2>2 DEF Deciding
  <2> QED  BY <1>1, <2>1, <2>2 DEF Deciding
<1>3. PICK k \in 1 .. Taken : Probe(sent) = Probe(k)
  BY <1>2 DEF Deciding, BatchIDs
<1>4. k \in Nat /\ k <= Taken /\ Taken = sent - Len(idsChan)
  BY <1>1, <1>3 DEF Taken
<1>5. ~ (k < sent)
  BY <1>1, <1>3, <1>4, ProbeFacts
<1>6. Len(idsChan) = 0
  BY <1>1, <1>4, <1>5
<1> QED  BY <1>1, <1>4, <1>5, <1>6 DEF TypeOK

-----------------------------------------------------------------------------
(* Every step keeps the invariant                                          *)

LEMMA InitInv == Init => Inv
<1> SUFFICES ASSUME Init PROVE Inv
  OBVIOUS
<1>1. ControllerTypeOK
  BY InitControllerTypeOK DEF Init
<1>2. Active = {} /\ resultsChan = <<>>
  BY DEF Init, Active
<1>3. NoResult \in Result
  BY TimestampsAreDelays DEF NoResult, Result
<1>4. TypeOK
  BY <1>1, <1>3, StartIsAnID, PoolIsNotEmpty, OffsetIsPositive
  DEF Init, TypeOK, Uint16, Uint16Range
<1>5. OffsetInRange
  BY OffsetIsPositive DEF Init, OffsetInRange
<1>6. HandedOnce /\ Handed = {}
  BY <1>2 DEF HandedOnce, Handed
<1> QED  BY <1>4, <1>5, <1>6, StartIsAnID DEF Init, Inv, Decided

LEMMA StartBatchInv ==
  ASSUME Inv, StartBatch
  PROVE  Inv'
<1>1. TypeOK /\ OffsetInRange /\ HandedOnce /\ Decided
  BY DEF Inv, StartBatch
<1>2. PICK drift \in {-1, 0, 1} : offset' = NextOffset(drift)
  BY DEF StartBatch
<1>3. offset' \in Nat /\ OffsetInRange'
  BY <1>1, <1>2, NextOffsetRange DEF OffsetInRange, TypeOK
<1>4. thresholdsAmount \in Nat
  BY <1>1, Uint16IsNatural DEF TypeOK, ControllerTypeOK
<1>5. ControllerTypeOK'
  BY <1>1 DEF StartBatch, controllerVars, TypeOK, ControllerTypeOK
<1>6. TypeOK'
  BY <1>1, <1>3, <1>4, <1>5
  DEF Inv, StartBatch, TypeOK, workerVars, outputVars
<1>7. HandedOnce' /\ Handed' = Handed
  BY <1>1 DEF StartBatch, HandedOnce, Handed, Active, workerVars
<1>8. ASSUME pc' = "send"
      PROVE  Sending'
  <2>1. thresholdsAmount > 0
    BY <1>4, <1>8 DEF StartBatch
  <2>2. Probe(sent)' = lastSuccID'
    <3>1. lastSuccID' \in Nat
      BY <1>6 DEF TypeOK
    <3>2. Probe(sent)' = lastSuccID' + sent' * offset'
      BY DEF Probe
    <3> QED  BY <1>3, <3>1, <3>2 DEF StartBatch
  <2>3. idsChan' = <<>> /\ sent' = 0 /\ results' = <<>>
    BY <1>1 DEF StartBatch, Decided
  <2>4. \A id \in Handed' : id < lastSuccID'
    BY <1>1, <1>7 DEF StartBatch, Decided
  <2>5. BatchIDs'
    BY <2>3, <2>4 DEF BatchIDs, Taken
  <2> QED  BY <2>1, <2>2, <2>3, <2>5 DEF StartBatch, Sending, controllerVars
<1>9. ASSUME pc' = "update"
      PROVE  Decided' /\ level' = 0
  BY <1>1, <1>7, <1>9 DEF StartBatch, Decided
<1> QED  BY <1>3, <1>6, <1>7, <1>8, <1>9 DEF Inv, StartBatch

LEMMA SendThresholdInv ==
  ASSUME Inv, SendThreshold
  PROVE  Inv'
<1>1. TypeOK /\ OffsetInRange /\ HandedOnce /\ Sending
  BY DEF Inv, SendThreshold
<1>2. /\ sent \in Nat /\ level \in Nat
      /\ idsChan \in Seq(Nat) /\ Len(idsChan) \in Nat /\ Len(idsChan) <= sent
      /\ Len(idsChan) < IdealMaxThresholdsAmount
  BY <1>1 DEF TypeOK, Sending, BatchIDs, SendThreshold
<1>3. highestThresholdID' = Probe(sent + 1) /\ highestThresholdID' \in Nat
  BY <1>1, <1>2, ProbeFacts DEF SendThreshold, Sending
<1>4. /\ idsChan' = Append(idsChan, Probe(sent + 1))
      /\ Probe(sent + 1) \in Nat
  BY <1>1, <1>3 DEF SendThreshold
<1>5. OffsetInRange' /\ ControllerTypeOK'
  BY <1>1 DEF SendThreshold, OffsetInRange, TypeOK, ControllerTypeOK, controllerVars
<1>6. TypeOK'
  <2>1. idsChan' \in Seq(Nat) /\ Len(idsChan') <= IdealMaxThresholdsAmount
    BY <1>2, <1>4, PoolSize
  <2>2. highestThresholdID' \in Int /\ sent' \in Nat
    BY <1>2, <1>3 DEF SendThreshold
  <2> QED  BY <1>1, <1>5, <2>1, <2>2
    DEF SendThreshold, TypeOK, workerVars, outputVars
<1>7. HandedOnce' /\ Handed' = Handed
  BY <1>1 DEF SendThreshold, HandedOnce, Handed, Active, workerVars
<1>8. Taken' = Taken /\ Taken \in Nat /\ Len(idsChan') = Len(idsChan) + 1
  BY <1>2, <1>4 DEF Taken, SendThreshold
<1>9. \A k : Probe(k)' = Probe(k)
  BY DEF Probe, SendThreshold
<1>10. BatchIDs'
  <2>1. Len(idsChan') <= sent'
    BY <1>2, <1>8 DEF SendThreshold
  <2>2. ASSUME NEW i \in DOMAIN idsChan'
        PROVE  idsChan'[i] = Probe(Taken + i)
    <3>1. CASE i = Len(idsChan) + 1
      <4>1. Taken + i = sent + 1
        BY <1>2, <3>1 DEF Taken
      <4> QED  BY <1>2, <1>4, <3>1, <4>1
    <3>2. CASE i # Len(idsChan) + 1
      <4>1. i \in DOMAIN idsChan /\ idsChan'[i] = idsChan[i]
        BY <1>2, <1>4, <3>2
      <4> QED  BY <1>1, <4>1 DEF Sending, BatchIDs
    <3> QED  BY <3>1, <3>2
  <2> QED  BY <1>1, <1>7, <1>8, <1>9, <2>1, <2>2
    DEF Sending, BatchIDs, SendThreshold
<1>11. ASSUME pc' = "send"
       PROVE  Sending'
  <2>1. sent' < level'
    BY <1>1, <1>2, <1>11 DEF SendThreshold, Sending
  <2> QED  BY <1>1, <1>3, <1>9, <1>10, <2>1
    DEF Sending, SendThreshold, controllerVars
<1>12. ASSUME pc' = "collect"
       PROVE  Deciding'
  <2>1. sent' = sent + 1 /\ level' = sent + 1
    BY <1>1, <1>2, <1>12 DEF SendThreshold
  <2> QED  BY <1>2, <1>3, <1>9, <1>10, <2>1 DEF Deciding
<1> QED  BY <1>3, <1>5, <1>6, <1>7, <1>11, <1>12 DEF Inv, SendThreshold

LEMMA DiscardResultInv ==
  ASSUME Inv, DiscardResult
  PROVE  Inv'
<1>1. TypeOK /\ OffsetInRange /\ HandedOnce /\ Deciding
  BY DEF Inv, DiscardResult
<1>2. /\ resultsChan # <<>> /\ resultsChan' = Tail(resultsChan)
      /\ UNCHANGED <<controllerVars, managerVars, idsChan, workerVars, outputVars>>
  BY DEF DiscardResult
<1>3. HandedOnce' /\ Handed' \subseteq Handed
  BY <1>1, <1>2, ResultReceived
<1>4. resultsChan' \in Seq(Result) /\ Len(resultsChan') <= IdealMaxThresholdsAmount
  <2>1. /\ resultsChan \in Seq(Result)
        /\ Len(resultsChan) <= IdealMaxThresholdsAmount
    BY <1>1 DEF TypeOK
  <2> QED  BY <1>2, <2>1, PoolSize
<1>5. ControllerTypeOK' /\ OffsetInRange'
  BY <1>1, <1>2 DEF TypeOK, ControllerTypeOK, OffsetInRange, controllerVars, managerVars
<1>6. TypeOK'
  BY <1>1, <1>2, <1>4, <1>5 DEF TypeOK, managerVars, workerVars, outputVars
<1>7. BatchIDs'
  BY <1>1, <1>2, <1>3 DEF Deciding, BatchIDs, Taken, Probe, managerVars
<1>8. Deciding'
  BY <1>1, <1>2, <1>7 DEF Deciding, Probe, managerVars
<1> QED  BY <1>2, <1>3, <1>5, <1>6, <1>8 DEF Inv, DiscardResult, managerVars

LEMMA AcceptResultInv ==
  ASSUME Inv, AcceptResult
  PROVE  Inv'
<1> DEFINE result == Head(resultsChan)
<1>1. TypeOK /\ OffsetInRange /\ HandedOnce /\ Deciding
  BY DEF Inv, AcceptResult
<1>2. /\ resultsChan # <<>> /\ resultsChan' = Tail(resultsChan)
      /\ UNCHANGED <<controllerVars, batchID, offset, highestThresholdID,
                     lastSuccID, level, sent, gaps, idsChan, workerVars,
                     subordinateItems, stateHighestID>>
      /\ pc' = "scan"
  BY DEF AcceptResult
<1>3. /\ HandedOnce' /\ result \in Result
      /\ result.id \in Handed /\ Handed' = Handed \ {result.id}
  BY <1>1, <1>2, ResultReceived
<1>4. /\ result.id >= lastSuccID
      /\ DOMAIN results' = DOMAIN results \cup {result.id}
      /\ \A id \in DOMAIN results' :
           results'[id] = IF id = result.id THEN result ELSE results[id]
  <2>1. result.id \in Nat /\ lastSuccID \in Nat
    BY <1>1, <1>3 DEF Result, TypeOK
  <2> QED  BY <2>1 DEF AcceptResult, IsStale
<1>5. resultsChan' \in Seq(Result) /\ Len(resultsChan') <= IdealMaxThresholdsAmount
  <2>1. /\ resultsChan \in Seq(Result)
        /\ Len(resultsChan) <= IdealMaxThresholdsAmount
    BY <1>1 DEF TypeOK
  <2> QED  BY <1>2, <2>1, PoolSize
<1>6. ControllerTypeOK' /\ OffsetInRange'
  BY <1>1, <1>2 DEF TypeOK, ControllerTypeOK, OffsetInRange, controllerVars
<1>7. TypeOK'
  <2>1. successfulItems' \in Seq(Nat)
    <3>1. result.id \in Nat /\ successfulItems \in Seq(Nat)
      BY <1>1, <1>3 DEF TypeOK, Result
    <3> QED  BY <3>1 DEF AcceptResult
  <2>2. DOMAIN results' \subseteq Nat
    BY <1>1, <1>3, <1>4 DEF TypeOK, Result
  <2>3. \A id \in DOMAIN results' : results'[id] \in Result /\ results'[id].id = id
    BY <1>1, <1>3, <1>4 DEF TypeOK
  <2> QED  BY <1>1, <1>2, <1>5, <1>6, <2>1, <2>2, <2>3 DEF TypeOK, workerVars
<1>8. BatchIDs'
  <2>1. /\ Taken' = Taken
        /\ \A k : Probe(k)' = Probe(k)
    BY <1>2 DEF Taken, Probe
  <2>2. \E k \in 1 .. Taken : result.id = Probe(k)
    <3>1. result.id \in Nat /\ lastSuccID \in Nat
      BY <1>1, <1>3 DEF Result, TypeOK
    <3> QED  BY <1>1, <1>3, <1>4, <3>1 DEF Deciding, BatchIDs
  <2>3. DOMAIN results' \cap Handed' = {}
    BY <1>1, <1>3, <1>4 DEF Deciding, BatchIDs
  <2>4. \A id \in DOMAIN results' : \E k \in 1 .. Taken : id = Probe(k)
    BY <1>1, <1>4, <2>2 DEF Deciding, BatchIDs
  <2> QED  BY <1>1, <1>2, <1>3, <2>1, <2>3, <2>4 DEF Deciding, BatchIDs
<1>9. Deciding'
  <2>1. \A k : Probe(k)' = Probe(k)
    BY <1>2 DEF Probe
  <2> QED  BY <1>1, <1>2, <1>4, <1>8, <2>1 DEF Deciding
<1>10. highestThresholdID' \in Nat
  BY <1>2 DEF Inv
<1> QED  BY <1>2, <1>3, <1>6, <1>7, <1>9, <1>10 DEF Inv

LEMMA ScanPendingInv ==
  ASSUME Inv, ScanPending
  PROVE  Inv'
<1>1. TypeOK /\ OffsetInRange /\ HandedOnce /\ Deciding
  BY DEF Inv, ScanPending
<1>2. ControllerTypeOK' /\ OffsetInRange'
  BY <1>1 DEF ScanPending, TypeOK, ControllerTypeOK, OffsetInRange, controllerVars
<1>3. TypeOK'
  BY <1>1, <1>2 DEF ScanPending, TypeOK, workerVars, outputVars
<1>4. HandedOnce' /\ Handed' = Handed
  BY <1>1 DEF ScanPending, HandedOnce, Handed, Active, workerVars
<1>5. BatchIDs'
  BY <1>1, <1>4, BatchIDsUnchanged DEF ScanPending, Deciding
<1>6. Deciding'
  BY <1>1, <1>5 DEF ScanPending, Deciding, Probe
<1> QED  BY <1>2, <1>3, <1>4, <1>6 DEF Inv, ScanPending

LEMMA ScanFailedInv ==
  ASSUME Inv, ScanFailed
  PROVE  Inv'
<1>1. TypeOK /\ OffsetInRange /\ HandedOnce /\ Deciding
  BY DEF Inv, ScanFailed
<1>2. level \in Nat /\ sent \in Nat /\ level >= 1 /\ level <= sent
  BY <1>1 DEF TypeOK, Deciding
<1>3. /\ highestThresholdID' = Probe(level - 1)
      /\ highestThresholdID' \in Nat
  <2>1. level - 1 \in Nat /\ (level - 1) + 1 = level
    BY <1>2
  <2>2. Probe(level) = Probe(level - 1) + offset /\ Probe(level - 1) \in Nat
    BY <1>1, <2>1, ProbeFacts
  <2> QED  BY SMTT(30), <1>1, <2>2 DEF ScanFailed, LoweredID, Deciding, TypeOK
<1>4. ControllerTypeOK' /\ OffsetInRange'
  BY <1>1 DEF ScanFailed, TypeOK, ControllerTypeOK, OffsetInRange, controllerVars
<1>5. TypeOK'
  <2>1. level' \in Nat /\ highestThresholdID' \in Int
    BY <1>2, <1>3 DEF ScanFailed
  <2> QED  BY <1>1, <1>4, <2>1 DEF ScanFailed, TypeOK, workerVars, outputVars
<1>6. HandedOnce' /\ Handed' = Handed
  BY <1>1 DEF ScanFailed, HandedOnce, Handed, Active, workerVars
<1>7. BatchIDs'
  BY <1>1, <1>6, BatchIDsUnchanged DEF ScanFailed, Deciding
<1>8. \A k : Probe(k)' = Probe(k)
  BY DEF Probe, ScanFailed
<1>9. ASSUME pc' = "scan"
      PROVE  Deciding'
  <2>1. level' = level - 1 /\ level' \in 1 .. sent /\ sent' = sent
    BY <1>2, <1>9 DEF ScanFailed
  <2>2. \A k \in level .. sent : Probe(k) \in DOMAIN results
    BY <1>1, <1>2 DEF Deciding, ScanFailed, TopFailed
  <2>3. level' + 1 = level /\ results' = results
    BY <1>2, <2>1 DEF ScanFailed
  <2> QED  BY <1>3, <1>7, <1>8, <2>1, <2>2, <2>3 DEF Deciding
<1>10. ASSUME pc' = "update"
       PROVE  Decided' /\ level' = 0
  <2>1. level = 1
    BY <1>10 DEF ScanFailed
  <2>2. idsChan' = <<>> /\ Taken = sent
    BY <1>1, QueueDrained DEF ScanFailed, TopFailed
  <2>3. highestThresholdID' = lastSuccID
    BY <1>1, <1>3, <2>1, ProbeFacts
  <2>4. ASSUME NEW id \in Handed
        PROVE  id < lastSuccID
    <3>1. SUFFICES ASSUME NEW k \in 1 .. Taken, id = Probe(k)
                   PROVE  FALSE
      BY <1>1 DEF Deciding, BatchIDs
    <3>2. Probe(k) \in DOMAIN results
      <4>1. k = level \/ k \in level + 1 .. sent
        BY <1>2, <2>1, <2>2
      <4> QED  BY <1>1, <4>1 DEF Deciding, ScanFailed, TopFailed
    <3> QED  BY <1>1, <3>1, <3>2 DEF Deciding, BatchIDs
  <2> QED  BY <1>6, <2>1, <2>2, <2>3, <2>4 DEF Decided, ScanFailed
<1> QED  BY <1>3, <1>4, <1>5, <1>6, <1>9, <1>10 DEF Inv, ScanFailed

LEMMA ScanHitInv ==
  ASSUME Inv, ScanHit
  PROVE  Inv'
<1>1. TypeOK /\ OffsetInRange /\ HandedOnce /\ Deciding /\ HitReceived
  BY DEF Inv, ScanHit, HitReceived
<1>2. level \in Nat /\ sent \in Nat /\ level >= 1 /\ level <= sent
  BY <1>1 DEF TypeOK, Deciding
<1>3. idsChan = <<>> /\ Taken = sent
  BY <1>1, QueueDrained DEF HitReceived
<1>4. ControllerTypeOK' /\ OffsetInRange'
  BY <1>1 DEF ScanHit, TypeOK, ControllerTypeOK, OffsetInRange, controllerVars
<1>5. gaps' \subseteq Nat
  BY <1>1 DEF ScanHit, GapIDs, TypeOK
<1>6. TypeOK'
  BY <1>1, <1>4, <1>5 DEF ScanHit, TypeOK, workerVars, outputVars
<1>7. HandedOnce' /\ Handed' = Handed
  BY <1>1 DEF ScanHit, HandedOnce, Handed, Active, workerVars
<1>8. ASSUME NEW id \in Handed
      PROVE  id < highestThresholdID
  <2>1. CASE id < lastSuccID
    <3>1. highestThresholdID > lastSuccID
      BY <1>1, <1>2, ProbeFacts DEF Deciding
    <3>2. id \in Int /\ lastSuccID \in Int /\ highestThresholdID \in Int
      BY <1>1, HandedAreIDs DEF TypeOK
    <3> QED  BY <2>1, <3>1, <3>2
  <2>2. CASE \E k \in 1 .. Taken : id = Probe(k)
    <3>1. PICK k \in 1 .. Taken : id = Probe(k)
      BY <2>2
    <3>2. Probe(k) \notin DOMAIN results
      BY <1>1, <3>1 DEF Deciding, BatchIDs
    <3>3. k \in Nat /\ k < level
      BY <1>1, <1>2, <1>3, <3>1, <3>2 DEF Deciding, HitReceived
    <3> QED  BY <1>1, <1>2, <3>1, <3>3, ProbeFacts DEF Deciding
  <2> QED  BY <1>1, <2>1, <2>2 DEF Deciding, BatchIDs
<1>9. Decided' /\ HitReceived'
  BY <1>1, <1>3, <1>7, <1>8 DEF Decided, HitReceived, ScanHit
<1> QED  BY <1>1, <1>4, <1>6, <1>7, <1>9 DEF Inv, ScanHit, TypeOK

LEMMA FillGapInv ==
  ASSUME Inv, FillGap
  PROVE  Inv'
<1>1. TypeOK /\ OffsetInRange /\ HandedOnce /\ Decided /\ HitReceived
  BY DEF Inv, FillGap
<1>2. ControllerTypeOK' /\ OffsetInRange'
  BY <1>1 DEF FillGap, TypeOK, ControllerTypeOK, OffsetInRange, controllerVars
<1>3. LeastOf(gaps) \in gaps /\ gaps \in SUBSET Nat
  BY <1>1, LeastOfNaturals DEF FillGap, TypeOK
<1>4. TypeOK'
  <2>1. subordinateItems' \in Seq(Nat) /\ gaps' \subseteq Nat
    <3>1. LeastOf(gaps) \in Nat /\ subordinateItems \in Seq(Nat)
      BY <1>1, <1>3 DEF TypeOK
    <3>2. /\ subordinateItems' = Append(subordinateItems, LeastOf(gaps))
          /\ gaps' = gaps \ {LeastOf(gaps)}
      BY DEF FillGap
    <3>3. subordinateItems' \in Seq(Nat)
      BY <3>1, <3>2
    <3> QED  BY <1>3, <3>2, <3>3
  <2> QED  BY <1>1, <1>2, <2>1 DEF FillGap, TypeOK, workerVars
<1>5. HandedOnce' /\ Handed' = Handed
  BY <1>1 DEF FillGap, HandedOnce, Handed, Active, workerVars
<1>6. Decided' /\ HitReceived'
  BY <1>1, <1>5 DEF Decided, HitReceived, FillGap
<1> QED  BY <1>2, <1>4, <1>5, <1>6 DEF Inv, FillGap

LEMMA FinishBatchInv ==
  ASSUME Inv, FinishBatch
  PROVE  Inv'
<1> DEFINE delay == IF level = 0 THEN 0 ELSE results[highestThresholdID].timestamp
<1>1. TypeOK /\ OffsetInRange /\ HandedOnce /\ Decided
  BY DEF Inv, FinishBatch
<1>2. delay \in Timestamps
  BY <1>1, TimestampsAreDelays DEF Inv, FinishBatch, HitReceived, TypeOK, Result
<1>3. ControllerTypeOK'
  BY <1>1, <1>2, UpdateControllerTypeOK DEF TypeOK, FinishBatch
<1>4. OffsetInRange'
  BY <1>1 DEF FinishBatch, OffsetInRange
<1>5. batchID' \in Uint16
  <2>1. batchID + 1 \in Nat
    BY <1>1, Uint16IsNatural DEF TypeOK
  <2> QED  BY <2>1, CutToUint16 DEF FinishBatch
<1>6. TypeOK'
  BY <1>1, <1>3, <1>5 DEF Inv, FinishBatch, TypeOK, workerVars
<1>7. HandedOnce' /\ Handed' = Handed
  BY <1>1 DEF FinishBatch, HandedOnce, Handed, Active, workerVars
<1>8. Decided'
  BY <1>1, <1>7 DEF FinishBatch, Decided
<1> QED  BY <1>4, <1>6, <1>7, <1>8 DEF Inv, FinishBatch

LEMMA TakeIDInv ==
  ASSUME Inv, NEW w \in Workers, TakeID(w)
  PROVE  Inv'
<1>1. /\ TypeOK /\ OffsetInRange /\ HandedOnce /\ BatchIDs
      /\ UNCHANGED <<controllerVars, managerVars, resultsChan, outputVars>>
  BY DEF Inv, TakeID, Decided, Sending, Deciding, TypeOK
<1>2. /\ idsChan \in Seq(Nat) /\ Len(idsChan) \in Nat /\ Len(idsChan) >= 1
      /\ idsChan' = Tail(idsChan) /\ Len(idsChan') = Len(idsChan) - 1
      /\ idsChan' \in Seq(Nat)
      /\ \A i \in DOMAIN idsChan' : idsChan'[i] = idsChan[i + 1]
      /\ Head(idsChan) = idsChan[1] /\ Head(idsChan) \in Nat
  BY SMTT(30), <1>1 DEF TakeID, TypeOK
<1>3. sent \in Nat /\ Len(idsChan) <= sent
  BY <1>1 DEF TypeOK, BatchIDs
<1>4. /\ Taken \in Nat /\ Taken' = Taken + 1
      /\ \A k : Probe(k)' = Probe(k)
  BY <1>1, <1>2, <1>3 DEF Taken, Probe, managerVars
<1>5. Head(idsChan) = Probe(Taken + 1)
  BY <1>1, <1>2 DEF BatchIDs
<1>6. \A k \in 1 .. Taken : Probe(k) < Probe(Taken + 1)
  BY <1>1, <1>4, ProbeFacts
<1>7. Head(idsChan) \notin Handed /\ Head(idsChan) \notin DOMAIN results
  <2>1. Probe(Taken + 1) > lastSuccID /\ Probe(Taken + 1) \in Nat
    BY SMTT(30), <1>1, <1>4, ProbeFacts
  <2>2. lastSuccID \in Nat /\ \A k \in 1 .. Taken : Probe(k) \in Nat
    <3>1. \A k \in 1 .. Taken : k \in Nat
      BY <1>4
    <3>2. lastSuccID \in Nat
      BY <1>1 DEF TypeOK
    <3> QED  BY <1>1, <3>1, <3>2, ProbeFacts
  <2> QED  BY <1>1, <1>5, <1>6, <2>1, <2>2 DEF BatchIDs
<1>8. HandedOnce' /\ Handed' = Handed \cup {Head(idsChan)}
  BY <1>1, <1>7, IDTaken
<1>9. ControllerTypeOK' /\ OffsetInRange'
  BY <1>1 DEF TypeOK, ControllerTypeOK, OffsetInRange, controllerVars, managerVars
<1>10. TypeOK'
  <2>1. /\ phase' \in [Workers -> {"idle", "fetching", "sending"}]
        /\ item' \in [Workers -> Result]
    BY <1>1, <1>2, TimestampsAreDelays DEF TakeID, TypeOK, NoResult, Result
  <2>2. Len(idsChan') <= IdealMaxThresholdsAmount
    <3>1. Len(idsChan) <= IdealMaxThresholdsAmount
      BY <1>1 DEF TypeOK
    <3> QED  BY <1>2, <3>1, PoolSize
  <2> QED  BY <1>1, <1>2, <1>9, <2>1, <2>2 DEF TypeOK, managerVars, outputVars
<1>11. BatchIDs'
  <2>1. \A i \in DOMAIN idsChan' : idsChan'[i] = Probe(Taken + 1 + i)
    <3> TAKE i \in DOMAIN idsChan'
    <3>1. i \in Nat /\ i + 1 \in DOMAIN idsChan
      BY <1>2
    <3>2. idsChan[i + 1] = Probe(Taken + (i + 1))
      BY <1>1, <3>1 DEF BatchIDs
    <3>3. Taken + (i + 1) = Taken + 1 + i
      BY <1>4, <3>1
    <3> QED  BY <1>2, <3>2, <3>3
  <2>2. 1 .. Taken \subseteq 1 .. Taken + 1 /\ Taken + 1 \in 1 .. Taken + 1
    BY <1>4
  <2>3. \A id \in Handed' : id < lastSuccID \/ \E k \in 1 .. Taken + 1 : id = Probe(k)
    BY <1>1, <1>5, <1>8, <2>2 DEF BatchIDs
  <2>4. \A id \in DOMAIN results : \E k \in 1 .. Taken + 1 : id = Probe(k)
    BY <1>1, <2>2 DEF BatchIDs
  <2>5. DOMAIN results \cap Handed' = {}
    BY <1>1, <1>7, <1>8 DEF BatchIDs
  <2>6. Len(idsChan') <= sent'
    BY <1>1, <1>2, <1>3 DEF managerVars
  <2> QED  BY <1>1, <1>4, <2>1, <2>3, <2>4, <2>5, <2>6 DEF BatchIDs, managerVars
<1>12. pc \in {"send", "collect", "scan"}
  BY DEF Inv, TakeID, Decided, TypeOK
<1>13. ASSUME Sending PROVE Sending'
  BY <1>1, <1>4, <1>11, <1>13 DEF Sending, managerVars, controllerVars
<1>14. ASSUME Deciding PROVE Deciding'
  BY <1>1, <1>4, <1>11, <1>14 DEF Deciding, managerVars
<1> QED  BY <1>1, <1>8, <1>9, <1>10, <1>12, <1>13, <1>14 DEF Inv, managerVars

\* A step that leaves the manager and the queue as they are, and hands the same
\* IDs, keeps the shape of the batch.
LEMMA WorkerStepInv ==
  ASSUME Inv, TypeOK', HandedOnce', Handed' = Handed,
         UNCHANGED <<controllerVars, managerVars, idsChan, outputVars>>
  PROVE  Inv'
<1>1. /\ \A k : Probe(k)' = Probe(k)
      /\ UNCHANGED <<pc, lastSuccID, offset, sent, level, results,
                     highestThresholdID, thresholdsAmount>>
  BY DEF Probe, managerVars, controllerVars
<1>2. OffsetInRange'
  BY <1>1 DEF Inv, OffsetInRange
<1>3. ASSUME BatchIDs PROVE BatchIDs'
  BY <1>1, <1>3, BatchIDsUnchanged
<1>4. pc' = "send" => Sending'
  BY <1>1, <1>3 DEF Inv, Sending
<1>5. pc' \in {"collect", "scan"} => Deciding'
  BY <1>1, <1>3 DEF Inv, Deciding
<1>6. pc' \in {"fill", "update", "start"} => Decided'
  BY <1>1 DEF Inv, Decided
<1>7. HitReceived' = HitReceived
  BY <1>1 DEF HitReceived
<1> QED  BY <1>1, <1>2, <1>4, <1>5, <1>6, <1>7 DEF Inv

LEMMA FetchInv ==
  ASSUME Inv, NEW w \in Workers, FetchFails(w) \/ FetchSucceeds(w)
  PROVE  Inv'
<1>1. TypeOK /\ HandedOnce
  BY DEF Inv
<1>2. HandedOnce' /\ Handed' = Handed
  BY <1>1, IDFetched
<1>3. UNCHANGED <<controllerVars, managerVars, idsChan, resultsChan, outputVars>>
  BY DEF FetchFails, FetchSucceeds
<1>4. phase' \in [Workers -> {"idle", "fetching", "sending"}]
  <2>1. phase' = [phase EXCEPT ![w] = "sending"]
    BY DEF FetchFails, FetchSucceeds
  <2> QED  BY <1>1, <2>1 DEF TypeOK
<1>5. item' \in [Workers -> Result]
  <2>1. CASE FetchFails(w)
    BY <1>1, <2>1 DEF TypeOK, FetchFails
  <2>2. CASE FetchSucceeds(w)
    <3>1. PICK delay \in Timestamps :
            item' = [item EXCEPT ![w] = [id |-> item[w].id, success |-> TRUE,
                                         timestamp |-> delay]]
      BY <2>2 DEF FetchSucceeds
    <3>2. item \in [Workers -> Result] /\ item[w] \in Result
      BY <1>1 DEF TypeOK
    <3>3. [id |-> item[w].id, success |-> TRUE, timestamp |-> delay] \in Result
      BY <3>2 DEF Result
    <3> QED  BY <3>1, <3>2, <3>3
  <2> QED  BY <2>1, <2>2
<1>6. ControllerTypeOK'
  BY <1>1, <1>3 DEF TypeOK, ControllerTypeOK, controllerVars
<1>7. TypeOK'
  BY <1>1, <1>3, <1>4, <1>5, <1>6 DEF TypeOK, managerVars, outputVars
<1> QED  BY <1>2, <1>3, <1>7, WorkerStepInv

LEMMA SendResultInv ==
  ASSUME Inv, NEW w \in Workers, SendResult(w)
  PROVE  Inv'
<1>1. TypeOK /\ HandedOnce
  BY DEF Inv
<1>2. HandedOnce' /\ Handed' = Handed
  BY <1>1, IDSent
<1>3. UNCHANGED <<controllerVars, managerVars, idsChan, outputVars>>
  BY DEF SendResult
<1>4. resultsChan' \in Seq(Result) /\ Len(resultsChan') <= IdealMaxThresholdsAmount
  BY <1>1, PoolSize DEF TypeOK, SendResult
<1>5. /\ phase' \in [Workers -> {"idle", "fetching", "sending"}]
      /\ item' \in [Workers -> Result]
  BY <1>1, TimestampsAreDelays DEF TypeOK, Result, NoResult, SendResult
<1>6. ControllerTypeOK'
  BY <1>1, <1>3 DEF TypeOK, ControllerTypeOK, controllerVars
<1>7. TypeOK'
  BY <1>1, <1>3, <1>4, <1>5, <1>6 DEF TypeOK, managerVars, outputVars
<1> QED  BY <1>2, <1>3, <1>7, WorkerStepInv

LEMMA StutterInv == Inv /\ UNCHANGED vars => Inv'
<1> SUFFICES ASSUME Inv, UNCHANGED vars PROVE Inv'
  OBVIOUS
<1>1. TypeOK'
  BY DEF Inv, TypeOK, ControllerTypeOK, vars, controllerVars, managerVars,
         workerVars, outputVars
<1>2. HandedOnce' /\ Handed' = Handed
  BY DEF Inv, HandedOnce, Handed, Active, vars, workerVars
<1> QED  BY <1>1, <1>2, WorkerStepInv DEF vars

LEMMA NextInv == Inv /\ [Next]_vars => Inv'
<1> SUFFICES ASSUME Inv, [Next]_vars PROVE Inv'
  OBVIOUS
<1>1. CASE Manager
  BY <1>1, StartBatchInv, SendThresholdInv, DiscardResultInv, AcceptResultInv,
     ScanPendingInv, ScanFailedInv, ScanHitInv, FillGapInv, FinishBatchInv
  DEF Manager
<1>2. ASSUME NEW w \in Workers, Worker(w) PROVE Inv'
  BY <1>2, TakeIDInv, FetchInv, SendResultInv DEF Worker
<1>3. CASE BoundReached \/ UNCHANGED vars
  BY <1>3, StutterInv DEF BoundReached
<1> QED  BY <1>1, <1>2, <1>3 DEF Next

LEMMA InvAlways == Spec => []Inv
BY InitInv, NextInv, PTL DEF Spec

-----------------------------------------------------------------------------
(* Theorems                                                                *)

\* Every variable has its type in every reachable state; among the conjuncts, a
\* result that is looked up has been received, and no channel exceeds its size.
THEOREM TypeCorrect == Spec => []TypeOK
<1>1. Inv => TypeOK
  BY DEF Inv
<1> QED  BY <1>1, InvAlways, PTL

\* Once a batch is decided, whatever is still under way is below the chosen ID:
\* no late result can show that the batch had reached further.
THEOREM NothingIsOutstandingAbove == Spec => []NothingOutstandingAbove
<1>1. ASSUME Inv
      PROVE  NothingOutstandingAbove
  <2> SUFFICES ASSUME pc \in {"fill", "update", "start"}, NEW id \in Outstanding
               PROVE  id < highestThresholdID
    BY DEF NothingOutstandingAbove
  <2>1. Decided
    BY <1>1 DEF Inv
  <2>2. Contents(idsChan) = {}
    BY <2>1 DEF Decided, Contents
  <2>3. id \in Handed
    BY <2>2 DEF Outstanding, Handed, Contents, Active
  <2> QED  BY <2>1, <2>3 DEF Decided
<1> QED  BY <1>1, InvAlways, PTL

\* With an amount within the pool the manager has room for every threshold,
\* however slow the workers are.
THEOREM ManagerSendsWithoutBlocking == Spec => []SendNeverBlocks
<1>1. ASSUME Inv
      PROVE  SendNeverBlocks
  <2> SUFFICES ASSUME AmountWithinPool, pc = "send"
               PROVE  Len(idsChan) < IdealMaxThresholdsAmount
    BY DEF SendNeverBlocks
  <2>1. /\ sent \in Nat /\ level \in Nat /\ Len(idsChan) \in Nat
        /\ Len(idsChan) <= sent /\ sent < level
        /\ level = thresholdsAmount
    BY <1>1 DEF Inv, TypeOK, Sending, BatchIDs
  <2> QED  BY <2>1, PoolSize DEF AmountWithinPool
<1> QED  BY <1>1, InvAlways, PTL

\* The distance between two thresholds stays strictly between half and twice the
\* configured one, for which the subordinate workers are dimensioned.
THEOREM OffsetStaysInRange == Spec => []OffsetInRange
<1>1. Inv => OffsetInRange
  BY DEF Inv
<1> QED  BY <1>1, InvAlways, PTL

-----------------------------------------------------------------------------
(***************************************************************************)
(* The limit on the batches: a product of two uint16 that is cut, if it is *)
(* large enough.                                                           *)
(***************************************************************************)
LimitExact ==
  \A amount \in Nat :
    amount * (2 * InitialOffset) <= Uint16Range =>
      (ExceedsLimit(amount) <=> EnableBatchLimits /\ amount * offset > MaxBatchSize)

\* As long as so many thresholds at twice the configured distance span at most
\* 65536 IDs (128 thresholds, for any configuration), the manager compares the
\* true span of the batch with MaxBatchSize, however far the offset has drifted.
THEOREM LimitIsExact == Spec => []LimitExact
<1>1. ASSUME Inv
      PROVE  LimitExact
  <2> SUFFICES ASSUME NEW amount \in Nat,
                      amount * (2 * InitialOffset) <= Uint16Range
               PROVE  ExceedsLimit(amount)
                        <=> EnableBatchLimits /\ amount * offset > MaxBatchSize
    BY DEF LimitExact
  <2>1. /\ offset \in Nat /\ InitialOffset \in Nat
        /\ 2 * InitialOffset \in Nat /\ offset < 2 * InitialOffset
    BY <1>1, OffsetIsPositive DEF Inv, TypeOK, OffsetInRange
  <2>2. amount * offset \in Nat /\ amount * offset < Uint16Range
    <3>1. Uint16Range \in Nat /\ Uint16Range > 0
      BY DEF Uint16Range
    <3>2. CASE amount = 0
      BY <2>1, <3>1, <3>2
    <3>3. CASE amount > 0
      <4>1. amount * offset < amount * (2 * InitialOffset)
        <5> DEFINE O == 2 * InitialOffset
        <5> HIDE DEF O
        <5>1. O \in Nat /\ offset < O
          BY <2>1 DEF O
        <5>2. amount * offset < amount * O
          BY <2>1, <3>3, <5>1
        <5> QED  BY <5>2 DEF O
      <4> QED  BY <2>1, <3>1, <4>1
    <3> QED  BY <3>2, <3>3
  <2>3. (amount * offset) % Uint16Range = amount * offset
    BY <2>2, CutToUint16
  <2> QED  BY <2>3 DEF ExceedsLimit
<1> QED  BY <1>1, InvAlways, PTL

(***************************************************************************)
(* What the batch loop gives to the controller.                            *)
(***************************************************************************)
LevelWithinAmount == pc # "start" => level <= thresholdsAmount

InputsInv == Inv /\ LevelWithinAmount

LEMMA LevelOnlyFalls ==
  ASSUME InputsInv, Manager, pc # "start", pc' # "start"
  PROVE  level' <= level /\ thresholdsAmount' = thresholdsAmount
<1>1. level \in Nat
  BY DEF InputsInv, Inv, TypeOK
<1>2. CASE ScanFailed
  BY <1>1, <1>2 DEF ScanFailed, controllerVars
<1>3. CASE SendThreshold \/ DiscardResult \/ AcceptResult \/ ScanPending
             \/ ScanHit \/ FillGap
  BY <1>1, <1>3 DEF SendThreshold, DiscardResult, AcceptResult, ScanPending,
                    ScanHit, FillGap, controllerVars, managerVars
<1> QED  BY <1>2, <1>3 DEF Manager, StartBatch, FinishBatch

LEMMA NextInputs ==
  ASSUME InputsInv, [Next]_vars
  PROVE  InputsInv' /\ [ControllerNext]_controllerVars
<1>1. /\ Inv' /\ TypeOK
      /\ level \in Nat /\ thresholdsAmount \in Nat
      /\ level' \in Nat /\ thresholdsAmount' \in Nat
  BY NextInv, Uint16IsNatural DEF InputsInv, Inv, TypeOK, ControllerTypeOK
<1>2. CASE StartBatch
  BY <1>1, <1>2 DEF StartBatch, InputsInv, LevelWithinAmount, controllerVars
<1>3. CASE FinishBatch
  <2>1. pc' = "start" /\ pc = "update"
    BY <1>3 DEF FinishBatch
  <2>2. CASE level = 0
    BY <1>1, <1>3, <2>1, <2>2
    DEF FinishBatch, InputsInv, LevelWithinAmount, ControllerNext, ReportMiss
  <2>3. CASE level # 0
    <3>1. level \in 1 .. thresholdsAmount
      BY <1>1, <2>1, <2>3 DEF InputsInv, LevelWithinAmount
    <3>2. results[highestThresholdID] \in Result
      BY <1>1, <2>1, <2>3 DEF InputsInv, Inv, HitReceived, TypeOK
    <3>3. results[highestThresholdID].timestamp \in Timestamps
      BY <3>2 DEF Result
    <3>4. Update(level, results[highestThresholdID].timestamp)
      BY <1>3, <2>3 DEF FinishBatch
    <3> QED  BY <1>1, <2>1, <3>1, <3>3, <3>4
             DEF InputsInv, LevelWithinAmount, ControllerNext, ReportHit
  <2> QED  BY <2>2, <2>3
<1>4. CASE /\ SendThreshold \/ DiscardResult \/ AcceptResult \/ ScanPending
                \/ ScanFailed \/ ScanHit \/ FillGap
           /\ ~ StartBatch /\ ~ FinishBatch
  <2>1. pc # "start" /\ pc' # "start" /\ UNCHANGED controllerVars
    BY <1>4 DEF SendThreshold, DiscardResult, AcceptResult, ScanPending,
                ScanFailed, ScanHit, FillGap, managerVars
  <2>2. level' <= level /\ thresholdsAmount' = thresholdsAmount
    BY <1>4, <2>1, LevelOnlyFalls DEF Manager
  <2> QED  BY <1>1, <2>1, <2>2 DEF InputsInv, LevelWithinAmount
<1>5. CASE BoundReached \/ UNCHANGED vars \/ \E w \in Workers : Worker(w)
  <2>1. UNCHANGED <<controllerVars, pc, level>>
    BY <1>5 DEF BoundReached, vars, managerVars, Worker, TakeID, FetchFails,
                FetchSucceeds, SendResult
  <2> QED  BY <1>1, <2>1 DEF InputsInv, LevelWithinAmount, controllerVars
<1> QED  BY <1>2, <1>3, <1>4, <1>5 DEF Next, Manager

\* The batch loop runs the thresholds controller: in whatever order the workers
\* answer, a batch reports no more than the level the controller asked for, and
\* only with a delay of an item that was fetched.
THEOREM LoopDrivesController == Spec => ControllerSpec
<1>1. Init => ControllerInit /\ InputsInv
  BY InitInv DEF Init, InputsInv, LevelWithinAmount
<1>2. InputsInv /\ [Next]_vars => InputsInv' /\ [ControllerNext]_controllerVars
  BY NextInputs
<1> QED  BY <1>1, <1>2, PTL DEF Spec, ControllerSpec

-----------------------------------------------------------------------------
(***************************************************************************)
(* How many late results there can be.  An ID that a worker took after     *)
(* another one is larger, so that the smaller ones that come after it in   *)
(* the results channel, or are still in the hands of workers, were taken   *)
(* before it: when it was sent to the channel, by the other workers, which *)
(* are fewer than the pool.  That number only falls as they come in, and   *)
(* the ID at which a batch is decided passes it on to the next batch.      *)
(***************************************************************************)

\* The IDs that the manager receives after the i-th result in the channel.
Behind(i) == {resultsChan[j].id : j \in {k \in DOMAIN resultsChan : k > i}}
               \cup {item[w].id : w \in Active}

Late(i, id) == {x \in Behind(i) : x < id}

\* Fewer than there are workers.
Few(S) == IsFiniteSet(S) /\ Cardinality(S) < IdealMaxThresholdsAmount

FewLate ==
  /\ \A i \in DOMAIN resultsChan : Few(Late(i, resultsChan[i].id))
  /\ \A id \in DOMAIN results \cup {lastSuccID} : Few(Late(0, id))
  /\ pc \in {"fill", "update", "start"} =>
       highestThresholdID \in DOMAIN results \cup {lastSuccID}

LEMMA FewSubset ==
  ASSUME NEW S, Few(S), NEW T \in SUBSET S
  PROVE  Few(T)
<1>1. IsFiniteSet(S) /\ Cardinality(S) \in Nat
  BY FS_CardinalityType DEF Few
<1>2. IsFiniteSet(T) /\ Cardinality(T) <= Cardinality(S)
  BY <1>1, FS_Subset
<1>3. Cardinality(T) \in Nat
  BY <1>2, FS_CardinalityType
<1> QED  BY <1>1, <1>2, <1>3, PoolSize DEF Few

\* An ID that a worker takes is above all that the manager received or will
\* receive, and above the ID the batch started from.
LEMMA TakenIsNew ==
  ASSUME Inv, idsChan # <<>>
  PROVE  /\ Head(idsChan) \in Nat /\ lastSuccID < Head(idsChan)
         /\ \A id \in Handed \cup DOMAIN results : id \in Nat /\ id < Head(idsChan)
<1>1. TypeOK /\ OffsetInRange /\ BatchIDs
  BY DEF Inv, TypeOK, Sending, Deciding, Decided
<1>2. /\ idsChan \in Seq(Nat) /\ Len(idsChan) \in Nat /\ Len(idsChan) > 0
      /\ Head(idsChan) = idsChan[1] /\ 1 \in DOMAIN idsChan
      /\ sent \in Nat /\ Len(idsChan) <= sent
  BY <1>1 DEF TypeOK, BatchIDs
<1>3. Taken \in Nat /\ Head(idsChan) = Probe(Taken + 1)
  BY <1>1, <1>2 DEF BatchIDs, Taken
<1>4. /\ Taken + 1 \in Nat /\ Taken + 1 > 0
      /\ \A k \in 1 .. Taken : k \in Nat /\ k < Taken + 1
  BY <1>3
<1>5. Head(idsChan) \in Nat /\ lastSuccID < Head(idsChan)
  BY <1>1, <1>3, <1>4, ProbeFacts
<1>6. \A k \in 1 .. Taken : Probe(k) \in Nat /\ Probe(k) < Head(idsChan)
  BY <1>1, <1>3, <1>4, ProbeFacts
<1>7. Handed \subseteq Nat /\ lastSuccID \in Nat
  BY <1>1, HandedAreIDs DEF TypeOK
<1> QED  BY <1>1, <1>5, <1>6, <1>7 DEF BatchIDs

\* The other workers are fewer than the pool.
LEMMA OthersAreFew ==
  ASSUME NEW w \in Workers, NEW others \in SUBSET (Workers \ {w})
  PROVE  Few({item[v].id : v \in others})
<1> DEFINE S == {item[v].id : v \in others}
           f == [v \in others |-> item[v].id]
<1>1. /\ IsFiniteSet(Workers) /\ Cardinality(Workers) = IdealMaxThresholdsAmount
  BY PoolSize, FS_Interval DEF Workers
<1>2. /\ IsFiniteSet(Workers \ {w})
      /\ Cardinality(Workers \ {w}) = IdealMaxThresholdsAmount - 1
  BY <1>1, FS_RemoveElement
<1>3. /\ IsFiniteSet(others)
      /\ Cardinality(others) <= IdealMaxThresholdsAmount - 1
  BY <1>2, FS_Subset
<1>4. f \in Surjection(others, S)
  BY DEF Surjection
<1>5. IsFiniteSet(S) /\ Cardinality(S) <= Cardinality(others)
  BY <1>3, <1>4, FS_Surjection
<1>6. Cardinality(S) \in Nat /\ Cardinality(others) \in Nat
  BY <1>3, <1>5, FS_CardinalityType
<1> HIDE DEF S
<1>7. Few(S)
  BY <1>3, <1>5, <1>6, PoolSize DEF Few
<1> QED  BY <1>7 DEF S

LEMMA InitFewLate == Init => FewLate
<1> SUFFICES ASSUME Init PROVE FewLate
  OBVIOUS
<1>1. Active = {} /\ resultsChan = <<>> /\ results = <<>>
  BY DEF Init, Active
<1>2. Late(0, lastSuccID) = {}
  BY <1>1 DEF Late, Behind
<1>3. Few({})
  BY FS_EmptySet, PoolSize DEF Few
<1>4. DOMAIN results = {} /\ DOMAIN resultsChan = {}
  BY <1>1
<1> QED  BY <1>2, <1>3, <1>4 DEF FewLate, Init

\* Nothing that is on its way is touched.
LEMMA BehindUnchanged ==
  ASSUME UNCHANGED <<resultsChan, workerVars>>
  PROVE  \A i, id : Late(i, id)' = Late(i, id)
BY DEF Late, Behind, Active, workerVars

\* Steps of the manager that leave the channel and the results.
LEMMA SameBatchFewLate ==
  ASSUME FewLate, UNCHANGED <<resultsChan, workerVars, lastSuccID, results>>,
         pc' \in {"fill", "update", "start"} =>
           highestThresholdID' \in DOMAIN results' \cup {lastSuccID'}
  PROVE  FewLate'
<1>1. \A i, id : Late(i, id)' = Late(i, id)
  BY BehindUnchanged
<1> QED  BY <1>1 DEF FewLate

LEMMA StartBatchFewLate ==
  ASSUME FewLate, StartBatch
  PROVE  FewLate'
<1>1. \A i, id : Late(i, id)' = Late(i, id)
  BY BehindUnchanged DEF StartBatch
<1>2. /\ lastSuccID' \in DOMAIN results \cup {lastSuccID}
      /\ highestThresholdID' = lastSuccID'
      /\ resultsChan' = resultsChan
      /\ DOMAIN results' = {}
  BY DEF StartBatch, FewLate
<1> QED  BY <1>1, <1>2 DEF FewLate

\* Receiving a result moves the others up.
LEMMA ReceivedMovesUp ==
  ASSUME TypeOK, resultsChan # <<>>, resultsChan' = Tail(resultsChan),
         UNCHANGED workerVars
  PROVE  /\ 1 \in DOMAIN resultsChan /\ Head(resultsChan) = resultsChan[1]
         /\ \A i \in DOMAIN resultsChan' :
              i + 1 \in DOMAIN resultsChan /\ resultsChan'[i] = resultsChan[i + 1]
         /\ \A i \in Nat : \A id : Late(i, id)' \subseteq Late(i + 1, id)
         /\ \A i \in Nat : \A id : Late(i + 1, id) \subseteq Late(i, id)
<1>1. resultsChan \in Seq(Result)
  BY DEF TypeOK
<1>2. /\ Len(resultsChan) \in Nat \ {0}
      /\ DOMAIN resultsChan = 1 .. Len(resultsChan)
      /\ DOMAIN resultsChan' = 1 .. Len(resultsChan) - 1
      /\ \A i \in DOMAIN resultsChan' : resultsChan'[i] = resultsChan[i + 1]
      /\ Head(resultsChan) = resultsChan[1]
  BY <1>1
<1>3. Active' = Active /\ item' = item
  BY DEF workerVars, Active
<1>4. \A i \in Nat : Behind(i)' \subseteq Behind(i + 1)
  <2> TAKE i \in Nat
  <2>1. ASSUME NEW j \in DOMAIN resultsChan', j > i
        PROVE  resultsChan'[j].id \in Behind(i + 1)
    <3>1. j + 1 \in DOMAIN resultsChan /\ j + 1 > i + 1
      BY <1>2, <2>1
    <3> QED  BY <1>2, <3>1 DEF Behind
  <2> QED  BY <1>3, <2>1 DEF Behind
<1>5. \A i \in Nat : Behind(i + 1) \subseteq Behind(i)
  BY <1>2 DEF Behind
<1>6. \A i \in DOMAIN resultsChan' : i + 1 \in DOMAIN resultsChan
  BY <1>2
<1> QED  BY <1>2, <1>4, <1>5, <1>6 DEF Late

LEMMA ReceivedFewLate ==
  ASSUME TypeOK, FewLate, resultsChan # <<>>, resultsChan' = Tail(resultsChan),
         UNCHANGED workerVars
  PROVE  /\ \A i \in DOMAIN resultsChan' : \A id :
              id = resultsChan'[i].id => Few(Late(i, id)')
         /\ \A id \in DOMAIN results \cup {lastSuccID, Head(resultsChan).id} :
              Few(Late(0, id)')
<1>1. \A i \in DOMAIN resultsChan' : i \in Nat
  BY DEF TypeOK
<1>2. ASSUME NEW i \in DOMAIN resultsChan', NEW id, id = resultsChan'[i].id
      PROVE  Few(Late(i, id)')
  <2>1. i + 1 \in DOMAIN resultsChan /\ id = resultsChan[i + 1].id
    BY <1>2, ReceivedMovesUp
  <2>2. Few(Late(i + 1, id))
    BY <2>1 DEF FewLate
  <2>3. Late(i, id)' \subseteq Late(i + 1, id)
    BY <1>1, ReceivedMovesUp
  <2> QED  BY <2>2, <2>3, FewSubset
<1>3. \A id : Late(0, id)' \subseteq Late(1, id) /\ Late(1, id) \subseteq Late(0, id)
  <2>1. 0 \in Nat /\ 0 + 1 = 1
    OBVIOUS
  <2>2. \A id : Late(0, id)' \subseteq Late(0 + 1, id) /\ Late(0 + 1, id) \subseteq Late(0, id)
    BY <2>1, ReceivedMovesUp
  <2> QED  BY <2>1, <2>2
<1>4. ASSUME NEW id \in DOMAIN results \cup {lastSuccID, Head(resultsChan).id}
      PROVE  Few(Late(0, id)')
  <2>1. Few(Late(1, id)) \/ Few(Late(0, id))
    <3>1. 1 \in DOMAIN resultsChan /\ Head(resultsChan) = resultsChan[1]
      BY ReceivedMovesUp
    <3> QED  BY <3>1 DEF FewLate
  <2>2. Late(0, id)' \subseteq Late(1, id) /\ Late(0, id)' \subseteq Late(0, id)
    BY <1>3
  <2> QED  BY <2>1, <2>2, FewSubset
<1> QED  BY <1>2, <1>4

LEMMA DiscardResultFewLate ==
  ASSUME TypeOK, FewLate, DiscardResult
  PROVE  FewLate'
<1>1. /\ UNCHANGED <<results, lastSuccID, highestThresholdID>>
      /\ pc' = "collect"
      /\ resultsChan # <<>> /\ resultsChan' = Tail(resultsChan)
      /\ UNCHANGED workerVars
  BY DEF DiscardResult, managerVars
<1> QED  BY <1>1, ReceivedFewLate DEF FewLate

LEMMA AcceptResultFewLate ==
  ASSUME TypeOK, FewLate, AcceptResult
  PROVE  FewLate'
<1>1. /\ DOMAIN results' = DOMAIN results \cup {Head(resultsChan).id}
      /\ UNCHANGED lastSuccID
      /\ pc' = "scan"
      /\ resultsChan # <<>> /\ resultsChan' = Tail(resultsChan)
      /\ UNCHANGED workerVars
  BY DEF AcceptResult
<1> QED  BY <1>1, ReceivedFewLate DEF FewLate

LEMMA TakeIDFewLate ==
  ASSUME Inv, FewLate, NEW w \in Workers, TakeID(w)
  PROVE  FewLate'
<1>1. /\ resultsChan' = resultsChan
      /\ UNCHANGED <<results, lastSuccID, pc, highestThresholdID>>
      /\ Active' = Active \cup {w}
      /\ item'[w].id = Head(idsChan)
      /\ \A v \in Active : item'[v] = item[v]
  BY SMTT(30) DEF TakeID, Active, Inv, TypeOK, NoResult, Result, managerVars
<1>2. \A i : Behind(i)' \subseteq Behind(i) \cup {Head(idsChan)}
  BY <1>1 DEF Behind
<1>3. /\ Head(idsChan) \in Nat /\ lastSuccID < Head(idsChan)
      /\ \A id \in Handed \cup DOMAIN results : id \in Nat /\ id < Head(idsChan)
  BY TakenIsNew DEF TakeID
<1>4. ASSUME NEW i, NEW id \in Handed \cup DOMAIN results \cup {lastSuccID},
             Few(Late(i, id))
      PROVE  Few(Late(i, id)')
  <2>1. id \in Nat /\ id < Head(idsChan)
    BY <1>3 DEF Inv, TypeOK
  <2>2. Late(i, id)' \subseteq Late(i, id)
    BY <1>2, <1>3, <2>1 DEF Late
  <2> QED  BY <1>4, <2>2, FewSubset
<1>5. \A i \in DOMAIN resultsChan : resultsChan[i].id \in Handed
  BY DEF Handed
<1> QED  BY <1>1, <1>4, <1>5 DEF FewLate

LEMMA FetchFewLate ==
  ASSUME TypeOK, FewLate, NEW w \in Workers, FetchFails(w) \/ FetchSucceeds(w)
  PROVE  FewLate'
<1>1. /\ UNCHANGED <<resultsChan, results, lastSuccID, pc, highestThresholdID>>
      /\ Active' = Active /\ Active \subseteq Workers
  BY DEF FetchFails, FetchSucceeds, Active, TypeOK, managerVars
<1>2. \A v \in Workers : item'[v].id = item[v].id
  <2>1. CASE FetchFails(w)
    BY <2>1 DEF FetchFails
  <2>2. CASE FetchSucceeds(w)
    <3>1. PICK delay \in Timestamps :
            item' = [item EXCEPT ![w] = [id |-> item[w].id, success |-> TRUE,
                                         timestamp |-> delay]]
      BY <2>2 DEF FetchSucceeds
    <3> QED  BY <3>1 DEF TypeOK
  <2> QED  BY <2>1, <2>2
<1>3. \A i, id : Late(i, id)' = Late(i, id)
  BY <1>1, <1>2 DEF Late, Behind
<1> QED  BY <1>1, <1>3 DEF FewLate

\* What a worker sends to the channel is behind all that is there, and only the
\* other workers are behind it.
LEMMA SendResultFewLate ==
  ASSUME TypeOK, FewLate, NEW w \in Workers, SendResult(w)
  PROVE  FewLate'
<1>1. /\ w \in Active /\ Active \subseteq Workers
      /\ Active' = Active \ {w}
      /\ \A v \in Active \ {w} : item'[v] = item[v]
      /\ UNCHANGED <<results, lastSuccID, pc, highestThresholdID>>
  BY DEF SendResult, Active, TypeOK, managerVars
<1>2. /\ resultsChan \in Seq(Result)
      /\ item[w] \in Result
      /\ resultsChan' = Append(resultsChan, item[w])
  BY DEF SendResult, TypeOK
<1>3. /\ Len(resultsChan) \in Nat
      /\ DOMAIN resultsChan = 1 .. Len(resultsChan)
      /\ DOMAIN resultsChan' = 1 .. Len(resultsChan) + 1
      /\ \A i \in DOMAIN resultsChan : resultsChan'[i] = resultsChan[i]
      /\ resultsChan'[Len(resultsChan) + 1] = item[w]
  BY <1>2
<1>4. \A i : Behind(i)' \subseteq Behind(i)
  <2> TAKE i
  <2>1. ASSUME NEW j \in DOMAIN resultsChan', j > i
        PROVE  resultsChan'[j].id \in Behind(i)
    <3>1. CASE j \in DOMAIN resultsChan
      BY <1>3, <2>1, <3>1 DEF Behind
    <3>2. CASE j = Len(resultsChan) + 1
      BY <1>1, <1>3, <3>2 DEF Behind
    <3> QED  BY <1>3, <3>1, <3>2
  <2> QED  BY <1>1, <2>1 DEF Behind
<1>5. ASSUME NEW i, NEW id, Few(Late(i, id))
      PROVE  Few(Late(i, id)')
  <2>1. Late(i, id)' \subseteq Late(i, id)
    BY <1>4 DEF Late
  <2> QED  BY <1>5, <2>1, FewSubset
<1>6. ASSUME NEW last, last = Len(resultsChan) + 1, NEW id
      PROVE  Few(Late(last, id)')
  <2> DEFINE others == Active \ {w}
  <2>1. Few({item[v].id : v \in others})
    BY <1>1, OthersAreFew
  <2>2. \A j \in DOMAIN resultsChan' : ~ (j > last)
    BY <1>3, <1>6
  <2>3. \A x \in Late(last, id)' : \E v \in Active' : x = item'[v].id
    BY <2>2 DEF Late, Behind
  <2>4. Late(last, id)' \subseteq {item[v].id : v \in others}
    BY <1>1, <2>3
  <2> QED  BY <2>1, <2>4, FewSubset
<1>7. \A i \in DOMAIN resultsChan' : i \in DOMAIN resultsChan \/ i = Len(resultsChan) + 1
  BY <1>3
<1> QED  BY <1>1, <1>3, <1>5, <1>6, <1>7 DEF FewLate

LEMMA NextFewLate ==
  ASSUME Inv, FewLate, [Next]_vars
  PROVE  FewLate'
<1>1. TypeOK /\ lastSuccID \in Nat
  BY DEF Inv, TypeOK
<1>2. CASE SendThreshold \/ ScanPending
  BY <1>2, SameBatchFewLate DEF SendThreshold, ScanPending
<1>3. CASE ScanFailed
  <2>1. ASSUME pc' = "update"
        PROVE  highestThresholdID' = lastSuccID
    <3>1. level = 1 /\ highestThresholdID = Probe(1)
      BY <1>3, <2>1 DEF ScanFailed, Inv, Deciding
    <3>2. highestThresholdID = Probe(0) + offset
      <4>1. 0 \in Nat /\ 0 + 1 = 1
        OBVIOUS
      <4> QED  BY <3>1, <4>1, ProbeFacts DEF Inv
    <3> QED  BY <1>1, <1>3, <3>2, ProbeFacts DEF ScanFailed, LoweredID, Inv
  <2> QED  BY <1>3, <2>1, SameBatchFewLate DEF ScanFailed
<1>4. CASE ScanHit
  BY <1>4, SameBatchFewLate DEF ScanHit
<1>5. CASE FillGap \/ FinishBatch
  BY <1>5, SameBatchFewLate DEF FillGap, FinishBatch, FewLate
<1>6. ASSUME NEW w \in Workers, Worker(w)
      PROVE  FewLate'
  BY <1>1, <1>6, TakeIDFewLate, FetchFewLate, SendResultFewLate DEF Worker
<1>7. CASE BoundReached \/ UNCHANGED vars
  BY <1>7, SameBatchFewLate DEF BoundReached, vars, managerVars, FewLate
<1> QED  BY <1>1, <1>2, <1>3, <1>4, <1>5, <1>6, <1>7, StartBatchFewLate,
            DiscardResultFewLate, AcceptResultFewLate DEF Next, Manager

\* A pool whose workers all wait with a result, before a full channel, holds
\* twice as many IDs as it has workers.
LEMMA BlockedPool ==
  ASSUME TypeOK, HandedOnce, IsFiniteSet(Handed),
         Len(resultsChan) = IdealMaxThresholdsAmount,
         \A w \in Workers : phase[w] = "sending"
  PROVE  Cardinality(Handed) >= 2 * IdealMaxThresholdsAmount
<1> DEFINE P == IdealMaxThresholdsAmount
           f == [k \in 1 .. 2 * P |-> IF k <= P THEN resultsChan[k].id ELSE item[k - P].id]
<1>1. P \in Nat /\ P > 0
  BY PoolSize
<1>2. DOMAIN resultsChan = 1 .. P
  BY DEF TypeOK
<1>3. Active = 1 .. P
  BY DEF Active, Workers
<1> HIDE DEF P
<1>4. \A k \in 1 .. 2 * P : (k \in 1 .. P /\ k <= P) \/ (k - P \in 1 .. P /\ ~ (k <= P))
  BY <1>1
<1>5. f \in Injection(1 .. 2 * P, Handed)
  <2>1. f \in [1 .. 2 * P -> Handed]
    BY <1>2, <1>3, <1>4 DEF Handed
  <2>2. ASSUME NEW j \in 1 .. 2 * P, NEW k \in 1 .. 2 * P, f[j] = f[k]
        PROVE  j = k
    <3>1. j \in Int /\ k \in Int
      OBVIOUS
    <3>2. CASE j <= P /\ k <= P
      BY <1>2, <1>4, <2>2, <3>2 DEF HandedOnce
    <3>3. CASE ~ (j <= P) /\ ~ (k <= P)
      <4>1. item[j - P].id = item[k - P].id /\ j - P \in Active /\ k - P \in Active
        BY <1>3, <1>4, <2>2, <3>3
      <4>2. j - P = k - P
        BY <4>1 DEF HandedOnce
      <4> QED  BY <1>1, <3>1, <4>2
    <3>4. CASE ~ (j <= P <=> k <= P)
      BY <1>2, <1>3, <1>4, <2>2, <3>4 DEF HandedOnce
    <3> QED  BY <3>2, <3>3, <3>4
  <2> QED  BY <2>1, <2>2 DEF Injection, IsInjective
<1>6. IsFiniteSet(1 .. 2 * P) /\ Cardinality(1 .. 2 * P) = 2 * P
  <2>1. 1 \in Int /\ 2 * P \in Int /\ ~ (1 > 2 * P) /\ (2 * P) - 1 + 1 = 2 * P
    BY <1>1
  <2> QED  BY <2>1, FS_Interval
<1>7. Cardinality(1 .. 2 * P) <= Cardinality(Handed)
  BY <1>5, <1>6, FS_Injection
<1>8. Cardinality(Handed) \in Nat
  BY FS_CardinalityType
<1> QED  BY <1>1, <1>6, <1>7, <1>8 DEF P

\* What is handed is late or one of the thresholds that were taken.
LEMMA HandedAreFew ==
  ASSUME TypeOK, BatchIDs, FewLate, Taken \in Nat
  PROVE  /\ IsFiniteSet(Handed)
         /\ Cardinality(Handed) < IdealMaxThresholdsAmount + Taken
<1> DEFINE late == Late(0, lastSuccID)
           taken == {Probe(k) : k \in 1 .. Taken}
           f == [k \in 1 .. Taken |-> Probe(k)]
<1>1. IsFiniteSet(late) /\ Cardinality(late) < IdealMaxThresholdsAmount
  BY DEF FewLate, Few
<1>2. IsFiniteSet(1 .. Taken) /\ Cardinality(1 .. Taken) = Taken
  BY FS_Interval
<1>3. IsFiniteSet(taken) /\ Cardinality(taken) <= Taken
  <2>1. f \in Surjection(1 .. Taken, taken)
    BY DEF Surjection
  <2> QED  BY <1>2, <2>1, FS_Surjection
<1>4. Handed \subseteq late \cup taken
  <2>1. Handed \subseteq Behind(0)
    BY DEF Handed, Behind, TypeOK
  <2> QED  BY <2>1 DEF Late, BatchIDs
<1> HIDE DEF late, taken
<1>5. /\ IsFiniteSet(late \cup taken) /\ IsFiniteSet(late \cap taken)
      /\ Cardinality(late \cup taken)
           = Cardinality(late) + Cardinality(taken) - Cardinality(late \cap taken)
  BY <1>1, <1>3, FS_Union, FS_Intersection
<1>6. IsFiniteSet(Handed) /\ Cardinality(Handed) <= Cardinality(late \cup taken)
  BY <1>4, <1>5, FS_Subset
<1>7. /\ Cardinality(late) \in Nat /\ Cardinality(taken) \in Nat
      /\ Cardinality(late \cap taken) \in Nat /\ Cardinality(Handed) \in Nat
  BY <1>1, <1>3, <1>5, <1>6, FS_CardinalityType
<1> QED  BY <1>1, <1>3, <1>5, <1>6, <1>7, PoolSize

\* The manager and the workers do not wait for each other as long as a batch has
\* at most twice as many thresholds as the pool has workers, and one more.  With
\* another one they may (the finding).
THEOREM SlowsDownUpToTwicePool ==
  Spec => [](thresholdsAmount <= 2 * IdealMaxThresholdsAmount + 1 => SlowsDownOnly)
<1>1. ASSUME Inv, FewLate, thresholdsAmount <= 2 * IdealMaxThresholdsAmount + 1,
             ~ SlowsDownOnly
      PROVE  FALSE
  <2>1. /\ TypeOK /\ HandedOnce /\ Sending
        /\ Len(idsChan) = IdealMaxThresholdsAmount
        /\ Len(resultsChan) = IdealMaxThresholdsAmount
        /\ \A w \in Workers : phase[w] = "sending"
    BY <1>1 DEF SlowsDownOnly, Inv
  <2>2. Taken \in Nat /\ Taken <= IdealMaxThresholdsAmount
    <3>1. sent \in Nat /\ thresholdsAmount \in Nat
      BY <2>1, Uint16IsNatural DEF TypeOK, ControllerTypeOK
    <3> QED  BY <1>1, <2>1, <3>1, PoolSize DEF Sending, BatchIDs, Taken
  <2>3. /\ IsFiniteSet(Handed)
        /\ Cardinality(Handed) < IdealMaxThresholdsAmount + Taken
    BY <1>1, <2>1, <2>2, HandedAreFew DEF Sending
  <2>4. Cardinality(Handed) >= 2 * IdealMaxThresholdsAmount
    BY <2>1, <2>3, BlockedPool
  <2>5. Cardinality(Handed) \in Nat
    BY <2>3, FS_CardinalityType
  <2> QED  BY <2>2, <2>3, <2>4, <2>5, PoolSize
<1>2. Inv /\ FewLate =>
        (thresholdsAmount <= 2 * IdealMaxThresholdsAmount + 1 => SlowsDownOnly)
  BY <1>1
<1>3. Init => Inv /\ FewLate
  BY InitInv, InitFewLate
<1>4. Inv /\ FewLate /\ [Next]_vars => (Inv /\ FewLate)'
  BY NextInv, NextFewLate
<1> QED  BY <1>2, <1>3, <1>4, PTL DEF Spec

-----------------------------------------------------------------------------
(***************************************************************************)
(* No threshold of an open batch is lost: until it is received it is in    *)
(* the queue, with a worker or in the results channel.                     *)
(***************************************************************************)
NoneLost ==
  /\ pc \in {"send", "collect", "scan"} =>
       \A k \in 1 .. sent : Probe(k) \in Contents(idsChan) \cup Handed \cup DOMAIN results
  /\ pc = "collect" => highestThresholdID \notin DOMAIN results
  /\ pc = "fill" => gaps # {}

(***************************************************************************)
(* Some goroutine of the loop can go on: the guards of the actions.        *)
(***************************************************************************)
ManagerCanStep ==
  \/ pc \in {"start", "scan", "update"}
  \/ pc = "send" /\ Len(idsChan) < IdealMaxThresholdsAmount
  \/ pc = "collect" /\ resultsChan # <<>>
  \/ pc = "fill" /\ gaps # {}

WorkerCanStep(w) ==
  \/ phase[w] = "idle" /\ idsChan # <<>>
  \/ phase[w] = "fetching"
  \/ phase[w] = "sending" /\ Len(resultsChan) < IdealMaxThresholdsAmount

SomeoneCanStep == ManagerCanStep \/ \E w \in Workers : WorkerCanStep(w)

LEMMA SendThresholdLosesNone ==
  ASSUME Inv, NoneLost, SendThreshold
  PROVE  NoneLost'
<1>1. /\ TypeOK /\ OffsetInRange /\ Sending /\ idsChan \in Seq(Nat) /\ sent \in Nat
      /\ Len(idsChan) \in Nat
  BY DEF Inv, SendThreshold, TypeOK
<1>2. highestThresholdID + offset = Probe(sent + 1) /\ Probe(sent + 1) \in Nat
  BY <1>1, ProbeFacts DEF Sending
<1>3. /\ idsChan' = Append(idsChan, Probe(sent + 1))
      /\ highestThresholdID' = Probe(sent + 1)
      /\ sent' = sent + 1 /\ pc' \in {"send", "collect"}
      /\ UNCHANGED <<results, Handed, lastSuccID, offset>>
  BY <1>2 DEF SendThreshold, Handed, Active, workerVars
<1>4. Contents(idsChan) \cup {Probe(sent + 1)} \subseteq Contents(idsChan')
  <2>1. /\ DOMAIN idsChan' = 1 .. Len(idsChan) + 1
        /\ DOMAIN idsChan = 1 .. Len(idsChan)
        /\ \A i \in DOMAIN idsChan : idsChan'[i] = idsChan[i]
        /\ idsChan'[Len(idsChan) + 1] = Probe(sent + 1)
    BY <1>1, <1>2, <1>3
  <2>2. DOMAIN idsChan \subseteq DOMAIN idsChan' /\ Len(idsChan) + 1 \in DOMAIN idsChan'
    BY <1>1, <2>1
  <2> QED  BY <2>1, <2>2 DEF Contents
<1>5. \A k : Probe(k)' = Probe(k)
  BY <1>3 DEF Probe
<1>6. ASSUME NEW k \in 1 .. sent'
      PROVE  Probe(k) \in Contents(idsChan') \cup Handed \cup DOMAIN results
  <2>1. k \in 1 .. sent \/ k = sent + 1
    BY <1>1, <1>3
  <2> QED  BY <1>4, <2>1 DEF NoneLost, SendThreshold
<1>7. Probe(sent + 1) \notin DOMAIN results
  <2>1. \A k \in 1 .. Taken : k \in Nat /\ k < sent + 1
    BY <1>1 DEF Sending, BatchIDs, Taken
  <2>2. \A k \in 1 .. Taken : Probe(k) < Probe(sent + 1) /\ Probe(k) \in Nat
    BY <1>1, <2>1, ProbeFacts
  <2> QED  BY <1>1, <1>2, <2>2 DEF Sending, BatchIDs
<1>8. Contents(idsChan)' = Contents(idsChan')
  BY DEF Contents
<1> QED  BY <1>3, <1>5, <1>6, <1>7, <1>8 DEF NoneLost

LEMMA DiscardResultLosesNone ==
  ASSUME Inv, NoneLost, DiscardResult
  PROVE  NoneLost'
<1>1. /\ TypeOK /\ OffsetInRange /\ HandedOnce
      /\ UNCHANGED <<idsChan, results, highestThresholdID, sent, lastSuccID, offset, gaps, pc>>
      /\ resultsChan # <<>> /\ resultsChan' = Tail(resultsChan)
      /\ UNCHANGED workerVars
      /\ Head(resultsChan).id < lastSuccID
  BY DEF Inv, DiscardResult, managerVars, IsStale
<1>2. Handed' = Handed \ {Head(resultsChan).id} /\ Head(resultsChan) \in Result
  BY <1>1, ResultReceived
<1>3. \A k \in 1 .. sent : Probe(k) # Head(resultsChan).id
  <2>1. \A k \in 1 .. sent : Probe(k) \in Nat /\ Probe(k) > lastSuccID
    BY <1>1, ProbeFacts
  <2> QED  BY <1>1, <1>2, <2>1 DEF Result, TypeOK
<1>4. \A k : Probe(k)' = Probe(k)
  BY <1>1 DEF Probe
<1> QED  BY <1>1, <1>2, <1>3, <1>4 DEF NoneLost, Contents

LEMMA AcceptResultLosesNone ==
  ASSUME Inv, NoneLost, AcceptResult
  PROVE  NoneLost'
<1>1. /\ TypeOK /\ HandedOnce
      /\ UNCHANGED <<idsChan, sent, lastSuccID, offset>>
      /\ pc' = "scan" /\ pc = "collect"
      /\ resultsChan # <<>> /\ resultsChan' = Tail(resultsChan)
      /\ UNCHANGED workerVars
      /\ DOMAIN results' = DOMAIN results \cup {Head(resultsChan).id}
  BY DEF Inv, AcceptResult
<1>2. Handed' = Handed \ {Head(resultsChan).id}
  BY <1>1, ResultReceived
<1>3. \A k : Probe(k)' = Probe(k)
  BY <1>1 DEF Probe
<1> QED  BY <1>1, <1>2, <1>3 DEF NoneLost, Contents

LEMMA WorkerLosesNone ==
  ASSUME Inv, NoneLost, NEW w \in Workers, Worker(w)
  PROVE  NoneLost'
<1>1. /\ TypeOK /\ HandedOnce
      /\ UNCHANGED <<results, highestThresholdID, sent, lastSuccID, offset, gaps, pc>>
  BY DEF Inv, Worker, TakeID, FetchFails, FetchSucceeds, SendResult, managerVars
<1>2. Contents(idsChan) \cup Handed \subseteq Contents(idsChan)' \cup Handed'
  <2>1. CASE TakeID(w)
    <3>1. idsChan # <<>> /\ idsChan' = Tail(idsChan) /\ idsChan \in Seq(Nat)
      BY <1>1, <2>1 DEF TakeID, TypeOK
    <3>2. Handed' = Handed \cup {Head(idsChan)}
      <4>1. Head(idsChan) \notin Handed
        BY <3>1, TakenIsNew
      <4> QED  BY <1>1, <2>1, <4>1, IDTaken
    <3>3. Contents(idsChan) \subseteq Contents(idsChan)' \cup {Head(idsChan)}
      <4>1. \A i \in DOMAIN idsChan : i = 1 \/ (i - 1 \in DOMAIN Tail(idsChan) /\ idsChan[i] = Tail(idsChan)[i - 1])
        BY <3>1
      <4>2. Head(idsChan) = idsChan[1]
        BY <3>1
      <4> QED  BY <3>1, <4>1, <4>2 DEF Contents
    <3> QED  BY <3>2, <3>3
  <2>2. CASE FetchFails(w) \/ FetchSucceeds(w)
    <3>1. idsChan' = idsChan
      BY <2>2 DEF FetchFails, FetchSucceeds
    <3> QED  BY <1>1, <2>2, <3>1, IDFetched DEF Contents
  <2>3. CASE SendResult(w)
    <3>1. idsChan' = idsChan
      BY <2>3 DEF SendResult
    <3> QED  BY <1>1, <2>3, <3>1, IDSent DEF Contents
  <2> QED  BY <2>1, <2>2, <2>3 DEF Worker
<1>3. \A k : Probe(k)' = Probe(k)
  BY <1>1 DEF Probe
<1> QED  BY <1>1, <1>2, <1>3 DEF NoneLost

LEMMA NextLosesNone ==
  ASSUME Inv, NoneLost, [Next]_vars
  PROVE  NoneLost'
<1>1. CASE StartBatch
  <2>1. /\ pc' \in {"send", "update"} /\ sent' = 0
        /\ \A k \in 1 .. sent' : FALSE
    BY <1>1 DEF StartBatch
  <2> QED  BY <2>1 DEF NoneLost
<1>2. ASSUME UNCHANGED <<idsChan, results, sent, lastSuccID, offset, Handed>>,
             pc' \in {"send", "collect", "scan"} => pc \in {"send", "collect", "scan"},
             pc' = "collect" => highestThresholdID' \notin DOMAIN results,
             pc' = "fill" => gaps' # {}
      PROVE  NoneLost'
  <2>1. \A k : Probe(k)' = Probe(k)
    BY <1>2 DEF Probe
  <2> QED  BY <1>2, <2>1 DEF NoneLost, Contents
<1>3. UNCHANGED <<resultsChan, workerVars>> => UNCHANGED Handed
  BY DEF Handed, Active, workerVars
<1>4. CASE ScanPending \/ ScanFailed
  BY <1>2, <1>3, <1>4 DEF ScanPending, ScanFailed
<1>5. CASE ScanHit \/ FillGap \/ FinishBatch
  BY <1>2, <1>3, <1>5 DEF ScanHit, FillGap, FinishBatch
<1>6. CASE BoundReached \/ UNCHANGED vars
  BY <1>2, <1>3, <1>6 DEF BoundReached, vars, managerVars, NoneLost
<1> QED  BY <1>1, <1>4, <1>5, <1>6, SendThresholdLosesNone, DiscardResultLosesNone,
            AcceptResultLosesNone, WorkerLosesNone DEF Next, Manager

\* The manager that waits for a result is not waiting for one that cannot come.
LEMMA ResultCanCome ==
  ASSUME Inv, NoneLost, pc = "collect", resultsChan = <<>>
  PROVE  \E w \in Workers : WorkerCanStep(w)
<1>1. /\ TypeOK /\ Deciding /\ highestThresholdID = Probe(level) /\ level \in 1 .. sent
      /\ highestThresholdID \notin DOMAIN results
  BY DEF Inv, NoneLost, Deciding
<1>2. highestThresholdID \in Contents(idsChan) \cup Handed
  BY <1>1 DEF NoneLost
<1>3. Len(resultsChan) = 0 /\ IdealMaxThresholdsAmount > 0
  BY PoolSize
<1>4. CASE Active # {}
  <2>1. PICK w \in Workers : phase[w] # "idle"
    BY <1>4 DEF Active
  <2>2. phase[w] \in {"fetching", "sending"}
    BY <1>1, <2>1 DEF TypeOK
  <2> QED  BY <1>3, <2>2 DEF WorkerCanStep
<1>5. CASE Active = {}
  <2>1. idsChan # <<>>
    BY <1>2, <1>5 DEF Contents, Handed
  <2>2. 1 \in Workers /\ phase[1] = "idle"
    BY <1>5, PoolSize DEF Active, Workers
  <2> QED  BY <2>1, <2>2 DEF WorkerCanStep
<1> QED  BY <1>4, <1>5

\* A manager that waits for room in the queue.
LEMMA RoomCanCome ==
  ASSUME Inv, SlowsDownOnly, pc = "send", ~ ManagerCanStep
  PROVE  \E w \in Workers : WorkerCanStep(w)
<1>1. /\ TypeOK
      /\ Len(idsChan) \in Nat /\ Len(idsChan) <= IdealMaxThresholdsAmount
      /\ Len(resultsChan) \in Nat /\ Len(resultsChan) <= IdealMaxThresholdsAmount
  BY DEF Inv, TypeOK
<1>2. Len(idsChan) = IdealMaxThresholdsAmount /\ idsChan # <<>>
  BY <1>1, PoolSize DEF ManagerCanStep
<1>3. \/ Len(resultsChan) < IdealMaxThresholdsAmount
      \/ \E w \in Workers : phase[w] # "sending"
  BY <1>1, <1>2, PoolSize DEF SlowsDownOnly
<1>4. \A w \in Workers : phase[w] \in {"idle", "fetching", "sending"}
  BY <1>1 DEF TypeOK
<1>5. 1 \in Workers
  BY PoolSize DEF Workers
<1> QED  BY <1>2, <1>3, <1>4, <1>5 DEF WorkerCanStep

\* The loop never stands still, however slow the workers are and in whatever
\* order they answer, as long as the amount is at most twice the pool and one:
\* the manager or one of the workers can always go on.
THEOREM LoopIsNeverStuck ==
  Spec => [](thresholdsAmount <= 2 * IdealMaxThresholdsAmount + 1 => SomeoneCanStep)
<1>1. ASSUME Inv, NoneLost, SlowsDownOnly
      PROVE  SomeoneCanStep
  <2>1. pc \in {"start", "send", "collect", "scan", "fill", "update"}
    BY <1>1 DEF Inv, TypeOK
  <2> QED  BY <1>1, <2>1, ResultCanCome, RoomCanCome
           DEF SomeoneCanStep, ManagerCanStep, NoneLost
<1>2. Init => Inv /\ NoneLost
  BY InitInv DEF Init, NoneLost
<1>3. Inv /\ NoneLost /\ [Next]_vars => (Inv /\ NoneLost)'
  BY NextInv, NextLosesNone
<1>4. Spec => [](Inv /\ NoneLost)
  BY <1>2, <1>3, PTL DEF Spec
<1>5. Inv /\ NoneLost
        /\ (thresholdsAmount <= 2 * IdealMaxThresholdsAmount + 1 => SlowsDownOnly)
        => (thresholdsAmount <= 2 * IdealMaxThresholdsAmount + 1 => SomeoneCanStep)
  BY <1>1
<1> QED  BY <1>4, <1>5, SlowsDownUpToTwicePool, PTL

-----------------------------------------------------------------------------
(***************************************************************************)
(* How large a batch can be that is decided.  The manager collects only    *)
(* once it has sent all thresholds of the batch; until then each of them   *)
(* is in the queue, with a worker or in the results channel, and none of   *)
(* the three holds more than the pool has workers.  A larger batch stands  *)
(* still while it is sent, so that the controller never sees its outcome.  *)
(***************************************************************************)

\* The increments for the amounts of the batches that can be decided.  It is a
\* condition on the configuration alone, which config.yml fulfils for every pool.
PoolIncrementsFit ==
  \A i \in DOMAIN Policies, c \in Timestamps \cup {MaxTimestamp},
     n \in Timestamps, a \in 1 .. 3 * IdealMaxThresholdsAmount :
       a + ComputeIncrement(i, c, n, a) < Uint16Range

\* Only batches of at most three thresholds per worker get past their sending.
DecidedBatchesAreSmall ==
  pc \notin {"start", "send"} => thresholdsAmount <= 3 * IdealMaxThresholdsAmount

NothingReceivedYet == pc = "send" => results = <<>>

BatchSizeInv == Inv /\ NoneLost /\ NothingReceivedYet /\ DecidedBatchesAreSmall

LEMMA HandedFit ==
  ASSUME TypeOK
  PROVE  IsFiniteSet(Handed) /\ Cardinality(Handed) <= 2 * IdealMaxThresholdsAmount
<1> DEFINE P == IdealMaxThresholdsAmount
           arrived == {resultsChan[i].id : i \in DOMAIN resultsChan}
           held    == {item[w].id : w \in Active}
           arrival == [i \in DOMAIN resultsChan |-> resultsChan[i].id]
           holding == [w \in Active |-> item[w].id]
<1>0. ASSUME NEW n \in Nat
      PROVE  IsFiniteSet(1 .. n) /\ Cardinality(1 .. n) = n
  <2>1. 1 \in Int /\ n \in Int /\ n - 1 + 1 = n /\ (1 > n => n = 0)
    OBVIOUS
  <2> QED  BY <2>1, FS_Interval
<1>1. /\ DOMAIN resultsChan = 1 .. Len(resultsChan)
      /\ Len(resultsChan) \in Nat /\ Len(resultsChan) <= P /\ P \in Nat
  BY PoolSize DEF TypeOK
<1>2. IsFiniteSet(DOMAIN resultsChan) /\ Cardinality(DOMAIN resultsChan) <= P
  BY <1>0, <1>1
<1>3. IsFiniteSet(Active) /\ Cardinality(Active) <= P
  <2>1. Active \subseteq Workers /\ IsFiniteSet(Workers) /\ Cardinality(Workers) = P
    BY <1>0, <1>1 DEF Active, Workers
  <2> QED  BY <2>1, FS_Subset
<1>4. IsFiniteSet(arrived) /\ Cardinality(arrived) <= Cardinality(DOMAIN resultsChan)
  <2>1. arrival \in Surjection(DOMAIN resultsChan, arrived)
    BY DEF Surjection
  <2> QED  BY <1>2, <2>1, FS_Surjection
<1>5. IsFiniteSet(held) /\ Cardinality(held) <= Cardinality(Active)
  <2>1. holding \in Surjection(Active, held)
    BY DEF Surjection
  <2> QED  BY <1>3, <2>1, FS_Surjection
<1>6. Handed = arrived \cup held
  BY DEF Handed
<1> HIDE DEF arrived, held, P
<1>7. /\ IsFiniteSet(arrived \cup held) /\ IsFiniteSet(arrived \cap held)
      /\ Cardinality(arrived \cup held)
           = Cardinality(arrived) + Cardinality(held) - Cardinality(arrived \cap held)
  BY <1>4, <1>5, FS_Union, FS_Intersection
<1>8. /\ Cardinality(arrived) \in Nat /\ Cardinality(held) \in Nat
      /\ Cardinality(arrived \cap held) \in Nat /\ Cardinality(Active) \in Nat
      /\ Cardinality(DOMAIN resultsChan) \in Nat
  BY <1>2, <1>3, <1>4, <1>5, <1>7, FS_CardinalityType
<1> QED  BY <1>1, <1>2, <1>3, <1>4, <1>5, <1>6, <1>7, <1>8 DEF P

\* While a batch is sent, every threshold a worker took is still on its way.
LEMMA TakenAreHanded ==
  ASSUME Inv, NoneLost, NothingReceivedYet, pc = "send"
  PROVE  Taken \in Nat /\ Taken <= 2 * IdealMaxThresholdsAmount
<1>1. /\ TypeOK /\ OffsetInRange /\ BatchIDs /\ DOMAIN results = {}
      /\ sent \in Nat /\ Len(idsChan) \in Nat /\ Len(idsChan) <= sent
  BY DEF Inv, Sending, BatchIDs, NothingReceivedYet, TypeOK
<1>2. Taken \in Nat /\ Taken <= sent
  BY <1>1 DEF Taken
<1>3. ASSUME NEW k \in 1 .. Taken
      PROVE  Probe(k) \in Handed
  <2>1. Probe(k) \in Contents(idsChan) \cup Handed
    BY <1>1, <1>2 DEF NoneLost
  <2>2. ASSUME NEW i \in DOMAIN idsChan
        PROVE  idsChan[i] # Probe(k)
    <3>1. i \in Nat /\ i > 0
      BY <1>1 DEF TypeOK
    <3>2. k < Taken + i /\ k \in Nat /\ Taken + i \in Nat
      BY <1>2, <3>1
    <3>3. Probe(k) < Probe(Taken + i) /\ Probe(k) \in Nat
      BY <1>1, <3>2, ProbeFacts
    <3> QED  BY <1>1, <3>3 DEF BatchIDs
  <2> QED  BY <2>1, <2>2 DEF Contents
<1> DEFINE f == [k \in 1 .. Taken |-> Probe(k)]
<1>4. f \in Injection(1 .. Taken, Handed)
  <2>1. f \in [1 .. Taken -> Handed]
    BY <1>3
  <2>2. ASSUME NEW j \in 1 .. Taken, NEW k \in 1 .. Taken, f[j] = f[k]
        PROVE  j = k
    <3>1. j \in Nat /\ k \in Nat /\ Probe(j) = Probe(k)
      BY <2>2
    <3>2. \A m, n \in Nat : m < n => Probe(m) < Probe(n)
      BY <1>1, ProbeFacts
    <3>3. Probe(j) \in Nat /\ Probe(k) \in Nat
      BY <1>1, <3>1, ProbeFacts
    <3>4. ~ (j < k) /\ ~ (k < j)
      BY <3>1, <3>2, <3>3
    <3> QED  BY <3>1, <3>4
  <2> QED  BY <2>1, <2>2 DEF Injection, IsInjective
<1>5. IsFiniteSet(1 .. Taken) /\ Cardinality(1 .. Taken) = Taken
  BY <1>2, FS_Interval
<1>6. IsFiniteSet(Handed) /\ Cardinality(Handed) <= 2 * IdealMaxThresholdsAmount
  BY <1>1, HandedFit
<1>7. Taken <= Cardinality(Handed) /\ Cardinality(Handed) \in Nat
  BY <1>4, <1>5, <1>6, FS_Injection, FS_CardinalityType
<1> QED  BY <1>2, <1>6, <1>7, PoolSize

LEMMA InitBatchSize == Init => BatchSizeInv
BY InitInv DEF Init, BatchSizeInv, NoneLost, NothingReceivedYet, DecidedBatchesAreSmall

LEMMA NextBatchSize ==
  ASSUME BatchSizeInv, [Next]_vars
  PROVE  BatchSizeInv'
<1> USE DEF NothingReceivedYet, DecidedBatchesAreSmall
<1>1. Inv' /\ NoneLost'
  BY NextInv, NextLosesNone DEF BatchSizeInv
<1>2. TypeOK /\ thresholdsAmount \in Nat /\ IdealMaxThresholdsAmount \in Nat
  BY PoolSize, Uint16IsNatural DEF BatchSizeInv, Inv, TypeOK, ControllerTypeOK
<1>3. CASE StartBatch
  <2>1. results' = <<>> /\ thresholdsAmount' = thresholdsAmount
        /\ (pc' = "update" => thresholdsAmount = 0) /\ pc' \in {"send", "update"}
    BY <1>3 DEF StartBatch, controllerVars
  <2> QED  BY <1>1, <1>2, <2>1 DEF BatchSizeInv
<1>4. CASE SendThreshold
  <2>1. /\ pc = "send" /\ results' = results /\ thresholdsAmount' = thresholdsAmount
        /\ Len(idsChan) < IdealMaxThresholdsAmount
        /\ pc' = IF sent + 1 = level THEN "collect" ELSE "send"
    BY <1>4 DEF SendThreshold, controllerVars
  <2>2. level = thresholdsAmount /\ sent \in Nat /\ Len(idsChan) \in Nat
    BY <2>1 DEF BatchSizeInv, Inv, Sending, TypeOK
  <2>3. Taken <= 2 * IdealMaxThresholdsAmount
    BY <2>1, TakenAreHanded DEF BatchSizeInv
  <2>4. sent + 1 <= 3 * IdealMaxThresholdsAmount
    BY <1>2, <2>1, <2>2, <2>3 DEF Taken
  <2> QED  BY <1>1, <2>1, <2>2, <2>4 DEF BatchSizeInv
<1>5. CASE DiscardResult \/ AcceptResult \/ ScanPending \/ ScanFailed \/ ScanHit
             \/ FillGap \/ FinishBatch
  <2>1. /\ pc \notin {"start", "send"} /\ pc' # "send"
        /\ pc' # "start" => thresholdsAmount' = thresholdsAmount
    BY <1>5 DEF DiscardResult, AcceptResult, ScanPending, ScanFailed, ScanHit, FillGap,
                FinishBatch, managerVars, controllerVars
  <2> QED  BY <1>1, <2>1 DEF BatchSizeInv
<1>6. CASE BoundReached \/ UNCHANGED vars \/ \E w \in Workers : Worker(w)
  <2>1. UNCHANGED <<thresholdsAmount, pc, results>>
    BY <1>6 DEF BoundReached, vars, managerVars, controllerVars, Worker, TakeID, FetchFails,
                FetchSucceeds, SendResult
  <2> QED  BY <1>1, <2>1 DEF BatchSizeInv
<1> QED  BY <1>3, <1>4, <1>5, <1>6 DEF Next, Manager

\* The other side of the finding about the circular wait: a batch of more than
\* three thresholds per worker never gets past its sending, so that no result of it
\* is ever received, whatever the workers do.
THEOREM LargerBatchesAreNeverDecided == Spec => []DecidedBatchesAreSmall
<1>1. BatchSizeInv => DecidedBatchesAreSmall
  BY DEF BatchSizeInv
<1> QED  BY <1>1, InitBatchSize, NextBatchSize, PTL DEF Spec

\* So the cut to 16 bits, which makes the amount 0 in the controller alone, is out of
\* reach of the batch loop: the amounts from which it would are never reported.
THEOREM BatchesAreNotEmpty ==
  ASSUME PoolIncrementsFit
  PROVE  Spec => []AmountPositive
<1>1. Init => BatchSizeInv /\ AmountPositive
  BY InitBatchSize, InitialAmountIsPositive DEF Init, ControllerInit, AmountPositive
<1>2. ASSUME BatchSizeInv, AmountPositive, [Next]_vars
      PROVE  BatchSizeInv' /\ AmountPositive'
  <2>1. CASE FinishBatch
    <3>1. /\ pc = "update" /\ TypeOK /\ ControllerTypeOK
          /\ thresholdsAmount \in 1 .. 3 * IdealMaxThresholdsAmount
      <4>1. pc = "update" /\ TypeOK /\ ControllerTypeOK
        BY <1>2, <2>1 DEF FinishBatch, BatchSizeInv, Inv, TypeOK
      <4>2. thresholdsAmount \in Nat /\ thresholdsAmount > 0
        BY <1>2, <4>1, Uint16IsNatural DEF ControllerTypeOK, AmountPositive
      <4>3. thresholdsAmount <= 3 * IdealMaxThresholdsAmount
        BY <1>2, <4>1 DEF BatchSizeInv, DecidedBatchesAreSmall
      <4> QED  BY <4>1, <4>2, <4>3, PoolSize
    <3>2. IncrementsFit
      BY <3>1 DEF PoolIncrementsFit, IncrementsFit, ControllerTypeOK
    <3>3. \E timestamp \in Timestamps : Update(level, timestamp)
      <4>1. CASE level = 0
        BY <2>1, <4>1, TimestampsAreDelays DEF FinishBatch
      <4>2. CASE level # 0
        <5>1. results[highestThresholdID] \in Result
          BY <1>2, <3>1, <4>2 DEF BatchSizeInv, Inv, HitReceived, TypeOK
        <5> QED  BY <2>1, <4>2, <5>1 DEF FinishBatch, Result
      <4> QED  BY <4>1, <4>2
    <3> QED  BY <1>2, <3>1, <3>2, <3>3, UpdateAmountPositive, NextBatchSize
  <2>2. CASE ~ FinishBatch
    <3>1. thresholdsAmount' = thresholdsAmount
      BY <1>2, <2>2 DEF Next, Manager, StartBatch, SendThreshold, DiscardResult, AcceptResult,
         ScanPending, ScanFailed, ScanHit, FillGap, BoundReached, vars, controllerVars,
         managerVars, Worker, TakeID, FetchFails, FetchSucceeds, SendResult
    <3> QED  BY <1>2, <3>1, NextBatchSize DEF AmountPositive
  <2> QED  BY <2>1, <2>2
<1> QED  BY <1>1, <1>2, PTL DEF Spec

-----------------------------------------------------------------------------
(***************************************************************************)
(* The batch loop implements Frontier, sends no ID twice and logs only     *)
(* IDs that were fetched.                                                  *)
(*                                                                         *)
(* Between two batches everything that was sent is at or below the         *)
(* frontier.  While a batch is open only what it fetched may be above the  *)
(* old frontier, so a result that is not stale is new.  Once it is decided *)
(* the gaps are what is left of the stretch between the old and the new    *)
(* frontier, or all of that stretch is skipped.                            *)
(***************************************************************************)

Settled == Delivered \cup Assigned

NoRepeats ==
  /\ \A i, j \in DOMAIN successfulItems :
       successfulItems[i] = successfulItems[j] => i = j
  /\ \A i, j \in DOMAIN subordinateItems :
       subordinateItems[i] = subordinateItems[j] => i = j
  /\ Delivered \cap Assigned = {}

\* What an open batch has settled.
OpenBatch ==
  /\ Fetched \subseteq Delivered
  /\ \A id \in Fetched : id <= highestThresholdID
  /\ \A id \in Delivered : id <= lastSuccID \/ id \in Fetched
  /\ \A id \in Assigned : id <= lastSuccID

\* The stretch up to a hit is settled but for the gaps, or is skipped.
Reached ==
  /\ highestThresholdID \in Delivered
  /\ highestThresholdID > lastSuccID
  /\ \/ lastSuccID + 1 .. highestThresholdID \subseteq Settled \cup gaps
     \/ /\ EnableBatchLimits
        /\ gaps = {}
        /\ \A id \in Assigned : id <= lastSuccID

ClosedBatch ==
  /\ gaps \subseteq lastSuccID + 1 .. highestThresholdID - 1
  /\ gaps \cap Settled = {}
  /\ \A id \in Settled : id <= highestThresholdID
  /\ Reached \/ highestThresholdID = lastSuccID

BetweenBatches ==
  /\ stateHighestID = highestThresholdID
  /\ \A id \in Settled : id <= highestThresholdID

FrontierInv ==
  /\ NoRepeats
  /\ pc # "fill" => gaps = {}
  /\ pc \in {"send", "collect", "scan"} => OpenBatch
  /\ pc \in {"fill", "update"} => ClosedBatch
  /\ pc = "start" => BetweenBatches
  /\ pc # "start" => stateHighestID = lastSuccID
  /\ stateHighestID >= InitialHighestID
  /\ LoggedFrontierConfirmed

-----------------------------------------------------------------------------
(* Sequences without repetitions                                           *)

LEMMA AppendContents ==
  ASSUME NEW seq \in Seq(Nat), NEW id \in Nat
  PROVE  Contents(Append(seq, id)) = Contents(seq) \cup {id}
<1> DEFINE longer == Append(seq, id)
<1>1. /\ Len(seq) \in Nat
      /\ DOMAIN seq = 1 .. Len(seq)
      /\ DOMAIN longer = 1 .. Len(seq) + 1
      /\ \A i \in DOMAIN seq : longer[i] = seq[i]
      /\ longer[Len(seq) + 1] = id
  OBVIOUS
<1> HIDE DEF longer
<1>2. \A i \in DOMAIN longer : i \in DOMAIN seq \/ i = Len(seq) + 1
  BY <1>1
<1>3. DOMAIN seq \subseteq DOMAIN longer /\ Len(seq) + 1 \in DOMAIN longer
  BY <1>1
<1>4. Contents(longer) = Contents(seq) \cup {id}
  BY <1>1, <1>2, <1>3 DEF Contents
<1> QED  BY <1>4 DEF longer

LEMMA AppendDistinct ==
  ASSUME NEW seq \in Seq(Nat), NEW id \in Nat, id \notin Contents(seq),
         \A i, j \in DOMAIN seq : seq[i] = seq[j] => i = j
  PROVE  \A i, j \in DOMAIN Append(seq, id) :
           Append(seq, id)[i] = Append(seq, id)[j] => i = j
<1> DEFINE longer == Append(seq, id)
<1>1. /\ \A i \in DOMAIN longer : i \in DOMAIN seq \/ i = Len(seq) + 1
      /\ \A i \in DOMAIN seq : longer[i] = seq[i]
      /\ longer[Len(seq) + 1] = id
  OBVIOUS
<1> HIDE DEF longer
<1>2. \A i, j \in DOMAIN longer : longer[i] = longer[j] => i = j
  BY <1>1 DEF Contents
<1> QED  BY <1>2 DEF longer

\* Everything that was sent is an ID.
LEMMA SettledAreIDs ==
  ASSUME TypeOK
  PROVE  Delivered \subseteq Nat /\ Assigned \subseteq Nat
<1>1. /\ \A i \in DOMAIN successfulItems : successfulItems[i] \in Nat
      /\ \A i \in DOMAIN subordinateItems : subordinateItems[i] \in Nat
  BY DEF TypeOK
<1> QED  BY <1>1 DEF Delivered, Assigned, Contents

\* The hit that decides a batch is above the frontier of the batch before.
LEMMA HitIsAbove ==
  ASSUME TypeOK, OffsetInRange, Deciding
  PROVE  highestThresholdID > lastSuccID
<1>1. level \in Nat /\ level > 0
  BY DEF TypeOK, Deciding
<1> QED  BY <1>1, ProbeFacts DEF Deciding

-----------------------------------------------------------------------------
(* What a step does to Frontier's variables                                *)

Step == [F!FrontierNext]_F!frontierVars

\* A step that leaves what was sent, and the logged frontier, as they are.
LEMMA NothingSettled ==
  ASSUME UNCHANGED <<successfulItems, subordinateItems, stateHighestID>>
  PROVE  /\ UNCHANGED <<Delivered, Assigned, Settled>>
         /\ NoRepeats => NoRepeats'
         /\ LoggedFrontierConfirmed => LoggedFrontierConfirmed'
         /\ Step
BY DEF Delivered, Assigned, Settled, Contents, NoRepeats, LoggedFrontierConfirmed,
       Step, F!frontierVars

\* An ID above the frontier that was not sent is delivered.
LEMMA Delivers ==
  ASSUME TypeOK, NoRepeats, NEW id \in Nat, id > stateHighestID, id \notin Settled,
         successfulItems' = Append(successfulItems, id),
         UNCHANGED <<subordinateItems, stateHighestID>>
  PROVE  /\ Delivered' = Delivered \cup {id}
         /\ Assigned' = Assigned
         /\ NoRepeats'
         /\ Step
<1>1. successfulItems \in Seq(Nat)
  BY DEF TypeOK
<1>2. Delivered' = Delivered \cup {id}
  BY <1>1, AppendContents DEF Delivered
<1>3. Assigned' = Assigned
  BY DEF Assigned
<1>4. \A i, j \in DOMAIN successfulItems' :
        successfulItems'[i] = successfulItems'[j] => i = j
  BY <1>1, AppendDistinct DEF Delivered, Settled, NoRepeats
<1>5. NoRepeats'
  BY <1>2, <1>3, <1>4 DEF NoRepeats, Settled
<1>6. F!Deliver(id)
  <2>1. ((InitialHighestID + 1 .. stateHighestID) \ (Delivered \cup Assigned))'
          = (InitialHighestID + 1 .. stateHighestID) \ (Delivered \cup Assigned)
    BY <1>2, <1>3 DEF TypeOK
  <2> QED  BY <1>2, <1>3, <2>1 DEF F!Deliver, Settled
<1> QED  BY <1>2, <1>3, <1>5, <1>6 DEF Step, F!FrontierNext

\* An ID above the frontier and below a delivered one is assigned.
LEMMA Assigns ==
  ASSUME TypeOK, NoRepeats, NEW id \in Nat, id > stateHighestID, id \notin Settled,
         \E hit \in Delivered : id < hit,
         subordinateItems' = Append(subordinateItems, id),
         UNCHANGED <<successfulItems, stateHighestID>>
  PROVE  /\ Delivered' = Delivered
         /\ Assigned' = Assigned \cup {id}
         /\ NoRepeats'
         /\ Step
<1>1. subordinateItems \in Seq(Nat)
  BY DEF TypeOK
<1>2. Assigned' = Assigned \cup {id}
  BY <1>1, AppendContents DEF Assigned
<1>3. Delivered' = Delivered
  BY DEF Delivered
<1>4. \A i, j \in DOMAIN subordinateItems' :
        subordinateItems'[i] = subordinateItems'[j] => i = j
  BY <1>1, AppendDistinct DEF Assigned, Settled, NoRepeats
<1>5. NoRepeats'
  BY <1>2, <1>3, <1>4 DEF NoRepeats, Settled
<1>6. F!Assign(id)
  <2>1. ((InitialHighestID + 1 .. stateHighestID) \ (Delivered \cup Assigned))'
          = (InitialHighestID + 1 .. stateHighestID) \ (Delivered \cup Assigned)
    BY <1>2, <1>3 DEF TypeOK
  <2> QED  BY <1>2, <1>3, <2>1 DEF F!Assign, Settled
<1> QED  BY <1>2, <1>3, <1>5, <1>6 DEF Step, F!FrontierNext

-----------------------------------------------------------------------------
(* Every step keeps the invariant and is a step of Frontier                *)

LEMMA FrontierInit ==
  ASSUME Init
  PROVE  FrontierInv /\ F!FrontierInit
<1>1. Delivered = {} /\ Assigned = {} /\ Settled = {}
  BY DEF Init, Delivered, Assigned, Settled, Contents
<1>2. FrontierInv
  BY <1>1, StartIsAnID
  DEF Init, FrontierInv, NoRepeats, BetweenBatches, LoggedFrontierConfirmed
<1>3. F!FrontierInit
  BY <1>1, StartIsAnID DEF Init, F!FrontierInit
<1> QED  BY <1>2, <1>3

LEMMA StartBatchFrontier ==
  ASSUME Inv, FrontierInv, StartBatch
  PROVE  FrontierInv' /\ Step
<1>1. /\ UNCHANGED <<Delivered, Assigned, Settled>>
      /\ NoRepeats' /\ LoggedFrontierConfirmed' /\ Step
  BY NothingSettled DEF StartBatch, outputVars, FrontierInv
<1>2. /\ BetweenBatches /\ gaps = {} /\ gaps' = {}
      /\ highestThresholdID' = highestThresholdID
      /\ lastSuccID' = highestThresholdID
      /\ stateHighestID' = stateHighestID
      /\ pc' \in {"update", "send"}
  BY DEF FrontierInv, StartBatch, outputVars
<1>3. Fetched' = {}
  BY DEF StartBatch, Fetched
<1>4. OpenBatch'
  BY <1>1, <1>2, <1>3 DEF OpenBatch, BetweenBatches, Settled
<1>5. ClosedBatch'
  BY <1>1, <1>2 DEF ClosedBatch, BetweenBatches
<1> QED  BY <1>1, <1>2, <1>4, <1>5 DEF FrontierInv, BetweenBatches

LEMMA SendThresholdFrontier ==
  ASSUME Inv, FrontierInv, SendThreshold
  PROVE  FrontierInv' /\ Step
<1>1. /\ UNCHANGED <<Delivered, Assigned, Settled>>
      /\ NoRepeats' /\ LoggedFrontierConfirmed' /\ Step
  BY NothingSettled DEF SendThreshold, outputVars, FrontierInv
<1>2. /\ OpenBatch /\ gaps' = {} /\ stateHighestID' = lastSuccID
      /\ UNCHANGED <<lastSuccID, results, Fetched, stateHighestID>>
      /\ pc' \in {"send", "collect"}
  BY DEF FrontierInv, SendThreshold, outputVars, Fetched
<1>3. /\ highestThresholdID' = highestThresholdID + offset
      /\ highestThresholdID \in Nat /\ offset \in Nat /\ Fetched \subseteq Nat
  BY DEF Inv, TypeOK, SendThreshold, Fetched
<1>4. \A id \in Fetched : id <= highestThresholdID'
  BY <1>2, <1>3 DEF OpenBatch
<1>5. OpenBatch'
  BY <1>1, <1>2, <1>4 DEF OpenBatch
<1> QED  BY <1>1, <1>2, <1>5 DEF FrontierInv

\* Discarding a stale result, and waiting for the next one.
LEMMA DiscardPendingFrontier ==
  ASSUME Inv, FrontierInv, DiscardResult \/ ScanPending
  PROVE  FrontierInv' /\ Step
<1>1. /\ UNCHANGED <<highestThresholdID, lastSuccID, results, gaps,
                     successfulItems, subordinateItems, stateHighestID>>
      /\ pc \in {"collect", "scan"} /\ pc' = "collect"
  BY DEF DiscardResult, ScanPending, managerVars, outputVars
<1>2. /\ UNCHANGED <<Delivered, Assigned, Settled>>
      /\ NoRepeats' /\ LoggedFrontierConfirmed' /\ Step
  BY <1>1, NothingSettled DEF FrontierInv
<1>3. OpenBatch'
  BY <1>1, <1>2 DEF FrontierInv, OpenBatch, Fetched
<1> QED  BY <1>1, <1>2, <1>3 DEF FrontierInv

\* A result that is not stale is one of the batch, not above the threshold that
\* is looked for, and the first for its ID.
LEMMA AcceptedIsNew ==
  ASSUME Inv, FrontierInv, AcceptResult
  PROVE  /\ Head(resultsChan).id \in Nat
         /\ Head(resultsChan).id > lastSuccID
         /\ Head(resultsChan).id <= highestThresholdID
         /\ Head(resultsChan).id \notin DOMAIN results
         /\ Head(resultsChan).id \notin Settled
<1> DEFINE id == Head(resultsChan).id
<1>1. TypeOK /\ OffsetInRange /\ HandedOnce /\ Deciding /\ OpenBatch
  BY DEF Inv, FrontierInv, AcceptResult
<1>2. id \in Handed /\ id \in Nat
  BY <1>1, ResultReceived DEF AcceptResult, Result
<1>3. lastSuccID \in Nat /\ id >= lastSuccID
  BY <1>1, <1>2 DEF AcceptResult, IsStale, TypeOK
<1>4. id \notin DOMAIN results
  BY <1>1, <1>2 DEF Deciding, BatchIDs
<1>5. PICK k \in 1 .. Taken : id = Probe(k)
  <2>1. ~ (id < lastSuccID)
    BY <1>2, <1>3
  <2> QED  BY <1>1, <1>2, <2>1 DEF Deciding, BatchIDs
<1>6. /\ level \in Nat /\ sent \in Nat /\ Len(idsChan) \in Nat
      /\ Taken <= sent /\ Taken \in Nat
  <2>1. idsChan \in Seq(Nat) /\ sent \in Nat /\ level \in Nat
    BY <1>1 DEF TypeOK
  <2>2. Len(idsChan) <= sent
    BY <1>1 DEF Deciding, BatchIDs
  <2> QED  BY <2>1, <2>2 DEF Taken
<1>7. k \in Nat /\ k > 0 /\ k <= level
  <2>1. k \notin level + 1 .. sent
    BY <1>1, <1>4, <1>5 DEF Deciding
  <2> QED  BY <1>6, <2>1
<1>8. id > lastSuccID
  BY <1>1, <1>5, <1>7, ProbeFacts
<1>9. id <= highestThresholdID
  <2>1. highestThresholdID = Probe(level)
    BY <1>1 DEF Deciding
  <2>2. k = level \/ k < level
    BY <1>6, <1>7
  <2>3. Probe(k) \in Nat /\ Probe(level) \in Nat
    BY <1>1, <1>6, <1>7, ProbeFacts
  <2>4. k < level => Probe(k) < Probe(level)
    BY <1>1, <1>6, <1>7, ProbeFacts
  <2> QED  BY <1>5, <2>1, <2>2, <2>3, <2>4
<1>10. id \notin Settled
  <2>1. ~ (id <= lastSuccID)
    BY <1>2, <1>3, <1>8
  <2>2. id \notin Fetched
    BY <1>4 DEF Fetched
  <2> QED  BY <1>1, <2>1, <2>2 DEF OpenBatch, Settled
<1> QED  BY <1>2, <1>4, <1>8, <1>9, <1>10

LEMMA AcceptResultFrontier ==
  ASSUME Inv, FrontierInv, AcceptResult
  PROVE  FrontierInv' /\ Step
<1> DEFINE result == Head(resultsChan)
<1>1. TypeOK /\ OpenBatch /\ NoRepeats /\ stateHighestID = lastSuccID
  BY DEF Inv, FrontierInv, AcceptResult
<1>2. /\ UNCHANGED <<highestThresholdID, lastSuccID, gaps, subordinateItems,
                     stateHighestID>>
      /\ pc' = "scan" /\ gaps' = {}
      /\ results' = [id \in DOMAIN results \cup {result.id} |->
                       IF id = result.id THEN result ELSE results[id]]
      /\ successfulItems' = IF result.success
                              THEN Append(successfulItems, result.id)
                              ELSE successfulItems
  BY DEF AcceptResult, FrontierInv
<1>3. /\ result.id \in Nat /\ result.id > lastSuccID
      /\ result.id <= highestThresholdID
      /\ result.id \notin DOMAIN results /\ result.id \notin Settled
  BY AcceptedIsNew
<1> HIDE DEF result
<1>4. Fetched' = Fetched \cup (IF result.success THEN {result.id} ELSE {})
  BY <1>2, <1>3 DEF Fetched
<1>5. CASE result.success
  <2>1. /\ Delivered' = Delivered \cup {result.id}
        /\ Assigned' = Assigned /\ NoRepeats' /\ Step
    BY <1>1, <1>2, <1>3, <1>5, Delivers
  <2>2. OpenBatch'
    BY <1>1, <1>2, <1>3, <1>4, <1>5, <2>1 DEF OpenBatch
  <2>3. LoggedFrontierConfirmed'
    BY <1>2, <2>1 DEF FrontierInv, LoggedFrontierConfirmed, Delivered
  <2> QED  BY <1>1, <1>2, <2>1, <2>2, <2>3 DEF FrontierInv
<1>6. CASE ~ result.success
  <2>1. /\ UNCHANGED <<Delivered, Assigned>>
        /\ NoRepeats' /\ LoggedFrontierConfirmed' /\ Step
    BY <1>2, <1>6, NothingSettled DEF FrontierInv
  <2>2. OpenBatch'
    BY <1>1, <1>2, <1>4, <1>6, <2>1 DEF OpenBatch
  <2> QED  BY <1>1, <1>2, <2>1, <2>2 DEF FrontierInv
<1> QED  BY <1>5, <1>6

LEMMA ScanFailedFrontier ==
  ASSUME Inv, FrontierInv, ScanFailed
  PROVE  FrontierInv' /\ Step
<1>1. /\ TypeOK /\ OffsetInRange /\ Deciding /\ OpenBatch /\ TopFailed
      /\ stateHighestID = lastSuccID
  BY DEF Inv, FrontierInv, ScanFailed
<1>2. /\ UNCHANGED <<lastSuccID, results, gaps, successfulItems,
                     subordinateItems, stateHighestID>>
      /\ gaps' = {}
      /\ pc' = IF level = 1 THEN "update" ELSE "scan"
      /\ highestThresholdID' = highestThresholdID - offset
  BY DEF ScanFailed, FrontierInv, outputVars, LoweredID
<1>3. /\ UNCHANGED <<Delivered, Assigned, Settled, Fetched>>
      /\ NoRepeats' /\ LoggedFrontierConfirmed' /\ Step
  BY <1>2, NothingSettled DEF FrontierInv, Fetched
<1>4. /\ level \in Nat /\ level > 0 /\ level - 1 \in Nat
      /\ highestThresholdID' = Probe(level - 1)
  <2>1. level \in Nat /\ level > 0 /\ level - 1 \in Nat /\ (level - 1) + 1 = level
    BY <1>1 DEF TypeOK, Deciding
  <2>2. Probe(level) = Probe(level - 1) + offset /\ Probe(level - 1) \in Nat
    BY <1>1, <2>1, ProbeFacts
  <2>3. highestThresholdID = Probe(level) /\ offset \in Nat
    BY <1>1 DEF Deciding, TypeOK
  <2> QED  BY <1>2, <2>1, <2>2, <2>3
\* The threshold that failed was the last one above those below it.
<1>5. ASSUME NEW id \in Fetched
      PROVE  \E k \in 1 .. level - 1 : id = Probe(k)
  <2>1. id \in DOMAIN results /\ id # highestThresholdID
    BY <1>1 DEF Fetched, TopFailed
  <2>2. PICK k \in 1 .. Taken : id = Probe(k)
    BY <1>1, <2>1 DEF Deciding, BatchIDs
  <2>3. k \in Nat /\ k > 0
    <3>1. Taken \in Int
      <4>1. idsChan \in Seq(Nat) /\ sent \in Nat
        BY <1>1 DEF TypeOK
      <4> QED  BY <4>1 DEF Taken
    <3> QED  BY <2>2, <3>1
  <2>4. Probe(k) <= Probe(level) /\ Probe(k) # Probe(level)
    BY <1>1, <2>1, <2>2 DEF OpenBatch, Deciding
  <2>5. ~ (level < k)
    <3>1. Probe(k) \in Nat /\ Probe(level) \in Nat
      BY <1>1, <1>4, <2>3, ProbeFacts
    <3>2. level < k => Probe(level) < Probe(k)
      BY <1>1, <1>4, <2>3, ProbeFacts
    <3> QED  BY <2>4, <3>1, <3>2
  <2>6. k # level
    BY <2>4
  <2>7. k \in 1 .. level - 1
    BY <1>4, <2>3, <2>5, <2>6
  <2> QED  BY <2>2, <2>7
<1>6. ASSUME level # 1
      PROVE  FrontierInv'
  <2>1. ASSUME NEW id \in Fetched
        PROVE  id <= Probe(level - 1)
    <3>1. PICK k \in 1 .. level - 1 : id = Probe(k)
      BY <1>5
    <3>2. k \in Nat /\ (k = level - 1 \/ k < level - 1)
      BY <1>4, <3>1
    <3>3. Probe(k) \in Nat /\ Probe(level - 1) \in Nat
      BY <1>1, <1>4, <3>2, ProbeFacts
    <3>4. k < level - 1 => Probe(k) < Probe(level - 1)
      BY <1>1, <1>4, <3>2, ProbeFacts
    <3> QED  BY <3>1, <3>2, <3>3, <3>4
  <2>2. OpenBatch'
    BY <1>1, <1>2, <1>3, <1>4, <2>1 DEF OpenBatch
  <2> QED  BY <1>1, <1>2, <1>3, <1>6, <2>2 DEF FrontierInv
<1>7. ASSUME level = 1
      PROVE  FrontierInv'
  <2>1. Fetched = {}
    BY <1>5, <1>7
  <2>2. highestThresholdID' = lastSuccID
    BY <1>1, <1>4, <1>7, ProbeFacts
  <2>3. ClosedBatch'
    BY <1>1, <1>2, <1>3, <2>1, <2>2 DEF OpenBatch, ClosedBatch, Settled
  <2> QED  BY <1>1, <1>2, <1>3, <1>7, <2>3 DEF FrontierInv
<1> QED  BY <1>3, <1>6, <1>7

LEMMA ScanHitFrontier ==
  ASSUME Inv, FrontierInv, ScanHit
  PROVE  FrontierInv' /\ Step
<1>1. /\ TypeOK /\ OffsetInRange /\ Deciding /\ OpenBatch
      /\ stateHighestID = lastSuccID
      /\ highestThresholdID \in Fetched /\ highestThresholdID \in Nat
  BY DEF Inv, FrontierInv, ScanHit, Fetched
<1>2. /\ UNCHANGED <<lastSuccID, highestThresholdID, results, successfulItems,
                     subordinateItems, stateHighestID>>
      /\ gaps' = IF ExceedsLimit(level) THEN {} ELSE GapIDs(lastSuccID + 1)
      /\ pc' = IF gaps' = {} THEN "update" ELSE "fill"
  BY DEF ScanHit, outputVars
<1>3. /\ UNCHANGED <<Delivered, Assigned, Settled>>
      /\ NoRepeats' /\ LoggedFrontierConfirmed' /\ Step
  BY <1>2, NothingSettled DEF FrontierInv
<1>4. /\ highestThresholdID > lastSuccID /\ lastSuccID \in Nat
      /\ Settled \subseteq Nat /\ Fetched \subseteq Nat
  BY <1>1, HitIsAbove, SettledAreIDs DEF TypeOK, Settled, Fetched
<1>5. \A id \in Settled : id <= highestThresholdID
  BY <1>1, <1>4 DEF OpenBatch, Settled
<1>6. GapIDs(lastSuccID + 1) \subseteq lastSuccID + 1 .. highestThresholdID - 1
  <2> SUFFICES ASSUME NEW id \in GapIDs(lastSuccID + 1)
               PROVE  id \in lastSuccID + 1 .. highestThresholdID - 1
    OBVIOUS
  <2>1. id \in lastSuccID + 1 .. highestThresholdID /\ id # highestThresholdID
    BY <1>1 DEF GapIDs
  <2> QED  BY <1>1, <1>4, <2>1
<1>7. GapIDs(lastSuccID + 1) \cap Settled = {}
  <2> SUFFICES ASSUME NEW id \in GapIDs(lastSuccID + 1), id \in Settled
               PROVE  FALSE
    OBVIOUS
  <2>1. id \in lastSuccID + 1 .. highestThresholdID /\ id \notin Fetched
    BY DEF GapIDs
  <2>2. ~ (id <= lastSuccID)
    BY <1>1, <1>4, <2>1
  <2> QED  BY <1>1, <2>1, <2>2 DEF OpenBatch, Settled
<1>8. lastSuccID + 1 .. highestThresholdID
        \subseteq Settled \cup GapIDs(lastSuccID + 1)
  <2> SUFFICES ASSUME NEW id \in lastSuccID + 1 .. highestThresholdID,
                      id \notin Settled
               PROVE  id \in GapIDs(lastSuccID + 1)
    OBVIOUS
  <2>1. id \notin Fetched
    BY <1>1 DEF OpenBatch, Settled
  <2>2. id < highestThresholdID
    BY <1>1, <1>4, <2>1
  <2> QED  BY <1>1, <2>1, <2>2 DEF GapIDs
<1>9. Reached'
  <2>1. highestThresholdID \in Delivered
    BY <1>1 DEF OpenBatch
  <2>2. CASE ExceedsLimit(level)
    BY <1>1, <1>2, <1>3, <1>4, <2>1, <2>2 DEF Reached, ExceedsLimit, OpenBatch
  <2>3. CASE ~ ExceedsLimit(level)
    BY <1>2, <1>3, <1>4, <1>8, <2>1, <2>3 DEF Reached
  <2> QED  BY <2>2, <2>3
<1>10. ClosedBatch'
  BY <1>2, <1>3, <1>5, <1>6, <1>7, <1>9 DEF ClosedBatch
<1> QED  BY <1>1, <1>2, <1>3, <1>10 DEF FrontierInv

LEMMA FillGapFrontier ==
  ASSUME Inv, FrontierInv, FillGap
  PROVE  FrontierInv' /\ Step
<1> DEFINE least == LeastOf(gaps)
<1>1. /\ TypeOK /\ ClosedBatch /\ NoRepeats /\ stateHighestID = lastSuccID
      /\ highestThresholdID \in Nat /\ lastSuccID \in Nat
  BY DEF Inv, FrontierInv, FillGap, TypeOK
<1>2. /\ gaps # {} /\ gaps' = gaps \ {least}
      /\ subordinateItems' = Append(subordinateItems, least)
      /\ UNCHANGED <<lastSuccID, highestThresholdID, successfulItems,
                     stateHighestID>>
      /\ pc' = IF gaps' = {} THEN "update" ELSE "fill"
  BY DEF FillGap
<1>3. least \in gaps
  BY <1>1, <1>2, LeastOfNaturals DEF TypeOK
<1> HIDE DEF least
<1>4. /\ least \in Nat /\ least > lastSuccID /\ least < highestThresholdID
      /\ least \notin Settled
  BY <1>1, <1>3 DEF ClosedBatch
<1>5. Reached
  BY <1>1, <1>4 DEF ClosedBatch
<1>6. lastSuccID + 1 .. highestThresholdID \subseteq Settled \cup gaps
  BY <1>2, <1>5 DEF Reached
<1>7. /\ Delivered' = Delivered /\ Assigned' = Assigned \cup {least}
      /\ NoRepeats' /\ Step
  <2>1. \E hit \in Delivered : least < hit
    BY <1>4, <1>5 DEF Reached
  <2> QED  BY <1>1, <1>2, <1>4, <2>1, Assigns
<1>8. Settled' = Settled \cup {least}
  BY <1>7 DEF Settled
<1>9. Reached'
  <2>1. lastSuccID + 1 .. highestThresholdID \subseteq Settled' \cup gaps'
    BY <1>2, <1>6, <1>8
  <2> QED  BY <1>2, <1>5, <1>7, <2>1 DEF Reached
<1>10. ClosedBatch'
  BY <1>1, <1>2, <1>4, <1>8, <1>9 DEF ClosedBatch
<1>11. LoggedFrontierConfirmed'
  BY <1>2 DEF FrontierInv, LoggedFrontierConfirmed
<1> QED  BY <1>1, <1>2, <1>7, <1>10, <1>11 DEF FrontierInv

LEMMA FinishBatchFrontier ==
  ASSUME Inv, FrontierInv, FinishBatch
  PROVE  FrontierInv' /\ Step
<1>1. /\ TypeOK /\ ClosedBatch /\ gaps = {} /\ stateHighestID = lastSuccID
      /\ highestThresholdID \in Nat /\ lastSuccID \in Nat
      /\ stateHighestID >= InitialHighestID /\ NoRepeats
      /\ LoggedFrontierConfirmed
  BY DEF Inv, FrontierInv, FinishBatch, TypeOK
<1>2. /\ UNCHANGED <<lastSuccID, highestThresholdID, gaps, successfulItems,
                     subordinateItems>>
      /\ stateHighestID' = highestThresholdID
      /\ pc' = "start"
  BY DEF FinishBatch
<1>3. UNCHANGED <<Delivered, Assigned, Settled>> /\ NoRepeats'
  BY <1>1, <1>2 DEF Delivered, Assigned, Settled, NoRepeats
<1>4. BetweenBatches'
  BY <1>1, <1>2, <1>3 DEF BetweenBatches, ClosedBatch
<1>5. CASE highestThresholdID = lastSuccID
  <2>1. stateHighestID' = stateHighestID
    BY <1>1, <1>2, <1>5
  <2>2. LoggedFrontierConfirmed' /\ Step
    BY <1>1, <1>2, <2>1, NothingSettled
  <2> QED  BY <1>1, <1>2, <1>3, <1>4, <2>1, <2>2 DEF FrontierInv
<1>6. CASE Reached
  <2>1. LoggedFrontierConfirmed'
    BY <1>2, <1>3, <1>6 DEF Reached, LoggedFrontierConfirmed, Delivered
  <2>2. stateHighestID' >= InitialHighestID
    BY <1>1, <1>2, <1>6, StartIsAnID DEF Reached
  <2>3. F!Advance(stateHighestID')
    <3>1. \A id \in Delivered : id <= highestThresholdID
      BY <1>1 DEF ClosedBatch, Settled
    <3>2. \/ F!Open(highestThresholdID) = {}
          \/ EnableBatchLimits /\ F!Passed(highestThresholdID) \cap Assigned = {}
      <4>1. CASE lastSuccID + 1 .. highestThresholdID \subseteq Settled
        BY <1>1, <4>1 DEF F!Open, F!Passed, Settled
      <4>2. CASE EnableBatchLimits /\ \A id \in Assigned : id <= lastSuccID
        <5>1. ASSUME NEW id \in lastSuccID + 1 .. highestThresholdID,
                     id \in Assigned
              PROVE  FALSE
          BY <1>1, <4>2, <5>1
        <5> QED  BY <1>1, <4>2, <5>1 DEF F!Passed
      <4> QED  BY <1>1, <1>6, <4>1, <4>2 DEF Reached
    <3>3. (InitialHighestID + 1 .. highestThresholdID) \ (Delivered \cup Assigned)
            = ((InitialHighestID + 1 .. lastSuccID) \ (Delivered \cup Assigned))
                \cup F!Open(highestThresholdID)
      <4>1. InitialHighestID + 1 .. highestThresholdID
              = (InitialHighestID + 1 .. lastSuccID)
                  \cup (lastSuccID + 1 .. highestThresholdID)
        BY <1>1, <1>6, StartIsAnID DEF Reached
      <4>2. F!Open(highestThresholdID)
              = (lastSuccID + 1 .. highestThresholdID) \ (Delivered \cup Assigned)
        BY <1>1 DEF F!Open, F!Passed
      <4> QED  BY <4>1, <4>2
    <3> QED  BY <1>1, <1>2, <1>3, <1>6, <3>1, <3>2, <3>3 DEF F!Advance, Reached
  <2>4. Step
    BY <2>3 DEF Step, F!FrontierNext
  <2> QED  BY <1>1, <1>2, <1>3, <1>4, <2>1, <2>2, <2>4 DEF FrontierInv
<1> QED  BY <1>1, <1>5, <1>6 DEF ClosedBatch

\* The workers, the bound of the model and stuttering touch nothing of it.
LEMMA OtherStepFrontier ==
  ASSUME FrontierInv, UNCHANGED <<managerVars, outputVars>>
  PROVE  FrontierInv' /\ Step
<1>1. /\ UNCHANGED <<pc, gaps, lastSuccID, highestThresholdID, results,
                     successfulItems, subordinateItems, stateHighestID, Fetched>>
  BY DEF managerVars, outputVars, Fetched
<1>2. /\ UNCHANGED <<Delivered, Assigned, Settled>>
      /\ NoRepeats' /\ LoggedFrontierConfirmed' /\ Step
  BY <1>1, NothingSettled DEF FrontierInv
<1>3. OpenBatch' = OpenBatch /\ ClosedBatch' = ClosedBatch
      /\ BetweenBatches' = BetweenBatches
  BY <1>1, <1>2 DEF OpenBatch, ClosedBatch, Reached, BetweenBatches
<1> QED  BY <1>1, <1>2, <1>3 DEF FrontierInv

LEMMA NextFrontier ==
  ASSUME Inv, FrontierInv, [Next]_vars
  PROVE  FrontierInv' /\ Step
<1>1. CASE Manager
  BY <1>1, StartBatchFrontier, SendThresholdFrontier, DiscardPendingFrontier,
     AcceptResultFrontier, ScanFailedFrontier, ScanHitFrontier, FillGapFrontier,
     FinishBatchFrontier
  DEF Manager
<1>2. ASSUME NEW w \in Workers, Worker(w) PROVE FrontierInv' /\ Step
  BY <1>2, OtherStepFrontier
  DEF Worker, TakeID, FetchFails, FetchSucceeds, SendResult
<1>3. CASE BoundReached \/ UNCHANGED vars
  BY <1>3, OtherStepFrontier DEF BoundReached, vars
<1> QED  BY <1>1, <1>2, <1>3 DEF Next

\* Without limits on the batches the frontier passes what is settled only.
NothingSkipped ==
  ~ EnableBatchLimits => InitialHighestID + 1 .. stateHighestID \subseteq Settled

LEMMA InitSkipsNothing == Init => NothingSkipped
BY StartIsAnID DEF Init, NothingSkipped

LEMMA NextSkipsNothing ==
  ASSUME NothingSkipped, Step
  PROVE  NothingSkipped'
<1> DEFINE skipped == (InitialHighestID + 1 .. stateHighestID)
                        \ (Delivered \cup Assigned)
<1>1. NothingSkipped <=> (~ EnableBatchLimits => skipped = {})
  BY DEF NothingSkipped, Settled
<1>2. NothingSkipped' <=> (~ EnableBatchLimits => skipped' = {})
  BY DEF NothingSkipped, Settled
<1>3. ASSUME ~ EnableBatchLimits
      PROVE  skipped' \in {skipped, skipped \cup {}}
  BY <1>3
  DEF Step, F!FrontierNext, F!frontierVars, F!Deliver, F!Assign, F!Advance
<1> QED  BY <1>1, <1>2, <1>3

\* A gap is sent on while it is above the frontier and not settled.
LEMMA FilledIsNew ==
  ASSUME Inv, FrontierInv, FillGap
  PROVE  /\ LeastOf(gaps) \in Nat
         /\ LeastOf(gaps) > stateHighestID
         /\ LeastOf(gaps) \notin Settled
<1>1. /\ TypeOK /\ ClosedBatch /\ gaps # {}
      /\ stateHighestID = lastSuccID /\ lastSuccID \in Nat
  BY DEF Inv, FrontierInv, FillGap, TypeOK
<1>2. LeastOf(gaps) \in gaps /\ gaps \subseteq Nat
  BY <1>1, LeastOfNaturals DEF TypeOK
<1>3. /\ gaps \subseteq lastSuccID + 1 .. highestThresholdID - 1
      /\ gaps \cap Settled = {}
      /\ highestThresholdID \in Int
  BY <1>1 DEF ClosedBatch, TypeOK
<1>4. PICK id \in gaps : id = LeastOf(gaps)
  BY <1>2
<1>5. id > lastSuccID /\ id \notin Settled
  BY <1>1, <1>2, <1>3
<1> QED  BY <1>1, <1>2, <1>4, <1>5

LEMMA FrontierInvAlways == Spec => [](Inv /\ FrontierInv)
<1>1. Init => Inv /\ FrontierInv
  BY InitInv, FrontierInit
<1>2. Inv /\ FrontierInv /\ [Next]_vars => (Inv /\ FrontierInv)'
  BY NextInv, NextFrontier
<1> QED  BY <1>1, <1>2, PTL DEF Spec

-----------------------------------------------------------------------------
(* Theorems                                                                *)

\* However the results of the batches are ordered and delayed, no ID is sent
\* twice: not to one channel and not to both.
THEOREM EachIDIsSettledOnce == Spec => []SettledOnce
<1>1. ASSUME Inv, FrontierInv
      PROVE  SettledOnce
  <2> DEFINE settled == successfulItems \o subordinateItems
  <2> SUFFICES ASSUME NEW i \in DOMAIN settled, NEW j \in DOMAIN settled,
                      settled[i] = settled[j]
               PROVE  i = j
    BY DEF SettledOnce
  <2>1. NoRepeats /\ successfulItems \in Seq(Nat) /\ subordinateItems \in Seq(Nat)
    BY <1>1 DEF Inv, TypeOK, FrontierInv
  <2>2. \A k \in DOMAIN settled :
          \/ /\ k \in DOMAIN successfulItems
             /\ settled[k] = successfulItems[k]
          \/ /\ k - Len(successfulItems) \in DOMAIN subordinateItems
             /\ settled[k] = subordinateItems[k - Len(successfulItems)]
    BY <2>1
  <2>3. \A k \in DOMAIN successfulItems, l \in DOMAIN subordinateItems :
          successfulItems[k] # subordinateItems[l]
    BY <2>1 DEF NoRepeats, Delivered, Assigned, Contents
  <2>4. i \in Int /\ j \in Int /\ Len(successfulItems) \in Int
    BY <2>1
  <2> HIDE DEF settled
  <2>5. CASE i \in DOMAIN successfulItems /\ settled[i] = successfulItems[i]
    BY <2>1, <2>2, <2>3, <2>5 DEF NoRepeats
  <2>6. CASE /\ i - Len(successfulItems) \in DOMAIN subordinateItems
             /\ settled[i] = subordinateItems[i - Len(successfulItems)]
    <3>1. /\ j - Len(successfulItems) \in DOMAIN subordinateItems
          /\ settled[j] = subordinateItems[j - Len(successfulItems)]
      BY <2>2, <2>3, <2>6
    <3>2. i - Len(successfulItems) = j - Len(successfulItems)
      BY <2>1, <2>6, <3>1 DEF NoRepeats
    <3> QED  BY <2>4, <3>2
  <2> QED  BY <2>2, <2>5, <2>6
<1> QED  BY <1>1, FrontierInvAlways, PTL

\* The highest ID of the status log is the one the crawler began with or one
\* that a worker really fetched.
THEOREM LoggedFrontierIsConfirmed == Spec => []LoggedFrontierConfirmed
<1>1. FrontierInv => LoggedFrontierConfirmed
  BY DEF FrontierInv
<1> QED  BY <1>1, FrontierInvAlways, PTL

\* The batch loop implements Frontier: the frontier only moves to a fetched ID,
\* and what it passes was delivered or assigned once, or is a batch over the
\* limit that is skipped as a whole.
THEOREM LoopImplementsFrontier == Spec => ImplementsFrontier
<1>1. Init => F!FrontierInit
  BY FrontierInit
<1>2. Inv /\ FrontierInv /\ [Next]_vars => [F!FrontierNext]_F!frontierVars
  BY NextFrontier DEF Step
<1> QED  BY <1>1, <1>2, FrontierInvAlways, PTL
         DEF ImplementsFrontier, F!FrontierSpec, Spec

\* The frontier of the log never moves down.
FrontierNeverFalls == [][stateHighestID' >= stateHighestID]_stateHighestID

\* FrontierNeverFalls: whatever the workers fetch and in whichever order, the
\* highest ID that the status log shows never goes down, although the manager
\* lowers highestThresholdID while it decides a batch.
THEOREM FrontierOnlyAdvances == Spec => FrontierNeverFalls
<1>1. ASSUME Inv, FrontierInv, [Next]_vars
      PROVE  [stateHighestID' >= stateHighestID]_stateHighestID
  <2>1. Step /\ stateHighestID \in Nat
    BY <1>1, NextFrontier DEF Inv, TypeOK
  <2>2. ASSUME F!Advance(stateHighestID')
        PROVE  stateHighestID' >= stateHighestID
    <3>1. stateHighestID' > stateHighestID /\ stateHighestID' \in Nat
      BY <1>1, <2>2, NextInv DEF F!Advance, Inv, TypeOK
    <3> QED  BY <2>1, <3>1
  <2>3. CASE F!FrontierNext
    BY <2>2, <2>3 DEF F!FrontierNext, F!Deliver, F!Assign
  <2> QED  BY <2>1, <2>3 DEF Step, F!frontierVars
<1> QED  BY <1>1, FrontierInvAlways, PTL DEF Spec, FrontierNeverFalls
=============================================================================
