------------------------- MODULE AdaptiveBatchProofs -------------------------
(***************************************************************************)
(* What AdaptiveBatch promises, for every value of its constants that      *)
(* satisfies SizingAssumption.                                             *)
(***************************************************************************)
EXTENDS AdaptiveBatch, TLAPS

(* The average is positive: the estimate and the optimal size, which       *)
(* divides by it, take the branch of a known average.                      *)
AveragePositive == avgLogSize >= 1

SizingInv == SizingTypeOK /\ BatchSizeBounds /\ AveragePositive
-----------------------------------------------------------------------------
(* The bounds a sender is built with are positive.                         *)
LEMMA MaxBatchSizePositive == MaxBatchSize \in Nat \ {0}
BY SizingAssumption, SMT DEF MaxBatchSize, Lesser

(* A new sender starts with at least one event and at most maxBatchSize.   *)
LEMMA InitialBatchSizeInRange ==
    InitialBatchSize \in Nat \ {0} /\ InitialBatchSize <= MaxBatchSize
BY SizingAssumption, MaxBatchSizePositive, SMT
   DEF InitialBatchSize, Lesser, Greater

(* The moving average of positive sizes is a positive integer.             *)
LEMMA NextAveragePositive ==
    ASSUME SizingTypeOK, AveragePositive, NEW size \in LogSizes
    PROVE  NextAverage(size) \in Nat /\ NextAverage(size) >= 1
<1>1. size \in Nat /\ size >= 1
  BY SizingAssumption
<1>2. avgLogSize \in Nat /\ avgLogSize >= 1
  BY DEF SizingTypeOK, AveragePositive
<1>3. QED
  BY <1>1, <1>2, SMT DEF NextAverage

(* The estimate of a batch that is not empty is a positive integer.        *)
LEMMA EstimatePositive ==
    ASSUME SizingTypeOK, AveragePositive, NEW count \in Nat, count >= 1
    PROVE  EstimateBatchSize(count) \in Nat /\ EstimateBatchSize(count) > 0
<1>1. avgLogSize \in Nat /\ avgLogSize >= 1
  BY DEF SizingTypeOK, AveragePositive
<1>2. avgLogSize * count \in Nat
  BY <1>1, SMT
<1>3. QED
  BY <1>1, <1>2, SMT DEF EstimateBatchSize

(* The optimal size is an integer: the division is by a positive average   *)
(* and by a positive step.                                                 *)
LEMMA OptimalIsInteger ==
    ASSUME SizingTypeOK, AveragePositive
    PROVE  CalculateOptimalBatchSize \in Int
<1>1. avgLogSize \in Nat /\ avgLogSize >= 1 /\ currentBatchSize \in Int
  BY DEF SizingTypeOK, AveragePositive
<1> DEFINE safe == (MaxPayload * 8) \div 10
           ideal == safe \div avgLogSize
           rounded == (ideal + BatchAdjustStep \div 2) \div BatchAdjustStep
<1>2. safe \in Int
  BY SizingAssumption, SMT
<1>3. ideal \in Int
  <2> HIDE DEF safe
  <2> QED BY <1>1, <1>2, SMT
<1>4. rounded \in Int /\ rounded * BatchAdjustStep \in Int
  <2> HIDE DEF ideal
  <2>1. BatchAdjustStep \in Nat /\ BatchAdjustStep > 0
    BY SizingAssumption
  <2>2. ideal + BatchAdjustStep \div 2 \in Int
    BY <1>3, <2>1, SMT
  <2>3. rounded \in Int
    BY <2>1, <2>2, SMT
  <2> HIDE DEF rounded
  <2> QED BY <2>1, <2>3, SMT
<1>5. MinBatchSize \in Int /\ MaxBatchSize \in Int
  BY SizingAssumption, MaxBatchSizePositive
<1>6. CalculateOptimalBatchSize =
        IF avgLogSize = 0 THEN currentBatchSize
        ELSE IF ideal < MinBatchSize THEN MinBatchSize
        ELSE IF ideal > MaxBatchSize THEN MaxBatchSize
        ELSE rounded * BatchAdjustStep
  BY DEF CalculateOptimalBatchSize
<1> HIDE DEF ideal, rounded
<1>7. QED
  BY <1>1, <1>4, <1>5, <1>6

(* Growing keeps the batch size in its bounds and never lowers it.         *)
LEMMA GrownSizeInRange ==
    ASSUME SizingInv
    PROVE  /\ GrownSize \in Nat \ {0}
           /\ GrownSize >= currentBatchSize
           /\ GrownSize <= Greater(MinBatchSize, MaxBatchSize)
<1>1. CalculateOptimalBatchSize \in Int
  BY OptimalIsInteger DEF SizingInv
<1>2. QED
  BY <1>1, SizingAssumption, MaxBatchSizePositive, SMT
     DEF GrownSize, Lesser, Greater, SizingInv, SizingTypeOK, BatchSizeBounds

(* So does shrinking, whatever the size of the batch that failed.          *)
LEMMA ReducedSizeInRange ==
    ASSUME SizingInv, NEW errorSize \in Nat
    PROVE  /\ ReducedSize(errorSize) \in Nat \ {0}
           /\ ReducedSize(errorSize) <= Greater(MinBatchSize, MaxBatchSize)
<1> DEFINE perEvent == errorSize \div avgLogSize
           maxSafe == perEvent \div 2
           halved == Greater(currentBatchSize \div 2, MinBatchSize)
<1>1. perEvent \in Int
  BY SMT DEF SizingInv, SizingTypeOK, AveragePositive
<1>2. maxSafe \in Int
  <2> HIDE DEF perEvent
  <2> QED BY <1>1, SMT
<1>3. /\ halved \in Nat \ {0}
      /\ halved <= Greater(MinBatchSize, MaxBatchSize)
  BY SizingAssumption, MaxBatchSizePositive, SMT
     DEF Greater, SizingInv, SizingTypeOK, BatchSizeBounds
<1>4. Greater(MinBatchSize, MaxBatchSize) \in Int
  BY SizingAssumption, MaxBatchSizePositive DEF Greater
<1>5. ReducedSize(errorSize) \in {maxSafe, halved}
      /\ (ReducedSize(errorSize) = maxSafe
            => ReducedSize(errorSize) = halved
               \/ (maxSafe > 0 /\ maxSafe < halved))
  BY DEF ReducedSize
<1> HIDE DEF maxSafe, halved
<1>6. QED
  BY <1>2, <1>3, <1>4, <1>5, SMT
-----------------------------------------------------------------------------
(* The invariant is inductive: one step per action.                        *)
LEMMA SizingInvInit == SizingInit => SizingInv
<1> SUFFICES ASSUME SizingInit PROVE SizingInv
  OBVIOUS
<1>1. InitialBatchSize <= Greater(MinBatchSize, MaxBatchSize)
  BY InitialBatchSizeInRange, MaxBatchSizePositive, SizingAssumption, SMT
     DEF Greater
<1>2. QED
  BY <1>1, InitialBatchSizeInRange, SizingAssumption, SMT
     DEF SizingInit, SizingInv, SizingTypeOK, BatchSizeBounds, AveragePositive

(* A sample changes the average alone, and keeps it positive.              *)
LEMMA SampledKeepsInv ==
    ASSUME SizingInv, NEW size \in LogSizes, Sampled(size)
    PROVE  SizingInv'
<1>1. sizeSampleCount' \in 0..(SampleEvery - 1)
  BY SizingAssumption, SMT DEF Sampled, SizingInv, SizingTypeOK
<1>2. avgLogSize' \in Nat /\ avgLogSize' >= 1
  BY NextAveragePositive, SMT
     DEF Sampled, SizingInv, SizingTypeOK, AveragePositive
<1>3. QED
  BY <1>1, <1>2
     DEF Sampled, SizingInv, SizingTypeOK, BatchSizeBounds, AveragePositive

(* A failure leaves the batch size or reduces it within its range.         *)
LEMMA FlushFailedKeepsInv ==
    ASSUME SizingInv, NEW count \in Nat, count >= 1, FlushFailed(count)
    PROVE  SizingInv'
<1>1. CASE UNCHANGED sizingVars
  BY <1>1 DEF SizingInv, SizingTypeOK, BatchSizeBounds, AveragePositive,
              sizingVars
<1>2. CASE ~UNCHANGED sizingVars
  <2>1. EstimateBatchSize(count) \in Nat
    BY EstimatePositive DEF SizingInv
  <2>2. /\ currentBatchSize' \in Nat \ {0}
        /\ currentBatchSize' <= Greater(MinBatchSize, MaxBatchSize)
    BY <1>2, <2>1, ReducedSizeInRange
       DEF FlushFailed, SizingInv, SizingTypeOK, BatchSizeBounds
  <2>3. consecutiveErrors' \in 0..ErrorThreshold
    BY <1>2, SizingAssumption, SMT
       DEF FlushFailed, SizingInv, SizingTypeOK, Lesser
  <2>4. /\ cooling' = TRUE
        /\ UNCHANGED <<avgLogSize, sizeSampleCount, successfulFlushes,
                       flushCount>>
    BY <1>2 DEF FlushFailed
  <2>5. QED
    BY <2>2, <2>3, <2>4
       DEF SizingInv, SizingTypeOK, BatchSizeBounds, AveragePositive
<1>3. QED
  BY <1>1, <1>2

(* A success leaves the batch size or grows it within its range.           *)
LEMMA FlushSucceededKeepsInv ==
    ASSUME SizingInv, FlushSucceeded
    PROVE  SizingInv'
<1>1. /\ flushCount' \in 0..(GrowEvery - 1)
      /\ successfulFlushes' \in 0..(GrowEvery - 1)
  BY SizingAssumption, SMT DEF FlushSucceeded, SizingInv, SizingTypeOK
<1>2. /\ currentBatchSize' \in Nat \ {0}
      /\ currentBatchSize' <= Greater(MinBatchSize, MaxBatchSize)
  BY GrownSizeInRange
     DEF FlushSucceeded, SizingInv, SizingTypeOK, BatchSizeBounds
<1>3. consecutiveErrors' \in 0..ErrorThreshold
  BY SizingAssumption, SMT DEF FlushSucceeded, SizingInv, SizingTypeOK
<1>4. cooling' \in BOOLEAN
  BY Zenon DEF FlushSucceeded, SizingInv, SizingTypeOK
<1>5. QED
  BY <1>1, <1>2, <1>3, <1>4
     DEF FlushSucceeded, SizingInv, SizingTypeOK, BatchSizeBounds,
         AveragePositive

(* The clock touches nothing the invariant is about.                       *)
LEMMA CooldownElapsesKeepsInv ==
    ASSUME SizingInv, CooldownElapses
    PROVE  SizingInv'
BY DEF CooldownElapses, SizingInv, SizingTypeOK, BatchSizeBounds,
       AveragePositive

(* Every step keeps the invariant.                                         *)
LEMMA SizingInvStep == SizingInv /\ [SizingNext]_sizingVars => SizingInv'
<1> SUFFICES ASSUME SizingInv, [SizingNext]_sizingVars PROVE SizingInv'
  OBVIOUS
<1>1. ASSUME NEW size \in LogSizes, Sampled(size) PROVE SizingInv'
  BY <1>1, SampledKeepsInv
<1>2. ASSUME NEW count \in 1..MaxQueueSize, FlushFailed(count)
      PROVE  SizingInv'
  <2>1. count \in Nat /\ count >= 1
    BY SizingAssumption
  <2>2. QED
    BY <1>2, <2>1, FlushFailedKeepsInv
<1>3. CASE FlushSucceeded
  BY <1>3, FlushSucceededKeepsInv
<1>4. CASE CooldownElapses
  BY <1>4, CooldownElapsesKeepsInv
<1>5. CASE UNCHANGED sizingVars
  BY <1>5 DEF SizingInv, SizingTypeOK, BatchSizeBounds, AveragePositive,
              sizingVars
<1>6. QED
  BY <1>1, <1>2, <1>3, <1>4, <1>5 DEF SizingNext, SomeFlushFails

(* The sizing state keeps its invariant.                                   *)
THEOREM SizingInvariant == SizingSpec => []SizingInv
BY SizingInvInit, SizingInvStep, PTL DEF SizingSpec
-----------------------------------------------------------------------------
(* For every configuration: the batch size is a positive integer.          *)
THEOREM SizingTypeCorrect == SizingSpec => []SizingTypeOK
<1>1. SizingInv => SizingTypeOK
  BY DEF SizingInv
<1>2. QED
  BY <1>1, SizingInvariant, PTL

(* For every configuration: the batch size stays within its bounds.        *)
THEOREM BatchSizeBounded == SizingSpec => []BatchSizeBounds
<1>1. SizingInv => BatchSizeBounds
  BY DEF SizingInv
<1>2. QED
  BY <1>1, SizingInvariant, PTL
-----------------------------------------------------------------------------
(* Averaging keeps the bounds that hold of the average and of the sample.  *)
LEMMA NextAverageBetween ==
    ASSUME SizingInv, AverageIsAnAverage, NEW size \in LogSizes,
           NEW bound \in LogSizes \cup {InitialAvgLogSize}
    PROVE  /\ bound <= avgLogSize /\ bound <= size => bound <= NextAverage(size)
           /\ avgLogSize <= bound /\ size <= bound => NextAverage(size) <= bound
<1>1. /\ size \in Nat /\ size >= 1
      /\ bound \in Nat /\ bound >= 1
      /\ avgLogSize \in Nat /\ avgLogSize >= 1
  BY SizingAssumption DEF SizingInv, SizingTypeOK, AveragePositive
<1>2. QED
  BY <1>1, SMT DEF NextAverage

(* A step keeps the average among the sizes.                               *)
LEMMA AverageStep ==
    SizingInv /\ AverageIsAnAverage /\ [SizingNext]_sizingVars
      => AverageIsAnAverage'
<1> SUFFICES ASSUME SizingInv, AverageIsAnAverage, [SizingNext]_sizingVars
             PROVE  AverageIsAnAverage'
  OBVIOUS
<1>1. CASE avgLogSize' = avgLogSize
  BY <1>1 DEF AverageIsAnAverage
<1>2. ASSUME NEW size \in LogSizes, avgLogSize' = NextAverage(size)
      PROVE  AverageIsAnAverage'
  <2> SUFFICES ASSUME NEW bound \in LogSizes \cup {InitialAvgLogSize}
        PROVE /\ (\A s \in LogSizes \cup {InitialAvgLogSize} : bound <= s)
                   => bound <= avgLogSize'
              /\ (\A s \in LogSizes \cup {InitialAvgLogSize} : s <= bound)
                   => avgLogSize' <= bound
    BY DEF AverageIsAnAverage
  <2>1. QED
    BY <1>2, NextAverageBetween DEF AverageIsAnAverage
<1>3. avgLogSize' = avgLogSize
      \/ \E size \in LogSizes : avgLogSize' = NextAverage(size)
  BY DEF SizingNext, SomeFlushFails, Sampled, FlushFailed, FlushSucceeded,
         CooldownElapses, sizingVars
<1>4. QED
  BY <1>1, <1>2, <1>3

(* For every set of event sizes: the average stays among them.             *)
THEOREM AverageStaysAnAverage == SizingSpec => []AverageIsAnAverage
<1>1. SizingInit => AverageIsAnAverage
  BY DEF SizingInit, AverageIsAnAverage
<1>2. QED
  BY <1>1, AverageStep, SizingInvariant, PTL DEF SizingSpec

(* For every configuration: two changes are a cooldown apart.              *)
THEOREM ChangesSpaced == SizingSpec => ChangesAreACooldownApart
<1>1. ASSUME SizingInv, [SizingNext]_sizingVars
      PROVE  currentBatchSize' # currentBatchSize => ~cooling /\ cooling'
  BY <1>1 DEF SizingNext, SomeFlushFails, Sampled, FlushFailed,
              FlushSucceeded, CooldownElapses, sizingVars
<1>2. QED
  BY <1>1, SizingInvariant, PTL DEF SizingSpec, ChangesAreACooldownApart
-----------------------------------------------------------------------------
(* A quotient times its divisor does not exceed the dividend.              *)
LEMMA QuotientBelow ==
    ASSUME NEW n \in Nat, NEW d \in Nat, d >= 1
    PROVE  n \div d \in Nat /\ (n \div d) * d <= n
BY SMT

(* A product grows with its first factor.                                  *)
LEMMA ProductMonotone ==
    ASSUME NEW m \in Int, NEW n \in Int, NEW d \in Nat, m <= n
    PROVE  m * d <= n * d
BY SMT

(* The same with half a step subtracted from that factor.                  *)
LEMMA ShiftedProductMonotone ==
    ASSUME NEW m \in Int, NEW n \in Int, NEW h \in Int, NEW d \in Nat, m <= n
    PROVE  (m - h) * d <= (n - h) * d
BY ProductMonotone

(* The optimal size, less half a step, fits in the safe payload, unless it *)
(* is the built-in minimum.                                                *)
LEMMA OptimalFits ==
    ASSUME SizingInv, CalculateOptimalBatchSize # MinBatchSize
    PROVE  (CalculateOptimalBatchSize - BatchAdjustStep \div 2) * avgLogSize
              <= (MaxPayload * 8) \div 10
<1>1. /\ avgLogSize \in Nat /\ avgLogSize >= 1
      /\ BatchAdjustStep \in Nat /\ BatchAdjustStep >= 1
      /\ MinBatchSize \in Int /\ MaxBatchSize \in Int
  BY SizingAssumption, MaxBatchSizePositive
     DEF SizingInv, SizingTypeOK, AveragePositive
<1> DEFINE safe == (MaxPayload * 8) \div 10
           ideal == safe \div avgLogSize
           half == BatchAdjustStep \div 2
           rounded == (ideal + half) \div BatchAdjustStep
<1>2. safe \in Nat
  BY SizingAssumption, SMT
<1>3. ideal \in Nat /\ ideal * avgLogSize <= safe
  <2> HIDE DEF safe
  <2> QED BY <1>1, <1>2, QuotientBelow
<1>4. half \in Nat
  BY <1>1, SMT
<1>5. rounded \in Nat /\ rounded * BatchAdjustStep <= ideal + half
  <2> HIDE DEF ideal, half
  <2> QED BY <1>1, <1>3, <1>4, QuotientBelow
<1>6. CalculateOptimalBatchSize =
        IF ideal < MinBatchSize THEN MinBatchSize
        ELSE IF ideal > MaxBatchSize THEN MaxBatchSize
        ELSE rounded * BatchAdjustStep
  BY <1>1 DEF CalculateOptimalBatchSize
<1> HIDE DEF safe, ideal, half, rounded
<1>7. rounded * BatchAdjustStep \in Nat
  BY <1>1, <1>5, SMT
<1>8. /\ CalculateOptimalBatchSize \in Int
      /\ CalculateOptimalBatchSize - half <= ideal
  BY <1>1, <1>3, <1>4, <1>5, <1>6, <1>7
<1>9. (CalculateOptimalBatchSize - half) * avgLogSize <= ideal * avgLogSize
  BY <1>1, <1>3, <1>4, <1>8, ProductMonotone
<1>10. QED
  <2>1. /\ (CalculateOptimalBatchSize - half) * avgLogSize \in Int
        /\ ideal * avgLogSize \in Int
    BY <1>1, <1>3, <1>4, <1>8
  <2>2. (CalculateOptimalBatchSize - half) * avgLogSize <= safe
    BY <1>2, <1>3, <1>9, <2>1
  <2>3. QED
    BY <2>2 DEF half, safe

(* For every configuration: growing respects the payload limit.            *)
THEOREM GrowthFits == SizingSpec => GrowthFitsThePayload
<1>1. ASSUME SizingInv, FlushSucceeded, currentBatchSize' > currentBatchSize
      PROVE  \/ currentBatchSize' <= MinBatchSize
             \/ (currentBatchSize' - BatchAdjustStep \div 2) * avgLogSize
                   <= (MaxPayload * 8) \div 10
  <2> DEFINE half == BatchAdjustStep \div 2
  <2>1. /\ CalculateOptimalBatchSize \in Int
        /\ half \in Int
        /\ avgLogSize \in Nat
        /\ currentBatchSize \in Int
        /\ BatchAdjustStep \in Int
        /\ MinBatchSize \in Int
    BY <1>1, OptimalIsInteger, SizingAssumption, SMT DEF SizingInv, SizingTypeOK
  <2>2. currentBatchSize' = GrownSize
    BY <1>1, <2>1 DEF FlushSucceeded
  <2>3. /\ currentBatchSize' \in Int
        /\ currentBatchSize' <= CalculateOptimalBatchSize
    BY <1>1, <2>1, <2>2, SMT DEF GrownSize, Lesser
  <2>4. CASE CalculateOptimalBatchSize = MinBatchSize
    BY <2>3, <2>4
  <2>5. CASE CalculateOptimalBatchSize # MinBatchSize
    <3>1. (CalculateOptimalBatchSize - half) * avgLogSize
             <= (MaxPayload * 8) \div 10
      BY <1>1, <2>5, OptimalFits
    <3>2. (currentBatchSize' - half) * avgLogSize
             <= (CalculateOptimalBatchSize - half) * avgLogSize
      <4> HIDE DEF half
      <4>1. QED
        BY <2>1, <2>3, ShiftedProductMonotone
    <3>3. /\ (CalculateOptimalBatchSize - half) * avgLogSize \in Int
          /\ (currentBatchSize' - half) * avgLogSize \in Int
          /\ (MaxPayload * 8) \div 10 \in Int
      <4>1. (MaxPayload * 8) \div 10 \in Int
        BY SizingAssumption, SMT
      <4> HIDE DEF half
      <4>2. QED
        BY <2>1, <2>3, <4>1
    <3>4. QED
      <4> HIDE DEF half
      <4>1. (currentBatchSize' - half) * avgLogSize <= (MaxPayload * 8) \div 10
        BY <3>1, <3>2, <3>3
      <4>2. QED
        BY <4>1 DEF half
  <2>6. QED
    BY <2>4, <2>5
<1>2. QED
  BY <1>1, SizingInvariant, PTL DEF SizingSpec, GrowthFitsThePayload
=============================================================================
