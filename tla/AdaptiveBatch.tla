---------------------------- MODULE AdaptiveBatch ----------------------------
(***************************************************************************)
(* The dynamic batching of a BatchSender (src/sender.go): the estimate of  *)
(* the size of a batch, the moving average it rests on, and the batch size *)
(* that grows after successful flushes and shrinks after failed ones.      *)
(*                                                                         *)
(* Every action runs while the sender holds its mutex.  The module says    *)
(* how one flush outcome or one sample changes the sizing state;           *)
(* BatchSender.tla says when flushes and samples happen.                   *)
(*                                                                         *)
(* Three abstractions.  The clock: "cooling" is TRUE while less than       *)
(* adjustCooldown has passed since lastAdjustTime.  The counters: the code *)
(* looks at them only modulo SampleEvery or GrowEvery, or compares them    *)
(* with ErrorThreshold, so they are kept modulo those numbers, or stop at  *)
(* the threshold.  lastFailedSize is read only by the call that writes it, *)
(* so it is a parameter.                                                   *)
(***************************************************************************)
EXTENDS Integers

CONSTANTS
    BatchSize,          \* config.BatchSize
    MaxQueueSize,       \* config.MaxQueueSize
    MinBatchSize,       \* minBatchSize, 10 in the code
    MaxBatchCap,        \* upper limit of maxBatchSize, 10000 in the code
    DefaultBatchSize,   \* batch size when config.BatchSize <= 0, 100
    BatchAdjustStep,    \* batchAdjustStep, 10
    ErrorThreshold,     \* errorThreshold, 3
    GrowEvery,          \* a success grows the batch at multiples of this, 10
    MaxPayload,         \* MAX_PAYLOAD_SIZE_COMPRESSED, 950 * 1024 bytes
    InitialAvgLogSize,  \* avgLogSize of a new sender, 1024 bytes
    SampleEvery,        \* one Add in this many is sampled, 100
    LogSizes            \* the sizes in bytes of the events that are added

(* MaxQueueSize = 0 (a sender that drops every event) is left out.         *)
ASSUME SizingAssumption ==
    /\ BatchSize \in Int
    /\ MaxQueueSize \in Nat \ {0}
    /\ MinBatchSize \in Nat \ {0}
    /\ MaxBatchCap \in Nat \ {0}
    /\ DefaultBatchSize \in Nat \ {0}
    /\ BatchAdjustStep \in Nat \ {0}
    /\ ErrorThreshold \in Nat \ {0}
    /\ GrowEvery \in Nat \ {0}
    /\ MaxPayload \in Nat \ {0}
    /\ InitialAvgLogSize \in Nat \ {0}
    /\ SampleEvery \in Nat \ {0}
    /\ LogSizes \subseteq Nat \ {0}

VARIABLES
    currentBatchSize,   \* queue length at which Add starts a flush
    avgLogSize,         \* moving average of the sampled sizes
    sizeSampleCount,    \* Adds so far, modulo SampleEvery
    consecutiveErrors,  \* failed flushes counted, at most ErrorThreshold
    successfulFlushes,  \* the counter the growth is based on, modulo GrowEvery
    flushCount,         \* successful flushes, modulo GrowEvery
    cooling             \* less than adjustCooldown since lastAdjustTime

sizingVars == <<currentBatchSize, avgLogSize, sizeSampleCount,
                consecutiveErrors, successfulFlushes, flushCount, cooling>>

-----------------------------------------------------------------------------
Lesser(a, b)  == IF a <= b THEN a ELSE b
Greater(a, b) == IF a >= b THEN a ELSE b

MaxBatchSize == Lesser(MaxQueueSize, MaxBatchCap)

(* The clamp to the minimum comes first: with MaxQueueSize < MinBatchSize  *)
(* a new sender starts below its own minimum.                              *)
InitialBatchSize ==
    LET configured == IF BatchSize <= 0 THEN DefaultBatchSize ELSE BatchSize
    IN  Lesser(Greater(configured, MinBatchSize), MaxBatchSize)

EstimateBatchSize(count) ==
    IF avgLogSize = 0 THEN count * InitialAvgLogSize
                      ELSE avgLogSize * count + count * 2

(* flushLocked sends a batch that fits, or that cannot be split.           *)
Sendable(count) == count <= 1 \/ EstimateBatchSize(count) <= MaxPayload

(* Add starts a flush at 90% of the payload limit.                         *)
NearlyFull(count) == EstimateBatchSize(count) >= (MaxPayload * 9) \div 10

NextAverage_TwoDivisions(size) == (avgLogSize * 9) \div 10 + size \div 10
NextAverage(size) ==
    IF avgLogSize = 0 THEN size ELSE (avgLogSize * 9 + size) \div 10

CalculateOptimalBatchSize ==
    LET ideal == ((MaxPayload * 8) \div 10) \div avgLogSize
    IN  IF avgLogSize = 0 THEN currentBatchSize
        ELSE IF ideal < MinBatchSize THEN MinBatchSize
        ELSE IF ideal > MaxBatchSize THEN MaxBatchSize
        ELSE ((ideal + BatchAdjustStep \div 2) \div BatchAdjustStep)
                * BatchAdjustStep

(* The names with an underscore, here and below, are what a plausible slip *)
(* in the definition that follows them would leave; no action uses them.   *)

(* The size after a success that lands on a multiple of GrowEvery.         *)
GrownSize_NoUpperBound ==
    LET optimal == CalculateOptimalBatchSize
    IN  IF optimal > currentBatchSize
          THEN Lesser(currentBatchSize + BatchAdjustStep, optimal)
          ELSE currentBatchSize
GrownSize_FullStep ==
    IF CalculateOptimalBatchSize > currentBatchSize
       /\ currentBatchSize + BatchAdjustStep <= MaxBatchSize
      THEN currentBatchSize + BatchAdjustStep
      ELSE currentBatchSize
GrownSize ==
    LET optimal == CalculateOptimalBatchSize
        newSize == Lesser(currentBatchSize + BatchAdjustStep, optimal)
    IN  IF optimal > currentBatchSize /\ newSize <= MaxBatchSize
          THEN newSize
          ELSE currentBatchSize

(* The size after the failure that reaches the threshold: half of it, but  *)
(* at least the minimum, or half of the failed batch if that is smaller.   *)
ReducedSize_MayBeZero(errorSize) ==
    Lesser(Greater(currentBatchSize \div 2, MinBatchSize),
           (errorSize \div avgLogSize) \div 2)
ReducedSize_ByEstimateOnly(errorSize) ==
    LET maxSafe == (errorSize \div avgLogSize) \div 2
    IN  IF maxSafe > 0 /\ maxSafe < currentBatchSize THEN maxSafe
                                                     ELSE currentBatchSize
ReducedSize(errorSize) ==
    LET halved  == Greater(currentBatchSize \div 2, MinBatchSize)
        maxSafe == (errorSize \div avgLogSize) \div 2
    IN  IF errorSize > 0 /\ avgLogSize > 0 /\ maxSafe > 0 /\ maxSafe < halved
          THEN maxSafe
          ELSE halved
-----------------------------------------------------------------------------
SizingInit ==
    /\ currentBatchSize = InitialBatchSize
    /\ avgLogSize = InitialAvgLogSize
    /\ sizeSampleCount = 0
    /\ consecutiveErrors = 0
    /\ successfulFlushes = 0
    /\ flushCount = 0
    /\ cooling = TRUE

(* Add samples the size of every SampleEvery-th event it is called with,   *)
(* also of one it goes on to reject.                                       *)
Sampled(size) ==
    /\ sizeSampleCount' = (sizeSampleCount + 1) % SampleEvery
    /\ avgLogSize' = IF sizeSampleCount' = 0 THEN NextAverage(size)
                                             ELSE avgLogSize
    /\ UNCHANGED <<currentBatchSize, consecutiveErrors, successfulFlushes,
                   flushCount, cooling>>

(* adjustBatchSize(true, estimate) after SendLogs failed for count events. *)
FlushFailed_ClockNotRestarted(count) ==
    /\ ~cooling
    /\ currentBatchSize' = IF consecutiveErrors + 1 < ErrorThreshold
                             THEN currentBatchSize
                             ELSE ReducedSize(EstimateBatchSize(count))
    /\ consecutiveErrors' = IF currentBatchSize' = currentBatchSize
                              THEN Lesser(consecutiveErrors + 1, ErrorThreshold)
                              ELSE 0
    /\ UNCHANGED <<avgLogSize, sizeSampleCount, successfulFlushes, flushCount,
                   cooling>>
FlushFailed(count) ==
    \/ /\ cooling
       /\ UNCHANGED sizingVars
    \/ /\ ~cooling
       /\ cooling' = TRUE
       /\ currentBatchSize' = IF consecutiveErrors + 1 < ErrorThreshold
                                THEN currentBatchSize
                                ELSE ReducedSize(EstimateBatchSize(count))
       /\ consecutiveErrors' = IF currentBatchSize' = currentBatchSize
                                 THEN Lesser(consecutiveErrors + 1,
                                             ErrorThreshold)
                                 ELSE 0
       /\ UNCHANGED <<avgLogSize, sizeSampleCount, successfulFlushes,
                      flushCount>>

(* adjustBatchSize(false, 0) and the metrics flushLocked updates after it: *)
(* successfulFlushes is incremented by the one and again by the other.     *)
FlushSucceeded ==
    /\ flushCount' = (flushCount + 1) % GrowEvery
    /\ \/ /\ cooling
          /\ successfulFlushes' = (successfulFlushes + 1) % GrowEvery
          /\ UNCHANGED <<currentBatchSize, consecutiveErrors, cooling>>
       \/ /\ ~cooling
          /\ cooling' = TRUE
          /\ consecutiveErrors' = 0
          /\ successfulFlushes' = (successfulFlushes + 2) % GrowEvery
          /\ currentBatchSize' =
               IF (successfulFlushes + 1) % GrowEvery = 0 THEN GrownSize
                                                          ELSE currentBatchSize
    /\ UNCHANGED <<avgLogSize, sizeSampleCount>>

(* adjustCooldown passes after the last adjustment.                        *)
CooldownElapses ==
    /\ cooling
    /\ cooling' = FALSE
    /\ UNCHANGED <<currentBatchSize, avgLogSize, sizeSampleCount,
                   consecutiveErrors, successfulFlushes, flushCount>>

SomeFlushFails == \E count \in 1..MaxQueueSize :
                     Sendable(count) /\ FlushFailed(count)

SizingNext ==
    \/ \E size \in LogSizes : Sampled(size)
    \/ SomeFlushFails
    \/ FlushSucceeded
    \/ CooldownElapses

SizingSpec == SizingInit /\ [][SizingNext]_sizingVars
-----------------------------------------------------------------------------
(* Type correctness: in particular the batch size is never zero (a flush   *)
(* per event, lines 297-304) and never negative, whatever failed.          *)
SizingTypeOK ==
    /\ currentBatchSize \in Nat \ {0}
    /\ avgLogSize \in Nat
    /\ sizeSampleCount \in 0..(SampleEvery - 1)
    /\ consecutiveErrors \in 0..ErrorThreshold
    /\ successfulFlushes \in 0..(GrowEvery - 1)
    /\ flushCount \in 0..(GrowEvery - 1)
    /\ cooling \in BOOLEAN

(* The queue can always reach the batch size, so that Add's count trigger  *)
(* is never dead: rounding the optimal size to a multiple of the step must *)
(* not carry it over the maximum, nor may halving lift it.  Only a maximum *)
(* below the built-in minimum lets the batch size exceed it, and then by   *)
(* no more than that minimum.                                              *)
BatchSizeBounds == currentBatchSize <= Greater(MinBatchSize, MaxBatchSize)

(* The average stays between the smallest and the largest size it was made *)
(* of, despite the truncating division: it never reaches zero, which the   *)
(* optimal size divides by, and a stream of equal sizes leaves it fixed.   *)
AverageIsAnAverage ==
    \A bound \in LogSizes \cup {InitialAvgLogSize} :
        /\ (\A s \in LogSizes \cup {InitialAvgLogSize} : bound <= s)
              => bound <= avgLogSize
        /\ (\A s \in LogSizes \cup {InitialAvgLogSize} : s <= bound)
              => avgLogSize <= bound

(* Two changes of the batch size are a cooldown apart, whichever outcomes  *)
(* caused them: a burst of failures inside one flush halves it only once.  *)
ChangesAreACooldownApart ==
    [][currentBatchSize' # currentBatchSize => ~cooling /\ cooling']_sizingVars

(* A success never grows the batch beyond what fits in 80% of the payload, *)
(* give or take the rounding to half a step, unless to the built-in        *)
(* minimum.                                                                *)
GrowthFitsThePayload ==
    [][FlushSucceeded /\ currentBatchSize' > currentBatchSize =>
          \/ currentBatchSize' <= MinBatchSize
          \/ (currentBatchSize' - BatchAdjustStep \div 2) * avgLogSize
                <= (MaxPayload * 8) \div 10]_sizingVars

(* Once the collector rejects everything, while the ticker keeps flushing  *)
(* the buffer, which is never cleared, the batch size falls to the minimum *)
(* or below it and stays there, wherever the successes before had taken it.*)
FailuresShrinkTheBatch ==
    ( /\ WF_sizingVars(SomeFlushFails)
      /\ WF_sizingVars(CooldownElapses)
      /\ <>[][~FlushSucceeded]_sizingVars )
    => <>[](currentBatchSize <= MinBatchSize)

(* "Reduce batch size significantly on errors" (sender.go:290): a failed   *)
(* flush never makes the batch larger.                                     *)
FailureNeverGrowsTheBatch ==
    [][SomeFlushFails => currentBatchSize' <= currentBatchSize]_sizingVars

(* "Try to increase after every 10 successful flushes" (sender.go:317):    *)
(* the batch grows only when the number of successes is a multiple of it.  *)
GrowthEveryTenFlushes ==
    [][FlushSucceeded /\ currentBatchSize' > currentBatchSize
          => flushCount' = 0]_sizingVars
=============================================================================
