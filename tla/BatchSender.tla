----------------------------- MODULE BatchSender -----------------------------
(***************************************************************************)
(* One BatchSender of src/sender.go: the buffer that workers and the Kafka *)
(* consumer Add events to, the goroutines that flush it, the ticker loop   *)
(* with its final flush, and the recursive splitting of a batch that is    *)
(* too large.  The sizing of the batches is AdaptiveBatch.                 *)
(*                                                                         *)
(* A flush holds the mutex from its first look at the buffer to its        *)
(* return, the HTTP requests included.  Inside it the code moves the slice *)
(* b.logs over one backing array: splitAndFlush sets b.logs to the first   *)
(* half, flushes it, sets b.logs to the second half and flushes that, and  *)
(* each of these flushes may split again.  Here "backing" is that array,   *)
(* b.logs is the window lo+1..hi of it, and "ends" is the stack of the     *)
(* places where the second halves still to be flushed end.  While nobody   *)
(* holds the mutex the window is the whole of "backing".                   *)
(*                                                                         *)
(* Events are numbered as they are accepted.  acked and lost are history:  *)
(* the events the collector confirmed, and those whose only copy the       *)
(* assignment b.logs = secondHalf dropped.                                 *)
(*                                                                         *)
(* The names with an underscore are what a plausible slip in the           *)
(* definition that follows them would leave; no action uses them.          *)
(***************************************************************************)
EXTENDS AdaptiveBatch, Sequences, FiniteSets

CONSTANT MaxEvents      \* bound on the calls of Add

ASSUME MaxEventsAssumption == MaxEvents \in Nat

VARIABLES
    backing, lo, hi, ends,
    holder,         \* who holds the mutex for a flush
    spawned,        \* "go b.flush()" goroutines that wait for the mutex
    loop,           \* the goroutine of Start: "new", "running", "done"
    stopCh,         \* stopCh is closed
    totalSent,
    dropped,
    accepted,       \* the number of events Add took
    acked, lost

bufferVars == <<backing, lo, hi, ends>>
senderVars == <<backing, lo, hi, ends, holder, spawned, loop, stopCh,
                totalSent, dropped, accepted, acked, lost>>
vars == <<senderVars, sizingVars>>

Holders == {"nobody", "ticker", "final", "other"}

-----------------------------------------------------------------------------
BatchLen == hi - lo                                         \* len(b.logs)
Window == {backing[i] : i \in (lo + 1)..hi}                 \* b.logs
Held == {backing[i] : i \in (lo + 1)..Len(backing)}         \* not yet given up

FlushDue == NearlyFull(BatchLen) \/ BatchLen >= currentBatchSize

QueueFull_OffByOne == BatchLen > MaxQueueSize
QueueFull == BatchLen >= MaxQueueSize

Init ==
    /\ backing = <<>>
    /\ lo = 0
    /\ hi = 0
    /\ ends = <<>>
    /\ holder = "nobody"
    /\ spawned = 0
    /\ loop = "new"
    /\ stopCh = FALSE
    /\ totalSent = 0
    /\ dropped = 0
    /\ accepted = 0
    /\ acked = {}
    /\ lost = {}
    /\ SizingInit
-----------------------------------------------------------------------------
Start ==
    /\ loop = "new"
    /\ loop' = "running"
    /\ UNCHANGED <<bufferVars, holder, spawned, stopCh, totalSent, dropped,
                   accepted, acked, lost, sizingVars>>

(* Stop closes the channel and waits for the loop to be done.              *)
Stop ==
    /\ loop = "running"
    /\ ~stopCh
    /\ stopCh' = TRUE
    /\ UNCHANGED <<bufferVars, holder, spawned, loop, totalSent, dropped,
                   accepted, acked, lost, sizingVars>>

(* Add may be called at any time: the Kafka consumer starts before the     *)
(* senders and stops after them.                                           *)
AddAccepted_SamplesBatch(size) ==
    /\ holder = "nobody"
    /\ accepted + dropped < MaxEvents
    /\ ~QueueFull
    /\ Sampled(size * (BatchLen + 1))
    /\ accepted' = accepted + 1
    /\ backing' = Append(backing, accepted')
    /\ hi' = hi + 1
    /\ UNCHANGED <<lo, ends, holder, loop, stopCh, totalSent, dropped, acked,
                   lost>>
    /\ spawned' = IF FlushDue' THEN spawned + 1 ELSE spawned
AddAccepted(size) ==
    /\ holder = "nobody"
    /\ accepted + dropped < MaxEvents
    /\ ~QueueFull
    /\ Sampled(size)
    /\ accepted' = accepted + 1
    /\ backing' = Append(backing, accepted')
    /\ hi' = hi + 1
    /\ UNCHANGED <<lo, ends, holder, loop, stopCh, totalSent, dropped, acked,
                   lost>>
    /\ spawned' = IF FlushDue' THEN spawned + 1 ELSE spawned

AddRejected(size) ==
    /\ holder = "nobody"
    /\ accepted + dropped < MaxEvents
    /\ QueueFull
    /\ Sampled(size)
    /\ dropped' = dropped + 1
    /\ UNCHANGED <<bufferVars, holder, spawned, loop, stopCh, totalSent,
                   accepted, acked, lost>>
-----------------------------------------------------------------------------
(* The four callers of flush.  With an empty buffer flushLocked returns at *)
(* once, so a flush takes the mutex only for a buffer that is not empty.   *)
SpawnedFlush ==
    /\ holder = "nobody"
    /\ spawned > 0
    /\ spawned' = spawned - 1
    /\ holder' = IF BatchLen = 0 THEN "nobody" ELSE "other"
    /\ UNCHANGED <<bufferVars, loop, stopCh, totalSent, dropped, accepted,
                   acked, lost, sizingVars>>

(* The select of the loop picks either case when both are ready.           *)
TickerFlush_OnlyFullBatches ==
    /\ holder = "nobody"
    /\ loop = "running"
    /\ BatchLen >= currentBatchSize
    /\ holder' = "ticker"
    /\ UNCHANGED <<bufferVars, spawned, loop, stopCh, totalSent, dropped,
                   accepted, acked, lost, sizingVars>>
TickerFlush ==
    /\ holder = "nobody"
    /\ loop = "running"
    /\ BatchLen > 0
    /\ holder' = "ticker"
    /\ UNCHANGED <<bufferVars, spawned, loop, stopCh, totalSent, dropped,
                   accepted, acked, lost, sizingVars>>

(* The /flush handler and the memory monitor, at any time.                 *)
RequestedFlush ==
    /\ holder = "nobody"
    /\ BatchLen > 0
    /\ holder' = "other"
    /\ UNCHANGED <<bufferVars, spawned, loop, stopCh, totalSent, dropped,
                   accepted, acked, lost, sizingVars>>

FinalFlush_Skipped ==
    /\ holder = "nobody"
    /\ loop = "running"
    /\ stopCh
    /\ loop' = "done"
    /\ UNCHANGED <<bufferVars, holder, spawned, stopCh, totalSent, dropped,
                   accepted, acked, lost, sizingVars>>
FinalFlush ==
    /\ holder = "nobody"
    /\ loop = "running"
    /\ stopCh
    /\ IF BatchLen = 0 THEN loop' = "done"   /\ holder' = "nobody"
                       ELSE loop' = loop     /\ holder' = "final"
    /\ UNCHANGED <<bufferVars, spawned, stopCh, totalSent, dropped, accepted,
                   acked, lost, sizingVars>>
-----------------------------------------------------------------------------
(* splitAndFlush: b.logs becomes the first half of itself.                 *)
Split_HalfTwice ==
    /\ ends' = <<hi>> \o ends
    /\ hi' = lo + BatchLen \div 2 + 1
    /\ UNCHANGED <<backing, lo, holder, loop, totalSent, acked, lost>>
Split ==
    /\ ends' = <<hi>> \o ends
    /\ hi' = lo + BatchLen \div 2
    /\ UNCHANGED <<backing, lo, holder, loop, totalSent, acked, lost>>

(* flushLocked returns with b.logs cleared, or kept after a failure.  The  *)
(* innermost splitAndFlush in its first half sets b.logs to the second     *)
(* half, whatever the first half left; otherwise the flush is over.        *)
FlushReturns_TailDropped(kept) ==
    IF ends # <<>>
      THEN /\ lo' = hi
           /\ hi' = Head(ends)
           /\ ends' = Tail(ends)
           /\ lost' = IF kept THEN lost \cup Window ELSE lost
           /\ UNCHANGED <<backing, holder, loop>>
      ELSE /\ lo' = 0
           /\ hi' = 0
           /\ backing' = <<>>
           /\ lost' = IF kept THEN lost \cup Window ELSE lost
           /\ holder' = "nobody"
           /\ loop' = IF holder = "final" THEN "done" ELSE loop
           /\ UNCHANGED ends
FlushReturns_WindowNotMoved(kept) ==
    IF ends # <<>>
      THEN /\ hi' = Head(ends)
           /\ ends' = Tail(ends)
           /\ UNCHANGED <<backing, lo, lost, holder, loop>>
      ELSE /\ backing' = IF kept THEN SubSeq(backing, lo + 1, hi) ELSE <<>>
           /\ lo' = 0
           /\ hi' = Len(backing')
           /\ holder' = "nobody"
           /\ loop' = IF holder = "final" THEN "done" ELSE loop
           /\ UNCHANGED <<ends, lost>>
FlushReturns_StartNotReset(kept) ==
    IF ends # <<>>
      THEN /\ lo' = hi
           /\ hi' = Head(ends)
           /\ ends' = Tail(ends)
           /\ lost' = IF kept THEN lost \cup Window ELSE lost
           /\ UNCHANGED <<backing, holder, loop>>
      ELSE /\ backing' = IF kept THEN SubSeq(backing, lo + 1, hi) ELSE <<>>
           /\ hi' = Len(backing')
           /\ holder' = "nobody"
           /\ loop' = IF holder = "final" THEN "done" ELSE loop
           /\ UNCHANGED <<lo, ends, lost>>
FlushReturns_SkipsAnEvent(kept) ==
    IF ends # <<>>
      THEN /\ lo' = hi + 1
           /\ hi' = Head(ends)
           /\ ends' = Tail(ends)
           /\ lost' = IF kept THEN lost \cup Window ELSE lost
           /\ UNCHANGED <<backing, holder, loop>>
      ELSE /\ backing' = IF kept THEN SubSeq(backing, lo + 1, hi) ELSE <<>>
           /\ lo' = 0
           /\ hi' = Len(backing')
           /\ holder' = "nobody"
           /\ loop' = IF holder = "final" THEN "done" ELSE loop
           /\ UNCHANGED <<ends, lost>>
FlushReturns_NotCleared(kept) ==
    IF ends # <<>>
      THEN /\ lo' = hi
           /\ hi' = Head(ends)
           /\ ends' = Tail(ends)
           /\ lost' = IF kept THEN lost \cup Window ELSE lost
           /\ UNCHANGED <<backing, holder, loop>>
      ELSE /\ backing' = SubSeq(backing, lo + 1, hi)
           /\ lo' = 0
           /\ hi' = Len(backing')
           /\ holder' = "nobody"
           /\ loop' = IF holder = "final" THEN "done" ELSE loop
           /\ UNCHANGED <<ends, lost>>
FlushReturns(kept) ==
    IF ends # <<>>
      THEN /\ lo' = hi
           /\ hi' = Head(ends)
           /\ ends' = Tail(ends)
           /\ lost' = IF kept THEN lost \cup Window ELSE lost
           /\ UNCHANGED <<backing, holder, loop>>
      ELSE /\ backing' = IF kept THEN SubSeq(backing, lo + 1, hi) ELSE <<>>
           /\ lo' = 0
           /\ hi' = Len(backing')
           /\ holder' = "nobody"
           /\ loop' = IF holder = "final" THEN "done" ELSE loop
           /\ UNCHANGED <<ends, lost>>

(* flushLocked splits a batch that is estimated over the payload limit     *)
(* without sending it; any other batch goes to SendLogs, with one of three *)
(* outcomes.                                                               *)
SplitOversized ==
    /\ holder # "nobody"
    /\ ~Sendable(BatchLen)
    /\ Split
    /\ UNCHANGED <<spawned, stopCh, dropped, accepted, sizingVars>>

SendSucceeds ==
    /\ holder # "nobody"
    /\ Sendable(BatchLen)
    /\ FlushSucceeded
    /\ totalSent' = totalSent + BatchLen
    /\ acked' = acked \cup Window
    /\ FlushReturns(FALSE)
    /\ UNCHANGED <<spawned, stopCh, dropped, accepted>>

(* A refused connection, a timeout, a status that is not about the size.   *)
SendFails ==
    /\ holder # "nobody"
    /\ Sendable(BatchLen)
    /\ FlushFailed(BatchLen)
    /\ FlushReturns(TRUE)
    /\ UNCHANGED <<spawned, stopCh, totalSent, dropped, accepted, acked>>

(* Status 413: split and retry at once; a single event stays in b.logs.    *)
SendTooLarge_NoRetry ==
    /\ holder # "nobody"
    /\ Sendable(BatchLen)
    /\ FlushFailed(BatchLen)
    /\ UNCHANGED <<senderVars>>
SendTooLarge ==
    /\ holder # "nobody"
    /\ Sendable(BatchLen)
    /\ FlushFailed(BatchLen)
    /\ IF BatchLen > 1
         THEN Split
         ELSE FlushReturns(TRUE) /\ UNCHANGED <<totalSent, acked>>
    /\ UNCHANGED <<spawned, stopCh, dropped, accepted>>

Cooldown == CooldownElapses /\ UNCHANGED senderVars
-----------------------------------------------------------------------------
Next ==
    \/ Start
    \/ Stop
    \/ \E size \in LogSizes : AddAccepted(size) \/ AddRejected(size)
    \/ SpawnedFlush
    \/ TickerFlush
    \/ RequestedFlush
    \/ FinalFlush
    \/ SplitOversized
    \/ SendSucceeds
    \/ SendFails
    \/ SendTooLarge
    \/ Cooldown

Spec == Init /\ [][Next]_vars

(* SendLogs returns: the HTTP client has a timeout.  The ticker keeps      *)
(* firing.  sync.Mutex hands the lock to a goroutine that has waited for   *)
(* it, and select picks a ready case at random, so the final flush is not  *)
(* overtaken for ever.  Nothing is assumed of the collector's answers.      *)
Fairness ==
    /\ WF_vars(Start)
    /\ WF_vars(SplitOversized \/ SendSucceeds \/ SendFails \/ SendTooLarge)
    /\ WF_vars(TickerFlush)
    /\ SF_vars(FinalFlush)

FairSpec == Spec /\ Fairness
-----------------------------------------------------------------------------
(* The buffer never exceeds MaxQueueSize, also while a batch is split.     *)
QueueBound == Len(backing) <= MaxQueueSize

(* Type correctness, the limit of the buffer with it.                      *)
SenderTypeOK ==
    /\ backing \in Seq(1..accepted) /\ QueueBound
    /\ lo \in Nat /\ hi \in Nat
    /\ lo <= hi /\ hi <= Len(backing)
    /\ ends \in Seq(Nat)
    /\ holder \in Holders
    /\ spawned \in Nat
    /\ loop \in {"new", "running", "done"}
    /\ stopCh \in BOOLEAN
    /\ totalSent \in Nat /\ dropped \in Nat /\ accepted \in Nat
    /\ acked \subseteq 1..accepted /\ lost \subseteq 1..accepted

(* The shape of the slices: the windows still to be flushed are not empty, *)
(* follow each other and end with the buffer, and outside a flush the      *)
(* window is the whole buffer.                                             *)
SliceShape ==
    /\ holder = "nobody" => lo = 0 /\ hi = Len(backing) /\ ends = <<>>
    /\ holder # "nobody" => lo < hi
    /\ \A i \in 1..Len(ends) : hi < ends[i]
    /\ \A i, j \in 1..Len(ends) : i < j => ends[i] < ends[j]
    /\ IF ends = <<>> THEN hi = Len(backing)
                      ELSE ends[Len(ends)] = Len(backing)

(* Every accepted event is in exactly one place: confirmed, in the buffer, *)
(* or lost to a split; and the counters GetStats reports agree with that,  *)
(* so no event is sent again once the collector has confirmed it.          *)
EveryEventAccountedFor ==
    /\ 1..accepted = acked \cup lost \cup Held
    /\ acked \cap lost = {}
    /\ (acked \cup lost) \cap Held = {}
    /\ totalSent = Cardinality(acked)
    /\ accepted - totalSent - (Len(backing) - lo) = Cardinality(lost)

(* Events leave the buffer in the order they came, across splits, failures *)
(* and retries: what was confirmed or lost is older than what is held.     *)
OldestFirst ==
    /\ \A e \in acked \cup lost, f \in Held : e < f
    /\ \A i, j \in 1..Len(backing) : i < j => backing[i] < backing[j]

(* The loop ends with an empty buffer unless its last request failed.      *)
LoopEndsDrained ==
    [][loop # "done" /\ loop' = "done"
          => hi' = 0 \/ SendFails \/ SendTooLarge]_vars

(* A sender implements the outbox: whatever the goroutines do, an event is *)
(* kept until it is confirmed or forgotten, oldest first.                  *)
Outbox == INSTANCE EventOutbox
            WITH Capacity  <- MaxQueueSize,
                 outbox    <- SubSeq(backing, lo + 1, Len(backing)),
                 rejected  <- dropped,
                 confirmed <- acked,
                 forgotten <- lost
ImplementsOutbox == Outbox!OutboxSpec

(* Seen through its sizes alone, a sender does what AdaptiveBatch allows:  *)
(* it never reports an outcome for a batch it would not have sent.         *)
ImplementsSizing == SizingSpec

(* While the sender runs and the collector accepts some batch again and    *)
(* again, an event does not stay in the buffer for ever.                   *)
EventsLeaveTheBuffer ==
    SF_vars(SendSucceeds) =>
        \A e \in 1..MaxEvents :
            (e \in Held /\ ~stopCh) ~> (e \notin Held \/ stopCh)

(* Stop returns: the final flush gets the mutex, and every split ends.     *)
StopReturns == stopCh ~> loop = "done"

(* "Clear current logs and retry with smaller batches" (sender.go:436):    *)
(* a batch that is split is retried, not dropped.                          *)
SplitLosesNothing == lost = {}
=============================================================================
