-------------------------- MODULE BatchSenderProofs --------------------------
(***************************************************************************)
(* The safety of BatchSender for every configuration and any number of     *)
(* events.  The key is Numbered: since events leave only at the front, the *)
(* buffer always holds the newest events in order, so its length and the   *)
(* window say exactly which events are settled.                            *)
(***************************************************************************)
EXTENDS BatchSender, AdaptiveBatchProofs, SequenceTheorems, FiniteSetTheorems

(* The number of events that are confirmed or lost.                        *)
Settled == accepted - (Len(backing) - lo)

Numbered ==
    /\ Len(backing) <= accepted
    /\ \A i \in 1..Len(backing) : backing[i] = accepted - Len(backing) + i

BufferTypeOK ==
    /\ backing \in Seq(Nat)
    /\ lo \in Nat /\ hi \in Nat
    /\ lo <= hi /\ hi <= Len(backing)
    /\ ends \in Seq(Nat)
    /\ accepted \in Nat

BufferInv == BufferTypeOK /\ SliceShape /\ QueueBound /\ Numbered

SettledInv ==
    /\ acked \cup lost = 1..Settled
    /\ acked \cap lost = {}
    /\ totalSent = Cardinality(acked)

ControlTypeOK ==
    /\ holder \in Holders
    /\ spawned \in Nat
    /\ loop \in {"new", "running", "done"}
    /\ stopCh \in BOOLEAN
    /\ dropped \in Nat

SenderInv == BufferInv /\ SettledInv /\ ControlTypeOK /\ SizingInv
-----------------------------------------------------------------------------
(* The buffer under each kind of step.                                     *)

(* A step that leaves the buffer alone takes the mutex only for a buffer   *)
(* that is not empty.                                                      *)
LEMMA BufferUntouched ==
    ASSUME BufferInv, UNCHANGED <<bufferVars, accepted>>,
           holder' = holder \/ (holder = "nobody" /\ hi - lo > 0)
    PROVE  BufferInv' /\ Settled' = Settled
<1>1. lo < hi \/ holder' = holder
  BY SMT DEF BufferInv, BufferTypeOK
<1>2. SliceShape'
  BY <1>1 DEF BufferInv, SliceShape, bufferVars
<1>3. BufferTypeOK' /\ QueueBound' /\ Numbered' /\ Settled' = Settled
  BY DEF BufferInv, BufferTypeOK, QueueBound, Numbered, Settled, bufferVars
<1>4. QED
  BY <1>2, <1>3 DEF BufferInv

(* Add appends the newest event to the whole buffer.                       *)
LEMMA BufferAppended ==
    ASSUME BufferInv, holder = "nobody", ~QueueFull,
           accepted' = accepted + 1, backing' = Append(backing, accepted'),
           hi' = hi + 1, UNCHANGED <<lo, ends, holder>>
    PROVE  BufferInv' /\ Settled' = Settled
<1>1. /\ backing' \in Seq(Nat)
      /\ Len(backing') = Len(backing) + 1
      /\ \A i \in 1..Len(backing) : backing'[i] = backing[i]
      /\ backing'[Len(backing) + 1] = accepted + 1
  <2>1. accepted + 1 \in Nat /\ backing \in Seq(Nat)
    BY DEF BufferInv, BufferTypeOK
  <2>2. QED
    BY <2>1, AppendProperties
<1>2. /\ lo = 0 /\ hi = Len(backing) /\ ends = <<>> /\ Len(backing) \in Nat
      /\ accepted \in Nat
  BY LenProperties DEF BufferInv, BufferTypeOK, SliceShape
<1>3. BufferTypeOK'
  BY <1>1, <1>2 DEF BufferInv, BufferTypeOK
<1>4. SliceShape'
  BY <1>1, <1>2 DEF BufferInv, SliceShape
<1>5. QueueBound'
  BY <1>1, <1>2, SizingAssumption DEF QueueBound, QueueFull, BatchLen
<1>6. Numbered'
  <2>1. Len(backing') <= accepted'
    BY <1>1, <1>2 DEF BufferInv, Numbered
  <2>2. ASSUME NEW i \in 1..Len(backing')
        PROVE  backing'[i] = accepted' - Len(backing') + i
    <3>1. CASE i = Len(backing) + 1
      BY <1>1, <1>2, <3>1
    <3>2. CASE i # Len(backing) + 1
      <4>1. i \in 1..Len(backing)
        BY <1>1, <1>2, <2>2, <3>2
      <4>2. QED
        BY <1>1, <1>2, <4>1 DEF BufferInv, Numbered
    <3>3. QED
      BY <3>1, <3>2
  <2>3. QED
    BY <2>1, <2>2 DEF Numbered
<1>7. Settled' = Settled
  BY <1>1, <1>2 DEF Settled
<1>8. QED
  BY <1>3, <1>4, <1>5, <1>6, <1>7 DEF BufferInv

(* A split moves the end of the window and remembers the old end.          *)
LEMMA BufferSplit ==
    ASSUME BufferInv, holder # "nobody", BatchLen > 1, Split,
           accepted' = accepted
    PROVE  BufferInv' /\ Settled' = Settled
<1>1. /\ lo \in Nat /\ hi \in Nat /\ Len(backing) \in Nat
      /\ ends \in Seq(Nat) /\ <<hi>> \in Seq(Nat)
      /\ lo + 1 < hi /\ hi <= Len(backing)
  BY LenProperties, SMT DEF BufferInv, BufferTypeOK, BatchLen
<1>2. /\ hi' \in Nat /\ lo < hi' /\ hi' < hi
      /\ lo' = lo /\ backing' = backing /\ holder' = holder
  BY <1>1, SMT DEF Split, BatchLen
<1>3. /\ ends' \in Seq(Nat)
      /\ Len(ends) \in Nat
      /\ Len(ends') = Len(ends) + 1
      /\ ends'[1] = hi
      /\ \A i \in 2..Len(ends') : ends'[i] = ends[i - 1]
  <2>1. ends' = <<hi>> \o ends /\ Len(<<hi>>) = 1 /\ <<hi>>[1] = hi
    BY DEF Split
  <2>2. Len(ends) \in Nat
    BY <1>1, LenProperties
  <2>3. /\ ends' \in Seq(Nat)
        /\ Len(ends') = 1 + Len(ends)
        /\ \A i \in 1..(1 + Len(ends)) :
              ends'[i] = IF i <= 1 THEN <<hi>>[i] ELSE ends[i - 1]
    BY <1>1, <2>1, ConcatProperties
  <2>4. QED
    BY <2>1, <2>2, <2>3
<1>4. BufferTypeOK'
  BY <1>1, <1>2, <1>3 DEF BufferInv, BufferTypeOK
<1>5. \A i \in 1..Len(ends') : hi' < ends'[i]
  <2> SUFFICES ASSUME NEW i \in 1..Len(ends') PROVE hi' < ends'[i]
    OBVIOUS
  <2>1. CASE i = 1
    BY <1>2, <1>3, <2>1
  <2>2. CASE i # 1
    <3>1. i - 1 \in 1..Len(ends) /\ ends'[i] = ends[i - 1]
      BY <1>3, <2>2
    <3>2. hi < ends[i - 1] /\ ends[i - 1] \in Nat
      BY <1>1, <3>1, ElementOfSeq DEF BufferInv, SliceShape
    <3>3. QED
      BY <1>1, <1>2, <3>1, <3>2
  <2>3. QED
    BY <2>1, <2>2
<1>6. \A i, j \in 1..Len(ends') : i < j => ends'[i] < ends'[j]
  <2> SUFFICES ASSUME NEW i \in 1..Len(ends'), NEW j \in 1..Len(ends'), i < j
               PROVE  ends'[i] < ends'[j]
    OBVIOUS
  <2>1. j - 1 \in 1..Len(ends) /\ ends'[j] = ends[j - 1]
    BY <1>3
  <2>2. CASE i = 1
    BY <1>3, <2>1, <2>2 DEF BufferInv, SliceShape
  <2>3. CASE i # 1
    <3>1. i - 1 \in 1..Len(ends) /\ ends'[i] = ends[i - 1]
      BY <1>3, <2>3
    <3>2. i - 1 < j - 1
      BY <1>3
    <3>3. QED
      BY <2>1, <3>1, <3>2 DEF BufferInv, SliceShape
  <2>4. QED
    BY <2>2, <2>3
<1>7. ends' # <<>> /\ ends'[Len(ends')] = Len(backing')
  <2>1. ends' # <<>>
    BY <1>3, EmptySeq
  <2>2. CASE ends = <<>>
    BY <1>2, <1>3, <2>2, EmptySeq DEF BufferInv, SliceShape
  <2>3. CASE ends # <<>>
    <3>1. Len(ends) \in Nat \ {0}
      BY <1>1, <2>3, EmptySeq
    <3>2. Len(ends') \in 2..Len(ends') /\ Len(ends') - 1 = Len(ends)
      BY <1>3, <3>1
    <3>3. ends'[Len(ends')] = ends[Len(ends)]
      BY <1>3, <3>2
    <3>4. ends[Len(ends)] = Len(backing)
      BY <2>3 DEF BufferInv, SliceShape
    <3>5. QED
      BY <1>2, <2>1, <3>3, <3>4
  <2>4. QED
    BY <2>1, <2>2, <2>3
<1>8. SliceShape'
  BY <1>2, <1>5, <1>6, <1>7 DEF SliceShape
<1>9. QueueBound' /\ Numbered' /\ Settled' = Settled
  BY <1>2 DEF BufferInv, QueueBound, Numbered, Settled
<1>10. QED
  BY <1>4, <1>8, <1>9 DEF BufferInv

(* Returning into a splitAndFlush: the window moves to the second half.    *)
LEMMA BufferNextHalf ==
    ASSUME BufferInv, holder # "nobody", ends # <<>>,
           lo' = hi, hi' = ends[1], hi' \in Nat,
           ends' \in Seq(Nat), Len(ends') = Len(ends) - 1,
           \A i \in 1..Len(ends') : ends'[i] = ends[i + 1],
           UNCHANGED <<backing, holder, accepted>>
    PROVE  BufferInv' /\ Settled' = Settled + (hi - lo)
<1>1. /\ lo \in Nat /\ hi \in Nat /\ Len(backing) \in Nat
      /\ ends \in Seq(Nat) /\ accepted \in Nat
      /\ lo < hi /\ hi <= Len(backing)
  BY LenProperties, SMT DEF BufferInv, BufferTypeOK, SliceShape
<1>2. Len(ends) \in Nat \ {0}
  BY <1>1, EmptySeq
<1>3. \A i, j \in 1..Len(ends) : i < j => ends[i] < ends[j]
  BY DEF BufferInv, SliceShape
<1>4. hi < hi'
  BY <1>1, <1>2 DEF BufferInv, SliceShape
<1>5. ends[Len(ends)] = Len(backing)
  BY DEF BufferInv, SliceShape
<1>6. hi' <= Len(backing)
  <2>1. CASE Len(ends) = 1
    BY <1>1, <1>2, <1>5, <2>1
  <2>2. CASE Len(ends) # 1
    <3>1. 1 \in 1..Len(ends) /\ Len(ends) \in 1..Len(ends) /\ 1 < Len(ends)
      BY <1>2, <2>2
    <3>2. ends[1] < ends[Len(ends)]
      BY <1>3, <3>1
    <3>3. QED
      BY <1>1, <1>2, <1>5, <3>2
  <2>3. QED
    BY <2>1, <2>2
<1>7. BufferTypeOK'
  <2>1. /\ backing' \in Seq(Nat) /\ Len(backing') = Len(backing)
        /\ accepted' \in Nat
    BY <1>1 DEF BufferInv, BufferTypeOK
  <2>2. lo' \in Nat /\ lo' <= hi' /\ hi' <= Len(backing')
    BY <1>1, <1>4, <1>6, <2>1
  <2>3. QED
    BY <2>1, <2>2 DEF BufferTypeOK
<1>8. \A i \in 1..Len(ends') : hi' < ends'[i]
  <2> SUFFICES ASSUME NEW i \in 1..Len(ends') PROVE hi' < ends'[i]
    OBVIOUS
  <2>1. /\ i + 1 \in 1..Len(ends) /\ 1 \in 1..Len(ends) /\ 1 < i + 1
    BY <1>2
  <2>2. ends[1] < ends[i + 1]
    BY <1>3, <2>1
  <2>3. QED
    BY <2>2
<1>9. \A i, j \in 1..Len(ends') : i < j => ends'[i] < ends'[j]
  <2> SUFFICES ASSUME NEW i \in 1..Len(ends'), NEW j \in 1..Len(ends'), i < j
               PROVE  ends'[i] < ends'[j]
    OBVIOUS
  <2>1. i + 1 \in 1..Len(ends) /\ j + 1 \in 1..Len(ends) /\ i + 1 < j + 1
    BY <1>2
  <2>2. ends[i + 1] < ends[j + 1]
    BY <1>3, <2>1
  <2>3. QED
    BY <2>2
<1>10. IF ends' = <<>> THEN hi' = Len(backing')
                       ELSE ends'[Len(ends')] = Len(backing')
  <2>1. CASE ends' = <<>>
    <3>1. Len(ends') = 0
      BY <2>1, EmptySeq
    <3>2. Len(ends) = 1
      BY <1>2, <3>1
    <3>3. QED
      BY <1>2, <1>5, <2>1, <3>2
  <2>2. CASE ends' # <<>>
    <3>1. Len(ends') \in Nat \ {0}
      BY <1>2, <2>2, EmptySeq
    <3>2. QED
      BY <1>2, <1>5, <2>2, <3>1
  <2>3. QED
    BY <2>1, <2>2
<1>11. SliceShape'
  BY <1>4, <1>8, <1>9, <1>10 DEF SliceShape
<1>12. QueueBound' /\ Numbered'
  BY DEF BufferInv, QueueBound, Numbered
<1>13. Settled' = Settled + (hi - lo)
  BY <1>1 DEF Settled
<1>14. QED
  BY <1>7, <1>11, <1>12, <1>13 DEF BufferInv

(* The flush is over: b.logs is what the last window left.                 *)
LEMMA WindowAsSequence ==
    ASSUME BufferInv
    PROVE  /\ SubSeq(backing, lo + 1, hi) \in Seq(Nat)
           /\ Len(SubSeq(backing, lo + 1, hi)) = hi - lo
           /\ \A i \in 1..(hi - lo) :
                SubSeq(backing, lo + 1, hi)[i] = backing[lo + i]
<1>1. /\ lo \in Nat /\ hi \in Nat /\ lo <= hi /\ hi <= Len(backing)
      /\ Len(backing) \in Nat /\ backing \in Seq(Nat)
  BY LenProperties DEF BufferInv, BufferTypeOK
<1>2. \A i \in (lo + 1)..hi : backing[i] \in Nat
  BY <1>1, ElementOfSeq
<1>3. /\ SubSeq(backing, lo + 1, hi) \in Seq(Nat)
      /\ Len(SubSeq(backing, lo + 1, hi)) =
           IF lo + 1 <= hi THEN hi - (lo + 1) + 1 ELSE 0
      /\ \A i \in 1..(hi - (lo + 1) + 1) :
           SubSeq(backing, lo + 1, hi)[i] = backing[(lo + 1) + i - 1]
  BY <1>1, <1>2, SubSeqProperties
<1>4. /\ hi - (lo + 1) + 1 = hi - lo
      /\ ~(lo + 1 <= hi) => hi - lo = 0
      /\ \A i \in 1..(hi - lo) : (lo + 1) + i - 1 = lo + i
  BY <1>1
<1>5. QED
  BY <1>3, <1>4

(* After a failure the last window becomes the buffer.                     *)
LEMMA BufferKept ==
    ASSUME BufferInv, holder # "nobody", ends = <<>>,
           backing' \in Seq(Nat), Len(backing') = hi - lo,
           \A i \in 1..(hi - lo) : backing'[i] = backing[lo + i],
           lo' = 0, hi' = Len(backing'), holder' = "nobody",
           UNCHANGED <<ends, accepted>>
    PROVE  BufferInv' /\ Settled' = Settled
<1>1. /\ lo \in Nat /\ hi \in Nat /\ Len(backing) \in Nat
      /\ accepted \in Nat /\ lo < hi /\ hi = Len(backing)
      /\ backing \in Seq(Nat)
  BY LenProperties, SMT DEF BufferInv, BufferTypeOK, SliceShape
<1>4. BufferTypeOK'
  BY <1>1 DEF BufferInv, BufferTypeOK
<1>5. SliceShape'
  BY DEF SliceShape, BufferInv
<1>6. QueueBound'
  <2>1. Len(backing') <= Len(backing) /\ Len(backing') \in Nat
    BY <1>1
  <2>2. Len(backing) <= MaxQueueSize /\ MaxQueueSize \in Nat
    BY SizingAssumption DEF BufferInv, QueueBound
  <2>3. QED
    BY <1>1, <2>1, <2>2 DEF QueueBound
<1>7. Numbered'
  <2>1. Len(backing) <= accepted
    BY DEF BufferInv, Numbered
  <2>2. ASSUME NEW i \in 1..Len(backing')
        PROVE  backing'[i] = accepted' - Len(backing') + i
    <3>1. /\ i \in 1..(hi - lo) /\ lo + i \in 1..Len(backing)
          /\ Len(backing') = Len(backing) - lo
      BY <1>1
    <3>2. backing'[i] = backing[lo + i]
      BY <3>1
    <3>3. backing[lo + i] = accepted - Len(backing) + (lo + i)
      BY <3>1 DEF BufferInv, Numbered
    <3>4. QED
      BY <1>1, <3>1, <3>2, <3>3
  <2>3. Len(backing') <= accepted'
    BY <1>1, <2>1
  <2>4. QED
    BY <2>2, <2>3 DEF Numbered
<1>8. Settled' = Settled
  BY <1>1 DEF Settled
<1>9. QED
  BY <1>4, <1>5, <1>6, <1>7, <1>8 DEF BufferInv

(* After a success the buffer is empty.                                    *)
LEMMA BufferCleared ==
    ASSUME BufferInv, holder # "nobody", ends = <<>>, backing' = <<>>,
           lo' = 0, hi' = Len(backing'), holder' = "nobody",
           UNCHANGED <<ends, accepted>>
    PROVE  BufferInv' /\ Settled' = Settled + (hi - lo)
<1>1. /\ lo \in Nat /\ hi \in Nat /\ Len(backing) \in Nat
      /\ accepted \in Nat /\ lo < hi /\ hi = Len(backing)
  BY LenProperties, SMT DEF BufferInv, BufferTypeOK, SliceShape
<1>2. backing' \in Seq(Nat) /\ Len(backing') = 0
  BY EmptySeq
<1>3. BufferTypeOK' /\ SliceShape' /\ Numbered' /\ QueueBound'
  BY <1>1, <1>2, SizingAssumption
     DEF BufferInv, BufferTypeOK, SliceShape, Numbered, QueueBound
<1>4. Settled' = Settled + (hi - lo)
  BY <1>1, <1>2 DEF Settled
<1>5. QED
  BY <1>3, <1>4 DEF BufferInv

(* However flushLocked returns, the shape of the slices holds again.       *)
LEMMA BufferReturned ==
    ASSUME BufferInv, holder # "nobody", NEW kept \in BOOLEAN,
           FlushReturns(kept), accepted' = accepted
    PROVE  /\ BufferInv'
           /\ kept /\ ends = <<>> => Settled' = Settled
           /\ ~kept \/ ends # <<>> => Settled' = Settled + (hi - lo)
<1>1. CASE ends # <<>>
  <2>1. ends \in Seq(Nat)
    BY DEF BufferInv, BufferTypeOK
  <2>2. /\ Head(ends) \in Nat
        /\ Tail(ends) \in Seq(Nat)
        /\ Len(Tail(ends)) = Len(ends) - 1
        /\ \A i \in 1..Len(Tail(ends)) : Tail(ends)[i] = ends[i + 1]
    BY <1>1, <2>1, HeadTailProperties
  <2>3. Head(ends) = ends[1]
    BY <1>1, <2>1
  <2>4. /\ lo' = hi /\ hi' = Head(ends) /\ ends' = Tail(ends)
        /\ UNCHANGED <<backing, holder>>
    BY <1>1 DEF FlushReturns
  <2>5. /\ hi' = ends[1] /\ hi' \in Nat /\ ends' \in Seq(Nat)
        /\ Len(ends') = Len(ends) - 1
        /\ \A i \in 1..Len(ends') : ends'[i] = ends[i + 1]
    BY <2>2, <2>3, <2>4, Zenon
  <2>6. BufferInv' /\ Settled' = Settled + (hi - lo)
    BY <1>1, <2>4, <2>5, BufferNextHalf
  <2>7. QED
    BY <1>1, <2>6
<1>2. CASE ends = <<>> /\ kept
  <2>1. /\ backing' = SubSeq(backing, lo + 1, hi)
        /\ lo' = 0 /\ hi' = Len(backing') /\ holder' = "nobody"
        /\ UNCHANGED ends
    BY <1>2 DEF FlushReturns
  <2>2. /\ backing' \in Seq(Nat) /\ Len(backing') = hi - lo
        /\ \A i \in 1..(hi - lo) : backing'[i] = backing[lo + i]
    BY <2>1, WindowAsSequence, Zenon
  <2>3. BufferInv' /\ Settled' = Settled
    BY <1>2, <2>1, <2>2, BufferKept
  <2>4. QED
    BY <1>2, <2>3
<1>3. CASE ends = <<>> /\ ~kept
  <2>1. /\ backing' = <<>>
        /\ lo' = 0 /\ hi' = Len(backing') /\ holder' = "nobody"
        /\ UNCHANGED ends
    BY <1>3 DEF FlushReturns
  <2>2. BufferInv' /\ Settled' = Settled + (hi - lo)
    BY <1>3, <2>1, BufferCleared
  <2>3. QED
    BY <1>3, <2>2
<1>4. QED
  BY <1>1, <1>2, <1>3
-----------------------------------------------------------------------------
(* Every step is one of five kinds, by what it does to the events.         *)
countVars == <<acked, lost, totalSent>>

Quiet == /\ Settled' = Settled
         /\ UNCHANGED <<accepted, dropped, countVars>>
Taken == /\ holder = "nobody" /\ ~QueueFull
         /\ accepted' = accepted + 1 /\ Settled' = Settled
         /\ UNCHANGED <<dropped, countVars>>
Refused == /\ holder = "nobody" /\ QueueFull
           /\ dropped' = dropped + 1 /\ Settled' = Settled
           /\ UNCHANGED <<accepted, countVars>>
Confirmed == /\ holder # "nobody"
             /\ Settled' = Settled + (hi - lo)
             /\ acked' = acked \cup Window /\ totalSent' = totalSent + (hi - lo)
             /\ UNCHANGED <<accepted, dropped, lost>>
Forgotten == /\ holder # "nobody" /\ ends # <<>>
             /\ Settled' = Settled + (hi - lo)
             /\ lost' = lost \cup Window
             /\ UNCHANGED <<accepted, dropped, acked, totalSent>>

(* Every step is of one of the kinds the lemmas above treat.               *)
LEMMA StepKind ==
    ASSUME BufferInv, [Next]_vars
    PROVE  /\ BufferInv'
           /\ Quiet \/ Taken \/ Refused \/ Confirmed \/ Forgotten
<1> USE DEF countVars, bufferVars
<1>1. BatchLen \in Int
  BY SMT DEF BufferInv, BufferTypeOK, BatchLen
<1>2. CASE Start \/ Stop
  BY <1>2, BufferUntouched DEF Start, Stop, Quiet
<1>3. ASSUME NEW size \in LogSizes, AddAccepted(size)
      PROVE  BufferInv' /\ Taken
  BY <1>3, BufferAppended DEF AddAccepted, Taken
<1>4. ASSUME NEW size \in LogSizes, AddRejected(size)
      PROVE  BufferInv' /\ Refused
  BY <1>4, BufferUntouched DEF AddRejected, Refused
<1>5. CASE SpawnedFlush
  <2>1. holder' = holder \/ (holder = "nobody" /\ hi - lo > 0)
    BY <1>1, <1>5, SMT DEF SpawnedFlush, BatchLen, BufferInv, BufferTypeOK
  <2>2. QED
    BY <1>5, <2>1, BufferUntouched DEF SpawnedFlush, Quiet
<1>6. CASE TickerFlush \/ RequestedFlush
  BY <1>6, BufferUntouched DEF TickerFlush, RequestedFlush, Quiet, BatchLen
<1>7. CASE FinalFlush
  <2>1. holder' = holder \/ (holder = "nobody" /\ hi - lo > 0)
    BY <1>1, <1>7, SMT DEF FinalFlush, BatchLen, BufferInv, BufferTypeOK
  <2>2. QED
    BY <1>7, <2>1, BufferUntouched DEF FinalFlush, Quiet
<1>8. CASE SplitOversized
  <2>1. BatchLen > 1
    BY <1>1, <1>8 DEF SplitOversized, Sendable
  <2>2. QED
    BY <1>8, <2>1, BufferSplit DEF SplitOversized, Split, Quiet
<1>9. CASE SendSucceeds
  <2>1. FlushReturns(FALSE) /\ holder # "nobody" /\ accepted' = accepted
    BY <1>9 DEF SendSucceeds
  <2>2. BufferInv' /\ Settled' = Settled + (hi - lo)
    BY <2>1, BufferReturned
  <2>3. lost' = lost
    BY <2>1 DEF FlushReturns
  <2>4. QED
    BY <1>9, <2>2, <2>3 DEF SendSucceeds, Confirmed, BatchLen
<1>10. ASSUME FlushReturns(TRUE), holder # "nobody",
              UNCHANGED <<accepted, dropped, totalSent, acked>>
       PROVE  BufferInv' /\ (Quiet \/ Forgotten)
  <2>1. /\ BufferInv'
        /\ ends = <<>> => Settled' = Settled
        /\ ends # <<>> => Settled' = Settled + (hi - lo)
    BY <1>10, BufferReturned
  <2>2. CASE ends = <<>>
    BY <1>10, <2>1, <2>2 DEF FlushReturns, Quiet
  <2>3. CASE ends # <<>>
    BY <1>10, <2>1, <2>3 DEF FlushReturns, Forgotten
  <2>4. QED
    BY <2>2, <2>3
<1>11. CASE SendFails
  BY <1>10, <1>11 DEF SendFails
<1>12. CASE SendTooLarge /\ BatchLen > 1
  BY <1>12, BufferSplit DEF SendTooLarge, Split, Quiet
<1>13. CASE SendTooLarge /\ ~(BatchLen > 1)
  BY <1>10, <1>13 DEF SendTooLarge
<1>14. CASE Cooldown \/ UNCHANGED vars
  BY <1>14, BufferUntouched DEF Cooldown, vars, senderVars, Quiet
<1>15. QED
  BY <1>2, <1>3, <1>4, <1>5, <1>6, <1>7, <1>8, <1>9, <1>11, <1>12, <1>13,
     <1>14
     DEF Next
-----------------------------------------------------------------------------
(* The window is the oldest part of what is not settled, the rest follows. *)
LEMMA WindowIsInterval ==
    ASSUME BufferInv
    PROVE  /\ Settled \in Nat /\ Settled + (Len(backing) - lo) = accepted
           /\ Window = (Settled + 1)..(Settled + (hi - lo))
           /\ Held = (Settled + 1)..accepted
<1>1. /\ lo \in Nat /\ hi \in Nat /\ Len(backing) \in Nat /\ accepted \in Nat
      /\ lo <= hi /\ hi <= Len(backing) /\ Len(backing) <= accepted
  BY LenProperties DEF BufferInv, BufferTypeOK, Numbered
<1>2. Settled \in Nat /\ Settled + (Len(backing) - lo) = accepted
  BY <1>1 DEF Settled
<1>3. ASSUME NEW n \in Nat, lo <= n, n <= Len(backing)
      PROVE  {backing[i] : i \in (lo + 1)..n} = (Settled + 1)..(Settled + (n - lo))
  <2>1. ASSUME NEW i \in (lo + 1)..n
        PROVE  backing[i] \in (Settled + 1)..(Settled + (n - lo))
    <3>1. i \in 1..Len(backing)
      BY <1>1, <1>3
    <3>2. backing[i] = accepted - Len(backing) + i
      BY <3>1 DEF BufferInv, Numbered
    <3>3. QED
      BY <1>1, <1>2, <1>3, <3>2
  <2>2. ASSUME NEW e \in (Settled + 1)..(Settled + (n - lo))
        PROVE  \E i \in (lo + 1)..n : e = backing[i]
    <3>1. /\ e - Settled + lo \in (lo + 1)..n
          /\ e - Settled + lo \in 1..Len(backing)
      BY <1>1, <1>2, <1>3
    <3>2. backing[e - Settled + lo] = accepted - Len(backing) + (e - Settled + lo)
      BY <3>1 DEF BufferInv, Numbered
    <3>3. backing[e - Settled + lo] = e
      BY <1>1, <1>2, <3>2
    <3>4. QED
      BY <3>1, <3>3
  <2>3. QED
    BY <2>1, <2>2
<1>4. Window = (Settled + 1)..(Settled + (hi - lo))
  BY <1>1, <1>3 DEF Window
<1>5. Held = (Settled + 1)..accepted
  BY <1>1, <1>2, <1>3 DEF Held
<1>6. QED
  BY <1>2, <1>4, <1>5

(* Finitely many events are confirmed or lost.                             *)
LEMMA SettledFinite ==
    ASSUME BufferInv, SettledInv
    PROVE  /\ IsFiniteSet(acked) /\ IsFiniteSet(lost)
           /\ acked \subseteq 1..Settled /\ lost \subseteq 1..Settled
<1>1. IsFiniteSet(1..Settled)
  BY WindowIsInterval, FS_Interval
<1>2. acked \subseteq 1..Settled /\ lost \subseteq 1..Settled
  BY DEF SettledInv
<1>3. QED
  BY <1>1, <1>2, FS_Subset

(* A step settles events of the window only, each once.                    *)
LEMMA SettledStep ==
    ASSUME BufferInv, SettledInv, [Next]_vars
    PROVE  SettledInv'
<1>1. Settled \in Nat /\ lo \in Nat /\ hi \in Nat /\ lo <= hi
  BY WindowIsInterval DEF BufferInv, BufferTypeOK
<1>2. 1..(Settled + (hi - lo)) = 1..Settled \cup Window
  BY <1>1, WindowIsInterval
<1>3. 1..Settled \cap Window = {}
  BY <1>1, WindowIsInterval
<1>4. CASE Quiet \/ Taken \/ Refused
  BY <1>4 DEF Quiet, Taken, Refused, countVars, SettledInv
<1>5. CASE Confirmed
  <2>1. acked' \cup lost' = 1..Settled' /\ acked' \cap lost' = {}
    BY <1>2, <1>3, <1>5, SettledFinite DEF Confirmed, SettledInv
  <2>2. acked \cap Window = {}
    BY <1>3, SettledFinite
  <2>3. IsFiniteSet(Window) /\ Cardinality(Window) = hi - lo
    BY <1>1, WindowIsInterval, FS_Interval
  <2>4. Cardinality(acked') =
          Cardinality(acked) + Cardinality(Window) - Cardinality({})
    BY <1>5, <2>2, <2>3, SettledFinite, FS_Union DEF Confirmed
  <2>5. Cardinality({}) = 0 /\ Cardinality(acked) \in Nat
    BY FS_EmptySet, SettledFinite, FS_CardinalityType
  <2>6. totalSent' = Cardinality(acked')
    BY <1>1, <1>5, <2>3, <2>4, <2>5 DEF Confirmed, SettledInv
  <2>7. QED
    BY <2>1, <2>6 DEF SettledInv
<1>6. CASE Forgotten
  <2>1. acked' \cup lost' = 1..Settled' /\ acked' \cap lost' = {}
    BY <1>2, <1>3, <1>6, SettledFinite DEF Forgotten, SettledInv
  <2>2. QED
    BY <1>6, <2>1 DEF Forgotten, SettledInv
<1>7. QED
  BY <1>4, <1>5, <1>6, StepKind
-----------------------------------------------------------------------------
(* The control state and the sizing state.                                 *)
LEMMA ControlStep ==
    ASSUME ControlTypeOK, [Next]_vars
    PROVE  ControlTypeOK'
<1>1. holder' \in Holders
  BY Zenon DEF ControlTypeOK, Holders, Next, Start, Stop, AddAccepted,
     AddRejected, SpawnedFlush, TickerFlush, RequestedFlush, FinalFlush, Split,
     FlushReturns, SplitOversized, SendSucceeds, SendFails, SendTooLarge,
     Cooldown, vars, senderVars
<1>2. spawned' \in Nat /\ dropped' \in Nat
  BY SMT DEF ControlTypeOK, Next, Start, Stop, AddAccepted,
     AddRejected, SpawnedFlush, TickerFlush, RequestedFlush, FinalFlush, Split,
     FlushReturns, SplitOversized, SendSucceeds, SendFails, SendTooLarge,
     Cooldown, vars, senderVars
<1>3. loop' \in {"new", "running", "done"}
  BY Zenon DEF ControlTypeOK, Next, Start, Stop, AddAccepted,
     AddRejected, SpawnedFlush, TickerFlush, RequestedFlush, FinalFlush, Split,
     FlushReturns, SplitOversized, SendSucceeds, SendFails, SendTooLarge,
     Cooldown, vars, senderVars
<1>4. stopCh' \in BOOLEAN
  BY Zenon DEF ControlTypeOK, Next, Start, Stop, AddAccepted,
     AddRejected, SpawnedFlush, TickerFlush, RequestedFlush, FinalFlush, Split,
     FlushReturns, SplitOversized, SendSucceeds, SendFails, SendTooLarge,
     Cooldown, vars, senderVars
<1>5. QED
  BY <1>1, <1>2, <1>3, <1>4 DEF ControlTypeOK

(* A flush reports an outcome only for a batch AdaptiveBatch allows.       *)
LEMMA SizingStep ==
    ASSUME BufferInv, [Next]_vars
    PROVE  [SizingNext]_sizingVars
<1>1. CASE UNCHANGED sizingVars
  BY <1>1
<1>2. ASSUME NEW size \in LogSizes, AddAccepted(size) \/ AddRejected(size)
      PROVE  SizingNext
  BY <1>2 DEF AddAccepted, AddRejected, SizingNext
<1>3. CASE SendSucceeds \/ Cooldown
  BY <1>3 DEF SendSucceeds, Cooldown, SizingNext
<1>4. CASE SendFails \/ SendTooLarge
  <2>1. holder # "nobody" /\ Sendable(BatchLen) /\ FlushFailed(BatchLen)
    BY <1>4 DEF SendFails, SendTooLarge
  <2>2. lo < hi /\ lo \in Nat /\ hi \in Nat /\ hi <= Len(backing)
    BY <2>1 DEF BufferInv, BufferTypeOK, SliceShape
  <2>3. Len(backing) <= MaxQueueSize /\ MaxQueueSize \in Nat /\ Len(backing) \in Nat
    BY SizingAssumption, LenProperties DEF BufferInv, BufferTypeOK, QueueBound
  <2>4. BatchLen \in 1..MaxQueueSize
    BY <2>2, <2>3 DEF BatchLen
  <2>5. QED
    BY <2>1, <2>4 DEF SizingNext, SomeFlushFails
<1>5. QED
  BY <1>1, <1>2, <1>3, <1>4
     DEF Next, Start, Stop, SpawnedFlush, TickerFlush, RequestedFlush,
         FinalFlush, SplitOversized, vars
-----------------------------------------------------------------------------
(* The invariant holds of a new sender.                                    *)
LEMMA SenderInvInit == Init => SenderInv
<1> SUFFICES ASSUME Init PROVE SenderInv
  OBVIOUS
<1>1. backing = <<>> /\ ends = <<>> /\ Len(backing) = 0 /\ lo = 0 /\ hi = 0
      /\ accepted = 0 /\ holder = "nobody"
  BY EmptySeq DEF Init
<1>2. BufferInv
  <2>1. BufferTypeOK
    BY <1>1, EmptySeq DEF BufferTypeOK
  <2>2. Len(ends) = 0
    BY <1>1
  <2>3. SliceShape
    BY <1>1, <2>2 DEF SliceShape
  <2>4. QueueBound /\ Numbered
    <3>1. Len(backing) <= MaxQueueSize
      BY <1>1, SizingAssumption
    <3>2. Len(backing) <= accepted /\ 1..Len(backing) = {}
      BY <1>1
    <3>3. QED
      BY <3>1, <3>2 DEF QueueBound, Numbered
  <2>5. QED
    BY <2>1, <2>3, <2>4 DEF BufferInv
<1>3. SettledInv
  <2>1. Settled = 0
    <3>1. Len(backing) = 0 /\ lo = 0 /\ accepted = 0
      BY <1>1
    <3>2. QED
      BY ONLY <3>1, SMT DEF Settled
  <2>2. 1..0 = {} /\ Cardinality({}) = 0
    BY FS_EmptySet
  <2>3. QED
    BY <2>1, <2>2 DEF Init, SettledInv
<1>4. ControlTypeOK
  BY DEF Init, ControlTypeOK, Holders
<1>5. SizingInv
  BY SizingInvInit DEF Init
<1>6. QED
  BY <1>2, <1>3, <1>4, <1>5 DEF SenderInv

(* Every step keeps the invariant.                                         *)
LEMMA SenderInvStep == SenderInv /\ [Next]_vars => SenderInv'
<1> SUFFICES ASSUME SenderInv, [Next]_vars PROVE SenderInv'
  OBVIOUS
<1>1. BufferInv'
  BY StepKind DEF SenderInv
<1>2. SettledInv'
  BY SettledStep DEF SenderInv
<1>3. ControlTypeOK'
  BY ControlStep DEF SenderInv
<1>4. SizingInv'
  BY SizingStep, SizingInvStep DEF SenderInv
<1>5. QED
  BY <1>1, <1>2, <1>3, <1>4 DEF SenderInv

(* The inductive invariant of a sender.                                    *)
THEOREM SenderInvariant == Spec => []SenderInv
BY SenderInvInit, SenderInvStep, PTL DEF Spec
-----------------------------------------------------------------------------
(* For every configuration and any load: the types, the limit of the       *)
(* buffer, and the slices.                                                 *)
THEOREM SenderTypeCorrect == Spec => [](SenderTypeOK /\ SliceShape)
<1>1. SenderInv => SenderTypeOK /\ SliceShape
  <2> SUFFICES ASSUME SenderInv PROVE SenderTypeOK /\ SliceShape
    OBVIOUS
  <2>1. BufferInv /\ SettledInv /\ ControlTypeOK /\ BufferTypeOK
    BY DEF SenderInv, BufferInv
  <2>2. /\ Len(backing) \in Nat /\ backing \in Seq(Nat) /\ accepted \in Nat
        /\ Len(backing) <= accepted
    BY <2>1, LenProperties DEF BufferTypeOK, BufferInv, Numbered
  <2>3. \A i \in 1..Len(backing) : backing[i] \in 1..accepted
    BY <2>1, <2>2 DEF BufferInv, Numbered
  <2>4. backing \in Seq(1..accepted)
    BY <2>2, <2>3
  <2>5. 1..Settled \subseteq 1..accepted /\ totalSent \in Nat
    BY <2>1, <2>2, WindowIsInterval, SettledFinite, FS_CardinalityType
       DEF SettledInv, BufferTypeOK
  <2>6. acked \subseteq 1..accepted /\ lost \subseteq 1..accepted
    BY <2>1, <2>5, SettledFinite
  <2>7. QED
    BY <2>1, <2>4, <2>5, <2>6
       DEF BufferInv, BufferTypeOK, ControlTypeOK, SenderTypeOK
<1>2. QED
  BY <1>1, SenderInvariant, PTL

(* For every configuration: the windows of a batch that is being split     *)
(* follow each other and end with the buffer.                              *)
THEOREM SlicesKeepShape == Spec => []SliceShape
<1>1. SenderTypeOK /\ SliceShape => SliceShape
  OBVIOUS
<1>2. QED
  BY <1>1, SenderTypeCorrect, PTL

(* For every configuration: no event overtakes an older one.               *)
THEOREM SenderOldestFirst == Spec => []OldestFirst
<1>1. SenderInv => OldestFirst
  <2> SUFFICES ASSUME SenderInv PROVE OldestFirst
    OBVIOUS
  <2>1. BufferInv /\ SettledInv
    BY DEF SenderInv
  <2>2. Settled \in Nat /\ Held = (Settled + 1)..accepted
        /\ acked \cup lost = 1..Settled /\ accepted \in Nat
    BY <2>1, WindowIsInterval DEF SettledInv, BufferInv, BufferTypeOK
  <2>3. \A e \in acked \cup lost, f \in Held : e < f
    BY <2>2
  <2>4. \A i, j \in 1..Len(backing) : i < j => backing[i] < backing[j]
    <3>1. Len(backing) \in Nat /\ accepted \in Nat
      BY <2>1, LenProperties DEF BufferInv, BufferTypeOK
    <3>2. QED
      BY <2>1, <3>1 DEF BufferInv, Numbered
  <2>5. QED
    BY <2>3, <2>4 DEF OldestFirst
<1>2. QED
  BY <1>1, SenderInvariant, PTL

(* For every configuration: each accepted event is confirmed, held or lost *)
(* to a split, and the counters say how many.                              *)
THEOREM EventsAccountedFor == Spec => []EveryEventAccountedFor
<1>1. SenderInv => EveryEventAccountedFor
  <2> SUFFICES ASSUME SenderInv PROVE EveryEventAccountedFor
    OBVIOUS
  <2>1. BufferInv /\ SettledInv
    BY DEF SenderInv
  <2>2. /\ Settled \in Nat /\ Held = (Settled + 1)..accepted
        /\ Settled + (Len(backing) - lo) = accepted
        /\ acked \cup lost = 1..Settled /\ acked \cap lost = {}
        /\ accepted \in Nat /\ lo \in Nat /\ Len(backing) \in Nat
        /\ lo <= Len(backing)
    BY <2>1, WindowIsInterval, LenProperties
       DEF SettledInv, BufferInv, BufferTypeOK
  <2>3. /\ 1..accepted = acked \cup lost \cup Held
        /\ (acked \cup lost) \cap Held = {}
    BY <2>2
  <2>4. /\ IsFiniteSet(acked) /\ IsFiniteSet(lost)
        /\ Cardinality(acked) \in Nat /\ Cardinality(lost) \in Nat
    BY <2>1, SettledFinite, FS_CardinalityType
  <2>5. Cardinality(acked \cup lost) = Cardinality(acked) + Cardinality(lost) - 0
    BY <2>2, <2>4, FS_Union, FS_EmptySet
  <2>6. Cardinality(1..Settled) = Settled
    BY <2>2, FS_Interval
  <2>7. accepted - totalSent - (Len(backing) - lo) = Cardinality(lost)
    <3>1. Cardinality(acked \cup lost) = Settled
      BY <2>2, <2>6
    <3>2. Settled = Cardinality(acked) + Cardinality(lost)
      BY <2>4, <2>5, <3>1
    <3>3. totalSent = Cardinality(acked)
      BY <2>1 DEF SettledInv
    <3>4. /\ Settled + (Len(backing) - lo) = accepted
          /\ accepted \in Nat /\ lo \in Nat /\ Len(backing) \in Nat
      BY <2>2
    <3>5. QED
      BY ONLY <2>4, <3>2, <3>3, <3>4, SMT
  <2>8. QED
    BY <2>1, <2>2, <2>3, <2>7 DEF EveryEventAccountedFor, SettledInv
<1>2. QED
  BY <1>1, SenderInvariant, PTL

(* For every configuration: the goroutine of Start ends with nothing in    *)
(* the buffer, whoever held the mutex before its final flush and however   *)
(* often that was split, unless the last request itself failed.            *)
THEOREM LoopDrains == Spec => LoopEndsDrained
<1>1. SenderInv /\ [Next]_vars
        => [loop # "done" /\ loop' = "done"
              => hi' = 0 \/ SendFails \/ SendTooLarge]_vars
  <2> SUFFICES ASSUME SenderInv, Next, loop # "done", loop' = "done"
               PROVE  hi' = 0 \/ SendFails \/ SendTooLarge
    OBVIOUS
  <2>1. CASE FinalFlush
    <3>1. holder = "nobody" /\ BatchLen = 0 /\ hi' = hi
      BY <2>1 DEF FinalFlush, bufferVars
    <3>2. lo = 0 /\ hi \in Nat
      BY <3>1 DEF SenderInv, BufferInv, BufferTypeOK, SliceShape
    <3>3. QED
      BY <3>1, <3>2 DEF BatchLen
  <2>2. CASE SendSucceeds
    <3>1. ends = <<>>
      BY <2>2 DEF SendSucceeds, FlushReturns
    <3>2. hi' = Len(<<>>)
      BY <2>2, <3>1 DEF SendSucceeds, FlushReturns
    <3>3. QED
      BY <3>2
  <2>3. CASE SendFails \/ SendTooLarge
    BY <2>3
  <2>4. ASSUME ~FinalFlush, ~SendSucceeds, ~SendFails, ~SendTooLarge
        PROVE  FALSE
    BY <2>4 DEF Next, Start, Stop, AddAccepted, AddRejected, SpawnedFlush,
                TickerFlush, RequestedFlush, SplitOversized, Split, Cooldown,
                senderVars
  <2>5. QED
    BY <2>1, <2>2, <2>3, <2>4
<1>2. QED
  BY <1>1, SenderInvariant, PTL DEF Spec, LoopEndsDrained

(* What is left of a flush, in passes of flushLocked: each event that is   *)
(* not settled stands for two, each half on the stack was counted once.    *)
FlushLeft == 2 * (Len(backing) - lo) - Len(ends)

FlushStep == SplitOversized \/ SendSucceeds \/ SendFails \/ SendTooLarge

FlushIsBounded == holder # "nobody" => FlushLeft \in 2..(2 * MaxQueueSize)

FlushComesCloser ==
    [][holder # "nobody" =>
          /\ FlushStep => holder' = "nobody" \/ FlushLeft' < FlushLeft
          /\ ~FlushStep => holder' = holder /\ FlushLeft' = FlushLeft]_vars

(* Each half on the stack has at least one event of its own.               *)
LEMMA FewEnds ==
    ASSUME BufferInv
    PROVE  Len(ends) \in Nat /\ Len(ends) <= Len(backing) - hi
<1> DEFINE T == {i \in 1..Len(ends) : ends[i] < hi + i}
<1>1. /\ hi \in Nat /\ Len(backing) \in Nat /\ hi <= Len(backing)
      /\ ends \in Seq(Nat) /\ Len(ends) \in Nat
      /\ \A i \in 1..Len(ends) : ends[i] \in Nat
  BY LenProperties, ElementOfSeq DEF BufferInv, BufferTypeOK
<1>2. /\ \A i \in 1..Len(ends) : hi < ends[i]
      /\ \A i, j \in 1..Len(ends) : i < j => ends[i] < ends[j]
      /\ ends # <<>> => ends[Len(ends)] = Len(backing)
  BY DEF BufferInv, SliceShape
<1>3. T = {}
  <2>1. SUFFICES ASSUME T # {} PROVE FALSE
    OBVIOUS
  <2>2. T \subseteq Nat
    BY <1>1
  <2>3. PICK n \in T : \A m \in T : ~(<<m, n>> \in OpToRel(<, Nat))
    <3> HIDE DEF T
    <3>1. QED
      BY <2>1, <2>2, WFMin, NatLessThanWellFounded
  <2>4. /\ n \in 1..Len(ends) /\ ends[n] < hi + n
        /\ \A m \in T : ~(m < n)
    BY <2>2, <2>3 DEF OpToRel
  <2>5. n # 1
    BY <1>1, <1>2, <2>4
  <2>6. n - 1 \in 1..Len(ends) /\ n - 1 < n
    BY <1>1, <2>4, <2>5
  <2>7. ends[n - 1] >= hi + (n - 1)
    BY <1>1, <2>4, <2>6
  <2>8. ends[n - 1] < ends[n]
    BY <1>2, <2>4, <2>6
  <2>9. QED
    BY <1>1, <2>4, <2>6, <2>7, <2>8
<1>4. CASE ends = <<>>
  BY <1>1, <1>4
<1>5. CASE ends # <<>>
  <2>1. Len(ends) \in 1..Len(ends)
    BY <1>1, <1>5, EmptySeq
  <2>2. ~(ends[Len(ends)] < hi + Len(ends))
    BY <1>3, <2>1
  <2>3. QED
    BY <1>1, <1>2, <1>5, <2>1, <2>2
<1>6. QED
  BY <1>1, <1>4, <1>5

(* For every configuration and whatever the collector answers: a flush of  *)
(* n events makes at most 2n - 1 passes of flushLocked, so splitAndFlush   *)
(* and flushLocked do not call each other for ever (src/sender.go 437-514) *)
(* and the mutex is released after as many requests at most.               *)
THEOREM FlushTerminates == Spec => []FlushIsBounded /\ FlushComesCloser
<1>1. SenderInv => FlushIsBounded
  <2> SUFFICES ASSUME SenderInv, holder # "nobody"
               PROVE  FlushLeft \in 2..(2 * MaxQueueSize)
    BY DEF FlushIsBounded
  <2>1. /\ lo \in Nat /\ hi \in Nat /\ Len(backing) \in Nat /\ lo < hi
        /\ Len(backing) <= MaxQueueSize /\ MaxQueueSize \in Nat
    BY LenProperties, SizingAssumption
       DEF SenderInv, BufferInv, BufferTypeOK, SliceShape, QueueBound
  <2>2. Len(ends) \in Nat /\ Len(ends) <= Len(backing) - hi
    BY FewEnds DEF SenderInv
  <2>3. QED
    BY <2>1, <2>2 DEF FlushLeft
<1>2. SenderInv /\ [Next]_vars
        => [holder # "nobody" =>
              /\ FlushStep => holder' = "nobody" \/ FlushLeft' < FlushLeft
              /\ ~FlushStep => holder' = holder /\ FlushLeft' = FlushLeft]_vars
  <2> SUFFICES ASSUME SenderInv, Next, holder # "nobody"
               PROVE  /\ FlushStep => holder' = "nobody" \/ FlushLeft' < FlushLeft
                      /\ ~FlushStep => holder' = holder /\ FlushLeft' = FlushLeft
    OBVIOUS
  <2>1. /\ lo \in Nat /\ hi \in Nat /\ Len(backing) \in Nat /\ lo < hi
        /\ ends \in Seq(Nat) /\ Len(ends) \in Nat
    BY LenProperties DEF SenderInv, BufferInv, BufferTypeOK, SliceShape
  <2>2. ASSUME Split
        PROVE  FlushLeft' < FlushLeft
    <3>1. ends' = <<hi>> \o ends /\ lo' = lo /\ backing' = backing
      BY <2>2 DEF Split
    <3>2. Len(ends') = Len(ends) + 1
      BY <2>1, <3>1
    <3>3. QED
      BY <2>1, <3>1, <3>2 DEF FlushLeft
  <2>3. ASSUME NEW kept, FlushReturns(kept)
        PROVE  holder' = "nobody" \/ FlushLeft' < FlushLeft
    <3>1. CASE ends = <<>>
      BY <2>3, <3>1 DEF FlushReturns
    <3>2. CASE ends # <<>>
      <4>1. ends' = Tail(ends) /\ lo' = hi /\ backing' = backing
        BY <2>3, <3>2 DEF FlushReturns
      <4>2. Len(ends') = Len(ends) - 1
        BY <2>1, <3>2, <4>1, HeadTailProperties
      <4>3. FlushLeft' = 2 * (Len(backing) - hi) - (Len(ends) - 1)
        BY <4>1, <4>2 DEF FlushLeft
      <4>4. 2 * (Len(backing) - hi) - (Len(ends) - 1) < FlushLeft
        BY <2>1 DEF FlushLeft
      <4>5. QED
        BY <4>3, <4>4
    <3>3. QED
      BY <3>1, <3>2
  <2>4. FlushStep => holder' = "nobody" \/ FlushLeft' < FlushLeft
    BY <2>2, <2>3
       DEF FlushStep, SplitOversized, SendSucceeds, SendFails, SendTooLarge
  <2>5. ~FlushStep => holder' = holder /\ UNCHANGED bufferVars
    BY DEF Next, FlushStep, Start, Stop, AddAccepted, AddRejected, SpawnedFlush,
           TickerFlush, RequestedFlush, FinalFlush, Cooldown, senderVars,
           bufferVars
  <2>6. ~FlushStep => FlushLeft' = FlushLeft
    BY <2>5 DEF FlushLeft, bufferVars
  <2>7. QED
    BY <2>4, <2>5, <2>6
<1>3. QED
  BY <1>1, <1>2, SenderInvariant, PTL DEF Spec, FlushComesCloser

(* For every configuration: the sizes change only as AdaptiveBatch says.   *)
THEOREM SenderImplementsSizing == Spec => ImplementsSizing
<1>1. Init => SizingInit
  BY DEF Init
<1>2. SenderInv /\ [Next]_vars => [SizingNext]_sizingVars
  BY SizingStep DEF SenderInv
<1>3. QED
  BY <1>1, <1>2, SenderInvariant, PTL DEF Spec, ImplementsSizing, SizingSpec
-----------------------------------------------------------------------------
(* The outbox of a sender is fixed by how many events are settled and how  *)
(* many were accepted.                                                     *)
Waiting == SubSeq(backing, lo + 1, Len(backing))

WaitingIsTheRest ==
    /\ Waiting \in Seq(Nat)
    /\ Len(Waiting) = accepted - Settled
    /\ Settled \in Nat /\ accepted \in Nat /\ Settled <= accepted
    /\ \A i \in 1..Len(Waiting) : Waiting[i] = Settled + i

LEMMA WaitingValue == BufferInv => WaitingIsTheRest
<1> SUFFICES ASSUME BufferInv PROVE WaitingIsTheRest
  OBVIOUS
<1>1. /\ lo \in Nat /\ lo <= Len(backing)
      /\ Len(backing) \in Nat /\ backing \in Seq(Nat) /\ accepted \in Nat
      /\ Settled \in Nat /\ Settled + (Len(backing) - lo) = accepted
  BY LenProperties, WindowIsInterval DEF BufferInv, BufferTypeOK
<1>2. \A i \in (lo + 1)..Len(backing) : backing[i] \in Nat
  BY <1>1, ElementOfSeq
<1> DEFINE n == Len(backing)
<1>3. /\ Waiting \in Seq(Nat)
      /\ Len(Waiting) = IF lo + 1 <= n THEN n - (lo + 1) + 1 ELSE 0
      /\ \A i \in 1..(n - (lo + 1) + 1) :
           Waiting[i] = backing[(lo + 1) + i - 1]
  BY <1>1, <1>2, SubSeqProperties DEF Waiting
<1>4. n \in Nat /\ n - (lo + 1) + 1 = accepted - Settled
      /\ (~(lo + 1 <= n) => accepted - Settled = 0)
  BY <1>1
<1>5. Len(Waiting) = accepted - Settled
  BY <1>3, <1>4
<1>6. ASSUME NEW i \in 1..(accepted - Settled)
      PROVE  Waiting[i] = Settled + i
  <2>1. Waiting[i] = backing[(lo + 1) + i - 1]
    BY <1>3, <1>4
  <2>2. (lo + 1) + i - 1 = lo + i /\ lo + i \in 1..n
    BY <1>1, <1>4
  <2>3. backing[lo + i] = accepted - n + (lo + i)
    BY <2>2 DEF BufferInv, Numbered
  <2>4. QED
    BY <1>1, <1>4, <2>1, <2>2, <2>3
<1>7. QED
  BY <1>1, <1>3, <1>5, <1>6 DEF WaitingIsTheRest

LEMMA WaitingValueNext == BufferInv' => WaitingIsTheRest'
BY WaitingValue, PTL

LEMMA WaitingUnchanged ==
    ASSUME BufferInv, BufferInv', Settled' = Settled, accepted' = accepted
    PROVE  Waiting' = Waiting
<1>1. WaitingIsTheRest /\ WaitingIsTheRest'
  BY WaitingValue, WaitingValueNext
<1>2. /\ Waiting \in Seq(Nat) /\ Waiting' \in Seq(Nat)
      /\ Len(Waiting') = Len(Waiting)
      /\ \A i \in 1..Len(Waiting') : Waiting'[i] = Waiting[i]
  BY <1>1 DEF WaitingIsTheRest
<1>3. QED
  BY <1>2, SeqEqual

LEMMA WaitingAppended ==
    ASSUME BufferInv, BufferInv', Settled' = Settled,
           accepted' = accepted + 1
    PROVE  Waiting' = Append(Waiting, accepted + 1)
<1>1. WaitingIsTheRest /\ WaitingIsTheRest'
  BY WaitingValue, WaitingValueNext
<1>2. accepted + 1 \in Nat /\ Waiting \in Seq(Nat)
  BY <1>1 DEF WaitingIsTheRest
<1>3. /\ Append(Waiting, accepted + 1) \in Seq(Nat)
      /\ Len(Append(Waiting, accepted + 1)) = Len(Waiting) + 1
      /\ \A i \in 1..Len(Waiting) :
           Append(Waiting, accepted + 1)[i] = Waiting[i]
      /\ Append(Waiting, accepted + 1)[Len(Waiting) + 1] = accepted + 1
  BY <1>2, AppendProperties
<1> DEFINE longer == Append(Waiting, accepted + 1)
<1>4. /\ Waiting' \in Seq(Nat) /\ longer \in Seq(Nat)
      /\ Len(Waiting') = Len(longer)
  BY <1>1, <1>3 DEF WaitingIsTheRest
<1>5. ASSUME NEW i \in 1..Len(Waiting') PROVE Waiting'[i] = longer[i]
  <2>1. Waiting'[i] = Settled + i
    BY <1>1 DEF WaitingIsTheRest
  <2>2. CASE i = Len(Waiting) + 1
    BY <1>1, <1>3, <2>1, <2>2 DEF WaitingIsTheRest
  <2>3. CASE i # Len(Waiting) + 1
    <3>1. i \in 1..Len(Waiting)
      BY <1>1, <2>3 DEF WaitingIsTheRest
    <3>2. QED
      BY <1>1, <1>3, <2>1, <3>1 DEF WaitingIsTheRest
  <2>4. QED
    BY <2>2, <2>3
<1>6. QED
  BY <1>4, <1>5, SeqEqual

LEMMA WaitingShortened ==
    ASSUME BufferInv, BufferInv', NEW k \in Nat, k <= Len(Waiting),
           Settled' = Settled + k, accepted' = accepted
    PROVE  Waiting' = SubSeq(Waiting, k + 1, Len(Waiting))
<1>1. WaitingIsTheRest /\ WaitingIsTheRest'
  BY WaitingValue, WaitingValueNext
<1> DEFINE n == Len(Waiting)
           rest == SubSeq(Waiting, k + 1, n)
<1>2. n \in Nat /\ k <= n /\ Waiting \in Seq(Nat)
  BY <1>1 DEF WaitingIsTheRest
<1>3. \A i \in (k + 1)..n : Waiting[i] \in Nat
  BY <1>2, ElementOfSeq
<1>4. /\ rest \in Seq(Nat)
      /\ Len(rest) = IF k + 1 <= n THEN n - (k + 1) + 1 ELSE 0
      /\ \A i \in 1..(n - (k + 1) + 1) : rest[i] = Waiting[(k + 1) + i - 1]
  BY <1>2, <1>3, SubSeqProperties
<1> HIDE DEF rest
<1>5. Len(rest) = n - k /\ Len(Waiting') = n - k
  BY <1>1, <1>2, <1>4 DEF WaitingIsTheRest
<1>6. ASSUME NEW i \in 1..Len(rest) PROVE Waiting'[i] = rest[i]
  <2>1. /\ i \in 1..(n - (k + 1) + 1) /\ k + i \in 1..n
        /\ (k + 1) + i - 1 = k + i
    BY <1>2, <1>5
  <2>2. rest[i] = Waiting[k + i]
    BY <1>4, <2>1
  <2>3. Waiting[k + i] = Settled + (k + i)
    BY <1>1, <2>1 DEF WaitingIsTheRest
  <2>4. Waiting'[i] = (Settled + k) + i
    BY <1>1, <1>5 DEF WaitingIsTheRest
  <2>5. QED
    BY <1>1, <2>2, <2>3, <2>4 DEF WaitingIsTheRest
<1>7. Waiting' \in Seq(Nat)
  BY <1>1 DEF WaitingIsTheRest
<1>8. Waiting' = rest
  BY <1>4, <1>5, <1>6, <1>7, SeqEqual
<1>9. QED
  BY <1>8 DEF rest

(* The first k events of the outbox are those of the window.               *)
LEMMA WindowIsOldest ==
    ASSUME BufferInv
    PROVE  {Waiting[i] : i \in 1..(hi - lo)} = Window
<1>1. WaitingIsTheRest
  BY WaitingValue
<1>2. /\ lo \in Nat /\ hi \in Nat /\ Settled \in Nat
      /\ Window = (Settled + 1)..(Settled + (hi - lo))
      /\ Settled + (Len(backing) - lo) = accepted
      /\ lo <= hi /\ hi <= Len(backing) /\ Len(backing) \in Nat
  BY WindowIsInterval, LenProperties DEF BufferInv, BufferTypeOK
<1>3. hi - lo <= Len(Waiting)
  BY <1>1, <1>2 DEF WaitingIsTheRest
<1>4. \A i \in 1..(hi - lo) : Waiting[i] = Settled + i
  BY <1>1, <1>2, <1>3 DEF WaitingIsTheRest
<1>5. ASSUME NEW e \in Window
      PROVE  \E i \in 1..(hi - lo) : e = Waiting[i]
  <2>1. e - Settled \in 1..(hi - lo) /\ e = Settled + (e - Settled)
    BY <1>2
  <2>2. QED
    BY <1>4, <2>1
<1>6. \A i \in 1..(hi - lo) : Waiting[i] \in Window
  BY <1>2, <1>4
<1>7. QED
  BY <1>5, <1>6

(* For every configuration: a sender is an outbox.                         *)
THEOREM SenderImplementsOutbox == Spec => ImplementsOutbox
<1>1. ASSUME Init PROVE Outbox!OutboxInit
  <2>1. BufferInv
    BY <1>1, SenderInvInit DEF SenderInv
  <2>2. WaitingIsTheRest /\ Settled = 0 /\ accepted = 0
    <3>1. accepted = 0 /\ lo = 0 /\ Len(backing) = 0
      BY <1>1, EmptySeq DEF Init
    <3>2. Settled = 0
      BY ONLY <3>1, SMT DEF Settled
    <3>3. QED
      BY <2>1, <3>1, <3>2, WaitingValue
  <2>3. Waiting = <<>>
    BY <2>2, EmptySeq DEF WaitingIsTheRest
  <2>4. QED
    BY <1>1, <2>3 DEF Init, Outbox!OutboxInit, Waiting
<1>2. ASSUME SenderInv, [Next]_vars
      PROVE  [Outbox!OutboxNext]_(Outbox!outboxVars)
  <2>1. BufferInv /\ BufferInv'
    BY <1>2, StepKind DEF SenderInv
  <2>2. /\ lo \in Nat /\ hi \in Nat /\ Len(backing) \in Nat
        /\ lo <= hi /\ hi <= Len(backing)
        /\ Len(Waiting) = Len(backing) - lo
        /\ holder # "nobody" => lo < hi
        /\ holder = "nobody" => lo = 0 /\ hi = Len(backing)
    <3>1. WaitingIsTheRest /\ Settled + (Len(backing) - lo) = accepted
      BY <2>1, WaitingValue, WindowIsInterval
    <3>2. lo \in Nat /\ hi \in Nat /\ Len(backing) \in Nat
      BY <2>1, LenProperties DEF BufferInv, BufferTypeOK
    <3>3. Len(Waiting) = Len(backing) - lo
      BY <3>1, <3>2 DEF WaitingIsTheRest
    <3>4. QED
      BY <2>1, <3>2, <3>3 DEF BufferInv, BufferTypeOK, SliceShape
  <2>3. CASE Quiet
    <3>1. Waiting' = Waiting
      BY <2>1, <2>3, WaitingUnchanged DEF Quiet
    <3>2. QED
      BY <2>3, <3>1 DEF Quiet, countVars, Outbox!outboxVars, Waiting
  <2>4. CASE Taken
    <3>1. Waiting' = Append(Waiting, accepted + 1)
      BY <2>1, <2>4, WaitingAppended DEF Taken
    <3>2. Len(Waiting) < MaxQueueSize
      BY <2>2, <2>4, SizingAssumption DEF Taken, QueueFull, BatchLen
    <3>3. Outbox!Accept
      BY <2>4, <3>1, <3>2 DEF Taken, countVars, Outbox!Accept, Waiting
    <3>4. QED
      BY <3>3 DEF Outbox!OutboxNext
  <2>5. CASE Refused
    <3>1. Waiting' = Waiting
      BY <2>1, <2>5, WaitingUnchanged DEF Refused
    <3>2. Len(Waiting) >= MaxQueueSize
      BY <2>2, <2>5, SizingAssumption DEF Refused, QueueFull, BatchLen
    <3>3. Outbox!Reject
      BY <2>5, <3>1, <3>2 DEF Refused, countVars, Outbox!Reject, Waiting
    <3>4. QED
      BY <3>3 DEF Outbox!OutboxNext
  <2>6. hi - lo \in Nat /\ hi - lo <= Len(Waiting)
    BY <2>2
  <2>7. CASE Confirmed
    <3>1. Waiting' = SubSeq(Waiting, (hi - lo) + 1, Len(Waiting))
      BY <2>1, <2>6, <2>7, WaitingShortened DEF Confirmed
    <3>2. Outbox!Confirm(hi - lo)
      BY <2>1, <2>6, <2>7, <3>1, WindowIsOldest
         DEF Confirmed, Outbox!Confirm, Outbox!Without, Outbox!Oldest, Waiting
    <3>3. hi - lo \in 1..Len(Waiting)
      BY <2>2, <2>7 DEF Confirmed
    <3>4. QED
      BY <3>2, <3>3 DEF Outbox!OutboxNext, Waiting
  <2>8. CASE Forgotten
    <3>1. Waiting' = SubSeq(Waiting, (hi - lo) + 1, Len(Waiting))
      BY <2>1, <2>6, <2>8, WaitingShortened DEF Forgotten
    <3>2. hi < Len(backing)
      <4>1. ends # <<>> /\ ends \in Seq(Nat)
        BY <2>1, <2>8 DEF Forgotten, BufferInv, BufferTypeOK
      <4>2. Len(ends) \in 1..Len(ends)
        BY <4>1, EmptySeq
      <4>3. hi < ends[Len(ends)] /\ ends[Len(ends)] = Len(backing)
        BY <2>1, <4>1, <4>2 DEF BufferInv, SliceShape
      <4>4. QED
        BY <4>3
    <3>3. hi - lo < Len(Waiting) /\ hi - lo \in 1..Len(Waiting)
      BY <2>2, <2>8, <3>2 DEF Forgotten
    <3>4. Outbox!Forget(hi - lo)
      BY <2>1, <2>6, <2>8, <3>1, <3>3, WindowIsOldest
         DEF Forgotten, Outbox!Forget, Outbox!Without, Outbox!Oldest, Waiting
    <3>5. QED
      BY <3>3, <3>4 DEF Outbox!OutboxNext, Waiting
  <2>9. QED
    BY <1>2, <2>1, <2>3, <2>4, <2>5, <2>7, <2>8, StepKind
<1>3. QED
  BY <1>1, <1>2, SenderInvariant, PTL
     DEF Spec, ImplementsOutbox, Outbox!OutboxSpec
=============================================================================
