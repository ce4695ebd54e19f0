------------------------- MODULE KafkaConsumerProofs -------------------------
(***************************************************************************)
(* The safety of the Kafka consumer for any number of workers, messages,   *)
(* crashes and lost commits, and any capacity of the channel.              *)
(***************************************************************************)
EXTENDS KafkaConsumer, TLAPS, SequenceTheorems, FiniteSetTheorems

(* A claim exists exactly while there is a session; it has marked all that *)
(* it has handed on, at least what is committed, and handles a message of  *)
(* the partition.                                                          *)
ClaimInv ==
    /\ claim # "none" <=> loop = "session"
    /\ claim # "none" => marked + 1 = next /\ committed <= marked
    /\ claim \in {"inline", "marking"} => next <= MaxOffset

ConsumerInv == TypeOK /\ ClaimInv
-----------------------------------------------------------------------------
(* The channel and the messages in it.                                     *)
LEMMA QueuedAppended ==
    ASSUME channel \in Seq(Offsets), NEW m \in Offsets,
           channel' = Append(channel, m)
    PROVE  Queued' = Queued \cup {m}
<1>1. /\ Len(channel) \in Nat /\ Len(channel') = Len(channel) + 1
      /\ \A i \in 1..Len(channel) : channel'[i] = channel[i]
      /\ channel'[Len(channel) + 1] = m
  BY AppendProperties, LenProperties
<1>2. 1..Len(channel') = 1..Len(channel) \cup {Len(channel) + 1}
  BY <1>1
<1>3. QED
  BY <1>1, <1>2 DEF Queued

LEMMA QueuedTaken ==
    ASSUME channel \in Seq(Offsets), channel # <<>>, channel' = Tail(channel)
    PROVE  /\ Queued = Queued' \cup {Head(channel)}
           /\ Head(channel) \in Offsets
           /\ channel' \in Seq(Offsets) /\ Len(channel') = Len(channel) - 1
<1>1. /\ Len(channel) \in Nat \ {0} /\ Len(channel') = Len(channel) - 1
      /\ \A i \in 1..Len(channel') : channel'[i] = channel[i + 1]
      /\ channel' \in Seq(Offsets) /\ Head(channel) \in Offsets
      /\ Head(channel) = channel[1]
  BY HeadTailProperties, EmptySeq
<1>2. ASSUME NEW j \in 1..Len(channel), j # 1
      PROVE  channel[j] \in Queued'
  <2>1. j - 1 \in 1..Len(channel') /\ (j - 1) + 1 = j
    BY <1>1, <1>2
  <2>2. channel'[j - 1] = channel[j]
    BY <1>1, <2>1
  <2>3. QED
    BY <2>1, <2>2 DEF Queued
<1>3. ASSUME NEW i \in 1..Len(channel')
      PROVE  channel'[i] \in Queued
  <2>1. i + 1 \in 1..Len(channel) /\ channel'[i] = channel[i + 1]
    BY <1>1
  <2>2. QED
    BY <2>1 DEF Queued
<1>4. Queued \subseteq Queued' \cup {Head(channel)}
  BY <1>1, <1>2 DEF Queued
<1>5. Queued' \subseteq Queued
  BY <1>3 DEF Queued
<1>6. 1 \in 1..Len(channel)
  BY <1>1
<1>7. Head(channel) \in Queued
  BY <1>1, <1>6 DEF Queued
<1>8. QED
  BY <1>1, <1>4, <1>5, <1>7

(* The empty channel.                                                      *)
LEMMA EmptyChannel ==
    /\ <<>> \in Seq(Offsets) /\ Len(<<>>) = 0
    /\ channel = <<>> => Queued = {}
<1>1. <<>> \in Seq(Offsets) /\ Len(<<>>) = 0
  BY EmptySeq
<1>2. 1..0 = {}
  OBVIOUS
<1>3. QED
  BY <1>1, <1>2 DEF Queued
-----------------------------------------------------------------------------
LEMMA ConsumerInvInit == Init => ConsumerInv
<1> SUFFICES ASSUME Init PROVE ConsumerInv
  OBVIOUS
<1>1. TypeOK
  <2>1. channel \in Seq(Offsets) /\ Len(channel) <= Capacity
    BY ConsumerAssumption, EmptyChannel DEF Init
  <2>2. working \in [Workers -> 0..MaxOffset]
    BY ConsumerAssumption DEF Init
  <2>3. handled \in [Offsets -> Nat]
    BY DEF Init
  <2>4. next \in 1..(MaxOffset + 1) /\ marked \in 0..MaxOffset
        /\ committed \in 0..MaxOffset
    BY ConsumerAssumption DEF Init
  <2>5. QED
    BY <2>1, <2>2, <2>3, <2>4 DEF Init, TypeOK
<1>2. ClaimInv
  BY DEF Init, ClaimInv
<1>3. QED
  BY <1>1, <1>2 DEF ConsumerInv

LEMMA ConsumerInvStep ==
    ASSUME ConsumerInv, [Next]_vars
    PROVE  ConsumerInv'
<1> USE ConsumerAssumption DEF ConsumerInv, ClaimInv
<1>0. TypeOK
  OBVIOUS
<1>1. CASE StartReturns \/ LoopChecks \/ ConsumeFails
  BY <1>1 DEF StartReturns, LoopChecks, ConsumeFails, TypeOK, history
<1>2. CASE SessionStarts
  BY <1>2 DEF SessionStarts, TypeOK, history
<1>3. CASE SessionEnds
  BY <1>3 DEF SessionEnds, TypeOK
<1>4. CASE AutoCommit
  BY <1>4 DEF AutoCommit, TypeOK, processVars, history
<1>5. CASE ClaimQueues
  <2>1. next \in Offsets /\ channel \in Seq(Offsets)
    BY <1>5 DEF ClaimQueues, TypeOK, Offsets
  <2>2. channel' \in Seq(Offsets) /\ Len(channel') = Len(channel) + 1
    BY <1>5, <2>1, AppendProperties DEF ClaimQueues
  <2>3. Len(channel) \in Nat
    BY <2>1, LenProperties
  <2>4. QED
    BY <1>5, <2>2, <2>3 DEF ClaimQueues, TypeOK, history
<1>6. CASE ClaimTakesOver
  BY <1>6 DEF ClaimTakesOver, TypeOK, history
<1>7. CASE ClaimProcesses
  BY <1>7 DEF ClaimProcesses, Processed, TypeOK, Offsets
<1>8. CASE ClaimMarks
  BY <1>8 DEF ClaimMarks, TypeOK, history
<1>9. ASSUME GoesDown PROVE ConsumerInv'
  <2>1. channel' \in Seq(Offsets) /\ Len(channel') <= Capacity
    BY <1>9, EmptyChannel DEF GoesDown
  <2>2. working' \in [Workers -> 0..MaxOffset]
    BY <1>9 DEF GoesDown
  <2>3. next' \in 1..(MaxOffset + 1) /\ marked' \in 0..MaxOffset
    BY <1>9 DEF GoesDown
  <2>4. /\ committed' \in 0..MaxOffset /\ handled' \in [Offsets -> Nat]
        /\ crashes' \in Nat /\ lostCommits' \in Nat
    BY <1>9 DEF GoesDown, TypeOK
  <2>5. QED
    BY <1>9, <2>1, <2>2, <2>3, <2>4 DEF GoesDown, TypeOK
<1>10. CASE ClaimPanics \/ Crash
  BY <1>9, <1>10 DEF ClaimPanics, Crash
<1>11. CASE Restart
  BY <1>11 DEF Restart, TypeOK, history
<1>12. ASSUME NEW w \in Workers, WorkerReceives(w) PROVE ConsumerInv'
  <2>1. /\ channel' \in Seq(Offsets) /\ Len(channel') = Len(channel) - 1
        /\ Head(channel) \in Offsets
    BY <1>12, QueuedTaken DEF WorkerReceives, TypeOK
  <2>2. Len(channel) \in Nat
    BY LenProperties DEF TypeOK
  <2>3. working' \in [Workers -> 0..MaxOffset] /\ alive' \subseteq Workers
    <3>1. Head(channel) \in 0..MaxOffset
      BY <2>1 DEF Offsets
    <3>2. CASE stopped
      BY <1>12, <3>2 DEF WorkerReceives, TypeOK
    <3>3. CASE ~stopped
      BY <1>12, <3>1, <3>3 DEF WorkerReceives, TypeOK
    <3>4. QED
      BY <3>2, <3>3
  <2>4. QED
    BY <1>12, <2>1, <2>2, <2>3 DEF WorkerReceives, TypeOK, history
<1>13. ASSUME NEW w \in Workers, WorkerProcesses(w) PROVE ConsumerInv'
  <2>1. working[w] \in Offsets
    BY <1>13 DEF WorkerProcesses, TypeOK, Offsets
  <2>2. QED
    BY <1>13, <2>1 DEF WorkerProcesses, Processed, TypeOK
<1>14. ASSUME NEW w \in Workers, WorkerReturns(w) PROVE ConsumerInv'
  BY <1>14 DEF WorkerReturns, TypeOK, history
<1>15. CASE StopBegins \/ Stopping
  BY <1>15
     DEF StopBegins, Stopping, StopClosesChannel, StopClosesGroup,
         StopGroupIsClosed, StopReturns, TypeOK, history
<1>16. CASE UNCHANGED vars
  BY <1>16 DEF vars, processVars, history, TypeOK
<1>17. QED
  BY <1>1, <1>2, <1>3, <1>4, <1>5, <1>6, <1>7, <1>8, <1>10, <1>11, <1>12,
     <1>13, <1>14, <1>15, <1>16
     DEF Next, Loop, Claim, Worker

THEOREM ConsumerInvariant == SafetySpec => []ConsumerInv
BY ConsumerInvInit, ConsumerInvStep, PTL DEF SafetySpec

(* For any number of workers and messages: the types of the consumer; the  *)
(* channel never exceeds its capacity.                                     *)
THEOREM ConsumerTypeCorrect == SafetySpec => []TypeOK
<1>1. ConsumerInv => TypeOK
  BY DEF ConsumerInv
<1>2. QED
  BY <1>1, ConsumerInvariant, PTL
-----------------------------------------------------------------------------
(* The messages with the workers.                                          *)
LEMMA InHandTaken ==
    ASSUME working \in [Workers -> 0..MaxOffset], NEW w \in Workers,
           working[w] = 0, NEW m \in Offsets,
           working' = [working EXCEPT ![w] = m]
    PROVE  InHand' = InHand \cup {m}
<1>1. m # 0
  BY DEF Offsets
<1>2. /\ working'[w] = m
      /\ \A v \in Workers \ {w} : working'[v] = working[v]
  OBVIOUS
<1>3. QED
  BY <1>1, <1>2 DEF InHand

LEMMA InHandReleased ==
    ASSUME working \in [Workers -> 0..MaxOffset], NEW w \in Workers,
           working[w] # 0,
           working' = [working EXCEPT ![w] = 0]
    PROVE  /\ InHand = InHand' \cup {working[w]}
           /\ working[w] \in Offsets
<1>1. working[w] \in Offsets
  BY DEF Offsets
<1>2. /\ working'[w] = 0
      /\ \A v \in Workers \ {w} : working'[v] = working[v]
  OBVIOUS
<1>3. QED
  BY <1>1, <1>2 DEF InHand

LEMMA NothingInHand ==
    working = [w \in Workers |-> 0] => InHand = {}
BY DEF InHand
-----------------------------------------------------------------------------
LEMMA ReaderStarts == Init => Reader!ReaderInit
<1> SUFFICES ASSUME Init PROVE Reader!ReaderInit
  OBVIOUS
<1>1. Pending = {}
  BY EmptyChannel, NothingInHand DEF Init, Pending
<1>2. QED
  BY <1>1 DEF Init, Position, Offsets, Reader!ReaderInit

(* A step that leaves what the reader sees alone.                          *)
LEMMA ReaderStutters ==
    ASSUME UNCHANGED <<channel, working, claim, next, committed, handled,
                       stopped>>
    PROVE  UNCHANGED Reader!readerVars
<1>1. UNCHANGED Pending
  BY DEF Pending, Queued, InHand
<1>2. QED
  BY <1>1 DEF Position, Reader!readerVars

LEMMA ReaderStep ==
    ASSUME ConsumerInv, [Next]_vars
    PROVE  [Reader!ReaderNext]_(Reader!readerVars)
<1> USE ConsumerAssumption DEF ConsumerInv
<1>0. TypeOK /\ ClaimInv
  OBVIOUS
<1>1. CASE StartReturns \/ LoopChecks \/ ConsumeFails
  BY <1>1, ReaderStutters
     DEF StartReturns, LoopChecks, ConsumeFails, history
<1>2. CASE SessionStarts
  <2>1. claim = "none"
    BY <1>2, <1>0 DEF SessionStarts, ClaimInv
  <2>2. UNCHANGED Pending
    BY <1>2, <2>1 DEF SessionStarts, Pending, Queued, InHand
  <2>3. UNCHANGED Position
    BY <1>2, <2>1 DEF SessionStarts, Position, TypeOK
  <2>4. QED
    BY <1>2, <2>2, <2>3 DEF SessionStarts, Reader!readerVars, history
<1>3. CASE SessionEnds
  <2>1. UNCHANGED Pending
    BY <1>3 DEF SessionEnds, Pending, Queued, InHand
  <2>2. /\ Position = marked /\ Position' = committed'
        /\ committed' \in committed..marked
    BY <1>3, <1>0 DEF SessionEnds, Position, ClaimInv, TypeOK
  <2>3. Reader!Rewind
    BY <1>3, <2>1, <2>2 DEF SessionEnds, Reader!Rewind
  <2>4. QED
    BY <2>3 DEF Reader!ReaderNext
<1>4. CASE AutoCommit
  <2>1. UNCHANGED <<Pending, Position>>
    BY <1>4, <1>0
       DEF AutoCommit, Pending, Queued, InHand, Position, ClaimInv, processVars
  <2>2. marked \in committed..Position
    BY <1>4, <1>0 DEF AutoCommit, Position, ClaimInv, TypeOK
  <2>3. Reader!Commit
    BY <1>4, <2>1, <2>2 DEF AutoCommit, Reader!Commit, processVars, history
  <2>4. QED
    BY <2>3 DEF Reader!ReaderNext
<1>5. CASE ClaimQueues \/ ClaimTakesOver
  <2>1. next \in Offsets /\ channel \in Seq(Offsets)
    BY <1>5 DEF ClaimQueues, ClaimTakesOver, TypeOK, Offsets
  <2>2. UNCHANGED InHand
    BY <1>5 DEF ClaimQueues, ClaimTakesOver, InHand
  <2>3. Pending' = Pending \cup {next}
    <3>1. CASE ClaimQueues
      BY <3>1, <2>1, <2>2, QueuedAppended DEF ClaimQueues, Pending
    <3>2. CASE ClaimTakesOver
      BY <3>2, <2>2 DEF ClaimTakesOver, Pending, Queued
    <3>3. QED
      BY <1>5, <3>1, <3>2
  <2>4. Position = next - 1 /\ Position' = next /\ Position + 1 = next
        /\ Position < MaxOffset
    BY <1>5, <2>1 DEF ClaimQueues, ClaimTakesOver, Position, Offsets
  <2>5. Reader!Take
    BY <1>5, <2>3, <2>4
       DEF ClaimQueues, ClaimTakesOver, Reader!Take, history
  <2>6. QED
    BY <2>5 DEF Reader!ReaderNext
<1>7. CASE ClaimProcesses
  <2>1. UNCHANGED <<Queued, InHand>>
    BY <1>7 DEF ClaimProcesses, Queued, InHand
  <2>2. Pending = Pending' \cup {next}
    BY <1>7, <2>1 DEF ClaimProcesses, Pending
  <2>3. Pending' \in {Pending, Pending \ {next}}
    BY <2>2
  <2>4. UNCHANGED Position
    BY <1>7 DEF ClaimProcesses, Position
  <2>5. Reader!Finish(next)
    BY <1>7, <2>2, <2>3, <2>4
       DEF ClaimProcesses, Processed, Reader!Finish
  <2>6. QED
    BY <2>2, <2>5 DEF Reader!ReaderNext
<1>8. CASE ClaimMarks
  <2>1. UNCHANGED Pending
    BY <1>8 DEF ClaimMarks, Pending, Queued, InHand
  <2>2. UNCHANGED Position
    BY <1>8 DEF ClaimMarks, Position, TypeOK
  <2>3. QED
    BY <1>8, <2>1, <2>2 DEF ClaimMarks, Reader!readerVars, history
<1>9. CASE ClaimPanics \/ Crash
  <2>1. GoesDown
    BY <1>9 DEF ClaimPanics, Crash
  <2>2. Pending' = {}
    <3>1. Queued' = {}
      BY <2>1, EmptyChannel DEF GoesDown, Queued
    <3>2. InHand' = {}
      BY <2>1 DEF GoesDown, InHand
    <3>3. QED
      BY <2>1, <3>1, <3>2 DEF GoesDown, Pending
  <2>3. Reader!Die
    BY <2>1, <2>2 DEF GoesDown, Position, Reader!Die
  <2>4. QED
    BY <2>3 DEF Reader!ReaderNext
<1>10. CASE Restart
  BY <1>10, ReaderStutters DEF Restart, history
<1>11. ASSUME NEW w \in Workers, WorkerReceives(w)
       PROVE  [Reader!ReaderNext]_(Reader!readerVars)
  <2>1. /\ Queued = Queued' \cup {Head(channel)}
        /\ Head(channel) \in Offsets
    BY <1>11, QueuedTaken DEF WorkerReceives, TypeOK
  <2>2. UNCHANGED Position
    BY <1>11 DEF WorkerReceives, Position
  <2>3. CASE stopped
    <3>1. UNCHANGED InHand
      BY <1>11, <2>3 DEF WorkerReceives, InHand
    <3>2. Pending = Pending' \cup {Head(channel)}
      BY <1>11, <2>1, <3>1 DEF WorkerReceives, Pending
    <3>3. CASE Head(channel) \in Pending'
      BY <1>11, <2>2, <3>2, <3>3
         DEF WorkerReceives, Reader!readerVars, history
    <3>4. CASE Head(channel) \notin Pending'
      <4>1. Reader!GiveUp(Head(channel))
        BY <1>11, <2>2, <2>3, <3>2, <3>4
           DEF WorkerReceives, Reader!GiveUp, history
      <4>2. QED
        BY <3>2, <4>1 DEF Reader!ReaderNext
    <3>5. QED
      BY <3>3, <3>4
  <2>4. CASE ~stopped
    <3>1. InHand' = InHand \cup {Head(channel)}
      BY <1>11, <2>1, <2>4, InHandTaken DEF WorkerReceives, TypeOK
    <3>2. UNCHANGED Pending
      BY <1>11, <2>1, <3>1 DEF WorkerReceives, Pending
    <3>3. QED
      BY <1>11, <2>2, <3>2 DEF WorkerReceives, Reader!readerVars, history
  <2>5. QED
    BY <2>3, <2>4
<1>12. ASSUME NEW w \in Workers, WorkerProcesses(w)
       PROVE  [Reader!ReaderNext]_(Reader!readerVars)
  <2>1. InHand = InHand' \cup {working[w]}
    BY <1>12, InHandReleased DEF WorkerProcesses, TypeOK
  <2>2. UNCHANGED <<Queued, Position>>
    BY <1>12 DEF WorkerProcesses, Queued, Position
  <2>3. Pending = Pending' \cup {working[w]}
    BY <1>12, <2>1, <2>2 DEF WorkerProcesses, Pending
  <2>4. Pending' \in {Pending, Pending \ {working[w]}}
    BY <2>3
  <2>5. Reader!Finish(working[w])
    BY <1>12, <2>2, <2>3, <2>4
       DEF WorkerProcesses, Processed, Reader!Finish
  <2>6. QED
    BY <2>3, <2>5 DEF Reader!ReaderNext
<1>13. ASSUME NEW w \in Workers, WorkerReturns(w)
       PROVE  [Reader!ReaderNext]_(Reader!readerVars)
  BY <1>13, ReaderStutters DEF WorkerReturns, history
<1>14. CASE StopBegins
  <2>1. UNCHANGED <<Pending, Position>>
    BY <1>14 DEF StopBegins, Pending, Queued, InHand, Position
  <2>2. Reader!End
    BY <1>14, <2>1 DEF StopBegins, Reader!End, history
  <2>3. QED
    BY <2>2 DEF Reader!ReaderNext
<1>15. CASE Stopping
  BY <1>15, ReaderStutters
     DEF Stopping, StopClosesChannel, StopClosesGroup, StopGroupIsClosed,
         StopReturns, history
<1>16. CASE UNCHANGED vars
  BY <1>16, ReaderStutters DEF vars, processVars, history
<1>17. QED
  BY <1>1, <1>2, <1>3, <1>4, <1>5, <1>7, <1>8, <1>9, <1>10, <1>11, <1>12,
     <1>13, <1>14, <1>15, <1>16
     DEF Next, Loop, Claim, Worker

(* For any number of workers, messages, crashes and lost commits, and any  *)
(* capacity of the channel: the consumer implements the reader.            *)
THEOREM ConsumerImplementsReader == SafetySpec => ImplementsReader
<1>1. SafetySpec => []ConsumerInv
  BY ConsumerInvariant
<1>2. QED
  BY <1>1, ReaderStarts, ReaderStep, PTL
     DEF SafetySpec, ImplementsReader, Reader!ReaderSpec
-----------------------------------------------------------------------------
(* How Stop ends.  What it has done can be read off stopPc; a worker that  *)
(* is busy has not returned; and the claim that is gone when the group is  *)
(* closed does not come back.                                              *)
StopInv ==
    /\ \A w \in Workers : working[w] # 0 => w \in alive
    /\ stopped <=> stopPc # "idle"
    /\ stopPc # "idle" => up /\ started
    /\ channelClosed <=> stopPc \in {"closing", "waiting", "done"}
    /\ groupClosed => channelClosed
    /\ stopPc \in {"waiting", "done"} => groupClosed /\ claim = "none"
    /\ stopPc = "done" => alive = {} /\ loop = "exited"

LEMMA StopInvInit == Init => StopInv
BY DEF Init, StopInv

LEMMA StopInvStep ==
    ASSUME ConsumerInv, StopInv, [Next]_vars
    PROVE  StopInv'
<1> USE DEF StopInv
<1>1. CASE StartReturns \/ AutoCommit
  BY <1>1 DEF StartReturns, AutoCommit, processVars
<1>2. CASE Loop
  BY <1>2 DEF Loop, LoopChecks, ConsumeFails, SessionStarts
<1>3. CASE SessionEnds
  <2>1. loop # "exited"
    BY <1>3 DEF SessionEnds, ConsumerInv, ClaimInv
  <2>2. QED
    BY <1>3, <2>1 DEF SessionEnds
<1>4. CASE ClaimQueues \/ ClaimTakesOver \/ ClaimProcesses \/ ClaimMarks
  BY <1>4 DEF ClaimQueues, ClaimTakesOver, ClaimProcesses, ClaimMarks
<1>5. CASE ClaimPanics \/ Crash
  BY <1>5 DEF ClaimPanics, Crash, GoesDown
<1>6. CASE Restart
  BY <1>6 DEF Restart
<1>7. ASSUME NEW w \in Workers, Worker(w) PROVE StopInv'
  <2>1. UNCHANGED <<up, started, stopped, stopPc, channelClosed, groupClosed,
                    claim, loop>>
    BY <1>7 DEF Worker, WorkerReceives, WorkerProcesses, WorkerReturns
  <2>2. alive' \subseteq alive
    BY <1>7 DEF Worker, WorkerReceives, WorkerProcesses, WorkerReturns
  <2>3. working \in [Workers -> 0..MaxOffset]
    BY DEF ConsumerInv, TypeOK
  <2>4. \A v \in Workers : working'[v] # 0 => v \in alive'
    <3>1. CASE WorkerReceives(w)
      BY <2>3, <3>1 DEF WorkerReceives
    <3>2. CASE WorkerProcesses(w)
      BY <2>3, <3>2 DEF WorkerProcesses
    <3>3. CASE WorkerReturns(w)
      BY <3>3 DEF WorkerReturns
    <3>4. QED
      BY <1>7, <3>1, <3>2, <3>3 DEF Worker
  <2>5. QED
    BY <2>1, <2>2, <2>4
<1>8. CASE StopBegins \/ Stopping
  BY <1>8 DEF StopBegins, Stopping, StopClosesChannel, StopClosesGroup,
              StopGroupIsClosed, StopReturns
<1>9. CASE UNCHANGED vars
  BY <1>9 DEF vars, processVars
<1>10. QED
  BY <1>1, <1>2, <1>3, <1>4, <1>5, <1>6, <1>7, <1>8, <1>9 DEF Next, Claim

THEOREM StopInvariant == SafetySpec => [](ConsumerInv /\ StopInv)
<1>1. ConsumerInv /\ StopInv /\ [Next]_vars => ConsumerInv' /\ StopInv'
  BY ConsumerInvStep, StopInvStep
<1>2. QED
  BY <1>1, ConsumerInvInit, StopInvInit, PTL DEF SafetySpec

(* Once Stop has returned this process handles no message any more: no     *)
(* worker is at one, and neither is a claim.  Processor.Stop relies on it  *)
(* when it goes on (src/processor.go 94-98), and Sidecar's ConsumerAdds.   *)
NothingProcessedAfterStop ==
    [][stopPc = "done" => UNCHANGED handled]_vars

(* For any number of workers and messages: src/consumer.go 213-228 ends    *)
(* all that the consumer does.                                             *)
THEOREM StopEndsProcessing == SafetySpec => NothingProcessedAfterStop
<1>1. ConsumerInv /\ StopInv /\ [Next]_vars
        => [stopPc = "done" => UNCHANGED handled]_vars
  <2> SUFFICES ASSUME StopInv, Next, stopPc = "done"
               PROVE  handled' = handled
    BY DEF vars
  <2>1. claim = "none" /\ alive = {} /\ \A w \in Workers : working[w] = 0
    BY DEF StopInv
  <2>2. CASE StartReturns \/ Loop \/ SessionEnds \/ AutoCommit \/ Crash \/ Restart
    BY <2>2 DEF StartReturns, Loop, LoopChecks, ConsumeFails, SessionStarts,
                SessionEnds, AutoCommit, Crash, GoesDown, Restart, history
  <2>3. ~Claim
    BY <2>1 DEF Claim, ClaimQueues, ClaimTakesOver, ClaimProcesses, ClaimMarks,
                ClaimPanics
  <2>4. \A w \in Workers : ~Worker(w)
    BY <2>1 DEF Worker, WorkerReceives, WorkerProcesses, WorkerReturns
  <2>5. CASE StopBegins \/ Stopping
    BY <2>5 DEF StopBegins, Stopping, StopClosesChannel, StopClosesGroup,
                StopGroupIsClosed, StopReturns, history
  <2>6. QED
    BY <2>2, <2>3, <2>4, <2>5 DEF Next
<1>2. QED
  BY <1>1, StopInvariant, PTL DEF SafetySpec, NothingProcessedAfterStop

(* What is left of Stop once it has closed the channel, in steps: each     *)
(* worker finishes its message and returns, the claim ends, the consume    *)
(* goroutine finds out, Stop itself goes on.                               *)
Busy == {w \in Workers : working[w] # 0}
LoopLeft == IF loop = "consuming" THEN 5 ELSE IF loop = "exited" THEN 0 ELSE 1
ClaimLeft ==
    IF claim = "inline" THEN 3 ELSE IF claim = "marking" THEN 2
    ELSE IF claim = "receiving" THEN 1 ELSE 0
CallLeft ==
    IF stopPc = "done" THEN 0 ELSE IF stopPc = "waiting" THEN 1
    ELSE IF groupClosed THEN 2 ELSE 3
OthersLeft == LoopLeft + ClaimLeft + CallLeft
StopLeft == Cardinality(Busy) + Cardinality(alive) + OthersLeft

StopIsBounded ==
    channelClosed =>
        /\ StopLeft \in 0..(2 * Cardinality(Workers) + 8)
        /\ StopLeft = 0 <=> stopPc = "done"

StopComesCloser ==
    [][channelClosed /\ up' =>
          \/ StopLeft' < StopLeft
          \/ AutoCommit /\ StopLeft' = StopLeft]_vars

LEMMA WorkersCounted ==
    ASSUME alive \subseteq Workers
    PROVE  /\ IsFiniteSet(alive) /\ IsFiniteSet(Busy)
           /\ Cardinality(alive) \in 0..Cardinality(Workers)
           /\ Cardinality(Busy) \in 0..Cardinality(Workers)
           /\ Cardinality(Workers) \in Nat
<1>1. IsFiniteSet(Workers) /\ Busy \subseteq Workers
  BY ConsumerAssumption DEF Busy
<1>2. QED
  BY <1>1, FS_Subset, FS_CardinalityType

(* The steps of the workers while Stop waits for them.                     *)
LEMMA WorkersLeave ==
    ASSUME ConsumerInv, StopInv, channelClosed, NEW w \in Workers, Worker(w)
    PROVE  Cardinality(Busy') + Cardinality(alive')
             < Cardinality(Busy) + Cardinality(alive)
<1>1. stopped /\ alive \subseteq Workers /\ working \in [Workers -> 0..MaxOffset]
  BY DEF StopInv, ConsumerInv, TypeOK
<1>2. /\ IsFiniteSet(alive) /\ IsFiniteSet(Busy)
      /\ Cardinality(alive) \in Nat /\ Cardinality(Busy) \in Nat
  BY <1>1, WorkersCounted
<1>3. CASE WorkerReceives(w) \/ WorkerReturns(w)
  <2>1. w \in alive /\ alive' = alive \ {w} /\ Busy' = Busy
    BY <1>1, <1>3 DEF WorkerReceives, WorkerReturns, Busy
  <2>2. Cardinality(alive') = Cardinality(alive) - 1
    BY <1>2, <2>1, FS_RemoveElement
  <2>3. QED
    BY <1>2, <2>1, <2>2
<1>4. CASE WorkerProcesses(w)
  <2>1. w \in Busy /\ Busy' = Busy \ {w} /\ alive' = alive
    BY <1>1, <1>4 DEF WorkerProcesses, Busy
  <2>2. Cardinality(Busy') = Cardinality(Busy) - 1
    BY <1>2, <2>1, FS_RemoveElement
  <2>3. QED
    BY <1>2, <2>1, <2>2
<1>5. QED
  BY <1>3, <1>4 DEF Worker

LeftIs ==
    /\ loop = "exited" => LoopLeft = 0
    /\ loop \in {"checking", "session"} => LoopLeft = 1
    /\ loop = "consuming" => LoopLeft = 5
    /\ claim = "none" => ClaimLeft = 0
    /\ claim = "receiving" => ClaimLeft = 1
    /\ claim = "marking" => ClaimLeft = 2
    /\ claim = "inline" => ClaimLeft = 3
    /\ stopPc = "closing" /\ ~groupClosed => CallLeft = 3
    /\ stopPc = "closing" /\ groupClosed => CallLeft = 2
    /\ stopPc = "waiting" => CallLeft = 1
    /\ stopPc = "done" => CallLeft = 0
    /\ LoopLeft \in 0..5 /\ ClaimLeft \in 0..3 /\ CallLeft \in 0..3

LEMMA LeftValues == LeftIs /\ LeftIs'
BY DEF LeftIs, LoopLeft, ClaimLeft, CallLeft

(* The steps of the others: what one enlarges, if anything, is less than   *)
(* what it takes away elsewhere.                                           *)
LEMMA OthersLeave ==
    ASSUME ConsumerInv, StopInv, channelClosed, up',
           StartReturns \/ Loop \/ SessionEnds \/ AutoCommit \/ Claim
             \/ StopBegins \/ Stopping \/ Crash \/ Restart
    PROVE  /\ working' = working /\ alive' = alive
           /\ \/ OthersLeft' < OthersLeft
              \/ AutoCommit /\ OthersLeft' = OthersLeft
<1>1. /\ stopped /\ started /\ stopPc \in {"closing", "waiting", "done"}
      /\ up /\ groupClosed \in BOOLEAN
      /\ loop \in {"checking", "consuming", "session", "exited"}
      /\ claim \in {"none", "receiving", "inline", "marking"}
      /\ claim # "none" <=> loop = "session"
  BY DEF StopInv, ConsumerInv, ClaimInv, TypeOK
<1> DEFINE Claimless == UNCHANGED claim
           Callless == UNCHANGED <<stopPc, groupClosed>>
<1>2. Callless => CallLeft' = CallLeft
  BY DEF CallLeft
<1>3. Claimless => ClaimLeft' = ClaimLeft
  BY DEF ClaimLeft
<1>4. UNCHANGED loop => LoopLeft' = LoopLeft
  BY DEF LoopLeft
<1>5. /\ LoopLeft \in Int /\ ClaimLeft \in Int /\ CallLeft \in Int
       /\ LoopLeft' \in Int /\ ClaimLeft' \in Int /\ CallLeft' \in Int
  BY LeftValues DEF LeftIs
<1>6. CASE LoopChecks
  <2>1. /\ UNCHANGED <<working, alive>> /\ Claimless /\ Callless
        /\ loop = "checking" /\ loop' = "exited"
    BY <1>1, <1>6 DEF LoopChecks
  <2>2. LoopLeft' = LoopLeft - 1 /\ ClaimLeft' = ClaimLeft /\ CallLeft' = CallLeft
    BY <1>2, <1>3, <2>1, LeftValues DEF LeftIs
  <2>3. QED
    BY <1>5, <2>1, <2>2 DEF OthersLeft
<1>7. CASE ConsumeFails
  <2>1. /\ UNCHANGED <<working, alive>> /\ Claimless /\ Callless
        /\ loop = "consuming" /\ loop' = "checking"
    BY <1>1, <1>7 DEF ConsumeFails
  <2>2. LoopLeft' = LoopLeft - 4 /\ ClaimLeft' = ClaimLeft /\ CallLeft' = CallLeft
    BY <1>2, <1>3, <2>1, LeftValues DEF LeftIs
  <2>3. QED
    BY <1>5, <2>1, <2>2 DEF OthersLeft
<1>8. CASE SessionStarts
  <2>1. /\ UNCHANGED <<working, alive>> /\ Callless
        /\ loop = "consuming" /\ loop' = "session"
        /\ claim = "none" /\ claim' = "receiving"
    BY <1>1, <1>8 DEF SessionStarts
  <2>2. /\ LoopLeft = 5 /\ LoopLeft' = 1 /\ ClaimLeft = 0 /\ ClaimLeft' = 1
        /\ CallLeft' = CallLeft
    BY <1>2, <2>1, LeftValues DEF LeftIs
  <2>3. QED
    BY <1>5, <2>1, <2>2 DEF OthersLeft
<1>9. CASE SessionEnds
  <2>1. /\ UNCHANGED <<working, alive>> /\ Callless
        /\ loop = "session" /\ loop' = "checking"
        /\ claim = "receiving" /\ claim' = "none"
    BY <1>1, <1>9 DEF SessionEnds
  <2>2. /\ LoopLeft = 1 /\ LoopLeft' = 1 /\ ClaimLeft = 1 /\ ClaimLeft' = 0
        /\ CallLeft' = CallLeft
    BY <1>2, <2>1, LeftValues DEF LeftIs
  <2>3. QED
    BY <1>5, <2>1, <2>2 DEF OthersLeft
<1>10. CASE AutoCommit
  <2>1. UNCHANGED <<working, alive, loop, claim, stopPc, groupClosed>>
    BY <1>10 DEF AutoCommit, processVars
  <2>2. QED
    BY <1>2, <1>3, <1>4, <1>10, <2>1 DEF OthersLeft
<1>11. CASE ClaimProcesses \/ ClaimMarks
  <2>1. /\ UNCHANGED <<working, alive, loop>> /\ Callless
        /\ \/ claim = "inline" /\ claim' = "marking"
           \/ claim = "marking" /\ claim' = "receiving"
    BY <1>11 DEF ClaimProcesses, ClaimMarks
  <2>2. /\ ClaimLeft' = ClaimLeft - 1
        /\ LoopLeft' = LoopLeft /\ CallLeft' = CallLeft
    BY <1>2, <1>4, <2>1, LeftValues DEF LeftIs
  <2>3. QED
    BY <1>5, <2>1, <2>2 DEF OthersLeft
<1>12. CASE StopClosesGroup
  <2>1. /\ UNCHANGED <<working, alive, loop, claim>>
        /\ stopPc = "closing" /\ ~groupClosed
        /\ stopPc' = "closing" /\ groupClosed'
    BY <1>12 DEF StopClosesGroup
  <2>2. /\ CallLeft' = CallLeft - 1
        /\ LoopLeft' = LoopLeft /\ ClaimLeft' = ClaimLeft
    BY <1>3, <1>4, <2>1, LeftValues DEF LeftIs
  <2>3. QED
    BY <1>5, <2>1, <2>2 DEF OthersLeft
<1>13. CASE StopGroupIsClosed \/ StopReturns
  <2>1. /\ UNCHANGED <<working, alive, loop, claim>>
        /\ \/ stopPc = "closing" /\ groupClosed /\ stopPc' = "waiting"
           \/ stopPc = "waiting" /\ stopPc' = "done"
    BY <1>13 DEF StopGroupIsClosed, StopReturns
  <2>2. /\ CallLeft' = CallLeft - 1
        /\ LoopLeft' = LoopLeft /\ ClaimLeft' = ClaimLeft
    BY <1>3, <1>4, <2>1, LeftValues DEF LeftIs
  <2>3. QED
    BY <1>5, <2>1, <2>2 DEF OthersLeft
<1>14. /\ ~StartReturns /\ ~ClaimQueues /\ ~ClaimTakesOver /\ ~ClaimPanics
       /\ ~StopBegins /\ ~StopClosesChannel /\ ~Crash /\ ~Restart
  BY <1>1 DEF StartReturns, ClaimQueues, ClaimTakesOver, ClaimPanics,
              StopBegins, StopClosesChannel, Crash, Restart, GoesDown
<1>15. QED
  BY <1>6, <1>7, <1>8, <1>9, <1>10, <1>11, <1>12, <1>13, <1>14
     DEF Loop, Claim, Stopping

(* For any number of workers: once the channel is closed, Stop takes at    *)
(* most two steps of each worker and eight of the others, besides          *)
(* automatic commits, and what is left is nothing exactly when it has      *)
(* returned (src/consumer.go 213-228).                                     *)
THEOREM StopNeedsFewSteps == SafetySpec => []StopIsBounded /\ StopComesCloser
<1>1. ConsumerInv /\ StopInv => StopIsBounded
  <2> SUFFICES ASSUME ConsumerInv, StopInv, channelClosed
               PROVE  /\ StopLeft \in 0..(2 * Cardinality(Workers) + 8)
                      /\ StopLeft = 0 <=> stopPc = "done"
    BY DEF StopIsBounded
  <2>1. /\ alive \subseteq Workers
        /\ claim # "none" <=> loop = "session"
        /\ stopPc \in {"closing", "waiting", "done"}
        /\ loop \in {"checking", "consuming", "session", "exited"}
    BY DEF StopInv, ConsumerInv, ClaimInv, TypeOK
  <2>2. /\ Cardinality(alive) \in 0..Cardinality(Workers)
        /\ Cardinality(Busy) \in 0..Cardinality(Workers)
        /\ Cardinality(Workers) \in Nat
    BY <2>1, WorkersCounted
  <2>3. LoopLeft + ClaimLeft \in 0..5 /\ LoopLeft \in 0..5 /\ ClaimLeft \in 0..3
    BY <2>1, LeftValues DEF LeftIs
  <2>4. CallLeft \in 0..3 /\ (CallLeft = 0 <=> stopPc = "done")
    BY DEF CallLeft
  <2>5. stopPc = "done" =>
          Cardinality(alive) = 0 /\ Cardinality(Busy) = 0 /\ LoopLeft + ClaimLeft = 0
    <3> SUFFICES ASSUME stopPc = "done"
                 PROVE  Cardinality(alive) = 0 /\ Cardinality(Busy) = 0
                          /\ LoopLeft + ClaimLeft = 0
      OBVIOUS
    <3>1. alive = {} /\ Busy = {} /\ loop = "exited" /\ claim = "none"
      BY DEF StopInv, Busy
    <3>2. QED
      BY <3>1, FS_EmptySet DEF LoopLeft, ClaimLeft
  <2> HIDE DEF Busy, LoopLeft, ClaimLeft, CallLeft
  <2>6. QED
    BY <2>2, <2>3, <2>4, <2>5 DEF StopLeft, OthersLeft
<1>2. ConsumerInv /\ StopInv /\ [Next]_vars
        => [channelClosed /\ up' =>
              \/ StopLeft' < StopLeft
              \/ AutoCommit /\ StopLeft' = StopLeft]_vars
  <2> SUFFICES ASSUME ConsumerInv, StopInv, Next, channelClosed, up'
               PROVE  \/ StopLeft' < StopLeft
                      \/ AutoCommit /\ StopLeft' = StopLeft
    OBVIOUS
  <2>1. /\ Cardinality(alive) \in Nat /\ Cardinality(Busy) \in Nat
        /\ OthersLeft \in Nat /\ OthersLeft' \in Nat
    <3>1. Cardinality(alive) \in Nat /\ Cardinality(Busy) \in Nat
      BY WorkersCounted DEF ConsumerInv, TypeOK
    <3>2. /\ LoopLeft \in Nat /\ ClaimLeft \in Nat /\ CallLeft \in Nat
          /\ LoopLeft' \in Nat /\ ClaimLeft' \in Nat /\ CallLeft' \in Nat
      BY LeftValues DEF LeftIs
    <3>3. OthersLeft \in Nat
      BY <3>2 DEF OthersLeft
    <3>4. OthersLeft' \in Nat
      <4>1. \A a, b, c \in Nat : a + b + c \in Nat
        OBVIOUS
      <4>2. QED
        BY <3>2, <4>1, Zenon DEF OthersLeft
    <3>5. QED
      BY <3>1, <3>3, <3>4
  <2>2. CASE \E w \in Workers : Worker(w)
    <3>1. PICK w \in Workers : Worker(w)
      BY <2>2
    <3>2. Cardinality(Busy') + Cardinality(alive')
            < Cardinality(Busy) + Cardinality(alive)
      BY <3>1, WorkersLeave
    <3>3. OthersLeft' = OthersLeft
      <4>1. UNCHANGED <<loop, claim, stopPc, groupClosed>>
        BY <3>1 DEF Worker, WorkerReceives, WorkerProcesses, WorkerReturns
      <4>2. QED
        BY <4>1 DEF LoopLeft, ClaimLeft, CallLeft, OthersLeft
    <3>4. Cardinality(alive') \in Nat /\ Cardinality(Busy') \in Nat
      <4>1. alive' \subseteq Workers
        BY ConsumerInvStep DEF ConsumerInv, TypeOK
      <4>2. IsFiniteSet(Workers) /\ Busy' \subseteq Workers
        BY ConsumerAssumption DEF Busy
      <4>3. QED
        BY <4>1, <4>2, FS_Subset, FS_CardinalityType
    <3>5. QED
      BY <2>1, <3>2, <3>3, <3>4 DEF StopLeft
  <2>3. CASE ~\E w \in Workers : Worker(w)
    <3>1. /\ working' = working /\ alive' = alive
          /\ \/ OthersLeft' < OthersLeft
             \/ AutoCommit /\ OthersLeft' = OthersLeft
      BY <2>3, OthersLeave DEF Next
    <3>2. Cardinality(Busy') = Cardinality(Busy) /\ Cardinality(alive') = Cardinality(alive)
      BY <3>1 DEF Busy
    <3>3. CASE OthersLeft' < OthersLeft
      BY <2>1, <3>2, <3>3 DEF StopLeft
    <3>4. CASE AutoCommit /\ OthersLeft' = OthersLeft
      BY <3>2, <3>4 DEF StopLeft
    <3>5. QED
      BY <3>1, <3>3, <3>4
  <2>4. QED
    BY <2>2, <2>3
<1>3. QED
  BY <1>1, <1>2, StopInvariant, PTL DEF SafetySpec, StopComesCloser
=============================================================================
