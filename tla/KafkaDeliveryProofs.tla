------------------------- MODULE KafkaDeliveryProofs -------------------------
(***************************************************************************)
(* What becomes of the messages the Kafka consumer takes, for any number   *)
(* of workers, messages, crashes and lost commits and any capacity of the  *)
(* channel: nothing is forgotten without a Stop or a crash, a Stop and     *)
(* each crash lose at most what the channel and the workers hold, and a    *)
(* message is repeated only after a crash or a lost commit.                *)
(***************************************************************************)
EXTENDS KafkaConsumerProofs, FunctionTheorems

(* The steps that move no message and commit nothing.                      *)
Quiet ==
    /\ UNCHANGED <<channel, working, claim, next, marked, committed, handled,
                   crashes, lostCommits>>
    /\ stopped => stopped'
    /\ alive' \subseteq alive
    /\ \A w \in Workers : w \in alive /\ working[w] # 0 => w \in alive'

LEMMA StepKinds ==
    ASSUME [Next]_vars
    PROVE  \/ Quiet
           \/ SessionStarts \/ SessionEnds \/ AutoCommit
           \/ ClaimQueues \/ ClaimTakesOver \/ ClaimProcesses \/ ClaimMarks
           \/ GoesDown
           \/ \E w \in Workers : WorkerReceives(w) \/ WorkerProcesses(w)
<1>1. CASE StartReturns \/ LoopChecks \/ ConsumeFails \/ Restart
  BY <1>1
     DEF StartReturns, LoopChecks, ConsumeFails, Restart, Quiet, history
<1>2. CASE ClaimPanics \/ Crash
  BY <1>2 DEF ClaimPanics, Crash
<1>3. ASSUME NEW w \in Workers, WorkerReturns(w) PROVE Quiet
  BY <1>3 DEF WorkerReturns, Quiet, history
<1>4. CASE StopBegins \/ Stopping
  BY <1>4
     DEF StopBegins, Stopping, StopClosesChannel, StopClosesGroup,
         StopGroupIsClosed, StopReturns, Quiet, history
<1>5. CASE UNCHANGED vars
  BY <1>5 DEF vars, processVars, history, Quiet
<1>6. QED
  BY <1>1, <1>2, <1>3, <1>4, <1>5 DEF Next, Loop, Claim, Worker

LEMMA QuietKeeps ==
    ASSUME Quiet PROVE UNCHANGED <<Pending, Position>>
BY DEF Quiet, Pending, Queued, InHand, Position

(* A session moves no message.                                             *)
LEMMA SessionKeeps ==
    ASSUME ConsumerInv, SessionStarts \/ SessionEnds \/ AutoCommit
    PROVE  /\ UNCHANGED <<channel, working, handled, crashes, stopped, alive,
                          Pending>>
           /\ Position \in Nat /\ Position' \in Nat /\ marked' \in Nat
           /\ Position' <= Position /\ marked' <= Position
<1> USE ConsumerAssumption DEF ConsumerInv
<1>1. /\ UNCHANGED <<channel, working, handled, crashes, stopped, alive>>
      /\ \/ claim # "inline" /\ claim' # "inline"
         \/ UNCHANGED <<claim, next>>
  BY DEF SessionStarts, SessionEnds, AutoCommit, ClaimInv, processVars,
         history
<1>2. UNCHANGED Pending
  BY <1>1 DEF Pending, Queued, InHand
<1>3. CASE SessionStarts
  BY <1>1, <1>2, <1>3
     DEF SessionStarts, Position, ClaimInv, TypeOK
<1>4. CASE SessionEnds
  BY <1>1, <1>2, <1>4 DEF SessionEnds, Position, ClaimInv, TypeOK
<1>5. CASE AutoCommit
  BY <1>1, <1>2, <1>5
     DEF AutoCommit, Position, ClaimInv, TypeOK, processVars
<1>6. QED
  BY <1>3, <1>4, <1>5

(* A claim that takes the next message hands it on or keeps it.            *)
LEMMA ClaimTakes ==
    ASSUME ConsumerInv, ClaimQueues \/ ClaimTakesOver
    PROVE  /\ next \in Offsets /\ Position = next - 1 /\ Position' = next
           /\ Pending' = Pending \cup {next}
           /\ UNCHANGED <<working, alive, stopped, marked, committed,
                          handled, crashes, lostCommits>>
<1> USE ConsumerAssumption DEF ConsumerInv
<1>1. next \in Offsets /\ channel \in Seq(Offsets)
  BY DEF ClaimQueues, ClaimTakesOver, TypeOK, Offsets
<1>2. UNCHANGED InHand
  BY DEF ClaimQueues, ClaimTakesOver, InHand
<1>3. CASE ClaimQueues
  BY <1>1, <1>2, <1>3, QueuedAppended
     DEF ClaimQueues, Pending, Position, history
<1>4. CASE ClaimTakesOver
  BY <1>1, <1>2, <1>4
     DEF ClaimTakesOver, Pending, Queued, Position, history
<1>5. QED
  BY <1>3, <1>4

LEMMA ClaimMarkKeeps ==
    ASSUME ConsumerInv, ClaimMarks
    PROVE  /\ UNCHANGED <<channel, working, alive, stopped, committed,
                          handled, crashes, lostCommits, Pending, Position>>
           /\ marked' = Position
BY DEF ConsumerInv, TypeOK, ClaimMarks, Pending, Queued, InHand, Position,
       history

(* The claim or a worker is done with a message.                           *)
LEMMA ClaimFinishes ==
    ASSUME ConsumerInv, ClaimProcesses
    PROVE  /\ next \in Offsets /\ Processed(next)
           /\ Pending = Pending' \cup {next}
           /\ UNCHANGED <<channel, working, alive, stopped, marked, committed,
                          crashes, lostCommits, Position, next>>
           /\ claim = "inline" /\ claim' = "marking"
<1>1. next \in Offsets
  BY DEF ConsumerInv, ClaimInv, ClaimProcesses, TypeOK, Offsets
<1>2. UNCHANGED <<Queued, InHand, Position>>
  BY DEF ClaimProcesses, Queued, InHand, Position
<1>3. QED
  BY <1>1, <1>2 DEF ClaimProcesses, Pending

LEMMA WorkerFinishes ==
    ASSUME ConsumerInv, NEW w \in Workers, WorkerProcesses(w)
    PROVE  /\ working[w] \in Offsets /\ Processed(working[w])
           /\ Pending = Pending' \cup {working[w]}
           /\ UNCHANGED <<channel, alive, stopped, marked, committed,
                          crashes, lostCommits, Position>>
<1>1. /\ InHand = InHand' \cup {working[w]}
      /\ working[w] \in Offsets
  BY InHandReleased DEF ConsumerInv, TypeOK, WorkerProcesses
<1>2. UNCHANGED <<Queued, Position>>
  BY DEF WorkerProcesses, Queued, Position
<1>3. QED
  BY <1>1, <1>2 DEF WorkerProcesses, Pending

(* A worker takes a message from the channel, or drops it and leaves.      *)
LEMMA WorkerTakes ==
    ASSUME ConsumerInv, NEW w \in Workers, WorkerReceives(w)
    PROVE  /\ Head(channel) \in Offsets
           /\ UNCHANGED <<stopped, marked, committed, handled, crashes,
                          lostCommits, Position>>
           /\ ~stopped => UNCHANGED <<Pending, alive>>
           /\ stopped => /\ Pending = Pending' \cup {Head(channel)}
                         /\ UNCHANGED working
<1> USE ConsumerAssumption DEF ConsumerInv
<1>1. /\ Queued = Queued' \cup {Head(channel)}
      /\ Head(channel) \in Offsets
  BY QueuedTaken DEF WorkerReceives, TypeOK
<1>2. UNCHANGED <<stopped, marked, committed, handled, crashes, lostCommits,
                  Position>>
  BY DEF WorkerReceives, Position, history
<1>3. CASE stopped
  <2>1. UNCHANGED <<InHand, working>>
    BY <1>3 DEF WorkerReceives, InHand
  <2>2. QED
    BY <1>1, <1>2, <1>3, <2>1 DEF WorkerReceives, Pending
<1>4. CASE ~stopped
  <2>1. InHand' = InHand \cup {Head(channel)}
    BY <1>1, <1>4, InHandTaken DEF WorkerReceives, TypeOK
  <2>2. QED
    BY <1>1, <1>2, <1>4, <2>1 DEF WorkerReceives, Pending
<1>5. QED
  BY <1>3, <1>4
-----------------------------------------------------------------------------
(* Every message that was taken or marked is processed or pending.         *)
Kept ==
    \A m \in Offsets :
        m <= marked \/ m <= Position => handled[m] > 0 \/ m \in Pending
KeptInv == crashes = 0 /\ ~stopped => Kept

LEMMA KeptInvInit == Init => KeptInv
BY DEF Init, KeptInv, Kept, Position, Offsets

LEMMA KeptInvStep ==
    ASSUME ConsumerInv, KeptInv, [Next]_vars
    PROVE  KeptInv'
<1> USE ConsumerAssumption DEF ConsumerInv, TypeOK
<1>1. CASE Quiet
  BY <1>1, QuietKeeps DEF Quiet, KeptInv, Kept
<1>2. CASE SessionStarts \/ SessionEnds \/ AutoCommit
  BY <1>2, SessionKeeps DEF KeptInv, Kept, Offsets
<1>3. CASE ClaimQueues \/ ClaimTakesOver
  BY <1>3, ClaimTakes DEF KeptInv, Kept, Offsets
<1>4. CASE ClaimMarks
  BY <1>4, ClaimMarkKeeps DEF KeptInv, Kept
<1>5. ASSUME NEW m \in Offsets, Processed(m), Pending = Pending' \cup {m},
             UNCHANGED <<marked, Position, crashes, stopped>>
      PROVE  KeptInv'
  <2>1. handled'[m] > 0
    BY <1>5 DEF Processed
  <2>2. \A k \in Offsets \ {m} : handled'[k] = handled[k]
    BY <1>5 DEF Processed
  <2>3. QED
    BY <1>5, <2>1, <2>2 DEF KeptInv, Kept
<1>6. CASE ClaimProcesses
  BY <1>5, <1>6, ClaimFinishes
<1>7. ASSUME NEW w \in Workers, WorkerProcesses(w)
      PROVE  KeptInv'
  BY <1>5, <1>7, WorkerFinishes
<1>8. ASSUME NEW w \in Workers, WorkerReceives(w)
      PROVE  KeptInv'
  BY <1>8, WorkerTakes DEF KeptInv, Kept
<1>9. CASE GoesDown
  BY <1>9 DEF GoesDown, KeptInv
<1>10. QED
  BY <1>1, <1>2, <1>3, <1>4, <1>6, <1>7, <1>8, <1>9, StepKinds

(* For any number of workers and messages: without a crash or a Stop, no   *)
(* message that is marked is forgotten.                                    *)
THEOREM NothingForgotten == SafetySpec => []NothingMarkedIsForgotten
<1>1. SafetySpec => []KeptInv
  BY ConsumerInvariant, KeptInvInit, KeptInvStep, PTL DEF SafetySpec
<1>2. ConsumerInv /\ KeptInv => NothingMarkedIsForgotten
  BY ConsumerAssumption
     DEF ConsumerInv, TypeOK, KeptInv, Kept, NothingMarkedIsForgotten, Offsets
<1>3. QED
  BY <1>1, <1>2, ConsumerInvariant, PTL
-----------------------------------------------------------------------------
(* The copies of a message that were processed or are pending.             *)
InChannel(m) == {i \in 1..Len(channel) : channel[i] = m}
AtWorkers(m) == {w \in Workers : working[w] = m}
Inline(m) == IF claim = "inline" /\ next = m THEN 1 ELSE 0
One(condition) == IF condition THEN 1 ELSE 0

Copies(m) ==
    handled[m] + Cardinality(InChannel(m)) + Cardinality(AtWorkers(m))
        + Inline(m)

(* A message is taken once, and again only after its offset was lost.      *)
CopiesInv ==
    \A m \in Offsets :
        Copies(m) <= crashes + lostCommits + One(m <= Position)

LEMMA CopiesAreNumbers ==
    ASSUME TypeOK, NEW m \in Offsets
    PROVE  /\ IsFiniteSet(InChannel(m)) /\ Cardinality(InChannel(m)) \in Nat
           /\ IsFiniteSet(AtWorkers(m)) /\ Cardinality(AtWorkers(m)) \in Nat
           /\ handled[m] \in Nat /\ Inline(m) \in Nat
<1>1. Len(channel) \in Nat
  BY LenProperties DEF TypeOK
<1>2. IsFiniteSet(1..Len(channel))
  BY <1>1, FS_Interval
<1>3. IsFiniteSet(InChannel(m))
  BY <1>2, FS_Subset DEF InChannel
<1>4. IsFiniteSet(AtWorkers(m))
  BY ConsumerAssumption, FS_Subset DEF AtWorkers
<1>5. QED
  BY <1>3, <1>4, FS_CardinalityType DEF TypeOK, Inline

LEMMA CopiesInChannelAppended ==
    ASSUME TypeOK, NEW m \in Offsets, channel' = Append(channel, m),
           NEW k \in Offsets
    PROVE  Cardinality(InChannel(k)') = Cardinality(InChannel(k)) + One(k = m)
<1>1. /\ Len(channel) \in Nat /\ Len(channel') = Len(channel) + 1
      /\ \A i \in 1..Len(channel) : channel'[i] = channel[i]
      /\ channel'[Len(channel) + 1] = m
  BY AppendProperties, LenProperties DEF TypeOK
<1>2. 1..Len(channel') = 1..Len(channel) \cup {Len(channel) + 1}
      /\ Len(channel) + 1 \notin 1..Len(channel)
  BY <1>1
<1>3. CASE k = m
  <2>1. InChannel(k)' = InChannel(k) \cup {Len(channel) + 1}
        /\ Len(channel) + 1 \notin InChannel(k)
    BY <1>1, <1>2, <1>3 DEF InChannel
  <2>2. QED
    BY <1>3, <2>1, CopiesAreNumbers, FS_AddElement DEF One
<1>4. CASE k # m
  <2>1. InChannel(k)' = InChannel(k)
    BY <1>1, <1>2, <1>4 DEF InChannel
  <2>2. QED
    BY <1>4, <2>1, CopiesAreNumbers DEF One
<1>5. QED
  BY <1>3, <1>4

LEMMA CopiesInChannelTaken ==
    ASSUME TypeOK, channel # <<>>, channel' = Tail(channel),
           NEW k \in Offsets
    PROVE  Cardinality(InChannel(k)) =
               Cardinality(InChannel(k)') + One(k = Head(channel))
<1>1. /\ Len(channel) \in Nat \ {0} /\ Len(channel') = Len(channel) - 1
      /\ \A i \in 1..Len(channel') : channel'[i] = channel[i + 1]
      /\ Head(channel) = channel[1]
  BY HeadTailProperties, EmptySeq DEF TypeOK
<1> DEFINE Rest == InChannel(k) \ {1}
           Down == [i \in Rest |-> i - 1]
<1>2. \A i \in Rest : i \in Nat \ {0, 1} /\ i - 1 \in InChannel(k)'
  <2> SUFFICES ASSUME NEW i \in Rest
               PROVE  i \in Nat \ {0, 1} /\ i - 1 \in InChannel(k)'
    OBVIOUS
  <2>1. i \in Nat \ {0, 1} /\ i <= Len(channel) /\ channel[i] = k
    BY <1>1 DEF InChannel
  <2>2. i - 1 \in 1..Len(channel') /\ (i - 1) + 1 = i
    BY <1>1, <2>1
  <2>3. channel'[i - 1] = k
    BY <1>1, <2>1, <2>2
  <2>4. QED
    BY <2>1, <2>2, <2>3 DEF InChannel
<1>3. Down \in [Rest -> InChannel(k)']
  BY <1>2
<1>4. \A i, j \in Rest : Down[i] = Down[j] => i = j
  BY <1>2
<1>5. ASSUME NEW i \in InChannel(k)'
      PROVE  \E j \in Rest : Down[j] = i
  <2>1. i \in 1..Len(channel') /\ channel'[i] = k
    BY <1>5 DEF InChannel
  <2>2. i + 1 \in 1..Len(channel) /\ i + 1 # 1 /\ channel[i + 1] = k
        /\ (i + 1) - 1 = i
    BY <1>1, <2>1
  <2>3. i + 1 \in Rest
    BY <2>2 DEF InChannel
  <2>4. Down[i + 1] = i
    BY <2>2, <2>3
  <2>5. QED
    BY <2>3, <2>4
<1>6. ExistsBijection(Rest, InChannel(k)')
  <2>1. Down \in Bijection(Rest, InChannel(k)')
    BY <1>3, <1>4, <1>5, Fun_IsBij
  <2>2. QED
    BY <2>1 DEF ExistsBijection
<1>7. /\ IsFiniteSet(Rest)
      /\ Cardinality(Rest) = IF 1 \in InChannel(k)
                               THEN Cardinality(InChannel(k)) - 1
                               ELSE Cardinality(InChannel(k))
  BY CopiesAreNumbers, FS_RemoveElement
<1>8. Cardinality(InChannel(k)') = Cardinality(Rest)
  BY <1>6, <1>7, FS_Bijection
<1>9. 1 \in InChannel(k) <=> k = Head(channel)
  BY <1>1 DEF InChannel
<1>10. QED
  BY <1>7, <1>8, <1>9, CopiesAreNumbers DEF One

LEMMA CopiesAtWorkersTaken ==
    ASSUME TypeOK, NEW w \in Workers, NEW m \in Offsets,
           working[w] = 0, working' = [working EXCEPT ![w] = m],
           NEW k \in Offsets
    PROVE  Cardinality(AtWorkers(k)') = Cardinality(AtWorkers(k)) + One(k = m)
<1>1. k # 0 /\ working'[w] = m
      /\ \A v \in Workers \ {w} : working'[v] = working[v]
  BY DEF Offsets, TypeOK
<1>2. w \notin AtWorkers(k)
  BY <1>1 DEF AtWorkers
<1>3. CASE k = m
  <2>1. AtWorkers(k)' = AtWorkers(k) \cup {w}
    BY <1>1, <1>3 DEF AtWorkers
  <2>2. QED
    BY <1>2, <1>3, <2>1, CopiesAreNumbers, FS_AddElement DEF One
<1>4. CASE k # m
  <2>1. AtWorkers(k)' = AtWorkers(k)
    BY <1>1, <1>2, <1>4 DEF AtWorkers
  <2>2. QED
    BY <1>4, <2>1, CopiesAreNumbers DEF One
<1>5. QED
  BY <1>3, <1>4

LEMMA CopiesAtWorkersDone ==
    ASSUME TypeOK, NEW w \in Workers, working[w] # 0,
           working' = [working EXCEPT ![w] = 0],
           NEW k \in Offsets
    PROVE  Cardinality(AtWorkers(k)) =
               Cardinality(AtWorkers(k)') + One(k = working[w])
<1>1. k # 0 /\ working'[w] = 0
      /\ \A v \in Workers \ {w} : working'[v] = working[v]
  BY DEF Offsets, TypeOK
<1>2. CASE k = working[w]
  <2>1. AtWorkers(k)' = AtWorkers(k) \ {w} /\ w \in AtWorkers(k)
    BY <1>1, <1>2 DEF AtWorkers
  <2>2. IsFiniteSet(AtWorkers(k)) /\ Cardinality(AtWorkers(k)) \in Nat
    BY CopiesAreNumbers
  <2>3. Cardinality(AtWorkers(k)') = Cardinality(AtWorkers(k)) - 1
    BY <2>1, <2>2, FS_RemoveElement
  <2>4. QED
    BY <1>2, <2>2, <2>3 DEF One
<1>3. CASE k # working[w]
  <2>1. AtWorkers(k)' = AtWorkers(k)
    BY <1>1, <1>3 DEF AtWorkers
  <2>2. QED
    BY <1>3, <2>1, CopiesAreNumbers DEF One
<1>4. QED
  BY <1>2, <1>3

LEMMA ProcessedCounts ==
    ASSUME TypeOK, NEW k \in Offsets, Processed(k), NEW m \in Offsets
    PROVE  handled'[m] = handled[m] + One(k = m)
<1>1. handled \in [Offsets -> Nat] /\ handled[m] \in Nat
  BY DEF TypeOK
<1>2. CASE k = m
  BY <1>1, <1>2 DEF Processed, One
<1>3. CASE k # m
  BY <1>1, <1>3 DEF Processed, One
<1>4. QED
  BY <1>2, <1>3

LEMMA CopiesInvInit == Init => CopiesInv
<1> SUFFICES ASSUME Init, NEW m \in Offsets
             PROVE  Copies(m) <= crashes + lostCommits + One(m <= Position)
  BY DEF CopiesInv
<1>1. InChannel(m) = {} /\ AtWorkers(m) = {}
  BY EmptyChannel DEF Init, InChannel, AtWorkers, Offsets
<1>2. Cardinality(InChannel(m)) = 0 /\ Cardinality(AtWorkers(m)) = 0
  BY <1>1, FS_EmptySet
<1>3. handled[m] = 0 /\ Inline(m) = 0 /\ crashes = 0 /\ lostCommits = 0
  BY DEF Init, Inline
<1>4. QED
  BY <1>2, <1>3 DEF Copies, One

LEMMA CopiesInvStep ==
    ASSUME ConsumerInv, CopiesInv, [Next]_vars, ConsumerInv'
    PROVE  CopiesInv'
<1> SUFFICES ASSUME NEW m \in Offsets
             PROVE  Copies(m)' <= crashes' + lostCommits'
                                      + One(m <= Position')
  BY DEF CopiesInv, One
<1> DEFINE queued == Cardinality(InChannel(m))
           taken == Cardinality(AtWorkers(m))
<1>a. /\ Copies(m) <= crashes + lostCommits + One(m <= Position)
      /\ Copies(m) = handled[m] + queued + taken + Inline(m)
      /\ Copies(m)' = handled'[m] + queued' + taken' + Inline(m)'
  BY DEF CopiesInv, Copies
<1>b. /\ queued \in Nat /\ taken \in Nat /\ handled[m] \in Nat
      /\ Inline(m) \in Nat
      /\ queued' \in Nat /\ taken' \in Nat /\ handled'[m] \in Nat
      /\ Inline(m)' \in Nat
      /\ crashes \in Nat /\ lostCommits \in Nat /\ m \in Nat
      /\ crashes' \in Nat /\ lostCommits' \in Nat
      /\ Position \in Nat /\ Position' \in Nat
  <2>1. TypeOK /\ TypeOK'
    BY DEF ConsumerInv
  <2>2. /\ queued \in Nat /\ taken \in Nat /\ handled[m] \in Nat
        /\ Inline(m) \in Nat
    BY <2>1, CopiesAreNumbers
  <2>3. queued' \in Nat /\ taken' \in Nat
    <3>1. Len(channel') \in Nat
      BY <2>1, LenProperties DEF TypeOK
    <3>2. IsFiniteSet(1..Len(channel'))
      BY <3>1, FS_Interval
    <3>3. /\ InChannel(m)' \subseteq 1..Len(channel')
          /\ AtWorkers(m)' \subseteq Workers
      BY DEF InChannel, AtWorkers
    <3>4. IsFiniteSet(InChannel(m)') /\ IsFiniteSet(AtWorkers(m)')
      BY <3>2, <3>3, ConsumerAssumption, FS_Subset
    <3>5. QED
      BY <3>4, FS_CardinalityType
  <2>4. handled'[m] \in Nat /\ Inline(m)' \in Nat
    BY <2>1 DEF TypeOK, Inline
  <2>5. Position \in Nat /\ Position' \in Nat
    <3>1. /\ next \in Nat /\ next - 1 \in Nat /\ committed \in Nat
          /\ next' \in Nat /\ next' - 1 \in Nat /\ committed' \in Nat
      <4>1. /\ next \in 1..(MaxOffset + 1) /\ committed \in 0..MaxOffset
            /\ next' \in 1..(MaxOffset + 1) /\ committed' \in 0..MaxOffset
        BY <2>1 DEF TypeOK
      <4>2. /\ \A n \in 1..(MaxOffset + 1) : n \in Nat /\ n - 1 \in Nat
            /\ \A n \in 0..MaxOffset : n \in Nat
        BY ConsumerAssumption
      <4>3. QED
        BY <4>1, <4>2
    <3>2. /\ Position \in {next, next - 1, committed}
          /\ Position' \in {next', next' - 1, committed'}
      BY Zenon DEF Position
    <3>3. QED
      BY <3>1, <3>2
  <2>6. /\ crashes \in Nat /\ lostCommits \in Nat /\ m \in Nat
        /\ crashes' \in Nat /\ lostCommits' \in Nat
    BY <2>1 DEF TypeOK, Offsets
  <2>7. QED
    BY <2>2, <2>3, <2>4, <2>5, <2>6
<1> HIDE DEF queued, taken
<1>1. CASE UNCHANGED <<queued, taken, handled, Inline(m), crashes,
                       lostCommits, Position>>
  BY <1>1, <1>a, <1>b
<1>2. ASSUME UNCHANGED channel PROVE UNCHANGED queued
  BY <1>2 DEF queued, InChannel
<1>3. ASSUME UNCHANGED working PROVE UNCHANGED taken
  BY <1>3 DEF taken, AtWorkers
<1>4. CASE Quiet
  BY <1>1, <1>2, <1>3, <1>4, QuietKeeps DEF Quiet, Inline
<1>5. CASE SessionStarts \/ SessionEnds \/ AutoCommit
  <2>1. UNCHANGED <<queued, taken, handled, crashes>>
    BY <1>2, <1>3, <1>5, SessionKeeps
  <2>2. UNCHANGED Inline(m)
    BY <1>5 DEF SessionStarts, SessionEnds, AutoCommit, Inline, ConsumerInv,
                ClaimInv, processVars
  <2>3. CASE UNCHANGED <<lostCommits, Position>>
    BY <1>1, <2>1, <2>2, <2>3
  <2>4. CASE lostCommits' = lostCommits + 1
    BY <2>1, <2>2, <2>4, <1>a, <1>b DEF One
  <2>5. UNCHANGED <<lostCommits, Position>> \/ lostCommits' = lostCommits + 1
    <3> USE ConsumerAssumption
            DEF ConsumerInv, TypeOK, ClaimInv, Position, history
    <3>1. CASE SessionStarts
      BY <3>1 DEF SessionStarts
    <3>2. CASE SessionEnds
      BY <3>2 DEF SessionEnds
    <3>3. CASE AutoCommit
      BY <3>3 DEF AutoCommit, processVars
    <3>4. QED
      BY <1>5, <3>1, <3>2, <3>3
  <2>6. QED
    BY <2>3, <2>4, <2>5
<1>6. CASE ClaimQueues
  <2>1. queued' = queued + One(next = m) /\ UNCHANGED taken
    BY <1>3, <1>6, ClaimTakes, CopiesInChannelAppended
       DEF ClaimQueues, ConsumerInv, queued, One
  <2>2. Inline(m) = 0 /\ Inline(m)' = 0
    BY <1>6 DEF ClaimQueues, Inline
  <2>3. QED
    BY <1>6, <2>1, <2>2, <1>a, <1>b, ClaimTakes DEF One, Offsets
<1>7. CASE ClaimTakesOver
  <2>1. UNCHANGED <<queued, taken>>
    BY <1>2, <1>3, <1>7, ClaimTakes DEF ClaimTakesOver
  <2>2. Inline(m) = 0 /\ Inline(m)' = One(next = m)
    BY <1>7 DEF ClaimTakesOver, Inline, One
  <2>3. QED
    BY <1>7, <2>1, <2>2, <1>a, <1>b, ClaimTakes DEF One, Offsets
<1>8. CASE ClaimMarks
  BY <1>1, <1>2, <1>3, <1>8, ClaimMarkKeeps DEF ClaimMarks, Inline
<1>9. CASE ClaimProcesses
  <2>1. UNCHANGED <<queued, taken, crashes, lostCommits, Position>>
    BY <1>2, <1>3, <1>9, ClaimFinishes
  <2>2. Inline(m) = One(next = m) /\ Inline(m)' = 0
    BY <1>9, ClaimFinishes DEF Inline, One
  <2>3. handled'[m] = handled[m] + One(next = m)
    BY <1>9, ClaimFinishes, ProcessedCounts DEF ConsumerInv
  <2>4. QED
    BY <2>1, <2>2, <2>3, <1>a, <1>b DEF One
<1>10. ASSUME NEW w \in Workers, WorkerProcesses(w)
       PROVE  Copies(m)' <= crashes' + lostCommits' + One(m <= Position')
  <2>1. UNCHANGED <<queued, crashes, lostCommits, Position, Inline(m)>>
    BY <1>2, <1>10, WorkerFinishes DEF WorkerProcesses, Inline
  <2>2. taken = taken' + One(m = working[w])
    BY <1>10, CopiesAtWorkersDone DEF WorkerProcesses, ConsumerInv, taken
  <2>3. handled'[m] = handled[m] + One(m = working[w])
    BY <1>10, WorkerFinishes, ProcessedCounts DEF ConsumerInv, One
  <2>4. QED
    BY <2>1, <2>2, <2>3, <1>a, <1>b DEF One
<1>11. ASSUME NEW w \in Workers, WorkerReceives(w)
       PROVE  Copies(m)' <= crashes' + lostCommits' + One(m <= Position')
  <2>1. UNCHANGED <<handled, crashes, lostCommits, Position, Inline(m)>>
    BY <1>11, WorkerTakes DEF WorkerReceives, Inline
  <2>2. queued = queued' + One(m = Head(channel))
    BY <1>11, CopiesInChannelTaken DEF WorkerReceives, ConsumerInv, queued
  <2>3. CASE stopped
    <3>1. UNCHANGED taken
      BY <1>3, <1>11, <2>3, WorkerTakes
    <3>2. QED
      BY <2>1, <2>2, <3>1, <1>a, <1>b DEF One
  <2>4. CASE ~stopped
    <3>1. taken' = taken + One(m = Head(channel))
      BY <1>11, <2>4, WorkerTakes, CopiesAtWorkersTaken
         DEF WorkerReceives, ConsumerInv, taken
    <3>2. QED
      BY <2>1, <2>2, <3>1, <1>a, <1>b DEF One
  <2>5. QED
    BY <2>3, <2>4
<1>12. CASE GoesDown
  <2>1. InChannel(m)' = {}
    BY <1>12, EmptyChannel DEF GoesDown, InChannel
  <2>2. AtWorkers(m)' = {}
    BY <1>12 DEF GoesDown, AtWorkers, Offsets
  <2>3. queued' = 0 /\ taken' = 0
    BY <2>1, <2>2, FS_EmptySet DEF queued, taken
  <2>4. /\ Inline(m)' = 0 /\ UNCHANGED <<handled, lostCommits>>
        /\ crashes' = crashes + 1
    BY <1>12 DEF GoesDown, Inline
  <2>5. QED
    BY <2>3, <2>4, <1>a, <1>b DEF One
<1>13. QED
  BY <1>4, <1>5, <1>6, <1>7, <1>8, <1>9, <1>10, <1>11, <1>12, StepKinds

(* For any number of workers and messages: a message is processed again    *)
(* only after a crash or a lost commit, once for each.                     *)
THEOREM RepeatsBounded == SafetySpec => []RepeatsNeedALostCommit
<1>1. SafetySpec => []CopiesInv
  BY ConsumerInvariant, CopiesInvInit, CopiesInvStep, PTL DEF SafetySpec
<1>2. ASSUME ConsumerInv, CopiesInv, NEW m \in Offsets
      PROVE  handled[m] <= 1 + crashes + lostCommits
  <2>1. TypeOK
    BY <1>2 DEF ConsumerInv
  <2>2. Copies(m) <= crashes + lostCommits + One(m <= Position)
    BY <1>2 DEF CopiesInv
  <2>3. QED
    BY <2>1, <2>2, CopiesAreNumbers DEF Copies, One, TypeOK
<1>3. ConsumerInv /\ CopiesInv => RepeatsNeedALostCommit
  BY <1>2 DEF RepeatsNeedALostCommit
<1>4. QED
  BY <1>1, <1>3, ConsumerInvariant, PTL
-----------------------------------------------------------------------------
(* Taken, but neither processed nor pending.                               *)
Dropped == {m \in Offsets : m <= Position /\ handled[m] = 0
                              /\ m \notin Pending}

Room == Capacity + Cardinality(Workers)
Gone == Workers \ alive

(* Each crash drops at most what the channel and the workers hold, and a   *)
(* Stop one message for each worker that leaves with one in its hands.     *)
LossInv ==
    /\ \A w \in Workers : working[w] # 0 => w \in alive
    /\ Cardinality(Dropped) <=
           Room * crashes + (IF stopped THEN Cardinality(Gone) ELSE 0)

LEMMA UnionBounded ==
    ASSUME NEW S, NEW T, IsFiniteSet(S), IsFiniteSet(T)
    PROVE  /\ IsFiniteSet(S \cup T) /\ Cardinality(S \cup T) \in Nat
           /\ Cardinality(S \cup T) <= Cardinality(S) + Cardinality(T)
<1>1. /\ IsFiniteSet(S \cup T)
      /\ Cardinality(S \cup T) =
            Cardinality(S) + Cardinality(T) - Cardinality(S \cap T)
  BY FS_Union
<1>2. IsFiniteSet(S \cap T)
  BY FS_Intersection
<1>3. /\ Cardinality(S \cup T) \in Nat /\ Cardinality(S \cap T) \in Nat
      /\ Cardinality(S) \in Nat /\ Cardinality(T) \in Nat
  BY <1>1, <1>2, FS_CardinalityType
<1>4. QED
  BY <1>1, <1>3

LEMMA DroppedIsFinite ==
    ASSUME ConsumerInv
    PROVE  /\ IsFiniteSet(Dropped) /\ Cardinality(Dropped) \in Nat
           /\ IsFiniteSet(Gone) /\ Cardinality(Gone) \in Nat
           /\ Cardinality(Gone) <= Cardinality(Workers)
           /\ Cardinality(Workers) \in Nat /\ Room \in Nat
           /\ Room * crashes \in Nat
<1>1. IsFiniteSet(Offsets)
  BY ConsumerAssumption, FS_Interval DEF Offsets
<1>2. IsFiniteSet(Dropped)
  BY <1>1, FS_Subset DEF Dropped
<1>3. /\ IsFiniteSet(Gone) /\ Cardinality(Gone) <= Cardinality(Workers)
      /\ Cardinality(Workers) \in Nat
  BY ConsumerAssumption, FS_Subset, FS_CardinalityType DEF Gone
<1>4. Room \in Nat /\ crashes \in Nat
  BY <1>3, ConsumerAssumption DEF Room, ConsumerInv, TypeOK
<1>5. Room * crashes \in Nat
  BY <1>4
<1>6. QED
  BY <1>2, <1>3, <1>4, <1>5, FS_CardinalityType

(* What the channel holds, and what the workers hold.                      *)
LEMMA QueuedBounded ==
    ASSUME TypeOK
    PROVE  IsFiniteSet(Queued) /\ Cardinality(Queued) <= Capacity
           /\ Cardinality(Queued) \in Nat
<1>1. Len(channel) \in Nat /\ Len(channel) <= Capacity
  BY LenProperties DEF TypeOK
<1>2. IsFiniteSet(1..Len(channel))
      /\ Cardinality(1..Len(channel)) = Len(channel)
  BY <1>1, FS_Interval
<1> DEFINE f == [i \in 1..Len(channel) |-> channel[i]]
<1>3. f \in Surjection(1..Len(channel), Queued)
  <2>1. f \in [1..Len(channel) -> Queued]
    BY DEF Queued
  <2>2. \A m \in Queued : \E i \in 1..Len(channel) : f[i] = m
    BY DEF Queued
  <2>3. QED
    BY <2>1, <2>2, Fun_IsSurj
<1>4. IsFiniteSet(Queued) /\ Cardinality(Queued) <= Len(channel)
  BY <1>2, <1>3, FS_Surjection
<1>5. QED
  BY <1>1, <1>4, FS_CardinalityType, ConsumerAssumption

LEMMA InHandBounded ==
    ASSUME TypeOK, \A w \in Workers : working[w] # 0 => w \in alive
    PROVE  /\ IsFiniteSet(InHand) /\ Cardinality(InHand) \in Nat
           /\ Cardinality(InHand) + Cardinality(Gone)
                  <= Cardinality(Workers)
<1> DEFINE Holders == {w \in Workers : working[w] # 0}
           f == [w \in Holders |-> working[w]]
<1>1. IsFiniteSet(Holders) /\ IsFiniteSet(Gone)
  BY ConsumerAssumption, FS_Subset DEF Gone
<1>2. f \in Surjection(Holders, InHand)
  <2>1. f \in [Holders -> InHand]
    BY DEF InHand
  <2>2. \A m \in InHand : \E w \in Holders : f[w] = m
    BY DEF InHand
  <2>3. QED
    BY <2>1, <2>2, Fun_IsSurj
<1>3. IsFiniteSet(InHand) /\ Cardinality(InHand) <= Cardinality(Holders)
  BY <1>1, <1>2, FS_Surjection
<1>4. Holders \cap Gone = {} /\ Holders \cup Gone \subseteq Workers
  BY DEF Gone
<1>5. /\ IsFiniteSet(Holders \cup Gone)
      /\ Cardinality(Holders \cup Gone) =
            Cardinality(Holders) + Cardinality(Gone)
               - Cardinality(Holders \cap Gone)
  BY <1>1, FS_Union
<1>6. Cardinality(Holders \cap Gone) = 0
  BY <1>4, FS_EmptySet
<1>7. Cardinality(Holders \cup Gone) <= Cardinality(Workers)
  BY <1>4, ConsumerAssumption, FS_Subset
<1>8. /\ Cardinality(Holders) \in Nat /\ Cardinality(Gone) \in Nat
      /\ Cardinality(Workers) \in Nat /\ Cardinality(InHand) \in Nat
  BY <1>1, <1>3, ConsumerAssumption, FS_CardinalityType
<1> HIDE DEF Holders
<1>9. QED
  BY <1>3, <1>5, <1>6, <1>7, <1>8

LEMMA LossInvInit == Init => LossInv
<1> SUFFICES ASSUME Init PROVE LossInv
  OBVIOUS
<1>1. Dropped = {}
  BY DEF Init, Dropped, Position, Offsets
<1>2. Cardinality(Dropped) = 0
  BY <1>1, FS_EmptySet
<1>3. ConsumerInv
  BY ConsumerInvInit
<1>4. Room * crashes \in Nat
  BY <1>3, DroppedIsFinite
<1>5. QED
  BY <1>2, <1>4 DEF Init, LossInv

LEMMA LossInvStep ==
    ASSUME ConsumerInv, LossInv, [Next]_vars, ConsumerInv'
    PROVE  LossInv'
<1> DEFINE lost == Cardinality(Dropped)
           left == Cardinality(Gone)
<1>a. /\ \A w \in Workers : working[w] # 0 => w \in alive
      /\ lost <= Room * crashes + (IF stopped THEN left ELSE 0)
  BY DEF LossInv
<1>b. /\ lost \in Nat /\ left \in Nat /\ IsFiniteSet(Dropped)
      /\ IsFiniteSet(Gone) /\ Room \in Nat /\ Room * crashes \in Nat
  BY DroppedIsFinite
<1>c. /\ lost' \in Nat /\ left' \in Nat /\ IsFiniteSet(Gone')
  <2>1. IsFiniteSet(Gone')
    BY ConsumerAssumption, FS_Subset DEF Gone
  <2>2. IsFiniteSet(Offsets) /\ Dropped' \subseteq Offsets
    BY ConsumerAssumption, FS_Interval DEF Offsets, Dropped
  <2>3. IsFiniteSet(Dropped')
    BY <2>2, FS_Subset
  <2>4. QED
    BY <2>1, <2>3, FS_CardinalityType
<1>d. ASSUME Dropped' \subseteq Dropped PROVE lost' <= lost
  BY <1>b, <1>d, FS_Subset
<1>e. ASSUME alive' \subseteq alive PROVE left <= left'
  <2>1. Gone \subseteq Gone'
    BY <1>e DEF Gone
  <2>2. QED
    BY <1>c, <2>1, FS_Subset
<1> HIDE DEF lost, left
<1>1. ASSUME Dropped' \subseteq Dropped, UNCHANGED crashes,
             stopped => stopped', alive' \subseteq alive,
             \A w \in Workers : working'[w] # 0 => w \in alive'
      PROVE  LossInv'
  <2>1. lost' <= Room * crashes' + (IF stopped' THEN left' ELSE 0)
    BY <1>1, <1>a, <1>b, <1>c, <1>d, <1>e
  <2>2. QED
    BY <1>1, <2>1 DEF LossInv, lost, left, Room
<1>2. CASE Quiet
  <2>1. Dropped' = Dropped
    BY <1>2, QuietKeeps DEF Quiet, Dropped
  <2>2. \A w \in Workers : working'[w] # 0 => w \in alive'
    BY <1>2, <1>a DEF Quiet
  <2>3. QED
    BY <1>1, <1>2, <2>1, <2>2 DEF Quiet
<1>3. CASE SessionStarts \/ SessionEnds \/ AutoCommit
  <2>1. Dropped' \subseteq Dropped
    BY <1>3, SessionKeeps DEF Dropped, Offsets
  <2>2. QED
    BY <1>1, <1>3, <1>a, <2>1, SessionKeeps
<1>4. CASE ClaimQueues \/ ClaimTakesOver
  <2>1. Dropped' \subseteq Dropped
    BY <1>4, ClaimTakes DEF Dropped, Offsets
  <2>2. QED
    BY <1>1, <1>4, <1>a, <2>1, ClaimTakes
<1>5. CASE ClaimMarks
  <2>1. Dropped' = Dropped
    BY <1>5, ClaimMarkKeeps DEF Dropped
  <2>2. QED
    BY <1>1, <1>5, <1>a, <2>1, ClaimMarkKeeps
<1>6. ASSUME NEW k \in Offsets, Processed(k), Pending = Pending' \cup {k},
             UNCHANGED Position
      PROVE  Dropped' \subseteq Dropped
  <2>1. handled'[k] # 0 /\ \A m \in Offsets \ {k} : handled'[m] = handled[m]
    BY <1>6 DEF Processed, ConsumerInv, TypeOK
  <2>2. QED
    BY <1>6, <2>1 DEF Dropped
<1>7. CASE ClaimProcesses
  BY <1>1, <1>6, <1>7, <1>a, ClaimFinishes
<1>8. ASSUME NEW w \in Workers, WorkerProcesses(w) PROVE LossInv'
  <2>1. Dropped' \subseteq Dropped
    BY <1>6, <1>8, WorkerFinishes
  <2>2. \A v \in Workers : working'[v] # 0 => v \in alive'
    BY <1>8, <1>a DEF WorkerProcesses, ConsumerInv, TypeOK
  <2>3. QED
    BY <1>1, <1>8, <2>1, <2>2, WorkerFinishes
<1>9. ASSUME NEW w \in Workers, WorkerReceives(w) PROVE LossInv'
  <2>1. CASE ~stopped
    <3>1. Dropped' \subseteq Dropped
      BY <1>9, <2>1, WorkerTakes DEF Dropped
    <3>2. \A v \in Workers : working'[v] # 0 => v \in alive'
      BY <1>9, <2>1, <1>a DEF WorkerReceives, ConsumerInv, TypeOK
    <3>3. QED
      BY <1>1, <1>9, <2>1, <3>1, <3>2, WorkerTakes
  <2>2. CASE stopped
    <3>1. /\ UNCHANGED <<stopped, crashes, handled, Position, working>>
          /\ Pending = Pending' \cup {Head(channel)}
      BY <1>9, <2>2, WorkerTakes
    <3>2. w \in alive /\ working[w] = 0 /\ alive' = alive \ {w}
      BY <1>9, <2>2 DEF WorkerReceives
    <3>3. Dropped' \subseteq Dropped \cup {Head(channel)}
      BY <3>1 DEF Dropped
    <3>4. lost' <= lost + 1
      <4>1. /\ IsFiniteSet(Dropped \cup {Head(channel)})
            /\ Cardinality(Dropped \cup {Head(channel)}) \in {lost, lost + 1}
        BY <1>b, FS_AddElement DEF lost
      <4>2. Cardinality(Dropped') <= Cardinality(Dropped \cup {Head(channel)})
        BY <3>3, <4>1, FS_Subset
      <4>3. QED
        BY <4>1, <4>2, <1>b, <1>c DEF lost
    <3>5. left' = left + 1
      <4>1. Gone' = Gone \cup {w} /\ w \notin Gone
        BY <3>2 DEF Gone
      <4>2. QED
        BY <4>1, <1>b, FS_AddElement DEF left
    <3>6. lost' <= Room * crashes' + (IF stopped' THEN left' ELSE 0)
      BY <2>2, <3>1, <3>4, <3>5, <1>a, <1>b, <1>c
    <3>7. \A v \in Workers : working'[v] # 0 => v \in alive'
      BY <3>1, <3>2, <1>a
    <3>8. QED
      BY <3>6, <3>7 DEF LossInv, lost, left, Room
  <2>3. QED
    BY <2>1, <2>2
<1>10. CASE GoesDown
  <2>1. TypeOK /\ ClaimInv
    BY DEF ConsumerInv
  <2>2. /\ IsFiniteSet(Queued) /\ Cardinality(Queued) <= Capacity
        /\ Cardinality(Queued) \in Nat
    BY <2>1, QueuedBounded
  <2>3. /\ IsFiniteSet(InHand) /\ Cardinality(InHand) \in Nat
        /\ Cardinality(InHand) + left <= Cardinality(Workers)
    BY <2>1, <1>a, InHandBounded DEF left
  <2>4. committed <= Position /\ (claim = "inline" => committed < next)
        /\ Position \in Nat /\ committed \in Nat
    BY <2>1, ConsumerAssumption DEF ClaimInv, TypeOK, Position
  <2>5. Position' = committed /\ UNCHANGED handled
    BY <1>10 DEF GoesDown, Position
  <2>6. Dropped' \subseteq Dropped \cup (Queued \cup InHand)
    <3> SUFFICES ASSUME NEW m \in Offsets, m <= committed, handled[m] = 0,
                        m \notin Queued, m \notin InHand
                 PROVE  m \in Dropped
      BY <2>5 DEF Dropped
    <3>1. m <= Position /\ ~(claim = "inline" /\ m = next)
      BY <2>1, <2>4 DEF Offsets, TypeOK
    <3>2. QED
      BY <3>1 DEF Dropped, Pending
  <2>7. /\ IsFiniteSet(Queued \cup InHand)
        /\ Cardinality(Queued \cup InHand)
              <= Cardinality(Queued) + Cardinality(InHand)
        /\ Cardinality(Queued \cup InHand) \in Nat
    BY <2>2, <2>3, UnionBounded
  <2>8. /\ IsFiniteSet(Dropped \cup (Queued \cup InHand))
        /\ Cardinality(Dropped \cup (Queued \cup InHand))
              <= lost + Cardinality(Queued \cup InHand)
        /\ Cardinality(Dropped \cup (Queued \cup InHand)) \in Nat
    BY <1>b, <2>7, UnionBounded DEF lost
  <2>9. Cardinality(Dropped') <= Cardinality(Dropped \cup (Queued \cup InHand))
    BY <2>6, <2>8, FS_Subset
  <2>10. lost' <= lost + Cardinality(Queued) + Cardinality(InHand)
    BY <2>2, <2>3, <2>7, <2>8, <2>9, <1>b, <1>c DEF lost
  <2>11. Room * crashes' = Room * crashes + Room
    <3>1. crashes' = crashes + 1 /\ crashes \in Nat
      BY <1>10, <2>1 DEF GoesDown, TypeOK
    <3>2. QED
      BY <3>1, <1>b
  <2>12. lost' <= Room * crashes'
    BY <2>2, <2>3, <2>10, <2>11, <1>a, <1>b, <1>c, ConsumerAssumption,
       DroppedIsFinite DEF Room
  <2>13. ~stopped' /\ \A w \in Workers : working'[w] = 0
    BY <1>10 DEF GoesDown
  <2>14. lost' <= Room * crashes' + (IF stopped' THEN left' ELSE 0)
    BY <2>11, <2>12, <2>13, <1>b
  <2>15. QED
    BY <2>13, <2>14 DEF LossInv, lost, left, Room
<1>11. QED
  BY <1>2, <1>3, <1>4, <1>5, <1>7, <1>8, <1>9, <1>10, StepKinds

(* For any number of workers and messages: the committed messages that     *)
(* nobody processed or will are at most as many as the channel and the     *)
(* workers hold, for each crash and for a Stop.                            *)
THEOREM LossBounded == SafetySpec => []LossIsBounded
<1>1. SafetySpec => []LossInv
  BY ConsumerInvariant, LossInvInit, LossInvStep, PTL DEF SafetySpec
<1>2. ASSUME ConsumerInv, LossInv PROVE LossIsBounded
  <2>1. /\ Cardinality(Dropped)
             <= Room * crashes + (IF stopped THEN Cardinality(Gone) ELSE 0)
        /\ IsFiniteSet(Dropped) /\ Cardinality(Dropped) \in Nat
        /\ Cardinality(Gone) <= Cardinality(Workers)
        /\ Cardinality(Workers) \in Nat /\ Room * crashes \in Nat
        /\ Cardinality(Gone) \in Nat
    BY <1>2, DroppedIsFinite DEF LossInv
  <2>2. committed <= Position /\ committed \in Nat /\ Position \in Nat
        /\ committed <= MaxOffset
    BY <1>2, ConsumerAssumption DEF ConsumerInv, ClaimInv, TypeOK, Position
  <2>3. Forsaken \subseteq Dropped
    BY <2>2, ConsumerAssumption DEF Forsaken, Dropped, Offsets
  <2>4. Cardinality(Forsaken) <= Cardinality(Dropped)
        /\ Cardinality(Forsaken) \in Nat
    BY <2>1, <2>3, FS_Subset, FS_CardinalityType
  <2>5. crashes \in Nat /\ Room \in Nat
    BY <1>2, DroppedIsFinite DEF ConsumerInv, TypeOK
  <2>6. CASE stopped
    <3>1. Room * (crashes + 1) = Room * crashes + Room
      BY <2>5
    <3>2. Cardinality(Forsaken) <= Room * (crashes + 1)
      BY <2>1, <2>4, <2>5, <2>6, <3>1, ConsumerAssumption DEF Room
    <3>3. QED
      BY <2>6, <3>2 DEF LossIsBounded, Room
  <2>7. CASE ~stopped
    <3>1. Cardinality(Forsaken) <= Room * (crashes + 0)
      BY <2>1, <2>4, <2>5, <2>7
    <3>2. QED
      BY <2>7, <3>1 DEF LossIsBounded, Room
  <2>8. QED
    BY <2>6, <2>7
<1>3. QED
  BY <1>1, <1>2, ConsumerInvariant, PTL
=============================================================================
