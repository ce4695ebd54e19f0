--------------------------- MODULE CollectorProofs ---------------------------
(***************************************************************************)
(* What the collector is sent, for every configuration, any number of      *)
(* events and any number of lost replies.  A step of the collector is a    *)
(* step of the sender, so the sender's invariant holds; it says that the   *)
(* batch of a request is an interval that starts right after the events    *)
(* that are confirmed or lost, and from that the two properties follow by  *)
(* induction.                                                              *)
(***************************************************************************)
EXTENDS Collector, BatchSenderProofs

CopiesTypeOK == copies \in [1..MaxEvents -> Nat] /\ lostReplies \in Nat

CollectorInv ==
    SenderInv /\ CopiesTypeOK /\ CopiesExplained /\ CollectedInOrder
-----------------------------------------------------------------------------
(* Every step of the collector is a step of the sender or stutters in it.  *)
LEMMA CollectorStepIsSenderStep == [CollectorNext]_collectorVars => [Next]_vars
BY DEF CollectorNext, collectorVars, ReplyAccepts, RequestRejected, ReplyLost,
       ErrorHandled, SenderOnly, Next

(* What a step does to what the collector has: nothing, a batch that is    *)
(* confirmed, or a batch whose reply is lost.                              *)
Untouched == UNCHANGED <<copies, lostReplies, acked>>
Accepting == /\ CollectorTakesBatch
             /\ acked' = acked \cup Window
             /\ lostReplies' = lostReplies
LosingReply == /\ CollectorTakesBatch
               /\ acked' = acked
               /\ lostReplies' = lostReplies + 1

(* Whatever its outcome, an error confirms nothing and forgets no loss.    *)
LEMMA ErrorKeepsConfirmed ==
    ASSUME NEW sizePattern \in BOOLEAN, ErrorHandled(sizePattern)
    PROVE  acked' = acked /\ lost \subseteq lost'
<1>1. CASE SendFails
  BY <1>1 DEF SendFails, FlushReturns
<1>2. CASE SendTooLarge /\ BatchLen > 1
  BY <1>2 DEF SendTooLarge, Split
<1>3. CASE SendTooLarge /\ ~(BatchLen > 1)
  BY <1>3 DEF SendTooLarge, FlushReturns
<1>4. QED
  BY <1>1, <1>2, <1>3 DEF ErrorHandled

LEMMA CollectorStepKind ==
    ASSUME [CollectorNext]_collectorVars
    PROVE  /\ Untouched \/ Accepting \/ LosingReply
           /\ lost \subseteq lost'
<1>1. CASE ReplyAccepts
  BY <1>1 DEF ReplyAccepts, SendSucceeds, FlushReturns, Accepting
<1>2. CASE RequestRejected
  BY <1>2, ErrorKeepsConfirmed DEF RequestRejected, Untouched
<1>3. CASE ReplyLost
  BY <1>3, ErrorKeepsConfirmed DEF ReplyLost, LosingReply
<1>4. CASE SenderOnly /\ UNCHANGED <<copies, lostReplies>>
  BY <1>4
     DEF SenderOnly, Start, Stop, AddAccepted, AddRejected, SpawnedFlush,
         TickerFlush, RequestedFlush, FinalFlush, SplitOversized, Split,
         Cooldown, senderVars, Untouched
<1>5. CASE UNCHANGED collectorVars
  BY <1>5 DEF collectorVars, vars, senderVars, Untouched
<1>6. QED
  BY <1>1, <1>2, <1>3, <1>4, <1>5 DEF CollectorNext
-----------------------------------------------------------------------------
LEMMA CollectorInvInit == CollectorInit => CollectorInv
<1> SUFFICES ASSUME CollectorInit PROVE CollectorInv
  OBVIOUS
<1>1. SenderInv
  BY SenderInvInit DEF CollectorInit
<1>2. CopiesTypeOK /\ CopiesExplained /\ CollectedInOrder
  BY MaxEventsAssumption
     DEF CollectorInit, Init, CopiesTypeOK, CopiesExplained, CollectedInOrder,
         Collected
<1>3. QED
  BY <1>1, <1>2 DEF CollectorInv

(* No event of the batch being sent was confirmed before, and every older  *)
(* event is confirmed or lost.                                             *)
LEMMA BatchFollowsSettled ==
    ASSUME SenderInv
    PROVE  /\ Window \cap acked = {}
           /\ \A f \in Window : \A e \in 1..f :
                 e \in Window \/ e \in acked \/ e \in lost
<1>1. /\ Settled \in Nat /\ hi - lo \in Nat
      /\ Window = (Settled + 1)..(Settled + (hi - lo))
  BY WindowIsInterval DEF SenderInv, BufferInv, BufferTypeOK
<1>2. acked \cup lost = 1..Settled
  BY DEF SenderInv, SettledInv
<1>3. Window \cap (1..Settled) = {}
  BY <1>1
<1>4. ASSUME NEW f \in Window, NEW e \in 1..f, e \notin Window
      PROVE  e \in 1..Settled
  BY <1>1, <1>4
<1>5. QED
  BY <1>2, <1>3, <1>4

LEMMA CopiesStep ==
    ASSUME CollectorInv, [CollectorNext]_collectorVars
    PROVE  CopiesTypeOK' /\ CopiesExplained' /\ CollectedInOrder'
<1> USE MaxEventsAssumption
<1>1. /\ copies \in [1..MaxEvents -> Nat] /\ lostReplies \in Nat
      /\ SenderInv /\ CopiesExplained /\ CollectedInOrder
  BY DEF CollectorInv, CopiesTypeOK
<1>2. lost \subseteq lost'
  BY CollectorStepKind
<1>3. CASE Untouched
  <2>1. CopiesTypeOK' /\ CopiesExplained'
    BY <1>1, <1>3 DEF Untouched, CopiesTypeOK, CopiesExplained
  <2>2. CollectedInOrder'
    BY <1>1, <1>2, <1>3 DEF Untouched, CollectedInOrder, Collected
  <2>3. QED
    BY <2>1, <2>2
<1>4. ASSUME CollectorTakesBatch
      PROVE  /\ copies' \in [1..MaxEvents -> Nat]
             /\ \A e \in 1..MaxEvents :
                   copies'[e] = IF e \in Window THEN copies[e] + 1
                                                ELSE copies[e]
             /\ CollectedInOrder'
  <2>1. \A e \in 1..MaxEvents : copies[e] \in Nat
    BY <1>1
  <2>2. /\ copies' \in [1..MaxEvents -> Nat]
        /\ \A e \in 1..MaxEvents :
              copies'[e] = IF e \in Window THEN copies[e] + 1 ELSE copies[e]
    BY <1>4, <2>1 DEF CollectorTakesBatch
  <2>3. Collected' = Collected \cup (Window \cap (1..MaxEvents))
    BY <2>1, <2>2 DEF Collected
  <2>4. \A e \in (1..MaxEvents) \cap acked : e \in Collected
    BY <1>1, <2>1 DEF CopiesExplained, Collected
  <2>5. ASSUME NEW f \in Collected', NEW e \in 1..f
        PROVE  e \in Collected' \/ e \in lost'
    <3>1. f \in 1..MaxEvents /\ e \in 1..MaxEvents
      BY <2>5, <2>2 DEF Collected
    <3>2. CASE f \in Collected
      BY <1>1, <1>2, <2>3, <3>2 DEF CollectedInOrder
    <3>3. CASE f \in Window
      <4>1. e \in Window \/ e \in acked \/ e \in lost
        BY <1>1, <3>3, BatchFollowsSettled
      <4>2. QED
        BY <1>2, <2>3, <2>4, <3>1, <4>1
    <3>4. QED
      BY <2>3, <3>2, <3>3
  <2>6. QED
    BY <2>2, <2>5 DEF CollectedInOrder
<1>5. Window \cap acked = {}
  BY <1>1, BatchFollowsSettled
<1>6. CASE Accepting
  <2>1. /\ CollectorTakesBatch /\ lostReplies' = lostReplies
        /\ acked' = acked \cup Window
    BY <1>6 DEF Accepting
  <2>2. ASSUME NEW e \in 1..MaxEvents
        PROVE  IF e \in acked' THEN copies'[e] \in 1..(lostReplies' + 1)
                               ELSE copies'[e] \in 0..lostReplies'
    <3>1. /\ copies'[e] = IF e \in Window THEN copies[e] + 1 ELSE copies[e]
          /\ IF e \in acked THEN copies[e] \in 1..(lostReplies + 1)
                            ELSE copies[e] \in 0..lostReplies
      BY <1>1, <1>4, <2>1 DEF CopiesExplained
    <3>2. CASE e \in Window
      BY <1>1, <1>5, <2>1, <3>1, <3>2
    <3>3. CASE e \notin Window
      BY <1>1, <2>1, <3>1, <3>3
    <3>4. QED
      BY <3>2, <3>3
  <2>3. QED
    BY <1>1, <1>4, <2>1, <2>2 DEF CopiesTypeOK, CopiesExplained
<1>7. CASE LosingReply
  <2>1. /\ CollectorTakesBatch /\ lostReplies' = lostReplies + 1
        /\ acked' = acked
    BY <1>7 DEF LosingReply
  <2>2. ASSUME NEW e \in 1..MaxEvents
        PROVE  IF e \in acked' THEN copies'[e] \in 1..(lostReplies' + 1)
                               ELSE copies'[e] \in 0..lostReplies'
    <3>1. /\ copies'[e] = IF e \in Window THEN copies[e] + 1 ELSE copies[e]
          /\ IF e \in acked THEN copies[e] \in 1..(lostReplies + 1)
                            ELSE copies[e] \in 0..lostReplies
      BY <1>1, <1>4, <2>1 DEF CopiesExplained
    <3>2. CASE e \in Window
      BY <1>1, <1>5, <2>1, <3>1, <3>2
    <3>3. CASE e \notin Window
      BY <1>1, <2>1, <3>1, <3>3
    <3>4. QED
      BY <3>2, <3>3
  <2>3. QED
    BY <1>1, <1>4, <2>1, <2>2 DEF CopiesTypeOK, CopiesExplained
<1>8. QED
  BY <1>3, <1>6, <1>7, CollectorStepKind

(* The inductive invariant of the sender and its collector.                *)
THEOREM CollectorInvariant == CollectorSpec => []CollectorInv
<1>1. CollectorInv /\ [CollectorNext]_collectorVars => CollectorInv'
  <2> SUFFICES ASSUME CollectorInv, [CollectorNext]_collectorVars
               PROVE  CollectorInv'
    OBVIOUS
  <2>1. SenderInv'
    BY SenderInvStep, CollectorStepIsSenderStep DEF CollectorInv
  <2>2. QED
    BY <2>1, CopiesStep DEF CollectorInv
<1>2. QED
  BY <1>1, CollectorInvInit, PTL DEF CollectorSpec
-----------------------------------------------------------------------------
(* For every configuration and any number of lost replies: the collector   *)
(* has no event while an older one still waits to reach it.                *)
THEOREM CollectorInOrder == CollectorSpec => []CollectedInOrder
<1>1. CollectorInv => CollectedInOrder
  BY DEF CollectorInv
<1>2. QED
  BY <1>1, CollectorInvariant, PTL

(* For every configuration: what is confirmed was taken, and a copy more   *)
(* than that costs a lost reply.                                           *)
THEOREM CollectorCopies == CollectorSpec => []CopiesExplained
<1>1. CollectorInv => CopiesExplained
  BY DEF CollectorInv
<1>2. QED
  BY <1>1, CollectorInvariant, PTL

(* Behind any collector the sender behaves as it does alone: the theorems  *)
(* of BatchSenderProofs hold for the collector's specification.            *)
THEOREM CollectorImplementsSender == CollectorSpec => Spec
BY CollectorStepIsSenderStep, PTL DEF CollectorSpec, CollectorInit, Spec
=============================================================================
