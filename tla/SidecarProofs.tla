---------------------------- MODULE SidecarProofs ----------------------------
(***************************************************************************)
(* What a 202 promises, for any number of requests and workers and any     *)
(* capacity of the queue and of the sender.                                *)
(***************************************************************************)
EXTENDS Sidecar, SequenceTheorems, FiniteSetTheorems, TLAPS

(* The phases of main after Stop has closed workQueue.  A crash may come    *)
(* before and after.                                                       *)
AfterClose == {"draining", "senders", "producer", "input", "consumer", "http",
               "exited"}

(* The phases after the workers have returned.                             *)
AfterWorkers == AfterClose \ {"draining"}

(* The queue closes before the producer does.                              *)
ClosingOrder ==
    /\ mainPc # "crashed" => (mainPc \in AfterClose <=> queueClosed)
    /\ producerClosed => queueClosed

(* While the queue is open, a body that waits for it has been produced.    *)
ProducedFirst ==
    \A r \in Requests :
        /\ request[r] = "accepted" => r \in produced
        /\ request[r] = "queueing" /\ ~queueClosed => r \in produced

(* A worker that is busy has not returned; one has returned only when the  *)
(* queue was closed and empty, and so it stays.                            *)
WorkersOutlastQueue ==
    /\ \A w \in Workers : busy[w] # None => w \in alive
    /\ queueClosed /\ alive # Workers => workQueue = <<>>
    /\ mainPc = "running" => alive = Workers
    /\ mainPc \in AfterWorkers => alive = {}

Queued == {workQueue[i] : i \in 1..Len(workQueue)}
InWork == {busy[w] : w \in Workers}

(* No acknowledged body is ever nowhere.                                   *)
NothingDropped == Acknowledged \subseteq Processed \cup Queued \cup InWork

-----------------------------------------------------------------------------
(* The part of the types that is about the sender's events.                *)
EventTypeOK ==
    /\ outbox \in Seq(1..accepted)
    /\ accepted \in Nat /\ rejected \in Nat
    /\ confirmed \subseteq 1..accepted /\ forgotten \subseteq 1..accepted
    /\ origin \in Seq(Requests \cup {"kafka"}) /\ Len(origin) = accepted
    /\ overflowed \subseteq Requests

(* An event that is taken gets the next number, at the end of the outbox.  *)
LEMMA AddTakenTypes ==
    ASSUME EventTypeOK, NEW source \in Requests \cup {"kafka"},
           AddTaken(source), overflowed' = overflowed
    PROVE  EventTypeOK'
<1>1. accepted' = accepted + 1 /\ accepted \in Nat
    BY DEF EventTypeOK, AddTaken, Accept
<1>2. 1..accepted \subseteq 1..accepted' /\ accepted' \in 1..accepted'
    BY <1>1
<1>3. outbox \in Seq(1..accepted')
    BY <1>2 DEF EventTypeOK
<1>4. outbox' = Append(outbox, accepted')
    BY <1>1 DEF AddTaken, Accept
<1>5. outbox' \in Seq(1..accepted')
    BY <1>2, <1>3, <1>4
<1>6. origin' = Append(origin, source) /\ origin \in Seq(Requests \cup {"kafka"})
    BY DEF EventTypeOK, AddTaken
<1>7. origin' \in Seq(Requests \cup {"kafka"}) /\ Len(origin') = accepted'
    BY <1>1, <1>6 DEF EventTypeOK
<1>8. rejected' \in Nat /\ overflowed' \subseteq Requests
    BY DEF EventTypeOK, AddTaken, Accept
<1>9. confirmed' \subseteq 1..accepted' /\ forgotten' \subseteq 1..accepted'
    BY <1>2 DEF EventTypeOK, AddTaken, Accept
<1> QED
    BY <1>1, <1>5, <1>7, <1>8, <1>9 DEF EventTypeOK

(* A full sender changes its counter only.                                 *)
LEMMA AddRefusedTypes ==
    ASSUME EventTypeOK, AddRefused, overflowed' \subseteq Requests
    PROVE  EventTypeOK'
BY DEF EventTypeOK, AddRefused, Reject

(* Taking the oldest events out of the outbox leaves events in it.         *)
LEMMA OldestTypes ==
    ASSUME EventTypeOK, NEW k \in 0..Len(outbox)
    PROVE  /\ Without(k) \in Seq(1..accepted)
           /\ Oldest(k) \subseteq 1..accepted
<1>1. Len(outbox) \in Nat /\ outbox \in Seq(1..accepted)
    BY DEF EventTypeOK
<1>2. \A i \in 1..Len(outbox) : outbox[i] \in 1..accepted
    BY <1>1, ElementOfSeq
<1>3. \A i \in 1..k : outbox[i] \in 1..accepted
    BY <1>1, <1>2
<1>4. \A i \in (k + 1)..Len(outbox) : outbox[i] \in 1..accepted
    BY <1>1, <1>2
<1>5. SubSeq(outbox, k + 1, Len(outbox)) \in Seq(1..accepted)
    BY <1>1, <1>4, SubSeqProperties
<1> QED
    BY <1>3, <1>5 DEF Without, Oldest

(* So confirming and forgetting keep the types.                            *)
LEMMA RemovalTypes ==
    ASSUME EventTypeOK, NEW k \in 0..Len(outbox), Confirm(k) \/ Forget(k),
           UNCHANGED <<origin, overflowed>>
    PROVE  EventTypeOK'
BY OldestTypes DEF EventTypeOK, Confirm, Forget

(* The rest of the types: the process itself.                              *)
ProcessTypeOK ==
    /\ mainPc \in Phases
    /\ serving \in BOOLEAN
    /\ request \in [Requests -> Stages]
    /\ workQueue \in Seq(Requests) /\ Len(workQueue) <= QueueSize
    /\ queueClosed \in BOOLEAN
    /\ busy \in [Workers -> Requests \cup {None}]
    /\ alive \subseteq Workers
    /\ producerClosed \in BOOLEAN /\ inputClosed \in BOOLEAN
    /\ produced \subseteq Requests
    /\ messages \in 0..MaxMessages
    /\ sendFailed \in BOOLEAN

(* Together they are the type invariant.                                   *)
LEMMA TypesInTwoParts == SidecarTypeOK <=> ProcessTypeOK /\ EventTypeOK
BY DEF SidecarTypeOK, ProcessTypeOK, EventTypeOK

(* A step that leaves the events alone keeps their types.                  *)
LEMMA EventsUntouched ==
    ASSUME EventTypeOK, UNCHANGED <<outboxVars, origin, overflowed>>
    PROVE  EventTypeOK'
BY DEF EventTypeOK, outboxVars

(* Every step that touches the sender keeps the types of its events.       *)
LEMMA EventStep ==
    ASSUME ProcessTypeOK, EventTypeOK, [Next]_vars
    PROVE  EventTypeOK'
<1>1. ASSUME NEW r \in Requests, Handler(r) PROVE EventTypeOK'
    BY <1>1, EventsUntouched
       DEF Handler, Arrive, Refuse, SendChecks, SendInputs, Enqueue,
           QueueTimesOut, EnqueuePanics, eventVars
<1>2. ASSUME NEW w \in Workers, Worker(w) PROVE EventTypeOK'
  <2>1. CASE WorkerTakes(w) \/ WorkerPanics(w) \/ WorkerReturns(w)
    BY <2>1, EventsUntouched
       DEF WorkerTakes, WorkerPanics, WorkerReturns, eventVars
  <2>2. CASE WorkerAdds(w)
    <3>1. busy[w] \in Requests
      BY <2>2 DEF WorkerAdds, ProcessTypeOK
    <3>2. CASE AddTaken(busy[w]) /\ UNCHANGED overflowed
      BY <3>1, <3>2, AddTakenTypes
    <3>3. CASE AddRefused /\ overflowed' = overflowed \cup {busy[w]}
      <4>1. overflowed' \subseteq Requests
        BY <3>1, <3>3 DEF EventTypeOK
      <4> QED  BY <4>1, <3>3, AddRefusedTypes
    <3> QED  BY <2>2, <3>2, <3>3 DEF WorkerAdds
  <2> QED  BY <1>2, <2>1, <2>2 DEF Worker
<1>3. CASE ConsumerAdds
  <2>1. overflowed' = overflowed /\ overflowed \subseteq Requests
    BY <1>3 DEF ConsumerAdds, EventTypeOK
  <2>2. CASE AddTaken("kafka")
    BY <2>1, <2>2, AddTakenTypes
  <2>3. CASE AddRefused
    BY <2>1, <2>3, AddRefusedTypes
  <2> QED  BY <1>3, <2>2, <2>3 DEF ConsumerAdds
<1>4. CASE FlushConfirms \/ FlushForgets
  <2>1. PICK k \in 1..Len(outbox) : Confirm(k) \/ Forget(k)
    BY <1>4 DEF FlushConfirms, FlushForgets
  <2>2. k \in 0..Len(outbox)
    BY <2>1 DEF EventTypeOK
  <2> QED
    BY <1>4, <2>1, <2>2, RemovalTypes DEF FlushConfirms, FlushForgets
<1>5. CASE StopStopsSenders
  <2>1. Len(outbox) \in 0..Len(outbox)
    BY DEF EventTypeOK
  <2>2. CASE Confirm(Len(outbox))
    BY <1>5, <2>1, <2>2, RemovalTypes DEF StopStopsSenders
  <2>3. CASE UNCHANGED outboxVars
    BY <1>5, <2>3, EventsUntouched DEF StopStopsSenders
  <2> QED  BY <1>5, <2>2, <2>3 DEF StopStopsSenders
<1>6. CASE Starting \/ ConsumerPanics \/ StopClosesQueue
    BY <1>6, EventsUntouched
       DEF Starting, StartConsumer, StartProcessor, ConsumerPanics,
           StopClosesQueue, eventVars
<1>7. CASE StopAwaitsWorkers \/ StopFlagsProducer \/ StopClosesProducer
              \/ StopStopsConsumer \/ StopReturns
    BY <1>7, EventsUntouched
       DEF StopAwaitsWorkers, StopFlagsProducer, StopClosesProducer,
           StopStopsConsumer, StopReturns, eventVars
<1>8. CASE UNCHANGED vars
    BY <1>8, EventsUntouched DEF vars, eventVars
<1> QED
    BY <1>1, <1>2, <1>3, <1>4, <1>5, <1>6, <1>7, <1>8 DEF Next, Stopping
-----------------------------------------------------------------------------
(* The handlers keep the types and the order of production: a body reaches *)
(* the select either through the producer, or with the queue closed.       *)
ProcessInv == ProcessTypeOK /\ ClosingOrder /\ ProducedFirst

LEMMA HandlerKeepsProcess ==
    ASSUME ProcessInv, NEW r \in Requests, Handler(r)
    PROVE  ProcessInv'
<1> USE DEF ProcessInv
<1>1. request \in [Requests -> Stages] /\ \A s \in Requests :
         s # r => request'[s] = request[s]
    BY DEF Handler, Arrive, Refuse, SendChecks, SendInputs, Enqueue,
           QueueTimesOut, EnqueuePanics, ProcessTypeOK
<1>2. CASE Arrive(r) \/ Refuse(r) \/ QueueTimesOut(r) \/ EnqueuePanics(r)
  <2>1. request'[r] \in {"arrived", "refused", "full", "aborted"}
    BY <1>2 DEF Arrive, Refuse, QueueTimesOut, EnqueuePanics, ProcessTypeOK
  <2>2. UNCHANGED <<mainVars, queueVars, workerVars, producerVars, messages,
                    sendFailed>>
    BY <1>2 DEF Arrive, Refuse, QueueTimesOut, EnqueuePanics, eventVars
  <2>3. ProcessTypeOK'
    BY <1>2, <2>2 DEF ProcessTypeOK, Arrive, Refuse, QueueTimesOut,
       EnqueuePanics, Stages, mainVars, queueVars, workerVars, producerVars
  <2> QED
    BY <1>1, <2>1, <2>2, <2>3
       DEF ClosingOrder, ProducedFirst, mainVars, queueVars, producerVars
<1>3. CASE SendChecks(r)
  <2>1. ProcessTypeOK'
    BY <1>3 DEF SendChecks, ProcessTypeOK, Stages, mainVars, queueVars,
       workerVars, producerVars, eventVars
  <2>2. request'[r] = "sending" \/ (request'[r] = "queueing" /\ queueClosed')
    BY <1>3 DEF SendChecks, ProcessTypeOK, ClosingOrder, queueVars
  <2> QED
    BY <1>1, <1>3, <2>1, <2>2
       DEF SendChecks, ClosingOrder, ProducedFirst, mainVars, queueVars,
           producerVars
<1>4. CASE SendInputs(r)
  <2>1. ProcessTypeOK'
    BY <1>4 DEF SendInputs, ProcessTypeOK, Stages, mainVars, queueVars,
       workerVars, eventVars
  <2>2. request'[r] = "aborted" \/ r \in produced'
    BY <1>4 DEF SendInputs, ProcessTypeOK
  <2>3. produced \subseteq produced' /\ UNCHANGED <<mainVars, queueVars,
                                                     producerClosed>>
    BY <1>4 DEF SendInputs
  <2> QED
    BY <1>1, <2>1, <2>2, <2>3
       DEF ClosingOrder, ProducedFirst, mainVars, queueVars
<1>5. CASE Enqueue(r)
  <2>0. workQueue' \in Seq(Requests) /\ Len(workQueue') <= QueueSize
    BY <1>5, SidecarAssumption DEF Enqueue, ProcessTypeOK
  <2>1. ProcessTypeOK'
    BY <1>5, <2>0 DEF Enqueue, ProcessTypeOK, Stages, mainVars, workerVars,
       producerVars, eventVars
  <2>2. r \in produced /\ UNCHANGED <<mainVars, queueClosed, producerVars>>
    BY <1>5 DEF Enqueue, ProducedFirst
  <2> QED
    BY <1>1, <2>1, <2>2 DEF ClosingOrder, ProducedFirst, mainVars, producerVars
<1> QED
    BY <1>2, <1>3, <1>4, <1>5 DEF Handler

(* No other step moves a request or hands a body to the producer; Stop     *)
(* closes the queue before it sets the flag of the producer.               *)
LEMMA OthersKeepProcess ==
    ASSUME ProcessInv, NEW w \in Workers,
           \/ Starting \/ Worker(w) \/ ConsumerAdds \/ ConsumerPanics
           \/ FlushConfirms \/ FlushForgets \/ StopClosesQueue \/ Stopping
           \/ UNCHANGED vars
    PROVE  ProcessInv'
<1> USE DEF ProcessInv
<1>1. CASE Starting
  <2>1. ProcessTypeOK'
    BY <1>1 DEF Starting, StartConsumer, StartProcessor, ProcessTypeOK, Phases,
       queueVars, workerVars, producerVars, eventVars
  <2>2. ~queueClosed /\ ~queueClosed' /\ mainPc' \notin AfterClose
    BY <1>1 DEF Starting, StartConsumer, StartProcessor, ClosingOrder,
       AfterClose, queueVars, ProcessTypeOK
  <2>3. UNCHANGED <<request, producerVars>>
    BY <1>1 DEF Starting, StartConsumer, StartProcessor
  <2> QED
    BY <2>1, <2>2, <2>3 DEF ClosingOrder, ProducedFirst, producerVars
<1>2. CASE Worker(w)
  <2>1. ProcessTypeOK'
    <3>1. CASE WorkerTakes(w)
      <4>1. /\ Head(workQueue) \in Requests
            /\ Tail(workQueue) \in Seq(Requests)
            /\ Len(Tail(workQueue)) <= QueueSize
        BY <3>1, HeadTailProperties, SidecarAssumption
           DEF WorkerTakes, ProcessTypeOK
      <4> QED
        BY <3>1, <4>1 DEF WorkerTakes, ProcessTypeOK, mainVars, producerVars,
           eventVars
    <3>2. CASE WorkerAdds(w)
      BY <3>2 DEF WorkerAdds, ProcessTypeOK, mainVars, queueVars, producerVars
    <3>3. CASE WorkerReturns(w)
      BY <3>3 DEF WorkerReturns, ProcessTypeOK, mainVars, queueVars,
         producerVars, eventVars
    <3>4. CASE WorkerPanics(w)
      BY <3>4 DEF WorkerPanics, ProcessTypeOK, Phases, queueVars, workerVars,
         producerVars, eventVars
    <3> QED  BY <1>2, <3>1, <3>2, <3>3, <3>4 DEF Worker
  <2>2. /\ UNCHANGED <<request, queueClosed, producerVars>>
        /\ mainPc' = mainPc \/ mainPc' = "crashed"
    BY <1>2 DEF Worker, WorkerTakes, WorkerAdds, WorkerPanics, WorkerReturns,
       mainVars, queueVars
  <2> QED
    BY <2>1, <2>2 DEF ClosingOrder, ProducedFirst, producerVars
<1>3. CASE ConsumerAdds \/ FlushConfirms \/ FlushForgets \/ UNCHANGED vars
  <2>1. UNCHANGED <<mainVars, request, queueVars, workerVars, producerVars>>
    BY <1>3 DEF ConsumerAdds, FlushConfirms, FlushForgets, vars
  <2>2. messages' \in 0..MaxMessages /\ sendFailed' \in BOOLEAN
    <3>1. CASE ConsumerAdds
      <4>1. messages \in 0..MaxMessages /\ MaxMessages \in Nat
        BY SidecarAssumption DEF ProcessTypeOK
      <4>2. messages < MaxMessages /\ messages' = messages + 1
        BY <3>1 DEF ConsumerAdds
      <4>3. sendFailed' \in BOOLEAN
        BY <3>1 DEF ConsumerAdds, ProcessTypeOK
      <4> QED  BY <4>1, <4>2, <4>3
    <3>2. CASE FlushConfirms
      BY <3>2 DEF FlushConfirms, ProcessTypeOK
    <3>3. CASE FlushForgets
      BY <3>3 DEF FlushForgets, ProcessTypeOK
    <3>4. CASE UNCHANGED vars
      BY <3>4 DEF vars, eventVars, ProcessTypeOK
    <3> QED  BY <1>3, <3>1, <3>2, <3>3, <3>4
  <2> QED
    BY <2>1, <2>2 DEF ProcessTypeOK, ClosingOrder, ProducedFirst, mainVars,
       queueVars, workerVars, producerVars
<1>4. CASE StopClosesQueue
  <2>1. ProcessTypeOK'
    BY <1>4 DEF StopClosesQueue, ProcessTypeOK, Phases, workerVars,
       producerVars, eventVars
  <2> QED
    BY <1>4, <2>1 DEF StopClosesQueue, ClosingOrder, ProducedFirst, AfterClose,
       producerVars
<1>5. CASE Stopping
  <2>1. /\ mainPc \in AfterClose /\ mainPc' \in AfterClose \cup {"crashed"}
        /\ mainPc # "crashed" /\ mainPc' \in Phases /\ serving' = serving
    BY <1>5 DEF Stopping, StopAwaitsWorkers, StopStopsSenders,
       StopFlagsProducer, StopClosesProducer, StopStopsConsumer, StopReturns,
       AfterClose, Phases
  <2>2. UNCHANGED <<request, queueVars, workerVars, produced, messages>>
    BY <1>5 DEF Stopping, StopAwaitsWorkers, StopStopsSenders,
       StopFlagsProducer, StopClosesProducer, StopStopsConsumer, StopReturns,
       producerVars, eventVars
  <2>3. /\ sendFailed' \in BOOLEAN
        /\ producerClosed' \in BOOLEAN /\ inputClosed' \in BOOLEAN
    BY <1>5 DEF Stopping, StopAwaitsWorkers, StopStopsSenders,
       StopFlagsProducer, StopClosesProducer, StopStopsConsumer, StopReturns,
       producerVars, eventVars, ProcessTypeOK
  <2>4. ProcessTypeOK'
    BY <2>1, <2>2, <2>3 DEF ProcessTypeOK, queueVars, workerVars
  <2>5. queueClosed /\ queueClosed'
    BY <2>1, <2>2 DEF ClosingOrder, queueVars
  <2> QED
    BY <2>1, <2>2, <2>4, <2>5 DEF ClosingOrder, ProducedFirst
<1>6. CASE ConsumerPanics
  <2>1. messages \in 0..MaxMessages /\ MaxMessages \in Nat
    BY SidecarAssumption DEF ProcessTypeOK
  <2>2. messages' \in 0..MaxMessages
    BY <1>6, <2>1 DEF ConsumerPanics
  <2>3. ProcessTypeOK'
    BY <1>6, <2>2 DEF ConsumerPanics, ProcessTypeOK, Phases, queueVars,
       workerVars, producerVars
  <2> QED
    BY <1>6, <2>3 DEF ConsumerPanics, ClosingOrder, ProducedFirst, queueVars,
       producerVars
<1> QED
    BY <1>1, <1>2, <1>3, <1>4, <1>5, <1>6

(* So every step keeps the types of the process and the order of closing.  *)
LEMMA ProcessStep ==
    ASSUME ProcessInv, [Next]_vars
    PROVE  ProcessInv'
<1>1. CASE \E r \in Requests : Handler(r)
    BY <1>1, HandlerKeepsProcess
<1>2. PICK w \in Workers : TRUE
    BY SidecarAssumption
<1>3. CASE \E v \in Workers : Worker(v)
    BY <1>3, OthersKeepProcess
<1>4. CASE \/ Starting \/ ConsumerAdds \/ ConsumerPanics
           \/ FlushConfirms \/ FlushForgets
           \/ StopClosesQueue \/ Stopping \/ UNCHANGED vars
    BY <1>2, <1>4, OthersKeepProcess
<1> QED
    BY <1>1, <1>3, <1>4 DEF Next
-----------------------------------------------------------------------------
(* A worker leaves only an empty queue behind, and Stop goes on only when  *)
(* every worker has left.                                                  *)
LEMMA WorkersStep ==
    ASSUME ProcessInv, WorkersOutlastQueue, [Next]_vars
    PROVE  WorkersOutlastQueue'
<1> USE DEF ProcessInv
<1>1. ASSUME NEW r \in Requests, Handler(r) PROVE WorkersOutlastQueue'
  <2>1. UNCHANGED <<mainPc, busy, alive, queueClosed>>
    BY <1>1 DEF Handler, Arrive, Refuse, SendChecks, SendInputs, Enqueue,
       QueueTimesOut, EnqueuePanics, mainVars, workerVars, queueVars
  <2>2. UNCHANGED workQueue \/ ~queueClosed
    BY <1>1 DEF Handler, Arrive, Refuse, SendChecks, SendInputs, Enqueue,
       QueueTimesOut, EnqueuePanics, queueVars
  <2> QED  BY <2>1, <2>2 DEF WorkersOutlastQueue
<1>2. ASSUME NEW w \in Workers, Worker(w) PROVE WorkersOutlastQueue'
  <2>1. queueClosed' = queueClosed /\ (mainPc' = mainPc \/ mainPc' = "crashed")
    BY <1>2 DEF Worker, WorkerTakes, WorkerAdds, WorkerPanics, WorkerReturns,
       mainVars, queueVars
  <2>0. "crashed" \notin AfterWorkers
    BY DEF AfterWorkers, AfterClose
  <2>2. CASE WorkerTakes(w)
    <3>1. /\ w \in alive /\ alive' = alive /\ workQueue # <<>>
          /\ \A v \in Workers : v # w => busy'[v] = busy[v]
      BY <2>2 DEF WorkerTakes, ProcessTypeOK
    <3> QED  BY <2>0, <2>1, <3>1 DEF WorkersOutlastQueue
  <2>3. CASE WorkerAdds(w)
    <3>1. /\ alive' = alive /\ workQueue' = workQueue /\ busy'[w] = None
          /\ \A v \in Workers : v # w => busy'[v] = busy[v]
      BY <2>3 DEF WorkerAdds, ProcessTypeOK, queueVars
    <3> QED  BY <2>0, <2>1, <3>1 DEF WorkersOutlastQueue
  <2>4. CASE WorkerReturns(w)
    <3>1. /\ alive' = alive \ {w} /\ busy' = busy /\ busy[w] = None
          /\ workQueue' = workQueue /\ workQueue = <<>> /\ queueClosed
      BY <2>4 DEF WorkerReturns, queueVars
    <3>2. mainPc # "running"
      BY <3>1 DEF ClosingOrder, AfterClose
    <3> QED  BY <2>0, <2>1, <3>1, <3>2 DEF WorkersOutlastQueue
  <2>5. CASE WorkerPanics(w)
    BY <2>0, <2>5 DEF WorkerPanics, WorkersOutlastQueue, queueVars, workerVars
  <2> QED  BY <1>2, <2>2, <2>3, <2>4, <2>5 DEF Worker
<1>3. CASE Starting
  <2>1. /\ busy' = busy /\ workQueue' = workQueue
        /\ queueClosed' = queueClosed /\ ~queueClosed
        /\ mainPc' \notin AfterWorkers
    BY <1>3 DEF Starting, StartConsumer, StartProcessor, ClosingOrder,
       AfterClose, AfterWorkers, queueVars, workerVars
  <2>2. /\ \A w \in Workers : busy'[w] # None => w \in alive'
        /\ mainPc' = "running" => alive' = Workers
    BY <1>3 DEF Starting, StartConsumer, StartProcessor, WorkersOutlastQueue,
       workerVars
  <2> QED  BY <2>1, <2>2 DEF WorkersOutlastQueue
<1>4. CASE StopClosesQueue
    BY <1>4 DEF StopClosesQueue, WorkersOutlastQueue, AfterClose, AfterWorkers,
       workerVars
<1>5. CASE Stopping
  <2>1. UNCHANGED <<workQueue, queueClosed, busy, alive>>
    BY <1>5 DEF Stopping, StopAwaitsWorkers, StopStopsSenders,
       StopFlagsProducer, StopClosesProducer, StopStopsConsumer, StopReturns,
       queueVars, workerVars
  <2>2. mainPc' # "running" /\ (alive = {} \/ mainPc \in AfterWorkers)
    BY <1>5 DEF Stopping, StopAwaitsWorkers, StopStopsSenders,
       StopFlagsProducer, StopClosesProducer, StopStopsConsumer, StopReturns,
       AfterClose, AfterWorkers
  <2> QED  BY <2>1, <2>2 DEF WorkersOutlastQueue
<1>6. CASE ConsumerAdds \/ FlushConfirms \/ FlushForgets \/ UNCHANGED vars
  <2>1. UNCHANGED <<mainPc, workQueue, queueClosed, busy, alive>>
    BY <1>6 DEF ConsumerAdds, FlushConfirms, FlushForgets, vars, mainVars,
       queueVars, workerVars
  <2> QED  BY <2>1 DEF WorkersOutlastQueue
<1>7. CASE ConsumerPanics
    BY <1>7 DEF ConsumerPanics, WorkersOutlastQueue, AfterWorkers, AfterClose,
       queueVars, workerVars
<1> QED
    BY <1>1, <1>2, <1>3, <1>4, <1>5, <1>6, <1>7 DEF Next

(* An event that was offered stays offered, and an acknowledged body moves *)
(* from the queue to a worker and from the worker to the sender.           *)
LEMMA NothingDroppedStep ==
    ASSUME EventTypeOK, ProcessInv, NothingDropped, [Next]_vars
    PROVE  NothingDropped'
<1> USE DEF ProcessInv
<1>0. workQueue \in Seq(Requests) /\ origin \in Seq(Requests \cup {"kafka"})
    BY DEF ProcessTypeOK, EventTypeOK
<1>1. ASSUME UNCHANGED <<origin, overflowed, workQueue, busy>>,
             Acknowledged' \subseteq Acknowledged
      PROVE  NothingDropped'
    BY <1>1 DEF NothingDropped, Processed, Queued, InWork
<1>2. ASSUME NEW r \in Requests, Handler(r) PROVE NothingDropped'
  <2>1. CASE Enqueue(r)
    <3>1. Acknowledged' \subseteq Acknowledged \cup {r}
      BY <2>1 DEF Enqueue, Acknowledged, ProcessTypeOK
    <3>2. workQueue' = Append(workQueue, r)
      BY <2>1 DEF Enqueue
    <3>3. /\ Len(workQueue') = Len(workQueue) + 1
          /\ workQueue'[Len(workQueue) + 1] = r
          /\ \A i \in 1..Len(workQueue) : workQueue'[i] = workQueue[i]
      BY <1>0, <3>2
    <3>4. Queued \cup {r} \subseteq Queued'
      <4>1. Len(workQueue) \in Nat
        BY <1>0
      <4> QED  BY <3>3, <4>1 DEF Queued
    <3>5. Processed' = Processed /\ InWork' = InWork
      BY <2>1 DEF Enqueue, Processed, InWork, eventVars, workerVars
    <3> QED  BY <3>1, <3>4, <3>5 DEF NothingDropped
  <2>2. CASE ~Enqueue(r)
    <3>1. request'[r] # "accepted"
      BY <1>2, <2>2 DEF Handler, Arrive, Refuse, SendChecks, SendInputs,
         QueueTimesOut, EnqueuePanics, ProcessTypeOK
    <3>2. \A s \in Requests : s # r => request'[s] = request[s]
      BY <1>2, <2>2 DEF Handler, Arrive, Refuse, SendChecks, SendInputs,
         QueueTimesOut, EnqueuePanics, ProcessTypeOK
    <3>3. Acknowledged' \subseteq Acknowledged
      BY <3>1, <3>2 DEF Acknowledged
    <3>4. UNCHANGED <<origin, overflowed, workQueue, busy>>
      BY <1>2, <2>2 DEF Handler, Arrive, Refuse, SendChecks, SendInputs,
         QueueTimesOut, EnqueuePanics, queueVars, workerVars, eventVars
    <3> QED  BY <1>1, <3>3, <3>4
  <2> QED  BY <2>1, <2>2
<1>3. ASSUME NEW w \in Workers, Worker(w) PROVE NothingDropped'
  <2>1. Acknowledged' = Acknowledged
    BY <1>3 DEF Worker, WorkerTakes, WorkerAdds, WorkerPanics, WorkerReturns,
       Acknowledged
  <2>2. CASE WorkerTakes(w)
    <3>1. /\ busy[w] = None /\ workQueue # <<>> /\ workQueue' = Tail(workQueue)
          /\ busy'[w] = Head(workQueue)
          /\ \A v \in Workers : v # w => busy'[v] = busy[v]
      BY <2>2 DEF WorkerTakes, ProcessTypeOK
    <3>2. Queued \subseteq Queued' \cup {busy'[w]}
      <4> SUFFICES ASSUME NEW i \in 1..Len(workQueue)
                   PROVE  workQueue[i] \in Queued' \cup {busy'[w]}
        BY DEF Queued
      <4>1. CASE i = 1
        BY <1>0, <3>1, <4>1
      <4>2. CASE i # 1
        <5>1. /\ i - 1 \in 1..Len(workQueue')
              /\ workQueue'[i - 1] = workQueue[i]
          BY <1>0, <3>1, <4>2, HeadTailProperties
        <5> QED  BY <5>1 DEF Queued
      <4> QED  BY <4>1, <4>2
    <3>3. InWork \subseteq InWork' \cup {None} /\ busy'[w] \in InWork'
      BY <3>1 DEF InWork
    <3>4. Processed' = Processed
      BY <2>2 DEF WorkerTakes, Processed, eventVars
    <3>5. None \notin Acknowledged
      BY SidecarAssumption DEF Acknowledged
    <3> QED  BY <2>1, <3>2, <3>3, <3>4, <3>5 DEF NothingDropped
  <2>3. CASE WorkerAdds(w)
    <3>1. /\ Queued' = Queued /\ busy[w] \in Requests
          /\ busy'[w] = None
          /\ \A v \in Workers : v # w => busy'[v] = busy[v]
      BY <2>3 DEF WorkerAdds, ProcessTypeOK, Queued, queueVars
    <3>2. InWork \subseteq InWork' \cup {busy[w]}
      BY <3>1 DEF InWork
    <3>3. Processed \cup {busy[w]} \subseteq Processed'
      <4>1. CASE AddTaken(busy[w]) /\ UNCHANGED overflowed
        <5>1. /\ Len(origin') = Len(origin) + 1
              /\ origin'[Len(origin) + 1] = busy[w]
              /\ \A i \in 1..Len(origin) : origin'[i] = origin[i]
              /\ Len(origin) \in Nat
          BY <1>0, <3>1, <4>1 DEF AddTaken
        <5> QED  BY <3>1, <4>1, <5>1 DEF Processed
      <4>2. CASE AddRefused /\ overflowed' = overflowed \cup {busy[w]}
        BY <3>1, <4>2 DEF AddRefused, Processed
      <4> QED  BY <2>3, <4>1, <4>2 DEF WorkerAdds
    <3> QED  BY <2>1, <3>1, <3>2, <3>3 DEF NothingDropped
  <2>4. CASE WorkerPanics(w) \/ WorkerReturns(w)
    BY <1>1, <2>1, <2>4 DEF WorkerPanics, WorkerReturns, queueVars, workerVars,
       eventVars
  <2> QED  BY <1>3, <2>2, <2>3, <2>4 DEF Worker
<1>4. CASE ConsumerAdds
  <2>1. UNCHANGED <<request, workQueue, busy, overflowed>>
    BY <1>4 DEF ConsumerAdds, queueVars, workerVars
  <2>2. Acknowledged' = Acknowledged /\ Queued' = Queued /\ InWork' = InWork
    BY <2>1 DEF Acknowledged, Queued, InWork
  <2>3. Processed \subseteq Processed'
    <3>1. CASE AddTaken("kafka")
      <4>1. /\ Len(origin') = Len(origin) + 1 /\ Len(origin) \in Nat
            /\ \A i \in 1..Len(origin) : origin'[i] = origin[i]
        BY <1>0, <3>1 DEF AddTaken
      <4> QED  BY <2>1, <4>1 DEF Processed
    <3>2. CASE AddRefused
      BY <2>1, <3>2 DEF AddRefused, Processed
    <3> QED  BY <1>4, <3>1, <3>2 DEF ConsumerAdds
  <2> QED  BY <2>2, <2>3 DEF NothingDropped
<1>5. CASE \/ ConsumerPanics \/ FlushConfirms \/ FlushForgets
           \/ Starting \/ StopClosesQueue \/ UNCHANGED vars
    BY <1>1, <1>5 DEF ConsumerPanics, FlushConfirms, FlushForgets, Starting,
       StartConsumer, StartProcessor, StopClosesQueue, vars, queueVars,
       workerVars, eventVars, Acknowledged
<1>6. CASE Stopping
    BY <1>1, <1>6 DEF Stopping, StopAwaitsWorkers, StopStopsSenders,
       StopFlagsProducer, StopClosesProducer, StopStopsConsumer, StopReturns,
       queueVars, workerVars, eventVars, Acknowledged
<1> QED
    BY <1>2, <1>3, <1>4, <1>5, <1>6 DEF Next
-----------------------------------------------------------------------------
(* The inductive invariant.                                                *)
SidecarInv ==
    /\ EventTypeOK
    /\ ProcessInv
    /\ WorkersOutlastQueue
    /\ NothingDropped

(* It holds when the process starts.                                       *)
LEMMA SidecarInit == Init => SidecarInv
<1> SUFFICES ASSUME Init PROVE SidecarInv
    OBVIOUS
<1>1. EventTypeOK
    BY DEF Init, OutboxInit, EventTypeOK
<1>2. ProcessTypeOK
  <2>1. request \in [Requests -> Stages] /\ busy \in [Workers -> Requests \cup {None}]
    BY DEF Init, Stages
  <2>2. workQueue \in Seq(Requests) /\ Len(workQueue) <= QueueSize
    BY SidecarAssumption DEF Init
  <2>3. messages \in 0..MaxMessages
    BY SidecarAssumption DEF Init
  <2>4. mainPc \in Phases /\ {serving, queueClosed, producerClosed, inputClosed,
                             sendFailed} \subseteq BOOLEAN
    BY DEF Init, Phases
  <2> QED
    BY <2>1, <2>2, <2>3, <2>4 DEF Init, ProcessTypeOK
<1>3. ClosingOrder /\ ProducedFirst
    BY DEF Init, ClosingOrder, ProducedFirst, AfterClose
<1>4. WorkersOutlastQueue
    BY DEF Init, WorkersOutlastQueue, AfterClose, AfterWorkers
<1>5. NothingDropped
    BY DEF Init, NothingDropped, Acknowledged
<1> QED
    BY <1>1, <1>2, <1>3, <1>4, <1>5 DEF SidecarInv, ProcessInv

(* And always.                                                             *)
THEOREM SidecarInvariant == Spec => []SidecarInv
<1>1. SidecarInv /\ [Next]_vars => SidecarInv'
  <2> SUFFICES ASSUME SidecarInv, [Next]_vars PROVE SidecarInv'
    OBVIOUS
  <2>1. EventTypeOK'
    BY EventStep DEF SidecarInv, ProcessInv
  <2>2. ProcessInv'
    BY ProcessStep DEF SidecarInv
  <2>3. WorkersOutlastQueue'
    BY WorkersStep DEF SidecarInv
  <2>4. NothingDropped'
    BY NothingDroppedStep DEF SidecarInv
  <2> QED  BY <2>1, <2>2, <2>3, <2>4 DEF SidecarInv
<1> QED
    BY <1>1, SidecarInit, PTL DEF Spec

(* Every variable keeps its type; workQueue never exceeds its capacity.    *)
THEOREM SidecarTypeCorrect == Spec => []SidecarTypeOK
<1>1. SidecarInv => SidecarTypeOK
    BY TypesInTwoParts DEF SidecarInv, ProcessInv
<1> QED
    BY <1>1, SidecarInvariant, PTL

(* Once Stop goes on to the senders, every body answered with 202 has been *)
(* offered to a sender: wg.Wait of the pool leaves no worker, and a worker *)
(* leaves no body (src/worker.go).                                         *)
THEOREM ProcessedWhenAccepted == Spec => []AcceptedIsProcessed
<1>1. SidecarInv => AcceptedIsProcessed
  <2> SUFFICES ASSUME SidecarInv,
                      mainPc \in {"senders", "producer", "input", "consumer",
                                  "http", "exited"}
               PROVE  Acknowledged \subseteq Processed
    BY DEF AcceptedIsProcessed
  <2>1. mainPc \in AfterWorkers /\ mainPc \in AfterClose
    BY DEF AfterWorkers, AfterClose
  <2>2. queueClosed /\ alive = {}
    BY <2>1 DEF SidecarInv, ProcessInv, ClosingOrder, WorkersOutlastQueue
  <2>3. workQueue = <<>> /\ \A w \in Workers : busy[w] = None
    BY <2>2, SidecarAssumption DEF SidecarInv, WorkersOutlastQueue
  <2>4. Queued = {} /\ InWork \subseteq {None}
    BY <2>3 DEF Queued, InWork
  <2>5. None \notin Acknowledged
    BY SidecarAssumption DEF Acknowledged
  <2> QED  BY <2>4, <2>5 DEF SidecarInv, NothingDropped
<1> QED
    BY <1>1, SidecarInvariant, PTL

(* The bodies answered with 202 that no sender was offered yet.            *)
Unprocessed == Acknowledged \ Processed
FewAreUnprocessed ==
    /\ Unprocessed \subseteq produced
    /\ IsFiniteSet(Unprocessed)
    /\ Cardinality(Unprocessed) <= QueueSize + Cardinality(Workers)

(* What a null line (src/helper.go 29, 102) can cost those who were        *)
(* answered with 202: whenever it ends the process, at most as many bodies *)
(* as workQueue and the workers hold have not been offered to a sender,    *)
(* however many were accepted, and Kafka's producer was given each of them *)
(* (src/handler.go 134-145).                                               *)
THEOREM CrashCostsFew == Spec => []FewAreUnprocessed
<1>1. SidecarInv => FewAreUnprocessed
  <2> SUFFICES ASSUME SidecarInv PROVE FewAreUnprocessed
    OBVIOUS
  <2> DEFINE Places == 1..Len(workQueue)
  <2>1. /\ workQueue \in Seq(Requests) /\ Len(workQueue) \in Nat
        /\ Len(workQueue) <= QueueSize /\ QueueSize \in Nat
    BY LenProperties, SidecarAssumption DEF SidecarInv, ProcessInv, ProcessTypeOK
  <2>2. /\ IsFiniteSet(Places) /\ Cardinality(Places) = Len(workQueue)
    <3>1. 1 \in Int /\ Len(workQueue) \in Int
      BY <2>1
    <3>2. /\ IsFiniteSet(Places)
          /\ Cardinality(Places) =
               IF 1 > Len(workQueue) THEN 0 ELSE Len(workQueue) - 1 + 1
      BY <3>1, FS_Interval
    <3>3. QED
      BY <2>1, <3>2
  <2>3. workQueue \in Surjection(Places, Queued)
    BY <2>1, LenProperties DEF Surjection, Queued
  <2>4. IsFiniteSet(Queued) /\ Cardinality(Queued) <= Len(workQueue)
    BY <2>2, <2>3, FS_Surjection
  <2>5. busy \in Surjection(Workers, InWork)
    BY DEF SidecarInv, ProcessInv, ProcessTypeOK, Surjection, InWork
  <2>6. /\ IsFiniteSet(InWork) /\ Cardinality(InWork) <= Cardinality(Workers)
        /\ Cardinality(Workers) \in Nat
    BY <2>5, SidecarAssumption, FS_Surjection, FS_CardinalityType
  <2>7. /\ IsFiniteSet(Queued \cup InWork)
        /\ Cardinality(Queued \cup InWork) <= Len(workQueue) + Cardinality(Workers)
    <3>1. IsFiniteSet(Queued \cap InWork)
      BY <2>4, FS_Subset
    <3>2. /\ Cardinality(Queued) \in Nat /\ Cardinality(InWork) \in Nat
          /\ Cardinality(Queued \cap InWork) \in Nat
      BY <2>4, <2>6, <3>1, FS_CardinalityType
    <3>3. /\ IsFiniteSet(Queued \cup InWork)
          /\ Cardinality(Queued \cup InWork) =
               Cardinality(Queued) + Cardinality(InWork)
                 - Cardinality(Queued \cap InWork)
      BY <2>4, <2>6, FS_Union
    <3>4. QED
      BY <2>1, <2>4, <2>6, <3>2, <3>3
  <2>8. Unprocessed \subseteq Queued \cup InWork
    BY DEF SidecarInv, NothingDropped, Unprocessed
  <2>9. /\ IsFiniteSet(Unprocessed)
        /\ Cardinality(Unprocessed) <= Cardinality(Queued \cup InWork)
        /\ Cardinality(Unprocessed) \in Nat
        /\ Cardinality(Queued \cup InWork) \in Nat
    BY <2>7, <2>8, FS_Subset, FS_CardinalityType
  <2>10. Unprocessed \subseteq produced
    BY DEF SidecarInv, ProcessInv, ProducedFirst, Unprocessed, Acknowledged
  <2> QED
    BY <2>1, <2>6, <2>7, <2>9, <2>10 DEF FewAreUnprocessed
<1> QED
    BY <1>1, SidecarInvariant, PTL
-----------------------------------------------------------------------------
(* Where the events of the sender are.                                     *)
Waiting == {outbox[i] : i \in 1..Len(outbox)}

(* The phases of main after the senders have stopped.                      *)
AfterSenders == AfterWorkers \ {"senders"}

(* No event is nowhere; one is forgotten only when the collector failed;   *)
(* what enters a stopped sender comes from Kafka.                          *)
DeliveryInv ==
    /\ 1..accepted \subseteq confirmed \cup forgotten \cup Waiting
    /\ forgotten # {} => sendFailed
    /\ mainPc \in AfterSenders /\ ~sendFailed =>
           \A n \in Waiting : origin[n] = "kafka"

(* Taking the oldest events out of the outbox leaves the others.           *)
LEMMA OldestLeave ==
    ASSUME EventTypeOK, NEW k \in 0..Len(outbox), outbox' = Without(k)
    PROVE  Waiting' \subseteq Waiting /\ Waiting \subseteq Waiting' \cup Oldest(k)
<1>1. Len(outbox) \in Nat /\ outbox \in Seq(1..accepted) /\ k \in Nat
    BY DEF EventTypeOK
<1>2. outbox' = SubSeq(outbox, k + 1, Len(outbox))
    BY DEF Without
<1>3. /\ Len(outbox') = Len(outbox) - k
      /\ \A i \in 1..(Len(outbox) - k) : outbox'[i] = outbox[k + i]
    BY <1>1, <1>2
<1>4. Waiting' \subseteq Waiting
  <2> SUFFICES ASSUME NEW i \in 1..Len(outbox') PROVE outbox'[i] \in Waiting
    BY DEF Waiting
  <2>1. outbox'[i] = outbox[k + i] /\ k + i \in 1..Len(outbox)
    BY <1>1, <1>3
  <2> QED  BY <2>1 DEF Waiting
<1>5. Waiting \subseteq Waiting' \cup Oldest(k)
  <2> SUFFICES ASSUME NEW i \in 1..Len(outbox)
               PROVE  outbox[i] \in Waiting' \cup Oldest(k)
    BY DEF Waiting
  <2>1. CASE i <= k
    BY <1>1, <2>1 DEF Oldest
  <2>2. CASE i > k
    <3>1. i - k \in 1..Len(outbox') /\ outbox'[i - k] = outbox[i]
      <4>1. i - k \in 1..(Len(outbox) - k) /\ k + (i - k) = i
        BY <1>1, <2>2
      <4> QED  BY <1>3, <4>1
    <3> QED  BY <3>1 DEF Waiting
  <2> QED  BY <1>1, <2>1, <2>2
<1> QED
    BY <1>4, <1>5

(* Every step of the process keeps it.                                     *)
LEMMA DeliveryStep ==
    ASSUME SidecarInv, DeliveryInv, [Next]_vars
    PROVE  DeliveryInv'
<1> USE DEF SidecarInv, ProcessInv
<1>1. ASSUME UNCHANGED <<outboxVars, origin, sendFailed>>,
             mainPc' \in AfterSenders => mainPc \in AfterSenders
      PROVE  DeliveryInv'
    BY <1>1 DEF DeliveryInv, Waiting, outboxVars
<1>2. ASSUME NEW source \in Requests \cup {"kafka"}, AddTaken(source),
             UNCHANGED <<mainPc, sendFailed>>,
             mainPc \in AfterSenders => source = "kafka"
      PROVE  DeliveryInv'
  <2>1. /\ accepted \in Nat /\ Len(origin) = accepted
        /\ origin \in Seq(Requests \cup {"kafka"}) /\ outbox \in Seq(1..accepted)
    BY DEF EventTypeOK
  <2>2. /\ accepted' = accepted + 1 /\ outbox' = Append(outbox, accepted + 1)
        /\ origin' = Append(origin, source)
        /\ confirmed' = confirmed /\ forgotten' = forgotten
    BY <1>2 DEF AddTaken, Accept
  <2>3. /\ Len(outbox') = Len(outbox) + 1 /\ Len(outbox) \in Nat
        /\ outbox'[Len(outbox) + 1] = accepted + 1
        /\ \A i \in 1..Len(outbox) : outbox'[i] = outbox[i]
    BY <2>1, <2>2
  <2>4. Waiting' = Waiting \cup {accepted + 1}
    BY <2>3 DEF Waiting
  <2>5. \A n \in Waiting : n \in 1..accepted
    BY <2>1, ElementOfSeq DEF Waiting
  <2>6. /\ origin'[accepted + 1] = source
        /\ \A n \in 1..accepted : origin'[n] = origin[n]
    BY <2>1, <2>2
  <2>7. 1..accepted' \subseteq 1..accepted \cup {accepted + 1}
    BY <2>1, <2>2
  <2> QED  BY <1>2, <2>2, <2>4, <2>5, <2>6, <2>7 DEF DeliveryInv
<1>3. ASSUME AddRefused, UNCHANGED <<mainPc, sendFailed>> PROVE DeliveryInv'
    BY <1>3 DEF AddRefused, Reject, DeliveryInv, Waiting
<1>4. ASSUME NEW k \in 0..Len(outbox), Confirm(k), UNCHANGED <<origin, sendFailed>>,
             mainPc' \in AfterSenders => mainPc \in AfterSenders \/ k = Len(outbox)
      PROVE  DeliveryInv'
  <2>1. Waiting' \subseteq Waiting /\ Waiting \subseteq Waiting' \cup Oldest(k)
    BY <1>4, OldestLeave DEF Confirm
  <2>2. /\ accepted' = accepted /\ forgotten' = forgotten
        /\ confirmed' = confirmed \cup Oldest(k)
    BY <1>4 DEF Confirm
  <2>3. CASE k = Len(outbox)
    <3>1. Len(outbox') = 0
      BY <1>4, <2>3 DEF Confirm, Without, EventTypeOK
    <3>2. Waiting' = {}
      BY <3>1 DEF Waiting
    <3> QED  BY <1>4, <2>1, <2>2, <3>2 DEF DeliveryInv
  <2>4. CASE k # Len(outbox)
    BY <1>4, <2>1, <2>2, <2>4 DEF DeliveryInv
  <2> QED  BY <2>3, <2>4
<1>5. ASSUME NEW r \in Requests, Handler(r) PROVE DeliveryInv'
    BY <1>1, <1>5 DEF Handler, Arrive, Refuse, SendChecks, SendInputs, Enqueue,
       QueueTimesOut, EnqueuePanics, mainVars, eventVars
<1>6. ASSUME NEW w \in Workers, Worker(w) PROVE DeliveryInv'
  <2>1. CASE WorkerTakes(w) \/ WorkerPanics(w) \/ WorkerReturns(w)
    BY <1>1, <2>1 DEF WorkerTakes, WorkerPanics, WorkerReturns, mainVars,
       eventVars, AfterSenders, AfterWorkers, AfterClose
  <2>2. CASE WorkerAdds(w)
    <3>1. busy[w] \in Requests /\ busy[w] # None
      BY <2>2 DEF WorkerAdds, ProcessTypeOK
    <3>2. mainPc \notin AfterSenders
      BY <3>1 DEF WorkersOutlastQueue, AfterSenders
    <3>3. UNCHANGED <<mainPc, sendFailed>>
      BY <2>2 DEF WorkerAdds, mainVars
    <3> QED  BY <1>2, <1>3, <2>2, <3>1, <3>2, <3>3 DEF WorkerAdds
  <2> QED  BY <1>6, <2>1, <2>2 DEF Worker
<1>7. CASE ConsumerAdds
  <2>1. UNCHANGED <<mainPc, sendFailed>>
    BY <1>7 DEF ConsumerAdds, mainVars
  <2> QED  BY <1>2, <1>3, <1>7, <2>1 DEF ConsumerAdds
<1>8. CASE FlushConfirms
  <2>1. PICK k \in 1..Len(outbox) : Confirm(k)
    BY <1>8 DEF FlushConfirms
  <2>2. k \in 0..Len(outbox)
    BY <2>1 DEF EventTypeOK
  <2>3. UNCHANGED <<mainPc, origin, sendFailed>>
    BY <1>8 DEF FlushConfirms, mainVars
  <2> QED  BY <1>4, <2>1, <2>2, <2>3
<1>9. CASE FlushForgets
  <2>1. PICK k \in 1..Len(outbox) : Forget(k)
    BY <1>9 DEF FlushForgets
  <2>2. k \in 0..Len(outbox)
    BY <2>1 DEF EventTypeOK
  <2>3. Waiting \subseteq Waiting' \cup Oldest(k)
    BY <2>1, <2>2, OldestLeave DEF Forget
  <2> QED  BY <1>9, <2>1, <2>3 DEF FlushForgets, Forget, DeliveryInv
<1>10. CASE StopStopsSenders
  <2>1. Len(outbox) \in 0..Len(outbox) /\ UNCHANGED origin
    BY <1>10 DEF EventTypeOK, StopStopsSenders
  <2>2. CASE Confirm(Len(outbox)) /\ UNCHANGED sendFailed
    BY <1>4, <2>1, <2>2
  <2>3. CASE sendFailed' = TRUE /\ UNCHANGED outboxVars
    BY <2>1, <2>3 DEF DeliveryInv, Waiting, outboxVars
  <2> QED  BY <1>10, <2>2, <2>3 DEF StopStopsSenders
<1>11. CASE Starting \/ ConsumerPanics \/ StopClosesQueue \/ UNCHANGED vars
    BY <1>1, <1>11 DEF Starting, StartConsumer, StartProcessor,
       ConsumerPanics, StopClosesQueue, vars, mainVars, eventVars, AfterSenders, AfterWorkers,
       AfterClose
<1>12. CASE StopAwaitsWorkers \/ StopFlagsProducer \/ StopClosesProducer
               \/ StopStopsConsumer \/ StopReturns
    BY <1>1, <1>12 DEF StopAwaitsWorkers, StopFlagsProducer,
       StopClosesProducer, StopStopsConsumer, StopReturns, eventVars,
       AfterSenders, AfterWorkers, AfterClose
<1> QED
    BY <1>5, <1>6, <1>7, <1>8, <1>9, <1>10, <1>11, <1>12 DEF Next, Stopping

(* It holds at every moment.                                              *)
THEOREM DeliveryInvariant == Spec => []DeliveryInv
<1>1. Init => DeliveryInv
    BY DEF Init, OutboxInit, DeliveryInv, Waiting, AfterSenders, AfterWorkers,
       AfterClose
<1>2. SidecarInv /\ DeliveryInv /\ [Next]_vars => DeliveryInv'
    BY DeliveryStep
<1>3. QED
    BY <1>1, <1>2, SidecarInvariant, PTL DEF Spec

(* An exit that follows no failed request, with room in the sender for     *)
(* every body, has delivered every body answered with 202: the workers are *)
(* awaited before the senders make their last flush (src/processor.go,     *)
(* Stop).                                                                  *)
THEOREM AcceptedIsDelivered == Spec => []DeliveredAtExit
<1>1. SidecarInv /\ DeliveryInv /\ AcceptedIsProcessed => DeliveredAtExit
  <2> SUFFICES ASSUME SidecarInv, DeliveryInv, AcceptedIsProcessed,
                      mainPc = "exited", ~sendFailed,
                      NEW r \in Acknowledged \ overflowed
               PROVE  \E i \in confirmed : origin[i] = r
    BY DEF DeliveredAtExit
  <2>1. PICK i \in 1..Len(origin) : origin[i] = r
    BY DEF AcceptedIsProcessed, Processed
  <2>2. i \in confirmed \/ i \in Waiting
    BY <2>1 DEF DeliveryInv, SidecarInv, EventTypeOK
  <2>3. r # "kafka"
    BY SidecarAssumption DEF Acknowledged
  <2>4. i \notin Waiting
    BY <2>1, <2>3 DEF DeliveryInv, AfterSenders, AfterWorkers, AfterClose
  <2> QED  BY <2>1, <2>2, <2>4
<1> QED
    BY <1>1, SidecarInvariant, DeliveryInvariant, ProcessedWhenAccepted, PTL
-----------------------------------------------------------------------------
(* What is left for the workers once the queue is closed, in steps: a body *)
(* in the queue is taken and added, one in work is added, and each worker  *)
(* returns.                                                                *)
Occupied == {w \in Workers : busy[w] # None}
DrainLeft ==
    2 * Len(workQueue) + (Cardinality(Occupied) + Cardinality(alive))

DrainIsBounded ==
    queueClosed =>
        /\ DrainLeft \in 0..(2 * QueueSize + 2 * Cardinality(Workers))
        /\ DrainLeft = 0 <=> alive = {}

DrainComesCloser ==
    [][queueClosed /\ Exists' =>
          IF \E w \in Workers : Worker(w) THEN DrainLeft' < DrainLeft
                                          ELSE DrainLeft' = DrainLeft]_vars

LEMMA WorkersCounted ==
    ASSUME alive \subseteq Workers
    PROVE  /\ IsFiniteSet(alive) /\ IsFiniteSet(Occupied)
           /\ Cardinality(alive) \in 0..Cardinality(Workers)
           /\ Cardinality(Occupied) \in 0..Cardinality(Workers)
           /\ Cardinality(Workers) \in Nat
<1>1. IsFiniteSet(Workers) /\ Occupied \subseteq Workers
    BY SidecarAssumption DEF Occupied
<1>2. QED
    BY <1>1, FS_Subset, FS_CardinalityType

(* A step of a worker that the process survives.                           *)
LEMMA WorkerDrains ==
    ASSUME ProcessTypeOK, NEW w \in Workers, Worker(w), Exists'
    PROVE  DrainLeft' < DrainLeft
<1>1. /\ workQueue \in Seq(Requests) /\ Len(workQueue) \in Nat
      /\ busy \in [Workers -> Requests \cup {None}]
      /\ IsFiniteSet(alive) /\ IsFiniteSet(Occupied)
      /\ Cardinality(alive) \in Nat /\ Cardinality(Occupied) \in Nat
    BY WorkersCounted, LenProperties DEF ProcessTypeOK
<1>2. CASE WorkerTakes(w)
  <2>1. /\ workQueue # <<>> /\ workQueue' = Tail(workQueue) /\ alive' = alive
        /\ busy[w] = None /\ busy' = [busy EXCEPT ![w] = Head(workQueue)]
    BY <1>2 DEF WorkerTakes
  <2>2. /\ Len(workQueue') = Len(workQueue) - 1
        /\ Head(workQueue) \in Requests
    BY <1>1, <2>1, HeadTailProperties
  <2>3. w \notin Occupied /\ Occupied' = Occupied \cup {w}
    BY <1>1, <2>1, <2>2, SidecarAssumption DEF Occupied
  <2>4. Cardinality(Occupied') = Cardinality(Occupied) + 1
    BY <1>1, <2>3, FS_AddElement
  <2>5. QED
    BY <1>1, <2>1, <2>2, <2>4 DEF DrainLeft
<1>3. CASE WorkerAdds(w)
  <2>1. /\ workQueue' = workQueue /\ alive' = alive
        /\ w \in Occupied /\ Occupied' = Occupied \ {w}
    BY <1>1, <1>3 DEF WorkerAdds, queueVars, Occupied
  <2>2. Cardinality(Occupied') = Cardinality(Occupied) - 1
    BY <1>1, <2>1, FS_RemoveElement
  <2>3. QED
    BY <1>1, <2>1, <2>2 DEF DrainLeft
<1>4. CASE WorkerReturns(w)
  <2>1. /\ workQueue' = workQueue /\ Occupied' = Occupied
        /\ w \in alive /\ alive' = alive \ {w}
    BY <1>4 DEF WorkerReturns, queueVars, Occupied
  <2>2. Cardinality(alive') = Cardinality(alive) - 1
    BY <1>1, <2>1, FS_RemoveElement
  <2>3. QED
    BY <1>1, <2>1, <2>2 DEF DrainLeft
<1>5. QED
    BY <1>2, <1>3, <1>4 DEF Worker, WorkerPanics, Exists

(* A step of anybody else: no request gets into the closed queue.          *)
LEMMA OthersDoNotFill ==
    ASSUME ProcessInv, queueClosed, [Next]_vars, ~\E w \in Workers : Worker(w)
    PROVE  DrainLeft' = DrainLeft
<1>1. UNCHANGED <<workQueue, busy, alive>>
  <2>1. CASE \E r \in Requests : Handler(r)
    BY <2>1 DEF Handler, Arrive, Refuse, SendChecks, SendInputs, Enqueue,
                QueueTimesOut, EnqueuePanics, queueVars, workerVars
  <2>2. ~Starting /\ ~StopClosesQueue
    BY DEF ProcessInv, ClosingOrder, AfterClose, Starting, StartConsumer,
           StartProcessor, StopClosesQueue
  <2>3. CASE \/ ConsumerAdds \/ ConsumerPanics \/ FlushConfirms
             \/ FlushForgets \/ UNCHANGED vars
    BY <2>3 DEF ConsumerAdds, ConsumerPanics, FlushConfirms, FlushForgets,
                vars, queueVars, workerVars
  <2>4. CASE Stopping
    BY <2>4 DEF Stopping, StopAwaitsWorkers, StopStopsSenders,
                StopFlagsProducer, StopClosesProducer, StopStopsConsumer,
                StopReturns, queueVars, workerVars
  <2>5. QED
    BY <2>1, <2>2, <2>3, <2>4 DEF Next
<1>2. QED
    BY <1>1 DEF DrainLeft, Occupied

(* For any queue and any number of workers: wg.Wait of the pool, for which *)
(* Stop waits once it has closed the queue (src/processor.go 81-83), is    *)
(* over after at most two steps for each body in the queue and two of each *)
(* worker; nothing that handlers, senders or the consumer do meanwhile     *)
(* makes it longer, but a null line may end the process before.            *)
THEOREM DrainEnds == Spec => []DrainIsBounded /\ DrainComesCloser
<1>1. SidecarInv => DrainIsBounded
  <2> SUFFICES ASSUME SidecarInv, queueClosed
               PROVE  /\ DrainLeft \in 0..(2 * QueueSize + 2 * Cardinality(Workers))
                      /\ DrainLeft = 0 <=> alive = {}
    BY DEF DrainIsBounded
  <2>1. /\ workQueue \in Seq(Requests) /\ Len(workQueue) <= QueueSize
        /\ alive \subseteq Workers /\ Len(workQueue) \in Nat
        /\ QueueSize \in Nat
    BY LenProperties, SidecarAssumption DEF SidecarInv, ProcessInv, ProcessTypeOK
  <2>2. /\ IsFiniteSet(alive)
        /\ Cardinality(alive) \in 0..Cardinality(Workers)
        /\ Cardinality(Occupied) \in 0..Cardinality(Workers)
        /\ Cardinality(Workers) \in Nat
    BY <2>1, WorkersCounted
  <2>3. Cardinality(alive) = 0 <=> alive = {}
    BY <2>2, FS_EmptySet
  <2>4. alive = {} => Len(workQueue) = 0 /\ Cardinality(Occupied) = 0
    <3> SUFFICES ASSUME alive = {}
                 PROVE  Len(workQueue) = 0 /\ Cardinality(Occupied) = 0
      OBVIOUS
    <3>1. workQueue = <<>> /\ Occupied = {}
      BY SidecarAssumption DEF SidecarInv, WorkersOutlastQueue, Occupied
    <3>2. QED
      BY <3>1, FS_EmptySet, EmptySeq
  <2>5. DrainLeft \in 0..(2 * QueueSize + 2 * Cardinality(Workers))
    BY <2>1, <2>2 DEF DrainLeft
  <2>6. DrainLeft = 0 <=> alive = {}
    BY <2>1, <2>2, <2>3, <2>4 DEF DrainLeft
  <2>7. QED
    BY <2>5, <2>6
<1>2. SidecarInv /\ [Next]_vars
        => [queueClosed /\ Exists' =>
              IF \E w \in Workers : Worker(w) THEN DrainLeft' < DrainLeft
                                              ELSE DrainLeft' = DrainLeft]_vars
    BY WorkerDrains, OthersDoNotFill DEF SidecarInv, ProcessInv
<1>3. QED
    BY <1>1, <1>2, SidecarInvariant, PTL DEF Spec, DrainComesCloser
-----------------------------------------------------------------------------
(* What is left of the whole of Stop: the drain and the phases after it.   *)
PhasesLeft ==
    IF mainPc = "draining" THEN 6
    ELSE IF mainPc = "senders" THEN 5
    ELSE IF mainPc = "producer" THEN 4
    ELSE IF mainPc = "input" THEN 3
    ELSE IF mainPc = "consumer" THEN 2
    ELSE IF mainPc = "http" THEN 1 ELSE 0
StopLeft == IF Exists THEN DrainLeft + PhasesLeft ELSE 0

StopIsBounded ==
    queueClosed =>
        /\ StopLeft \in 0..(2 * QueueSize + 2 * Cardinality(Workers) + 6)
        /\ StopLeft = 0 <=> ~Exists

Closer ==
    queueClosed =>
        IF Stopping \/ ConsumerPanics \/ \E w \in Workers : Worker(w)
          THEN StopLeft' < StopLeft ELSE StopLeft' = StopLeft
StopComesCloser == [][Closer]_vars

(* The pool has drained before the phases after it begin.                  *)
LEMMA StopIsBoundedAlways ==
    ASSUME SidecarInv, DrainIsBounded
    PROVE  StopIsBounded
<1>1. SUFFICES ASSUME queueClosed
               PROVE  /\ StopLeft \in 0..(2 * QueueSize + 2 * Cardinality(Workers) + 6)
                      /\ StopLeft = 0 <=> ~Exists
    BY DEF StopIsBounded
<1>2. /\ DrainLeft \in 0..(2 * QueueSize + 2 * Cardinality(Workers))
      /\ DrainLeft = 0 <=> alive = {}
    BY <1>1 DEF DrainIsBounded
<1>3. Exists => mainPc \in AfterClose
    BY <1>1 DEF SidecarInv, ProcessInv, ClosingOrder, Exists
<1>4. PhasesLeft \in 0..6 /\ (Exists => PhasesLeft # 0)
    BY <1>3 DEF PhasesLeft, Exists, AfterClose
<1>5. Cardinality(Workers) \in Nat /\ QueueSize \in Nat
    BY SidecarAssumption, FS_CardinalityType
<1> HIDE DEF DrainLeft, PhasesLeft
<1>6. QED
    BY <1>2, <1>4, <1>5 DEF StopLeft

(* A phase of Stop ends, or a worker takes a step, or the process dies, or *)
(* nothing is gained and nothing lost.                                     *)
LEMMA StopStep ==
    ASSUME SidecarInv, DrainIsBounded, SidecarInv', DrainIsBounded', [Next]_vars
    PROVE  Closer
<1> SUFFICES ASSUME queueClosed
             PROVE  IF Stopping \/ ConsumerPanics \/ \E w \in Workers : Worker(w)
                      THEN StopLeft' < StopLeft ELSE StopLeft' = StopLeft
    BY DEF Closer
<1>1. queueClosed'
    BY DEF SidecarInv, ProcessInv, Next, vars, Starting, StartConsumer,
       StartProcessor, Handler, Arrive, Refuse, SendChecks, SendInputs, Enqueue,
       QueueTimesOut, EnqueuePanics, Worker, WorkerTakes, WorkerAdds,
       WorkerPanics, WorkerReturns, ConsumerAdds, ConsumerPanics,
       FlushConfirms, FlushForgets,
       StopClosesQueue, Stopping, StopAwaitsWorkers, StopStopsSenders,
       StopFlagsProducer, StopClosesProducer, StopStopsConsumer, StopReturns,
       queueVars
<1>2. Cardinality(Workers) \in Nat /\ QueueSize \in Nat
    BY SidecarAssumption, FS_CardinalityType
<1>3. PICK d \in Nat : d = DrainLeft
    BY <1>2 DEF DrainIsBounded
<1>4. PICK e \in Nat : e = DrainLeft'
    BY <1>1, <1>2 DEF DrainIsBounded
<1>5. PICK p \in Nat : p = PhasesLeft
    BY DEF PhasesLeft
<1>6. PICK q \in Nat : q = PhasesLeft'
    BY DEF PhasesLeft
<1>7. /\ StopLeft = IF Exists THEN d + p ELSE 0
      /\ StopLeft' = IF Exists' THEN e + q ELSE 0
    BY <1>3, <1>4, <1>5, <1>6 DEF StopLeft
<1>8. Exists => p > 0
  <2>1. Exists => mainPc \in AfterClose
    BY DEF SidecarInv, ProcessInv, ClosingOrder, Exists
  <2>2. QED
    BY <1>5, <2>1 DEF PhasesLeft, AfterClose, Exists
<1>9. ASSUME NEW w \in Workers, Worker(w) PROVE StopLeft' < StopLeft
  <2>1. Exists
    BY <1>9 DEF Worker, WorkerTakes, WorkerAdds, WorkerPanics, WorkerReturns
  <2>2. CASE WorkerPanics(w)
    <3>1. ~Exists'
      BY <2>2 DEF WorkerPanics, Exists
    <3>2. QED
      BY <1>7, <1>8, <2>1, <3>1
  <2>3. CASE ~WorkerPanics(w)
    <3>1. mainPc' = mainPc
      BY <1>9, <2>3 DEF Worker, WorkerTakes, WorkerAdds, WorkerReturns, mainVars
    <3>2. Exists' /\ p = q
      BY <1>5, <1>6, <2>1, <3>1 DEF PhasesLeft, Exists
    <3>3. e < d
      BY <1>3, <1>4, <1>9, <3>2, WorkerDrains DEF SidecarInv, ProcessInv
    <3>4. QED
      BY <1>7, <2>1, <3>2, <3>3
  <2>4. QED
    BY <2>2, <2>3
<1>10. ASSUME ~\E w \in Workers : Worker(w) PROVE d = e
    BY <1>3, <1>4, <1>10, OthersDoNotFill DEF SidecarInv
<1>11. CASE ConsumerPanics
  <2>1. Exists /\ ~Exists'
    BY <1>11 DEF ConsumerPanics, Consuming, Exists
  <2>2. QED
    BY <1>7, <1>8, <1>11, <2>1
<1>12. CASE Stopping /\ ~\E w \in Workers : Worker(w)
  <2>1. q < p /\ Exists
    BY <1>5, <1>6, <1>12 DEF PhasesLeft, Stopping, StopAwaitsWorkers,
       StopStopsSenders, StopFlagsProducer, StopClosesProducer,
       StopStopsConsumer, StopReturns, Exists
  <2>2. e + q < d + p /\ 0 < d + p
    BY <1>10, <1>12, <2>1
  <2>3. QED
    BY <1>7, <1>12, <2>1, <2>2
<1>13. CASE ~Stopping /\ ~ConsumerPanics /\ ~\E w \in Workers : Worker(w)
  <2>1. ~Starting /\ ~StopClosesQueue
    BY DEF SidecarInv, ProcessInv, ClosingOrder, AfterClose, Starting,
       StartConsumer, StartProcessor, StopClosesQueue
  <2>2. mainPc' = mainPc
    BY <1>13, <2>1 DEF Next, vars, Handler, Arrive, Refuse, SendChecks,
       SendInputs, Enqueue, QueueTimesOut, EnqueuePanics, ConsumerAdds,
       FlushConfirms, FlushForgets, mainVars
  <2>3. p = q /\ Exists' = Exists
    BY <1>5, <1>6, <2>2 DEF PhasesLeft, Exists
  <2>4. QED
    BY <1>7, <1>10, <1>13, <2>3
<1>14. QED
    BY <1>9, <1>11, <1>12, <1>13

(* For any queue and any number of workers: Processor.Stop as a whole      *)
(* (src/processor.go 80-106) is over after at most two steps for each body *)
(* in the queue, two of each worker and one for each of its six phases;    *)
(* no request, message or flush makes it longer, and a null line cuts it   *)
(* short.                                                                  *)
THEOREM StopEnds == Spec => []StopIsBounded /\ StopComesCloser
<1>1. SidecarInv /\ DrainIsBounded => StopIsBounded
    BY StopIsBoundedAlways
<1>2. SidecarInv /\ DrainIsBounded /\ SidecarInv' /\ DrainIsBounded' /\ [Next]_vars
        => [Closer]_vars
    BY StopStep
<1>3. QED
    BY <1>1, <1>2, SidecarInvariant, DrainEnds, PTL DEF Spec, StopComesCloser
-----------------------------------------------------------------------------
(* Where each body is: in one place, once, and nowhere before it has been  *)
(* answered with 202.                                                      *)
Waits(r) == {i \in 1..Len(workQueue) : workQueue[i] = r}
Holders(r) == {w \in Workers : busy[w] = r}

OnePlace(r) ==
    /\ \A i, j \in Waits(r) : i = j
    /\ \A v, w \in Holders(r) : v = w
    /\ \A i, j \in EventsOf(r) : i = j
    /\ Waits(r) # {} => Holders(r) = {}
    /\ Waits(r) \cup Holders(r) # {} => EventsOf(r) = {} /\ r \notin overflowed
    /\ r \in overflowed => EventsOf(r) = {}
    /\ \/ Waits(r) \cup Holders(r) \cup EventsOf(r) # {}
       \/ r \in overflowed
       => request[r] = "accepted"

(* A body gets to the producer on its way to the queue, and only there.    *)
ProducedOnTheWay(r) ==
    /\ request[r] \in {"absent", "arrived", "sending", "refused"} =>
          r \notin produced
    /\ request[r] = "full" => r \in produced

OnePlaceOnly == \A r \in Requests : OnePlace(r)
WayInv == \A r \in Requests : ProducedOnTheWay(r)

LEMMA WayStep ==
    ASSUME ProcessInv, WayInv, [Next]_vars
    PROVE  WayInv'
<1> USE DEF WayInv, ProducedOnTheWay
<1>1. ASSUME NEW r \in Requests, Handler(r) PROVE WayInv'
  <2>1. request \in [Requests -> Stages]
    BY DEF ProcessInv, ProcessTypeOK
  <2>2. CASE Arrive(r) \/ Refuse(r) \/ SendChecks(r)
    BY <2>1, <2>2 DEF Arrive, Refuse, SendChecks, producerVars
  <2>3. CASE SendInputs(r)
    BY <2>1, <2>3 DEF SendInputs
  <2>4. CASE Enqueue(r) \/ EnqueuePanics(r)
    BY <2>1, <2>4 DEF Enqueue, EnqueuePanics, producerVars
  <2>5. CASE QueueTimesOut(r)
    <3>1. r \in produced
      BY <2>5 DEF QueueTimesOut, ProcessInv, ProducedFirst
    <3>2. QED
      BY <2>1, <2>5, <3>1 DEF QueueTimesOut, producerVars
  <2>6. QED
    BY <1>1, <2>2, <2>3, <2>4, <2>5 DEF Handler
<1>2. ASSUME NEW w \in Workers, Worker(w) PROVE WayInv'
  BY <1>2 DEF Worker, WorkerTakes, WorkerAdds, WorkerPanics, WorkerReturns,
     producerVars
<1>3. CASE \/ Starting \/ ConsumerAdds \/ ConsumerPanics
           \/ FlushConfirms \/ FlushForgets
           \/ StopClosesQueue \/ UNCHANGED vars
  BY <1>3 DEF Starting, StartConsumer, StartProcessor, ConsumerAdds,
     ConsumerPanics, FlushConfirms, FlushForgets, StopClosesQueue, vars, producerVars
<1>4. CASE Stopping
  BY <1>4 DEF Stopping, StopAwaitsWorkers, StopStopsSenders,
     StopFlagsProducer, StopClosesProducer, StopStopsConsumer, StopReturns,
     producerVars
<1>5. QED
  BY <1>1, <1>2, <1>3, <1>4 DEF Next

(* A step that moves no body keeps each at its place.                      *)
LEMMA PlacesUntouched ==
    ASSUME OnePlaceOnly, UNCHANGED <<workQueue, busy, origin, overflowed>>,
           \A r \in Requests : request[r] = "accepted" => request'[r] = "accepted"
    PROVE  OnePlaceOnly'
<1>1. ASSUME NEW r \in Requests PROVE OnePlace(r)'
  <2>1. /\ Waits(r)' = Waits(r) /\ Holders(r)' = Holders(r)
        /\ EventsOf(r)' = EventsOf(r) /\ overflowed' = overflowed
    BY DEF Waits, Holders, EventsOf
  <2>2. QED
    BY <2>1 DEF OnePlaceOnly, OnePlace
<1>2. QED
  BY <1>1 DEF OnePlaceOnly

LEMMA HandlerKeepsPlaces ==
    ASSUME ProcessInv, OnePlaceOnly, NEW r \in Requests, Handler(r)
    PROVE  OnePlaceOnly'
<1>0. request \in [Requests -> Stages] /\ workQueue \in Seq(Requests)
    BY DEF ProcessInv, ProcessTypeOK
<1>1. CASE Enqueue(r)
  <2>1. /\ request[r] = "queueing" /\ workQueue' = Append(workQueue, r)
        /\ request' = [request EXCEPT ![r] = "accepted"]
        /\ UNCHANGED <<busy, origin, overflowed>>
    BY <1>1 DEF Enqueue, workerVars, eventVars
  <2>2. /\ Waits(r) = {} /\ Holders(r) = {} /\ EventsOf(r) = {}
        /\ r \notin overflowed
    BY <2>1 DEF OnePlaceOnly, OnePlace
  <2>3. /\ Len(workQueue) \in Nat /\ Len(workQueue') = Len(workQueue) + 1
        /\ workQueue'[Len(workQueue) + 1] = r
        /\ \A i \in 1..Len(workQueue) : workQueue'[i] = workQueue[i]
    BY <1>0, <2>1
  <2>4. ASSUME NEW s \in Requests PROVE OnePlace(s)'
    <3>1. Holders(s)' = Holders(s) /\ EventsOf(s)' = EventsOf(s)
      BY <2>1 DEF Holders, EventsOf
    <3>2. CASE s = r
      <4>1. Waits(s)' = {Len(workQueue) + 1}
        BY <2>2, <2>3, <3>2 DEF Waits
      <4>2. request'[s] = "accepted"
        BY <1>0, <2>1, <3>2
      <4>3. QED
        BY <2>1, <2>2, <3>1, <3>2, <4>1, <4>2 DEF OnePlace
    <3>3. CASE s # r
      <4>1. Waits(s)' = Waits(s)
        BY <2>3, <3>3 DEF Waits
      <4>2. request'[s] = request[s] /\ overflowed' = overflowed
        BY <1>0, <2>1, <3>3
      <4>3. QED
        BY <3>1, <4>1, <4>2 DEF OnePlaceOnly, OnePlace
    <3>4. QED
      BY <3>2, <3>3
  <2>5. QED
    BY <2>4 DEF OnePlaceOnly
<1>2. CASE ~Enqueue(r)
  <2>1. UNCHANGED <<workQueue, busy, origin, overflowed>>
    BY <1>2 DEF Handler, Arrive, Refuse, SendChecks, SendInputs,
       QueueTimesOut, EnqueuePanics, queueVars, workerVars, eventVars
  <2>2. request[r] # "accepted" /\ \A s \in Requests \ {r} : request'[s] = request[s]
    BY <1>0, <1>2 DEF Handler, Arrive, Refuse, SendChecks, SendInputs,
       QueueTimesOut, EnqueuePanics
  <2>3. QED
    BY <2>1, <2>2, PlacesUntouched
<1>3. QED
  BY <1>1, <1>2

LEMMA WorkerKeepsPlaces ==
    ASSUME ProcessInv, EventTypeOK, OnePlaceOnly, NEW w \in Workers, Worker(w)
    PROVE  OnePlaceOnly'
<1>0. /\ busy \in [Workers -> Requests \cup {None}]
      /\ workQueue \in Seq(Requests)
      /\ origin \in Seq(Requests \cup {"kafka"}) /\ None \notin Requests
    BY SidecarAssumption DEF ProcessInv, ProcessTypeOK, EventTypeOK
<1>1. CASE WorkerTakes(w)
  <2> DEFINE r == Head(workQueue)
  <2>1. /\ busy[w] = None /\ workQueue # <<>> /\ workQueue' = Tail(workQueue)
        /\ busy' = [busy EXCEPT ![w] = r]
        /\ UNCHANGED <<request, origin, overflowed>>
    BY <1>1 DEF WorkerTakes, eventVars
  <2>2. /\ Len(workQueue) \in Nat \ {0} /\ Len(workQueue') = Len(workQueue) - 1
        /\ r = workQueue[1] /\ r \in Requests
        /\ \A i \in 1..Len(workQueue') : workQueue'[i] = workQueue[i + 1]
    BY <1>0, <2>1, HeadTailProperties
  <2>3. ASSUME NEW s \in Requests, NEW i \in Waits(s)'
        PROVE  i \in Nat /\ i >= 1 /\ i + 1 \in Waits(s)
    BY <2>2, <2>3 DEF Waits
  <2>4. 1 \in Waits(r)
    BY <2>2 DEF Waits
  <2> HIDE DEF r
  <2>5. ASSUME NEW s \in Requests PROVE OnePlace(s)'
    <3>1. EventsOf(s)' = EventsOf(s) /\ UNCHANGED <<request, overflowed>>
      BY <2>1 DEF EventsOf
    <3>2. \A i, j \in Waits(s)' : i = j
      <4> SUFFICES ASSUME NEW i \in Waits(s)', NEW j \in Waits(s)' PROVE i = j
        OBVIOUS
      <4>1. i + 1 = j + 1 /\ i \in Nat /\ j \in Nat
        BY <2>3 DEF OnePlaceOnly, OnePlace
      <4>2. QED
        BY <4>1
    <3>3. CASE s = r
      <4>1. Waits(s)' = {}
        <5> SUFFICES ASSUME NEW i \in Waits(s)' PROVE FALSE
          OBVIOUS
        <5>1. i + 1 = 1 /\ i \in Nat /\ i >= 1
          BY <2>3, <2>4, <3>3 DEF OnePlaceOnly, OnePlace
        <5>2. QED
          BY <5>1
      <4>2. Holders(s) = {} /\ Holders(s)' = {w}
        BY <1>0, <2>1, <2>4, <3>3 DEF OnePlaceOnly, OnePlace, Holders
      <4>3. /\ EventsOf(s) = {} /\ s \notin overflowed
            /\ request[s] = "accepted"
        BY <2>4, <3>3 DEF OnePlaceOnly, OnePlace
      <4>4. QED
        BY <3>1, <4>1, <4>2, <4>3 DEF OnePlace
    <3>4. CASE s # r
      <4>1. Holders(s)' = Holders(s)
        BY <1>0, <2>1, <3>4 DEF Holders
      <4>2. Waits(s)' # {} => Waits(s) # {}
        BY <2>3
      <4>3. QED
        BY <3>1, <3>2, <4>1, <4>2 DEF OnePlaceOnly, OnePlace
    <3>5. QED
      BY <3>3, <3>4
  <2>6. QED
    BY <2>5 DEF OnePlaceOnly
<1>2. CASE WorkerAdds(w)
  <2> DEFINE r == busy[w]
  <2>1. /\ r \in Requests /\ busy' = [busy EXCEPT ![w] = None]
        /\ UNCHANGED <<request, workQueue>>
    BY <1>0, <1>2 DEF WorkerAdds, queueVars
  <2>2. w \in Holders(r)
    BY DEF Holders
  <2>3. /\ Waits(r) = {} /\ EventsOf(r) = {} /\ r \notin overflowed
        /\ request[r] = "accepted" /\ \A v \in Holders(r) : v = w
    BY <2>1, <2>2 DEF OnePlaceOnly, OnePlace
  <2>4. \/ /\ origin' = Append(origin, r) /\ overflowed' = overflowed
        \/ /\ origin' = origin /\ overflowed' = overflowed \cup {r}
    BY <1>2 DEF WorkerAdds, AddTaken, AddRefused
  <2> HIDE DEF r
  <2>5. ASSUME NEW s \in Requests PROVE OnePlace(s)'
    <3>1. Waits(s)' = Waits(s) /\ request'[s] = request[s]
      BY <2>1 DEF Waits
    <3>2. CASE s = r
      <4>1. Holders(s)' = {}
        BY <1>0, <2>1, <2>3, <3>2 DEF Holders
      <4>2. CASE origin' = Append(origin, r) /\ overflowed' = overflowed
        <5>1. /\ Len(origin) \in Nat /\ Len(origin') = Len(origin) + 1
              /\ origin'[Len(origin) + 1] = r
              /\ \A i \in 1..Len(origin) : origin'[i] = origin[i]
          BY <1>0, <2>1, <4>2
        <5>2. EventsOf(s)' = {Len(origin) + 1}
          BY <2>3, <3>2, <5>1 DEF EventsOf
        <5>3. QED
          BY <2>3, <3>1, <3>2, <4>1, <4>2, <5>2 DEF OnePlace
      <4>3. CASE origin' = origin /\ overflowed' = overflowed \cup {r}
        <5>1. EventsOf(s)' = {}
          BY <2>3, <3>2, <4>3 DEF EventsOf
        <5>2. QED
          BY <2>3, <3>1, <3>2, <4>1, <4>3, <5>1 DEF OnePlace
      <4>4. QED
        BY <2>4, <4>2, <4>3
    <3>3. CASE s # r
      <4>1. Holders(s)' = Holders(s)
        BY <1>0, <2>1, <3>3 DEF Holders, r
      <4>2. EventsOf(s)' = EventsOf(s)
        <5>1. CASE origin' = Append(origin, r)
          <6>1. /\ Len(origin) \in Nat /\ Len(origin') = Len(origin) + 1
                /\ origin'[Len(origin) + 1] = r
                /\ \A i \in 1..Len(origin) : origin'[i] = origin[i]
            BY <1>0, <2>1, <5>1
          <6>2. QED
            BY <3>3, <6>1 DEF EventsOf
        <5>2. CASE origin' = origin
          BY <5>2 DEF EventsOf
        <5>3. QED
          BY <2>4, <5>1, <5>2
      <4>3. s \in overflowed' <=> s \in overflowed
        BY <2>4, <3>3
      <4>4. QED
        BY <3>1, <4>1, <4>2, <4>3 DEF OnePlaceOnly, OnePlace
    <3>4. QED
      BY <3>2, <3>3
  <2>6. QED
    BY <2>5 DEF OnePlaceOnly
<1>3. CASE WorkerPanics(w) \/ WorkerReturns(w)
  BY <1>3, PlacesUntouched DEF WorkerPanics, WorkerReturns, queueVars,
     workerVars, eventVars
<1>4. QED
  BY <1>1, <1>2, <1>3 DEF Worker

LEMMA OthersKeepPlaces ==
    ASSUME ProcessInv, EventTypeOK, OnePlaceOnly,
           \/ Starting \/ ConsumerAdds \/ ConsumerPanics
           \/ FlushConfirms \/ FlushForgets
           \/ StopClosesQueue \/ Stopping \/ UNCHANGED vars
    PROVE  OnePlaceOnly'
<1>1. CASE ConsumerAdds
  <2>1. UNCHANGED <<request, workQueue, busy, overflowed>>
    BY <1>1 DEF ConsumerAdds, queueVars, workerVars
  <2>2. ASSUME NEW s \in Requests PROVE EventsOf(s)' = EventsOf(s)
    <3>1. CASE AddTaken("kafka")
      <4>1. /\ Len(origin) \in Nat /\ Len(origin') = Len(origin) + 1
            /\ origin'[Len(origin) + 1] = "kafka"
            /\ \A i \in 1..Len(origin) : origin'[i] = origin[i]
        BY <3>1 DEF AddTaken, EventTypeOK
      <4>2. s # "kafka"
        BY SidecarAssumption
      <4>3. QED
        BY <4>1, <4>2 DEF EventsOf
    <3>2. CASE AddRefused
      BY <3>2 DEF AddRefused, EventsOf
    <3>3. QED
      BY <1>1, <3>1, <3>2 DEF ConsumerAdds
  <2>3. ASSUME NEW s \in Requests PROVE OnePlace(s)'
    <3>1. Waits(s)' = Waits(s) /\ Holders(s)' = Holders(s)
      BY <2>1 DEF Waits, Holders
    <3>2. QED
      BY <2>1, <2>2, <3>1 DEF OnePlaceOnly, OnePlace
  <2>4. QED
    BY <2>3 DEF OnePlaceOnly
<1>2. CASE \/ Starting \/ ConsumerPanics \/ FlushConfirms \/ FlushForgets
           \/ StopClosesQueue \/ UNCHANGED vars
  BY <1>2, PlacesUntouched
     DEF Starting, StartConsumer, StartProcessor, ConsumerPanics,
         FlushConfirms, FlushForgets,
         StopClosesQueue, vars, queueVars, workerVars, eventVars
<1>3. CASE Stopping
  BY <1>3, PlacesUntouched
     DEF Stopping, StopAwaitsWorkers, StopStopsSenders, StopFlagsProducer,
         StopClosesProducer, StopStopsConsumer, StopReturns, queueVars,
         workerVars, eventVars
<1>4. QED
  BY <1>1, <1>2, <1>3

(* Both hold at every moment.                                              *)
THEOREM PlacesInvariant == Spec => [](WayInv /\ OnePlaceOnly)
<1>1. Init => WayInv /\ OnePlaceOnly
  <2> SUFFICES ASSUME Init, NEW r \in Requests
               PROVE  ProducedOnTheWay(r) /\ OnePlace(r)
    BY DEF WayInv, OnePlaceOnly
  <2>1. Waits(r) = {} /\ Holders(r) = {} /\ EventsOf(r) = {}
    BY SidecarAssumption DEF Init, Waits, Holders, EventsOf
  <2>2. QED
    BY <2>1 DEF Init, ProducedOnTheWay, OnePlace
<1>2. SidecarInv /\ WayInv /\ OnePlaceOnly /\ [Next]_vars
        => WayInv' /\ OnePlaceOnly'
  <2> SUFFICES ASSUME SidecarInv, WayInv, OnePlaceOnly, [Next]_vars
               PROVE  WayInv' /\ OnePlaceOnly'
    OBVIOUS
  <2>1. ProcessInv /\ EventTypeOK
    BY DEF SidecarInv
  <2>2. WayInv'
    BY <2>1, WayStep
  <2>3. OnePlaceOnly'
    BY <2>1, HandlerKeepsPlaces, WorkerKeepsPlaces, OthersKeepPlaces DEF Next
  <2>4. QED
    BY <2>2, <2>3
<1>3. QED
  BY <1>1, <1>2, SidecarInvariant, PTL DEF Spec

(* What the answer to a POST says of its body (src/handler.go 134-149), at *)
(* every moment and whatever Stop does meanwhile.                          *)
THEOREM AnswersAreTrue == Spec => []AnswersHold
<1>1. SidecarInv /\ WayInv /\ OnePlaceOnly => AnswersHold
  <2> SUFFICES ASSUME SidecarInv, WayInv, OnePlaceOnly, NEW r \in Requests
               PROVE  /\ request[r] \in {"accepted", "full"} => r \in produced
                      /\ request[r] = "refused" => r \notin produced
                      /\ r \in Processed => request[r] = "accepted"
                      /\ \A i, j \in EventsOf(r) : i = j
                      /\ r \in overflowed => EventsOf(r) = {}
    BY DEF AnswersHold
  <2>1. request[r] \in {"accepted", "full"} => r \in produced
    BY DEF SidecarInv, ProcessInv, ProducedFirst, WayInv, ProducedOnTheWay
  <2>2. request[r] = "refused" => r \notin produced
    BY DEF WayInv, ProducedOnTheWay
  <2>3. r \in Processed => EventsOf(r) # {} \/ r \in overflowed
    BY DEF Processed, EventsOf
  <2>4. QED
    BY <2>1, <2>2, <2>3 DEF OnePlaceOnly, OnePlace
<1>2. QED
  BY <1>1, SidecarInvariant, PlacesInvariant, PTL
-----------------------------------------------------------------------------
(* An event is waiting, confirmed or forgotten, and never two of them.     *)
Apart ==
    /\ \A i, j \in 1..Len(outbox) : outbox[i] = outbox[j] => i = j
    /\ Waiting \cap (confirmed \cup forgotten) = {}
    /\ confirmed \cap forgotten = {}

(* The oldest events of the outbox are waiting, and the others stay apart. *)
LEMMA OldestApart ==
    ASSUME EventTypeOK, Apart, NEW k \in 0..Len(outbox), outbox' = Without(k)
    PROVE  /\ Oldest(k) \subseteq Waiting /\ Waiting' \subseteq Waiting \ Oldest(k)
           /\ \A i, j \in 1..Len(outbox') : outbox'[i] = outbox'[j] => i = j
<1>1. Len(outbox) \in Nat /\ outbox \in Seq(1..accepted) /\ k \in Nat
    BY DEF EventTypeOK
<1>2. /\ Len(outbox') = Len(outbox) - k
      /\ \A i \in 1..(Len(outbox) - k) : outbox'[i] = outbox[k + i]
    BY <1>1 DEF Without
<1>3. Oldest(k) \subseteq Waiting
    BY <1>1 DEF Oldest, Waiting
<1>4. ASSUME NEW i \in 1..Len(outbox')
      PROVE  outbox'[i] \in Waiting \ Oldest(k)
  <2>1. outbox'[i] = outbox[k + i] /\ k + i \in 1..Len(outbox) /\ i \in Nat \ {0}
    BY <1>1, <1>2
  <2>2. ASSUME NEW j \in 1..k, outbox[k + i] = outbox[j] PROVE FALSE
    <3>1. j \in 1..Len(outbox) /\ j \in Nat /\ j <= k
      BY <1>1
    <3>2. k + i = j
      BY <2>1, <2>2, <3>1 DEF Apart
    <3>3. QED
      BY <1>1, <2>1, <3>1, <3>2
  <2>3. QED
    BY <2>1, <2>2 DEF Waiting, Oldest
<1>5. ASSUME NEW i \in 1..Len(outbox'), NEW j \in 1..Len(outbox'),
             outbox'[i] = outbox'[j]
      PROVE  i = j
  <2>1. /\ outbox'[i] = outbox[k + i] /\ k + i \in 1..Len(outbox)
        /\ outbox'[j] = outbox[k + j] /\ k + j \in 1..Len(outbox)
    BY <1>1, <1>2
  <2>2. k + i = k + j
    BY <1>5, <2>1 DEF Apart
  <2>3. QED
    BY <1>1, <1>2, <2>2
<1>6. QED
    BY <1>3, <1>4, <1>5 DEF Waiting

(* A new event has a new number.                                           *)
LEMMA NewestApart ==
    ASSUME EventTypeOK, Apart, NEW source, AddTaken(source)
    PROVE  /\ Apart'
           /\ accepted + 1 \notin confirmed \cup forgotten \cup Waiting
<1>1. /\ accepted \in Nat /\ outbox \in Seq(1..accepted)
      /\ confirmed \subseteq 1..accepted /\ forgotten \subseteq 1..accepted
    BY DEF EventTypeOK
<1>2. /\ outbox' = Append(outbox, accepted + 1)
      /\ confirmed' = confirmed /\ forgotten' = forgotten
    BY DEF AddTaken, Accept
<1>3. /\ Len(outbox) \in Nat /\ Len(outbox') = Len(outbox) + 1
      /\ outbox'[Len(outbox) + 1] = accepted + 1
      /\ \A i \in 1..Len(outbox) : outbox'[i] = outbox[i]
    BY <1>1, <1>2
<1>4. \A i \in 1..Len(outbox) : outbox[i] \in 1..accepted
    BY <1>1, ElementOfSeq
<1>5. accepted + 1 \notin 1..accepted
    BY <1>1
<1>6. Waiting \subseteq 1..accepted /\ Waiting' = Waiting \cup {accepted + 1}
    BY <1>3, <1>4 DEF Waiting
<1>7. \A i \in 1..Len(outbox) : outbox[i] # accepted + 1
    BY <1>4, <1>5
<1>8. 1..Len(outbox') = 1..Len(outbox) \cup {Len(outbox) + 1}
    BY <1>3
<1>9. \A i, j \in 1..Len(outbox') : outbox'[i] = outbox'[j] => i = j
    BY <1>3, <1>7, <1>8 DEF Apart
<1>10. QED
    BY <1>1, <1>2, <1>5, <1>6, <1>9 DEF Apart

LEMMA ApartStep ==
    ASSUME EventTypeOK, Apart, [Next]_vars
    PROVE  Apart'
<1>1. ASSUME UNCHANGED <<outbox, confirmed, forgotten>> PROVE Apart'
    BY <1>1 DEF Apart, Waiting
<1>2. ASSUME AddRefused PROVE Apart'
    BY <1>1, <1>2 DEF AddRefused, Reject
<1>3. ASSUME NEW k \in 0..Len(outbox), Confirm(k) \/ Forget(k) PROVE Apart'
  <2>1. outbox' = Without(k)
    BY <1>3 DEF Confirm, Forget
  <2>2. /\ Oldest(k) \subseteq Waiting /\ Waiting' \subseteq Waiting \ Oldest(k)
        /\ \A i, j \in 1..Len(outbox') : outbox'[i] = outbox'[j] => i = j
    BY <2>1, OldestApart
  <2>3. QED
    BY <1>3, <2>2 DEF Confirm, Forget, Apart
<1>4. ASSUME NEW r \in Requests, Handler(r) PROVE Apart'
    BY <1>1, <1>4
       DEF Handler, Arrive, Refuse, SendChecks, SendInputs, Enqueue,
           QueueTimesOut, EnqueuePanics, eventVars, outboxVars
<1>5. ASSUME NEW w \in Workers, Worker(w) PROVE Apart'
  <2>1. CASE WorkerAdds(w)
    BY <1>2, <2>1, NewestApart DEF WorkerAdds
  <2>2. CASE WorkerTakes(w) \/ WorkerPanics(w) \/ WorkerReturns(w)
    BY <1>1, <2>2 DEF WorkerTakes, WorkerPanics, WorkerReturns, eventVars,
       outboxVars
  <2>3. QED
    BY <1>5, <2>1, <2>2 DEF Worker
<1>6. CASE ConsumerAdds
    BY <1>2, <1>6, NewestApart DEF ConsumerAdds
<1>7. CASE FlushConfirms \/ FlushForgets
  <2>1. PICK k \in 1..Len(outbox) : Confirm(k) \/ Forget(k)
    BY <1>7 DEF FlushConfirms, FlushForgets
  <2>2. k \in 0..Len(outbox)
    BY DEF EventTypeOK
  <2>3. QED
    BY <1>3, <2>1, <2>2
<1>8. CASE StopStopsSenders
  <2>1. Len(outbox) \in 0..Len(outbox)
    BY DEF EventTypeOK
  <2>2. CASE Confirm(Len(outbox))
    BY <1>3, <2>1, <2>2
  <2>3. CASE UNCHANGED outboxVars
    BY <1>1, <2>3 DEF outboxVars
  <2>4. QED
    BY <1>8, <2>2, <2>3 DEF StopStopsSenders
<1>9. CASE Starting \/ ConsumerPanics \/ StopClosesQueue \/ UNCHANGED vars
    BY <1>1, <1>9 DEF Starting, StartConsumer, StartProcessor,
       ConsumerPanics, StopClosesQueue, vars, eventVars, outboxVars
<1>10. CASE \/ StopAwaitsWorkers \/ StopFlagsProducer \/ StopClosesProducer
            \/ StopStopsConsumer \/ StopReturns
    BY <1>1, <1>10 DEF StopAwaitsWorkers, StopFlagsProducer,
       StopClosesProducer, StopStopsConsumer, StopReturns, eventVars, outboxVars
<1>11. QED
    BY <1>4, <1>5, <1>6, <1>7, <1>8, <1>9, <1>10 DEF Next, Stopping
-----------------------------------------------------------------------------
(* All that the mapping needs.                                             *)
PromiseInv == SidecarInv /\ DeliveryInv /\ WayInv /\ OnePlaceOnly /\ Apart

(* It holds at every moment.                                              *)
THEOREM PromiseInvariant == Spec => []PromiseInv
<1>1. Init => Apart
    BY DEF Init, OutboxInit, Apart, Waiting
<1>2. SidecarInv /\ Apart /\ [Next]_vars => Apart'
    BY ApartStep DEF SidecarInv
<1>3. QED
    BY <1>1, <1>2, SidecarInvariant, DeliveryInvariant, PlacesInvariant, PTL
       DEF Spec, PromiseInv

(* The fate of a body that a step does not touch.                          *)
LEMMA FateStays ==
    ASSUME NEW r \in Requests, request'[r] = request[r],
           r \in produced' <=> r \in produced,
           EventsOf(r)' = EventsOf(r), r \in overflowed' <=> r \in overflowed,
           EventsOf(r) \cap confirmed' = EventsOf(r) \cap confirmed,
           EventsOf(r) \cap forgotten' = EventsOf(r) \cap forgotten
    PROVE  Fate(r)' = Fate(r)
<1>1. AcceptedFate(r)' = AcceptedFate(r)
  <2>1. /\ EventsOf(r)' \cap confirmed' = EventsOf(r) \cap confirmed
        /\ EventsOf(r)' \cap forgotten' = EventsOf(r) \cap forgotten
    OBVIOUS
  <2>2. QED
    BY <2>1 DEF AcceptedFate
<1>2. QED
    BY <1>1 DEF Fate

(* A step that leaves answers, the producer and the events alone leaves    *)
(* every fate as it was.                                                   *)
LEMMA FatesStay ==
    ASSUME UNCHANGED <<request, produced, origin, overflowed, confirmed, forgotten>>
    PROVE  \A r \in Requests : Fate(r)' = Fate(r)
<1>1. ASSUME NEW r \in Requests PROVE Fate(r)' = Fate(r)
  <2>1. EventsOf(r)' = EventsOf(r)
    BY DEF EventsOf
  <2>2. QED
    BY <2>1, FateStays
<1>2. QED
    BY <1>1

(* Where all but some fates stay, those become what Ingest says.           *)
LEMMA Becomes ==
    ASSUME NEW S \in SUBSET Requests, NEW what,
           \A r \in S : Fate(r)' = what,
           \A r \in Requests \ S : Fate(r)' = Fate(r)
    PROVE  Promise!Become(S, what)
BY DEF Promise!Become

LEMMA BecomesOne ==
    ASSUME NEW r \in Requests, NEW what, Fate(r)' = what,
           \A s \in Requests \ {r} : Fate(s)' = Fate(s)
    PROVE  Promise!Become({r}, what)
BY Becomes

LEMMA NothingBecomes ==
    ASSUME \A r \in Requests : Fate(r)' = Fate(r)
    PROVE  [r \in Requests |-> Fate(r)]' = [r \in Requests |-> Fate(r)]
OBVIOUS

(* Before the 202 a body has no event; after it the producer has it.       *)
LEMMA FateOfOpen ==
    ASSUME PromiseInv, NEW r \in Requests
    PROVE  /\ request[r] \in {"absent", "arrived", "sending", "queueing"} =>
                 Fate(r) = IF r \in produced THEN "copied" ELSE "open"
           /\ request[r] \in {"refused", "full", "aborted"} =>
                 Fate(r) = IF r \in produced THEN "kafkaonly" ELSE "nowhere"
           /\ request[r] \in {"absent", "arrived", "sending"} => r \notin produced
BY DEF Fate, PromiseInv, WayInv, ProducedOnTheWay

(* The phase of the promise, where Stop is.                                *)
LEMMA PhaseOf ==
    ASSUME PromiseInv
    PROVE  /\ PromisePhase = "taking" <=> Exists /\ ~queueClosed
           /\ PromisePhase = "closed" <=> mainPc = "draining"
           /\ PromisePhase = "drained" <=>
                 mainPc \in {"senders", "producer", "input", "consumer", "http"}
           /\ PromisePhase = "exited" <=> mainPc = "exited"
           /\ PromisePhase = "crashed" <=> mainPc = "crashed"
           /\ Exists <=> PromisePhase \in {"taking", "closed", "drained"}
           /\ mainPc # "crashed" => (queueClosed <=> mainPc \in AfterClose)
<1>1. mainPc # "crashed" => (queueClosed <=> mainPc \in AfterClose)
    BY DEF PromiseInv, SidecarInv, ProcessInv, ClosingOrder
<1>2. QED
    BY <1>1 DEF PromisePhase, AfterClose, Exists

(* A handler answers one body, and each answer is one of the promise's.    *)
LEMMA HandlerKeepsPromise ==
    ASSUME PromiseInv, NEW r \in Requests, Handler(r)
    PROVE  Promise!IngestNext \/ UNCHANGED Promise!ingestVars
<1>0. /\ request \in [Requests -> Stages]
      /\ PromisePhase' = PromisePhase /\ sendFailed' = sendFailed
      /\ UNCHANGED <<origin, overflowed, confirmed, forgotten>>
  <2>1. request \in [Requests -> Stages]
    BY DEF PromiseInv, SidecarInv, ProcessInv, ProcessTypeOK
  <2>2. UNCHANGED <<mainPc, queueClosed, sendFailed, origin, overflowed,
                    confirmed, forgotten>>
    BY DEF Handler, Arrive, Refuse, SendChecks, SendInputs, Enqueue,
       QueueTimesOut, EnqueuePanics, mainVars, queueVars, eventVars, outboxVars
  <2>3. QED
    BY <2>1, <2>2 DEF PromisePhase, Exists
<1>1. ASSUME NEW s \in Requests \ {r} PROVE Fate(s)' = Fate(s)
  <2>1. request'[s] = request[s] /\ (s \in produced' <=> s \in produced)
    BY <1>0 DEF Handler, Arrive, Refuse, SendChecks, SendInputs, Enqueue,
       QueueTimesOut, EnqueuePanics, producerVars
  <2>2. EventsOf(s)' = EventsOf(s)
    BY <1>0 DEF EventsOf
  <2>3. QED
    BY <1>0, <2>1, <2>2, FateStays
<1>2. PromisePhase \in {"taking", "closed", "drained"}
  <2>1. Exists
    BY DEF Handler, Arrive, Refuse, SendChecks, SendInputs, Enqueue,
       QueueTimesOut, EnqueuePanics
  <2>2. QED
    BY <2>1, PhaseOf
<1>3. ASSUME Fate(r)' = Fate(r) PROVE UNCHANGED Promise!ingestVars
  <2>1. \A s \in Requests : Fate(s)' = Fate(s)
    BY <1>1, <1>3
  <2>2. QED
    BY <1>0, <2>1, NothingBecomes DEF Promise!ingestVars
<1>4. ASSUME Fate(r) = "open", Fate(r)' = "nowhere" PROVE Promise!TurnAway(r)
    BY <1>0, <1>1, <1>2, <1>4, BecomesOne DEF Promise!TurnAway, Promise!Running
<1>5. ASSUME Fate(r) = "copied", Fate(r)' = "kafkaonly" PROVE Promise!TurnAway(r)
    BY <1>0, <1>1, <1>2, <1>5, BecomesOne DEF Promise!TurnAway, Promise!Running
<1>6. ASSUME Fate(r) = "open", Fate(r)' = "copied" PROVE Promise!Copy(r)
    BY <1>0, <1>1, <1>2, <1>6, BecomesOne DEF Promise!Copy, Promise!Running
<1>7. CASE Arrive(r) \/ SendChecks(r)
  <2>1. /\ request[r] \in {"absent", "arrived"}
        /\ request'[r] \in {"arrived", "sending", "queueing"}
        /\ r \notin produced /\ produced' = produced
    BY <1>0, <1>7, FateOfOpen DEF Arrive, SendChecks, producerVars
  <2>2. Fate(r) = "open" /\ Fate(r)' = "open"
    BY <2>1 DEF Fate
  <2>3. QED
    BY <1>3, <2>2
<1>8. CASE Refuse(r)
  <2>1. /\ request[r] = "arrived" /\ request'[r] = "refused"
        /\ r \notin produced /\ produced' = produced
    BY <1>0, <1>8, FateOfOpen DEF Refuse, producerVars
  <2>2. Fate(r) = "open" /\ Fate(r)' = "nowhere"
    BY <2>1 DEF Fate
  <2>3. QED
    BY <1>4, <2>2 DEF Promise!IngestNext
<1>9. CASE SendInputs(r)
  <2>1. request[r] = "sending" /\ r \notin produced /\ Fate(r) = "open"
    BY <1>9, FateOfOpen DEF SendInputs
  <2>2. \/ request'[r] = "aborted" /\ r \notin produced'
        \/ request'[r] = "queueing" /\ r \in produced'
    BY <1>0, <1>9, <2>1 DEF SendInputs
  <2>3. Fate(r)' \in {"nowhere", "copied"}
    BY <2>2 DEF Fate
  <2>4. QED
    BY <1>4, <1>6, <2>1, <2>3 DEF Promise!IngestNext
<1>10. CASE QueueTimesOut(r) \/ EnqueuePanics(r)
  <2>1. /\ request[r] = "queueing" /\ request'[r] \in {"full", "aborted"}
        /\ produced' = produced
    BY <1>0, <1>10 DEF QueueTimesOut, EnqueuePanics, producerVars
  <2>2. \/ Fate(r) = "copied" /\ Fate(r)' = "kafkaonly"
        \/ Fate(r) = "open" /\ Fate(r)' = "nowhere"
    BY <2>1 DEF Fate
  <2>3. QED
    BY <1>4, <1>5, <2>2 DEF Promise!IngestNext
<1>11. CASE Enqueue(r)
  <2>1. /\ request[r] = "queueing" /\ request'[r] = "accepted"
        /\ Exists /\ ~queueClosed /\ produced' = produced
    BY <1>0, <1>11 DEF Enqueue, producerVars
  <2>2. r \in produced /\ EventsOf(r) = {} /\ r \notin overflowed
    BY <2>1 DEF PromiseInv, SidecarInv, ProcessInv, ProducedFirst,
                OnePlaceOnly, OnePlace
  <2>3. Fate(r) = "copied"
    BY <2>1, <2>2 DEF Fate
  <2>4. EventsOf(r)' = {} /\ r \notin overflowed'
    BY <1>0, <2>2 DEF EventsOf
  <2>5. AcceptedFate(r)' = "accepted"
    BY <2>4 DEF AcceptedFate
  <2>6. Fate(r)' = "accepted"
    BY <2>1, <2>5 DEF Fate
  <2>7. PromisePhase = "taking"
    BY <2>1, PhaseOf
  <2>8. Promise!Welcome(r)
    BY <1>0, <1>1, <2>3, <2>6, <2>7, BecomesOne DEF Promise!Welcome
  <2>9. QED
    BY <2>8 DEF Promise!IngestNext
<1>12. QED
    BY <1>3, <1>7, <1>8, <1>9, <1>10, <1>11 DEF Handler

(* A panic that nothing recovers changes no fate: the process Dies.        *)
LEMMA DyingKeepsPromise ==
    ASSUME PromiseInv, Exists, mainPc' = "crashed",
           UNCHANGED <<request, produced, origin, overflowed, confirmed,
                       forgotten, sendFailed>>
    PROVE  Promise!IngestNext
<1>1. PromisePhase \in {"taking", "closed", "drained"}
    BY PhaseOf
<1>2. PromisePhase' = "crashed"
    BY DEF PromisePhase, Exists
<1>3. Promise!Die
    BY <1>1, <1>2, FatesStay, NothingBecomes DEF Promise!Die, Promise!Running
<1>4. QED
    BY <1>3 DEF Promise!IngestNext

(* A worker offers an accepted body to the sender, which is the promise's  *)
(* Offer, or a null line makes the process Die; the rest it does is        *)
(* inside.                                                                 *)
LEMMA WorkerKeepsPromise ==
    ASSUME PromiseInv, NEW w \in Workers, Worker(w)
    PROVE  Promise!IngestNext \/ UNCHANGED Promise!ingestVars
<1>dies. CASE WorkerPanics(w)
  <2>1. /\ UNCHANGED <<request, produced, origin, overflowed, confirmed,
                       forgotten, sendFailed>>
        /\ Exists /\ mainPc' = "crashed"
    BY <1>dies DEF WorkerPanics, producerVars, eventVars, outboxVars
  <2>2. QED
    BY <2>1, DyingKeepsPromise
<1> SUFFICES ASSUME ~WorkerPanics(w)
             PROVE  Promise!IngestNext \/ UNCHANGED Promise!ingestVars
    BY <1>dies
<1>0. UNCHANGED <<mainPc, queueClosed, request, produced, sendFailed>>
    BY DEF Worker, WorkerTakes, WorkerAdds, WorkerReturns, mainVars, queueVars,
       producerVars, eventVars
<1>1. PromisePhase' = PromisePhase
    BY <1>0 DEF PromisePhase, Exists
<1>2. CASE WorkerTakes(w) \/ WorkerReturns(w)
  <2>1. \A r \in Requests : Fate(r)' = Fate(r)
    BY <1>0, <1>2, FatesStay DEF WorkerTakes, WorkerReturns, eventVars, outboxVars
  <2>2. QED
    BY <1>0, <1>1, <2>1, NothingBecomes DEF Promise!ingestVars
<1>3. CASE WorkerAdds(w)
  <2> PICK r : r = busy[w]
    OBVIOUS
  <2>0. /\ EventTypeOK /\ Apart /\ busy \in [Workers -> Requests \cup {None}]
        /\ origin \in Seq(Requests \cup {"kafka"}) /\ Len(origin) = accepted
        /\ confirmed \subseteq 1..accepted /\ forgotten \subseteq 1..accepted
    BY DEF PromiseInv, SidecarInv, ProcessInv, ProcessTypeOK, EventTypeOK
  <2>1. r \in Requests /\ r # None /\ w \in Holders(r)
    BY <1>3, <2>0 DEF WorkerAdds, Holders
  <2>2. /\ EventsOf(r) = {} /\ r \notin overflowed /\ request[r] = "accepted"
    BY <2>1 DEF PromiseInv, OnePlaceOnly, OnePlace
  <2>3. PromisePhase \in {"taking", "closed"}
    <3>1. w \in alive
      BY <2>1 DEF PromiseInv, SidecarInv, WorkersOutlastQueue
    <3>2. mainPc \notin AfterWorkers
      BY <3>1 DEF PromiseInv, SidecarInv, WorkersOutlastQueue
    <3>3. Exists
      BY <1>3 DEF WorkerAdds
    <3>4. QED
      BY <3>2, <3>3, PhaseOf DEF AfterWorkers, AfterClose
  <2>4. AcceptedFate(r) = "accepted"
    BY <2>2 DEF AcceptedFate
  <2>5. Fate(r) = "accepted"
    BY <2>2, <2>4 DEF Fate
  <2>6. CASE AddTaken(r) /\ UNCHANGED overflowed
    <3>1. /\ origin' = Append(origin, r)
          /\ confirmed' = confirmed /\ forgotten' = forgotten
      BY <2>6 DEF AddTaken, Accept
    <3>2. /\ Len(origin') = Len(origin) + 1 /\ Len(origin) \in Nat
          /\ origin'[Len(origin) + 1] = r
          /\ \A i \in 1..Len(origin) : origin'[i] = origin[i]
      BY <2>0, <2>1, <3>1
    <3>3. EventsOf(r)' = {accepted + 1}
      BY <2>0, <2>2, <3>2 DEF EventsOf
    <3>4. accepted + 1 \notin confirmed \cup forgotten
      BY <2>0, <2>6, NewestApart
    <3>5. AcceptedFate(r)' = "held"
      <4>1. QED
        BY <3>1, <3>3, <3>4 DEF AcceptedFate
    <3>6. Fate(r)' = "held"
      BY <1>0, <2>2, <3>5 DEF Fate
    <3>7. ASSUME NEW s \in Requests \ {r} PROVE Fate(s)' = Fate(s)
      <4>1. EventsOf(s)' = EventsOf(s)
        BY <3>2, <3>7 DEF EventsOf
      <4>2. QED
        BY <1>0, <2>6, <3>1, <4>1, FateStays
    <3>8. Promise!Offer(r)
      BY <1>0, <1>1, <2>1, <2>3, <2>5, <3>6, <3>7, BecomesOne DEF Promise!Offer
    <3>9. QED
      BY <2>1, <3>8 DEF Promise!IngestNext
  <2>7. CASE AddRefused /\ overflowed' = overflowed \cup {r}
    <3>1. UNCHANGED <<origin, confirmed, forgotten>>
      BY <2>7 DEF AddRefused, Reject
    <3>2. \A s \in Requests : EventsOf(s)' = EventsOf(s)
      BY <3>1 DEF EventsOf
    <3>3. Fate(r)' = "overflowed"
      <4>1. EventsOf(r)' = {} /\ r \in overflowed'
        BY <2>1, <2>2, <2>7, <3>2
      <4>2. AcceptedFate(r)' = "overflowed"
        BY <4>1 DEF AcceptedFate
      <4>3. QED
        BY <1>0, <2>2, <4>2 DEF Fate
    <3>4. ASSUME NEW s \in Requests \ {r} PROVE Fate(s)' = Fate(s)
      BY <1>0, <2>7, <3>1, <3>2, FateStays
    <3>5. Promise!Offer(r)
      BY <1>0, <1>1, <2>1, <2>3, <2>5, <3>3, <3>4, BecomesOne DEF Promise!Offer
    <3>6. QED
      BY <2>1, <3>5 DEF Promise!IngestNext
  <2>8. QED
    BY <1>3, <2>6, <2>7 DEF WorkerAdds
<1>4. QED
    BY <1>2, <1>3 DEF Worker

(* An event that a flush takes out of the outbox settles the body it is    *)
(* of, and no other.                                                       *)
LEMMA SettledBodies ==
    ASSUME PromiseInv, NEW k \in 0..Len(outbox), NEW r \in Requests
    PROVE  /\ EventsOf(r) \cap Oldest(k) # {} =>
                /\ Fate(r) = "held" /\ request[r] = "accepted"
                /\ EventsOf(r) \cap (confirmed \cup forgotten) = {}
<1>1. SUFFICES ASSUME EventsOf(r) \cap Oldest(k) # {}
               PROVE  /\ Fate(r) = "held" /\ request[r] = "accepted"
                      /\ EventsOf(r) \cap (confirmed \cup forgotten) = {}
    OBVIOUS
<1>2. PICK e \in EventsOf(r) : e \in Oldest(k)
    BY <1>1
<1>3. e \in Waiting
  <2>1. Len(outbox) \in Nat
    BY DEF PromiseInv, SidecarInv, EventTypeOK
  <2>2. QED
    BY <1>2, <2>1 DEF Oldest, Waiting
<1>4. e \notin confirmed \cup forgotten
    BY <1>3 DEF PromiseInv, Apart
<1>5. request[r] = "accepted" /\ EventsOf(r) = {e}
    BY <1>2 DEF PromiseInv, OnePlaceOnly, OnePlace
<1>6. AcceptedFate(r) = "held"
    <2>1. QED
      BY <1>4, <1>5 DEF AcceptedFate
<1>7. QED
    BY <1>4, <1>5, <1>6 DEF Fate

(* What a flush confirms is delivered.                                     *)
LEMMA ConfirmDelivers ==
    ASSUME PromiseInv, NEW k \in 0..Len(outbox), Confirm(k),
           UNCHANGED <<request, produced, origin, overflowed, sendFailed>>,
           PromisePhase' = PromisePhase,
           PromisePhase \in {"taking", "closed", "drained"}
    PROVE  Promise!IngestNext
<1> DEFINE S == {r \in Requests : EventsOf(r) \cap Oldest(k) # {}}
<1>1. confirmed' = confirmed \cup Oldest(k) /\ forgotten' = forgotten
    BY DEF Confirm
<1>2. \A r \in Requests : EventsOf(r)' = EventsOf(r)
    BY DEF EventsOf
<1>3. S \in SUBSET Requests /\ S \subseteq Promise!HeldBodies
    BY SettledBodies DEF Promise!HeldBodies
<1>4. ASSUME NEW r \in S PROVE Fate(r)' = "delivered"
  <2>1. EventsOf(r)' \cap confirmed' # {}
    BY <1>1, <1>2
  <2>2. request'[r] = "accepted"
    BY SettledBodies
  <2>3. AcceptedFate(r)' = "delivered"
    BY <2>1 DEF AcceptedFate
  <2>4. QED
    BY <2>2, <2>3 DEF Fate
<1>5. ASSUME NEW r \in Requests \ S PROVE Fate(r)' = Fate(r)
  <2>1. EventsOf(r) \cap Oldest(k) = {}
    OBVIOUS
  <2>2. QED
    BY <1>1, <1>2, <2>1, FateStays
<1> HIDE DEF S
<1>6. Promise!Deliver(S)
    BY <1>3, <1>4, <1>5, Becomes DEF Promise!Deliver, Promise!Running
<1>7. QED
    BY <1>3, <1>6 DEF Promise!IngestNext

(* What a flush forgets is lost, and the collector has failed.             *)
LEMMA ForgetLoses ==
    ASSUME PromiseInv, NEW k \in 0..Len(outbox), Forget(k), sendFailed' = TRUE,
           UNCHANGED <<request, produced, origin, overflowed>>,
           PromisePhase' = PromisePhase,
           PromisePhase \in {"taking", "closed", "drained"}
    PROVE  Promise!IngestNext
<1> DEFINE S == {r \in Requests : EventsOf(r) \cap Oldest(k) # {}}
<1>1. forgotten' = forgotten \cup Oldest(k) /\ confirmed' = confirmed
    BY DEF Forget
<1>2. \A r \in Requests : EventsOf(r)' = EventsOf(r)
    BY DEF EventsOf
<1>3. S \in SUBSET Requests /\ S \subseteq Promise!HeldBodies
    BY SettledBodies DEF Promise!HeldBodies
<1>4. ASSUME NEW r \in S PROVE Fate(r)' = "lost"
  <2>1. EventsOf(r)' \cap forgotten' # {} /\ EventsOf(r)' \cap confirmed' = {}
    BY <1>1, <1>2, SettledBodies
  <2>2. request'[r] = "accepted"
    BY SettledBodies
  <2>3. AcceptedFate(r)' = "lost"
    BY <2>1 DEF AcceptedFate
  <2>4. QED
    BY <2>2, <2>3 DEF Fate
<1>5. ASSUME NEW r \in Requests \ S PROVE Fate(r)' = Fate(r)
  <2>1. EventsOf(r) \cap Oldest(k) = {}
    OBVIOUS
  <2>2. QED
    BY <1>1, <1>2, <2>1, FateStays
<1> HIDE DEF S
<1>6. Promise!Lose(S)
    BY <1>3, <1>4, <1>5, Becomes DEF Promise!Lose, Promise!Running
<1>7. QED
    BY <1>3, <1>6 DEF Promise!IngestNext

(* What starts, the consumer's messages and the flushes keep the promise:  *)
(* a message is no body, though it may be the end of the process.          *)
LEMMA FlowKeepsPromise ==
    ASSUME PromiseInv,
           Starting \/ ConsumerAdds \/ ConsumerPanics \/ FlushConfirms \/ FlushForgets
    PROVE  Promise!IngestNext \/ UNCHANGED Promise!ingestVars
<1>1. CASE Starting
  <2>1. UNCHANGED <<request, produced, origin, overflowed, confirmed, forgotten>>
    BY <1>1 DEF Starting, StartConsumer, StartProcessor, producerVars,
       eventVars, outboxVars
  <2>2. PromisePhase' = PromisePhase /\ sendFailed' = sendFailed
    <3>1. ~queueClosed /\ queueClosed' = queueClosed
      BY <1>1, PhaseOf DEF Starting, StartConsumer, StartProcessor,
         queueVars, AfterClose
    <3>2. QED
      BY <1>1, <3>1 DEF PromisePhase, Exists, Starting, StartConsumer,
         StartProcessor, eventVars
  <2>3. QED
    BY <2>1, <2>2, FatesStay, NothingBecomes DEF Promise!ingestVars
<1>2. CASE ConsumerAdds
  <2>1. /\ UNCHANGED <<mainPc, queueClosed, request, produced, overflowed,
                       sendFailed, confirmed, forgotten>>
        /\ origin' = Append(origin, "kafka") \/ origin' = origin
    BY <1>2 DEF ConsumerAdds, mainVars, queueVars, producerVars, AddTaken,
       AddRefused, Accept, Reject
  <2>2. ASSUME NEW r \in Requests PROVE Fate(r)' = Fate(r)
    <3>1. origin \in Seq(Requests \cup {"kafka"}) /\ r # "kafka"
      BY SidecarAssumption DEF PromiseInv, SidecarInv, EventTypeOK
    <3>2. CASE origin' = Append(origin, "kafka")
      <4>1. /\ Len(origin') = Len(origin) + 1 /\ Len(origin) \in Nat
            /\ origin'[Len(origin) + 1] = "kafka"
            /\ \A i \in 1..Len(origin) : origin'[i] = origin[i]
        BY <3>1, <3>2
      <4>2. EventsOf(r)' = EventsOf(r)
        BY <3>1, <4>1 DEF EventsOf
      <4>3. QED
        BY <2>1, <4>2, FateStays
    <3>3. CASE origin' = origin
      BY <2>1, <3>3, FatesStay
    <3>4. QED
      BY <2>1, <3>2, <3>3
  <2>3. PromisePhase' = PromisePhase
    BY <2>1 DEF PromisePhase, Exists
  <2>4. QED
    BY <2>1, <2>2, <2>3, NothingBecomes DEF Promise!ingestVars
<1>3. ASSUME FlushConfirms \/ FlushForgets
      PROVE  /\ UNCHANGED <<request, produced, origin, overflowed>>
             /\ PromisePhase' = PromisePhase
             /\ PromisePhase \in {"taking", "closed", "drained"}
             /\ 1..Len(outbox) \subseteq 0..Len(outbox)
  <2>1. /\ UNCHANGED <<mainPc, queueClosed, request, produced, origin, overflowed>>
        /\ Exists
    BY <1>3 DEF FlushConfirms, FlushForgets, mainVars, queueVars, producerVars
  <2>2. QED
    BY <2>1, PhaseOf DEF PromisePhase, Exists, PromiseInv, SidecarInv, EventTypeOK
<1>4. CASE FlushConfirms
  <2>1. PICK k \in 1..Len(outbox) : Confirm(k)
    BY <1>4 DEF FlushConfirms
  <2>2. k \in 0..Len(outbox) /\ sendFailed' = sendFailed
    BY <1>3, <1>4 DEF FlushConfirms
  <2>3. QED
    BY <1>3, <1>4, <2>1, <2>2, ConfirmDelivers
<1>5. CASE FlushForgets
  <2>1. PICK k \in 1..Len(outbox) : Forget(k)
    BY <1>5 DEF FlushForgets
  <2>2. k \in 0..Len(outbox) /\ sendFailed' = TRUE
    BY <1>3, <1>5 DEF FlushForgets
  <2>3. QED
    BY <1>3, <1>5, <2>1, <2>2, ForgetLoses
<1>6. CASE ConsumerPanics
  <2>1. /\ UNCHANGED <<request, produced, origin, overflowed, confirmed,
                       forgotten, sendFailed>>
        /\ Exists /\ mainPc' = "crashed"
    BY <1>6 DEF ConsumerPanics, Consuming, Exists, producerVars, outboxVars
  <2>2. QED
    BY <2>1, DyingKeepsPromise
<1>7. QED
    BY <1>1, <1>2, <1>4, <1>5, <1>6

(* When the workers have returned, each accepted body has been offered.    *)
LEMMA DrainedLeavesNone ==
    ASSUME PromiseInv, mainPc = "draining", alive = {}, NEW r \in Requests
    PROVE  Fate(r) # "accepted"
<1>1. SUFFICES ASSUME request[r] = "accepted" PROVE AcceptedFate(r) # "accepted"
    BY DEF Fate
<1>2. workQueue = <<>> /\ \A w \in Workers : busy[w] = None
    BY SidecarAssumption, PhaseOf
       DEF PromiseInv, SidecarInv, WorkersOutlastQueue, AfterClose
<1>3. r \notin Queued /\ r \notin InWork
    BY <1>2, SidecarAssumption DEF Queued, InWork
<1>4. r \in Processed
    BY <1>1, <1>3 DEF PromiseInv, SidecarInv, NothingDropped, Acknowledged
<1>5. EventsOf(r) # {} \/ r \in overflowed
    BY <1>4 DEF Processed, EventsOf
<1>6. QED
    BY <1>5 DEF AcceptedFate

(* When Stop is through, what the sender still holds came from Kafka,      *)
(* unless the collector failed.                                            *)
LEMMA ExitLeavesNone ==
    ASSUME PromiseInv, mainPc = "http", ~sendFailed
    PROVE  Promise!HeldBodies = {}
<1>1. SUFFICES ASSUME NEW r \in Requests PROVE Fate(r) # "held"
    BY DEF Promise!HeldBodies
<1>2. SUFFICES ASSUME NEW e \in EventsOf(r)
               PROVE  EventsOf(r) \cap (confirmed \cup forgotten) # {}
    BY DEF Fate, AcceptedFate
<1>3. e \in 1..accepted /\ origin[e] = r /\ r # "kafka"
    BY SidecarAssumption DEF EventsOf, PromiseInv, SidecarInv, EventTypeOK
<1>4. e \notin Waiting
    BY <1>3 DEF PromiseInv, DeliveryInv, AfterSenders, AfterWorkers, AfterClose
<1>5. QED
    BY <1>3, <1>4 DEF PromiseInv, DeliveryInv

(* The steps of Stop.                                                      *)
LEMMA StopKeepsPromise ==
    ASSUME PromiseInv, StopClosesQueue \/ Stopping
    PROVE  Promise!IngestNext \/ UNCHANGED Promise!ingestVars
<1>1. UNCHANGED <<request, produced, origin, overflowed>>
    BY DEF StopClosesQueue, Stopping, StopAwaitsWorkers, StopStopsSenders,
       StopFlagsProducer, StopClosesProducer, StopStopsConsumer, StopReturns,
       producerVars, eventVars
<1>2. ASSUME UNCHANGED <<outboxVars, sendFailed>>
      PROVE  UNCHANGED <<[r \in Requests |-> Fate(r)], sendFailed>>
    BY <1>1, <1>2, FatesStay, NothingBecomes DEF outboxVars
<1>3. CASE StopClosesQueue
  <2>1. PromisePhase = "taking" /\ PromisePhase' = "closed"
    BY <1>3, PhaseOf DEF StopClosesQueue, PromisePhase, Exists, AfterClose
  <2>2. QED
    BY <1>2, <1>3, <2>1
       DEF StopClosesQueue, eventVars, Promise!Close, Promise!IngestNext
<1>4. ASSUME Stopping PROVE queueClosed /\ queueClosed' = queueClosed
    BY <1>4, PhaseOf DEF Stopping, StopAwaitsWorkers, StopStopsSenders,
       StopFlagsProducer, StopClosesProducer, StopStopsConsumer, StopReturns,
       queueVars, AfterClose
<1>5. CASE StopAwaitsWorkers
  <2>1. PromisePhase = "closed" /\ PromisePhase' = "drained"
    BY <1>4, <1>5 DEF Stopping, StopAwaitsWorkers, PromisePhase, Exists
  <2>2. \A r \in Requests : [s \in Requests |-> Fate(s)][r] # "accepted"
    BY <1>5, DrainedLeavesNone DEF StopAwaitsWorkers
  <2>3. QED
    BY <1>2, <1>5, <2>1, <2>2
       DEF StopAwaitsWorkers, eventVars, Promise!Drain, Promise!IngestNext
<1>6. CASE StopStopsSenders
  <2>1. PromisePhase = "drained" /\ PromisePhase' = "drained"
    <3>1. mainPc = "senders" /\ mainPc' = "producer"
      BY <1>6 DEF StopStopsSenders
    <3>2. queueClosed /\ queueClosed'
      BY <1>4, <1>6 DEF Stopping
    <3>3. QED
      BY <3>1, <3>2 DEF PromisePhase, Exists
  <2>2. CASE Confirm(Len(outbox)) /\ UNCHANGED sendFailed
    <3>1. Len(outbox) \in 0..Len(outbox)
      BY DEF PromiseInv, SidecarInv, EventTypeOK
    <3>2. QED
      BY <1>1, <2>1, <2>2, <3>1, ConfirmDelivers
  <2>3. CASE sendFailed' = TRUE /\ UNCHANGED outboxVars
    <3>1. \A r \in Requests : Fate(r)' = Fate(r)
      BY <1>1, <2>3, FatesStay DEF outboxVars
    <3>2. Promise!Lose({})
      BY <2>1, <2>3, <3>1, Becomes DEF Promise!Lose, Promise!Running
    <3>3. QED
      BY <3>2 DEF Promise!IngestNext
  <2>4. QED
    BY <1>6, <2>2, <2>3 DEF StopStopsSenders
<1>7. CASE StopFlagsProducer \/ StopClosesProducer
  <2>1. PromisePhase = "drained" /\ PromisePhase' = "drained"
    <3>1. /\ mainPc \in {"producer", "input"}
          /\ mainPc' \in {"input", "consumer"}
      BY <1>7 DEF StopFlagsProducer, StopClosesProducer
    <3>2. queueClosed /\ queueClosed'
      BY <1>4, <1>7 DEF Stopping
    <3>3. QED
      BY <3>1, <3>2 DEF PromisePhase, Exists
  <2>2. QED
    BY <1>2, <1>7, <2>1
       DEF StopFlagsProducer, StopClosesProducer, eventVars, Promise!ingestVars
<1>8. CASE StopStopsConsumer
  <2>1. UNCHANGED <<outboxVars, sendFailed>> /\ mainPc = "consumer"
    BY <1>8 DEF StopStopsConsumer, eventVars
  <2>2. CASE mainPc' = "http"
    <3>1. PromisePhase' = PromisePhase
      BY <1>4, <1>8, <2>1, <2>2 DEF Stopping, PromisePhase, Exists
    <3>2. QED
      BY <1>2, <2>1, <3>1 DEF Promise!ingestVars
  <2>3. CASE mainPc' = "crashed"
    BY <1>1, <2>1, <2>3, DyingKeepsPromise DEF Exists, outboxVars
  <2>4. QED
    BY <1>8, <2>2, <2>3 DEF StopStopsConsumer
<1>9. CASE StopReturns
  <2>1. PromisePhase = "drained" /\ PromisePhase' = "exited"
    BY <1>4, <1>9 DEF Stopping, StopReturns, PromisePhase, Exists
  <2>2. Promise!HeldBodies = {} \/ sendFailed
    BY <1>9, ExitLeavesNone DEF StopReturns
  <2>3. QED
    BY <1>2, <1>9, <2>1, <2>2
       DEF StopReturns, eventVars, Promise!Exit, Promise!IngestNext
<1>10. QED
    BY <1>3, <1>5, <1>6, <1>7, <1>8, <1>9 DEF Stopping

(* Every step of the process is a step of the promise, or is inside.       *)
LEMMA StepKeepsPromise ==
    ASSUME PromiseInv, [Next]_vars
    PROVE  Promise!IngestNext \/ UNCHANGED Promise!ingestVars
<1>1. CASE UNCHANGED vars
  <2>1. UNCHANGED <<mainPc, queueClosed, request, produced, origin, overflowed,
                    confirmed, forgotten, sendFailed>>
    BY <1>1 DEF vars, mainVars, queueVars, producerVars, eventVars, outboxVars
  <2>2. PromisePhase' = PromisePhase
    BY <2>1 DEF PromisePhase, Exists
  <2>3. QED
    BY <2>1, <2>2, FatesStay, NothingBecomes DEF Promise!ingestVars
<1>2. QED
    BY <1>1, HandlerKeepsPromise, WorkerKeepsPromise, FlowKeepsPromise,
       StopKeepsPromise DEF Next

(* At the start every body is open.                                        *)
LEMMA StartKeepsPromise == Init => Promise!IngestInit
<1> SUFFICES ASSUME Init PROVE Promise!IngestInit
    OBVIOUS
<1>1. \A r \in Requests : Fate(r) = "open"
    BY DEF Init, Fate
<1>2. QED
    BY <1>1 DEF Init, PromisePhase, Exists, Promise!IngestInit

(* The process implements what Ingest promises of a POST (KeepsPromise):   *)
(* the handlers, the queue, the workers, the sender and Stop in its order  *)
(* do to a body nothing that the promise does not allow, whenever a panic  *)
(* ends the process.                                                       *)
THEOREM SidecarKeepsPromise == Spec => KeepsPromise
<1>1. PromiseInv /\ [Next]_vars => [Promise!IngestNext]_(Promise!ingestVars)
    BY StepKeepsPromise
<1>2. QED
    BY <1>1, StartKeepsPromise, PromiseInvariant, PTL
       DEF Spec, KeepsPromise, Promise!IngestSpec
=============================================================================
