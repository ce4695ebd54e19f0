------------------------------- MODULE Sidecar -------------------------------
(***************************************************************************)
(* The whole process: main and Processor (src/main.go, src/processor.go),  *)
(* the HTTP handler of data (src/handler.go), the pool of HTTP workers     *)
(* (src/worker.go), the Kafka producer (src/producer.go), and the order in *)
(* which Start and Stop bring them up and down.                            *)
(*                                                                         *)
(* The sender is taken as its abstract specification EventOutbox, which    *)
(* BatchSender implements; one sender stands for the four, which Stop      *)
(* stops one after the other.  The consumer is taken as KafkaConsumer      *)
(* leaves it: from Start until its Stop returns it may process a message   *)
(* at any moment.  A request body is one event, or it holds an l7 or l4    *)
(* line, its type enabled, whose JSON is null: processL7Line, processL4Line*)
(* (src/helper.go) write into the nil map of such a line, nothing recovers *)
(* from that panic in a worker or in the consumer, and the process ends.   *)
(* Kafka is enabled both ways.                                             *)
(*                                                                         *)
(* The names with an underscore are what a plausible slip in the           *)
(* definition that follows them would leave; no action uses them.          *)
(***************************************************************************)
EXTENDS EventOutbox, FiniteSets

CONSTANTS
    Requests,       \* the POST requests that may arrive
    Lethal,         \* those whose body holds a null line
    Workers,        \* the WorkerCount goroutines worker
    QueueSize,      \* capacity of workQueue, MaxQueueSize in the code
    MaxMessages,    \* bound on the messages the consumer processes
    None            \* no request

ASSUME SidecarAssumption ==
    /\ IsFiniteSet(Requests) /\ None \notin Requests /\ "kafka" \notin Requests
    /\ Lethal \subseteq Requests
    /\ IsFiniteSet(Workers) /\ Workers # {}
    /\ QueueSize \in Nat \ {0} /\ Capacity \in Nat \ {0}
    /\ MaxMessages \in Nat

VARIABLES
    mainPc,         \* where main is, see Phases
    serving,        \* the HTTP server listens
    request,        \* where each request is, see Stages
    workQueue,
    queueClosed,
    busy,           \* the body each worker processes, or None
    alive,          \* the workers that have not returned
    producerClosed, \* kp.closed
    inputClosed,    \* the producer's Input() channel is closed
    produced,       \* the bodies handed to the producer
    origin,         \* where each event of the sender comes from, in order
    overflowed,     \* the requests whose event the full sender refused
    messages,       \* the messages the consumer has processed
    sendFailed      \* history: the collector failed a request that mattered

mainVars == <<mainPc, serving>>
queueVars == <<workQueue, queueClosed>>
workerVars == <<busy, alive>>
producerVars == <<producerClosed, inputClosed, produced>>
eventVars == <<outboxVars, origin, overflowed, messages, sendFailed>>
vars == <<mainVars, request, queueVars, workerVars, producerVars, eventVars>>

Phases == {"starting", "consuming", "running", "draining", "senders",
           "producer", "input", "consumer", "http", "exited", "crashed"}
Stages == {"absent", "arrived", "sending", "queueing", "accepted", "full",
           "refused", "aborted"}

Exists == mainPc \notin {"exited", "crashed"}

Init ==
    /\ mainPc = "starting"
    /\ serving = FALSE
    /\ request = [r \in Requests |-> "absent"]
    /\ workQueue = <<>>
    /\ queueClosed = FALSE
    /\ busy = [w \in Workers |-> None]
    /\ alive = {}
    /\ producerClosed = FALSE
    /\ inputClosed = FALSE
    /\ produced = {}
    /\ OutboxInit
    /\ origin = <<>>
    /\ overflowed = {}
    /\ messages = 0
    /\ sendFailed = FALSE

(* Add(event) of the sender, for an event that came from "source".         *)
AddTaken(source) == Accept /\ origin' = Append(origin, source)
AddRefused == Reject /\ UNCHANGED origin
-----------------------------------------------------------------------------
(* main starts the consumer before the senders, the workers and the server.*)
StartConsumer ==
    /\ mainPc = "starting"
    /\ mainPc' = "consuming"
    /\ UNCHANGED <<serving, request, queueVars, workerVars, producerVars,
                   eventVars>>

(* Processor.Start and StartHTTPServer, which may fail to listen.          *)
StartProcessor ==
    /\ mainPc = "consuming"
    /\ mainPc' = "running"
    /\ alive' = Workers
    /\ serving' \in BOOLEAN
    /\ UNCHANGED <<request, queueVars, busy, producerVars, eventVars>>
-----------------------------------------------------------------------------
(* handleDataAsync.  The listener is open until Shutdown is called.        *)
Arrive(r) ==
    /\ Exists /\ serving /\ mainPc # "http"
    /\ request[r] = "absent"
    /\ request' = [request EXCEPT ![r] = "arrived"]
    /\ UNCHANGED <<mainVars, queueVars, workerVars, producerVars, eventVars>>

(* Memory pressure, consumer-only mode, method, rate limit, broken body.   *)
Refuse(r) ==
    /\ Exists
    /\ request[r] = "arrived"
    /\ request' = [request EXCEPT ![r] = "refused"]
    /\ UNCHANGED <<mainVars, queueVars, workerVars, producerVars, eventVars>>

(* Send looks at kp.closed, and only later writes to Input().              *)
SendChecks(r) ==
    /\ Exists
    /\ request[r] = "arrived"
    /\ request' = [request EXCEPT
                      ![r] = IF producerClosed THEN "queueing" ELSE "sending"]
    /\ UNCHANGED <<mainVars, queueVars, workerVars, producerVars, eventVars>>

(* A send on a closed channel panics; net/http recovers and drops the      *)
(* connection.                                                             *)
SendInputs(r) ==
    /\ Exists
    /\ request[r] = "sending"
    /\ IF inputClosed
         THEN /\ request' = [request EXCEPT ![r] = "aborted"]
              /\ UNCHANGED produced
         ELSE /\ request' = [request EXCEPT ![r] = "queueing"]
              /\ produced' = produced \cup {r}
    /\ UNCHANGED <<mainVars, queueVars, workerVars, producerClosed,
                   inputClosed, eventVars>>

(* The select: the body goes into workQueue and the answer is 202.         *)
Enqueue_IgnoresCapacity(r) ==
    /\ Exists
    /\ request[r] = "queueing"
    /\ ~queueClosed
    /\ workQueue' = Append(workQueue, r)
    /\ request' = [request EXCEPT ![r] = "accepted"]
    /\ UNCHANGED <<mainVars, queueClosed, workerVars, producerVars, eventVars>>
Enqueue(r) ==
    /\ Exists
    /\ request[r] = "queueing"
    /\ ~queueClosed /\ Len(workQueue) < QueueSize
    /\ workQueue' = Append(workQueue, r)
    /\ request' = [request EXCEPT ![r] = "accepted"]
    /\ UNCHANGED <<mainVars, queueClosed, workerVars, producerVars, eventVars>>

(* The queue stayed full for 50 ms: the answer is 503 "Queue full".        *)
QueueTimesOut(r) ==
    /\ Exists
    /\ request[r] = "queueing"
    /\ ~queueClosed /\ Len(workQueue) >= QueueSize
    /\ request' = [request EXCEPT ![r] = "full"]
    /\ UNCHANGED <<mainVars, queueVars, workerVars, producerVars, eventVars>>

(* workQueue is closed, before the select or while it waits.               *)
EnqueuePanics(r) ==
    /\ Exists
    /\ request[r] = "queueing"
    /\ queueClosed
    /\ request' = [request EXCEPT ![r] = "aborted"]
    /\ UNCHANGED <<mainVars, queueVars, workerVars, producerVars, eventVars>>

Handler(r) ==
    \/ Arrive(r) \/ Refuse(r) \/ SendChecks(r) \/ SendInputs(r)
    \/ Enqueue(r) \/ QueueTimesOut(r) \/ EnqueuePanics(r)
-----------------------------------------------------------------------------
WorkerTakes(w) ==
    /\ Exists
    /\ w \in alive /\ busy[w] = None
    /\ workQueue # <<>>
    /\ busy' = [busy EXCEPT ![w] = Head(workQueue)]
    /\ workQueue' = Tail(workQueue)
    /\ UNCHANGED <<mainVars, request, queueClosed, alive, producerVars,
                   eventVars>>

(* processHTTPData Adds the event, which the sender may refuse.            *)
WorkerAdds(w) ==
    /\ Exists
    /\ busy[w] # None /\ busy[w] \notin Lethal
    /\ \/ AddTaken(busy[w]) /\ UNCHANGED overflowed
       \/ AddRefused /\ overflowed' = overflowed \cup {busy[w]}
    /\ busy' = [busy EXCEPT ![w] = None]
    /\ UNCHANGED <<mainVars, request, queueVars, alive, producerVars,
                   messages, sendFailed>>

(* A null line: processHTTPData converts every line before it Adds one, so *)
(* nothing of the body is Added, and the process goes down with what is    *)
(* queued, in work and buffered.                                           *)
WorkerPanics(w) ==
    /\ Exists
    /\ busy[w] # None /\ busy[w] \in Lethal
    /\ mainPc' = "crashed"
    /\ UNCHANGED <<serving, request, queueVars, workerVars, producerVars,
                   eventVars>>

(* The range loop ends when the queue is closed and empty.                 *)
WorkerReturns_OnClose(w) ==
    /\ Exists
    /\ w \in alive /\ busy[w] = None
    /\ queueClosed
    /\ alive' = alive \ {w}
    /\ UNCHANGED <<mainVars, request, queueVars, busy, producerVars, eventVars>>
WorkerReturns(w) ==
    /\ Exists
    /\ w \in alive /\ busy[w] = None
    /\ queueClosed /\ workQueue = <<>>
    /\ alive' = alive \ {w}
    /\ UNCHANGED <<mainVars, request, queueVars, busy, producerVars, eventVars>>

(* The consumer processes a message, before the senders start and after    *)
(* they have stopped too.                                                  *)
Consuming == mainPc \notin {"starting", "http", "exited", "crashed"}

ConsumerAdds ==
    /\ Consuming
    /\ messages < MaxMessages
    /\ messages' = messages + 1
    /\ AddTaken("kafka") \/ AddRefused
    /\ UNCHANGED <<mainVars, request, queueVars, workerVars, producerVars,
                   overflowed, sendFailed>>

(* Or the message holds a null line.                                       *)
ConsumerPanics ==
    /\ Consuming
    /\ messages < MaxMessages
    /\ messages' = messages + 1
    /\ mainPc' = "crashed"
    /\ UNCHANGED <<serving, request, queueVars, workerVars, producerVars,
                   outboxVars, origin, overflowed, sendFailed>>

(* A flush the ticker, an Add, the /api/flush handler or the memory        *)
(* monitor started: it may come before the sender starts and after it has  *)
(* stopped.                                                                *)
FlushConfirms ==
    /\ Exists
    /\ \E k \in 1..Len(outbox) : Confirm(k)
    /\ UNCHANGED <<mainVars, request, queueVars, workerVars, producerVars,
                   origin, overflowed, messages, sendFailed>>

FlushForgets ==
    /\ Exists
    /\ \E k \in 1..Len(outbox) : Forget(k)
    /\ sendFailed' = TRUE
    /\ UNCHANGED <<mainVars, request, queueVars, workerVars, producerVars,
                   origin, overflowed, messages>>
-----------------------------------------------------------------------------
(* Processor.Stop, in its order.                                           *)
StopClosesQueue_Forgotten ==
    /\ mainPc = "running"
    /\ mainPc' = "draining"
    /\ UNCHANGED <<serving, request, queueVars, workerVars, producerVars,
                   eventVars>>
StopClosesQueue ==
    /\ mainPc = "running"
    /\ mainPc' = "draining"
    /\ queueClosed' = TRUE
    /\ UNCHANGED <<serving, request, workQueue, workerVars, producerVars,
                   eventVars>>

StopAwaitsWorkers_NotAwaited ==
    /\ mainPc = "draining"
    /\ mainPc' = "senders"
    /\ UNCHANGED <<serving, request, queueVars, workerVars, producerVars,
                   eventVars>>
StopAwaitsWorkers ==
    /\ mainPc = "draining"
    /\ alive = {}
    /\ mainPc' = "senders"
    /\ UNCHANGED <<serving, request, queueVars, workerVars, producerVars,
                   eventVars>>

(* The final flush of the sender sends all it holds, or fails.             *)
StopStopsSenders_NoFlush ==
    /\ mainPc = "senders"
    /\ mainPc' = "producer"
    /\ UNCHANGED <<serving, request, queueVars, workerVars, producerVars,
                   eventVars>>
StopStopsSenders ==
    /\ mainPc = "senders"
    /\ mainPc' = "producer"
    /\ \/ Confirm(Len(outbox)) /\ UNCHANGED sendFailed
       \/ outbox # <<>> /\ sendFailed' = TRUE /\ UNCHANGED outboxVars
    /\ UNCHANGED <<serving, request, queueVars, workerVars, producerVars,
                   origin, overflowed, messages>>

(* Close sets the flag that Send looks at, then closes the producer.       *)
StopFlagsProducer_Early ==
    /\ mainPc \in {"running", "producer"}
    /\ mainPc' = IF mainPc = "producer" THEN "input" ELSE mainPc
    /\ producerClosed' = TRUE
    /\ UNCHANGED <<serving, request, queueVars, workerVars, inputClosed,
                   produced, eventVars>>
StopFlagsProducer ==
    /\ mainPc = "producer"
    /\ mainPc' = "input"
    /\ producerClosed' = TRUE
    /\ UNCHANGED <<serving, request, queueVars, workerVars, inputClosed,
                   produced, eventVars>>

StopClosesProducer ==
    /\ mainPc = "input"
    /\ mainPc' = "consumer"
    /\ inputClosed' = TRUE
    /\ UNCHANGED <<serving, request, queueVars, workerVars, producerClosed,
                   produced, eventVars>>

(* The consumer's Stop returns, or the claim panics first and takes the    *)
(* process down (KafkaConsumer's ClaimPanics).                             *)
StopStopsConsumer ==
    /\ mainPc = "consumer"
    /\ mainPc' \in {"http", "crashed"}
    /\ UNCHANGED <<serving, request, queueVars, workerVars, producerVars,
                   eventVars>>

(* Shutdown waits for the handlers, but not longer than 5 seconds; then    *)
(* wg.Wait and main return.                                                *)
StopReturns ==
    /\ mainPc = "http"
    /\ mainPc' = "exited"
    /\ UNCHANGED <<serving, request, queueVars, workerVars, producerVars,
                   eventVars>>

Starting == StartConsumer \/ StartProcessor
Stopping ==
    \/ StopAwaitsWorkers \/ StopStopsSenders \/ StopFlagsProducer
    \/ StopClosesProducer \/ StopStopsConsumer \/ StopReturns
Worker(w) ==
    WorkerTakes(w) \/ WorkerAdds(w) \/ WorkerPanics(w) \/ WorkerReturns(w)
-----------------------------------------------------------------------------
Next ==
    \/ Starting
    \/ \E r \in Requests : Handler(r)
    \/ \E w \in Workers : Worker(w)
    \/ ConsumerAdds \/ ConsumerPanics
    \/ FlushConfirms
    \/ FlushForgets
    \/ StopClosesQueue
    \/ Stopping

Spec == Init /\ [][Next]_vars

(* Workers run, and Stop goes on once the step it waits for is done; the   *)
(* senders' and the consumer's own Stop return (StopReturns of BatchSender,*)
(* StopTerminates of KafkaConsumer).  A handler may hang for ever.         *)
Fairness ==
    /\ \A w \in Workers : WF_vars(Worker(w))
    /\ WF_vars(Stopping)

FairSpec == Spec /\ Fairness
-----------------------------------------------------------------------------
Acknowledged == {r \in Requests : request[r] = "accepted"}

(* The requests whose event a worker has offered to the sender.            *)
Processed == {r \in Requests : \E i \in 1..Len(origin) : origin[i] = r}
                \cup overflowed

SidecarTypeOK ==
    /\ mainPc \in Phases
    /\ serving \in BOOLEAN
    /\ request \in [Requests -> Stages]
    /\ workQueue \in Seq(Requests) /\ Len(workQueue) <= QueueSize
    /\ queueClosed \in BOOLEAN
    /\ busy \in [Workers -> Requests \cup {None}]
    /\ alive \subseteq Workers
    /\ producerClosed \in BOOLEAN /\ inputClosed \in BOOLEAN
    /\ produced \subseteq Requests
    /\ outbox \in Seq(1..accepted)
    /\ accepted \in Nat /\ rejected \in Nat
    /\ confirmed \subseteq 1..accepted /\ forgotten \subseteq 1..accepted
    /\ origin \in Seq(Requests \cup {"kafka"}) /\ Len(origin) = accepted
    /\ overflowed \subseteq Requests
    /\ messages \in 0..MaxMessages
    /\ sendFailed \in BOOLEAN

(* Stop keeps the promise of a 202: when it goes on to stop the senders,   *)
(* every body that was accepted has reached a sender.                      *)
AcceptedIsProcessed ==
    mainPc \in {"senders", "producer", "input", "consumer", "http", "exited"}
        => Acknowledged \subseteq Processed

(* Each answer is true to what becomes of the body, whenever Stop comes: a *)
(* 202 or a 503 "Queue full" means that the Kafka producer has it, any     *)
(* other refusal that it has not; only a body answered with 202 is ever    *)
(* offered to the sender from the queue, and it is offered once.           *)
EventsOf(r) == {i \in 1..Len(origin) : origin[i] = r}
AnswersHold ==
    \A r \in Requests :
        /\ request[r] \in {"accepted", "full"} => r \in produced
        /\ request[r] = "refused" => r \notin produced
        /\ r \in Processed => request[r] = "accepted"
        /\ \A i, j \in EventsOf(r) : i = j
        /\ r \in overflowed => EventsOf(r) = {}

(* An orderly exit loses no accepted body, unless a request to the         *)
(* collector failed or the sender's buffer was full: what is left in the   *)
(* buffer came from Kafka.                                                 *)
DeliveredAtExit ==
    mainPc = "exited" /\ ~sendFailed =>
        \A r \in Acknowledged \ overflowed :
            \E i \in confirmed : origin[i] = r

(* The process implements what Ingest promises of a POST.  The fate of a   *)
(* body is read off its answer, the producer and the sender's events.      *)
AcceptedFate(r) ==
    IF EventsOf(r) \cap confirmed # {} THEN "delivered"
    ELSE IF EventsOf(r) \cap forgotten # {} THEN "lost"
    ELSE IF EventsOf(r) # {} THEN "held"
    ELSE IF r \in overflowed THEN "overflowed"
    ELSE "accepted"
Fate(r) ==
    CASE request[r] = "accepted" -> AcceptedFate(r)
      [] request[r] \in {"refused", "full", "aborted"} ->
            IF r \in produced THEN "kafkaonly" ELSE "nowhere"
      [] OTHER -> IF r \in produced THEN "copied" ELSE "open"

PromisePhase ==
    IF ~Exists THEN mainPc
    ELSE IF ~queueClosed THEN "taking"
    ELSE IF mainPc = "draining" THEN "closed" ELSE "drained"

Promise == INSTANCE Ingest
            WITH Bodies <- Requests,
                 fate   <- [r \in Requests |-> Fate(r)],
                 phase  <- PromisePhase,
                 failed <- sendFailed
KeepsPromise == Promise!IngestSpec

(* An accepted body reaches a sender in the end, whenever Stop is called,  *)
(* unless a null line or the consumer's Stop takes the process down first. *)
AcceptedGetsProcessed ==
    \A r \in Requests :
        request[r] = "accepted" ~> r \in Processed \/ mainPc = "crashed"

(* Stop, once begun, ends the process.                                     *)
StopEndsTheProcess == mainPc = "draining" ~> mainPc \in {"exited", "crashed"}
=============================================================================
