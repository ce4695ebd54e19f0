----------------------------- MODULE LineRouting -----------------------------
(***************************************************************************)
(* Where the lines of one body end up when it is processed twice, at the   *)
(* same time: by a worker that took it from workQueue (processHTTPData of  *)
(* src/worker.go) and by the Kafka consumer that reads it back from the    *)
(* topic (processMessage and processProfilerMessage of src/consumer.go,    *)
(* ProcessKafkaMessage and sendProfilerToNewRelic of src/processor.go).    *)
(*                                                                         *)
(* A line is a record: its type ("none" without a bar, "blank", or a type  *)
(* nobody handles), whether white space precedes it, whether its payload   *)
(* is JSON, and the object, as LineConversion takes it.  A body is its     *)
(* lines, or a profiler payload with a number of samples.  The senders     *)
(* take every event; when they do not is BatchSender's matter.             *)
(*                                                                         *)
(* The names with an underscore are what a plausible slip in the           *)
(* definition that follows them would leave; no action uses them.          *)
(***************************************************************************)
EXTENDS LineConversion

CONSTANTS
    Bodies,         \* the bodies a client may post, as sequences of lines
    Payloads,       \* the profiler payloads, by their number of samples
    MaxSamples      \* maxSamples, 100 in the code

BodyLines == UNION {Range(b) : b \in Bodies}

ASSUME RoutingAssumption ==
    /\ MaxSamples \in Nat \ {0} /\ Payloads \subseteq Nat
    /\ Bodies \subseteq Seq(BodyLines)
    /\ \A line \in BodyLines : IsLine(line)

Ways == {"queue", "kafka"}

VARIABLES
    enabled,        \* the types with EnableL7, EnableL4, EnableMetrics set
    profilerOn,     \* EnableProfiler
    body,
    samples,        \* of a profiler payload, 0 for a body of lines
    header,         \* the message has the header "type: profiler"
    up,             \* the process runs
    worker,         \* the worker: "converting", "adding", "done"
    workerLine,     \* the line it converts next
    batch,          \* l7Batch, l4Batch and metricsBatch
    consumer,       \* the consumer: "filtering", "converting", "done"
    consumerLine,
    sender,         \* what each sender was given on each way: event and line
    received,       \* receivedCount
    profiled        \* the samples handed to SendLogs

inputVars == <<enabled, profilerOn, body, samples, header>>
workerVars == <<worker, workerLine, batch>>
consumerVars == <<consumer, consumerLine, received, profiled>>
vars == <<inputVars, up, workerVars, consumerVars, sender>>

Init ==
    /\ enabled \in SUBSET Types
    /\ profilerOn \in BOOLEAN
    /\ \/ body \in Bodies /\ samples = 0 /\ header = FALSE
       \/ body = <<>> /\ samples \in Payloads /\ header \in BOOLEAN
    /\ up = TRUE
    /\ worker = "converting" /\ workerLine = 1
    /\ batch = [t \in Types |-> <<>>]
    /\ consumer = "filtering" /\ consumerLine = 1
    /\ sender = [t \in Types |-> [way \in Ways |-> <<>>]]
    /\ received = 0 /\ profiled = 0

(* Both loops trim a line, skip it without a bar, and look at the flag of  *)
(* its type.                                                               *)
Routed(line) == line.type \in enabled

Converted(line) == IF Routed(line) THEN Conversions(line) ELSE {Dropped}

(* Nobody recovers: the process goes down.                                 *)
GoesDown ==
    /\ up' = FALSE
    /\ UNCHANGED <<inputVars, workerVars, consumerVars, sender>>
-----------------------------------------------------------------------------
(* processHTTPData converts all lines before it Adds the first.            *)
WorkerConverts ==
    /\ up /\ worker = "converting" /\ workerLine <= Len(body)
    /\ \E result \in Converted(body[workerLine]) :
          IF result.outcome = "panic" THEN GoesDown
          ELSE /\ batch' = IF result.outcome = "dropped" THEN batch
                           ELSE [batch EXCEPT ![body[workerLine].type] =
                                    Append(@, [event |-> result.item,
                                               line |-> workerLine])]
               /\ workerLine' = workerLine + 1
               /\ UNCHANGED <<inputVars, up, worker, consumerVars, sender>>

WorkerConverted ==
    /\ up /\ worker = "converting" /\ workerLine > Len(body)
    /\ worker' = "adding"
    /\ UNCHANGED <<inputVars, up, workerLine, batch, consumerVars, sender>>

(* The batches are Added one after the other, an event at a time.          *)
NextBatch ==
    IF batch["l7"] # <<>> THEN "l7" ELSE IF batch["l4"] # <<>> THEN "l4"
    ELSE "metrics"
WorkerAdds_LastFirst ==
    /\ up /\ worker = "adding" /\ batch[NextBatch] # <<>>
    /\ sender' = [sender EXCEPT ![NextBatch]["queue"] =
                      Append(@, batch[NextBatch][Len(batch[NextBatch])])]
    /\ batch' = [batch EXCEPT ![NextBatch] = SubSeq(@, 1, Len(@) - 1)]
    /\ UNCHANGED <<inputVars, up, worker, workerLine, consumerVars>>
WorkerAdds ==
    /\ up /\ worker = "adding" /\ batch[NextBatch] # <<>>
    /\ sender' = [sender EXCEPT ![NextBatch]["queue"] =
                      Append(@, Head(batch[NextBatch]))]
    /\ batch' = [batch EXCEPT ![NextBatch] = Tail(@)]
    /\ UNCHANGED <<inputVars, up, worker, workerLine, consumerVars>>

WorkerDone ==
    /\ up /\ worker = "adding" /\ batch[NextBatch] = <<>>
    /\ worker' = "done"
    /\ UNCHANGED <<inputVars, up, workerLine, batch, consumerVars, sender>>
-----------------------------------------------------------------------------
(* processMessage: the header, or a payload with samples.                  *)
IsProfiler == header \/ samples > 0

(* Without it, the type that stands before the first bar of the message,   *)
(* which nobody has trimmed, must be one that is switched on.              *)
PassesFilter_AllLines ==
    body # <<>> /\ \A i \in 1..Len(body) : body[i].type \in enabled
PassesFilter ==
    body # <<>> /\ body[1].type \in enabled /\ ~body[1].padded

ConsumerFilters ==
    /\ up /\ consumer = "filtering" /\ ~IsProfiler
    /\ IF PassesFilter
         THEN consumer' = "converting" /\ received' = received + 1
         ELSE consumer' = "done" /\ UNCHANGED received
    /\ UNCHANGED <<inputVars, up, workerVars, consumerLine, profiled, sender>>

(* processProfilerMessage counts the samples; sendProfilerToNewRelic makes *)
(* one request with the first of them, if there are any, and does not try  *)
(* again when it fails.                                                    *)
ConsumerProfiles_AllSamples ==
    /\ up /\ consumer = "filtering" /\ IsProfiler
    /\ received' = received + samples
    /\ profiled' = IF profilerOn THEN samples ELSE 0
    /\ consumer' = "done"
    /\ UNCHANGED <<inputVars, up, workerVars, consumerLine, sender>>
ConsumerProfiles ==
    /\ up /\ consumer = "filtering" /\ IsProfiler
    /\ received' = received + samples
    /\ profiled' = IF ~profilerOn THEN 0
                   ELSE IF samples > MaxSamples THEN MaxSamples ELSE samples
    /\ consumer' = "done"
    /\ UNCHANGED <<inputVars, up, workerVars, consumerLine, sender>>

(* ProcessKafkaMessage Adds each line as soon as it is converted.          *)
ConsumerConverts ==
    /\ up /\ consumer = "converting" /\ consumerLine <= Len(body)
    /\ \E result \in Converted(body[consumerLine]) :
          IF result.outcome = "panic" THEN GoesDown
          ELSE /\ sender' = IF result.outcome = "dropped" THEN sender
                            ELSE [sender EXCEPT
                                    ![body[consumerLine].type]["kafka"] =
                                        Append(@, [event |-> result.item,
                                                   line |-> consumerLine])]
               /\ consumerLine' = consumerLine + 1
               /\ UNCHANGED <<inputVars, up, workerVars, consumer, received,
                              profiled>>

ConsumerDone ==
    /\ up /\ consumer = "converting" /\ consumerLine > Len(body)
    /\ consumer' = "done"
    /\ UNCHANGED <<inputVars, up, workerVars, consumerLine, received, profiled,
                   sender>>
-----------------------------------------------------------------------------
Next ==
    \/ WorkerConverts \/ WorkerConverted \/ WorkerAdds \/ WorkerDone
    \/ ConsumerFilters \/ ConsumerProfiles \/ ConsumerConverts \/ ConsumerDone

Spec == Init /\ [][Next]_vars
-----------------------------------------------------------------------------
(* The reference: the lines of a type that are JSON objects.               *)
LinesOf(t) == {l \in 1..Len(body) : body[l].type = t /\ body[l].json # "broken"}

LinesIn(given) == {given[i].line : i \in 1..Len(given)}

LinesTypeOK ==
    /\ enabled \subseteq Types /\ up \in BOOLEAN
    /\ worker \in {"converting", "adding", "done"}
    /\ consumer \in {"filtering", "converting", "done"}
    /\ workerLine \in 1..(Len(body) + 1)
    /\ consumerLine \in 1..(Len(body) + 1)
    /\ DOMAIN sender = Types /\ DOMAIN batch = Types
    /\ received \in Nat /\ profiled \in 0..MaxSamples

(* The lines of a body reach the sender of their type in their order, none *)
(* twice and none left out between two others, on each way and however the *)
(* two interleave; and when the worker is done they all have: no line that *)
(* is an object is dropped on the way, for instance because a rate was not *)
(* finite.                                                                 *)
LinesArriveInOrder ==
    \A t \in enabled, way \in Ways :
        LET given == sender[t][way] IN
        /\ \A i, j \in 1..Len(given) : i < j => given[i].line < given[j].line
        /\ \A i \in 1..Len(given) :
              LinesOf(t) \cap 1..given[i].line
                  = {given[j].line : j \in 1..i}
        /\ worker = "done" /\ way = "queue" => LinesIn(given) = LinesOf(t)

(* An event says what the sidecar knows, whatever the agent wrote into the *)
(* line: the type of the sender that gets it and the time of ingestion.    *)
(* Senders of types that are switched off get nothing.                     *)
EventsAreStamped ==
    \A t \in Types, way \in Ways : \A i \in 1..Len(sender[t][way]) :
        LET event == sender[t][way][i].event IN
        /\ t \in enabled
        /\ event["eventType"] = Name(t)
        /\ event["ingest_timestamp"] = Now
        /\ "hostname" \in DOMAIN event

(* No measurement of a metrics line hides another: each value of each map  *)
(* is in the event under the name of its map and key, except that a value  *)
(* sent under the name of a derived one may be replaced by that.           *)
Derived == {"rrt_max_ms", "rrt_sum_ms"}
MeasurementsKept ==
    \A way \in Ways : \A i \in 1..Len(sender["metrics"][way]) :
        LET event == sender["metrics"][way][i].event
            meter == body[sender["metrics"][way][i].line].meter
        IN  \A section \in DOMAIN meter : \A k \in DOMAIN meter[section] :
                \/ section = "app_latency_" /\ k \in Derived
                \/ /\ Named(section, k) \in DOMAIN event
                   /\ event[Named(section, k)] = meter[section][k]

(* The lines that a key sent twice makes depend on the order of a map.     *)
Ambiguous(line) ==
    \/ "code" \in DOMAIN line.tagger /\ "code_bits" \in DOMAIN line.tagger
    \/ \E k \in DOMAIN InMillis :
          {k, InMillis[k]} \subseteq DOMAIN line.meter["app_latency_"]

(* What Kafka brings back is what the queue brought, event by event, or    *)
(* nothing of the body at all: and nothing only if its first line would    *)
(* not have been enough to let it through.                                 *)
KafkaMirrorsQueue ==
    worker = "done" /\ consumer = "done" =>
        IF \E t \in Types : sender[t]["kafka"] # <<>>
          THEN \A t \in Types :
                  LET queue == sender[t]["queue"]
                      kafka == sender[t]["kafka"]
                  IN  /\ Len(kafka) = Len(queue)
                      /\ \A i \in 1..Len(queue) :
                            /\ kafka[i].line = queue[i].line
                            /\ \/ Ambiguous(body[queue[i].line])
                               \/ kafka[i].event = queue[i].event
          ELSE (\E t \in Types : sender[t]["queue"] # <<>>) =>
                   ~(body[1].type \in enabled /\ ~body[1].padded)
=============================================================================
