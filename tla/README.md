# Verification of the DeepFlow / New Relic sidecar

The sidecar is one Go process. It receives observability data of DeepFlow
agents over HTTP and from Kafka, sorts it by type, and sends it in batches to
New Relic. Nothing is persisted; what survives a crash is what Kafka and the
collector have.

This directory holds TLA+ modules that model the parts with state, TLC
configurations that check them on small instances, and proofs, checked by
TLAPS, of results that hold for every value of the constants.

    tlc -workers 2 -config Collector.cfg MCCollector         # check a run
    tlapm BatchSenderProofs.tla                              # check the proofs

## 1. Inventory

| Component | Source | State | Operations | What makes it correct |
|---|---|---|---|---|
| Adaptive sizing | `sender.go` 205-333 | batch size, average size, error and success counters, time of the last change | sample a size, estimate a batch, adjust after a success or failure | the size stays positive and within bounds, changes at most once per cooldown, grows only to what fits, falls while everything fails |
| BatchSender (one per event type) | `sender.go` | buffer `logs`, mutex, stop channel, counters | `Add`, `Start`, `Stop`, `flush`, `flushLocked`, `splitAndFlush` | no event lost or sent twice without the collector's doing, order, bounded buffer, Stop returns with the buffer drained or a failed request |
| Kafka consumer | `consumer.go` | message channel, workers, `stopped`, `ready`, the session's marks | `Start`, consume loop, `ConsumeClaim`, `messageWorker`, `Stop` | every message is processed; what a crash or a Stop can lose is bounded; repeats only after an uncommitted mark; Stop returns |
| HTTP handler and worker pool | `handler.go`, `worker.go` | `workQueue`, request counters | `handleDataAsync`, `worker`, `processHTTPData` | a 202 is a promise: the body reaches the senders |
| Kafka producer | `producer.go` | `closed`, the library's input channel, counters | `Send`, `Close`, the error reader | accepted bodies are in Kafka too; Send against Close |
| Processor and main | `processor.go`, `main.go` | the components and their order | `Start`, `Stop`, memory monitor, signals | each part is stopped after those that feed it, or the loss is understood; Stop ends |
| Profiler | `profiler.go`, `processor.go` 151-199 | three counters | filter, hand to Kafka; from Kafka: cap, send once | a 202 means the producer has the payload, whatever the moment of Close; counters |
| Line routing | `worker.go`, `processor.go`, `consumer.go`, `helper.go` | the batches of one body | split a body, choose a sender, build the event | HTTP and Kafka treat a line alike; no line lost or reordered, no value hidden by another |
| New Relic client | `newrelic.go` | an error counter | one HTTP request per call | success, 413 and other failures told apart |
| Broker resolver | `resolver.go` | a list of addresses | return it | - (nothing uses it) |
| Configuration | `config.go` | none | read the environment | - |

How they interact:

- `handleDataAsync` -> `KafkaProducer.Send` -> `workQueue` -> `worker` ->
  `BatchSender.Add`. The handler waits at most 50 ms for room in the queue.
- `handleProfilerData` -> `processProfilerData` -> the producer's `Input()`,
  past `Send` and its flag.
- Kafka -> `ConsumeClaim` -> `messageChannel` -> `messageWorker` ->
  `ProcessKafkaMessage` -> `BatchSender.Add`; with the channel full the claim
  processes the message itself.
- `BatchSender.Add` starts `go b.flush()`; the ticker, `/api/flush` and the
  memory monitor flush too. They share the buffer under one mutex, which a
  flush holds during its HTTP requests.
- `Processor.Stop`: close `workQueue`, wait for the workers, stop the senders,
  close the producer, stop the consumer, shut the HTTP server down. The server
  and the consumer still run while the senders stop.

What is hard here: the goroutines that contend for the sender's buffer, the
slices that move while a batch is split recursively, retries of failed
batches, integer arithmetic and counters updated in two places, marking
messages before they are processed, channels closed under their senders, and
the order of shutdown. The file PROJECT.json lists each at its line.

## 2. Modules

    AdaptiveBatch --> BatchSender --> Collector      BatchSender --(implements)--> EventOutbox
                                                                                   |
    KafkaConsumer --(implements)--> TopicReader      KafkaProducer              Sidecar --(implements)--> Ingest

    LineConversion --> LineRouting

An arrow is EXTENDS. The proofs are in AdaptiveBatchProofs, BatchSenderProofs,
CollectorProofs, KafkaConsumerProofs, KafkaDeliveryProofs, KafkaProducerProofs,
LineRoutingProofs and SidecarProofs.

- **AdaptiveBatch**: one operator per function of the sizing code, with its
  integer arithmetic, and an action per event (`Sampled`, `FlushFailed`,
  `FlushSucceeded`, `CooldownElapses`). Time is a flag, `cooling`. Counters the
  code only tests modulo a number are kept modulo it.
- **BatchSender** extends it with the buffer, the mutex and the goroutines. The
  slice `b.logs` is a window over the array `backing`; `ends` is the recursion
  stack of `splitAndFlush`. `Add` is `AddAccepted` or `AddRejected`; the four
  callers of `flush` are `SpawnedFlush`, `TickerFlush`, `RequestedFlush` and
  `FinalFlush`; one pass of `flushLocked` is `SplitOversized`, `SendSucceeds`,
  `SendFails` or `SendTooLarge`; its return is `FlushReturns`. `acked` and
  `lost` are history. The branch of `splitAndFlush` for a single event
  (`sender.go` 469-482) is not modelled: both callers test that the batch has
  at least two.
- **Collector** composes the sender with `SendLogs` and New Relic: each request
  of BatchSender gets an outcome. `ReplyAccepts` is a status 200 or 202,
  `RequestRejected` any failure before the batch was taken, `ReplyLost` a
  failure after it. How the sender treats a failure depends on the text of the
  error alone (`isSizeLimitError`), so each failure may go either way.
  `copies` is what New Relic holds.
- **EventOutbox** is the abstract specification of a sender: a bounded queue
  of numbered events whose oldest part is confirmed or forgotten. BatchSender
  implements it with `outbox <- SubSeq(backing, lo + 1, Len(backing))`.
- **KafkaConsumer** models the consumer on one partition, with the sessions of
  the consumer group library: where they start, marks, automatic and final
  commits, rebalances. `Start`'s goroutine is `LoopChecks`, `ConsumeFails`,
  `SessionStarts`; the claim is `ClaimQueues`, `ClaimTakesOver`,
  `ClaimProcesses`, `ClaimMarks`, `ClaimPanics`; a worker is `WorkerReceives`,
  `WorkerProcesses`, `WorkerReturns`; `Stop` is the five `Stop...` actions.
  `Crash` (a kill, or the panic of a message with a null line) and `Restart`
  keep only what the broker has.
- **TopicReader** is the abstract specification of a consumer: a position, the
  messages taken and not yet processed, what is committed. KafkaConsumer
  implements it; `pending` is the union of the channel, the workers and the
  claim, `position` follows the claim.
- **KafkaProducer** has one action per step of the two handlers that write to
  the producer (`Send...` and `Profile...`), the error reader (`HandleErrors`)
  and `Close`. sarama's AsyncProducer is external: it holds a bounded number of
  messages, each delivered or turned into an error that somebody must read;
  during `Close` it refuses further messages and reads errors itself.
- **LineConversion** holds the three converters of `helper.go` as operators on
  functions. An event is a function from keys to values; a number is a fraction,
  so a division by zero shows. A loop over a Go map gives the set of results of
  all orders (`InAnyOrder`): of the entries that write the same key, the one
  visited last stays. The code puts names together from a prefix and a key;
  `Named` does the same, so that two such names can collide.
- **LineRouting** follows one body on its two ways: `WorkerConverts`,
  `WorkerAdds` are the two loops of `processHTTPData`; `ConsumerFilters` is the
  test of `processMessage`, `ConsumerConverts` the loop of
  `ProcessKafkaMessage`, `ConsumerProfiles` what happens to a profiler payload.
  `sender[t][way]` holds, for each type and each way, the events the sender was
  given with the line each was made of; `GoesDown` is the panic of a line whose
  JSON is `null`.
- **Sidecar** composes the process from EventOutbox, the HTTP handler (one
  action per step of it that others can observe), the worker pool, the
  producer's flag and channel, the consumer as a source of events, and the
  phases of main and `Stop`. A body of `Lethal` holds an l7 or l4 line whose
  JSON is `null`: the assignment to its nil map panics (`helper.go` 29, 102),
  nothing recovers in a worker (`WorkerPanics`) or in the consumer
  (`ConsumerPanics`), and the process is gone in whatever phase it was. It uses
  EventOutbox where the process has a
  BatchSender, which is justified by the proved refinement; that the sender's
  and the consumer's `Stop` return is used as fairness and checked in their own
  modules.
- **Ingest** is the abstract specification of what the process promises of a
  POST: a body is handed to Kafka's producer, then accepted or turned away;
  offered to the sender once and before a Stop has drained the queue; delivered
  before an orderly exit unless the collector failed. The process may `Die` in
  any phase; an accepted body then stays where it was, but Kafka's producer has
  it. Sidecar implements it
  (`KeepsPromise`): `Fate` reads off the answer, the producer and the sender's
  events what has become of a body, `PromisePhase` reads the phase off `Stop`.

The MC modules only name model values and define sets.

## 3. Runs

| Run | Checks | Bounds |
|---|---|---|
| `sizing` | types and positivity, bounds, the average, cooldown, growth, shrinking under failures | sizes 15 and 40 around an average of 20, payload 500, queue 28: the ideal size lies below the minimum, between the bounds and above the maximum in turn |
| `sender` | types, queue bound, slice shape, accounting, order, final flush, order and number of copies at the collector, both refinements | 5 events, queue of 4, payload of about 3 events, one lost reply: batches split once and twice, and the queue overflows; the size may grow at every success (`GrowEvery` is 10 in the code, 1 here) |
| `sender_liveness` | events leave the buffer, Stop returns | 4 events, a queue of 3 (so that it fills) |
| `consumer` | bounded loss, repeats, nothing forgotten, the refinement of TopicReader | 2 workers, channel of 1, 4 messages, one crash (and the panic that a Stop can cause), one lost commit |
| `consumer_liveness` | every message is processed, Stop returns | 3 messages, no crash but the panic, one lost commit |
| `producer` | counters, the profiler's 202, handlers and Close return | 2 posts of data, 2 of profiles, a producer that holds 1 message |
| `lines` | lines arrive in order, events are stamped, no value hides another, both ways agree | every body of up to 3 lines over all ways to be routed, and single lines with every choice of the fields that can collide or divide by zero; every choice of enabled types |
| `sidecar` | every answer is true, the promise of an orderly exit, the refinement of Ingest, accepted bodies are processed unless the process goes down, Stop ends the process | 3 requests, 2 workers, queue of 1, outbox of 2, 2 messages, any of which may hold a null line: the queue and the sender both overflow; one of the bodies holds a null line |
| `split_loss`, `size_error`, `failure_grows_batch`, `growth_count` | the findings below | as above; `growth_count` and `failure_grows_batch` keep the ten of the code |

The bounds are enough for what is asked because each limit is small enough to
be hit: the channel, the queue, the producer and the buffer overflow, a batch
splits more than once, one worker is busy while another leaves. The safety
properties do not rest on them: they are proved for all values (section 4).
`MaxEvents`, `MaxLostReplies`, `MaxOffset`, `MaxCrashes`, `MaxLostCommits` and
`MaxMessages` only bound the exploration.

Deadlock is not checked in the sender, consumer, producer, lines and sidecar
runs: the process ends, and a bounded load is used up.

### Fairness

- Sender: a request to the collector returns (the HTTP client has a timeout),
  with any answer. The ticker keeps firing. The final flush gets strong
  fairness: `sync.Mutex` hands the lock to a goroutine that has starved, and
  `select` chooses among ready cases at random. `EventsLeaveTheBuffer` assumes
  in its own statement that the collector accepts a batch again and again.
- Consumer: goroutines run. A session is granted again and again even if the
  broker fails in between (strong fairness of `SessionStarts`), and closing
  the group ends the session: both are the library's. The claim gets strong
  fairness for receiving, because rebalances may interrupt it.
- Producer: handlers, the error reader and `Close` run; sarama settles a message
  after at most three retries, each with a timeout. Weak fairness is enough.
- Sidecar: workers run and each phase of Stop ends. No fairness is assumed of
  handlers: `Shutdown` has its own timeout. A worker that has taken a body
  with a null line has only the panic before it, and a message may bring one at
  any time, so `AcceptedGetsProcessed` names the crash as its one escape.

### Findings

1. `split_loss`: a first half that fails is dropped (`sender.go` 507). The
   comment at line 436 promises a retry; the events are counted nowhere.
2. `failure_grows_batch`: after `currentBatchSize` has fallen below
   `minBatchSize` (lines 299-304) the next failures raise it to the minimum,
   under a comment and a log message that say "reduce".
3. `growth_count`: "every 10 successful flushes" (line 317) is not what the
   counter counts; `successfulFlushes` is incremented at lines 315 and 451.

4. `size_error`: `isSizeLimitError` (line 542) looks for `413` anywhere in the
   text of the error, which contains the URL with the account number. With such
   a number every timeout is a size error, and a batch the collector already
   has is split and sent again.

The models also show, without contradicting a text of the repository: a Stop
of the consumer can panic when a claim sends to the closed channel
(`ClaimPanics`); messages added by the consumer after the senders' final flush
are lost at exit (`DeliveredAtExit` is about requests only, for this reason);
a body refused with 503 "Queue full" has always been handed to the Kafka
producer (`AnswersHold`); messages that
fail while `Close` waits are in no counter; a line whose JSON is `null` ends
the process (`GoesDown`, `WorkerPanics`, `ConsumerPanics`) with every body that
was answered with 202 and not yet processed; a body whose first line is of a type that is switched
off is not processed from Kafka at all, whatever its other lines are.

## 4. Proofs

The assumptions are those of the modules on their constants
(`SizingAssumption`, `MaxEventsAssumption` and those named below): positive
sizes and limits, any configured batch size. `MaxQueueSize = 0` is left out.
Every invariant and every action property of the passing runs, and the four
refinements, are theorems.

- **AdaptiveBatchProofs**. `SizingInv` says that the state is well typed, the
  batch size is in `1..Greater(MinBatchSize, MaxBatchSize)` and the average is
  positive. The last conjunct is needed because the average is divided by. From
  it: `SizingTypeCorrect`, `BatchSizeBounded`, `ChangesSpaced`, `GrowthFits`;
  `AverageStaysAnAverage` has an induction of its own.
- **BatchSenderProofs**. `OldestFirst` and `EveryEventAccountedFor` are not
  inductive. The strengthening says which numbers the buffer holds:
  `backing[i] = accepted - Len(backing) + i`, so the events in it are the
  newest ones, consecutively; and what is confirmed or lost is exactly
  `1..Settled` with `Settled = accepted - Len(backing) + lo`. With the shape of
  the slices (`SliceShape`) this is inductive. Lemma `StepKind` says what a step
  can do to the buffer (nothing, append, split, move to the next half, end
  with or without the window); one lemma per kind shows that the numbering
  survives, `SettledStep` that each event is settled once. From the invariant:
  `SenderTypeCorrect` (the limit of the buffer is a conjunct of it),
  `SlicesKeepShape`, `SenderOldestFirst`,
  `EventsAccountedFor`, `LoopDrains`, and the refinements
  `SenderImplementsSizing` and `SenderImplementsOutbox`.

  `flushLocked` and `splitAndFlush` call each other; that they come to an end
  while the mutex is held is `FlushTerminates`. `FlushLeft`, twice the events
  of the buffer that are not settled less the halves on the stack, is at least
  2 during a flush, and each pass lowers it or releases the mutex; nothing else
  changes it meanwhile. A flush of n events therefore makes at most 2n - 1
  passes. Lemma `FewEnds` is needed for the bound below: each half on the stack
  has an event of its own. This is the part of `StopReturns` that does not
  depend on fairness.

- **SidecarProofs**. Assumed: finitely many requests and at least one worker,
  positive capacities (`SidecarAssumption`). None of the promises is inductive.
  `ClosingOrder` says that main's phase tells whether the queue is closed, except
  after a crash, which may come before and after, and that the queue is closed
  before the producer's flag is set, so (`ProducedFirst`) a request that waits for an open queue has been
  produced. `NothingDropped` follows an acknowledged body from the queue to a
  worker to the sender, and `WorkersOutlastQueue` says that a worker leaves only
  a queue that is closed and empty; when Stop goes on nobody holds a body, hence
  `ProcessedWhenAccepted`. `DeliveryInv` adds that every event waits, is
  confirmed or is forgotten, and that after the senders' last flush only events
  from Kafka wait unless a request failed: `AcceptedIsDelivered`.

  `AnswersAreTrue` needs to know where a body is. `OnePlaceOnly`: it is in
  one place at most (the queue, a worker, the sender's events or those the full
  sender refused), once, and in none unless it was answered with 202. `WayInv`: which answers go with a body
  that the producer has. Both are needed together with the order of closing,
  because the select that writes to the queue comes after the test of the
  producer's flag.

  `SidecarKeepsPromise` is the refinement of Ingest. `PromiseInv` joins the
  invariants above and `Apart` (an event is waiting, confirmed or forgotten,
  never two of them). One lemma per group of actions names the step of Ingest
  that it is: an answer is `Copy`, `TurnAway` or `Welcome`
  (`HandlerKeepsPromise`); a worker's Add is `Offer` (`WorkerKeepsPromise`),
  enabled there because a busy worker keeps Stop from going on; a flush is
  `Deliver` or `Lose` of the bodies among the events it takes
  (`ConfirmDelivers`, `ForgetLoses`, from `SettledBodies`); the end of the drain
  is `Drain` because no body is left accepted (`DrainedLeavesNone`), and the
  exit is `Exit` because what the sender still holds came from Kafka
  (`ExitLeavesNone`); a panic, of a worker, of the consumer or of its claim, is
  `Die` in whatever phase it comes (`DyingKeepsPromise`). Everything else leaves each fate as it was
  (`FatesStay`).

  `CrashCostsFew` says what a panic can cost: by `NothingDropped` the bodies
  answered with 202 and not yet offered to a sender are in the queue or with a
  worker, so there are at most `QueueSize + Cardinality(Workers)` of them at any
  moment, and the producer was given each.

  `DrainEnds` is the part of `StopEndsTheProcess` and `AcceptedGetsProcessed` that
  needs no fairness. `DrainLeft`, twice the bodies in the queue and one for
  each busy and each living worker, is at most
  `2 * QueueSize + 2 * Cardinality(Workers)` once the queue is closed, is 0
  exactly when Stop may go on, falls with every step of a worker that the
  process survives and is
  touched by no other step: a handler cannot put one more body in. `StopEnds`
  carries it on to the end of `Processor.Stop`: with one step for each of its
  six phases (`StopLeft`) there are at most
  `2 * QueueSize + 2 * Cardinality(Workers) + 6`, none is left exactly when the
  process is gone, and whatever requests, messages and flushes come meanwhile,
  they neither add nor take back one; a panic leaves none.

- **CollectorProofs**. Every step of Collector is a step of BatchSender or
  leaves it alone (`CollectorImplementsSender`), so the sender's invariant holds
  here too. With it the numbering of the window says which events a request
  carries: all that are older are settled. `CollectedInOrder` and
  `CopiesExplained` are then inductive together: an event beyond the window has
  no copy at all, one in it has at most one per lost reply.
- **KafkaConsumerProofs**. `ClaimInv` ties the claim to the session and the
  marks to the offset it handles: marking is one behind, commits never ahead.
  From it the types, and that each action is a step of TopicReader or a stutter
  (`ConsumerImplementsReader`).

  The second part is about Stop. `StopInv` says what is over at each of its
  phases: a busy worker has not returned, and a claim that is gone after the
  group was closed does not come back. `StopEndsProcessing`: when Stop has
  returned no message is handled any more, which is what Sidecar assumes of
  its consumer when it lets `ConsumerAdds` end with Stop. `StopNeedsFewSteps`:
  `StopLeft` counts the busy and the living workers and the steps that the loop
  of `Start`, the claim and Stop itself have before them; after the channel is
  closed it is at most `2 * Cardinality(Workers) + 8`, is 0 exactly when Stop
  has returned, and every step but an automatic commit and a crash lowers it.
- **KafkaDeliveryProofs**. Assumed: finitely many workers (`ConsumerAssumption`).
  `NothingForgotten`: until a crash or a Stop each message that was taken is
  processed or pending (`KeptInv`). `RepeatsBounded`: the copies of a message,
  processed and pending ones together, are at most one for its place before
  the position and one for each crash and lost commit (`CopiesInv`); the
  pending ones must be counted because they will be processed. `LossBounded`:
  each crash drops at most what the channel and the workers hold, and a Stop
  one message for each worker that has left (`LossInv`).
- **KafkaProducerProofs**. Needs finitely many calls. `MessagesFollowCalls` says
  that a call has a message exactly when it is past `Input()`; each counter is
  then the cardinality of a set of calls that a step enlarges or shrinks by one.
  From it `ProducerTypeCorrect`, `CountersCorrect`, `AcceptedProfiles`.

  What `CallsReturn` says without its fairness is in two theorems.
  `ProducerNeverStuck`: a handler that writes to a full `Input()`, and Close
  while it waits, wait for a message that the producer has still to settle or
  for an error that `handleErrors` is there to read; it needs that
  `handleErrors` outlives Close and that Close leaves no message behind
  (`ClosedIsEmpty`). `ProducerComesToRest`: every step is one of at most
  `8 * Cardinality(Calls) + 4` and is never taken back (`OneIsDone`). The two
  together: where the steps end, nobody is left at `Input()`.
- **LineRoutingProofs**. Assumed: a body is a finite sequence of lines, each of
  them made of JSON objects whose numbers are finite (`RoutingAssumption`), and
  `NamesAssumption`: two names that `flattenMetrics` puts together are the same
  only if prefix and key are, and none is a name the code writes by itself. It
  holds for any keys, because none of the prefixes begins another one or such a
  name; it is assumed because the provers do not look into strings, and TLC
  evaluates it for the keys of the run.

  The first half is about conversions, for lines with any fields: what they
  return is stamped (`StampedIs` and one lemma per converter), holds no number
  that is not finite (`FiniteL7`, `FiniteL4` and their like, so `Marshal` never
  refuses an item), and a loop over a map keeps what it is given
  (`LoopWrites`, `LoopLeaves`; `OrderIrrelevant` where no two entries write the
  same key differently). That a set of writes has a last one needs induction;
  `LeastElement` gets it from the library's theorem that `<` is well-founded.

  The second half is `RoutingInv`: on each way the sender has, in order,
  exactly the lines of its type that the loop has come past, each with an event
  that a conversion of that line returns. On the queue's way these are the
  sender's events and the batch behind them, taken together: neither alone is
  inductive, since `WorkerAdds` moves an event from one to the other. On
  Kafka's way the position of the loop also says what the filter decided. From
  it `LinesTypes`, `OrderedLines`, `StampedEvents`, `MeasurementsStay`,
  `KafkaMirrors`, and `LinesHaveOutcomes`: the set `Conversions(line)` is never
  empty, so no line makes one of the loops of the model stand still and hides
  what comes after it.

Only model-checked is liveness, which TLAPS does not prove under fairness:
`FailuresShrinkTheBatch`, `EventsLeaveTheBuffer`, `StopReturns`,
`EveryMessageIsProcessed`, `StopTerminates` (of the consumer),
`StopEndsTheProcess`,
`CallsReturn` and `AcceptedGetsProcessed`. Of most of them the measure behind
them is proved (`FlushTerminates`, `DrainEnds`, `StopEnds`, `StopNeedsFewSteps`,
`ProducerComesToRest`): how many steps are left at most, and that none is taken
back. That the steps left are taken is fairness and stays with TLC. The
refinements proved are of safety; EventOutbox, TopicReader and Ingest promise
nothing more.

## 5. Not modelled

- Of the contents of events: texts and their formatting (the stack traces of
  profiles, the bytes of a MAC address), the range of float64 (a number so
  large that a product overflows is not finite either), the values of clocks.
  In the other modules a request body, or a Kafka message, is one event.
- The statistics endpoints, duration metrics, the debug file, logging. A
  reader may see `totalSent` in the middle of an update (`sender.go` 572).
- `SendEvent`, `SendEventBatch`, `processProfilerDataFromKafka` and
  `resolver.go`: nothing calls them.
- The offset policy "newest", several partitions, the library's own retries.
- A disabled sender, producer or consumer, and signals before main waits for
  them.
- `config.go` reads constants. (Its struct tags and `LoadConfig` give
  different defaults for some settings; only `LoadConfig` is executed.)

## 6. Plan

Done: all modules above; all their invariants, action properties and
refinements are proved.

Next: Sidecar with TopicReader in place of its free consumer, and with the
producer's errors, so that the messages of the consumer are tied to the bodies
produced. The theorems of SidecarProofs, `SidecarKeepsPromise` among them, then
need a part on the position of the reader.
