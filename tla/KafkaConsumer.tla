---------------------------- MODULE KafkaConsumer ----------------------------
(***************************************************************************)
(* The Kafka consumer of src/consumer.go on one partition: the goroutine   *)
(* that consumes sessions, the claim that hands messages to a bounded      *)
(* channel or processes them itself when the channel is full, the pool of  *)
(* message workers, the marking and committing of offsets, Stop, and the   *)
(* restart of the process after a crash.                                   *)
(*                                                                         *)
(* A message is its offset.  Processing it (adding its events to the       *)
(* senders) takes time and counts when it ends.  The consumer group is a   *)
(* library: a session starts at the committed offset, marked offsets are   *)
(* committed now and then and, if the broker answers, when a session ends. *)
(*                                                                         *)
(* The names with an underscore are what a plausible slip in the           *)
(* definition that follows them would leave; no action uses them.          *)
(***************************************************************************)
EXTENDS Naturals, Sequences, FiniteSets

CONSTANTS
    Workers,        \* the workerCount goroutines messageWorker
    Capacity,       \* of messageChannel, workerCount * 10
    MaxOffset,      \* bound: the messages of the partition are 1..MaxOffset
    MaxCrashes,     \* bound on the crashes
    MaxLostCommits  \* bound on the sessions that end without a last commit

ASSUME ConsumerAssumption ==
    /\ IsFiniteSet(Workers) /\ Workers # {}
    /\ Capacity \in Nat \ {0}
    /\ MaxOffset \in Nat /\ MaxCrashes \in Nat /\ MaxLostCommits \in Nat

VARIABLES
    up,             \* the process runs
    started,        \* Start has returned
    stopped,        \* c.stopped
    channel,        \* messageChannel
    channelClosed,
    working,        \* the message each worker processes, 0 for none
    alive,          \* the workers that have not returned
    loop,           \* the consume goroutine: "checking", "consuming",
                    \* "session", "exited"
    claim,          \* ConsumeClaim: "none", "receiving", "inline", "marking"
    next,           \* the next offset the claim receives, or is handling
    marked,         \* offsets up to this one are marked in the session
    committed,      \* offsets up to this one are committed at the broker
    groupClosed,    \* consumerGroup.Close has been called
    stopPc,         \* where Stop is
    handled,        \* history: how often each message was processed
    crashes, lostCommits

processVars == <<up, started, stopped, channel, channelClosed, working,
                 alive, loop, claim, next, marked, groupClosed, stopPc>>
history == <<handled, crashes, lostCommits>>
vars == <<processVars, committed, history>>

Offsets == 1..MaxOffset

Init ==
    /\ up = TRUE
    /\ started = FALSE /\ stopped = FALSE
    /\ channel = <<>> /\ channelClosed = FALSE
    /\ working = [w \in Workers |-> 0] /\ alive = Workers
    /\ loop = "checking" /\ claim = "none" /\ next = 1 /\ marked = 0
    /\ groupClosed = FALSE /\ stopPc = "idle"
    /\ committed = 0
    /\ handled = [m \in Offsets |-> 0]
    /\ crashes = 0 /\ lostCommits = 0

Processed(m) == handled' = [handled EXCEPT ![m] = @ + 1]
-----------------------------------------------------------------------------
(* Start returns when the first session is set up, or after 30 seconds;    *)
(* main installs its signal handler, and so can stop, only after that.     *)
StartReturns ==
    /\ up /\ ~started
    /\ started' = TRUE
    /\ UNCHANGED <<up, stopped, channel, channelClosed, working, alive,
                   loop, claim, next, marked, groupClosed, stopPc, committed,
                   history>>

(* The consume goroutine reads c.stopped before each session.              *)
LoopChecks_Ignored ==
    /\ up /\ loop = "checking"
    /\ loop' = "consuming"
    /\ UNCHANGED <<up, started, stopped, channel, channelClosed,
                   working, alive, claim, next, marked, groupClosed, stopPc,
                   committed, history>>
LoopChecks ==
    /\ up /\ loop = "checking"
    /\ loop' = IF stopped THEN "exited" ELSE "consuming"
    /\ UNCHANGED <<up, started, stopped, channel, channelClosed,
                   working, alive, claim, next, marked, groupClosed, stopPc,
                   committed, history>>

(* Consume returns an error: the broker is away, or the group is closed.   *)
ConsumeFails ==
    /\ up /\ loop = "consuming"
    /\ loop' = "checking"
    /\ UNCHANGED <<up, started, stopped, channel, channelClosed,
                   working, alive, claim, next, marked, groupClosed, stopPc,
                   committed, history>>

(* A session starts where the last commit left off, and calls Setup.       *)
SessionStarts_OneBack ==
    /\ up /\ loop = "consuming" /\ ~groupClosed
    /\ loop' = "session"
    /\ claim' = "receiving"
    /\ next' = IF committed = 0 THEN 1 ELSE committed
    /\ marked' = IF committed = 0 THEN 0 ELSE committed - 1
    /\ UNCHANGED <<up, started, stopped, channel, channelClosed, working,
                   alive, groupClosed, stopPc, committed, history>>
SessionStarts_Newest ==
    /\ up /\ loop = "consuming" /\ ~groupClosed
    /\ loop' = "session"
    /\ claim' = "receiving"
    /\ next' = IF committed = 0 THEN MaxOffset + 1 ELSE committed + 1
    /\ marked' = next' - 1
    /\ UNCHANGED <<up, started, stopped, channel, channelClosed, working,
                   alive, groupClosed, stopPc, committed, history>>
SessionStarts ==
    /\ up /\ loop = "consuming" /\ ~groupClosed
    /\ loop' = "session"
    /\ claim' = "receiving"
    /\ next' = committed + 1
    /\ marked' = committed
    /\ UNCHANGED <<up, started, stopped, channel, channelClosed, working,
                   alive, groupClosed, stopPc, committed, history>>

(* The session ends between two messages: a rebalance, or Close.           *)
SessionEnds ==
    /\ up /\ claim = "receiving"
    /\ \/ committed' = marked /\ lostCommits' = lostCommits
       \/ /\ committed < marked /\ lostCommits < MaxLostCommits
          /\ committed' = committed /\ lostCommits' = lostCommits + 1
    /\ claim' = "none"
    /\ loop' = "checking"
    /\ UNCHANGED <<up, started, stopped, channel, channelClosed,
                   working, alive, next, marked, groupClosed, stopPc, handled,
                   crashes>>

(* The automatic commit of what is marked.                                 *)
AutoCommit ==
    /\ up /\ loop = "session"
    /\ committed < marked
    /\ committed' = marked
    /\ UNCHANGED <<processVars, history>>
-----------------------------------------------------------------------------
(* ConsumeClaim: the select sends to the channel if there is room.         *)
ClaimQueues_OneTooMany ==
    /\ up /\ claim = "receiving" /\ next <= MaxOffset
    /\ ~channelClosed /\ Len(channel) <= Capacity
    /\ channel' = Append(channel, next)
    /\ claim' = "marking"
    /\ UNCHANGED <<up, started, stopped, channelClosed, working, alive,
                   loop, next, marked, groupClosed, stopPc, committed, history>>
ClaimQueues ==
    /\ up /\ claim = "receiving" /\ next <= MaxOffset
    /\ ~channelClosed /\ Len(channel) < Capacity
    /\ channel' = Append(channel, next)
    /\ claim' = "marking"
    /\ UNCHANGED <<up, started, stopped, channelClosed, working, alive,
                   loop, next, marked, groupClosed, stopPc, committed, history>>

(* Otherwise it processes the message itself, before those in the channel. *)
ClaimTakesOver_Drops ==
    /\ up /\ claim = "receiving" /\ next <= MaxOffset
    /\ ~channelClosed /\ Len(channel) >= Capacity
    /\ claim' = "marking"
    /\ UNCHANGED <<up, started, stopped, channel, channelClosed,
                   working, alive, loop, next, marked, groupClosed, stopPc,
                   committed, history>>
ClaimTakesOver ==
    /\ up /\ claim = "receiving" /\ next <= MaxOffset
    /\ ~channelClosed /\ Len(channel) >= Capacity
    /\ claim' = "inline"
    /\ UNCHANGED <<up, started, stopped, channel, channelClosed,
                   working, alive, loop, next, marked, groupClosed, stopPc,
                   committed, history>>

ClaimProcesses ==
    /\ up /\ claim = "inline"
    /\ Processed(next)
    /\ claim' = "marking"
    /\ UNCHANGED <<up, started, stopped, channel, channelClosed,
                   working, alive, loop, next, marked, groupClosed, stopPc,
                   committed, crashes, lostCommits>>

ClaimMarks ==
    /\ up /\ claim = "marking"
    /\ marked' = next
    /\ next' = next + 1
    /\ claim' = "receiving"
    /\ UNCHANGED <<up, started, stopped, channel, channelClosed,
                   working, alive, loop, groupClosed, stopPc, committed,
                   history>>

(* The process goes down: every goroutine and the channel are gone.        *)
GoesDown ==
    /\ up' = FALSE
    /\ started' = FALSE /\ stopped' = FALSE
    /\ channel' = <<>> /\ channelClosed' = FALSE
    /\ working' = [w \in Workers |-> 0] /\ alive' = Workers
    /\ loop' = "checking" /\ claim' = "none" /\ next' = 1 /\ marked' = 0
    /\ groupClosed' = FALSE /\ stopPc' = "idle"
    /\ crashes' = crashes + 1
    /\ UNCHANGED <<committed, handled, lostCommits>>

(* A select with a send to a closed channel panics, default or not.        *)
ClaimPanics ==
    /\ up /\ claim = "receiving" /\ next <= MaxOffset
    /\ channelClosed
    /\ GoesDown

Crash ==
    /\ up /\ crashes < MaxCrashes
    /\ GoesDown

Restart ==
    /\ ~up /\ crashes <= MaxCrashes
    /\ up' = TRUE
    /\ UNCHANGED <<started, stopped, channel, channelClosed, working, alive,
                   loop, claim, next, marked, groupClosed, stopPc, committed,
                   history>>
-----------------------------------------------------------------------------
(* messageWorker: a message received after stopped was set is dropped, and *)
(* the worker returns, whatever else is in the channel.                    *)
WorkerReceives(w) ==
    /\ up /\ w \in alive /\ working[w] = 0 /\ channel # <<>>
    /\ channel' = Tail(channel)
    /\ IF stopped
         THEN alive' = alive \ {w} /\ UNCHANGED working
         ELSE working' = [working EXCEPT ![w] = Head(channel)]
              /\ UNCHANGED alive
    /\ UNCHANGED <<up, started, stopped, channelClosed, loop, claim,
                   next, marked, groupClosed, stopPc, committed, history>>

WorkerProcesses(w) ==
    /\ up /\ working[w] # 0
    /\ Processed(working[w])
    /\ working' = [working EXCEPT ![w] = 0]
    /\ UNCHANGED <<up, started, stopped, channel, channelClosed, alive,
                   loop, claim, next, marked, groupClosed, stopPc, committed,
                   crashes, lostCommits>>

(* It returns when the channel is closed and empty, or when it has waited  *)
(* 10 seconds and finds the consumer stopped and the channel empty.        *)
WorkerReturns_WhenIdle(w) ==
    /\ up /\ w \in alive /\ working[w] = 0 /\ channel = <<>>
    /\ alive' = alive \ {w}
    /\ UNCHANGED <<up, started, stopped, channel, channelClosed,
                   working, loop, claim, next, marked, groupClosed, stopPc,
                   committed, history>>
WorkerReturns(w) ==
    /\ up /\ w \in alive /\ working[w] = 0 /\ channel = <<>>
    /\ channelClosed \/ stopped
    /\ alive' = alive \ {w}
    /\ UNCHANGED <<up, started, stopped, channel, channelClosed,
                   working, loop, claim, next, marked, groupClosed, stopPc,
                   committed, history>>
-----------------------------------------------------------------------------
(* Stop, in its order.                                                     *)
StopBegins ==
    /\ up /\ started /\ stopPc = "idle"
    /\ stopped' = TRUE
    /\ stopPc' = "sleeping"
    /\ UNCHANGED <<up, started, channel, channelClosed, working, alive,
                   loop, claim, next, marked, groupClosed, committed, history>>

StopClosesChannel ==
    /\ up /\ stopPc = "sleeping"
    /\ channelClosed' = TRUE
    /\ stopPc' = "closing"
    /\ UNCHANGED <<up, started, stopped, channel, working, alive, loop,
                   claim, next, marked, groupClosed, committed, history>>

StopClosesGroup ==
    /\ up /\ stopPc = "closing" /\ ~groupClosed
    /\ groupClosed' = TRUE
    /\ UNCHANGED <<up, started, stopped, channel, channelClosed,
                   working, alive, loop, claim, next, marked, stopPc,
                   committed, history>>

StopGroupIsClosed ==
    /\ up /\ stopPc = "closing" /\ groupClosed /\ claim = "none"
    /\ stopPc' = "waiting"
    /\ UNCHANGED <<up, started, stopped, channel, channelClosed,
                   working, alive, loop, claim, next, marked, groupClosed,
                   committed, history>>

StopReturns ==
    /\ up /\ stopPc = "waiting" /\ alive = {} /\ loop = "exited"
    /\ stopPc' = "done"
    /\ UNCHANGED <<up, started, stopped, channel, channelClosed,
                   working, alive, loop, claim, next, marked, groupClosed,
                   committed, history>>
-----------------------------------------------------------------------------
Loop == LoopChecks \/ ConsumeFails \/ SessionStarts
Claim == ClaimQueues \/ ClaimTakesOver \/ ClaimProcesses \/ ClaimMarks
            \/ ClaimPanics
Worker(w) == WorkerReceives(w) \/ WorkerProcesses(w) \/ WorkerReturns(w)
Stopping == StopClosesChannel \/ StopClosesGroup \/ StopGroupIsClosed
               \/ StopReturns

Next ==
    \/ StartReturns
    \/ Loop
    \/ SessionEnds
    \/ AutoCommit
    \/ Claim
    \/ \E w \in Workers : Worker(w)
    \/ StopBegins
    \/ Stopping
    \/ Crash
    \/ Restart

(* Goroutines run; the broker, which may fail again and again, grants a    *)
(* session again and again; Close makes the session end.                   *)
Fairness ==
    /\ WF_vars(LoopChecks)
    /\ WF_vars(ConsumeFails)
    /\ SF_vars(SessionStarts)
    /\ WF_vars(Claim)
    /\ SF_vars(ClaimQueues \/ ClaimTakesOver)
    /\ SF_vars(groupClosed /\ SessionEnds)
    /\ \A w \in Workers : WF_vars(Worker(w))
    /\ WF_vars(Stopping)

SafetySpec == Init /\ [][Next]_vars
Spec == SafetySpec /\ Fairness
-----------------------------------------------------------------------------
(* The messages in the channel, with the workers, and with a claim that    *)
(* processes one itself.                                                   *)
Queued == {channel[i] : i \in 1..Len(channel)}
InHand == {working[w] : w \in Workers} \ {0}
Pending == Queued \cup InHand \cup (IF claim = "inline" THEN {next} ELSE {})

(* The messages committed at the broker that nobody processed or will.     *)
Forsaken == {m \in 1..committed :
                handled[m] = 0 /\ m \notin Pending}

TypeOK ==
    /\ up \in BOOLEAN /\ started \in BOOLEAN
    /\ stopped \in BOOLEAN /\ channelClosed \in BOOLEAN
    /\ groupClosed \in BOOLEAN
    /\ channel \in Seq(Offsets) /\ Len(channel) <= Capacity
    /\ working \in [Workers -> 0..MaxOffset]
    /\ alive \subseteq Workers
    /\ loop \in {"checking", "consuming", "session", "exited"}
    /\ claim \in {"none", "receiving", "inline", "marking"}
    /\ next \in 1..(MaxOffset + 1)
    /\ marked \in 0..MaxOffset /\ committed \in 0..MaxOffset
    /\ stopPc \in {"idle", "sleeping", "closing", "waiting", "done"}
    /\ handled \in [Offsets -> Nat]
    /\ crashes \in Nat /\ lostCommits \in Nat

(* Marking runs ahead of processing, but only by what the channel and the  *)
(* workers hold: a crash or a Stop loses at most that many messages, and   *)
(* nothing is lost without one.                                            *)
LossIsBounded ==
    Cardinality(Forsaken) <=
        (Capacity + Cardinality(Workers))
            * (crashes + (IF stopped THEN 1 ELSE 0))

(* A message is processed again only after a crash, or after a session     *)
(* whose last commit did not reach the broker.                             *)
RepeatsNeedALostCommit ==
    \A m \in Offsets : handled[m] <= 1 + crashes + lostCommits

(* While the process runs and is not stopped, every message that is marked *)
(* has been processed, in this run or before, or is in the hands of the    *)
(* channel, a worker or the claim.                                         *)
NothingMarkedIsForgotten ==
    crashes = 0 /\ ~stopped =>
        \A m \in 1..marked : handled[m] > 0 \/ m \in Pending

(* The consumer implements the reader: in every order of its goroutines    *)
(* messages are taken in order, committed only after they were taken, and  *)
(* given up only by a Stop or a crash.                                     *)
Position == IF claim = "none" THEN committed
            ELSE IF claim = "receiving" THEN next - 1 ELSE next

Reader == INSTANCE TopicReader
            WITH Last <- MaxOffset, position <- Position, pending <- Pending,
                 ending <- stopped
ImplementsReader == Reader!ReaderSpec

(* Every message of the partition is processed, unless the process stops   *)
(* or crashes first: no idle worker leaves, no message waits for ever.     *)
EveryMessageIsProcessed ==
    \A m \in Offsets : <>(handled[m] > 0 \/ stopped \/ crashes > 0)

(* Stop returns, unless the process goes down: the claim, the workers and  *)
(* the consume goroutine all find out.                                     *)
StopTerminates == stopPc = "sleeping" ~> (stopPc = "done" \/ ~up)
=============================================================================
