---------------------------- MODULE KafkaProducer ----------------------------
(***************************************************************************)
(* The Kafka producer (src/producer.go) and the two handlers that use it:  *)
(* handleDataAsync through Send, and handleProfilerData through            *)
(* processProfilerData (src/profiler.go), which writes to Input() itself   *)
(* and does not look at kp.closed.                                         *)
(*                                                                         *)
(* sarama's AsyncProducer is external: it takes a message from Input()     *)
(* while it holds fewer than MaxInFlight, and in the end delivers it or    *)
(* offers an error, which holds its place until somebody reads Errors().   *)
(* After Close is called it turns every further message into an error;     *)
(* Close reads errors too, and closes both channels when nothing is left.  *)
(* A call is one request and its message.                                  *)
(*                                                                         *)
(* The names with an underscore are what a plausible slip in the           *)
(* definition that follows them would leave; no action uses them.          *)
(***************************************************************************)
EXTENDS Integers, FiniteSets

CONSTANTS
    DataCalls,      \* POSTs of data, which call Send
    ProfileCalls,   \* POSTs of a profiler payload
    MaxInFlight     \* what the AsyncProducer holds

ASSUME ProducerAssumption ==
    /\ IsFiniteSet(DataCalls) /\ IsFiniteSet(ProfileCalls)
    /\ DataCalls \cap ProfileCalls = {}
    /\ MaxInFlight \in Nat \ {0}

Calls == DataCalls \cup ProfileCalls

VARIABLES
    call,           \* where each call is
    payload,        \* what each profiler payload holds
    message,        \* what became of the message of each call
    sentCount, profilerSent, errorCount,
    closed,         \* kp.closed
    close,          \* Close: "open", "flagged", "waiting", "returned"
    reader          \* handleErrors runs

callVars == <<call, payload>>
counters == <<sentCount, profilerSent, errorCount>>
closeVars == <<closed, close>>
vars == <<callVars, message, counters, closeVars, reader>>

Stages == {"absent", "checking", "counting", "inputting", "handed",
           "returned", "refused", "aborted"}

Init ==
    /\ call = [c \in Calls |-> "absent"]
    /\ payload \in [ProfileCalls -> {"real", "idle", "broken"}]
    /\ message = [c \in Calls |-> "none"]
    /\ sentCount = 0 /\ profilerSent = 0 /\ errorCount = 0
    /\ closed = FALSE /\ close = "open" /\ reader = TRUE

Moves(c, from, to) == call[c] = from /\ call' = [call EXCEPT ![c] = to]

Held == {c \in Calls : message[c] \in {"inflight", "failed"}}
Handed == {c \in Calls : message[c] # "none"}
-----------------------------------------------------------------------------
(* A request comes; both handlers may refuse it (method, rate limit, mode).*)
Arrive(c) ==
    /\ Moves(c, "absent", "checking")
    /\ UNCHANGED <<payload, message, counters, closeVars, reader>>

Refuse(c) ==
    /\ Moves(c, "checking", "refused")
    /\ UNCHANGED <<payload, message, counters, closeVars, reader>>

(* Send returns nil once kp.closed is set; else it counts, then it writes. *)
SendChecks_CountsFirst(c) ==
    /\ Moves(c, "checking", IF closed THEN "returned" ELSE "inputting")
    /\ sentCount' = sentCount + 1
    /\ UNCHANGED <<payload, message, profilerSent, errorCount, closeVars, reader>>
SendChecks(c) ==
    /\ Moves(c, "checking", IF closed THEN "returned" ELSE "counting")
    /\ UNCHANGED <<payload, message, counters, closeVars, reader>>

SendCounts(c) ==
    /\ Moves(c, "counting", "inputting")
    /\ sentCount' = sentCount + 1
    /\ UNCHANGED <<payload, message, profilerSent, errorCount, closeVars, reader>>

(* Input() <- msg.  On a closed channel it panics, and net/http recovers.  *)
Inputs(c, next) ==
    /\ \/ /\ close # "returned" /\ Cardinality(Held) < MaxInFlight
          /\ Moves(c, "inputting", next)
          /\ message' = [message EXCEPT
                            ![c] = IF close = "waiting" THEN "failed"
                                   ELSE "inflight"]
       \/ /\ close = "returned"
          /\ Moves(c, "inputting", "aborted")
          /\ UNCHANGED message
    /\ UNCHANGED <<payload, counters, closeVars, reader>>

SendInputs(c) == Inputs(c, "returned")

(* processProfilerData: a body that is not JSON is an error (500); without *)
(* a sample of a real process there is nothing to send, and the answer is  *)
(* 202.                                                                    *)
ProfileChecks_LooksAtClosed(c) ==
    /\ Moves(c, "checking", CASE payload[c] = "broken" -> "refused"
                              [] payload[c] = "idle" \/ closed -> "returned"
                              [] OTHER -> "inputting")
    /\ UNCHANGED <<payload, message, counters, closeVars, reader>>
ProfileChecks(c) ==
    /\ Moves(c, "checking", CASE payload[c] = "broken" -> "refused"
                              [] payload[c] = "idle" -> "returned"
                              [] OTHER -> "inputting")
    /\ UNCHANGED <<payload, message, counters, closeVars, reader>>

ProfileInputs(c) == Inputs(c, "handed")

(* profilerSent, and profilerSamples with it, are added to afterwards.     *)
ProfileCounts_InSentCount(c) ==
    /\ Moves(c, "handed", "returned")
    /\ profilerSent' = profilerSent + 1 /\ sentCount' = sentCount + 1
    /\ UNCHANGED <<payload, message, errorCount, closeVars, reader>>
ProfileCounts(c) ==
    /\ Moves(c, "handed", "returned")
    /\ profilerSent' = profilerSent + 1
    /\ UNCHANGED <<payload, message, sentCount, errorCount, closeVars, reader>>

DataHandler(c) == SendChecks(c) \/ SendCounts(c) \/ SendInputs(c)
ProfileHandler(c) == ProfileChecks(c) \/ ProfileInputs(c) \/ ProfileCounts(c)
-----------------------------------------------------------------------------
(* The AsyncProducer is done with a message.                               *)
Settles(c) ==
    /\ message[c] = "inflight"
    /\ \E outcome \in {"delivered", "failed"} :
          message' = [message EXCEPT ![c] = outcome]
    /\ UNCHANGED <<callVars, counters, closeVars, reader>>

(* handleErrors reads and counts an error.                                 *)
HandleErrors_StopsAtFirst ==
    /\ reader
    /\ \E c \in Calls :
          /\ message[c] = "failed"
          /\ message' = [message EXCEPT ![c] = "counted"]
    /\ errorCount' = errorCount + 1
    /\ reader' = FALSE
    /\ UNCHANGED <<callVars, sentCount, profilerSent, closeVars>>
HandleErrors ==
    /\ reader
    /\ \E c \in Calls :
          /\ message[c] = "failed"
          /\ message' = [message EXCEPT ![c] = "counted"]
    /\ errorCount' = errorCount + 1
    /\ UNCHANGED <<callVars, sentCount, profilerSent, closeVars, reader>>

(* The range loop ends when Errors() is closed.                            *)
HandleErrorsReturns ==
    /\ reader /\ close = "returned"
    /\ reader' = FALSE
    /\ UNCHANGED <<callVars, message, counters, closeVars>>
-----------------------------------------------------------------------------
(* Close, which Stop calls while handlers still run.                       *)
CloseFlags ==
    /\ close = "open"
    /\ closed' = TRUE /\ close' = "flagged"
    /\ UNCHANGED <<callVars, message, counters, reader>>

CloseWaits ==
    /\ close = "flagged"
    /\ close' = "waiting"
    /\ UNCHANGED <<callVars, message, counters, closed, reader>>

(* producer.Close() takes errors that handleErrors then does not see.      *)
CloseCollects ==
    /\ close = "waiting"
    /\ \E c \in Calls :
          /\ message[c] = "failed"
          /\ message' = [message EXCEPT ![c] = "collected"]
    /\ UNCHANGED <<callVars, counters, closeVars, reader>>

CloseReturns ==
    /\ close = "waiting" /\ Held = {}
    /\ close' = "returned"
    /\ UNCHANGED <<callVars, message, counters, closed, reader>>
-----------------------------------------------------------------------------
Next ==
    \/ \E c \in Calls : Arrive(c) \/ Refuse(c) \/ Settles(c)
    \/ \E c \in DataCalls : DataHandler(c)
    \/ \E c \in ProfileCalls : ProfileHandler(c)
    \/ HandleErrors \/ HandleErrorsReturns
    \/ CloseFlags \/ CloseWaits \/ CloseCollects \/ CloseReturns

Spec == Init /\ [][Next]_vars

(* Goroutines run.  A message is settled after at most three retries, each *)
(* with a timeout.                                                         *)
Fairness ==
    /\ \A c \in DataCalls : WF_vars(DataHandler(c))
    /\ \A c \in ProfileCalls : WF_vars(ProfileHandler(c))
    /\ \A c \in Calls : WF_vars(Settles(c))
    /\ WF_vars(HandleErrors) /\ WF_vars(HandleErrorsReturns)
    /\ WF_vars(CloseWaits) /\ WF_vars(CloseCollects) /\ WF_vars(CloseReturns)

FairSpec == Spec /\ Fairness
-----------------------------------------------------------------------------
ProducerTypeOK ==
    /\ call \in [Calls -> Stages]
    /\ payload \in [ProfileCalls -> {"real", "idle", "broken"}]
    /\ message \in [Calls -> {"none", "inflight", "failed", "delivered",
                              "counted", "collected"}]
    /\ Cardinality(Held) <= MaxInFlight
    /\ sentCount \in 0..Cardinality(DataCalls)
    /\ profilerSent \in 0..Cardinality(ProfileCalls)
    /\ errorCount \in 0..Cardinality(Calls)
    /\ closed \in BOOLEAN /\ reader \in BOOLEAN
    /\ close \in {"open", "flagged", "waiting", "returned"}

(* The counters of /health at any moment: sentCount is never behind the    *)
(* messages that Send has handed over, and ahead of them only by the calls *)
(* that are about to write or were aborted; profilerSent is never ahead.   *)
(* Until Stop closes the producer, every message that reached neither the  *)
(* topic nor the producer's hands is in errorCount.                        *)
CountersAgree ==
    /\ sentCount = Cardinality(Handed \cap DataCalls)
                     + Cardinality({c \in DataCalls :
                                       call[c] \in {"inputting", "aborted"}})
    /\ profilerSent + Cardinality({c \in ProfileCalls : call[c] = "handed"})
         = Cardinality(Handed \cap ProfileCalls)
    /\ close \in {"open", "flagged"} =>
         Handed = Held \cup {c \in Calls : message[c] \in {"delivered", "counted"}}
           /\ errorCount = Cardinality({c \in Calls : message[c] = "counted"})

(* A profiler payload with samples that is answered with 202 has been      *)
(* handed to the producer, at whatever moment of Close it comes: the       *)
(* handler that finds Input() closed gives no answer.                      *)
AcceptedProfileIsHandedOver ==
    \A c \in ProfileCalls :
        call[c] = "returned" /\ payload[c] = "real" => c \in Handed

(* Nobody waits for ever for a producer whose errors are not read: a       *)
(* handler that has begun returns, and so does Close.                      *)
CallsReturn ==
    /\ \A c \in Calls :
          call[c] \in {"checking", "counting", "inputting", "handed"}
              ~> call[c] \in {"returned", "refused", "aborted"}
    /\ close = "flagged" ~> close = "returned"
=============================================================================
