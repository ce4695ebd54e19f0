------------------------------- MODULE Ingest -------------------------------
(***************************************************************************)
(* What the process promises an agent about the bodies it POSTs            *)
(* (src/handler.go, src/worker.go, src/processor.go), without queues,      *)
(* workers, channels or the order in which Stop takes them down.  A body   *)
(* is handed to Kafka's producer before it may be accepted, and is         *)
(* accepted or turned away once and for good.  An accepted body is taken   *)
(* by the sender, or refused by a full one, once; a Stop waits for that.   *)
(* What the sender has taken is delivered or, when the collector fails,    *)
(* may be lost; an orderly exit leaves none behind unless the collector    *)
(* has failed.  The process may die at any moment before that; what it had *)
(* accepted or held then gets no further, but Kafka's producer was given   *)
(* it.                                                                     *)
(***************************************************************************)

CONSTANT Bodies

VARIABLES
    fate,       \* what has become of each body, see Fates
    phase,      \* "taking", "closed", "drained", "exited", "crashed"
    failed      \* the collector has failed a request

ingestVars == <<fate, phase, failed>>

Fates == {"open", "copied", "nowhere", "kafkaonly", "accepted", "held",
          "overflowed", "delivered", "lost"}

IngestInit ==
    /\ fate = [b \in Bodies |-> "open"]
    /\ phase = "taking"
    /\ failed = FALSE

Running == phase \in {"taking", "closed", "drained"}
Become(S, what) == fate' = [b \in Bodies |-> IF b \in S THEN what ELSE fate[b]]

Copy(b) ==
    /\ Running /\ fate[b] = "open"
    /\ Become({b}, "copied")
    /\ UNCHANGED <<phase, failed>>

(* Answered with anything but a 202, or not at all.                        *)
TurnAway(b) ==
    /\ Running
    /\ \/ fate[b] = "open" /\ Become({b}, "nowhere")
       \/ fate[b] = "copied" /\ Become({b}, "kafkaonly")
    /\ UNCHANGED <<phase, failed>>

(* The 202.                                                                *)
Welcome(b) ==
    /\ phase = "taking" /\ fate[b] = "copied"
    /\ Become({b}, "accepted")
    /\ UNCHANGED <<phase, failed>>

Offer(b) ==
    /\ phase \in {"taking", "closed"} /\ fate[b] = "accepted"
    /\ Become({b}, "held") \/ Become({b}, "overflowed")
    /\ UNCHANGED <<phase, failed>>

HeldBodies == {b \in Bodies : fate[b] = "held"}

Deliver(S) ==
    /\ Running /\ S \subseteq HeldBodies
    /\ Become(S, "delivered")
    /\ UNCHANGED <<phase, failed>>

Lose(S) ==
    /\ Running /\ S \subseteq HeldBodies
    /\ Become(S, "lost")
    /\ failed' = TRUE
    /\ UNCHANGED phase

Close ==
    /\ phase = "taking" /\ phase' = "closed"
    /\ UNCHANGED <<fate, failed>>

Drain ==
    /\ phase = "closed" /\ \A b \in Bodies : fate[b] # "accepted"
    /\ phase' = "drained"
    /\ UNCHANGED <<fate, failed>>

Exit ==
    /\ phase = "drained" /\ (HeldBodies = {} \/ failed)
    /\ phase' = "exited"
    /\ UNCHANGED <<fate, failed>>

Die ==
    /\ Running /\ phase' = "crashed"
    /\ UNCHANGED <<fate, failed>>

IngestNext ==
    \/ \E b \in Bodies : Copy(b) \/ TurnAway(b) \/ Welcome(b) \/ Offer(b)
    \/ \E S \in SUBSET Bodies : Deliver(S) \/ Lose(S)
    \/ Close \/ Drain \/ Exit \/ Die

IngestSpec == IngestInit /\ [][IngestNext]_ingestVars
=============================================================================
