----------------------------- MODULE EventOutbox -----------------------------
(***************************************************************************)
(* What a BatchSender (src/sender.go) promises about the events it is      *)
(* given, without batches, goroutines, locks or sizes.  Events are         *)
(* numbered as they are accepted.  The outbox is a queue: only its oldest  *)
(* events are ever confirmed, or forgotten.  Forgetting is what the code   *)
(* does to the failed first part of a batch it has split; it never forgets *)
(* the newest event, and an event that was confirmed is never sent again.  *)
(***************************************************************************)
EXTENDS Naturals, Sequences

CONSTANT Capacity

VARIABLES
    outbox,     \* the events that wait, oldest first
    accepted,   \* the number of events accepted
    rejected,   \* the number of events refused
    confirmed,  \* the events the collector confirmed
    forgotten   \* the events given up

outboxVars == <<outbox, accepted, rejected, confirmed, forgotten>>

Oldest(k) == {outbox[i] : i \in 1..k}
Without(k) == SubSeq(outbox, k + 1, Len(outbox))

OutboxInit ==
    /\ outbox = <<>>
    /\ accepted = 0
    /\ rejected = 0
    /\ confirmed = {}
    /\ forgotten = {}

Accept ==
    /\ Len(outbox) < Capacity
    /\ accepted' = accepted + 1
    /\ outbox' = Append(outbox, accepted + 1)
    /\ UNCHANGED <<rejected, confirmed, forgotten>>

Reject ==
    /\ Len(outbox) >= Capacity
    /\ rejected' = rejected + 1
    /\ UNCHANGED <<outbox, accepted, confirmed, forgotten>>

Confirm(k) ==
    /\ k <= Len(outbox)
    /\ outbox' = Without(k)
    /\ confirmed' = confirmed \cup Oldest(k)
    /\ UNCHANGED <<accepted, rejected, forgotten>>

Forget(k) ==
    /\ k < Len(outbox)
    /\ outbox' = Without(k)
    /\ forgotten' = forgotten \cup Oldest(k)
    /\ UNCHANGED <<accepted, rejected, confirmed>>

OutboxNext ==
    \/ Accept
    \/ Reject
    \/ \E k \in 1..Len(outbox) : Confirm(k) \/ Forget(k)

OutboxSpec == OutboxInit /\ [][OutboxNext]_outboxVars
=============================================================================
