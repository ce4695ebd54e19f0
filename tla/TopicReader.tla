----------------------------- MODULE TopicReader -----------------------------
(***************************************************************************)
(* What the Kafka consumer (src/consumer.go) promises about a partition,   *)
(* without sessions, goroutines, a channel or Stop's order.  Messages are  *)
(* taken in the order of their offsets and may be processed in any order   *)
(* and more than once; a message is never committed before it was taken,   *)
(* a session goes back at most to what is committed, and a message that    *)
(* was taken is given up only while the reader is ending or when it dies.  *)
(***************************************************************************)
EXTENDS Naturals

CONSTANT Last           \* the messages of the partition are 1..Last

VARIABLES
    position,           \* the messages up to this one are taken
    pending,            \* taken and not yet processed
    committed,          \* the offset a new session starts after
    handled,            \* how often each message was processed
    ending              \* the reader has been told to stop

readerVars == <<position, pending, committed, handled, ending>>

ReaderInit ==
    /\ position = 0
    /\ pending = {}
    /\ committed = 0
    /\ handled = [m \in 1..Last |-> 0]
    /\ ending = FALSE

Take ==
    /\ position < Last
    /\ position' = position + 1
    /\ pending' = pending \cup {position + 1}
    /\ UNCHANGED <<committed, handled, ending>>

(* A message that was taken twice may be pending twice.                    *)
Finish(m) ==
    /\ m \in pending
    /\ handled' = [handled EXCEPT ![m] = @ + 1]
    /\ pending' \in {pending, pending \ {m}}
    /\ UNCHANGED <<position, committed, ending>>

Commit ==
    /\ committed' \in committed..position
    /\ UNCHANGED <<position, pending, handled, ending>>

(* The session is over: the next one takes what follows the last commit.   *)
Rewind ==
    /\ committed' \in committed..position
    /\ position' = committed'
    /\ UNCHANGED <<pending, handled, ending>>

End ==
    /\ ending' = TRUE
    /\ UNCHANGED <<position, pending, committed, handled>>

GiveUp(m) ==
    /\ ending
    /\ pending' = pending \ {m}
    /\ UNCHANGED <<position, committed, handled, ending>>

Die ==
    /\ position' = committed
    /\ pending' = {}
    /\ ending' = FALSE
    /\ UNCHANGED <<committed, handled>>

ReaderNext ==
    \/ Take
    \/ \E m \in pending : Finish(m) \/ GiveUp(m)
    \/ Commit
    \/ Rewind
    \/ End
    \/ Die

ReaderSpec == ReaderInit /\ [][ReaderNext]_readerVars
=============================================================================
