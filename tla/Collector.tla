------------------------------ MODULE Collector ------------------------------
(***************************************************************************)
(* A BatchSender with the New Relic collector behind SendLogs of           *)
(* src/newrelic.go: what the collector has taken, which the sender only    *)
(* learns from the replies.  SendLogs makes one request per batch and      *)
(* turns its reply into an error, and isSizeLimitError of src/sender.go    *)
(* looks for a pattern, "413" among them, in the text of that error: the   *)
(* status line and body of a reply, or what the HTTP client reports when   *)
(* there is none, with the URL (it holds the account number) and often the *)
(* two addresses and ports of the connection.                              *)
(*                                                                         *)
(* The sender's own state and steps are BatchSender's.  The events it Adds *)
(* are JSON objects, so SendLogs skips none of them.                       *)
(***************************************************************************)
EXTENDS BatchSender

CONSTANT MaxLostReplies  \* bound on the replies that are lost

ASSUME MaxLostRepliesAssumption == MaxLostReplies \in Nat

VARIABLES
    copies,             \* how often the collector took each event
    lostReplies         \* history: batches it took whose reply was lost

collectorVars == <<vars, copies, lostReplies>>

Collected == {e \in 1..MaxEvents : copies[e] > 0}

CollectorInit ==
    /\ Init
    /\ copies = [e \in 1..MaxEvents |-> 0]
    /\ lostReplies = 0

CollectorTakesBatch ==
    copies' = [e \in 1..MaxEvents |->
                  IF e \in Window THEN copies[e] + 1 ELSE copies[e]]

(* How flushLocked treats an error, by whether its text has a pattern.     *)
ErrorHandled(sizePattern) == IF sizePattern THEN SendTooLarge ELSE SendFails
-----------------------------------------------------------------------------
(* Status 200 or 202.                                                      *)
ReplyAccepts ==
    /\ SendSucceeds
    /\ CollectorTakesBatch
    /\ UNCHANGED lostReplies

(* Status 413, another status with any body, or no connection at all.      *)
RequestRejected ==
    /\ \E sizePattern \in BOOLEAN : ErrorHandled(sizePattern)
    /\ UNCHANGED <<copies, lostReplies>>

(* The collector took the batch, but the connection broke or the client's  *)
(* 30 seconds were over before the reply arrived.                          *)
ReplyLost ==
    /\ lostReplies < MaxLostReplies
    /\ lostReplies' = lostReplies + 1
    /\ CollectorTakesBatch
    /\ \E sizePattern \in BOOLEAN : ErrorHandled(sizePattern)

(* Every step of the sender that makes no request.                         *)
SenderOnly ==
    \/ Start \/ Stop
    \/ \E size \in LogSizes : AddAccepted(size) \/ AddRejected(size)
    \/ SpawnedFlush \/ TickerFlush \/ RequestedFlush \/ FinalFlush
    \/ SplitOversized
    \/ Cooldown

CollectorNext ==
    \/ ReplyAccepts
    \/ RequestRejected
    \/ ReplyLost
    \/ SenderOnly /\ UNCHANGED <<copies, lostReplies>>

CollectorSpec == CollectorInit /\ [][CollectorNext]_collectorVars
-----------------------------------------------------------------------------
(* The collector sees the events in the order they were added, whatever    *)
(* was split, retried or sent again after a lost reply: it has no event    *)
(* while an older one is still waiting to reach it for the first time.     *)
CollectedInOrder ==
    \A f \in Collected : \A e \in 1..f : e \in Collected \/ e \in lost

(* Every copy the collector has is explained: an event that was confirmed  *)
(* it has, and each further copy of an event, confirmed or not, cost a     *)
(* lost reply.  Nothing is sent again that was confirmed, though the       *)
(* halves of a split batch share one array with what is still to be sent.  *)
CopiesExplained ==
    \A e \in 1..MaxEvents :
        IF e \in acked THEN copies[e] \in 1..(lostReplies + 1)
                       ELSE copies[e] \in 0..lostReplies

(* "isSizeLimitError checks if error is due to size limit" (sender.go:542):*)
(* a batch that the collector took is not taken for one that is too large. *)
OnlyTooLargeIsSplit ==
    [][copies' # copies => Len(ends') <= Len(ends)]_collectorVars
=============================================================================
