------------------------- MODULE KafkaProducerProofs -------------------------
(***************************************************************************)
(* The counters of the producer, the promise of the profiler's 202, and    *)
(* that no handler and no Close waits for nobody, for any number of calls  *)
(* and any capacity of the AsyncProducer.                                  *)
(***************************************************************************)
EXTENDS KafkaProducer, FiniteSetTheorems, TLAPS

Types ==
    /\ call \in [Calls -> Stages]
    /\ payload \in [ProfileCalls -> {"real", "idle", "broken"}]
    /\ message \in [Calls -> {"none", "inflight", "failed", "delivered",
                              "counted", "collected"}]
    /\ sentCount \in Nat /\ profilerSent \in Nat /\ errorCount \in Nat
    /\ closed \in BOOLEAN /\ reader \in BOOLEAN
    /\ close \in {"open", "flagged", "waiting", "returned"}

(* A call has a message exactly when it has got past Input(), and only a   *)
(* payload with samples gets there.                                        *)
MessagesFollowCalls ==
    /\ \A c \in DataCalls :
          /\ call[c] # "handed"
          /\ message[c] # "none" => call[c] = "returned"
    /\ \A c \in ProfileCalls :
          /\ call[c] # "counting"
          /\ call[c] \in {"inputting", "handed"} => payload[c] = "real"
          /\ message[c] # "none" <=>
                \/ call[c] = "handed"
                \/ call[c] = "returned" /\ payload[c] = "real"

(* Close takes errors only once it waits.                                  *)
CollectedByClose ==
    close \in {"open", "flagged"} => \A c \in Calls : message[c] # "collected"

(* The sets that the counters count.                                       *)
HandedData == Handed \cap DataCalls
Writing == {c \in DataCalls : call[c] \in {"inputting", "aborted"}}
HandedProfiles == Handed \cap ProfileCalls
Uncounted == {c \in ProfileCalls : call[c] = "handed"}
CountedErrors == {c \in Calls : message[c] = "counted"}

Counts ==
    /\ sentCount = Cardinality(HandedData) + Cardinality(Writing)
    /\ profilerSent + Cardinality(Uncounted) = Cardinality(HandedProfiles)
    /\ errorCount = Cardinality(CountedErrors)
    /\ Cardinality(Held) <= MaxInFlight

PInv == Types /\ MessagesFollowCalls /\ CollectedByClose /\ Counts
-----------------------------------------------------------------------------
(* All the sets are finite, and so have a cardinality.                     *)
LEMMA SetsAreFinite ==
    /\ IsFiniteSet(Calls)
    /\ \A S \in SUBSET Calls : IsFiniteSet(S) /\ Cardinality(S) \in Nat
<1>1. IsFiniteSet(Calls)
    BY ProducerAssumption, FS_Union DEF Calls
<1>2. ASSUME NEW S \in SUBSET Calls
      PROVE  IsFiniteSet(S) /\ Cardinality(S) \in Nat
    BY <1>1, FS_Subset, FS_CardinalityType
<1>3. QED
    BY <1>1, <1>2

LEMMA SetsOfCalls ==
    /\ HandedData \in SUBSET Calls /\ Writing \in SUBSET Calls
    /\ HandedProfiles \in SUBSET Calls /\ Uncounted \in SUBSET Calls
    /\ CountedErrors \in SUBSET Calls /\ Held \in SUBSET Calls
    /\ HandedData' \in SUBSET Calls /\ Writing' \in SUBSET Calls
    /\ HandedProfiles' \in SUBSET Calls /\ Uncounted' \in SUBSET Calls
    /\ CountedErrors' \in SUBSET Calls /\ Held' \in SUBSET Calls
BY DEF HandedData, Writing, HandedProfiles, Uncounted, CountedErrors, Held,
       Handed, Calls

(* A set of calls that gains or loses one.                                 *)
LEMMA OneMore ==
    ASSUME NEW S \in SUBSET Calls, NEW c \in Calls, c \notin S
    PROVE  Cardinality(S \cup {c}) = Cardinality(S) + 1
BY SetsAreFinite, FS_AddElement

LEMMA OneLess ==
    ASSUME NEW S \in SUBSET Calls, NEW c \in S
    PROVE  Cardinality(S \ {c}) = Cardinality(S) - 1
BY SetsAreFinite, FS_RemoveElement
-----------------------------------------------------------------------------
(* The types, and the ties between calls and messages.                     *)
TiesOK == Types /\ MessagesFollowCalls /\ CollectedByClose

LEMMA TiesKept ==
    ASSUME TiesOK, [Next]_vars
    PROVE  TiesOK'
<1> USE DEF TiesOK, Types, Stages, MessagesFollowCalls, CollectedByClose,
            Moves, callVars, counters, closeVars
<1>0. DataCalls \cap ProfileCalls = {} /\ Calls = DataCalls \cup ProfileCalls
    BY ProducerAssumption DEF Calls
<1>1. ASSUME NEW c \in Calls, Arrive(c) PROVE TiesOK'
    BY <1>0, <1>1 DEF Arrive
<1>2. ASSUME NEW c \in Calls, Refuse(c) PROVE TiesOK'
    BY <1>0, <1>2 DEF Refuse
<1>3. ASSUME NEW c \in Calls, Settles(c) PROVE TiesOK'
    BY <1>0, <1>3 DEF Settles
<1>4. ASSUME NEW c \in DataCalls, SendChecks(c) PROVE TiesOK'
    BY <1>0, <1>4 DEF SendChecks
<1>5. ASSUME NEW c \in DataCalls, SendCounts(c) PROVE TiesOK'
    BY <1>0, <1>5 DEF SendCounts
<1>6. ASSUME NEW c \in DataCalls, SendInputs(c) PROVE TiesOK'
    BY <1>0, <1>6 DEF SendInputs, Inputs
<1>7. ASSUME NEW c \in ProfileCalls, ProfileChecks(c) PROVE TiesOK'
    BY <1>0, <1>7 DEF ProfileChecks
<1>8. ASSUME NEW c \in ProfileCalls, ProfileInputs(c) PROVE TiesOK'
    BY <1>0, <1>8 DEF ProfileInputs, Inputs
<1>9. ASSUME NEW c \in ProfileCalls, ProfileCounts(c) PROVE TiesOK'
    BY <1>0, <1>9 DEF ProfileCounts
<1>10. CASE HandleErrors
    BY <1>0, <1>10 DEF HandleErrors
<1>11. CASE CloseCollects
    BY <1>0, <1>11 DEF CloseCollects
<1>12. CASE HandleErrorsReturns \/ CloseFlags \/ CloseWaits \/ CloseReturns
    BY <1>12 DEF HandleErrorsReturns, CloseFlags, CloseWaits, CloseReturns
<1>13. CASE UNCHANGED vars
    BY <1>13 DEF vars
<1>14. QED
    BY <1>1, <1>2, <1>3, <1>4, <1>5, <1>6, <1>7, <1>8, <1>9, <1>10, <1>11,
       <1>12, <1>13 DEF Next, DataHandler, ProfileHandler
-----------------------------------------------------------------------------
(* A step that moves no call into or out of the sets, and settles no       *)
(* error, keeps the counts.                                                *)
LEMMA SameSets ==
    ASSUME Counts, UNCHANGED counters,
           HandedData' = HandedData, Writing' = Writing,
           HandedProfiles' = HandedProfiles, Uncounted' = Uncounted,
           CountedErrors' = CountedErrors, Held' \subseteq Held
    PROVE  Counts'
<1>1. Cardinality(Held') <= MaxInFlight
  <2>1. Held \in SUBSET Calls /\ IsFiniteSet(Held)
      BY SetsOfCalls, SetsAreFinite
  <2>2. Cardinality(Held') <= Cardinality(Held)
      BY <2>1, FS_Subset
  <2>3. Cardinality(Held) \in Nat /\ Cardinality(Held') \in Nat
      BY SetsOfCalls, SetsAreFinite
  <2>4. QED
      BY <2>2, <2>3, ProducerAssumption DEF Counts
<1>2. QED
    BY <1>1 DEF Counts, counters

(* Input() takes the message of a call.                                    *)
LEMMA InputsKeepsCounts ==
    ASSUME TiesOK, Counts,
           NEW c \in Calls, NEW next \in {"returned", "handed"}, Inputs(c, next),
           c \in DataCalls <=> next = "returned",
           c \in ProfileCalls <=> next = "handed"
    PROVE  Counts'
<1> USE DEF TiesOK, Types, MessagesFollowCalls, Moves, callVars, counters,
            closeVars
<1>0. DataCalls \cap ProfileCalls = {} /\ Calls = DataCalls \cup ProfileCalls
    BY ProducerAssumption DEF Calls
<1>1. call[c] = "inputting" /\ message[c] = "none"
    BY <1>0 DEF Inputs
<1>2. CASE close = "returned"
  <2>1. call' = [call EXCEPT ![c] = "aborted"] /\ message' = message
      BY <1>2 DEF Inputs
  <2>2. HandedData' = HandedData /\ HandedProfiles' = HandedProfiles
      BY <2>1 DEF HandedData, HandedProfiles, Handed
  <2>3. Writing' = Writing /\ Uncounted' = Uncounted
      BY <1>1, <2>1, <1>0 DEF Writing, Uncounted
  <2>4. CountedErrors' = CountedErrors /\ Held' = Held
      BY <2>1 DEF CountedErrors, Held
  <2>5. QED
      BY <2>2, <2>3, <2>4, SameSets DEF Inputs
<1>3. CASE close # "returned"
  <2>1. /\ Cardinality(Held) < MaxInFlight
        /\ call' = [call EXCEPT ![c] = next]
        /\ \E outcome \in {"inflight", "failed"} :
              message' = [message EXCEPT ![c] = outcome]
        /\ UNCHANGED <<sentCount, profilerSent, errorCount>>
      BY <1>3 DEF Inputs
  <2>2. Handed' = Handed \cup {c} /\ c \notin Handed
      BY <1>1, <2>1 DEF Handed
  <2>3. Held' = Held \cup {c} /\ c \notin Held
      BY <1>1, <2>1 DEF Held
  <2>4. CountedErrors' = CountedErrors
      BY <1>1, <2>1 DEF CountedErrors
  <2>5. Cardinality(Held') <= MaxInFlight
      BY <2>1, <2>3, OneMore, SetsOfCalls, SetsAreFinite, ProducerAssumption
  <2>6. CASE c \in DataCalls
    <3>1. HandedData' = HandedData \cup {c} /\ c \notin HandedData
        BY <2>2, <2>6 DEF HandedData
    <3>2. Writing' = Writing \ {c} /\ c \in Writing
        BY <1>1, <2>1, <2>6 DEF Writing
    <3>3. HandedProfiles' = HandedProfiles /\ Uncounted' = Uncounted
        BY <1>0, <2>1, <2>2, <2>6 DEF HandedProfiles, Uncounted
    <3>4. Cardinality(HandedData') = Cardinality(HandedData) + 1
        BY <3>1, OneMore, SetsOfCalls
    <3>5. Cardinality(Writing') = Cardinality(Writing) - 1
        BY <3>2, OneLess, SetsOfCalls
    <3>6. Cardinality(HandedData) \in Nat /\ Cardinality(Writing) \in Nat
        BY SetsOfCalls, SetsAreFinite
    <3>7. QED
        BY <2>1, <2>4, <2>5, <3>3, <3>4, <3>5, <3>6 DEF Counts
  <2>7. CASE c \in ProfileCalls
    <3>1. HandedProfiles' = HandedProfiles \cup {c} /\ c \notin HandedProfiles
        BY <2>2, <2>7 DEF HandedProfiles
    <3>2. Uncounted' = Uncounted \cup {c} /\ c \notin Uncounted
        BY <1>1, <2>1, <2>7 DEF Uncounted
    <3>3. HandedData' = HandedData /\ Writing' = Writing
        BY <1>0, <2>1, <2>2, <2>7 DEF HandedData, Writing
    <3>4. /\ Cardinality(HandedProfiles') = Cardinality(HandedProfiles) + 1
          /\ Cardinality(Uncounted') = Cardinality(Uncounted) + 1
        BY <3>1, <3>2, OneMore, SetsOfCalls
    <3>5. /\ Cardinality(HandedProfiles) \in Nat
          /\ Cardinality(Uncounted) \in Nat
        BY SetsOfCalls, SetsAreFinite
    <3>6. QED
        BY <2>1, <2>4, <2>5, <3>3, <3>4, <3>5 DEF Counts
  <2>8. QED
      BY <1>0, <2>6, <2>7
<1>4. QED
    BY <1>2, <1>3

(* Every step keeps the counts.                                            *)
LEMMA CountsKept ==
    ASSUME TiesOK, Counts, [Next]_vars
    PROVE  Counts'
<1> USE DEF TiesOK, Types, MessagesFollowCalls, Moves, callVars, closeVars
<1>0. DataCalls \cap ProfileCalls = {} /\ Calls = DataCalls \cup ProfileCalls
    BY ProducerAssumption DEF Calls
<1>1. ASSUME NEW c \in Calls, call[c] \in {"absent", "checking"},
             NEW to \in {"checking", "refused", "returned", "counting",
                         "inputting"},
             to = "inputting" => c \in ProfileCalls,
             call' = [call EXCEPT ![c] = to], UNCHANGED message,
             UNCHANGED counters
      PROVE  Counts'
  <2>1. HandedData' = HandedData /\ HandedProfiles' = HandedProfiles
      BY <1>1 DEF HandedData, HandedProfiles, Handed
  <2>2. Writing' = Writing /\ Uncounted' = Uncounted
      BY <1>0, <1>1 DEF Writing, Uncounted
  <2>3. CountedErrors' = CountedErrors /\ Held' = Held
      BY <1>1 DEF CountedErrors, Held
  <2>4. QED
      BY <1>1, <2>1, <2>2, <2>3, SameSets
<1>2. ASSUME NEW c \in Calls, Arrive(c) \/ Refuse(c) PROVE Counts'
    BY <1>1, <1>2 DEF Arrive, Refuse
<1>3. ASSUME NEW c \in DataCalls, SendChecks(c) PROVE Counts'
    BY <1>0, <1>1, <1>3 DEF SendChecks
<1>4. ASSUME NEW c \in ProfileCalls, ProfileChecks(c) PROVE Counts'
    BY <1>0, <1>1, <1>4 DEF ProfileChecks
<1>5. ASSUME NEW c \in DataCalls, SendCounts(c) PROVE Counts'
  <2>1. Writing' = Writing \cup {c} /\ c \notin Writing
      BY <1>0, <1>5 DEF SendCounts, Writing
  <2>2. HandedData' = HandedData /\ HandedProfiles' = HandedProfiles
      BY <1>5 DEF SendCounts, HandedData, HandedProfiles, Handed
  <2>3. Uncounted' = Uncounted
      BY <1>0, <1>5 DEF SendCounts, Uncounted
  <2>4. CountedErrors' = CountedErrors /\ Held' = Held
      BY <1>5 DEF SendCounts, CountedErrors, Held
  <2>5. Cardinality(Writing') = Cardinality(Writing) + 1
      BY <1>0, <2>1, OneMore, SetsOfCalls
  <2>6. Cardinality(HandedData) \in Nat /\ Cardinality(Writing) \in Nat
      BY SetsOfCalls, SetsAreFinite
  <2>7. QED
      BY <1>5, <2>2, <2>3, <2>4, <2>5, <2>6 DEF Counts, SendCounts
<1>6. ASSUME NEW c \in DataCalls, SendInputs(c) PROVE Counts'
    BY <1>0, <1>6, InputsKeepsCounts DEF SendInputs
<1>7. ASSUME NEW c \in ProfileCalls, ProfileInputs(c) PROVE Counts'
    BY <1>0, <1>7, InputsKeepsCounts DEF ProfileInputs
<1>8. ASSUME NEW c \in ProfileCalls, ProfileCounts(c) PROVE Counts'
  <2>1. Uncounted' = Uncounted \ {c} /\ c \in Uncounted
      BY <1>0, <1>8 DEF ProfileCounts, Uncounted
  <2>2. HandedData' = HandedData /\ HandedProfiles' = HandedProfiles
      BY <1>8 DEF ProfileCounts, HandedData, HandedProfiles, Handed
  <2>3. Writing' = Writing
      BY <1>0, <1>8 DEF ProfileCounts, Writing
  <2>4. CountedErrors' = CountedErrors /\ Held' = Held
      BY <1>8 DEF ProfileCounts, CountedErrors, Held
  <2>5. Cardinality(Uncounted') = Cardinality(Uncounted) - 1
      BY <2>1, OneLess, SetsOfCalls
  <2>6. Cardinality(Uncounted) \in Nat
      BY SetsOfCalls, SetsAreFinite
  <2>7. QED
      BY <1>8, <2>2, <2>3, <2>4, <2>5, <2>6 DEF Counts, ProfileCounts
<1>9. ASSUME NEW c \in Calls, message[c] # "none",
             message[c] # "counted",
             NEW outcome \in {"delivered", "failed", "collected"},
             outcome = "failed" => c \in Held,
             message' = [message EXCEPT ![c] = outcome], UNCHANGED call,
             UNCHANGED counters
      PROVE  Counts'
  <2>1. Handed' = Handed
      BY <1>9 DEF Handed
  <2>2. HandedData' = HandedData /\ HandedProfiles' = HandedProfiles
      BY <2>1 DEF HandedData, HandedProfiles
  <2>3. Writing' = Writing /\ Uncounted' = Uncounted
      BY <1>9 DEF Writing, Uncounted
  <2>4. CountedErrors' = CountedErrors /\ Held' \subseteq Held
      BY <1>9 DEF CountedErrors, Held
  <2>5. QED
      BY <1>9, <2>2, <2>3, <2>4, SameSets
<1>10. ASSUME NEW c \in Calls, Settles(c) PROVE Counts'
    BY <1>9, <1>10 DEF Settles, Held
<1>11. CASE CloseCollects
    BY <1>9, <1>11 DEF CloseCollects
<1>12. CASE HandleErrors
  <2>1. PICK c \in Calls : message[c] = "failed"
                           /\ message' = [message EXCEPT ![c] = "counted"]
      BY <1>12 DEF HandleErrors
  <2>2. CountedErrors' = CountedErrors \cup {c} /\ c \notin CountedErrors
      BY <2>1 DEF CountedErrors
  <2>3. Held' \subseteq Held
      BY <2>1 DEF Held
  <2>4. Handed' = Handed
      BY <2>1 DEF Handed
  <2>5. /\ HandedData' = HandedData /\ HandedProfiles' = HandedProfiles
        /\ Writing' = Writing /\ Uncounted' = Uncounted
      BY <1>12, <2>4
         DEF HandleErrors, HandedData, HandedProfiles, Writing, Uncounted
  <2>6. Cardinality(CountedErrors') = Cardinality(CountedErrors) + 1
      BY <2>2, OneMore, SetsOfCalls
  <2>7. Cardinality(Held') <= Cardinality(Held)
      BY <2>3, SetsOfCalls, SetsAreFinite, FS_Subset
  <2>8. Cardinality(Held) \in Nat /\ Cardinality(Held') \in Nat
      BY SetsOfCalls, SetsAreFinite
  <2>9. QED
      BY <1>12, <2>5, <2>6, <2>7, <2>8, ProducerAssumption
         DEF Counts, HandleErrors
<1>13. ASSUME UNCHANGED <<call, message, counters>> PROVE Counts'
  <2>1. /\ HandedData' = HandedData /\ HandedProfiles' = HandedProfiles
        /\ Writing' = Writing /\ Uncounted' = Uncounted
        /\ CountedErrors' = CountedErrors /\ Held' = Held
      BY <1>13 DEF HandedData, HandedProfiles, Writing, Uncounted,
                   CountedErrors, Held, Handed
  <2>2. QED
      BY <1>13, <2>1, SameSets
<1>14. CASE HandleErrorsReturns \/ CloseFlags \/ CloseWaits \/ CloseReturns
    BY <1>13, <1>14 DEF HandleErrorsReturns, CloseFlags, CloseWaits, CloseReturns
<1>15. CASE UNCHANGED vars
    BY <1>13, <1>15 DEF vars
<1>16. QED
    BY <1>2, <1>3, <1>4, <1>5, <1>6, <1>7, <1>8, <1>10, <1>11, <1>12, <1>14,
       <1>15 DEF Next, DataHandler, ProfileHandler
-----------------------------------------------------------------------------
LEMMA InitPInv == Init => PInv
<1> SUFFICES ASSUME Init PROVE PInv
    OBVIOUS
<1>1. Types
    BY DEF Init, Types, Stages
<1>2. MessagesFollowCalls /\ CollectedByClose
    BY DEF Init, MessagesFollowCalls, CollectedByClose, Calls
<1>3. /\ HandedData = {} /\ HandedProfiles = {} /\ CountedErrors = {}
      /\ Held = {}
    BY DEF Init, HandedData, HandedProfiles, CountedErrors, Held, Handed
<1>4. Writing = {} /\ Uncounted = {}
    BY DEF Init, Writing, Uncounted, Calls
<1>5. Cardinality({}) = 0
    BY FS_EmptySet
<1>6. Counts
    BY <1>3, <1>4, <1>5, ProducerAssumption DEF Init, Counts
<1>7. QED
    BY <1>1, <1>2, <1>6 DEF PInv

(* The inductive invariant: messages follow the calls, and each counter is *)
(* the number of calls it stands for.                                      *)
THEOREM ProducerInvariant == Spec => []PInv
<1>1. PInv /\ [Next]_vars => PInv'
    BY TiesKept, CountsKept DEF PInv, TiesOK
<1>2. QED
    BY InitPInv, <1>1, PTL DEF Spec

(* Types, and with them the bound on what the producer holds and that no   *)
(* counter exceeds the number of calls it is about.                        *)
THEOREM ProducerTypeCorrect == Spec => []ProducerTypeOK
<1>1. ASSUME PInv PROVE ProducerTypeOK
  <2> USE DEF PInv, Types, Counts
  <2>1. DataCalls \cap ProfileCalls = {} /\ Calls = DataCalls \cup ProfileCalls
      BY ProducerAssumption DEF Calls
  <2>2. IsFiniteSet(DataCalls) /\ IsFiniteSet(ProfileCalls)
      BY ProducerAssumption
  <2>3. sentCount <= Cardinality(DataCalls)
    <3>1. HandedData \cap Writing = {}
        BY <1>1, <2>1 DEF MessagesFollowCalls, HandedData, Writing, Handed
    <3>2. HandedData \cup Writing \subseteq DataCalls
        BY DEF HandedData, Writing
    <3>3. Cardinality(HandedData \cup Writing)
            = Cardinality(HandedData) + Cardinality(Writing) - Cardinality({})
        BY <3>1, FS_Union, SetsOfCalls, SetsAreFinite
    <3>4. Cardinality(HandedData \cup Writing) <= Cardinality(DataCalls)
        BY <2>2, <3>2, FS_Subset
    <3>5. Cardinality({}) = 0
        BY FS_EmptySet
    <3>6. Cardinality(HandedData) \in Nat /\ Cardinality(Writing) \in Nat
        BY SetsOfCalls, SetsAreFinite
    <3>7. QED
        BY <1>1, <3>3, <3>4, <3>5, <3>6
  <2>4. profilerSent <= Cardinality(ProfileCalls)
    <3>1. Cardinality(HandedProfiles) <= Cardinality(ProfileCalls)
        BY <2>2, FS_Subset DEF HandedProfiles
    <3>2. /\ Cardinality(HandedProfiles) \in Nat
          /\ Cardinality(Uncounted) \in Nat
          /\ Cardinality(ProfileCalls) \in Nat
        BY <2>2, SetsOfCalls, SetsAreFinite, FS_CardinalityType
    <3>3. QED
        BY <1>1, <3>1, <3>2
  <2>5. errorCount <= Cardinality(Calls)
      BY <1>1, SetsOfCalls, SetsAreFinite, FS_Subset
  <2>6. /\ Cardinality(DataCalls) \in Nat /\ Cardinality(ProfileCalls) \in Nat
        /\ Cardinality(Calls) \in Nat
      BY <2>2, SetsAreFinite, FS_CardinalityType
  <2>7. QED
      BY <1>1, <2>3, <2>4, <2>5, <2>6 DEF ProducerTypeOK
<1>2. QED
    BY ProducerInvariant, <1>1, PTL

(* What /health says of the producer agrees with what was handed to it.    *)
THEOREM CountersCorrect == Spec => []CountersAgree
<1>1. ASSUME PInv PROVE CountersAgree
  <2>1. /\ sentCount = Cardinality(Handed \cap DataCalls)
                         + Cardinality({c \in DataCalls :
                                 call[c] \in {"inputting", "aborted"}})
        /\ profilerSent + Cardinality({c \in ProfileCalls : call[c] = "handed"})
             = Cardinality(Handed \cap ProfileCalls)
        /\ errorCount = Cardinality({c \in Calls : message[c] = "counted"})
      BY <1>1 DEF PInv, Counts, HandedData, Writing, HandedProfiles, Uncounted,
                  CountedErrors
  <2>2. close \in {"open", "flagged"} =>
          Handed = Held \cup {c \in Calls : message[c] \in {"delivered", "counted"}}
      BY <1>1 DEF PInv, Types, CollectedByClose, Handed, Held
  <2>3. QED
      BY <2>1, <2>2 DEF CountersAgree
<1>2. QED
    BY ProducerInvariant, <1>1, PTL

(* A 202 for a payload with samples means that the producer has it.        *)
THEOREM AcceptedProfiles == Spec => []AcceptedProfileIsHandedOver
<1>1. PInv => AcceptedProfileIsHandedOver
    BY DEF PInv, MessagesFollowCalls, AcceptedProfileIsHandedOver, Handed, Calls
<1>2. QED
    BY ProducerInvariant, <1>1, PTL
-----------------------------------------------------------------------------
(* What CallsReturn asks for, as far as it needs no fairness.  The reader  *)
(* of the errors outlives Close, and Close leaves no message behind.       *)
ClosedIsEmpty ==
    /\ ~reader => close = "returned"
    /\ close = "returned" => Held = {}

LEMMA ClosedIsEmptyKept ==
    ASSUME PInv, ClosedIsEmpty, [Next]_vars
    PROVE  ClosedIsEmpty'
<1> USE DEF ClosedIsEmpty, Held, Moves, callVars, counters, closeVars
<1>1. ASSUME NEW c \in Calls, Arrive(c) \/ Refuse(c) PROVE ClosedIsEmpty'
    BY <1>1 DEF Arrive, Refuse
<1>2. ASSUME NEW c \in Calls, Settles(c) PROVE ClosedIsEmpty'
    BY <1>2 DEF Settles
<1>3. ASSUME NEW c \in DataCalls, DataHandler(c) PROVE ClosedIsEmpty'
    BY <1>3 DEF DataHandler, SendChecks, SendCounts, SendInputs, Inputs
<1>4. ASSUME NEW c \in ProfileCalls, ProfileHandler(c) PROVE ClosedIsEmpty'
    BY <1>4 DEF ProfileHandler, ProfileChecks, ProfileInputs, ProfileCounts,
                Inputs
<1>5. CASE HandleErrors
    BY <1>5 DEF HandleErrors
<1>6. CASE HandleErrorsReturns
    BY <1>6 DEF HandleErrorsReturns
<1>7. CASE CloseFlags \/ CloseWaits \/ CloseReturns
    BY <1>7 DEF CloseFlags, CloseWaits, CloseReturns
<1>8. CASE CloseCollects
    BY <1>8 DEF CloseCollects
<1>9. CASE UNCHANGED vars
    BY <1>9 DEF vars
<1>10. QED
    BY <1>1, <1>2, <1>3, <1>4, <1>5, <1>6, <1>7, <1>8, <1>9 DEF Next

(* A handler that waits at Input(), and Close while it waits, wait for     *)
(* somebody who is there: the producer, with a message it has not settled, *)
(* or handleErrors, with an error that nobody has read.                    *)
CanSettle == \E c \in Calls : message[c] = "inflight"
CanBeRead == reader /\ \E c \in Calls : message[c] = "failed"

NobodyIsStuck ==
    /\ \A c \in Calls :
          call[c] = "inputting" =>
              \/ close = "returned" \/ Cardinality(Held) < MaxInFlight
              \/ CanSettle \/ CanBeRead
    /\ close = "waiting" => Held = {} \/ CanSettle \/ CanBeRead

(* handleData and processProfilerData may write to Input() while it is     *)
(* full, and Stop may close the producer at any moment of it: none of them *)
(* ever waits for an error that nobody is left to read.                    *)
THEOREM ProducerNeverStuck == Spec => []NobodyIsStuck
<1>1. Init => ClosedIsEmpty
    BY DEF Init, ClosedIsEmpty
<1>2. PInv /\ ClosedIsEmpty /\ [Next]_vars => ClosedIsEmpty'
    BY ClosedIsEmptyKept
<1>3. PInv /\ ClosedIsEmpty => NobodyIsStuck
  <2>1. SUFFICES ASSUME PInv, ClosedIsEmpty
                 PROVE  NobodyIsStuck
      OBVIOUS
  <2>2. close \in {"open", "flagged", "waiting"} /\ Held # {}
          => CanSettle \/ CanBeRead
      BY <2>1 DEF ClosedIsEmpty, CanSettle, CanBeRead, Held
  <2>3. Held = {} => Cardinality(Held) < MaxInFlight
      BY FS_EmptySet, ProducerAssumption
  <2>4. QED
      BY <2>1, <2>2, <2>3 DEF NobodyIsStuck, PInv, Types
<1>4. QED
    BY <1>1, <1>2, <1>3, ProducerInvariant, PTL DEF Spec

(* The steps that each call, each message and Close still have before them.*)
CallRank(stage) == CASE stage = "absent" -> 5 [] stage = "checking" -> 4
                     [] stage = "counting" -> 3 [] stage = "inputting" -> 2
                     [] stage = "handed" -> 1 [] OTHER -> 0
MessageRank(m) == CASE m = "none" -> 3 [] m = "inflight" -> 2
                    [] m = "failed" -> 1 [] OTHER -> 0
CloseRank == CASE close = "open" -> 3 [] close = "flagged" -> 2
               [] close = "waiting" -> 1 [] OTHER -> 0

CallsLeft == {p \in Calls \X (1..5) : p[2] <= CallRank(call[p[1]])}
MessagesLeft == {p \in Calls \X (1..3) : p[2] <= MessageRank(message[p[1]])}
CloseLeft == 1..CloseRank
ReaderLeft == IF reader THEN {1} ELSE {}

Left == <<CallsLeft, MessagesLeft, CloseLeft, ReaderLeft>>
OneIsDone ==
    /\ CallsLeft' \subseteq CallsLeft /\ MessagesLeft' \subseteq MessagesLeft
    /\ CloseLeft' \subseteq CloseLeft /\ ReaderLeft' \subseteq ReaderLeft
    /\ Left' # Left

LEMMA RanksAreSmall ==
    /\ \A s \in Stages : CallRank(s) \in 0..5
    /\ \A m \in {"none", "inflight", "failed", "delivered", "counted",
                 "collected"} : MessageRank(m) \in 0..3
<1>1. ASSUME NEW s \in Stages PROVE CallRank(s) \in 0..5
    BY DEF Stages, CallRank
<1>2. ASSUME NEW m \in {"none", "inflight", "failed", "delivered", "counted",
                        "collected"}
      PROVE  MessageRank(m) \in 0..3
    BY DEF MessageRank
<1>3. QED
    BY <1>1, <1>2

(* A call that goes on, and a message that does, leaves a step behind.     *)
LEMMA CallGoesOn ==
    ASSUME Types, NEW c \in Calls, NEW to \in Stages,
           call' = [call EXCEPT ![c] = to],
           CallRank(to) < CallRank(call[c])
    PROVE  CallsLeft' \subseteq CallsLeft /\ CallsLeft' # CallsLeft
<1>1. /\ CallRank(to) \in 0..5 /\ CallRank(call[c]) \in 0..5
      /\ call'[c] = to /\ \A d \in Calls \ {c} : call'[d] = call[d]
    BY RanksAreSmall DEF Types
<1>2. /\ \A p \in Calls \X (1..5) : p \in CallsLeft <=> p[2] <= CallRank(call[p[1]])
      /\ \A p \in Calls \X (1..5) : p \in CallsLeft' <=> p[2] <= CallRank(call'[p[1]])
      /\ CallsLeft' \subseteq Calls \X (1..5)
    BY DEF CallsLeft, CallRank
<1>3. ASSUME NEW p \in Calls \X (1..5), p[2] <= CallRank(call'[p[1]])
      PROVE  p[2] <= CallRank(call[p[1]])
  <2>1. CASE p[1] = c
    <3>1. p[2] \in 1..5 /\ p[2] <= CallRank(to)
        BY <1>1, <1>3, <2>1
    <3>2. p[2] <= CallRank(call[c])
        BY <1>1, <3>1
    <3>3. QED
        BY <2>1, <3>2
  <2>2. CASE p[1] # c
      BY <1>1, <1>3, <2>2
  <2>3. QED
      BY <2>1, <2>2
<1>4. DEFINE q == <<c, CallRank(call[c])>>
<1>5. q \in Calls \X (1..5) /\ q[1] = c /\ q[2] = CallRank(call[c])
    BY <1>1
<1>6. q \in CallsLeft /\ q \notin CallsLeft'
    BY <1>1, <1>2, <1>5
<1>7. QED
    BY <1>2, <1>3, <1>6

LEMMA MessageGoesOn ==
    ASSUME Types, NEW c \in Calls,
           NEW to \in {"inflight", "failed", "delivered", "counted",
                       "collected"},
           message' = [message EXCEPT ![c] = to],
           MessageRank(to) < MessageRank(message[c])
    PROVE  MessagesLeft' \subseteq MessagesLeft /\ MessagesLeft' # MessagesLeft
<1>1. /\ MessageRank(to) \in 0..3 /\ MessageRank(message[c]) \in 0..3
      /\ message'[c] = to /\ \A d \in Calls \ {c} : message'[d] = message[d]
    BY RanksAreSmall DEF Types
<1>2. /\ \A p \in Calls \X (1..3) : p \in MessagesLeft <=> p[2] <= MessageRank(message[p[1]])
      /\ \A p \in Calls \X (1..3) : p \in MessagesLeft' <=> p[2] <= MessageRank(message'[p[1]])
      /\ MessagesLeft' \subseteq Calls \X (1..3)
    BY DEF MessagesLeft, MessageRank
<1>3. ASSUME NEW p \in Calls \X (1..3), p[2] <= MessageRank(message'[p[1]])
      PROVE  p[2] <= MessageRank(message[p[1]])
  <2>1. CASE p[1] = c
    <3>1. p[2] \in 1..3 /\ p[2] <= MessageRank(to)
        BY <1>1, <1>3, <2>1
    <3>2. p[2] <= MessageRank(message[c])
        BY <1>1, <3>1
    <3>3. QED
        BY <2>1, <3>2
  <2>2. CASE p[1] # c
      BY <1>1, <1>3, <2>2
  <2>3. QED
      BY <2>1, <2>2
<1>4. DEFINE q == <<c, MessageRank(message[c])>>
<1>5. q \in Calls \X (1..3) /\ q[1] = c /\ q[2] = MessageRank(message[c])
    BY <1>1
<1>6. q \in MessagesLeft /\ q \notin MessagesLeft'
    BY <1>1, <1>2, <1>5
<1>7. QED
    BY <1>2, <1>3, <1>6

(* What a step leaves alone has as many steps before it as it had.         *)
LEMMA RanksStay ==
    /\ UNCHANGED call => CallsLeft' = CallsLeft
    /\ UNCHANGED message => MessagesLeft' = MessagesLeft
    /\ UNCHANGED close => CloseLeft' = CloseLeft
    /\ UNCHANGED reader => ReaderLeft' = ReaderLeft
<1>1. UNCHANGED call => CallsLeft' = CallsLeft
    BY DEF CallsLeft, CallRank
<1>2. UNCHANGED message => MessagesLeft' = MessagesLeft
    BY DEF MessagesLeft, MessageRank
<1>3. UNCHANGED close => CloseLeft' = CloseLeft
    BY DEF CloseLeft, CloseRank
<1>4. UNCHANGED reader => ReaderLeft' = ReaderLeft
    BY DEF ReaderLeft
<1>5. QED
    BY <1>1, <1>2, <1>3, <1>4

LEMMA CallIsDone ==
    ASSUME Types, NEW c \in Calls, NEW to \in Stages,
           call' = [call EXCEPT ![c] = to],
           CallRank(to) < CallRank(call[c]), UNCHANGED <<message, close, reader>>
    PROVE  OneIsDone
BY CallGoesOn, RanksStay DEF OneIsDone, Left

LEMMA MessageIsDone ==
    ASSUME Types, NEW c \in Calls,
           NEW to \in {"inflight", "failed", "delivered", "counted",
                       "collected"},
           message' = [message EXCEPT ![c] = to],
           MessageRank(to) < MessageRank(message[c]),
           UNCHANGED <<call, close, reader>>
    PROVE  OneIsDone
BY MessageGoesOn, RanksStay DEF OneIsDone, Left

LEMMA InputsIsDone ==
    ASSUME PInv, NEW c \in Calls, NEW next \in {"returned", "handed"},
           Inputs(c, next)
    PROVE  OneIsDone
<1>0. Types
    BY DEF PInv
<1>1. /\ CallRank(next) < CallRank("inputting")
      /\ CallRank("aborted") < CallRank("inputting")
    BY DEF CallRank
<1>2. call[c] = "inputting" /\ UNCHANGED <<close, reader>>
    BY DEF Inputs, Moves, closeVars
<1>3. CASE call' = [call EXCEPT ![c] = "aborted"] /\ UNCHANGED message
    BY <1>0, <1>1, <1>2, <1>3, CallIsDone DEF Stages
<1>4. CASE /\ call' = [call EXCEPT ![c] = next]
           /\ message' = [message EXCEPT
                            ![c] = IF close = "waiting" THEN "failed"
                                   ELSE "inflight"]
  <2>1. CallsLeft' \subseteq CallsLeft /\ CallsLeft' # CallsLeft
      BY <1>0, <1>1, <1>2, <1>4, CallGoesOn DEF Stages
  <2>2. message[c] = "none"
    <3>1. c \in DataCalls \/ c \in ProfileCalls
        BY DEF Calls
    <3>2. QED
        BY <1>2, <3>1 DEF PInv, MessagesFollowCalls
  <2>3. MessageRank("failed") < MessageRank("none")
        /\ MessageRank("inflight") < MessageRank("none")
      BY DEF MessageRank
  <2>4. MessagesLeft' \subseteq MessagesLeft
    <3>1. CASE close = "waiting"
        BY <1>0, <1>4, <2>2, <2>3, <3>1, MessageGoesOn
    <3>2. CASE close # "waiting"
        BY <1>0, <1>4, <2>2, <2>3, <3>2, MessageGoesOn
    <3>3. QED
        BY <3>1, <3>2
  <2>5. QED
      BY <1>2, <2>1, <2>4, RanksStay DEF OneIsDone, Left
<1>5. QED
    BY <1>3, <1>4 DEF Inputs, Moves

LEMMA EveryStepIsDone ==
    ASSUME PInv, Next
    PROVE  OneIsDone
<1>0. Types /\ DataCalls \subseteq Calls /\ ProfileCalls \subseteq Calls
    BY DEF PInv, Calls
<1>1. ASSUME NEW c \in Calls, Arrive(c) \/ Refuse(c) PROVE OneIsDone
  <2>1. /\ CallRank("checking") < CallRank("absent")
        /\ CallRank("refused") < CallRank("checking")
      BY DEF CallRank
  <2>2. QED
      BY <1>0, <1>1, <2>1, CallIsDone DEF Arrive, Refuse, Moves, Stages, closeVars
<1>2. ASSUME NEW c \in Calls, Settles(c) PROVE OneIsDone
  <2>1. /\ MessageRank("delivered") < MessageRank("inflight")
        /\ MessageRank("failed") < MessageRank("inflight")
      BY DEF MessageRank
  <2>2. QED
      BY <1>0, <1>2, <2>1, MessageIsDone DEF Settles, callVars, closeVars
<1>3. ASSUME NEW c \in DataCalls, DataHandler(c) PROVE OneIsDone
  <2>1. /\ CallRank("returned") < CallRank("checking")
        /\ CallRank("counting") < CallRank("checking")
        /\ CallRank("inputting") < CallRank("counting")
      BY DEF CallRank
  <2>2. CASE SendChecks(c)
      BY <1>0, <2>1, <2>2, CallIsDone DEF SendChecks, Moves, Stages, closeVars
  <2>3. CASE SendCounts(c)
      BY <1>0, <2>1, <2>3, CallIsDone DEF SendCounts, Moves, Stages, closeVars
  <2>4. CASE SendInputs(c)
      BY <1>0, <2>4, InputsIsDone DEF SendInputs
  <2>5. QED
      BY <1>3, <2>2, <2>3, <2>4 DEF DataHandler
<1>4. ASSUME NEW c \in ProfileCalls, ProfileHandler(c) PROVE OneIsDone
  <2>1. /\ CallRank("returned") < CallRank("checking")
        /\ CallRank("refused") < CallRank("checking")
        /\ CallRank("inputting") < CallRank("checking")
        /\ CallRank("returned") < CallRank("handed")
      BY DEF CallRank
  <2>2. CASE ProfileChecks(c)
    <3>1. PICK to \in {"refused", "returned", "inputting"} :
              call' = [call EXCEPT ![c] = to]
        BY <2>2 DEF ProfileChecks, Moves
    <3>2. call[c] = "checking" /\ UNCHANGED <<message, close, reader>>
        BY <2>2 DEF ProfileChecks, Moves, closeVars
    <3>3. to \in Stages /\ CallRank(to) < CallRank(call[c])
        BY <2>1, <3>1, <3>2 DEF Stages
    <3>4. QED
        BY <1>0, <3>1, <3>2, <3>3, CallIsDone
  <2>3. CASE ProfileInputs(c)
      BY <1>0, <2>3, InputsIsDone DEF ProfileInputs
  <2>4. CASE ProfileCounts(c)
      BY <1>0, <2>1, <2>4, CallIsDone DEF ProfileCounts, Moves, Stages, closeVars
  <2>5. QED
      BY <1>4, <2>2, <2>3, <2>4 DEF ProfileHandler
<1>5. ASSUME HandleErrors \/ CloseCollects PROVE OneIsDone
  <2>1. /\ MessageRank("counted") < MessageRank("failed")
        /\ MessageRank("collected") < MessageRank("failed")
      BY DEF MessageRank
  <2>2. CASE HandleErrors
      BY <1>0, <2>1, <2>2, MessageIsDone DEF HandleErrors, callVars, closeVars
  <2>3. CASE CloseCollects
      BY <1>0, <2>1, <2>3, MessageIsDone DEF CloseCollects, callVars, closeVars
  <2>4. QED
      BY <1>5, <2>2, <2>3
<1>6. CASE HandleErrorsReturns
  <2>1. ReaderLeft' \subseteq ReaderLeft /\ ReaderLeft' # ReaderLeft
      BY <1>6 DEF HandleErrorsReturns, ReaderLeft
  <2>2. UNCHANGED <<call, message, close>>
      BY <1>6 DEF HandleErrorsReturns, callVars, closeVars
  <2>3. QED
      BY <2>1, <2>2, RanksStay DEF OneIsDone, Left
<1>7. CASE CloseFlags \/ CloseWaits \/ CloseReturns
  <2>1. CloseLeft' \subseteq CloseLeft /\ CloseLeft' # CloseLeft
    <3>1. CASE CloseFlags
      <4>1. CloseLeft = 1..3 /\ CloseLeft' = 1..2
          BY <3>1 DEF CloseFlags, CloseLeft, CloseRank
      <4>2. QED
          BY <4>1
    <3>2. CASE CloseWaits
      <4>1. CloseLeft = 1..2 /\ CloseLeft' = 1..1
          BY <3>2 DEF CloseWaits, CloseLeft, CloseRank
      <4>2. QED
          BY <4>1
    <3>3. CASE CloseReturns
      <4>1. CloseLeft = 1..1 /\ CloseLeft' = 1..0
          BY <3>3 DEF CloseReturns, CloseLeft, CloseRank
      <4>2. QED
          BY <4>1
    <3>4. QED
        BY <1>7, <3>1, <3>2, <3>3
  <2>2. UNCHANGED <<call, message, reader>>
      BY <1>7 DEF CloseFlags, CloseWaits, CloseReturns, callVars
  <2>3. QED
      BY <2>1, <2>2, RanksStay DEF OneIsDone, Left
<1>8. QED
    BY <1>1, <1>2, <1>3, <1>4, <1>5, <1>6, <1>7 DEF Next

(* Every step is one of finitely many: a call takes at most five, its      *)
(* message three, Close three and handleErrors one, and a step gives none  *)
(* of them back.  Whatever the scheduling, no more than 8 * |Calls| + 4    *)
(* steps are ever taken, and where they end nobody waits at Input().       *)
THEOREM ProducerComesToRest == Spec => [][OneIsDone]_vars
<1>1. PInv /\ [Next]_vars => [OneIsDone]_vars
    BY EveryStepIsDone
<1>2. QED
    BY <1>1, ProducerInvariant, PTL DEF Spec
=============================================================================
