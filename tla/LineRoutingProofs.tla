-------------------------- MODULE LineRoutingProofs --------------------------
(***************************************************************************)
(* What becomes of the lines of a body, for any bodies, any keys in them   *)
(* and any interleaving of the worker with the Kafka consumer.             *)
(***************************************************************************)
EXTENDS LineRouting, SequenceTheorems, FiniteSetTheorems, FunctionTheorems, TLAPS

(* A set of naturals that is not empty has a least element: the form of    *)
(* induction that the proofs below use.                                    *)
LEMMA LeastElement ==
    ASSUME NEW T, T \subseteq Nat, T # {}
    PROVE  \E n \in T : \A m \in T : n <= m
<1>1. PICK n \in T : \A m \in T : ~(<<m, n>> \in OpToRel(<, Nat))
    BY WFMin, NatLessThanWellFounded
<1>2. \A m \in T : ~(m < n)
    BY <1>1 DEF OpToRel
<1>3. QED
    BY <1>2
-----------------------------------------------------------------------------
(* Items and the loops that write them.                                    *)
LEMMA WithEntries ==
    ASSUME NEW item, NEW entries
    PROVE  /\ DOMAIN With(item, entries) = DOMAIN item \cup DOMAIN entries
           /\ \A k \in DOMAIN entries : With(item, entries)[k] = entries[k]
           /\ \A k \in DOMAIN item \ DOMAIN entries :
                 With(item, entries)[k] = item[k]
BY DEF With

LEMMA OneEntry ==
    ASSUME NEW k, NEW v
    PROVE  DOMAIN Entry(k, v) = {k} /\ Entry(k, v)[k] = v
BY DEF Entry

LEMMA WhenEntries ==
    ASSUME NEW condition \in BOOLEAN, NEW entries
    PROVE  /\ condition => When(condition, entries) = entries
           /\ ~condition => DOMAIN When(condition, entries) = {}
BY DEF When

(* Some write of a key is the last one.                                    *)
LEMMA LastWriteExists ==
    ASSUME NEW writes, NEW place \in Orders(writes), NEW k,
           \E w \in writes : k \in DOMAIN w
    PROVE  /\ LastWrite(writes, place, k) \in writes
           /\ k \in DOMAIN LastWrite(writes, place, k)
<1> DEFINE of == {w \in writes : k \in DOMAIN w}
           places == {place[w] : w \in of}
<1>1. place \in [writes -> 1..Cardinality(writes)]
    BY DEF Orders, Injection
<1>2. places \subseteq Nat /\ places # {}
    BY <1>1
<1>3. PICK n \in places : \A m \in places : n <= m
    BY <1>2, LeastElement
<1>4. \E w \in of : \A v \in of : place[w] <= place[v]
    BY <1>3
<1>5. LastWrite(writes, place, k) \in of
    BY <1>4 DEF LastWrite
<1>6. QED
    BY <1>5

(* A value after a loop is one that the loop wrote, or an older one of a   *)
(* key that it did not write.                                              *)
LEMMA LoopDomain ==
    ASSUME NEW item, NEW writes, NEW r, r \in InAnyOrder(item, writes)
    PROVE  DOMAIN r = DOMAIN item \cup KeysOf(writes)
BY DEF InAnyOrder

LEMMA LoopWrites ==
    ASSUME NEW item, NEW writes, NEW r, r \in InAnyOrder(item, writes),
           NEW k, k \in KeysOf(writes)
    PROVE  \E w \in writes : k \in DOMAIN w /\ r[k] = w[k]
<1>1. PICK place \in Orders(writes) : r[k] = LastWrite(writes, place, k)[k]
    BY DEF InAnyOrder
<1>2. \E w \in writes : k \in DOMAIN w
    BY DEF KeysOf
<1>3. QED
    BY <1>1, <1>2, LastWriteExists

LEMMA LoopLeaves ==
    ASSUME NEW item, NEW writes, NEW r, r \in InAnyOrder(item, writes),
           NEW k, k \in DOMAIN item, k \notin KeysOf(writes)
    PROVE  r[k] = item[k]
BY DEF InAnyOrder

(* Where no two writes of a loop disagree about a key, the order does not  *)
(* matter.                                                                 *)
Agree(writes) ==
    \A v, w \in writes : \A k \in DOMAIN v \cap DOMAIN w : v[k] = w[k]

LEMMA OrderIrrelevant ==
    ASSUME NEW item, NEW writes, Agree(writes),
           NEW r, r \in InAnyOrder(item, writes),
           NEW q, q \in InAnyOrder(item, writes)
    PROVE  r = q
<1> DEFINE keys == DOMAIN item \cup KeysOf(writes)
<1>1. /\ r = [k \in keys |-> r[k]]
      /\ q = [k \in keys |-> q[k]]
    BY DEF InAnyOrder
<1>2. ASSUME NEW k \in keys
      PROVE  r[k] = q[k]
    <2>1. CASE k \in KeysOf(writes)
        <3>1. \E w \in writes : k \in DOMAIN w /\ r[k] = w[k]
            BY <2>1, LoopWrites
        <3>2. \E w \in writes : k \in DOMAIN w /\ q[k] = w[k]
            BY <2>1, LoopWrites
        <3>3. QED
            BY <3>1, <3>2 DEF Agree
    <2>2. CASE k \notin KeysOf(writes)
        <3>1. r[k] = item[k] /\ q[k] = item[k]
            BY <2>2, LoopLeaves
        <3>2. QED
            BY <3>1
    <2>3. QED
        BY <2>1, <2>2
<1>3. [k \in keys |-> r[k]] = [k \in keys |-> q[k]]
    BY <1>2
<1>4. QED
    BY <1>1, <1>3
-----------------------------------------------------------------------------
(* The stamp.                                                              *)
IsStamped(item, type) ==
    /\ {"eventType", "ingest_timestamp", "hostname"} \subseteq DOMAIN item
    /\ item["eventType"] = Name(type)
    /\ item["ingest_timestamp"] = Now

LEMMA StampedIs ==
    ASSUME NEW item, NEW type
    PROVE  /\ IsStamped(Stamped(item, type), type)
           /\ DOMAIN Stamped(item, type) = DOMAIN item
                 \cup {"eventType", "ingest_timestamp", "hostname"}
           /\ \A k \in DOMAIN item \ {"eventType", "ingest_timestamp"} :
                 Stamped(item, type)[k] = item[k]
<1> DEFINE host == Entry("hostname", OwnHostname)
           own == [eventType |-> Name(type), ingest_timestamp |-> Now]
<1>1. /\ DOMAIN With(host, item) = {"hostname"} \cup DOMAIN item
      /\ \A k \in DOMAIN item : With(host, item)[k] = item[k]
    BY DEF With, Entry
<1>2. /\ DOMAIN own = {"eventType", "ingest_timestamp"}
      /\ own["eventType"] = Name(type) /\ own["ingest_timestamp"] = Now
    OBVIOUS
<1>3. Stamped(item, type) = With(With(host, item), own)
    BY DEF Stamped
<1> HIDE DEF host, own
<1>4. QED
    BY <1>1, <1>2, <1>3, WithEntries DEF IsStamped

(* A later entry under another name leaves the stamp.                      *)
LEMMA StampStays ==
    ASSUME NEW item, NEW type, IsStamped(item, type), NEW entries,
           DOMAIN entries \cap {"eventType", "ingest_timestamp"} = {}
    PROVE  IsStamped(With(item, entries), type)
BY DEF IsStamped, With

LEMMA TimedStays ==
    ASSUME NEW item, NEW type, IsStamped(item, type)
    PROVE  IsStamped(Timed(item), type)
<1> DEFINE start == When(IsNumber(item, "start_time"),
                         Entry("start_timestamp", Seconds(item["start_time"])))
           end == When(IsNumber(item, "end_time"),
                       Entry("end_timestamp", Seconds(item["end_time"])))
<1>1. DOMAIN start \subseteq {"start_timestamp"}
    BY DEF When, Entry
<1>2. DOMAIN end \subseteq {"end_timestamp"}
    BY DEF When, Entry
<1>3. Timed(item) = With(With(item, start), end)
    BY DEF Timed
<1> HIDE DEF start, end
<1>4. IsStamped(With(item, start), type)
    BY <1>1, StampStays
<1>5. QED
    BY <1>2, <1>3, <1>4, StampStays

(* Each converter stamps its events.                                       *)
LEMMA L7Stamped ==
    ASSUME NEW line, NEW item, item \in L7Events(line)
    PROVE  IsStamped(item, "l7")
<1>1. PICK traced :
         LET stamped == Timed(Stamped(traced, "l7")) IN
         item = With(stamped,
                     When(IsNumber(stamped, "response_duration"),
                          Entry("response_duration_ms",
                                Thousandth(stamped["response_duration"]))))
    BY DEF L7Events
<1> DEFINE stamped == Timed(Stamped(traced, "l7"))
           duration == When(IsNumber(stamped, "response_duration"),
                            Entry("response_duration_ms",
                                  Thousandth(stamped["response_duration"])))
<1>2. IsStamped(stamped, "l7")
    BY StampedIs, TimedStays
<1>3. DOMAIN duration \subseteq {"response_duration_ms"}
    BY DEF When, Entry
<1>4. item = With(stamped, duration)
    BY <1>1
<1> HIDE DEF stamped, duration
<1>5. QED
    BY <1>2, <1>3, <1>4, StampStays

LEMMA L4Stamped ==
    ASSUME NEW line, NEW item, item \in L4Events(line)
    PROVE  IsStamped(item, "l4")
<1>1. PICK unstamped : item = Timed(Stamped(unstamped, "l4"))
    BY DEF L4Events
<1>2. QED
    BY <1>1, StampedIs, TimedStays

LEMMA MetricsStamped ==
    ASSUME NEW line, NEW item, item \in MetricsEvents(line)
    PROVE  IsStamped(item, "metrics")
<1>1. PICK r : item = With(Stamped(r, "metrics"), Entry("hostname", OwnHostname))
    BY DEF MetricsEvents
<1>2. DOMAIN Entry("hostname", OwnHostname) = {"hostname"}
    BY OneEntry
<1>3. QED
    BY <1>1, <1>2, StampedIs, StampStays
-----------------------------------------------------------------------------
(* No number that is not finite comes out of a converter.                  *)
AllFinite(item) == \A k \in DOMAIN item : item[k].kind # "notfinite"

LEMMA FiniteWith ==
    ASSUME NEW item, AllFinite(item), NEW entries, AllFinite(entries)
    PROVE  AllFinite(With(item, entries))
BY DEF With, AllFinite

LEMMA FiniteEntry ==
    ASSUME NEW k, NEW v, v.kind # "notfinite"
    PROVE  AllFinite(Entry(k, v))
BY DEF Entry, AllFinite

LEMMA FiniteWhen ==
    ASSUME NEW condition \in BOOLEAN, NEW entries,
           condition => AllFinite(entries)
    PROVE  AllFinite(When(condition, entries))
BY DEF When, AllFinite

LEMMA FiniteValues ==
    /\ \A n : Number(n).kind = "number"
    /\ \A b : Bool(b).kind = "bool"
    /\ \A v : Thousandth(v).kind = "number"
    /\ \A v : Seconds(v).kind = "number"
    /\ Now.kind = "now" /\ OwnHostname.kind = "hostname"
    /\ \A t \in Types : Name(t).kind # "notfinite"
<1>1. Number(1).value[1] # 0
    BY DEF Number
<1>2. \A v : Thousandth(v).kind = "number"
    BY <1>1 DEF Thousandth, Ratio
<1>3. QED
    BY <1>2 DEF Number, Bool, Seconds, Now, OwnHostname, Name, Types

LEMMA FiniteStamped ==
    ASSUME NEW item, AllFinite(item), NEW type \in Types
    PROVE  AllFinite(Stamped(item, type))
<1> DEFINE own == [eventType |-> Name(type), ingest_timestamp |-> Now]
<1>1. AllFinite(own)
    BY FiniteValues DEF AllFinite
<1>2. AllFinite(Entry("hostname", OwnHostname))
    BY FiniteValues, FiniteEntry
<1>3. Stamped(item, type) = With(With(Entry("hostname", OwnHostname), item), own)
    BY DEF Stamped
<1> HIDE DEF own
<1>4. QED
    BY <1>1, <1>2, <1>3, FiniteWith

LEMMA FiniteTimed ==
    ASSUME NEW item, AllFinite(item)
    PROVE  AllFinite(Timed(item))
<1> DEFINE start == When(IsNumber(item, "start_time"),
                         Entry("start_timestamp", Seconds(item["start_time"])))
           end == When(IsNumber(item, "end_time"),
                       Entry("end_timestamp", Seconds(item["end_time"])))
<1>1. AllFinite(start)
    BY FiniteValues, FiniteEntry, FiniteWhen DEF IsNumber
<1>2. AllFinite(end)
    BY FiniteValues, FiniteEntry, FiniteWhen DEF IsNumber
<1>3. Timed(item) = With(With(item, start), end)
    BY DEF Timed
<1> HIDE DEF start, end
<1>4. QED
    BY <1>1, <1>2, <1>3, FiniteWith

LEMMA ObjectFinite ==
    ASSUME NEW f, IsObject(f)
    PROVE  AllFinite(f)
BY DEF IsObject, AllFinite

LEMMA FiniteL7 ==
    ASSUME NEW line, IsLine(line), NEW item, item \in L7Events(line)
    PROVE  AllFinite(item)
<1> DEFINE attrs == [k \in {"attr_" \o a : a \in DOMAIN line.attributes} |->
                        line.attributes[CHOOSE a \in DOMAIN line.attributes :
                                           "attr_" \o a = k]]
           first == When(line.traces # <<>> /\ line.traces[1].kind = "string",
                         Entry("trace_id", line.traces[1]))
           traced == With(With(line.fields, attrs), first)
           stamped == Timed(Stamped(traced, "l7"))
           duration == When(IsNumber(stamped, "response_duration"),
                            Entry("response_duration_ms",
                                  Thousandth(stamped["response_duration"])))
<1>1. AllFinite(attrs)
    <2>1. ASSUME NEW k \in DOMAIN attrs
          PROVE  attrs[k].kind # "notfinite"
        <3>1. \E a \in DOMAIN line.attributes : "attr_" \o a = k
            OBVIOUS
        <3>2. attrs[k] = line.attributes[CHOOSE a \in DOMAIN line.attributes :
                                            "attr_" \o a = k]
            OBVIOUS
        <3>3. (CHOOSE a \in DOMAIN line.attributes : "attr_" \o a = k)
                 \in DOMAIN line.attributes
            BY <3>1
        <3>4. QED
            BY <3>2, <3>3 DEF IsLine, IsObject
    <2>2. QED
        BY <2>1 DEF AllFinite
<1>2. AllFinite(first)
    BY FiniteEntry, FiniteWhen
<1>3. AllFinite(line.fields)
    BY ObjectFinite DEF IsLine
<1>4. item = With(stamped, duration)
    BY DEF L7Events
<1> HIDE DEF attrs, first
<1>5. AllFinite(traced)
    BY <1>1, <1>2, <1>3, FiniteWith
<1> HIDE DEF traced
<1>6. AllFinite(stamped)
    BY <1>5, FiniteStamped, FiniteTimed DEF Types
<1>7. AllFinite(duration)
    BY FiniteValues, FiniteEntry, FiniteWhen DEF IsNumber
<1> HIDE DEF stamped, duration
<1>8. QED
    BY <1>4, <1>6, <1>7, FiniteWith

(* A quotient is finite where its divisor is a number above zero.          *)
LEMMA FiniteRatio ==
    ASSUME NEW a, NEW b, NEW n, NEW d,
           b.value \in Int \X (Nat \ {0}), Positive(b)
    PROVE  Ratio(a, b, n, d).kind # "notfinite"
<1>1. b.value[1] # 0
    BY DEF Positive
<1>2. QED
    BY <1>1 DEF Ratio

LEMMA FiniteThroughput ==
    ASSUME NEW item, IsObject(item), NEW bytes
    PROVE  AllFinite(Throughput(item, bytes))
<1> DEFINE name == IF bytes = "byte_tx" THEN "throughput_tx_mbps"
                                        ELSE "throughput_rx_mbps"
           condition == /\ IsNumber(item, bytes) /\ IsNumber(item, "duration")
                        /\ Positive(item["duration"])
           rate == Ratio(item[bytes], item["duration"], 8, 1)
<1>1. condition => rate.kind # "notfinite"
    BY FiniteRatio DEF IsNumber, IsObject
<1>2. condition \in BOOLEAN
    BY DEF IsNumber, Positive
<1>3. Throughput(item, bytes) = When(condition, Entry(name, rate))
    BY DEF Throughput
<1> HIDE DEF name, condition, rate
<1>4. QED
    BY <1>1, <1>2, <1>3, FiniteEntry, FiniteWhen

LEMMA FiniteRetransmission ==
    ASSUME NEW item, IsObject(item), NEW packets, NEW retrans, NEW rate
    PROVE  AllFinite(Retransmission(item, packets, retrans, rate))
<1> DEFINE condition == /\ IsNumber(item, packets) /\ IsNumber(item, retrans)
                        /\ Positive(item[packets])
           value == Ratio(item[retrans], item[packets], 100, 1)
<1>1. condition => value.kind # "notfinite"
    BY FiniteRatio DEF IsNumber, IsObject
<1>2. condition \in BOOLEAN
    BY DEF IsNumber, Positive
<1>3. Retransmission(item, packets, retrans, rate)
        = When(condition, Entry(rate, value))
    BY DEF Retransmission
<1> HIDE DEF condition, value
<1>4. QED
    BY <1>1, <1>2, <1>3, FiniteEntry, FiniteWhen

LEMMA FiniteL4 ==
    ASSUME NEW line, IsLine(line), NEW event, event \in L4Events(line)
    PROVE  AllFinite(event)
<1> DEFINE item == line.fields
           scaled == [k \in {s \o "_ms" : s \in {s \in Scaled : IsNumber(item, s)}}
                        |-> Thousandth(item[CHOOSE s \in Scaled : s \o "_ms" = k])]
           rates == With(With(scaled, Throughput(item, "byte_tx")),
                         Throughput(item, "byte_rx"))
           derived == With(With(rates, Retransmission(item, "packet_tx",
                                "retrans_tx", "retransmission_rate_tx_pct")),
                           Retransmission(item, "packet_rx", "retrans_rx",
                                          "retransmission_rate_rx_pct"))
<1>1. IsObject(item) /\ AllFinite(item)
    BY ObjectFinite DEF IsLine
<1>2. AllFinite(scaled)
    BY FiniteValues DEF AllFinite
<1>3. event = Timed(Stamped(With(item, derived), "l4"))
    BY DEF L4Events
<1> HIDE DEF scaled, item
<1>4. AllFinite(rates)
    BY <1>1, <1>2, FiniteThroughput, FiniteWith
<1> HIDE DEF rates
<1>5. AllFinite(derived)
    BY <1>1, <1>4, FiniteRetransmission, FiniteWith
<1> HIDE DEF derived
<1>6. QED
    BY <1>1, <1>3, <1>5, FiniteWith, FiniteStamped, FiniteTimed DEF Types

-----------------------------------------------------------------------------
(* The loops over the maps of a metrics line: what a write writes.         *)
LEMMA SameName ==
    ASSUME NEW p \in MapPrefixes, NEW q \in MapPrefixes,
           NEW k \in MapKeys, NEW l \in MapKeys, Named(p, k) = Named(q, l)
    PROVE  p = q /\ k = l
BY NamesAssumption

LEMMA NotOwnName ==
    ASSUME NEW p \in MapPrefixes, NEW k \in MapKeys
    PROVE  Named(p, k) \notin OwnNames
BY NamesAssumption

LEMMA TaggerWriteIs ==
    ASSUME NEW k \in Keys, NEW v, v.kind # "notfinite"
    PROVE  /\ DOMAIN TaggerWrite(k, v)
                \subseteq {Named("tagger_", IF k = "code" THEN "code_bits" ELSE k)}
           /\ AllFinite(TaggerWrite(k, v))
<1>1. CASE k = "code"
    <2> DEFINE bits == When(v.kind = "bits",
                     Entry(Named("tagger_", "code_bits"), Number(v.value[1])))
    <2>1. TaggerWrite(k, v) = bits
        BY <1>1 DEF TaggerWrite
    <2>2. DOMAIN bits \subseteq {Named("tagger_", "code_bits")}
        BY DEF When, Entry
    <2>3. AllFinite(bits)
        BY FiniteValues, FiniteEntry, FiniteWhen
    <2>4. QED
        BY <1>1, <2>1, <2>2, <2>3
<1>2. CASE k # "code"
    <2> DEFINE u == IF k \in {"mac", "mac1"} /\ v.kind = "sixbytes"
                      THEN [kind |-> "string", value |-> v.value] ELSE v
    <2>1. TaggerWrite(k, v) = Entry(Named("tagger_", k), u)
        BY <1>2 DEF TaggerWrite
    <2>2. u.kind # "notfinite"
        OBVIOUS
    <2> HIDE DEF u
    <2>3. DOMAIN Entry(Named("tagger_", k), u) = {Named("tagger_", k)}
        BY OneEntry
    <2>4. AllFinite(Entry(Named("tagger_", k), u))
        BY <2>2, FiniteEntry
    <2>5. QED
        BY <1>2, <2>1, <2>3, <2>4
<1>3. QED
    BY <1>1, <1>2

LEMMA MillisNames ==
    /\ DOMAIN InMillis = {"rrt_max", "rrt_sum"}
    /\ \A k \in DOMAIN InMillis :
          InMillis[k] \in Derived /\ InMillis[k] \in MapKeys
    /\ InMillis["rrt_max"] # InMillis["rrt_sum"]
    /\ \A k, l \in DOMAIN InMillis : k # InMillis[l]
BY DEF InMillis, Derived, MapKeys

LEMMA MeterWriteNames ==
    ASSUME NEW section, NEW k, NEW v,
           NEW x, x \in DOMAIN MeterWrite(section, k, v)
    PROVE  \/ x = Named(section, k)
           \/ Derives(section, k, v) /\ x = Named(section, InMillis[k])
BY DEF MeterWrite, With, Entry, When

LEMMA MeterWriteValue ==
    ASSUME NEW section \in Sections, NEW k \in Keys, NEW v
    PROVE  /\ Named(section, k) \in DOMAIN MeterWrite(section, k, v)
           /\ MeterWrite(section, k, v)[Named(section, k)] = v
<1>1. CASE Derives(section, k, v)
    <2>1. k \in DOMAIN InMillis /\ k \in MapKeys /\ section \in MapPrefixes
        BY <1>1 DEF Derives, MapKeys, MapPrefixes
    <2>2. InMillis[k] \in MapKeys /\ InMillis[k] # k
        BY <2>1, MillisNames
    <2>3. Named(section, InMillis[k]) # Named(section, k)
        BY <2>1, <2>2, SameName
    <2>4. QED
        BY <1>1, <2>3 DEF MeterWrite, With, Entry, When
<1>2. CASE ~Derives(section, k, v)
    BY <1>2 DEF MeterWrite, With, Entry, When
<1>3. QED
    BY <1>1, <1>2

LEMMA MeterWriteFinite ==
    ASSUME NEW section, NEW k, NEW v, v.kind # "notfinite"
    PROVE  AllFinite(MeterWrite(section, k, v))
<1> DEFINE plain == Entry(Named(section, k), v)
           milli == When(Derives(section, k, v),
                         Entry(Named(section, InMillis[k]), Thousandth(v)))
<1>1. MeterWrite(section, k, v) = With(plain, milli)
    BY DEF MeterWrite
<1>2. Derives(section, k, v) \in BOOLEAN
    BY DEF Derives
<1>3. AllFinite(plain) /\ AllFinite(milli)
    BY <1>2, FiniteValues, FiniteEntry, FiniteWhen
<1> HIDE DEF plain, milli
<1>4. QED
    BY <1>1, <1>3, FiniteWith

(* The loops keep items finite.                                            *)
LEMMA FiniteLoop ==
    ASSUME NEW item, AllFinite(item), NEW writes,
           \A w \in writes : AllFinite(w),
           NEW r, r \in InAnyOrder(item, writes)
    PROVE  AllFinite(r)
<1>1. ASSUME NEW k \in DOMAIN r
      PROVE  r[k].kind # "notfinite"
    <2>1. CASE k \in KeysOf(writes)
        <3>1. PICK w \in writes : k \in DOMAIN w /\ r[k] = w[k]
            BY <2>1, LoopWrites
        <3>2. QED
            BY <3>1 DEF AllFinite
    <2>2. CASE k \notin KeysOf(writes)
        <3>1. k \in DOMAIN item
            BY <2>2, LoopDomain
        <3>2. r[k] = item[k]
            BY <2>2, <3>1, LoopLeaves
        <3>3. QED
            BY <3>1, <3>2 DEF AllFinite
    <2>3. QED
        BY <2>1, <2>2
<1>2. QED
    BY <1>1 DEF AllFinite

LEMMA FiniteMeterLoop ==
    ASSUME NEW line, IsLine(line), NEW section \in Sections, NEW results,
           \A r \in results : AllFinite(r)
    PROVE  \A r \in Loop(line, results, section) : AllFinite(r)
<1> DEFINE writes == MeterWrites(line, section)
<1>1. \A w \in writes : AllFinite(w)
    <2>1. ASSUME NEW k \in DOMAIN line.meter[section]
          PROVE  AllFinite(MeterWrite(section, k, line.meter[section][k]))
        <3>1. k \in Keys /\ line.meter[section][k].kind # "notfinite"
            BY DEF IsLine, IsObject
        <3>2. QED
            BY <3>1, MeterWriteFinite
    <2>2. QED
        BY <2>1 DEF MeterWrites
<1>2. \A q \in Loop(line, results, section) :
         \E r \in results : q \in InAnyOrder(r, writes)
    BY DEF Loop
<1> HIDE DEF writes
<1>3. QED
    BY <1>1, <1>2, FiniteLoop

(* What the loops over some sections leave of the values in them.          *)
Keeps(item, line, done) ==
    \A s \in done : \A k \in DOMAIN line.meter[s] :
        \/ s = "app_latency_" /\ k \in Derived
        \/ Named(s, k) \in DOMAIN item /\ item[Named(s, k)] = line.meter[s][k]

(* Only the write of a key writes its name, unless the name is derived.    *)
LEMMA OnlyWriter ==
    ASSUME NEW line, IsLine(line), NEW section \in Sections, NEW s \in Sections,
           NEW l \in DOMAIN line.meter[section], NEW k \in DOMAIN line.meter[s],
           ~(s = "app_latency_" /\ k \in Derived),
           Named(s, k) \in DOMAIN MeterWrite(section, l, line.meter[section][l])
    PROVE  s = section /\ k = l
<1>1. /\ k \in Keys /\ l \in Keys
      /\ line.meter[section][l].kind # "notfinite"
    BY DEF IsLine, IsObject
<1>2. /\ k \in MapKeys /\ l \in MapKeys
      /\ s \in MapPrefixes /\ section \in MapPrefixes
    BY <1>1 DEF MapKeys, MapPrefixes
<1>3. \/ Named(s, k) = Named(section, l)
      \/ /\ Derives(section, l, line.meter[section][l])
         /\ Named(s, k) = Named(section, InMillis[l])
    BY MeterWriteNames
<1>4. CASE Named(s, k) = Named(section, l)
    BY <1>2, <1>4, SameName
<1>5. ASSUME Derives(section, l, line.meter[section][l]),
             Named(s, k) = Named(section, InMillis[l])
      PROVE  FALSE
    <2>1. /\ section = "app_latency_"
          /\ InMillis[l] \in Derived /\ InMillis[l] \in MapKeys
        BY <1>5, MillisNames DEF Derives
    <2>2. s = section /\ k = InMillis[l]
        BY <1>2, <1>5, <2>1, SameName
    <2>3. QED
        BY <2>1, <2>2
<1>6. QED
    BY <1>3, <1>4, <1>5

LEMMA LoopKeeps ==
    ASSUME NEW line, IsLine(line), NEW section \in Sections,
           NEW done, done \subseteq Sections,
           NEW item, Keeps(item, line, done),
           NEW r, r \in InAnyOrder(item, MeterWrites(line, section))
    PROVE  Keeps(r, line, done \cup {section})
<1> DEFINE writes == MeterWrites(line, section)
<1>1. SUFFICES ASSUME NEW s \in done \cup {section},
                      NEW k \in DOMAIN line.meter[s],
                      ~(s = "app_latency_" /\ k \in Derived)
               PROVE  Named(s, k) \in DOMAIN r /\ r[Named(s, k)] = line.meter[s][k]
    BY DEF Keeps
<1>2. s \in Sections
    OBVIOUS
<1>3. ASSUME NEW w \in writes, Named(s, k) \in DOMAIN w
      PROVE  s = section /\ w = MeterWrite(s, k, line.meter[s][k])
    <2>1. PICK l \in DOMAIN line.meter[section] :
             w = MeterWrite(section, l, line.meter[section][l])
        BY DEF MeterWrites
    <2>2. QED
        BY <1>1, <1>2, <1>3, <2>1, OnlyWriter
<1>4. CASE s = section
    <2> DEFINE own == MeterWrite(s, k, line.meter[s][k])
    <2>1. k \in Keys /\ line.meter[s][k].kind # "notfinite"
        BY <1>2 DEF IsLine, IsObject
    <2>2. Named(s, k) \in DOMAIN own /\ own[Named(s, k)] = line.meter[s][k]
        BY <1>2, <2>1, MeterWriteValue
    <2>3. own \in writes
        BY <1>4 DEF MeterWrites
    <2>4. Named(s, k) \in KeysOf(writes)
        BY <2>2, <2>3 DEF KeysOf
    <2>5. PICK w \in writes : Named(s, k) \in DOMAIN w /\ r[Named(s, k)] = w[Named(s, k)]
        BY <2>4, LoopWrites
    <2>6. w = own
        BY <1>3, <2>5
    <2>7. Named(s, k) \in DOMAIN r
        BY <2>4, LoopDomain
    <2>8. QED
        BY <2>2, <2>5, <2>6, <2>7
<1>5. CASE s # section
    <2>1. Named(s, k) \notin KeysOf(writes)
        BY <1>3, <1>5 DEF KeysOf
    <2>2. Named(s, k) \in DOMAIN item /\ item[Named(s, k)] = line.meter[s][k]
        BY <1>1, <1>5 DEF Keeps
    <2>3. Named(s, k) \in DOMAIN r
        BY <2>2, LoopDomain
    <2>4. r[Named(s, k)] = item[Named(s, k)]
        BY <2>1, <2>2, LoopLeaves
    <2>5. QED
        BY <2>2, <2>3, <2>4
<1>6. QED
    BY <1>4, <1>5

LEMMA MeterLoopKeeps ==
    ASSUME NEW line, IsLine(line), NEW section \in Sections,
           NEW done, done \subseteq Sections, NEW results,
           \A r \in results : Keeps(r, line, done)
    PROVE  \A r \in Loop(line, results, section) :
              Keeps(r, line, done \cup {section})
<1>1. \A q \in Loop(line, results, section) :
         \E r \in results : q \in InAnyOrder(r, MeterWrites(line, section))
    BY DEF Loop
<1>2. QED
    BY <1>1, LoopKeeps

(* Where a line is not ambiguous the writes of each loop agree.            *)
LEMMA MeterAgrees ==
    ASSUME NEW line, IsLine(line), ~Ambiguous(line), NEW section \in Sections
    PROVE  Agree(MeterWrites(line, section))
<1> DEFINE value(k) == line.meter[section][k]
<1>1. SUFFICES ASSUME NEW k \in DOMAIN line.meter[section],
                      NEW l \in DOMAIN line.meter[section],
                      NEW x, x \in DOMAIN MeterWrite(section, k, value(k)),
                      x \in DOMAIN MeterWrite(section, l, value(l))
               PROVE  k = l
    BY DEF Agree, MeterWrites
<1>2. /\ k \in Keys /\ l \in Keys /\ k \in MapKeys /\ l \in MapKeys
      /\ value(k).kind # "notfinite" /\ value(l).kind # "notfinite"
      /\ section \in MapPrefixes
    BY DEF IsLine, IsObject, MapKeys, MapPrefixes
<1>3. \/ x = Named(section, k)
      \/ Derives(section, k, value(k)) /\ x = Named(section, InMillis[k])
    BY <1>1, MeterWriteNames
<1>4. \/ x = Named(section, l)
      \/ Derives(section, l, value(l)) /\ x = Named(section, InMillis[l])
    BY <1>1, MeterWriteNames
<1>5. ASSUME NEW m \in DOMAIN line.meter[section], Derives(section, m, value(m))
      PROVE  /\ m \in DOMAIN InMillis /\ InMillis[m] \in MapKeys
             /\ InMillis[m] \notin DOMAIN line.meter[section]
    <2>1. section = "app_latency_" /\ m \in DOMAIN InMillis
        BY <1>5 DEF Derives
    <2>2. QED
        BY <2>1, MillisNames DEF Ambiguous
<1> HIDE DEF value
<1>6. CASE x = Named(section, k) /\ x = Named(section, l)
    BY <1>2, <1>6, SameName
<1>7. CASE Derives(section, k, value(k)) /\ x = Named(section, InMillis[k])
    <2>1. /\ InMillis[k] \in MapKeys /\ k \in DOMAIN InMillis
          /\ InMillis[k] \notin DOMAIN line.meter[section]
        BY <1>5, <1>7
    <2>2. x # Named(section, l)
        BY <1>2, <1>7, <2>1, SameName
    <2>3. Derives(section, l, value(l)) /\ x = Named(section, InMillis[l])
        BY <1>4, <2>2
    <2>4. InMillis[l] \in MapKeys /\ l \in DOMAIN InMillis
        BY <1>5, <2>3
    <2>5. InMillis[k] = InMillis[l]
        BY <1>2, <1>7, <2>1, <2>3, <2>4, SameName
    <2>6. QED
        BY <2>1, <2>4, <2>5, MillisNames
<1>8. CASE x = Named(section, k) /\ Derives(section, l, value(l))
             /\ x = Named(section, InMillis[l])
    <2>1. /\ InMillis[l] \in MapKeys
          /\ InMillis[l] \notin DOMAIN line.meter[section]
        BY <1>5, <1>8
    <2>2. k = InMillis[l]
        BY <1>2, <1>8, <2>1, SameName
    <2>3. QED
        BY <2>1, <2>2
<1>9. QED
    BY <1>3, <1>4, <1>6, <1>7, <1>8

LEMMA TaggerAgrees ==
    ASSUME NEW line, IsLine(line), ~Ambiguous(line)
    PROVE  Agree(TaggerWrites(line))
<1> DEFINE name(k) == IF k = "code" THEN "code_bits" ELSE k
<1>1. SUFFICES ASSUME NEW k \in DOMAIN line.tagger, NEW l \in DOMAIN line.tagger,
                      NEW x, x \in DOMAIN TaggerWrite(k, line.tagger[k]),
                      x \in DOMAIN TaggerWrite(l, line.tagger[l])
               PROVE  k = l
    BY DEF Agree, TaggerWrites
<1>2. /\ k \in Keys /\ l \in Keys
      /\ line.tagger[k].kind # "notfinite" /\ line.tagger[l].kind # "notfinite"
    BY DEF IsLine, IsObject
<1>3. /\ x = Named("tagger_", name(k))
      /\ x = Named("tagger_", name(l))
    BY <1>1, <1>2, TaggerWriteIs
<1>4. name(k) \in MapKeys /\ name(l) \in MapKeys /\ "tagger_" \in MapPrefixes
    BY <1>2 DEF MapKeys, MapPrefixes
<1>5. name(k) = name(l)
    <2> HIDE DEF name
    <2>1. QED
        BY <1>3, <1>4, SameName
<1>6. ~("code" \in DOMAIN line.tagger /\ "code_bits" \in DOMAIN line.tagger)
    BY DEF Ambiguous
<1>7. QED
    BY <1>5, <1>6

-----------------------------------------------------------------------------
(* flattenMetrics as a whole.                                              *)
Good(line, results, done) ==
    \A r \in results : AllFinite(r) /\ Keeps(r, line, done)

LEMMA GoodLoop ==
    ASSUME NEW line, IsLine(line), NEW section \in Sections,
           NEW done, done \subseteq Sections,
           NEW results, Good(line, results, done)
    PROVE  Good(line, Loop(line, results, section), done \cup {section})
BY FiniteMeterLoop, MeterLoopKeeps DEF Good

LEMMA GoodTagged ==
    ASSUME NEW line, IsLine(line), NEW kept, AllFinite(kept)
    PROVE  Good(line, InAnyOrder(kept, TaggerWrites(line)), {})
<1>1. \A w \in TaggerWrites(line) : AllFinite(w)
    <2>1. ASSUME NEW k \in DOMAIN line.tagger
          PROVE  AllFinite(TaggerWrite(k, line.tagger[k]))
        <3>1. k \in Keys /\ line.tagger[k].kind # "notfinite"
            BY DEF IsLine, IsObject
        <3>2. QED
            BY <3>1, TaggerWriteIs
    <2>2. QED
        BY <2>1 DEF TaggerWrites
<1>2. QED
    BY <1>1, FiniteLoop DEF Good, Keeps

(* Names of the sidecar's own do not hide what came from a map.            *)
LEMMA OwnEntriesKeep ==
    ASSUME NEW line, IsLine(line), NEW item, Keeps(item, line, Sections),
           NEW entries, DOMAIN entries \subseteq OwnNames
    PROVE  Keeps(With(item, entries), line, Sections)
<1>1. SUFFICES ASSUME NEW s \in Sections, NEW k \in DOMAIN line.meter[s],
                      ~(s = "app_latency_" /\ k \in Derived)
               PROVE  /\ Named(s, k) \in DOMAIN With(item, entries)
                      /\ With(item, entries)[Named(s, k)] = line.meter[s][k]
    BY DEF Keeps
<1>2. Named(s, k) \in DOMAIN item /\ item[Named(s, k)] = line.meter[s][k]
    BY <1>1 DEF Keeps
<1>3. k \in MapKeys /\ s \in MapPrefixes
    BY DEF IsLine, MapKeys, MapPrefixes
<1>4. Named(s, k) \notin DOMAIN entries
    BY <1>3, NotOwnName
<1>5. QED
    BY <1>2, <1>4 DEF With

LEMMA GoodFlagged ==
    ASSUME NEW line, IsLine(line),
           NEW item, AllFinite(item), Keeps(item, line, Sections)
    PROVE  /\ AllFinite(Flagged(line, item))
           /\ Keeps(Flagged(line, item), line, Sections)
<1> DEFINE condition == /\ "flags" \in DOMAIN line.fields
                        /\ line.fields["flags"].kind = "bits"
           flag == Entry("flags_bits", Number(line.fields["flags"].value[1]))
<1>1. Flagged(line, item) = With(item, When(condition, flag))
    BY DEF Flagged
<1>2. AllFinite(When(condition, flag))
    BY FiniteValues, FiniteEntry, FiniteWhen
<1>3. DOMAIN When(condition, flag) \subseteq {"flags_bits"}
    BY DEF When, Entry
<1> HIDE DEF condition, flag
<1>4. DOMAIN When(condition, flag) \subseteq OwnNames
    BY <1>3 DEF OwnNames
<1>5. QED
    BY <1>1, <1>2, <1>4, FiniteWith, OwnEntriesKeep

LEMMA GoodIndicated ==
    ASSUME NEW line, IsLine(line),
           NEW item, AllFinite(item), Keeps(item, line, Sections)
    PROVE  /\ AllFinite(Indicated(item))
           /\ Keeps(Indicated(item), line, Sections)
<1> DEFINE flags == [i \in {i \in DOMAIN Indicators :
                               IsNumber(item, Indicators[i])} |->
                        Bool(Positive(item[Indicators[i]]))]
           response == When(IsNumber(item, "app_latency_rrt_max_ms"),
                            Entry("app_response_time_ms",
                                  item["app_latency_rrt_max_ms"]))
<1>1. Indicated(item) = With(With(item, flags), response)
    BY DEF Indicated
<1>2. AllFinite(flags) /\ DOMAIN flags \subseteq OwnNames
    BY FiniteValues DEF AllFinite, OwnNames
<1>3. AllFinite(response)
    BY FiniteEntry, FiniteWhen DEF IsNumber
<1>4. DOMAIN response \subseteq {"app_response_time_ms"}
    BY DEF When, Entry
<1>5. DOMAIN response \subseteq OwnNames
    BY <1>4 DEF OwnNames
<1> HIDE DEF flags, response
<1>6. AllFinite(With(item, flags)) /\ Keeps(With(item, flags), line, Sections)
    BY <1>2, FiniteWith, OwnEntriesKeep
<1>7. QED
    BY <1>1, <1>3, <1>5, <1>6, FiniteWith, OwnEntriesKeep

LEMMA GoodFlattened ==
    ASSUME NEW line, IsLine(line)
    PROVE  Good(line, Flattened(line), Sections)
<1> DEFINE kept == When("timestamp" \in DOMAIN line.fields,
                        Entry("timestamp", line.fields["timestamp"]))
           tagged == InAnyOrder(kept, TaggerWrites(line))
           traffic == Loop(line, tagged, "app_traffic_")
           latency == Loop(line, traffic, "app_latency_")
           anomaly == Loop(line, latency, "app_anomaly_")
           flowTraffic == Loop(line, anomaly, "flow_traffic_")
           flowLatency == Loop(line, flowTraffic, "flow_latency_")
           flowPerformance == Loop(line, flowLatency, "flow_performance_")
           flowAnomaly == Loop(line, flowPerformance, "flow_anomaly_")
<1>1. AllFinite(kept)
    <2>1. "timestamp" \in DOMAIN line.fields
            => line.fields["timestamp"].kind # "notfinite"
        BY DEF IsLine, IsObject
    <2>2. QED
        BY <2>1 DEF When, Entry, AllFinite
<1>2. Flattened(line) = {Indicated(Flagged(line, r)) : r \in flowAnomaly}
    BY DEF Flattened
<1> HIDE DEF kept
<1>3. Good(line, tagged, {})
    BY <1>1, GoodTagged
<1> HIDE DEF tagged
<1>4. Good(line, traffic, {"app_traffic_"})
    BY <1>3, GoodLoop DEF Sections
<1> HIDE DEF traffic
<1>5. Good(line, latency, {"app_traffic_", "app_latency_"})
    <2>1. {"app_traffic_"} \cup {"app_latency_"} = {"app_traffic_", "app_latency_"}
        OBVIOUS
    <2>2. "app_latency_" \in Sections /\ {"app_traffic_"} \subseteq Sections
        BY DEF Sections
    <2>3. QED
        BY <1>4, <2>1, <2>2, GoodLoop
<1> HIDE DEF latency
<1> DEFINE app == {"app_traffic_", "app_latency_", "app_anomaly_"}
           flow1 == app \cup {"flow_traffic_"}
           flow2 == flow1 \cup {"flow_latency_"}
           flow3 == flow2 \cup {"flow_performance_"}
<1>6. Good(line, anomaly, app)
    <2>1. {"app_traffic_", "app_latency_"} \cup {"app_anomaly_"} = app
        OBVIOUS
    <2>2. /\ "app_anomaly_" \in Sections
          /\ {"app_traffic_", "app_latency_"} \subseteq Sections
        BY DEF Sections
    <2> HIDE DEF app
    <2>3. QED
        BY <1>5, <2>1, <2>2, GoodLoop
<1> HIDE DEF anomaly
<1>7. /\ app \subseteq Sections /\ "flow_traffic_" \in Sections
      /\ flow1 \subseteq Sections /\ "flow_latency_" \in Sections
      /\ flow2 \subseteq Sections /\ "flow_performance_" \in Sections
      /\ flow3 \subseteq Sections /\ "flow_anomaly_" \in Sections
      /\ flow3 \cup {"flow_anomaly_"} = Sections
    BY DEF Sections
<1> HIDE DEF app
<1>8. Good(line, flowTraffic, flow1)
    BY <1>6, <1>7, GoodLoop
<1> HIDE DEF flowTraffic, flow1
<1>9. Good(line, flowLatency, flow2)
    BY <1>7, <1>8, GoodLoop
<1> HIDE DEF flowLatency, flow2
<1>10. Good(line, flowPerformance, flow3)
    BY <1>7, <1>9, GoodLoop
<1> HIDE DEF flowPerformance, flow3
<1>11. Good(line, flowAnomaly, flow3 \cup {"flow_anomaly_"})
    BY <1>7, <1>10, GoodLoop
<1>12. Good(line, flowAnomaly, Sections)
    BY <1>7, <1>11
<1> HIDE DEF flowAnomaly
<1>13. ASSUME NEW r \in flowAnomaly
       PROVE  /\ AllFinite(Indicated(Flagged(line, r)))
              /\ Keeps(Indicated(Flagged(line, r)), line, Sections)
    <2>1. AllFinite(r) /\ Keeps(r, line, Sections)
        BY <1>12 DEF Good
    <2>2. QED
        BY <2>1, GoodFlagged, GoodIndicated
<1>14. QED
    BY <1>2, <1>13 DEF Good

LEMMA GoodMetrics ==
    ASSUME NEW line, IsLine(line)
    PROVE  Good(line, MetricsEvents(line), Sections)
<1>1. SUFFICES ASSUME NEW r \in Flattened(line)
               PROVE  LET item == With(Stamped(r, "metrics"),
                                       Entry("hostname", OwnHostname))
                      IN  AllFinite(item) /\ Keeps(item, line, Sections)
    BY DEF Good, MetricsEvents
<1> DEFINE stamped == Stamped(r, "metrics")
           host == Entry("hostname", OwnHostname)
           own == [eventType |-> Name("metrics"), ingest_timestamp |-> Now]
<1>2. AllFinite(r) /\ Keeps(r, line, Sections)
    BY GoodFlattened DEF Good
<1>3. AllFinite(host) /\ DOMAIN host = {"hostname"}
    BY FiniteValues, FiniteEntry, OneEntry
<1>4. AllFinite(stamped)
    BY <1>2, FiniteStamped DEF Types
<1>5. Keeps(With(host, r), line, Sections)
    BY <1>2 DEF Keeps, With
<1>6. DOMAIN own = {"eventType", "ingest_timestamp"}
    OBVIOUS
<1>7. DOMAIN own \subseteq OwnNames /\ DOMAIN host \subseteq OwnNames
    BY <1>3, <1>6 DEF OwnNames
<1>8. stamped = With(With(host, r), own)
    BY DEF Stamped
<1> HIDE DEF stamped, host, own
<1>9. Keeps(stamped, line, Sections)
    BY <1>5, <1>7, <1>8, OwnEntriesKeep
<1>10. QED
    BY <1>3, <1>4, <1>7, <1>9, FiniteWith, OwnEntriesKeep DEF stamped, host

-----------------------------------------------------------------------------
(* A line that is not ambiguous makes one event, whatever the order of the *)
(* maps.                                                                   *)
AtMostOne(results) == \A r, q \in results : r = q

LEMMA OneLoop ==
    ASSUME NEW line, IsLine(line), ~Ambiguous(line), NEW section \in Sections,
           NEW results, AtMostOne(results)
    PROVE  AtMostOne(Loop(line, results, section))
<1>1. SUFFICES ASSUME NEW r \in Loop(line, results, section),
                      NEW q \in Loop(line, results, section)
               PROVE  r = q
    BY DEF AtMostOne
<1>2. PICK r0 \in results : r \in InAnyOrder(r0, MeterWrites(line, section))
    BY DEF Loop
<1>3. PICK q0 \in results : q \in InAnyOrder(q0, MeterWrites(line, section))
    BY DEF Loop
<1>4. r0 = q0
    BY DEF AtMostOne
<1>5. Agree(MeterWrites(line, section))
    BY MeterAgrees
<1>6. QED
    BY <1>2, <1>3, <1>4, <1>5, OrderIrrelevant

LEMMA OneFlattened ==
    ASSUME NEW line, IsLine(line), ~Ambiguous(line)
    PROVE  AtMostOne(Flattened(line))
<1> DEFINE kept == When("timestamp" \in DOMAIN line.fields,
                        Entry("timestamp", line.fields["timestamp"]))
           tagged == InAnyOrder(kept, TaggerWrites(line))
           traffic == Loop(line, tagged, "app_traffic_")
           latency == Loop(line, traffic, "app_latency_")
           anomaly == Loop(line, latency, "app_anomaly_")
           flowTraffic == Loop(line, anomaly, "flow_traffic_")
           flowLatency == Loop(line, flowTraffic, "flow_latency_")
           flowPerformance == Loop(line, flowLatency, "flow_performance_")
           flowAnomaly == Loop(line, flowPerformance, "flow_anomaly_")
<1>1. Flattened(line) = {Indicated(Flagged(line, r)) : r \in flowAnomaly}
    BY DEF Flattened
<1> HIDE DEF kept
<1>2. AtMostOne(tagged)
    BY TaggerAgrees, OrderIrrelevant DEF AtMostOne
<1> HIDE DEF tagged
<1>3. AtMostOne(traffic)
    BY <1>2, OneLoop DEF Sections
<1> HIDE DEF traffic
<1>4. AtMostOne(latency)
    BY <1>3, OneLoop DEF Sections
<1> HIDE DEF latency
<1>5. AtMostOne(anomaly)
    BY <1>4, OneLoop DEF Sections
<1> HIDE DEF anomaly
<1>6. AtMostOne(flowTraffic)
    BY <1>5, OneLoop DEF Sections
<1> HIDE DEF flowTraffic
<1>7. AtMostOne(flowLatency)
    BY <1>6, OneLoop DEF Sections
<1> HIDE DEF flowLatency
<1>8. AtMostOne(flowPerformance)
    BY <1>7, OneLoop DEF Sections
<1> HIDE DEF flowPerformance
<1>9. AtMostOne(flowAnomaly)
    BY <1>8, OneLoop DEF Sections
<1> HIDE DEF flowAnomaly
<1>10. QED
    BY <1>1, <1>9 DEF AtMostOne
-----------------------------------------------------------------------------
(* What the conversion of a line returns.                                  *)
LEMMA ConversionOutcome ==
    ASSUME NEW line, IsLine(line), line.type \in Types,
           NEW result \in Conversions(line)
    PROVE  /\ result.outcome \in {"dropped", "panic", "event"}
           /\ result.outcome = "dropped" <=> line.json = "broken"
           /\ result.outcome = "event" => IsStamped(result.item, line.type)
           /\ result.outcome = "event" /\ line.type = "metrics" =>
                 Keeps(result.item, line, Sections)
<1>1. CASE line.json = "broken"
    <2>1. Conversions(line) = {Dropped}
        BY <1>1 DEF Conversions
    <2>2. QED
        BY <1>1, <2>1 DEF Dropped
<1>2. CASE line.json = "null" /\ line.type # "metrics"
    <2>1. Conversions(line) = {Panic}
        BY <1>2 DEF Conversions
    <2>2. QED
        BY <1>2, <2>1 DEF Panic
<1>3. CASE line.json # "broken" /\ ~(line.json = "null" /\ line.type # "metrics")
    <2> DEFINE items == CASE line.type = "l7" -> L7Events(line)
                          [] line.type = "l4" -> L4Events(line)
                          [] line.type = "metrics" -> MetricsEvents(line)
    <2>1. PICK item \in items : result = Marshal(item)
        BY <1>3 DEF Conversions
    <2>2. /\ AllFinite(item) /\ IsStamped(item, line.type)
          /\ line.type = "metrics" => Keeps(item, line, Sections)
        <3>1. CASE line.type = "l7"
            BY <2>1, <3>1, FiniteL7, L7Stamped
        <3>2. CASE line.type = "l4"
            BY <2>1, <3>2, FiniteL4, L4Stamped
        <3>3. CASE line.type = "metrics"
            BY <2>1, <3>3, GoodMetrics, MetricsStamped DEF Good
        <3>4. QED
            BY <3>1, <3>2, <3>3 DEF Types
    <2>3. result = Event(item)
        BY <2>1, <2>2 DEF Marshal, AllFinite
    <2>4. result.outcome = "event" /\ result.item = item
        BY <2>3 DEF Event
    <2>5. QED
        BY <1>3, <2>2, <2>4
<1>4. QED
    BY <1>1, <1>2, <1>3

LEMMA OneConversion ==
    ASSUME NEW line, IsLine(line), line.type \in Types, ~Ambiguous(line)
    PROVE  AtMostOne(Conversions(line))
<1>1. CASE line.json = "broken"
    BY <1>1 DEF Conversions, AtMostOne
<1>2. CASE line.json = "null" /\ line.type # "metrics"
    <2>1. Conversions(line) = {Panic}
        BY <1>2 DEF Conversions
    <2>2. QED
        BY <2>1 DEF AtMostOne
<1>3. CASE line.json # "broken" /\ ~(line.json = "null" /\ line.type # "metrics")
    <2> DEFINE items == CASE line.type = "l7" -> L7Events(line)
                          [] line.type = "l4" -> L4Events(line)
                          [] line.type = "metrics" -> MetricsEvents(line)
    <2>1. Conversions(line) = {Marshal(item) : item \in items}
        BY <1>3 DEF Conversions
    <2>2. AtMostOne(items)
        <3>1. CASE line.type = "l7"
            BY <3>1 DEF L7Events, AtMostOne
        <3>2. CASE line.type = "l4"
            BY <3>2 DEF L4Events, AtMostOne
        <3>3. CASE line.type = "metrics"
            <4>1. AtMostOne(Flattened(line))
                BY OneFlattened
            <4>2. AtMostOne(MetricsEvents(line))
                BY <4>1 DEF MetricsEvents, AtMostOne
            <4>3. QED
                BY <3>3, <4>2
        <3>4. QED
            BY <3>1, <3>2, <3>3 DEF Types
    <2> HIDE DEF items
    <2>3. QED
        BY <2>1, <2>2 DEF AtMostOne
<1>4. QED
    BY <1>1, <1>2, <1>3

-----------------------------------------------------------------------------
(* The invariant.  An entry is an event with the line that made it.        *)
EventsOf(l) ==
    {r.item : r \in {r \in Conversions(body[l]) : r.outcome = "event"}}
Entries ==
    UNION {{[event |-> e, line |-> l] : e \in EventsOf(l)} :
              l \in {l \in 1..Len(body) : body[l].type \in Types}}

(* The lines of a type before line n that are to reach its sender.         *)
Taken(t, n) == {l \in LinesOf(t) : t \in enabled /\ l < n}

(* A sequence of entries holds exactly some lines, in their order.         *)
Holds(entries, lines) ==
    /\ \A i, j \in 1..Len(entries) : i < j => entries[i].line < entries[j].line
    /\ LinesIn(entries) = lines

RoutingTypes ==
    /\ LinesTypeOK
    /\ body \in Seq(BodyLines) /\ samples \in Nat
    /\ sender \in [Types -> [Ways -> Seq(Entries)]]
    /\ batch \in [Types -> Seq(Entries)]

(* The queue's way: what the worker has converted is with the sender or    *)
(* still in the batch behind it.                                           *)
QueueWay ==
    /\ \A t \in Types :
          Holds(sender[t]["queue"] \o batch[t], Taken(t, workerLine))
    /\ worker = "converting" => \A t \in Types : sender[t]["queue"] = <<>>
    /\ worker # "converting" => workerLine = Len(body) + 1
    /\ worker = "done" => \A t \in Types : batch[t] = <<>>

(* Kafka's way: a consumer that let the body pass takes all of its lines,  *)
(* one that did not takes none.                                            *)
KafkaWay ==
    /\ \A t \in Types :
          Holds(sender[t]["kafka"], Taken(t, consumerLine))
    /\ consumer = "filtering" => consumerLine = 1
    /\ consumer = "converting" => PassesFilter
    /\ consumer = "done" => consumerLine = IF PassesFilter THEN Len(body) + 1
                                           ELSE 1
    /\ IsProfiler => body = <<>>

RoutingInv == RoutingTypes /\ QueueWay /\ KafkaWay

(* An entry is what a conversion of its line returned.                     *)
LEMMA EntryIs ==
    ASSUME body \in Seq(BodyLines), NEW entry \in Entries
    PROVE  /\ entry.line \in 1..Len(body)
           /\ IsLine(body[entry.line]) /\ body[entry.line].type \in Types
           /\ \E r \in Conversions(body[entry.line]) :
                 r.outcome = "event" /\ r.item = entry.event
<1>1. PICK l \in 1..Len(body) :
         /\ body[l].type \in Types
         /\ \E e \in EventsOf(l) : entry = [event |-> e, line |-> l]
    BY DEF Entries
<1>2. entry.line = l /\ entry.event \in EventsOf(l)
    BY <1>1
<1>3. body[l] \in BodyLines
    BY ElementOfSeq
<1>4. QED
    BY <1>1, <1>2, <1>3, RoutingAssumption DEF EventsOf

LEMMA IsEntry ==
    ASSUME NEW l \in 1..Len(body), body[l].type \in Types,
           NEW r \in Conversions(body[l]), r.outcome = "event"
    PROVE  [event |-> r.item, line |-> l] \in Entries
<1>1. r.item \in EventsOf(l)
    BY DEF EventsOf
<1>2. [event |-> r.item, line |-> l]
        \in {[event |-> e, line |-> l] : e \in EventsOf(l)}
    BY <1>1
<1>3. QED
    BY <1>2 DEF Entries

(* The next line is taken, or it is not to be.                             *)
LEMMA TakenMore ==
    ASSUME NEW t, NEW n \in Nat
    PROVE  /\ n \in LinesOf(t) /\ t \in enabled =>
                 Taken(t, n + 1) = Taken(t, n) \cup {n}
           /\ ~(n \in LinesOf(t) /\ t \in enabled) =>
                 Taken(t, n + 1) = Taken(t, n)
           /\ \A l \in Taken(t, n) : l \in Int /\ l < n
BY DEF Taken, LinesOf

LEMMA HoldsAppend ==
    ASSUME NEW lines, NEW n \in Int, \A l \in lines : l \in Int /\ l < n,
           NEW S, NEW entries \in Seq(S), Holds(entries, lines),
           NEW entry \in S, entry.line = n
    PROVE  Holds(Append(entries, entry), lines \cup {n})
<1> DEFINE longer == Append(entries, entry)
<1>1. /\ Len(longer) = Len(entries) + 1 /\ Len(entries) \in Nat
      /\ \A i \in 1..Len(entries) : longer[i] = entries[i]
      /\ longer[Len(entries) + 1] = entry
    BY AppendProperties
<1>2. \A i \in 1..Len(entries) : entries[i].line \in lines
    BY DEF Holds, LinesIn
<1>3. \A i \in 1..Len(entries) : entries[i].line \in Int /\ entries[i].line < n
    BY <1>2
<1> HIDE DEF longer
<1>4. ASSUME NEW i \in 1..Len(longer), NEW j \in 1..Len(longer), i < j
      PROVE  longer[i].line < longer[j].line
    <2>1. i \in 1..Len(entries)
        BY <1>1, <1>4
    <2>2. CASE j \in 1..Len(entries)
        BY <1>1, <1>4, <2>1, <2>2 DEF Holds
    <2>3. CASE j = Len(entries) + 1
        BY <1>1, <1>3, <2>1, <2>3
    <2>4. QED
        BY <1>1, <2>2, <2>3
<1>5. LinesIn(longer) = LinesIn(entries) \cup {n}
    BY <1>1 DEF LinesIn
<1>6. QED
    BY <1>4, <1>5 DEF Holds, longer

(* Sequences that the actions make.                                        *)
LEMMA MoveHead ==
    ASSUME NEW S, NEW s \in Seq(S), NEW b \in Seq(S), b # <<>>
    PROVE  /\ Append(s, Head(b)) \in Seq(S) /\ Tail(b) \in Seq(S)
           /\ Append(s, Head(b)) \o Tail(b) = s \o b
<1> DEFINE u == Append(s, Head(b))
           c == Tail(b)
<1>1. /\ Head(b) \in S /\ c \in Seq(S) /\ Len(c) = Len(b) - 1
      /\ \A i \in 1..Len(c) : c[i] = b[i + 1]
      /\ Head(b) = b[1] /\ Len(b) \in Nat \ {0}
    BY HeadTailProperties, EmptySeq
<1>2. /\ u \in Seq(S) /\ Len(u) = Len(s) + 1 /\ Len(s) \in Nat
      /\ \A i \in 1..Len(s) : u[i] = s[i]
      /\ u[Len(s) + 1] = b[1]
    BY <1>1, AppendProperties
<1> HIDE DEF u, c
<1>3. /\ u \o c \in Seq(S) /\ Len(u \o c) = Len(u) + Len(c)
      /\ \A i \in 1..(Len(u) + Len(c)) :
            (u \o c)[i] = IF i <= Len(u) THEN u[i] ELSE c[i - Len(u)]
    BY <1>1, <1>2, ConcatProperties
<1>4. /\ s \o b \in Seq(S) /\ Len(s \o b) = Len(s) + Len(b)
      /\ \A i \in 1..(Len(s) + Len(b)) :
            (s \o b)[i] = IF i <= Len(s) THEN s[i] ELSE b[i - Len(s)]
    BY ConcatProperties
<1>5. Len(u \o c) = Len(s \o b)
    BY <1>1, <1>2, <1>3, <1>4
<1>6. ASSUME NEW i \in 1..Len(s \o b)
      PROVE  (u \o c)[i] = (s \o b)[i]
    <2>1. CASE i <= Len(s)
        BY <1>1, <1>2, <1>3, <1>4, <2>1
    <2>2. CASE i = Len(s) + 1
        BY <1>1, <1>2, <1>3, <1>4, <2>2
    <2>3. CASE i > Len(s) + 1
        <3>1. i - Len(u) \in 1..Len(c) /\ i - Len(u) + 1 = i - Len(s)
            BY <1>1, <1>2, <1>4, <2>3
        <3>2. QED
            BY <1>1, <1>2, <1>3, <1>4, <2>3, <3>1
    <2>4. QED
        BY <1>1, <1>2, <1>4, <2>1, <2>2, <2>3
<1>7. u \o c = s \o b
    BY <1>3, <1>4, <1>5, <1>6, SeqEqual
<1>8. QED
    BY <1>1, <1>2, <1>7 DEF u, c

LEMMA ConcatAppend ==
    ASSUME NEW S, NEW s \in Seq(S), NEW b \in Seq(S), NEW e \in S
    PROVE  s \o Append(b, e) = Append(s \o b, e)
<1>1. Append(b, e) = b \o <<e>> /\ Append(s \o b, e) = (s \o b) \o <<e>>
    BY AppendIsConcat, ConcatProperties
<1>2. <<e>> \in Seq(S)
    OBVIOUS
<1>3. QED
    BY <1>1, <1>2, ConcatAssociative

-----------------------------------------------------------------------------
(* What a conversion makes of the next line of a body.                     *)
LEMMA LineIs ==
    ASSUME body \in Seq(BodyLines), NEW l \in 1..Len(body)
    PROVE  IsLine(body[l]) /\ body[l] \in BodyLines
<1>1. body[l] \in BodyLines
    BY ElementOfSeq
<1>2. QED
    BY <1>1, RoutingAssumption

LEMMA DroppedLine ==
    ASSUME body \in Seq(BodyLines), NEW l \in 1..Len(body),
           enabled \subseteq Types,
           NEW result \in Converted(body[l]), result.outcome = "dropped"
    PROVE  \A t \in enabled : l \notin LinesOf(t)
<1>1. CASE ~Routed(body[l])
    BY <1>1 DEF Routed, LinesOf
<1>2. CASE Routed(body[l])
    <2>1. result \in Conversions(body[l]) /\ body[l].type \in Types
        BY <1>2 DEF Converted, Routed
    <2>2. body[l].json = "broken"
        BY <2>1, LineIs, ConversionOutcome
    <2>3. QED
        BY <2>2 DEF LinesOf
<1>3. QED
    BY <1>1, <1>2

LEMMA EventLine ==
    ASSUME body \in Seq(BodyLines), NEW l \in 1..Len(body),
           enabled \subseteq Types,
           NEW result \in Converted(body[l]),
           result.outcome # "dropped", result.outcome # "panic"
    PROVE  /\ body[l].type \in enabled
           /\ l \in LinesOf(body[l].type)
           /\ \A t \in Types : t # body[l].type => l \notin LinesOf(t)
           /\ [event |-> result.item, line |-> l] \in Entries
<1>1. Routed(body[l])
    BY DEF Converted, Dropped
<1>2. result \in Conversions(body[l]) /\ body[l].type \in Types
    BY <1>1 DEF Converted, Routed
<1>3. result.outcome = "event" /\ body[l].json # "broken"
    BY <1>2, LineIs, ConversionOutcome
<1>4. [event |-> result.item, line |-> l] \in Entries
    BY <1>2, <1>3, IsEntry
<1>5. QED
    BY <1>1, <1>3, <1>4 DEF Routed, LinesOf

-----------------------------------------------------------------------------
(* The invariant holds of the initial states.                              *)
LEMMA NothingTaken ==
    ASSUME NEW t
    PROVE  Holds(<<>>, Taken(t, 1))
<1>1. Taken(t, 1) = {}
    BY DEF Taken, LinesOf
<1>2. LinesIn(<<>>) = {}
    BY DEF LinesIn
<1>3. QED
    BY <1>1, <1>2 DEF Holds

LEMMA InitRoutingInv == Init => RoutingInv
<1> SUFFICES ASSUME Init PROVE RoutingInv
    OBVIOUS
<1>1. body \in Seq(BodyLines) /\ samples \in Nat
    <2>1. CASE body \in Bodies /\ samples = 0
        BY <2>1, RoutingAssumption
    <2>2. CASE body = <<>> /\ samples \in Payloads
        BY <2>2, RoutingAssumption
    <2>3. QED
        BY <2>1, <2>2 DEF Init
<1>2. Len(body) \in Nat
    BY <1>1
<1>3. LinesTypeOK
    BY <1>2, RoutingAssumption DEF Init, LinesTypeOK
<1>4. RoutingTypes
    BY <1>1, <1>3 DEF RoutingTypes, Init
<1>5. \A t \in Types : sender[t]["queue"] \o batch[t] = <<>>
    BY DEF Init, Ways
<1>6. QueueWay
    BY <1>5, NothingTaken DEF QueueWay, Init
<1>7. IsProfiler => body = <<>>
    BY DEF IsProfiler, Init
<1>8. KafkaWay
    BY <1>7, NothingTaken DEF KafkaWay, Init, Ways
<1>9. QED
    BY <1>4, <1>6, <1>8 DEF RoutingInv

-----------------------------------------------------------------------------
(* Each action keeps it.                                                   *)
LEMMA EntriesKept ==
    ASSUME UNCHANGED inputVars
    PROVE  Entries' = Entries
BY DEF inputVars, Entries, EventsOf

LEMMA TakenKept ==
    ASSUME UNCHANGED inputVars, NEW t, NEW n
    PROVE  Taken(t, n)' = Taken(t, n)
BY DEF inputVars, Taken, LinesOf

LEMMA SenderGets ==
    ASSUME NEW S, NEW s \in [Types -> [Ways -> Seq(S)]],
           NEW t \in Types, NEW way \in Ways, NEW e \in S,
           NEW q, q = [s EXCEPT ![t][way] = Append(@, e)]
    PROVE  /\ q \in [Types -> [Ways -> Seq(S)]]
           /\ q[t][way] = Append(s[t][way], e)
           /\ \A u \in Types, w \in Ways :
                 u # t \/ w # way => q[u][w] = s[u][w]
<1>1. s[t][way] \in Seq(S)
    OBVIOUS
<1>2. Append(s[t][way], e) \in Seq(S)
    BY <1>1, AppendProperties
<1>3. QED
    BY <1>2

(* The process goes down: nothing else changes.                            *)
LEMMA DownKeeps == RoutingInv /\ GoesDown => RoutingInv'
<1> SUFFICES ASSUME RoutingInv, GoesDown PROVE RoutingInv'
    OBVIOUS
<1>1. UNCHANGED <<inputVars, workerVars, consumerVars, sender>> /\ up' = FALSE
    BY DEF GoesDown
<1>2. Entries' = Entries
    BY <1>1, EntriesKept
<1>3. RoutingTypes'
    BY <1>1, <1>2 DEF RoutingInv, RoutingTypes, LinesTypeOK, inputVars,
                      workerVars, consumerVars
<1>4. QueueWay'
    BY <1>1 DEF RoutingInv, QueueWay, Taken, LinesOf, inputVars, workerVars
<1>5. KafkaWay'
    BY <1>1 DEF RoutingInv, KafkaWay, Taken, LinesOf, PassesFilter, IsProfiler,
                inputVars, consumerVars
<1>6. QED
    BY <1>3, <1>4, <1>5 DEF RoutingInv

LEMMA WorkerConvertsKeeps == RoutingInv /\ WorkerConverts => RoutingInv'
<1> SUFFICES ASSUME RoutingInv, WorkerConverts PROVE RoutingInv'
    OBVIOUS
<1>1. /\ worker = "converting" /\ workerLine <= Len(body)
      /\ workerLine \in 1..(Len(body) + 1) /\ body \in Seq(BodyLines)
      /\ enabled \subseteq Types /\ up \in BOOLEAN
      /\ sender \in [Types -> [Ways -> Seq(Entries)]]
      /\ batch \in [Types -> Seq(Entries)]
    BY DEF WorkerConverts, RoutingInv, RoutingTypes, LinesTypeOK
<1>2. workerLine \in 1..Len(body) /\ workerLine \in Nat /\ Len(body) \in Nat
    BY <1>1
<1>3. PICK result \in Converted(body[workerLine]) :
        IF result.outcome = "panic" THEN GoesDown
        ELSE /\ batch' = IF result.outcome = "dropped" THEN batch
                         ELSE [batch EXCEPT ![body[workerLine].type] =
                                  Append(@, [event |-> result.item,
                                             line |-> workerLine])]
             /\ workerLine' = workerLine + 1
             /\ UNCHANGED <<inputVars, up, worker, consumerVars, sender>>
    BY DEF WorkerConverts
<1>4. CASE result.outcome = "panic"
    BY <1>3, <1>4, DownKeeps
<1>5. CASE result.outcome # "panic"
    <2> DEFINE type == body[workerLine].type
               entry == [event |-> result.item, line |-> workerLine]
    <2>1. /\ workerLine' = workerLine + 1
          /\ UNCHANGED <<inputVars, up, worker, consumerVars, sender>>
        BY <1>3, <1>5
    <2>2. Entries' = Entries
        BY <2>1, EntriesKept
    <2>3. /\ batch' \in [Types -> Seq(Entries)]
          /\ \A t \in Types :
                Holds(sender[t]["queue"] \o batch'[t], Taken(t, workerLine + 1))
        <3>1. \A t \in Types :
                Holds(sender[t]["queue"] \o batch[t], Taken(t, workerLine))
            BY DEF RoutingInv, QueueWay
        <3>2. CASE result.outcome = "dropped"
            <4>1. batch' = batch
                BY <1>3, <1>5, <3>2
            <4>2. \A t \in Types : Taken(t, workerLine + 1) = Taken(t, workerLine)
                BY <1>1, <1>2, <3>2, DroppedLine, TakenMore
            <4>3. QED
                BY <1>1, <3>1, <4>1, <4>2
        <3>3. CASE result.outcome # "dropped"
            <4>1. /\ type \in enabled /\ type \in Types
                  /\ workerLine \in LinesOf(type)
                  /\ \A t \in Types : t # type => workerLine \notin LinesOf(t)
                  /\ entry \in Entries /\ entry.line = workerLine
                BY <1>1, <1>2, <1>5, <3>3, EventLine
            <4>2. batch' = [batch EXCEPT ![type] = Append(@, entry)]
                BY <1>3, <1>5, <3>3
            <4> HIDE DEF type, entry
            <4>3. batch[type] \in Seq(Entries)
                BY <1>1, <4>1
            <4>4. Append(batch[type], entry) \in Seq(Entries)
                BY <4>1, <4>3, AppendProperties
            <4>5. batch' \in [Types -> Seq(Entries)]
                BY <1>1, <4>1, <4>2, <4>4
            <4>6. ASSUME NEW t \in Types, t # type
                  PROVE  Holds(sender[t]["queue"] \o batch'[t],
                               Taken(t, workerLine + 1))
                <5>1. batch'[t] = batch[t]
                    BY <1>1, <4>2, <4>6
                <5>2. Taken(t, workerLine + 1) = Taken(t, workerLine)
                    BY <1>2, <4>1, <4>6, TakenMore
                <5>3. QED
                    BY <3>1, <5>1, <5>2
            <4>7. Holds(sender[type]["queue"] \o batch'[type],
                        Taken(type, workerLine + 1))
                <5> DEFINE given == sender[type]["queue"]
                <5>1. batch'[type] = Append(batch[type], entry)
                    BY <1>1, <4>1, <4>2
                <5>2. given \in Seq(Entries)
                    BY <1>1, <4>1 DEF Ways
                <5>3. given \o batch[type] \in Seq(Entries)
                    BY <4>3, <5>2, ConcatProperties
                <5>4. Holds(given \o batch[type], Taken(type, workerLine))
                    BY <3>1, <4>1
                <5> HIDE DEF given
                <5>5. given \o batch'[type] = Append(given \o batch[type], entry)
                    BY <4>1, <4>3, <5>1, <5>2, ConcatAppend
                <5>6. /\ Taken(type, workerLine + 1)
                           = Taken(type, workerLine) \cup {workerLine}
                      /\ \A l \in Taken(type, workerLine) :
                            l \in Int /\ l < workerLine
                    BY <1>2, <4>1, TakenMore
                <5>7. Holds(Append(given \o batch[type], entry),
                            Taken(type, workerLine) \cup {workerLine})
                    <6> DEFINE whole == given \o batch[type]
                               lines == Taken(type, workerLine)
                    <6>1. /\ whole \in Seq(Entries) /\ Holds(whole, lines)
                          /\ \A l \in lines : l \in Int /\ l < workerLine
                          /\ workerLine \in Int
                        BY <1>2, <5>3, <5>4, <5>6
                    <6> HIDE DEF whole, lines
                    <6>2. Holds(Append(whole, entry), lines \cup {workerLine})
                        BY <4>1, <6>1, HoldsAppend
                    <6>3. QED
                        BY <6>2 DEF whole, lines
                <5>8. QED
                    BY <5>5, <5>6, <5>7 DEF given
            <4>8. QED
                BY <4>5, <4>6, <4>7
        <3>4. QED
            BY <3>2, <3>3
    <2>4. RoutingTypes'
        BY <1>1, <1>2, <2>1, <2>2, <2>3
        DEF RoutingInv, RoutingTypes, LinesTypeOK, inputVars, consumerVars
    <2>5. \A t \in Types : Taken(t, workerLine)' = Taken(t, workerLine + 1)
        BY <2>1 DEF Taken, LinesOf, inputVars
    <2>6. QueueWay'
        BY <1>1, <2>1, <2>3, <2>5 DEF RoutingInv, QueueWay
    <2>7. KafkaWay'
        BY <2>1 DEF RoutingInv, KafkaWay, Taken, LinesOf, PassesFilter,
                    IsProfiler, inputVars, consumerVars
    <2>8. QED
        BY <2>4, <2>6, <2>7 DEF RoutingInv
<1>6. QED
    BY <1>4, <1>5

LEMMA WorkerConvertedKeeps == RoutingInv /\ WorkerConverted => RoutingInv'
<1> SUFFICES ASSUME RoutingInv, WorkerConverted PROVE RoutingInv'
    OBVIOUS
<1>1. /\ worker = "converting" /\ worker' = "adding"
      /\ UNCHANGED <<inputVars, up, workerLine, batch, consumerVars, sender>>
    BY DEF WorkerConverted
<1>2. Entries' = Entries
    BY <1>1, EntriesKept
<1>3. workerLine = Len(body) + 1
    <2>1. workerLine \in 1..(Len(body) + 1) /\ body \in Seq(BodyLines)
        BY DEF RoutingInv, RoutingTypes, LinesTypeOK
    <2>2. Len(body) \in Nat /\ workerLine > Len(body)
        BY <2>1 DEF WorkerConverted
    <2>3. QED
        BY <2>1, <2>2
<1>4. RoutingTypes'
    BY <1>1, <1>2 DEF RoutingInv, RoutingTypes, LinesTypeOK, inputVars,
                      consumerVars
<1>5. QueueWay'
    BY <1>1, <1>3 DEF RoutingInv, QueueWay, Taken, LinesOf, inputVars
<1>6. KafkaWay'
    BY <1>1 DEF RoutingInv, KafkaWay, Taken, LinesOf, PassesFilter, IsProfiler,
                inputVars, consumerVars
<1>7. QED
    BY <1>4, <1>5, <1>6 DEF RoutingInv

LEMMA WorkerAddsKeeps == RoutingInv /\ WorkerAdds => RoutingInv'
<1> SUFFICES ASSUME RoutingInv, WorkerAdds PROVE RoutingInv'
    OBVIOUS
<1> DEFINE type == NextBatch
           entry == Head(batch[type])
<1>1. /\ worker = "adding" /\ batch[type] # <<>>
      /\ sender' = [sender EXCEPT ![type]["queue"] = Append(@, entry)]
      /\ batch' = [batch EXCEPT ![type] = Tail(@)]
      /\ UNCHANGED <<inputVars, up, worker, workerLine, consumerVars>>
    BY DEF WorkerAdds
<1>2. type \in Types /\ "queue" \in Ways /\ "kafka" \in Ways
    BY DEF NextBatch, Types, Ways
<1>3. /\ sender \in [Types -> [Ways -> Seq(Entries)]]
      /\ batch \in [Types -> Seq(Entries)]
    BY DEF RoutingInv, RoutingTypes
<1>4. Entries' = Entries
    BY <1>1, EntriesKept
<1> HIDE DEF type
<1>5. batch[type] \in Seq(Entries) /\ sender[type]["queue"] \in Seq(Entries)
    BY <1>2, <1>3
<1>6. entry \in Entries
    BY <1>1, <1>5, HeadTailProperties
<1>7. /\ Append(sender[type]["queue"], entry) \in Seq(Entries)
      /\ Tail(batch[type]) \in Seq(Entries)
      /\ Append(sender[type]["queue"], entry) \o Tail(batch[type])
           = sender[type]["queue"] \o batch[type]
    BY <1>1, <1>5, MoveHead
<1> HIDE DEF entry
<1>8. /\ sender' \in [Types -> [Ways -> Seq(Entries)]]
      /\ sender'[type]["queue"] = Append(sender[type]["queue"], entry)
      /\ \A u \in Types, w \in Ways :
            u # type \/ w # "queue" => sender'[u][w] = sender[u][w]
    BY <1>1, <1>2, <1>3, <1>6, SenderGets
<1>9. batch' \in [Types -> Seq(Entries)]
    BY <1>1, <1>2, <1>3, <1>7
<1>10. RoutingTypes'
    BY <1>1, <1>4, <1>8, <1>9 DEF RoutingInv, RoutingTypes, LinesTypeOK,
                                  inputVars, consumerVars
<1>11. ASSUME NEW t \in Types
       PROVE  sender'[t]["queue"] \o batch'[t] = sender[t]["queue"] \o batch[t]
    <2>1. CASE t = type
        BY <1>1, <1>2, <1>3, <1>7, <1>8, <2>1
    <2>2. CASE t # type
        BY <1>1, <1>2, <1>3, <1>8, <2>2
    <2>3. QED
        BY <2>1, <2>2
<1>12. \A t \in Types : Taken(t, workerLine)' = Taken(t, workerLine)
    BY <1>1 DEF Taken, LinesOf, inputVars
<1>13. QueueWay'
    BY <1>1, <1>11, <1>12 DEF RoutingInv, QueueWay, inputVars
<1>14. \A t \in Types : /\ sender'[t]["kafka"] = sender[t]["kafka"]
                        /\ Taken(t, consumerLine)' = Taken(t, consumerLine)
    BY <1>1, <1>2, <1>8 DEF Taken, LinesOf, inputVars, consumerVars
<1>15. KafkaWay'
    BY <1>1, <1>14 DEF RoutingInv, KafkaWay, PassesFilter, IsProfiler,
                       inputVars, consumerVars
<1>16. QED
    BY <1>10, <1>13, <1>15 DEF RoutingInv

LEMMA WorkerDoneKeeps == RoutingInv /\ WorkerDone => RoutingInv'
<1> SUFFICES ASSUME RoutingInv, WorkerDone PROVE RoutingInv'
    OBVIOUS
<1>1. /\ worker = "adding" /\ worker' = "done"
      /\ UNCHANGED <<inputVars, up, workerLine, batch, consumerVars, sender>>
    BY DEF WorkerDone
<1>2. Entries' = Entries
    BY <1>1, EntriesKept
<1>3. \A t \in Types : batch[t] = <<>>
    BY DEF WorkerDone, NextBatch, Types
<1>4. RoutingTypes'
    BY <1>1, <1>2 DEF RoutingInv, RoutingTypes, LinesTypeOK, inputVars,
                      consumerVars
<1>5. QueueWay'
    BY <1>1, <1>3 DEF RoutingInv, QueueWay, Taken, LinesOf, inputVars
<1>6. KafkaWay'
    BY <1>1 DEF RoutingInv, KafkaWay, Taken, LinesOf, PassesFilter, IsProfiler,
                inputVars, consumerVars
<1>7. QED
    BY <1>4, <1>5, <1>6 DEF RoutingInv

LEMMA ConsumerFiltersKeeps == RoutingInv /\ ConsumerFilters => RoutingInv'
<1> SUFFICES ASSUME RoutingInv, ConsumerFilters PROVE RoutingInv'
    OBVIOUS
<1>1. /\ consumer = "filtering"
      /\ IF PassesFilter
           THEN consumer' = "converting" /\ received' = received + 1
           ELSE consumer' = "done" /\ received' = received
      /\ UNCHANGED <<inputVars, up, workerVars, consumerLine, profiled, sender>>
    BY DEF ConsumerFilters
<1>2. Entries' = Entries
    BY <1>1, EntriesKept
<1>3. received \in Nat /\ received' \in Nat
    BY <1>1 DEF RoutingInv, RoutingTypes, LinesTypeOK
<1>4. RoutingTypes'
    BY <1>1, <1>2, <1>3 DEF RoutingInv, RoutingTypes, LinesTypeOK, inputVars,
                            workerVars
<1>5. QueueWay'
    BY <1>1 DEF RoutingInv, QueueWay, Taken, LinesOf, inputVars, workerVars
<1>6. /\ PassesFilter' = PassesFilter /\ IsProfiler' = IsProfiler
      /\ body' = body /\ PassesFilter \in BOOLEAN
    BY <1>1 DEF PassesFilter, IsProfiler, inputVars
<1>7. \A t \in Types : Taken(t, consumerLine)' = Taken(t, consumerLine)
    BY <1>1 DEF Taken, LinesOf, inputVars
<1>8. KafkaWay'
    BY <1>1, <1>6, <1>7 DEF RoutingInv, KafkaWay
<1>9. QED
    BY <1>4, <1>5, <1>8 DEF RoutingInv

LEMMA ConsumerProfilesKeeps == RoutingInv /\ ConsumerProfiles => RoutingInv'
<1> SUFFICES ASSUME RoutingInv, ConsumerProfiles PROVE RoutingInv'
    OBVIOUS
<1>1. /\ consumer = "filtering" /\ IsProfiler /\ consumer' = "done"
      /\ received' = received + samples
      /\ profiled' = IF ~profilerOn THEN 0
                     ELSE IF samples > MaxSamples THEN MaxSamples ELSE samples
      /\ UNCHANGED <<inputVars, up, workerVars, consumerLine, sender>>
    BY DEF ConsumerProfiles
<1>2. Entries' = Entries
    BY <1>1, EntriesKept
<1>3. received \in Nat /\ samples \in Nat /\ MaxSamples \in Nat
    BY RoutingAssumption DEF RoutingInv, RoutingTypes, LinesTypeOK
<1>4. received' \in Nat /\ profiled' \in 0..MaxSamples
    BY <1>1, <1>3
<1>5. RoutingTypes'
    BY <1>1, <1>2, <1>4 DEF RoutingInv, RoutingTypes, LinesTypeOK, inputVars,
                            workerVars
<1>6. QueueWay'
    BY <1>1 DEF RoutingInv, QueueWay, Taken, LinesOf, inputVars, workerVars
<1>7. body = <<>> /\ ~PassesFilter
    BY <1>1 DEF RoutingInv, KafkaWay, PassesFilter
<1>8. /\ PassesFilter' = PassesFilter /\ IsProfiler' = IsProfiler
      /\ body' = body
    BY <1>1 DEF PassesFilter, IsProfiler, inputVars
<1>9. \A t \in Types : Taken(t, consumerLine)' = Taken(t, consumerLine)
    BY <1>1 DEF Taken, LinesOf, inputVars
<1>10. KafkaWay'
    BY <1>1, <1>7, <1>8, <1>9 DEF RoutingInv, KafkaWay
<1>11. QED
    BY <1>5, <1>6, <1>10 DEF RoutingInv

LEMMA ConsumerConvertsKeeps == RoutingInv /\ ConsumerConverts => RoutingInv'
<1> SUFFICES ASSUME RoutingInv, ConsumerConverts PROVE RoutingInv'
    OBVIOUS
<1>1. /\ consumer = "converting" /\ consumerLine <= Len(body)
      /\ consumerLine \in 1..(Len(body) + 1) /\ body \in Seq(BodyLines)
      /\ enabled \subseteq Types
      /\ sender \in [Types -> [Ways -> Seq(Entries)]]
    BY DEF ConsumerConverts, RoutingInv, RoutingTypes, LinesTypeOK
<1>2. /\ consumerLine \in 1..Len(body) /\ consumerLine \in Nat
      /\ Len(body) \in Nat
    BY <1>1
<1>3. PICK result \in Converted(body[consumerLine]) :
        IF result.outcome = "panic" THEN GoesDown
        ELSE /\ sender' = IF result.outcome = "dropped" THEN sender
                          ELSE [sender EXCEPT
                                  ![body[consumerLine].type]["kafka"] =
                                      Append(@, [event |-> result.item,
                                                 line |-> consumerLine])]
             /\ consumerLine' = consumerLine + 1
             /\ UNCHANGED <<inputVars, up, workerVars, consumer, received,
                            profiled>>
    BY DEF ConsumerConverts
<1>4. CASE result.outcome = "panic"
    BY <1>3, <1>4, DownKeeps
<1>5. CASE result.outcome # "panic"
    <2> DEFINE type == body[consumerLine].type
               entry == [event |-> result.item, line |-> consumerLine]
    <2>1. /\ consumerLine' = consumerLine + 1
          /\ UNCHANGED <<inputVars, up, workerVars, consumer, received, profiled>>
        BY <1>3, <1>5
    <2>2. Entries' = Entries
        BY <2>1, EntriesKept
    <2>3. \A t \in Types : Holds(sender[t]["kafka"], Taken(t, consumerLine))
        BY DEF RoutingInv, KafkaWay
    <2>4. /\ sender' \in [Types -> [Ways -> Seq(Entries)]]
          /\ \A t \in Types : sender'[t]["queue"] = sender[t]["queue"]
          /\ \A t \in Types :
                Holds(sender'[t]["kafka"], Taken(t, consumerLine + 1))
        <3>1. CASE result.outcome = "dropped"
            <4>1. sender' = sender
                BY <1>3, <1>5, <3>1
            <4>2. \A t \in Types :
                    Taken(t, consumerLine + 1) = Taken(t, consumerLine)
                BY <1>1, <1>2, <3>1, DroppedLine, TakenMore
            <4>3. QED
                BY <1>1, <2>3, <4>1, <4>2
        <3>2. CASE result.outcome # "dropped"
            <4>1. /\ type \in enabled /\ type \in Types
                  /\ consumerLine \in LinesOf(type)
                  /\ \A t \in Types : t # type => consumerLine \notin LinesOf(t)
                  /\ entry \in Entries /\ entry.line = consumerLine
                BY <1>1, <1>2, <1>5, <3>2, EventLine
            <4>2. sender' = [sender EXCEPT ![type]["kafka"] = Append(@, entry)]
                BY <1>3, <1>5, <3>2
            <4> HIDE DEF type, entry
            <4>3. "queue" \in Ways /\ "kafka" \in Ways
                BY DEF Ways
            <4>4. /\ sender' \in [Types -> [Ways -> Seq(Entries)]]
                  /\ sender'[type]["kafka"] = Append(sender[type]["kafka"], entry)
                  /\ \A u \in Types, w \in Ways :
                        u # type \/ w # "kafka" => sender'[u][w] = sender[u][w]
                BY <1>1, <4>1, <4>2, <4>3, SenderGets
            <4>5. ASSUME NEW t \in Types, t # type
                  PROVE  Holds(sender'[t]["kafka"], Taken(t, consumerLine + 1))
                <5>1. sender'[t]["kafka"] = sender[t]["kafka"]
                    BY <4>3, <4>4, <4>5
                <5>2. Taken(t, consumerLine + 1) = Taken(t, consumerLine)
                    BY <1>2, <4>1, <4>5, TakenMore
                <5>3. QED
                    BY <2>3, <5>1, <5>2
            <4>6. Holds(sender'[type]["kafka"], Taken(type, consumerLine + 1))
                <5> DEFINE given == sender[type]["kafka"]
                           lines == Taken(type, consumerLine)
                <5>1. given \in Seq(Entries) /\ Holds(given, lines)
                    BY <1>1, <2>3, <4>1, <4>3
                <5>2. /\ Taken(type, consumerLine + 1) = lines \cup {consumerLine}
                      /\ \A l \in lines : l \in Int /\ l < consumerLine
                      /\ consumerLine \in Int
                    BY <1>2, <4>1, TakenMore
                <5> HIDE DEF given, lines
                <5>3. Holds(Append(given, entry), lines \cup {consumerLine})
                    BY <4>1, <5>1, <5>2, HoldsAppend
                <5>4. QED
                    BY <4>4, <5>2, <5>3 DEF given
            <4>7. QED
                BY <4>3, <4>4, <4>5, <4>6
        <3>3. QED
            BY <3>1, <3>2
    <2>5. RoutingTypes'
        BY <1>1, <1>2, <2>1, <2>2, <2>4
        DEF RoutingInv, RoutingTypes, LinesTypeOK, inputVars, workerVars
    <2>6. /\ \A t \in Types, n \in Nat : Taken(t, n)' = Taken(t, n)
          /\ body' = body
        BY <2>1 DEF Taken, LinesOf, inputVars
    <2>7. \A t \in Types : /\ Taken(t, workerLine)' = Taken(t, workerLine)
                           /\ Taken(t, consumerLine)' = Taken(t, consumerLine + 1)
        BY <2>1 DEF Taken, LinesOf, inputVars, workerVars
    <2>8. QueueWay'
        BY <2>1, <2>4, <2>6, <2>7 DEF RoutingInv, QueueWay, workerVars
    <2>9. /\ PassesFilter' = PassesFilter /\ IsProfiler' = IsProfiler
          /\ consumer' = "converting"
        BY <1>1, <2>1 DEF PassesFilter, IsProfiler, inputVars
    <2>10. KafkaWay'
        BY <1>1, <2>4, <2>6, <2>7, <2>9 DEF RoutingInv, KafkaWay
    <2>11. QED
        BY <2>5, <2>8, <2>10 DEF RoutingInv
<1>6. QED
    BY <1>4, <1>5

LEMMA ConsumerDoneKeeps == RoutingInv /\ ConsumerDone => RoutingInv'
<1> SUFFICES ASSUME RoutingInv, ConsumerDone PROVE RoutingInv'
    OBVIOUS
<1>1. /\ consumer = "converting" /\ consumer' = "done"
      /\ UNCHANGED <<inputVars, up, workerVars, consumerLine, received, profiled,
                     sender>>
    BY DEF ConsumerDone
<1>2. Entries' = Entries
    BY <1>1, EntriesKept
<1>3. consumerLine = Len(body) + 1
    <2>1. consumerLine \in 1..(Len(body) + 1) /\ body \in Seq(BodyLines)
        BY DEF RoutingInv, RoutingTypes, LinesTypeOK
    <2>2. Len(body) \in Nat /\ consumerLine > Len(body)
        BY <2>1 DEF ConsumerDone
    <2>3. QED
        BY <2>1, <2>2
<1>4. RoutingTypes'
    BY <1>1, <1>2 DEF RoutingInv, RoutingTypes, LinesTypeOK, inputVars,
                      workerVars
<1>5. QueueWay'
    BY <1>1 DEF RoutingInv, QueueWay, Taken, LinesOf, inputVars, workerVars
<1>6. PassesFilter
    BY <1>1 DEF RoutingInv, KafkaWay
<1>7. KafkaWay'
    BY <1>1, <1>3, <1>6 DEF RoutingInv, KafkaWay, Taken, LinesOf, PassesFilter,
                            IsProfiler, inputVars
<1>8. QED
    BY <1>4, <1>5, <1>7 DEF RoutingInv

(* A step that changes nothing keeps it as well.                           *)
LEMMA NextRoutingInv == RoutingInv /\ [Next]_vars => RoutingInv'
<1> SUFFICES ASSUME RoutingInv, [Next]_vars PROVE RoutingInv'
    OBVIOUS
<1>1. CASE UNCHANGED vars
    <2>1. UNCHANGED <<inputVars, up, workerVars, consumerVars, sender>>
        BY <1>1 DEF vars
    <2>2. Entries' = Entries
        BY <2>1, EntriesKept
    <2>3. RoutingTypes'
        BY <2>1, <2>2 DEF RoutingInv, RoutingTypes, LinesTypeOK, inputVars,
                          workerVars, consumerVars
    <2>4. QueueWay'
        BY <2>1 DEF RoutingInv, QueueWay, Taken, LinesOf, inputVars, workerVars
    <2>5. KafkaWay'
        BY <2>1 DEF RoutingInv, KafkaWay, Taken, LinesOf, PassesFilter,
                    IsProfiler, inputVars, consumerVars
    <2>6. QED
        BY <2>3, <2>4, <2>5 DEF RoutingInv
<1>2. CASE Next
    BY <1>2, WorkerConvertsKeeps, WorkerConvertedKeeps, WorkerAddsKeeps,
       WorkerDoneKeeps, ConsumerFiltersKeeps, ConsumerProfilesKeeps,
       ConsumerConvertsKeeps, ConsumerDoneKeeps DEF Next
<1>3. QED
    BY <1>1, <1>2

(* Whatever the interleaving, each way has given the senders exactly the   *)
(* lines it has come past, in their order, as a conversion returned them.  *)
THEOREM RoutingInvariant == Spec => []RoutingInv
<1>1. Init => RoutingInv
    BY InitRoutingInv
<1>2. RoutingInv /\ [Next]_vars => RoutingInv'
    BY NextRoutingInv
<1>3. QED
    BY <1>1, <1>2, PTL DEF Spec

-----------------------------------------------------------------------------
(* What the invariant says of one event that a sender was given.           *)
LEMMA QueueGiven ==
    ASSUME RoutingInv, NEW t \in Types
    PROVE  LET given == sender[t]["queue"]
               whole == given \o batch[t]
           IN  /\ given \in Seq(Entries) /\ whole \in Seq(Entries)
               /\ Len(given) <= Len(whole)
               /\ \A i \in 1..Len(given) : whole[i] = given[i]
               /\ worker = "done" => whole = given
<1> DEFINE given == sender[t]["queue"]
           rest == batch[t]
<1>1. given \in Seq(Entries) /\ rest \in Seq(Entries)
    BY DEF RoutingInv, RoutingTypes, Ways
<1>2. worker = "done" => rest = <<>>
    BY DEF RoutingInv, QueueWay
<1> HIDE DEF given, rest
<1>3. given \o rest \in Seq(Entries)
    BY <1>1, ConcatProperties
<1>4. Len(given) <= Len(given \o rest)
    BY <1>1, ConcatProperties
<1>5. \A i \in 1..Len(given) : (given \o rest)[i] = given[i]
    BY <1>1, ConcatProperties
<1>6. worker = "done" => given \o rest = given
    BY <1>1, <1>2, ConcatEmptySeq
<1>7. QED
    BY <1>1, <1>3, <1>4, <1>5, <1>6 DEF given, rest

LEMMA GivenEntry ==
    ASSUME RoutingInv, NEW t \in Types, NEW way \in Ways,
           NEW i \in 1..Len(sender[t][way])
    PROVE  /\ t \in enabled
           /\ sender[t][way][i] \in Entries
           /\ sender[t][way][i].line \in LinesOf(t)
<1>1. sender[t][way] \in Seq(Entries)
    BY DEF RoutingInv, RoutingTypes
<1>2. sender[t][way][i] \in Entries
    BY <1>1, ElementOfSeq
<1>3. \E n : sender[t][way][i].line \in Taken(t, n)
    <2>1. CASE way = "queue"
        <3> DEFINE whole == sender[t]["queue"] \o batch[t]
        <3>1. /\ Holds(whole, Taken(t, workerLine))
              /\ i \in 1..Len(whole) /\ whole[i] = sender[t][way][i]
            <4>1. /\ whole \in Seq(Entries)
                  /\ Len(sender[t]["queue"]) <= Len(whole)
                  /\ whole[i] = sender[t][way][i]
                BY <2>1, QueueGiven
            <4> DEFINE given == sender[t]["queue"]
            <4>2. given \in Seq(Entries) /\ i \in 1..Len(given)
                BY <1>1, <2>1
            <4>3. Holds(whole, Taken(t, workerLine))
                BY DEF RoutingInv, QueueWay
            <4> HIDE DEF whole, given
            <4>4. Len(given) \in Nat /\ Len(whole) \in Nat
                BY <4>1, <4>2
            <4>5. i \in 1..Len(whole)
                BY <4>1, <4>2, <4>4 DEF given
            <4>6. QED
                BY <4>1, <4>3, <4>5
        <3> HIDE DEF whole
        <3>2. whole[i].line \in LinesIn(whole)
            BY <3>1 DEF LinesIn
        <3>3. QED
            BY <3>1, <3>2 DEF Holds
    <2>2. CASE way = "kafka"
        <3> DEFINE given == sender[t]["kafka"]
        <3>1. Holds(given, Taken(t, consumerLine)) /\ i \in 1..Len(given)
            BY <2>2 DEF RoutingInv, KafkaWay
        <3>2. given[i].line \in LinesIn(given)
            BY <3>1 DEF LinesIn
        <3>3. QED
            BY <2>2, <3>1, <3>2 DEF Holds
    <2>3. QED
        BY <2>1, <2>2 DEF Ways
<1>4. QED
    BY <1>2, <1>3 DEF Taken

(* Such an event is what some conversion of its line returned.             *)
LEMMA GivenEvent ==
    ASSUME RoutingInv, NEW t \in Types, NEW way \in Ways,
           NEW i \in 1..Len(sender[t][way])
    PROVE  LET entry == sender[t][way][i] IN
           /\ body[entry.line].type = t
           /\ IsLine(body[entry.line])
           /\ \E r \in Conversions(body[entry.line]) :
                 r.outcome = "event" /\ r.item = entry.event
<1> DEFINE entry == sender[t][way][i]
<1>1. entry \in Entries /\ entry.line \in LinesOf(t)
    BY GivenEntry
<1>2. body \in Seq(BodyLines)
    BY DEF RoutingInv, RoutingTypes
<1> HIDE DEF entry
<1>3. /\ IsLine(body[entry.line])
      /\ \E r \in Conversions(body[entry.line]) :
            r.outcome = "event" /\ r.item = entry.event
    BY <1>1, <1>2, EntryIs
<1>4. body[entry.line].type = t
    BY <1>1 DEF LinesOf
<1>5. QED
    BY <1>3, <1>4 DEF entry

(* Every reachable state is one of the program's: no loop runs past the    *)
(* last line, and a profiler payload never yields more samples than        *)
(* maxSamples.                                                             *)
THEOREM LinesTypes == Spec => []LinesTypeOK
<1>1. RoutingInv => LinesTypeOK
    BY DEF RoutingInv, RoutingTypes
<1>2. QED
    BY <1>1, RoutingInvariant, PTL

(* Whatever the agent put into a line, each event carries the type of the  *)
(* sender that gets it, the time of ingestion and a host name, and senders *)
(* of types that are switched off get nothing (src/worker.go,              *)
(* src/processor.go, src/helper.go).                                       *)
THEOREM StampedEvents == Spec => []EventsAreStamped
<1>1. RoutingInv => EventsAreStamped
    <2>1. SUFFICES ASSUME RoutingInv, NEW t \in Types, NEW way \in Ways,
                          NEW i \in 1..Len(sender[t][way])
                   PROVE  LET event == sender[t][way][i].event IN
                          /\ t \in enabled
                          /\ event["eventType"] = Name(t)
                          /\ event["ingest_timestamp"] = Now
                          /\ "hostname" \in DOMAIN event
        BY DEF EventsAreStamped
    <2> DEFINE entry == sender[t][way][i]
    <2>2. t \in enabled
        BY <2>1, GivenEntry
    <2>3. PICK r \in Conversions(body[entry.line]) :
             r.outcome = "event" /\ r.item = entry.event
        BY <2>1, GivenEvent
    <2>4. body[entry.line].type = t /\ IsLine(body[entry.line])
        BY <2>1, GivenEvent
    <2> HIDE DEF entry
    <2>5. IsStamped(entry.event, t)
        BY <2>3, <2>4, ConversionOutcome
    <2>6. QED
        BY <2>2, <2>5 DEF IsStamped, entry
<1>2. QED
    BY <1>1, RoutingInvariant, PTL

(* No measurement of a metrics line overwrites another, whatever keys the  *)
(* agent sends and in whatever order the loops of flattenMetrics visit     *)
(* them; only a name that the sidecar derives itself may be taken twice.   *)
THEOREM MeasurementsStay == Spec => []MeasurementsKept
<1>1. RoutingInv => MeasurementsKept
    <2>1. SUFFICES ASSUME RoutingInv, NEW way \in Ways,
                          NEW i \in 1..Len(sender["metrics"][way])
                   PROVE  LET event == sender["metrics"][way][i].event
                              meter == body[sender["metrics"][way][i].line].meter
                          IN  \A section \in DOMAIN meter :
                                 \A k \in DOMAIN meter[section] :
                                    \/ section = "app_latency_" /\ k \in Derived
                                    \/ /\ Named(section, k) \in DOMAIN event
                                       /\ event[Named(section, k)]
                                            = meter[section][k]
        BY DEF MeasurementsKept
    <2> DEFINE entry == sender["metrics"][way][i]
               line == body[entry.line]
    <2>2. "metrics" \in Types
        BY DEF Types
    <2>3. PICK r \in Conversions(line) :
             r.outcome = "event" /\ r.item = entry.event
        BY <2>1, <2>2, GivenEvent
    <2>4. line.type = "metrics" /\ IsLine(line)
        BY <2>1, <2>2, GivenEvent
    <2> HIDE DEF entry, line
    <2>5. Keeps(entry.event, line, Sections)
        BY <2>2, <2>3, <2>4, ConversionOutcome
    <2>6. DOMAIN line.meter = Sections
        BY <2>4 DEF IsLine
    <2>7. QED
        BY <2>5, <2>6 DEF Keeps, entry, line
<1>2. QED
    BY <1>1, RoutingInvariant, PTL

-----------------------------------------------------------------------------
(* What stands before an entry are the lines of L before its own.          *)
InOrder(entries, L) ==
    /\ \A i, j \in 1..Len(entries) : i < j => entries[i].line < entries[j].line
    /\ \A i \in 1..Len(entries) :
          L \cap 1..entries[i].line = {entries[j].line : j \in 1..i}

LEMMA HoldsInOrder ==
    ASSUME NEW L, L \subseteq Nat \ {0}, NEW lines, lines \subseteq L,
           \A m \in lines, l \in L : l <= m => l \in lines,
           NEW S, NEW w \in Seq(S), Holds(w, lines)
    PROVE  InOrder(w, L)
<1>1. Len(w) \in Nat
    OBVIOUS
<1>2. \A j \in 1..Len(w) : w[j].line \in lines
    BY DEF Holds, LinesIn
<1>3. \A j \in 1..Len(w) : w[j].line \in Nat \ {0}
    BY <1>2
<1>4. \A j, k \in 1..Len(w) : j < k => w[j].line < w[k].line
    BY DEF Holds
<1>5. ASSUME NEW i \in 1..Len(w)
      PROVE  L \cap 1..w[i].line = {w[j].line : j \in 1..i}
    <2>1. ASSUME NEW l \in L \cap 1..w[i].line
          PROVE  \E j \in 1..i : l = w[j].line
        <3>1. l \in lines
            BY <1>2, <1>3, <2>1
        <3>2. l \in LinesIn(w)
            BY <3>1 DEF Holds
        <3>3. PICK j \in 1..Len(w) : l = w[j].line
            BY <3>2 DEF LinesIn
        <3>4. ~(i < j)
            BY <1>3, <1>4, <2>1, <3>3
        <3>5. QED
            BY <1>1, <3>3, <3>4
    <2>2. ASSUME NEW j \in 1..i
          PROVE  w[j].line \in L \cap 1..w[i].line
        <3>1. j \in 1..Len(w) /\ (j = i \/ j < i)
            BY <1>1, <2>2
        <3>2. w[j].line <= w[i].line
            BY <1>3, <1>4, <3>1
        <3>3. QED
            BY <1>2, <1>3, <3>1, <3>2
    <2>3. QED
        BY <2>1, <2>2
<1>6. QED
    BY <1>4, <1>5 DEF InOrder

LEMMA InOrderPrefix ==
    ASSUME NEW L, NEW S, NEW w \in Seq(S), InOrder(w, L),
           NEW given \in Seq(S), Len(given) <= Len(w),
           \A i \in 1..Len(given) : w[i] = given[i]
    PROVE  InOrder(given, L)
<1>1. Len(given) \in Nat /\ Len(w) \in Nat
    OBVIOUS
<1>2. \A i \in 1..Len(given) : i \in 1..Len(w)
    BY <1>1
<1>3. ASSUME NEW i \in 1..Len(given), NEW j \in 1..Len(given), i < j
      PROVE  given[i].line < given[j].line
    BY <1>2, <1>3 DEF InOrder
<1>4. ASSUME NEW i \in 1..Len(given)
      PROVE  L \cap 1..given[i].line = {given[j].line : j \in 1..i}
    <2>1. L \cap 1..w[i].line = {w[j].line : j \in 1..i}
        BY <1>2 DEF InOrder
    <2>2. w[i] = given[i] /\ \A j \in 1..i : w[j] = given[j]
        BY <1>1
    <2>3. QED
        BY <2>1, <2>2
<1>5. QED
    BY <1>3, <1>4 DEF InOrder

(* Two sequences that hold the same lines have them at the same places.    *)
LEMMA SameLines ==
    ASSUME NEW L, L \subseteq Nat, NEW S, NEW a \in Seq(S), NEW b \in Seq(S),
           Holds(a, L), Holds(b, L), NEW i \in 1..Len(a)
    PROVE  i \in 1..Len(b) /\ b[i].line = a[i].line
<1> DEFINE Same(j) == j \in 1..Len(b) /\ b[j].line = a[j].line
           T == {j \in 1..Len(a) : ~Same(j)}
<1>1. Len(a) \in Nat /\ Len(b) \in Nat
    OBVIOUS
<1>2. SUFFICES ASSUME T # {} PROVE FALSE
    OBVIOUS
<1>3. PICK n \in T : \A m \in T : n <= m
    <2>1. T \subseteq Nat
        BY <1>1
    <2> HIDE DEF T
    <2>2. QED
        BY <1>2, <2>1, LeastElement
<1>4. \A m \in 1..Len(a) : m < n => Same(m)
    BY <1>1, <1>3
<1>5. n \in 1..Len(a) /\ ~Same(n)
    BY <1>3
<1>6. /\ \A j, k \in 1..Len(a) : j < k => a[j].line < a[k].line
      /\ \A j, k \in 1..Len(b) : j < k => b[j].line < b[k].line
      /\ {a[j].line : j \in 1..Len(a)} = L /\ {b[j].line : j \in 1..Len(b)} = L
    BY DEF Holds, LinesIn
<1>7. /\ \A j \in 1..Len(a) : a[j].line \in Nat
      /\ \A j \in 1..Len(b) : b[j].line \in Nat
    BY <1>6
<1> HIDE DEF T
<1>8. PICK j \in 1..Len(b) : b[j].line = a[n].line
    BY <1>5, <1>6
<1>9. ~(j < n)
    BY <1>1, <1>4, <1>5, <1>6, <1>7, <1>8
<1>10. n \in 1..Len(b)
    BY <1>1, <1>5, <1>8, <1>9
<1>11. PICK k \in 1..Len(a) : a[k].line = b[n].line
    BY <1>6, <1>10
<1>12. ~(k < n)
    BY <1>1, <1>4, <1>6, <1>7, <1>10, <1>11
<1>13. a[n].line <= a[k].line
    <2>1. n = k \/ n < k
        BY <1>1, <1>5, <1>11, <1>12
    <2>2. QED
        BY <1>5, <1>6, <1>7, <2>1
<1>14. b[n].line <= b[j].line
    <2>1. n = j \/ n < j
        BY <1>1, <1>5, <1>8, <1>9
    <2>2. QED
        BY <1>6, <1>7, <1>10, <2>1
<1>15. b[n].line = a[n].line
    BY <1>5, <1>7, <1>8, <1>10, <1>11, <1>13, <1>14
<1>16. QED
    BY <1>5, <1>10, <1>15

(* All of a body's lines, once its loop is done.                           *)
LEMMA AllTaken ==
    ASSUME body \in Seq(BodyLines), NEW t \in enabled
    PROVE  Taken(t, Len(body) + 1) = LinesOf(t)
<1>1. Len(body) \in Nat
    OBVIOUS
<1>2. \A l \in LinesOf(t) : l < Len(body) + 1
    BY <1>1 DEF LinesOf
<1>3. QED
    BY <1>2 DEF Taken

LEMMA TakenFirst ==
    ASSUME NEW t \in enabled, NEW n \in Nat
    PROVE  /\ LinesOf(t) \subseteq Nat \ {0} /\ Taken(t, n) \subseteq LinesOf(t)
           /\ \A m \in Taken(t, n), l \in LinesOf(t) : l <= m => l \in Taken(t, n)
BY DEF Taken, LinesOf

LEMMA TakenInOrder ==
    ASSUME NEW t \in enabled, NEW n \in Nat, NEW S, NEW w \in Seq(S),
           Holds(w, Taken(t, n))
    PROVE  InOrder(w, LinesOf(t))
<1> DEFINE L == LinesOf(t)
           lines == Taken(t, n)
<1>1. /\ L \subseteq Nat \ {0} /\ lines \subseteq L
      /\ \A m \in lines, l \in L : l <= m => l \in lines
      /\ Holds(w, lines)
    BY TakenFirst
<1> HIDE DEF L, lines
<1>2. InOrder(w, L)
    BY <1>1, HoldsInOrder
<1>3. QED
    BY <1>2 DEF L

(* The lines of a body reach the sender of their type in their order, none *)
(* twice and none left out, on each way and however the worker and the     *)
(* consumer interleave; once the worker is done, all of them have: no line *)
(* that is an object is dropped, for instance because a rate that its      *)
(* conversion computes is not finite.                                      *)
THEOREM OrderedLines == Spec => []LinesArriveInOrder
<1>1. RoutingInv => LinesArriveInOrder
    <2>1. SUFFICES ASSUME RoutingInv, NEW t \in enabled, NEW way \in Ways
                   PROVE  /\ InOrder(sender[t][way], LinesOf(t))
                          /\ worker = "done" /\ way = "queue" =>
                                LinesIn(sender[t][way]) = LinesOf(t)
        BY DEF LinesArriveInOrder, InOrder
    <2>2. /\ t \in Types /\ body \in Seq(BodyLines)
          /\ workerLine \in Nat /\ consumerLine \in Nat
        BY <2>1 DEF RoutingInv, RoutingTypes, LinesTypeOK
    <2>3. CASE way = "queue"
        <3> DEFINE given == sender[t]["queue"]
                   whole == given \o batch[t]
        <3>1. /\ given \in Seq(Entries) /\ whole \in Seq(Entries)
              /\ Len(given) <= Len(whole)
              /\ \A i \in 1..Len(given) : whole[i] = given[i]
              /\ worker = "done" => whole = given
            BY <2>1, <2>2, QueueGiven
        <3>2. Holds(whole, Taken(t, workerLine))
            BY <2>1, <2>2 DEF RoutingInv, QueueWay
        <3>3. worker = "done" => workerLine = Len(body) + 1
            BY <2>1 DEF RoutingInv, QueueWay
        <3> HIDE DEF given, whole
        <3>4. InOrder(whole, LinesOf(t))
            BY <2>1, <2>2, <3>1, <3>2, TakenInOrder
        <3>5. InOrder(given, LinesOf(t))
            <4> DEFINE L == LinesOf(t)
            <4>1. InOrder(whole, L)
                BY <3>4
            <4> HIDE DEF L
            <4>2. InOrder(given, L)
                BY <3>1, <4>1, InOrderPrefix
            <4>3. QED
                BY <4>2 DEF L
        <3>6. ASSUME worker = "done"
              PROVE  LinesIn(given) = LinesOf(t)
            BY <2>1, <2>2, <3>1, <3>2, <3>3, <3>6, AllTaken DEF Holds
        <3>7. QED
            BY <2>3, <3>5, <3>6 DEF given
    <2>4. CASE way = "kafka"
        <3> DEFINE given == sender[t]["kafka"]
        <3>1. given \in Seq(Entries) /\ Holds(given, Taken(t, consumerLine))
            BY <2>1, <2>2 DEF RoutingInv, RoutingTypes, KafkaWay, Ways
        <3> HIDE DEF given
        <3>2. InOrder(given, LinesOf(t))
            BY <2>1, <2>2, <3>1, TakenInOrder
        <3>3. QED
            BY <2>4, <3>2 DEF given
    <2>5. QED
        BY <2>3, <2>4 DEF Ways
<1>2. QED
    BY <1>1, RoutingInvariant, PTL

-----------------------------------------------------------------------------
(* The two ways when both are done.                                        *)
LEMMA NothingGiven ==
    ASSUME NEW S, NEW entries \in Seq(S), Holds(entries, {})
    PROVE  entries = <<>>
<1>1. Len(entries) \in Nat
    OBVIOUS
<1>2. \A i \in 1..Len(entries) : entries[i].line \in {}
    BY DEF Holds, LinesIn
<1>3. Len(entries) = 0
    BY <1>1, <1>2
<1>4. QED
    BY <1>3, EmptySeq

LEMMA BothDone ==
    ASSUME RoutingInv, worker = "done", consumer = "done", NEW t \in Types
    PROVE  /\ sender[t]["queue"] \in Seq(Entries)
           /\ sender[t]["kafka"] \in Seq(Entries)
           /\ Holds(sender[t]["queue"], Taken(t, Len(body) + 1))
           /\ PassesFilter =>
                 Holds(sender[t]["kafka"], Taken(t, Len(body) + 1))
           /\ ~PassesFilter => sender[t]["kafka"] = <<>>
<1>1. /\ sender[t]["queue"] \in Seq(Entries)
      /\ sender[t]["kafka"] \in Seq(Entries)
    BY DEF RoutingInv, RoutingTypes, Ways
<1>2. Holds(sender[t]["queue"], Taken(t, Len(body) + 1))
    <2>1. sender[t]["queue"] \o batch[t] = sender[t]["queue"]
        BY QueueGiven
    <2>2. QED
        BY <2>1 DEF RoutingInv, QueueWay
<1>3. /\ Holds(sender[t]["kafka"], Taken(t, consumerLine))
      /\ consumerLine = IF PassesFilter THEN Len(body) + 1 ELSE 1
    BY DEF RoutingInv, KafkaWay
<1>4. ~PassesFilter => sender[t]["kafka"] = <<>>
    <2>1. Taken(t, 1) = {}
        BY DEF Taken, LinesOf
    <2>2. QED
        BY <1>1, <1>3, <2>1, NothingGiven
<1>5. QED
    BY <1>1, <1>2, <1>3, <1>4

(* Both ways give the same event for a line that is not ambiguous.         *)
LEMMA SameEvents ==
    ASSUME RoutingInv, NEW t \in Types,
           NEW i \in 1..Len(sender[t]["queue"]), i \in 1..Len(sender[t]["kafka"]),
           sender[t]["kafka"][i].line = sender[t]["queue"][i].line
    PROVE  \/ Ambiguous(body[sender[t]["queue"][i].line])
           \/ sender[t]["kafka"][i].event = sender[t]["queue"][i].event
<1> DEFINE queued == sender[t]["queue"][i]
           read == sender[t]["kafka"][i]
           line == body[queued.line]
<1>1. "queue" \in Ways /\ "kafka" \in Ways
    BY DEF Ways
<1>2. /\ IsLine(line) /\ line.type = t
      /\ \E r \in Conversions(line) : r.outcome = "event" /\ r.item = queued.event
    BY <1>1, GivenEvent
<1>3. \E r \in Conversions(line) : r.outcome = "event" /\ r.item = read.event
    BY <1>1, GivenEvent
<1> HIDE DEF queued, read, line
<1>4. ~Ambiguous(line) => AtMostOne(Conversions(line))
    BY <1>2, OneConversion
<1>5. ~Ambiguous(line) => read.event = queued.event
    BY <1>2, <1>3, <1>4 DEF AtMostOne
<1>6. QED
    BY <1>5 DEF queued, read, line

(* What Kafka brings back is what the queue brought, event by event, where *)
(* the order of a map does not decide; or it is nothing of the body at     *)
(* all, and then its first line would not have let it pass the filter of   *)
(* processMessage (src/consumer.go).                                       *)
THEOREM KafkaMirrors == Spec => []KafkaMirrorsQueue
<1>1. RoutingInv => KafkaMirrorsQueue
    <2>1. SUFFICES ASSUME RoutingInv, worker = "done", consumer = "done"
                   PROVE  KafkaMirrorsQueue
        BY DEF KafkaMirrorsQueue
    <2>2. ASSUME NEW u \in Types, sender[u]["kafka"] # <<>>, NEW t \in Types
          PROVE  /\ Len(sender[t]["kafka"]) = Len(sender[t]["queue"])
                 /\ \A i \in 1..Len(sender[t]["queue"]) :
                       /\ sender[t]["kafka"][i].line = sender[t]["queue"][i].line
                       /\ \/ Ambiguous(body[sender[t]["queue"][i].line])
                          \/ sender[t]["kafka"][i].event
                               = sender[t]["queue"][i].event
        <3> DEFINE queue == sender[t]["queue"]
                   kafka == sender[t]["kafka"]
                   lines == Taken(t, Len(body) + 1)
        <3>1. PassesFilter
            BY <2>1, <2>2, BothDone
        <3>2. /\ queue \in Seq(Entries) /\ kafka \in Seq(Entries)
              /\ Holds(queue, lines) /\ Holds(kafka, lines)
            BY <2>1, <3>1, BothDone
        <3>3. lines \subseteq Nat
            BY DEF Taken, LinesOf
        <3> HIDE DEF queue, kafka, lines
        <3>4. \A i \in 1..Len(queue) :
                 i \in 1..Len(kafka) /\ kafka[i].line = queue[i].line
            BY <3>2, <3>3, SameLines
        <3>5. \A i \in 1..Len(kafka) : i \in 1..Len(queue)
            BY <3>2, <3>3, SameLines
        <3>6. Len(kafka) = Len(queue)
            <4>1. Len(kafka) \in Nat /\ Len(queue) \in Nat
                BY <3>2
            <4>2. Len(queue) <= Len(kafka)
                BY <3>4, <4>1
            <4>3. Len(kafka) <= Len(queue)
                BY <3>5, <4>1
            <4>4. QED
                BY <4>1, <4>2, <4>3
        <3>7. \A i \in 1..Len(queue) : \/ Ambiguous(body[queue[i].line])
                                       \/ kafka[i].event = queue[i].event
            BY <2>1, <3>4, SameEvents DEF queue, kafka
        <3>8. QED
            BY <3>4, <3>6, <3>7 DEF queue, kafka
    <2>3. ASSUME \A t \in Types : sender[t]["kafka"] = <<>>,
                 NEW t \in Types, sender[t]["queue"] # <<>>
          PROVE  ~(body[1].type \in enabled /\ ~body[1].padded)
        <3> DEFINE lines == Taken(t, Len(body) + 1)
        <3>1. SUFFICES ASSUME body[1].type \in enabled, ~body[1].padded
                       PROVE  FALSE
            OBVIOUS
        <3>2. lines # {}
            BY <2>1, <2>3, BothDone, NothingGiven
        <3>3. body # <<>>
            <4>1. Len(body) # 0
                BY <3>2 DEF Taken, LinesOf
            <4>2. QED
                BY <4>1
        <3>4. PassesFilter
            BY <3>1, <3>3 DEF PassesFilter
        <3>5. Holds(<<>>, lines)
            BY <2>1, <2>3, <3>4, BothDone
        <3>6. LinesIn(<<>>) = {}
            BY DEF LinesIn
        <3>7. QED
            BY <3>2, <3>5, <3>6 DEF Holds
    <2>4. QED
        BY <2>2, <2>3 DEF KafkaMirrorsQueue
<1>2. QED
    BY <1>1, RoutingInvariant, PTL

-----------------------------------------------------------------------------
(* Every line has an outcome: the loops over its maps can be run in some   *)
(* order, so no state waits for a conversion that cannot be.               *)
LEMMA SomeOrder ==
    ASSUME NEW writes, IsFiniteSet(writes), NEW item
    PROVE  InAnyOrder(item, writes) # {}
<1>1. ExistsBijection(1..Cardinality(writes), writes)
    BY FS_CardinalityType
<1>2. ExistsBijection(writes, 1..Cardinality(writes))
    BY <1>1, Fun_ExistsBijSymmetric
<1>3. PICK place : place \in Bijection(writes, 1..Cardinality(writes))
    BY <1>2 DEF ExistsBijection
<1>4. place \in Orders(writes)
    BY <1>3 DEF Bijection, Orders
<1>5. QED
    BY <1>4 DEF InAnyOrder

LEMMA FiniteTaggerWrites ==
    ASSUME NEW line, IsLine(line)
    PROVE  IsFiniteSet(TaggerWrites(line))
<1> DEFINE f == [k \in DOMAIN line.tagger |-> TaggerWrite(k, line.tagger[k])]
<1>1. IsFiniteSet(DOMAIN line.tagger)
    BY DEF IsLine, IsObject
<1>2. f \in Surjection(DOMAIN line.tagger, TaggerWrites(line))
    BY DEF Surjection, TaggerWrites
<1>3. QED
    BY <1>1, <1>2, FS_Surjection

LEMMA FiniteMeterWrites ==
    ASSUME NEW line, IsLine(line), NEW section \in Sections
    PROVE  IsFiniteSet(MeterWrites(line, section))
<1> DEFINE keys == DOMAIN line.meter[section]
           f == [k \in keys |-> MeterWrite(section, k, line.meter[section][k])]
<1>1. IsFiniteSet(keys)
    BY DEF IsLine, IsObject
<1>2. f \in Surjection(keys, MeterWrites(line, section))
    BY DEF Surjection, MeterWrites
<1>3. QED
    BY <1>1, <1>2, FS_Surjection

LEMMA SomeLoop ==
    ASSUME NEW line, IsLine(line), NEW section \in Sections,
           NEW results, results # {}
    PROVE  Loop(line, results, section) # {}
<1>1. PICK r \in results : TRUE
    OBVIOUS
<1>2. InAnyOrder(r, MeterWrites(line, section)) # {}
    BY FiniteMeterWrites, SomeOrder
<1>3. InAnyOrder(r, MeterWrites(line, section))
         \subseteq Loop(line, results, section)
    BY DEF Loop
<1>4. QED
    BY <1>2, <1>3

LEMMA SomeFlattened ==
    ASSUME NEW line, IsLine(line)
    PROVE  Flattened(line) # {}
<1> DEFINE kept == When("timestamp" \in DOMAIN line.fields,
                        Entry("timestamp", line.fields["timestamp"]))
           tagged == InAnyOrder(kept, TaggerWrites(line))
           traffic == Loop(line, tagged, "app_traffic_")
           latency == Loop(line, traffic, "app_latency_")
           anomaly == Loop(line, latency, "app_anomaly_")
           flowTraffic == Loop(line, anomaly, "flow_traffic_")
           flowLatency == Loop(line, flowTraffic, "flow_latency_")
           flowPerformance == Loop(line, flowLatency, "flow_performance_")
           flowAnomaly == Loop(line, flowPerformance, "flow_anomaly_")
<1>1. Flattened(line) = {Indicated(Flagged(line, r)) : r \in flowAnomaly}
    BY DEF Flattened
<1> HIDE DEF kept
<1>2. tagged # {}
    BY FiniteTaggerWrites, SomeOrder
<1> HIDE DEF tagged
<1>3. traffic # {}
    BY <1>2, SomeLoop DEF Sections
<1> HIDE DEF traffic
<1>4. latency # {}
    BY <1>3, SomeLoop DEF Sections
<1> HIDE DEF latency
<1>5. anomaly # {}
    BY <1>4, SomeLoop DEF Sections
<1> HIDE DEF anomaly
<1>6. flowTraffic # {}
    BY <1>5, SomeLoop DEF Sections
<1> HIDE DEF flowTraffic
<1>7. flowLatency # {}
    BY <1>6, SomeLoop DEF Sections
<1> HIDE DEF flowLatency
<1>8. flowPerformance # {}
    BY <1>7, SomeLoop DEF Sections
<1> HIDE DEF flowPerformance
<1>9. flowAnomaly # {}
    BY <1>8, SomeLoop DEF Sections
<1> HIDE DEF flowAnomaly
<1>10. QED
    BY <1>1, <1>9

LEMMA SomeConversion ==
    ASSUME NEW line, IsLine(line), line.type \in Types
    PROVE  Conversions(line) # {}
<1>1. CASE line.json = "broken"
    BY <1>1 DEF Conversions
<1>2. CASE line.json = "null" /\ line.type # "metrics"
    BY <1>2 DEF Conversions
<1>3. CASE line.json # "broken" /\ ~(line.json = "null" /\ line.type # "metrics")
    <2> DEFINE items == CASE line.type = "l7" -> L7Events(line)
                          [] line.type = "l4" -> L4Events(line)
                          [] line.type = "metrics" -> MetricsEvents(line)
    <2>1. Conversions(line) = {Marshal(item) : item \in items}
        BY <1>3 DEF Conversions
    <2>2. items # {}
        <3>1. CASE line.type = "l7"
            BY <3>1 DEF L7Events
        <3>2. CASE line.type = "l4"
            BY <3>2 DEF L4Events
        <3>3. CASE line.type = "metrics"
            <4>1. MetricsEvents(line) # {}
                BY SomeFlattened DEF MetricsEvents
            <4>2. QED
                BY <3>3, <4>1
        <3>4. QED
            BY <3>1, <3>2, <3>3 DEF Types
    <2> HIDE DEF items
    <2>3. QED
        BY <2>1, <2>2
<1>4. QED
    BY <1>1, <1>2, <1>3

(* Wherever a loop stands at a line, the line has an outcome.              *)
EveryLineHasAnOutcome ==
    \A n \in {workerLine, consumerLine} :
        n <= Len(body) => Converted(body[n]) # {}

(* The loops of processHTTPData and ProcessKafkaMessage get past every     *)
(* line: each is dropped, becomes an event or ends the process, whatever   *)
(* is in it.                                                               *)
THEOREM LinesHaveOutcomes == Spec => []EveryLineHasAnOutcome
<1>1. RoutingInv => EveryLineHasAnOutcome
    <2>1. SUFFICES ASSUME RoutingInv, NEW n \in {workerLine, consumerLine},
                          n <= Len(body)
                   PROVE  Converted(body[n]) # {}
        BY DEF EveryLineHasAnOutcome
    <2>2. /\ body \in Seq(BodyLines) /\ n \in 1..Len(body)
          /\ enabled \subseteq Types
        BY <2>1 DEF RoutingInv, RoutingTypes, LinesTypeOK
    <2>3. IsLine(body[n])
        BY <2>2, LineIs
    <2>4. CASE Routed(body[n])
        <3>1. body[n].type \in Types
            BY <2>2, <2>4 DEF Routed
        <3>2. QED
            BY <2>3, <2>4, <3>1, SomeConversion DEF Converted
    <2>5. CASE ~Routed(body[n])
        BY <2>5 DEF Converted
    <2>6. QED
        BY <2>4, <2>5
<1>2. QED
    BY <1>1, RoutingInvariant, PTL
=============================================================================
