--------------------------- MODULE LineConversion ---------------------------
(***************************************************************************)
(* What src/helper.go makes of the JSON object of one line: processL7Line, *)
(* processL4Line and processMetricsLine with flattenMetrics and toByte.    *)
(*                                                                         *)
(* An object is a function from its keys to values; those that the code    *)
(* takes apart (attributes, trace_ids, tagger and the maps of the meter)   *)
(* are fields of their own, empty when the line has none.  A number is a   *)
(* fraction, so that a division is exact and one by zero, which Marshal    *)
(* refuses, shows.  Go visits the entries of a map in any order: what a    *)
(* loop leaves is one of a set of results.  Clocks are left out: a time    *)
(* stamp of the sidecar is the value Now.                                  *)
(*                                                                         *)
(* A name that the code puts together from a prefix and a key is the       *)
(* string it makes, so that two such names may be the same one.            *)
(*                                                                         *)
(* The names with an underscore are what a plausible slip in the           *)
(* definition that follows them would leave; nothing uses them.            *)
(***************************************************************************)
EXTENDS Integers, Sequences, FiniteSets, Functions

CONSTANT Keys           \* the keys that the maps of a line may have

Number(n) == [kind |-> "number", value |-> <<n, 1>>]
Bool(b) == [kind |-> "bool", value |-> IF b THEN <<1>> ELSE <<0>>]
NotFinite == [kind |-> "notfinite", value |-> <<>>]
Now == [kind |-> "now", value |-> <<>>]
OwnHostname == [kind |-> "hostname", value |-> <<>>]
Name(t) == [kind |-> t, value |-> <<>>]     \* the event type of a sender

Types == {"l7", "l4", "metrics"}

IsNumber(item, k) == k \in DOMAIN item /\ item[k].kind = "number"
Positive(v) == v.value[1] > 0
Ratio(a, b, n, d) ==      \* (a * n) / (b * d)
    IF b.value[1] = 0 THEN NotFinite
    ELSE [kind |-> "number",
          value |-> <<a.value[1] * b.value[2] * n, a.value[2] * b.value[1] * d>>]
Thousandth(v) == Ratio(v, Number(1), 1, 1000)
Seconds(v) == Number(v.value[1] \div (v.value[2] * 1000))  \* int64(v / 1000)

(* The new entries replace those the item has under the same keys.         *)
With(item, entries) ==
    [k \in DOMAIN item \cup DOMAIN entries |->
        IF k \in DOMAIN entries THEN entries[k] ELSE item[k]]
Entry(k, v) == [x \in {k} |-> v]
When(condition, entries) == IF condition THEN entries ELSE <<>>

(* The entries of a loop over a map, written in some order: of those that  *)
(* write the same key the last one stays.  The places count from the end.  *)
Orders(writes) == Injection(writes, 1..Cardinality(writes))
LastWrite(writes, place, k) ==
    LET of == {w \in writes : k \in DOMAIN w}
    IN  CHOOSE w \in of : \A v \in of : place[w] <= place[v]
KeysOf(writes) == UNION {DOMAIN w : w \in writes}
InAnyOrder(item, writes) ==
    {[k \in DOMAIN item \cup KeysOf(writes) |->
        IF k \in KeysOf(writes) THEN LastWrite(writes, place, k)[k] ELSE item[k]]
        : place \in Orders(writes)}
-----------------------------------------------------------------------------
(* What every event gets in the end: its type and the time, whatever the   *)
(* agent sent; the hostname only if the agent sent none.                   *)
Stamped_KeepsType(item, type) ==
    With(With(Entry("eventType", Name(type)), Entry("hostname", OwnHostname)),
         With(item, Entry("ingest_timestamp", Now)))
Stamped(item, type) ==
    With(With(Entry("hostname", OwnHostname), item),
         [eventType |-> Name(type), ingest_timestamp |-> Now])

Timed(item) ==
    With(With(item, When(IsNumber(item, "start_time"),
                         Entry("start_timestamp", Seconds(item["start_time"])))),
         When(IsNumber(item, "end_time"),
              Entry("end_timestamp", Seconds(item["end_time"]))))

(* processL7Line: the attributes under keys of their own, the first trace. *)
L7Events(line) ==
    LET merged == With(line.fields,
                       [k \in {"attr_" \o a : a \in DOMAIN line.attributes} |->
                           line.attributes[CHOOSE a \in DOMAIN line.attributes :
                                              "attr_" \o a = k]])
        traced == With(merged,
                       When(line.traces # <<>> /\ line.traces[1].kind = "string",
                            Entry("trace_id", line.traces[1])))
        stamped == Timed(Stamped(traced, "l7"))
    IN  {With(stamped,
              When(IsNumber(stamped, "response_duration"),
                   Entry("response_duration_ms",
                         Thousandth(stamped["response_duration"]))))}

Scaled == {"duration", "rtt", "rtt_client_max", "rtt_server_max"}

(* Throughput and retransmission rate; both guards keep a zero out of the  *)
(* divisor.                                                                *)
Throughput(item, bytes) ==
    When(/\ IsNumber(item, bytes) /\ IsNumber(item, "duration")
         /\ Positive(item["duration"]),
         Entry(IF bytes = "byte_tx" THEN "throughput_tx_mbps"
                                    ELSE "throughput_rx_mbps",
               Ratio(item[bytes], item["duration"], 8, 1)))
Retransmission_AnyCount(item, packets, retrans, rate) ==
    When(IsNumber(item, packets) /\ IsNumber(item, retrans),
         Entry(rate, Ratio(item[retrans], item[packets], 100, 1)))
Retransmission(item, packets, retrans, rate) ==
    When(/\ IsNumber(item, packets) /\ IsNumber(item, retrans)
         /\ Positive(item[packets]),
         Entry(rate, Ratio(item[retrans], item[packets], 100, 1)))

L4Events(line) ==
    LET item == line.fields
        scaled == [k \in {s \o "_ms" : s \in {s \in Scaled : IsNumber(item, s)}}
                      |-> Thousandth(item[CHOOSE s \in Scaled : s \o "_ms" = k])]
        rates == With(With(scaled, Throughput(item, "byte_tx")),
                      Throughput(item, "byte_rx"))
        derived == With(With(rates, Retransmission(item, "packet_tx",
                                  "retrans_tx", "retransmission_rate_tx_pct")),
                        Retransmission(item, "packet_rx", "retrans_rx",
                                       "retransmission_rate_rx_pct"))
    IN  {Timed(Stamped(With(item, derived), "l4"))}
-----------------------------------------------------------------------------
(* flattenMetrics: what the loops over the maps write for one entry.       *)
Named(prefix, k) == prefix \o k

TaggerWrite(k, v) ==
    IF k = "code"
      THEN When(v.kind = "bits",
                Entry(Named("tagger_", "code_bits"), Number(v.value[1])))
      ELSE Entry(Named("tagger_", k),
                 IF k \in {"mac", "mac1"} /\ v.kind = "sixbytes"
                   THEN [kind |-> "string", value |-> v.value] ELSE v)

(* The maps of the meter.                                                  *)
Sections == {"app_traffic_", "app_latency_", "app_anomaly_",
             "flow_traffic_", "flow_latency_", "flow_performance_",
             "flow_anomaly_"}

(* The keys whose values are also written in milliseconds.                 *)
InMillis == [rrt_max |-> "rrt_max_ms", rrt_sum |-> "rrt_sum_ms"]
Derives(section, k, v) ==
    section = "app_latency_" /\ k \in DOMAIN InMillis /\ v.kind = "number"

MeterWrite_OneKeyForAll(section, k, v) ==
    With(Entry(Named(section, k), v),
         When(Derives(section, k, v), Entry("app_latency_ms", Thousandth(v))))
MeterWrite_OnePrefix(section, k, v) ==
    Entry(IF section = "flow_latency_" THEN Named("app_latency_", k)
                                       ELSE Named(section, k), v)
MeterWrite(section, k, v) ==
    With(Entry(Named(section, k), v),
         When(Derives(section, k, v),
              Entry(Named(section, InMillis[k]), Thousandth(v))))

Indicators == [
    has_requests |-> "app_traffic_request",
    has_client_errors |-> "app_anomaly_client_error",
    has_server_errors |-> "app_anomaly_server_error",
    has_timeouts |-> "app_anomaly_timeout"]

Indicated(item) ==
    With(With(item, [i \in {i \in DOMAIN Indicators :
                                IsNumber(item, Indicators[i])} |->
                        Bool(Positive(item[Indicators[i]]))]),
         When(IsNumber(item, "app_latency_rrt_max_ms"),
              Entry("app_response_time_ms", item["app_latency_rrt_max_ms"])))

TaggerWrites(line) == {TaggerWrite(k, line.tagger[k]) : k \in DOMAIN line.tagger}
MeterWrites(line, section) ==
    {MeterWrite(section, k, line.meter[section][k]) :
        k \in DOMAIN line.meter[section]}

(* What the loop over one map of the meter makes of each possible result.  *)
Loop(line, results, section) ==
    UNION {InAnyOrder(r, MeterWrites(line, section)) : r \in results}

Flagged(line, item) ==
    With(item, When(/\ "flags" \in DOMAIN line.fields
                    /\ line.fields["flags"].kind = "bits",
                    Entry("flags_bits", Number(line.fields["flags"].value[1]))))

(* Of the fields outside the maps only the time stamp and the bits of the  *)
(* flags are kept.                                                         *)
Flattened(line) ==
    LET kept == When("timestamp" \in DOMAIN line.fields,
                     Entry("timestamp", line.fields["timestamp"]))
        tagged == InAnyOrder(kept, TaggerWrites(line))
        traffic == Loop(line, tagged, "app_traffic_")
        latency == Loop(line, traffic, "app_latency_")
        anomaly == Loop(line, latency, "app_anomaly_")
        flowTraffic == Loop(line, anomaly, "flow_traffic_")
        flowLatency == Loop(line, flowTraffic, "flow_latency_")
        flowPerformance == Loop(line, flowLatency, "flow_performance_")
        flowAnomaly == Loop(line, flowPerformance, "flow_anomaly_")
    IN  {Indicated(Flagged(line, r)) : r \in flowAnomaly}

(* processMetricsLine: here the hostname is the sidecar's own.             *)
MetricsEvents(line) ==
    {With(Stamped(r, "metrics"), Entry("hostname", OwnHostname))
        : r \in Flattened(line)}
-----------------------------------------------------------------------------
(* The names that do not come from a map of the line.                      *)
OwnNames == {"timestamp", "flags_bits", "app_response_time_ms", "eventType",
             "ingest_timestamp", "hostname"} \cup DOMAIN Indicators
MapPrefixes == Sections \cup {"tagger_"}
MapKeys == Keys \cup {"code_bits", "rrt_max_ms", "rrt_sum_ms"}

(* True of any keys, because no prefix begins another prefix or one of the *)
(* names above; stated because a prover does not look into strings.        *)
ASSUME NamesAssumption ==
    \A p, q \in MapPrefixes, k, l \in MapKeys :
        /\ Named(p, k) = Named(q, l) => p = q /\ k = l
        /\ Named(p, k) \notin OwnNames

(* JSON has no number that is not finite.                                  *)
IsObject(f) ==
    /\ IsFiniteSet(DOMAIN f)
    /\ \A k \in DOMAIN f :
          /\ f[k].kind # "notfinite"
          /\ f[k].kind = "number" => f[k].value \in Int \X (Nat \ {0})

IsLine(line) ==
    /\ line.json \in {"object", "broken", "null"}
    /\ IsObject(line.fields) /\ IsObject(line.attributes)
    /\ IsObject(line.tagger) /\ DOMAIN line.tagger \subseteq Keys
    /\ DOMAIN line.meter = Sections
    /\ \A section \in Sections :
          /\ IsObject(line.meter[section])
          /\ DOMAIN line.meter[section] \subseteq Keys
-----------------------------------------------------------------------------
Dropped == [outcome |-> "dropped"]
Panic == [outcome |-> "panic"]
Event(item) == [outcome |-> "event", item |-> item]

(* Marshal refuses an item with a number that is not finite: nil.          *)
Marshal(item) ==
    IF \E k \in DOMAIN item : item[k].kind = "notfinite" THEN Dropped
    ELSE Event(item)

(* What the conversion of a line may return: nil if it is not JSON.  The   *)
(* JSON null leaves a nil map, which flattenMetrics only reads and the     *)
(* others write to.                                                        *)
Conversions(line) ==
    CASE line.json = "broken" -> {Dropped}
      [] line.json = "null" /\ line.type # "metrics" -> {Panic}
      [] OTHER ->
            {Marshal(item) : item \in CASE line.type = "l7" -> L7Events(line)
                                         [] line.type = "l4" -> L4Events(line)
                                         [] line.type = "metrics" ->
                                                MetricsEvents(line)}
=============================================================================
