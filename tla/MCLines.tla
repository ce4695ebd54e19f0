------------------------------- MODULE MCLines -------------------------------
(* Bodies of one line over a rich choice of fields, and of up to three      *)
(* lines over all ways a line can be routed.                                *)
EXTENDS LineRouting, TLC

None == [k \in {} |-> 0]
NoMeter == [section \in Sections |-> None]
Line(type, fields) ==
    [type |-> type, padded |-> FALSE, json |-> "object", fields |-> fields,
     attributes |-> None, traces |-> <<>>, tagger |-> None, meter |-> NoMeter]
Text == [kind |-> "string", value |-> <<>>]

(* Functions from some of the keys to the values.                           *)
Partial(keys, values) == UNION {[ks -> values] : ks \in SUBSET keys}

L7Lines ==
    {[Line("l7", f) EXCEPT !.attributes = a, !.traces = t] :
        f \in Partial({"eventType", "hostname", "attr_app", "trace_id",
                       "response_duration"}, {Number(1500)}),
        a \in Partial({"app"}, {Text}),
        t \in {<<>>, <<Text>>, <<Number(1), Text>>}}

L4Lines ==
    {Line("l4", f @@ g) :
        f \in Partial({"duration", "byte_tx"}, {Number(0), Number(2)}),
        g \in Partial({"packet_tx", "retrans_tx"}, {Number(0), Number(3)})
                \cup {"start_time" :> Number(1700)}}

MetricsLines ==
    {[Line("metrics", "hostname" :> Text) EXCEPT
        !.tagger = t,
        !.meter["app_latency_"] = a, !.meter["flow_latency_"] = f,
        !.meter["app_traffic_"] = "request" :> Number(n)] :
        t \in Partial({"code", "code_bits", "mac"},
                      {[kind |-> "bits", value |-> <<7>>]})
                \cup {"mac" :> [kind |-> "sixbytes", value |-> <<1>>]},
        a \in Partial({"rrt_max", "rrt_sum", "rrt_max_ms"}, {Number(9)})
                \cup {("rrt_max" :> Number(4)) @@ ("rrt_sum" :> Number(5))},
        f \in Partial({"rrt_max"}, {Number(2)}),
        n \in {0, 1}}

(* One line of each way to be routed, fine or broken, padded or not.        *)
RoutedLines ==
    {[Line(t, None) EXCEPT !.json = j] :
        t \in Types, j \in {"object", "broken", "null"}}
      \cup {[Line("l4", None) EXCEPT !.padded = TRUE],
            Line("blank", None), Line("none", None)}

MCBodies ==
    {<<line>> : line \in L7Lines \cup L4Lines \cup MetricsLines}
      \cup UNION {[1..n -> RoutedLines] : n \in 0..3}

MCKeys == {"code", "code_bits", "mac", "rrt_max", "rrt_sum", "rrt_max_ms",
           "request"}
=============================================================================
