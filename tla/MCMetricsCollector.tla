------------------------- MODULE MCMetricsCollector -------------------------
(* The services on which TLC checks ServiceProcess, and the MetricsCollector, *)
(* MetricsFactory, Tracking and NetHttp inside it.                            *)
EXTENDS ServiceProcess
CONSTANTS full, noFactory, noProvider, g1, g2, k1, k2, api, auth, route, c1, c2, plain

MCTelemetries  == {full, noFactory, noProvider}
MCWithProvider == {full, noFactory}
MCWithFactory  == {full, noProvider}

Attr(k, v)       == [key |-> k, val |-> v]
Sets(op, to)     == [op |-> op, to |-> to, attrs |-> <<>>]
Gives(op, attrs) == [op |-> op, to |-> Unset, attrs |-> attrs]

\* The values an attribute gets tell the derivations apart.
MCUpdates ==
  {Sets("header", "id"), Sets("factory", "mine"),
   Gives("merge", <<Attr(k2, "b"), Attr(k1, "b"), Attr(k2, "c")>>),
   Gives("replace", <<Attr(k2, "d")>>)}

Service(ensures, applies, tracks, workers) ==
  [ensures |-> ensures, applies |-> applies, tracks |-> tracks, workers |-> workers,
   serves |-> FALSE, records |-> {}]
Idles == Service({}, {}, FALSE, {})

\* What shares no state is not crossed: transports alone, workers alone, two
\* instances made global, one while a worker derives contexts, and net/http.
MCServices ==
  {Service(MCTelemetries, {}, FALSE, {}), Service({}, {}, FALSE, {g1, g2}),
   Service({}, MCWithProvider, TRUE, {}), Service({}, {full}, TRUE, {g1})}
MCNetServices == {[Idles EXCEPT !.serves = TRUE]}

\* Each kind of instrument has a cache of its own, but for the histograms that
\* RecordHistogram records on.
MCRecording == {[Idles EXCEPT !.records = asked] : asked \in
  {{"histogram", "rounded", "histogram64f"}, {"counter", "gauge64f", "histogram64f"},
   {"counter", "counter64f", "gauge"}}}
MCAllServices == MCServices \cup MCNetServices \cup MCRecording

MCCallers == {c1, c2}
MCNames   == {plain}
MCSpelled == [n \in MCNames |-> <<n, {}>>]

\* Unsorted, twice the same, and NaN.
MCBoundaries == {<<2, 1>>, <<1, 1>>, <<1, NaN>>}
MCDefaultBuckets == [n \in Names |-> {1}]

Finite(h) == [finite |-> TRUE, halves |-> h]
\* -5, -4.5, -0.5, 1, 3, 3.5 and NaN; with MaxInt64 3 an int64 is -4..3.
MCValues == {Finite(h) : h \in {-10, -9, -1, 2, 6, 7}} \cup {[finite |-> FALSE, halves |-> 0]}

MCURLs     == {[to |-> api, hidden |-> {"query", "user"}], [to |-> api, hidden |-> {"opaque"}],
               [to |-> auth, hidden |-> {}]}
MCArrivals == {CallerInfo, {"remoteAddr"}}
=============================================================================
