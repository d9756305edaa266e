--------------------------- MODULE MCHttpPipeline ---------------------------
(* Chains and requests on which TLC checks HttpPipeline.                   *)
EXTENDS HttpPipeline, FiniteSets

Orders(S) == {q \in [1..Cardinality(S) -> S] : \A i, j \in DOMAIN q : q[i] = q[j] => i = j}

Handlers == {"default", "custom", "failing", "panicking"}

Requests(chains, kinds, handlers, excludes) ==
  [chain : chains, kind : kinds, errorHandler : handlers,
   excludedLog : excludes, excludedTel : excludes]

\* Observers in either order, EndTracingSpans among them, the finalizer, and
\* recover and an application middleware outside or inside.
Observed(t) == {q \in Orders({"logging", t, "endspans", "finalizer"}) :
                  \E k \in 3..4 : q[k] = "finalizer" /\ \A i \in (k+1)..4 : q[i] = "endspans"}
DocumentedChains == UNION {
  {<<"recover">> \o q \o <<"app">> : q \in Observed("telemetry")},
  {q \o <<"recover", "app">> : q \in Observed("tracing")},
  {q \o <<"app", "recover">> : q \in Observed("metered")},
  {<<"app", "recover">> \o q : q \in Observed("telemetry")}}
MCDocumented ==
  Requests(DocumentedChains, {"routed"}, Handlers, {FALSE})

\* A middleware that returns errors of its own above the finalizer.
RogueChains == {<<"logging", "app", "telemetry", "finalizer">>,
                <<"logging", "telemetry", "app", "finalizer", "recover">>,
                <<"telemetry", "recover", "app", "logging", "finalizer", "endspans">>,
                <<"metered", "endspans", "app", "finalizer">>}
MCRogueUnderOne == Requests(RogueChains, {"routed"}, {"default"}, {FALSE})
MCRogue == Requests(RogueChains, {"routed"}, Handlers, {TRUE, FALSE})

\* Any order at all, documented or not.
AnyChains == Orders({"logging", "telemetry", "endspans", "finalizer", "recover"})
             \cup Orders({"logging", "metered", "app"})
             \cup Orders({"logging", "tracing", "endspans"})
MCAnyOrder == Requests(AnyChains, {"routed"}, {"default"}, {FALSE})
              \cup Requests(Orders({"logging", "telemetry", "endspans"}),
                            Kinds, Handlers, BOOLEAN)
              \cup Requests(Orders({"logging", "metered", "app", "recover"}),
                            Refusals, {"default"}, {FALSE})

\* No middleware but the library's and recover.
PlainChains == {<<"recover">> \o q : q \in Observed("telemetry")}
               \cup {q \o <<"recover">> : q \in Observed("telemetry")}
MCPlain == Requests(PlainChains, {"routed"}, Handlers, {FALSE})
MCAnySetup == MCAnyOrder \cup MCRogue \cup MCPlain
MCAll == MCAnySetup \cup MCDocumented

MCDefault == Requests(PlainChains, {"routed"}, {"default"}, {FALSE})
=============================================================================
