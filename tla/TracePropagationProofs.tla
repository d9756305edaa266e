----------------------- MODULE TracePropagationProofs -----------------------
(***************************************************************************)
(* Proofs about TracePropagation, for every set of endpoints, activities,  *)
(* tenants, members and foreign callers and for every bound.               *)
(***************************************************************************)
EXTENDS TracePropagation, TLAPS

USE DEF NoTrace

(***************************************************************************)
(* The functions of package tracing.                                       *)
(***************************************************************************)
\* One propagator step stays within what can be carried.
LEMMA OverType ==
    ASSUME NEW new \in Carried, NEW old \in Carried
    PROVE  /\ Over(new, old) \in Carried
           /\ Over(new, old).trace = Or(new.trace, NoTrace, old.trace)
           /\ Over(new, old).baggage = Or(new.baggage, NoBaggage, old.baggage)
  BY DEF Over, Or, Carried

\* Extraction keeps the tenant and the AttrBag of the context, continues the
\* carrier's trace if it has one and takes its baggage member if it has one.
LEMMA ExtractFacts ==
    ASSUME NEW ctx \in Contexts, NEW h \in Carried
    PROVE  /\ ExtractTraceContext(ctx, h) \in Contexts
           /\ ExtractTraceContext(ctx, h).bag = ctx.bag
           /\ ExtractTraceContext(ctx, h).carried.trace = Or(h.trace, NoTrace, ctx.carried.trace)
           /\ ExtractTraceContext(ctx, h).carried.baggage.tenant = ctx.carried.baggage.tenant
           /\ h.baggage # NoBaggage
                => ExtractTraceContext(ctx, h).carried.baggage.other = h.baggage.other
<1> DEFINE c == Over(h, ctx.carried)
           s == StripTenantIDBaggage(c)
           r == RestoreTenantIDBaggage(s, ctx.carried.baggage.tenant)
<1>1. ctx.carried \in Carried /\ ctx.bag \in Tenants \cup {Absent}
  BY DEF Contexts
<1>2. ctx.carried.baggage \in Baggages /\ ctx.carried.baggage.tenant \in Tenants \cup {Absent}
  BY <1>1 DEF Carried, Baggages
<1>3. /\ c \in Carried
      /\ c.trace = Or(h.trace, NoTrace, ctx.carried.trace)
      /\ c.baggage = Or(h.baggage, NoBaggage, ctx.carried.baggage)
  BY <1>1, OverType
<1>4. /\ s \in Carried
      /\ s.trace = c.trace
      /\ s.baggage.other = c.baggage.other
      /\ s.baggage.tenant = Absent
  BY <1>3 DEF StripTenantIDBaggage, Carried, Baggages
<1>5. /\ r \in Carried
      /\ r.trace = c.trace
      /\ r.baggage.other = c.baggage.other
      /\ r.baggage.tenant = ctx.carried.baggage.tenant
  BY <1>2, <1>4 DEF RestoreTenantIDBaggage, Carried, Baggages
<1>6. ExtractTraceContext(ctx, h) = [ctx EXCEPT !.carried = r]
  BY DEF ExtractTraceContext
<1>7. /\ [ctx EXCEPT !.carried = r] \in Contexts
      /\ [ctx EXCEPT !.carried = r].bag = ctx.bag
      /\ [ctx EXCEPT !.carried = r].carried = r
  BY <1>1, <1>5 DEF Contexts
<1>8. h.baggage # NoBaggage => c.baggage.other = h.baggage.other
  BY <1>3 DEF Or
<1> QED
  BY <1>3, <1>5, <1>6, <1>7, <1>8

\* h is what the entry point of a transport reads from a carrier.
IsReading(h, transport, carrier) ==
    \/ transport = "http" /\ h = carrier.canonical
    \/ transport = "grpc" /\ h = Over(carrier.lower, carrier.canonical)
    \/ transport = "queue" /\ h \in QueueReadings(carrier)

\* Whatever the transport and the order of the map, the trace read is one the
\* carrier offers.
LEMMA ReadingType ==
    ASSUME NEW transport, NEW carrier \in Carriers, NEW h, IsReading(h, transport, carrier)
    PROVE  h \in Carried /\ h.trace \in {carrier.lower.trace, carrier.canonical.trace}
<1>1. carrier.lower \in Carried /\ carrier.canonical \in Carried
  BY DEF Carriers
<1>2. CASE h = carrier.canonical
  BY <1>1, <1>2
<1>3. CASE h = Over(carrier.lower, carrier.canonical)
  BY <1>1, <1>3, OverType DEF Or
<1>4. CASE h \in QueueReadings(carrier)
  BY <1>1, <1>4 DEF QueueReadings, Either, Or, Carried
<1> QED
  BY <1>2, <1>3, <1>4 DEF IsReading

\* A faithful message, not a queue message with a field in both spellings, is
\* read as what its sender's context carried.
LEMMA ReadingFaithful ==
    ASSUME NEW m \in Messages, Faithful(m), m.transport = "queue" => ~Mixed(m.carrier),
           NEW h, IsReading(h, m.transport, m.carrier)
    PROVE  /\ m.sent.trace # NoTrace => h.trace = m.sent.trace
           /\ m.sent.baggage # NoBaggage => h.baggage = m.sent.baggage
<1>1. m.carrier.lower \in Carried /\ m.carrier.canonical \in Carried
  BY DEF Messages, Carriers
<1>2. CASE m.transport = "http" /\ h = m.carrier.canonical
  BY <1>2 DEF Faithful
<1>3. CASE m.transport = "grpc" /\ h = Over(m.carrier.lower, m.carrier.canonical)
  BY <1>1, <1>3, OverType DEF Faithful, Or
<1>4. CASE m.transport = "queue" /\ h \in QueueReadings(m.carrier)
  BY <1>4 DEF Faithful, Mixed, QueueReadings, Either, Or
<1> QED
  BY <1>2, <1>3, <1>4 DEF IsReading

-----------------------------------------------------------------------------
(***************************************************************************)
(* Receiving.  Entry(r, m, e) says what the record r of an activity that   *)
(* just received m at e is like; the three entry points all establish it.  *)
(***************************************************************************)
Minted(r) == r.entered.carried.trace = minted + 1 /\ minted' = minted + 1

Entry(r, m, e) ==
    /\ r \in Running
    /\ r.at = e /\ r.got = m
    /\ r.ctx = r.entered
    /\ ~r.settled
    /\ r.attested = r.entered.carried.baggage.tenant
    /\ r.entered.bag = LabelOf(r)
    /\ r.entered.carried.trace \in Offered(m) \cup {NoTrace} \/ Minted(r)
    /\ e.transport # "queue" /\ e.traced /\ ~e.trusts => Minted(r)
    /\ /\ m.library /\ Faithful(m)
       /\ Extracts(e)
       /\ m.transport = "queue" => ~Mixed(m.carrier)
       => Joined(r)
    /\ e.traced =>
         r.span = IF e.transport = "http" THEN Absent ELSE SpanTenant(r.entered)

\* The context an entry point hands on: base itself, or what it extracted.
HandsOn(ctx, base, m, e) ==
    \/ Extracts(e) /\ \E h : /\ IsReading(h, m.transport, m.carrier)
                             /\ ctx = ExtractTraceContext(base, h)
    \/ ~Extracts(e) /\ ctx = base

\* What the context handed on is like, before a span is started from it.
LEMMA HandsOnFacts ==
    ASSUME NEW m \in Messages, NEW e \in Endpoints, NEW base \in Contexts, NEW ctx,
           base.carried.trace = NoTrace, HandsOn(ctx, base, m, e)
    PROVE  /\ ctx \in Contexts
           /\ ctx.bag = base.bag
           /\ ctx.carried.baggage.tenant = base.carried.baggage.tenant
           /\ ctx.carried.trace \in Offered(m) \cup {NoTrace}
           /\ ~Extracts(e) => ctx.carried.trace = NoTrace
           /\ /\ Extracts(e) /\ Faithful(m)
              /\ m.transport = "queue" => ~Mixed(m.carrier)
              => /\ m.sent.trace # NoTrace => ctx.carried.trace = m.sent.trace
                 /\ m.sent.baggage.other # Absent
                      => ctx.carried.baggage.other = m.sent.baggage.other
<1>1. CASE ~Extracts(e) /\ ctx = base
  BY <1>1
<1>2. CASE Extracts(e) /\ \E h : /\ IsReading(h, m.transport, m.carrier)
                                 /\ ctx = ExtractTraceContext(base, h)
  <2>1. PICK h : IsReading(h, m.transport, m.carrier) /\ ctx = ExtractTraceContext(base, h)
    BY <1>2
  <2>2. h \in Carried /\ h.trace \in Offered(m)
    BY <2>1, ReadingType DEF Messages, Offered
  <2>3. /\ ctx \in Contexts
        /\ ctx.bag = base.bag
        /\ ctx.carried.trace = Or(h.trace, NoTrace, base.carried.trace)
        /\ ctx.carried.baggage.tenant = base.carried.baggage.tenant
        /\ h.baggage # NoBaggage => ctx.carried.baggage.other = h.baggage.other
    BY <2>1, <2>2, ExtractFacts
  <2>4. ASSUME Faithful(m), m.transport = "queue" => ~Mixed(m.carrier)
        PROVE  /\ m.sent.trace # NoTrace => ctx.carried.trace = m.sent.trace
               /\ m.sent.baggage.other # Absent
                    => ctx.carried.baggage.other = m.sent.baggage.other
    <3>1. /\ m.sent.trace # NoTrace => h.trace = m.sent.trace
          /\ m.sent.baggage # NoBaggage => h.baggage = m.sent.baggage
      BY <2>1, <2>4, ReadingFaithful
    <3>2. m.sent.baggage.other # Absent => m.sent.baggage # NoBaggage
      BY DEF NoBaggage
    <3> QED  BY <2>3, <3>1, <3>2 DEF Or
  <2> QED
    BY <1>2, <2>2, <2>3, <2>4 DEF Or
<1> QED
  BY <1>1, <1>2 DEF HandsOn

\* A span started in the context changes nothing but a missing trace.
LEMMA InSpanFacts ==
    ASSUME NEW ctx \in Contexts, minted \in 0 .. MaxTraces, CanStart(ctx)
    PROVE  /\ InSpan(ctx) \in Contexts
           /\ InSpan(ctx).bag = ctx.bag
           /\ InSpan(ctx).carried.baggage = ctx.carried.baggage
           /\ InSpan(ctx).carried.trace = Or(ctx.carried.trace, NoTrace, minted + 1)
<1>1. ctx.carried.trace \in Traces
  BY DEF Contexts, Carried
<1>2. Or(ctx.carried.trace, NoTrace, minted + 1) \in Traces
  BY <1>1, BoundsAssumption DEF Or, Traces, CanStart
<1> QED
  BY <1>2 DEF InSpan, Contexts, Carried

\* What the application seeds before the middleware is a context.
LEMMA BaseType ==
    ASSUME NEW base \in Seeds
    PROVE  /\ base \in Contexts
           /\ base.carried.trace = NoTrace
  BY StrangersAssumption

\* A traced entry point starts a span from what it hands on.
LEMMA TracedEntry ==
    ASSUME minted \in 0 .. MaxTraces, NEW a, NEW m \in Messages, NEW e \in Endpoints,
           NEW base \in Seeds, NEW given \in Contexts, NEW ctx,
           NEW span \in Tenants \cup {Absent},
           e.traced, m.transport = e.transport, m.transport # "grpc" => m.hint = Absent,
           given.carried = base.carried,
           given.bag = Or(m.hint, Absent, base.bag),
           HandsOn(ctx, given, m, e),
           CanStart(ctx), Mint(ctx), Enter(a, e, m, base, InSpan(ctx), span),
           span = IF e.transport = "http" THEN Absent ELSE SpanTenant(ctx)
    PROVE  /\ minted' \in 0 .. MaxTraces
           /\ minted' \in {minted, minted + 1}
           /\ \E r : Entry(r, m, e) /\ acts' = [acts EXCEPT ![a] = r]
<1> DEFINE r == [at |-> e, got |-> m, entered |-> InSpan(ctx), ctx |-> InSpan(ctx),
                 attested |-> base.carried.baggage.tenant, label |-> base.bag,
                 settled |-> FALSE, span |-> span]
<1>1. /\ base \in Contexts
      /\ base.carried.trace = NoTrace
  BY BaseType
<1>2. base.carried.baggage.tenant \in Tenants \cup {Absent} /\ base.bag \in Tenants \cup {Absent}
  BY <1>1 DEF Contexts, Carried, Baggages
<1>3. given.carried.trace = NoTrace
  BY <1>1
<1>4. /\ ctx \in Contexts
      /\ ctx.bag = given.bag
      /\ ctx.carried.baggage.tenant = base.carried.baggage.tenant
      /\ ctx.carried.trace \in Offered(m) \cup {NoTrace}
      /\ ~Extracts(e) => ctx.carried.trace = NoTrace
      /\ /\ Extracts(e) /\ Faithful(m)
         /\ m.transport = "queue" => ~Mixed(m.carrier)
         => /\ m.sent.trace # NoTrace => ctx.carried.trace = m.sent.trace
            /\ m.sent.baggage.other # Absent
                 => ctx.carried.baggage.other = m.sent.baggage.other
  BY <1>3, HandsOnFacts
<1>5. /\ InSpan(ctx) \in Contexts
      /\ InSpan(ctx).bag = ctx.bag
      /\ InSpan(ctx).carried.baggage = ctx.carried.baggage
      /\ InSpan(ctx).carried.trace = Or(ctx.carried.trace, NoTrace, minted + 1)
  BY <1>4, InSpanFacts
<1>6. /\ minted' \in 0 .. MaxTraces /\ minted \in Nat /\ minted' \in {minted, minted + 1}
      /\ ctx.carried.trace = NoTrace => minted' = minted + 1
  BY BoundsAssumption DEF CanStart, Mint
<1>7. acts' = [acts EXCEPT ![a] = r]
  BY DEF Enter
<1>8. r \in Running
  BY <1>2, <1>5 DEF Running
<1>9. /\ r.at = e /\ r.got = m /\ r.ctx = InSpan(ctx) /\ r.entered = InSpan(ctx)
      /\ ~r.settled /\ r.span = span /\ r.attested = base.carried.baggage.tenant
      /\ r.label = base.bag
  OBVIOUS
<1>10. r.entered.bag = LabelOf(r)
  BY <1>4, <1>5, <1>9 DEF LabelOf, Claimed, Or
<1>11. SpanTenant(r.entered) = SpanTenant(ctx)
  BY <1>5, <1>9 DEF SpanTenant
<1>12. e.transport # "queue" /\ ~e.trusts => ~Extracts(e)
  BY DEF Extracts
<1>13. r.entered.carried.trace \in Offered(m) \cup {NoTrace} \/ Minted(r)
  BY <1>4, <1>5, <1>6, <1>9 DEF Or, Minted
<1>14. e.transport # "queue" /\ ~e.trusts => Minted(r)
  BY <1>4, <1>5, <1>6, <1>9, <1>12 DEF Or, Minted
<1>15. /\ Extracts(e) /\ Faithful(m)
       /\ m.transport = "queue" => ~Mixed(m.carrier)
       => Joined(r)
  BY <1>4, <1>5, <1>9 DEF Joined, Or
<1>16. r.attested = r.entered.carried.baggage.tenant
  BY <1>4, <1>5, <1>9
<1>17. r.span = IF e.transport = "http" THEN Absent ELSE SpanTenant(r.entered)
  BY <1>9, <1>11
<1>18. Entry(r, m, e)
  BY <1>8, <1>9, <1>10, <1>13, <1>14, <1>15, <1>16, <1>17 DEF Entry
<1> QED
  BY <1>6, <1>7, <1>18

\* An untraced entry point starts no span.
LEMMA UntracedEntry ==
    ASSUME NEW a, NEW m \in Messages, NEW e \in Endpoints, NEW base \in Seeds,
           NEW ctx, ~e.traced, HandsOn(ctx, base, m, e),
           Enter(a, e, m, base, ctx, Absent)
    PROVE  \E r : Entry(r, m, e) /\ acts' = [acts EXCEPT ![a] = r]
<1> DEFINE r == [at |-> e, got |-> m, entered |-> ctx, ctx |-> ctx,
                 attested |-> base.carried.baggage.tenant, label |-> base.bag,
                 settled |-> FALSE, span |-> Absent]
<1>1. base \in Contexts /\ base.carried.trace = NoTrace
  BY BaseType
<1>2. base.carried.baggage.tenant \in Tenants \cup {Absent} /\ base.bag \in Tenants \cup {Absent}
  BY <1>1 DEF Contexts, Carried, Baggages
<1>3. /\ ctx \in Contexts
      /\ ctx.bag = base.bag
      /\ ctx.carried.baggage.tenant = base.carried.baggage.tenant
      /\ ctx.carried.trace \in Offered(m) \cup {NoTrace}
      /\ /\ Extracts(e) /\ Faithful(m)
         /\ m.transport = "queue" => ~Mixed(m.carrier)
         => /\ m.sent.trace # NoTrace => ctx.carried.trace = m.sent.trace
            /\ m.sent.baggage.other # Absent
                 => ctx.carried.baggage.other = m.sent.baggage.other
  BY <1>1, HandsOnFacts
<1>4. r \in Running
  BY <1>2, <1>3 DEF Running
<1>5. /\ r.at = e /\ r.got = m /\ r.ctx = ctx /\ r.entered = ctx /\ ~r.settled
      /\ r.attested = base.carried.baggage.tenant /\ r.label = base.bag
  OBVIOUS
<1>6. Entry(r, m, e)
  BY <1>3, <1>4, <1>5 DEF Entry, Joined, LabelOf, Claimed, Or
<1> QED
  BY <1>6 DEF Enter

\* Each of the three entry points makes an entry.
LEMMA ReceiveFacts ==
    ASSUME minted \in 0 .. MaxTraces, NEW a, NEW m \in Messages, NEW e \in Endpoints,
           NEW base \in Seeds, m.transport # "grpc" => m.hint = Absent,
           ReceiveHTTP(a, e, m, base) \/ ReceiveGRPC(a, e, m, base) \/ Consume(a, e, m, base)
    PROVE  /\ minted' \in 0 .. MaxTraces
           /\ minted' \in {minted, minted + 1}
           /\ msgs' = msgs
           /\ m.transport = e.transport
           /\ \E r : Entry(r, m, e) /\ acts' = [acts EXCEPT ![a] = r]
<1>1. base \in Contexts
  BY BaseType
<1>2. base.carried.baggage.tenant \in Tenants \cup {Absent} /\ base.bag \in Tenants \cup {Absent}
  BY <1>1 DEF Contexts, Carried, Baggages
<1>3. m.hint \in Tenants \cup {Absent}
  BY DEF Messages
<1>4. ASSUME NEW ctx \in Contexts
      PROVE  SpanTenant(ctx) \in Tenants \cup {Absent}
  BY <1>4 DEF SpanTenant, Or, Contexts, Carried, Baggages
<1>5. CASE ReceiveHTTP(a, e, m, base)
  <2>1. m.transport = "http" /\ e.transport = "http" /\ msgs' = msgs
    BY <1>5 DEF ReceiveHTTP, Receivable
  <2>2. PICK ctx \in Incoming(e, base, {ExtractTraceContext(base, m.carrier.canonical)}) :
          IF e.traced
          THEN /\ CanStart(ctx)
               /\ Mint(ctx)
               /\ Enter(a, e, m, base, InSpan(ctx),
                        SpanTenant(IdentityFilteredSpanStartContext(ctx)))
          ELSE Enter(a, e, m, base, ctx, Absent) /\ UNCHANGED minted
    BY <1>5 DEF ReceiveHTTP
  <2>3. HandsOn(ctx, base, m, e)
    BY <2>1, <2>2 DEF HandsOn, Incoming, IsReading
  <2>4. ctx \in Contexts
    BY <1>1, <2>3, HandsOnFacts, BaseType
  <2> DEFINE filtered == [ctx EXCEPT !.bag = Absent, !.carried.baggage.tenant = Absent]
  <2>9. filtered.bag = Absent /\ filtered.carried.baggage.tenant = Absent
    BY <2>4 DEF Contexts, Carried, Baggages
  <2>5. SpanTenant(IdentityFilteredSpanStartContext(ctx)) = Absent
    BY <2>9 DEF IdentityFilteredSpanStartContext, SpanTenant, Or
  <2>6. base.bag = Or(m.hint, Absent, base.bag)
    BY <2>1 DEF Or
  <2>7. CASE e.traced
    BY <1>1, <2>1, <2>2, <2>3, <2>5, <2>6, <2>7, TracedEntry
  <2>8. CASE ~e.traced
    BY <2>1, <2>2, <2>3, <2>8, UntracedEntry
  <2> QED  BY <2>7, <2>8
<1>6. CASE ReceiveGRPC(a, e, m, base)
  <2> DEFINE labelled == Labelled(base, m.hint)
  <2>1. m.transport = "grpc" /\ e.transport = "grpc" /\ msgs' = msgs
    BY <1>6 DEF ReceiveGRPC, Receivable
  <2>2. CASE e.traced
    <3>1. PICK ctx \in Incoming(e, labelled, {ExtractGRPCContext(labelled, m.carrier)}) :
            /\ CanStart(ctx)
            /\ Mint(ctx)
            /\ Enter(a, e, m, base, InSpan(ctx), SpanTenant(ctx))
      BY <1>6, <2>2 DEF ReceiveGRPC
    <3>2. /\ labelled \in Contexts
          /\ labelled.carried = base.carried
          /\ labelled.bag = Or(m.hint, Absent, base.bag)
      BY <1>1, <1>2, <1>3 DEF Labelled, Contexts, Or
    <3>3. HandsOn(ctx, labelled, m, e)
      BY <2>1, <3>1 DEF HandsOn, Incoming, IsReading, ExtractGRPCContext
    <3>4. labelled.carried.trace = NoTrace
      BY <3>2, BaseType
    <3>5. ctx \in Contexts
      BY <3>2, <3>3, <3>4, HandsOnFacts
    <3>6. SpanTenant(ctx) \in Tenants \cup {Absent}
      BY <3>5, <1>4
    <3>7. SpanTenant(ctx) = IF e.transport = "http" THEN Absent ELSE SpanTenant(ctx)
      BY <2>1
    <3>8. m.transport = e.transport
      BY <2>1
    <3>9. CanStart(ctx) /\ Mint(ctx) /\ Enter(a, e, m, base, InSpan(ctx), SpanTenant(ctx))
      BY <3>1
    <3>10. /\ minted' \in 0 .. MaxTraces
           /\ minted' \in {minted, minted + 1}
           /\ \E r : Entry(r, m, e) /\ acts' = [acts EXCEPT ![a] = r]
      <4> HIDE DEF labelled
      <4> QED  BY <2>2, <3>2, <3>3, <3>6, <3>7, <3>8, <3>9, TracedEntry
    <3> QED
      BY <2>1, <3>10
  <2>3. CASE ~e.traced
    <3>1. Enter(a, e, m, base, base, Absent) /\ minted' = minted
      BY <1>6, <2>3 DEF ReceiveGRPC
    <3>2. HandsOn(base, base, m, e)
      BY <2>1, <2>3 DEF HandsOn, Extracts
    <3> QED
      BY <2>1, <2>3, <3>1, <3>2, UntracedEntry
  <2> QED  BY <2>2, <2>3
<1>7. CASE Consume(a, e, m, base)
  <2>1. m.transport = "queue" /\ e.transport = "queue" /\ msgs' = msgs
    BY <1>7 DEF Consume, Receivable
  <2>2. PICK ctx \in Incoming(e, base, ExtractQueueTraceContexts(base, m.carrier)) :
          IF e.traced
          THEN /\ CanStart(ctx)
               /\ Mint(ctx)
               /\ Enter(a, e, m, base, InSpan(ctx), SpanTenant(ctx))
          ELSE Enter(a, e, m, base, ctx, Absent) /\ UNCHANGED minted
    BY <1>7 DEF Consume
  <2>3. HandsOn(ctx, base, m, e)
    BY <2>1, <2>2 DEF HandsOn, Incoming, IsReading, ExtractQueueTraceContexts
  <2>4. ctx \in Contexts
    BY <1>1, <2>3, HandsOnFacts, BaseType
  <2>5. SpanTenant(ctx) \in Tenants \cup {Absent}
    BY <2>4, <1>4
  <2>6. base.bag = Or(m.hint, Absent, base.bag)
    BY <2>1 DEF Or
  <2>7. CASE e.traced
    BY <1>1, <2>1, <2>2, <2>3, <2>5, <2>6, <2>7, TracedEntry
  <2>8. CASE ~e.traced
    BY <2>1, <2>2, <2>3, <2>8, UntracedEntry
  <2> QED  BY <2>7, <2>8
<1> QED
  BY <1>5, <1>6, <1>7

-----------------------------------------------------------------------------
(***************************************************************************)
(* Sending.                                                                *)
(***************************************************************************)
\* What the invariant asks of a message.
GoodMessage(m) ==
    /\ m \in Messages
    /\ Offered(m) \subseteq Known
    /\ m.library => Faithful(m)
    /\ m.transport # "grpc" => m.hint = Absent

\* Injection through the canonicalizing carrier touches the canonical keys only.
LEMMA InjectFacts ==
    ASSUME NEW ctx \in Contexts, NEW carrier \in Carriers
    PROVE  /\ InjectTraceContext(ctx, carrier) \in Carriers
           /\ InjectTraceContext(ctx, carrier).lower = carrier.lower
           /\ InjectTraceContext(ctx, carrier).canonical = Over(ctx.carried, carrier.canonical)
  BY OverType DEF InjectTraceContext, Carriers, Contexts

\* In gRPC metadata the lower-case keys hold what was injected.
LEMMA InjectGRPCFacts ==
    ASSUME NEW ctx \in Contexts, NEW carrier \in Carriers
    PROVE  LET md == InjectGRPCContext(ctx, carrier) IN
           /\ md \in Carriers
           /\ md.canonical = Nothing
           /\ md.lower = Over(Over(ctx.carried, carrier.canonical), carrier.lower)
<1>1. Nothing \in Carried
  BY DEF Nothing, NoBaggage, Carried, Traces, Baggages
<1>2. carrier.lower \in Carried /\ carrier.canonical \in Carried /\ ctx.carried \in Carried
  BY DEF Carriers, Contexts
<1>3. Over(Over(ctx.carried, carrier.canonical), carrier.lower) \in Carried
  BY <1>2, OverType
<1> QED
  BY <1>1, <1>3, InjectFacts DEF InjectGRPCContext, Carriers

\* In queue headers the canonical keys hold what was injected.
LEMMA PrepareQueueFacts ==
    ASSUME NEW ctx \in Contexts, NEW carrier \in Carriers
    PROVE  LET headers == PrepareQueueHeaders(ctx, carrier) IN
           /\ headers \in Carriers
           /\ headers.lower = carrier.lower
           /\ headers.canonical = Over(Over(ctx.carried, Nothing), carrier.canonical)
<1>1. Empty \in Carriers /\ Empty.canonical = Nothing
  BY DEF Empty, Carriers, Nothing, NoBaggage, Carried, Traces, Baggages
<1>2. carrier.lower \in Carried /\ carrier.canonical \in Carried /\ ctx.carried \in Carried
  BY DEF Carriers, Contexts
<1>3. InjectTraceContext(ctx, Empty).canonical = Over(ctx.carried, Nothing)
  BY <1>1, InjectFacts
<1>4. Over(Over(ctx.carried, Nothing), carrier.canonical) \in Carried
  BY <1>1, <1>2, OverType DEF Carriers
<1> QED
  BY <1>3, <1>4 DEF PrepareQueueHeaders, Carriers

\* A header map the application holds, with traces of a set K.
Holds(held, K) ==
    /\ held.carrier \in Carriers
    /\ {held.carrier.lower.trace, held.carrier.canonical.trace} \subseteq K

\* A message sent from a context over held headers, all with traces of K, says
\* what the context carried and offers traces of K.
LEMMA SendFacts ==
    ASSUME NEW transport \in Transports, NEW ctx \in Contexts, NEW held, NEW m, NEW K,
           NEW hint \in Tenants \cup {Absent}, NEW carrier,
           NoTrace \in K, ctx.carried.trace \in K, Holds(held, K),
           m = [transport |-> transport, carrier |-> carrier,
                sent |-> ctx.carried, library |-> TRUE, hint |-> hint],
           \/ transport = "http" /\ carrier = InjectTraceContext(ctx, held.carrier)
           \/ transport = "grpc" /\ carrier = InjectGRPCContext(ctx, held.carrier)
           \/ transport = "queue" /\ carrier = PrepareQueueHeaders(ctx, held.carrier)
    PROVE  m \in Messages /\ Offered(m) \subseteq K /\ Faithful(m)
<1>1. /\ held.carrier.lower \in Carried /\ held.carrier.canonical \in Carried
      /\ ctx.carried \in Carried /\ Nothing \in Carried
  BY DEF Holds, Carriers, Contexts, Nothing, NoBaggage, Carried, Traces, Baggages
<1> DEFINE read == IF transport = "grpc" THEN carrier.lower ELSE carrier.canonical
<1>2. /\ carrier \in Carriers
      /\ {carrier.lower.trace, carrier.canonical.trace} \subseteq K
      /\ ctx.carried.trace # NoTrace => read.trace = ctx.carried.trace
      /\ ctx.carried.baggage # NoBaggage => read.baggage = ctx.carried.baggage
  <2>1. CASE transport = "http" /\ carrier = InjectTraceContext(ctx, held.carrier)
    <3>1. /\ carrier \in Carriers
          /\ carrier.lower = held.carrier.lower
          /\ carrier.canonical = Over(ctx.carried, held.carrier.canonical)
      BY <2>1, InjectFacts DEF Holds
    <3> QED  BY <1>1, <2>1, <3>1, OverType DEF Holds, Or
  <2>2. CASE transport = "grpc" /\ carrier = InjectGRPCContext(ctx, held.carrier)
    <3>1. /\ carrier \in Carriers
          /\ carrier.canonical = Nothing
          /\ carrier.lower = Over(Over(ctx.carried, held.carrier.canonical), held.carrier.lower)
      BY <2>2, InjectGRPCFacts DEF Holds
    <3>2. Nothing.trace = NoTrace
      BY DEF Nothing
    <3> QED  BY <1>1, <2>2, <3>1, <3>2, OverType DEF Holds, Or
  <2>3. CASE transport = "queue" /\ carrier = PrepareQueueHeaders(ctx, held.carrier)
    <3>1. /\ carrier \in Carriers
          /\ carrier.lower = held.carrier.lower
          /\ carrier.canonical = Over(Over(ctx.carried, Nothing), held.carrier.canonical)
      BY <2>3, PrepareQueueFacts DEF Holds
    <3>2. Nothing.trace = NoTrace
      BY DEF Nothing
    <3> QED  BY <1>1, <2>3, <3>1, <3>2, OverType DEF Holds, Or
  <2> QED  BY <2>1, <2>2, <2>3
<1>3. m \in Messages
  BY <1>1, <1>2 DEF Messages
<1>4. /\ m.transport = transport /\ m.carrier = carrier /\ m.sent = ctx.carried /\ m.hint = hint
  OBVIOUS
<1>5. Faithful(m)
  BY <1>2, <1>4 DEF Faithful
<1> QED
  BY <1>2, <1>3, <1>4, <1>5 DEF Offered

-----------------------------------------------------------------------------
(***************************************************************************)
(* The inductive invariant, by activity and by message.                    *)
(***************************************************************************)
GoodActivity(act) ==
    /\ act.ctx.carried.baggage.tenant = act.attested
    /\ act.ctx.bag = LabelOf(act)
    /\ /\ act.got.library
       /\ Extracts(act.at)
       /\ act.at.transport = "queue" => ~Mixed(act.got.carrier)
       => Joined(act)
    /\ act.at.transport # "queue" /\ act.at.traced /\ ~act.at.trusts => Opened(act)
    /\ act.at.traced =>
        act.span = IF act.at.transport = "http" THEN Absent ELSE SpanTenant(act.entered)
    /\ {act.ctx.carried.trace, act.entered.carried.trace} \subseteq Known
    /\ Offered(act.got) \subseteq Known
    /\ act.got \in msgs /\ act.got.transport = act.at.transport

Apart(x, y) ==
    Opened(x) /\ Opened(y) => x.entered.carried.trace # y.entered.carried.trace

Parts ==
    /\ TypeOK
    /\ \A a \in Live : GoodActivity(acts[a])
    /\ \A a, b \in Live : a # b => Apart(acts[a], acts[b])
    /\ \A m \in msgs : GoodMessage(m)

\* When the AttrBag and the baggage hold what they should, a span says so.
LEMMA SpanOfLabel ==
    ASSUME NEW act, act.ctx.carried.baggage.tenant = act.attested, act.ctx.bag = LabelOf(act)
    PROVE  SpanTenant(act.ctx) = Or(LabelOf(act), Absent, act.attested)
  BY DEF SpanTenant

\* The invariant is the conjunction of what it says of each activity, of each
\* pair of activities and of each message.
LEMMA IInvParts == (IInv <=> Parts) /\ (IInv' <=> Parts')
<1>1. IInv <=> Parts
  BY SpanOfLabel
     DEF IInv, Parts, TenantIsAttested, JoinsItsCaller, UntrustedOpensItsOwn,
         SpansNameTheTenant, NoneFromTheFuture, GoodActivity, Apart, GoodMessage, TypeOK, SpanTenant
<1>2. IInv' <=> Parts'
  BY SpanOfLabel
     DEF IInv, Parts, TenantIsAttested, JoinsItsCaller, UntrustedOpensItsOwn,
         SpansNameTheTenant, NoneFromTheFuture, GoodActivity, Apart, GoodMessage, TypeOK, SpanTenant
<1> QED
  BY <1>1, <1>2

\* An activity is running exactly when its record is one.
LEMMA LiveType ==
    ASSUME TypeOK, NEW a \in Live
    PROVE  a \in Activities /\ acts[a] \in Running
  BY DEF TypeOK, Live

\* No activity, no message: nothing to say.
LEMMA InitIInv == Init => IInv
<1> SUFFICES ASSUME Init PROVE Parts
  BY IInvParts
<1>1. Live = {}
  BY DEF Init, Live
<1>2. TypeOK
  BY BoundsAssumption DEF Init, TypeOK
<1> QED
  BY <1>1, <1>2 DEF Parts, Init

\* More messages and more minted traces leave an activity good.
LEMMA GoodActivityGrows ==
    ASSUME NEW act, GoodActivity(act), msgs \subseteq msgs',
           minted \in Nat, minted' \in Nat, minted <= minted'
    PROVE  GoodActivity(act)'
<1>1. Known \subseteq Known'
  BY DEF Known
<1>2. act' = act
  OBVIOUS
<1> QED
  BY <1>1 DEF GoodActivity, Joined, Opened, Offered, Extracts, Mixed, SpanTenant, LabelOf, Claimed

\* A good message stays one.
LEMMA GoodMessageGrows ==
    ASSUME NEW m, GoodMessage(m), minted \in Nat, minted' \in Nat, minted <= minted'
    PROVE  GoodMessage(m)'
<1>1. Known \subseteq Known'
  BY DEF Known
<1> QED
  BY <1>1 DEF GoodMessage, Offered, Faithful

\* Sending good messages, minting a trace or doing nothing keeps the invariant.
LEMMA SendStep ==
    ASSUME IInv, acts' = acts, msgs \subseteq msgs', \A m \in msgs' \ msgs : GoodMessage(m)',
           minted' \in 0 .. MaxTraces, minted <= minted'
    PROVE  IInv'
<1>1. Parts
  BY IInvParts
<1>2. minted \in Nat /\ minted' \in Nat /\ TypeOK
  BY <1>1, BoundsAssumption DEF Parts, TypeOK
<1>3. Live' = Live
  BY DEF Live
<1>4. \A a \in Live' : GoodActivity(acts[a])'
  <2> TAKE a \in Live'
  <2>1. PICK r : r = acts[a]
    OBVIOUS
  <2>2. GoodActivity(r)
    BY <1>1, <1>3, <2>1 DEF Parts
  <2>3. GoodActivity(r)'
    BY <1>2, <2>2, GoodActivityGrows
  <2> QED  BY <2>1, <2>3
<1>5. \A a, b \in Live' : a # b => Apart(acts[a], acts[b])'
  BY <1>1, <1>3 DEF Parts, Apart, Opened, Offered
<1>6. \A x \in msgs' : GoodMessage(x)'
  BY <1>1, <1>2, GoodMessageGrows DEF Parts
<1>7. TypeOK'
  BY <1>2, <1>6 DEF TypeOK, GoodMessage
<1> QED
  BY <1>4, <1>5, <1>6, <1>7, IInvParts DEF Parts

\* What the application does inside a handler keeps the invariant: it changes
\* the baggage and the AttrBag of its own context only.
LEMMA HandleStep ==
    ASSUME IInv, NEW a \in Activities,
           \/ \E tenant \in Verdicts : LabelTenant(a, tenant) \/ AttestTenant(a, tenant)
           \/ \E member \in Additions : AddMember(a, member)
    PROVE  IInv'
<1>1. Parts /\ a \in Live /\ TypeOK
  BY IInvParts DEF Parts, LabelTenant, AttestTenant, AddMember, IsRunning, Live
<1>2. PICK r : r = acts[a]
  OBVIOUS
<1>3. r \in Running /\ GoodActivity(r) /\ r.ctx \in Contexts
  BY <1>1, <1>2, LiveType DEF Parts, Running
<1>4. PICK n : acts' = [acts EXCEPT ![a] = n] /\ n \in Running /\ GoodActivity(n)
               /\ n.entered = r.entered /\ n.got = r.got
  <2>1. ASSUME NEW tenant \in Verdicts, LabelTenant(a, tenant)
        PROVE  \E n : /\ acts' = [acts EXCEPT ![a] = n] /\ n \in Running /\ GoodActivity(n)
                      /\ n.entered = r.entered /\ n.got = r.got
    <3> DEFINE n == [r EXCEPT !.ctx.bag = tenant, !.label = tenant, !.settled = TRUE]
    <3>1. acts' = [acts EXCEPT ![a] = n]
      BY <1>2, <2>1 DEF LabelTenant
    <3>2. /\ n \in Running
          /\ n.entered = r.entered /\ n.got = r.got /\ n.at = r.at /\ n.span = r.span
          /\ n.settled /\ n.label = tenant /\ n.attested = r.attested
          /\ n.ctx.bag = tenant /\ n.ctx.carried = r.ctx.carried
      BY <1>3, HandlersAssumption DEF Running, Contexts
    <3>3. n.ctx.bag = LabelOf(n)
      BY <3>2 DEF LabelOf
    <3>4. GoodActivity(n)
      <4> HIDE DEF n
      <4> QED  BY <1>3, <3>2, <3>3 DEF GoodActivity, Joined, Opened
    <3> QED  BY <3>1, <3>2, <3>4
  <2>3. ASSUME NEW tenant \in Verdicts, AttestTenant(a, tenant)
        PROVE  \E n : /\ acts' = [acts EXCEPT ![a] = n] /\ n \in Running /\ GoodActivity(n)
                      /\ n.entered = r.entered /\ n.got = r.got
    <3> DEFINE n == [r EXCEPT !.ctx.carried.baggage.tenant = tenant, !.attested = tenant]
    <3>1. acts' = [acts EXCEPT ![a] = n]
      BY <1>2, <2>3 DEF AttestTenant
    <3>2. /\ n \in Running
          /\ n.entered = r.entered /\ n.got = r.got /\ n.at = r.at /\ n.span = r.span
          /\ n.settled = r.settled /\ n.label = r.label /\ n.attested = tenant
          /\ n.ctx.bag = r.ctx.bag /\ n.ctx.carried.baggage.tenant = tenant
          /\ n.ctx.carried.trace = r.ctx.carried.trace
      BY <1>3, HandlersAssumption DEF Running, Contexts, Carried, Baggages
    <3>3. LabelOf(n) = LabelOf(r)
      BY <3>2 DEF LabelOf, Claimed
    <3>4. GoodActivity(n)
      <4> HIDE DEF n
      <4> QED  BY <1>3, <3>2, <3>3 DEF GoodActivity, Joined, Opened
    <3> QED  BY <3>1, <3>2, <3>4
  <2>2. ASSUME NEW member \in Additions, AddMember(a, member)
        PROVE  \E n : /\ acts' = [acts EXCEPT ![a] = n] /\ n \in Running /\ GoodActivity(n)
                      /\ n.entered = r.entered /\ n.got = r.got
    <3> DEFINE n == [r EXCEPT !.ctx.carried.baggage.other = member]
    <3>1. acts' = [acts EXCEPT ![a] = n]
      BY <1>2, <2>2 DEF AddMember
    <3>2. /\ n \in Running
          /\ n.entered = r.entered /\ n.got = r.got /\ n.at = r.at /\ n.span = r.span
          /\ n.settled = r.settled /\ n.label = r.label /\ n.attested = r.attested
          /\ n.ctx.bag = r.ctx.bag
          /\ n.ctx.carried.baggage.tenant = r.ctx.carried.baggage.tenant
          /\ n.ctx.carried.trace = r.ctx.carried.trace
      BY <1>3, HandlersAssumption DEF Running, Contexts, Carried, Baggages
    <3>3. LabelOf(n) = LabelOf(r)
      BY <3>2 DEF LabelOf, Claimed
    <3>4. GoodActivity(n)
      <4> HIDE DEF n
      <4> QED  BY <1>3, <3>2, <3>3 DEF GoodActivity, Joined, Opened
    <3> QED  BY <3>1, <3>2, <3>4
  <2> QED  BY <2>1, <2>2, <2>3
<1>5. msgs' = msgs /\ minted' = minted
  BY DEF LabelTenant, AttestTenant, AddMember
<1>6. TypeOK'
  BY <1>1, <1>4, <1>5 DEF TypeOK
<1>7. Live' \subseteq Live
  BY <1>1, <1>4 DEF Live, TypeOK
<1>8. \A b \in Live' : GoodActivity(acts[b])'
  <2> TAKE b \in Live'
  <2>1. PICK x : x = acts'[b]
    OBVIOUS
  <2>2. GoodActivity(x)
    BY <1>1, <1>4, <1>7, <2>1 DEF Parts, TypeOK
  <2>3. minted \in Nat
    BY <1>1, BoundsAssumption DEF TypeOK
  <2>4. GoodActivity(x)'
    BY <1>5, <2>2, <2>3, GoodActivityGrows
  <2> QED  BY <2>1, <2>4
<1>9. \A b, c \in Live' : b # c => Apart(acts'[b], acts'[c])
  <2>1. \A b \in Live' : /\ acts'[b].entered = acts[b].entered
                         /\ acts'[b].got = acts[b].got
    BY <1>1, <1>2, <1>4, <1>7 DEF TypeOK, Live
  <2> QED  BY <1>1, <1>7, <2>1 DEF Parts, Apart, Opened
<1>10. \A m \in msgs' : GoodMessage(m)'
  BY <1>1, <1>5 DEF Parts, GoodMessage, Known
<1>11. \A b, c \in Live' : b # c => Apart(acts[b], acts[c])'
  BY <1>9 DEF Apart, Opened, Offered
<1> QED
  BY <1>6, <1>8, <1>10, <1>11, IInvParts DEF Parts

\* Receiving keeps the invariant: the trace an entry point opens is new.
LEMMA ReceiveStep ==
    ASSUME IInv, NEW a \in Activities, NEW e \in Endpoints, NEW m \in msgs,
           NEW base \in Seeds,
           ReceiveHTTP(a, e, m, base) \/ ReceiveGRPC(a, e, m, base) \/ Consume(a, e, m, base)
    PROVE  IInv'
<1>1. Parts /\ TypeOK /\ GoodMessage(m) /\ m \in Messages
  BY IInvParts DEF Parts, GoodMessage
<1>2. minted \in 0 .. MaxTraces /\ minted \in Nat
  BY <1>1, BoundsAssumption DEF TypeOK
<1>3. /\ minted' \in 0 .. MaxTraces
      /\ minted' \in {minted, minted + 1}
      /\ msgs' = msgs
      /\ m.transport = e.transport
      /\ \E r : Entry(r, m, e) /\ acts' = [acts EXCEPT ![a] = r]
  BY <1>1, <1>2, ReceiveFacts DEF GoodMessage
<1>4. PICK r : Entry(r, m, e) /\ acts' = [acts EXCEPT ![a] = r]
  BY <1>3
<1>5. /\ r \in Running /\ r.at = e /\ r.got = m /\ r.ctx = r.entered
      /\ r.entered.carried.trace \in Offered(m) \cup {NoTrace} \/ Minted(r)
  BY <1>4 DEF Entry
<1>6. minted' \in Nat /\ minted <= minted' /\ Known \subseteq Known'
  BY <1>2, <1>3, BoundsAssumption DEF Known
<1>7. r.entered.carried.trace \in Known'
  BY <1>1, <1>2, <1>3, <1>5, <1>6 DEF GoodMessage, Known, Minted
<1>8. ASSUME Minted(r) PROVE r.entered.carried.trace \notin Known \cup {NoTrace}
  BY <1>2, <1>3, <1>8, BoundsAssumption DEF Known, Minted
<1>9. ASSUME r.at.transport # "queue" /\ r.at.traced /\ ~r.at.trusts
      PROVE  Opened(r)
  BY <1>1, <1>4, <1>5, <1>8, <1>9 DEF Entry, Opened, GoodMessage
<1>10. GoodActivity(r)'
  <2>1. Offered(m) \subseteq Known'
    BY <1>1, <1>6 DEF GoodMessage
  <2>2. m.library => Faithful(m)
    BY <1>1 DEF GoodMessage
  <2>3. m \in msgs'
    BY <1>3
  <2>4. Opened(r)' <=> Opened(r)
    BY DEF Opened, Offered
  <2> QED
    BY <1>3, <1>4, <1>5, <1>7, <1>9, <2>1, <2>2, <2>3, <2>4
       DEF Entry, GoodActivity, Extracts, Joined, Mixed, SpanTenant, LabelOf, Claimed, Offered, Opened
<1>11. \A b \in Live' \ {a} : b \in Live /\ acts'[b] = acts[b]
  BY <1>1, <1>4 DEF Live, TypeOK
<1>12. acts'[a] = r
  BY <1>1, <1>4 DEF TypeOK
<1>13. \A b \in Live' : GoodActivity(acts[b])'
  <2> TAKE b \in Live'
  <2>1. CASE b = a
    BY <1>10, <1>12, <2>1
  <2>2. CASE b # a
    <3>1. PICK x : x = acts'[b]
      OBVIOUS
    <3>2. GoodActivity(x)
      BY <1>1, <1>11, <2>2, <3>1 DEF Parts
    <3>3. GoodActivity(x)'
      BY <1>2, <1>3, <1>6, <3>2, GoodActivityGrows
    <3> QED  BY <3>1, <3>3
  <2> QED  BY <2>1, <2>2
<1>14. ASSUME NEW b \in Live' \ {a} PROVE Apart(r, acts[b]) /\ Apart(acts[b], r)
  <2>1. acts[b].entered.carried.trace \in Known
    BY <1>1, <1>11, <1>14 DEF Parts, GoodActivity
  <2>2. Opened(r) => r.entered.carried.trace \notin Known
    BY <1>5, <1>8 DEF Opened
  <2> QED  BY <2>1, <2>2 DEF Apart
<1>15. \A b, c \in Live' : b # c => Apart(acts'[b], acts'[c])
  BY <1>1, <1>11, <1>12, <1>14 DEF Parts
<1>16. \A b, c \in Live' : b # c => Apart(acts[b], acts[c])'
  BY <1>15 DEF Apart, Opened, Offered
<1>17. \A x \in msgs' : GoodMessage(x)'
  BY <1>1, <1>2, <1>3, <1>6, GoodMessageGrows DEF Parts
<1>18. TypeOK'
  BY <1>1, <1>3, <1>4, <1>5 DEF TypeOK
<1> QED
  BY <1>13, <1>16, <1>17, <1>18, IInvParts DEF Parts

\* Every step keeps the invariant.
LEMMA NextStep == IInv /\ [Next]_vars => IInv'
<1> SUFFICES ASSUME IInv, [Next]_vars PROVE IInv'
  OBVIOUS
<1>1. Parts /\ TypeOK
  BY IInvParts DEF Parts
<1>2. minted \in 0 .. MaxTraces /\ minted \in Nat
  BY <1>1, BoundsAssumption DEF TypeOK
<1>3. ASSUME NEW a \in Activities, IsRunning(a)
      PROVE  acts[a].ctx \in Contexts /\ acts[a].ctx.carried.trace \in Known
  BY <1>1, <1>3, LiveType DEF Parts, GoodActivity, Running, Live, IsRunning
<1>4. Empty \in Carriers /\ NoTrace \in Known
  <2>1. Nothing \in Carried
    BY DEF Nothing, NoBaggage, Carried, Traces, Baggages
  <2> QED  BY <1>2, <2>1 DEF Empty, Carriers, Known
<1>5. ASSUME NEW transport, NEW held \in Held(transport)
      PROVE  Holds(held, Known) /\ held.hint \in Tenants \cup {Absent}
  <2>1. CASE held = Fresh
    BY <1>4, <2>1 DEF Fresh, Holds, Empty, Nothing
  <2>2. CASE \E m \in msgs : held = [carrier |-> m.carrier, hint |-> m.hint]
    BY <1>1, <2>2 DEF Parts, GoodMessage, Messages, Holds, Offered
  <2> QED  BY <1>5, <2>1, <2>2 DEF Held
<1>6. CASE Receive
  BY <1>6, ReceiveStep DEF Receive
<1>7. CASE Handle
  BY <1>7, HandleStep DEF Handle
<1>8. CASE Call
  <2>1. PICK a \in Activities :
          \/ \E held \in Held("http") : CallHTTP(a, held)
          \/ \E held \in Held("grpc") : CallGRPC(a, held)
          \/ \E held \in Held("queue") : Publish(a, held)
          \/ Produce(a)
    BY <1>8 DEF Call
  <2>2. ASSUME NEW held \in Held("http"), CallHTTP(a, held) PROVE IInv'
    <3>1. PICK m : m = [transport |-> "http", carrier |-> InjectTraceContext(acts[a].ctx, held.carrier),
                        sent |-> acts[a].ctx.carried, library |-> TRUE, hint |-> Absent]
      OBVIOUS
    <3>2. m \in Messages /\ Offered(m) \subseteq Known /\ Faithful(m)
      BY <1>3, <1>4, <1>5, <2>2, <3>1, SendFacts DEF CallHTTP, Transports
    <3>3. GoodMessage(m)
      BY <3>1, <3>2 DEF GoodMessage
    <3>4. minted' = minted /\ acts' = acts /\ msgs' = msgs \cup {m}
      BY <2>2, <3>1 DEF CallHTTP, Send
    <3>5. GoodMessage(m)'
      BY <1>2, <3>3, <3>4, GoodMessageGrows
    <3> QED
      BY <1>2, <3>4, <3>5, SendStep
  <2>3. ASSUME NEW held \in Held("grpc"), CallGRPC(a, held) PROVE IInv'
    <3>1. PICK m : m = [transport |-> "grpc", carrier |-> InjectGRPCContext(acts[a].ctx, held.carrier),
                        sent |-> acts[a].ctx.carried, library |-> TRUE, hint |-> held.hint]
      OBVIOUS
    <3>2. m \in Messages /\ Offered(m) \subseteq Known /\ Faithful(m)
      BY <1>3, <1>4, <1>5, <2>3, <3>1, SendFacts DEF CallGRPC, Transports
    <3>3. GoodMessage(m)
      BY <3>1, <3>2 DEF GoodMessage
    <3>4. minted' = minted /\ acts' = acts /\ msgs' = msgs \cup {m}
      BY <2>3, <3>1 DEF CallGRPC, Send
    <3>5. GoodMessage(m)'
      BY <1>2, <3>3, <3>4, GoodMessageGrows
    <3> QED
      BY <1>2, <3>4, <3>5, SendStep
  <2>4. ASSUME NEW held \in Held("queue"), Publish(a, held) PROVE IInv'
    <3>1. PICK m : m = [transport |-> "queue", carrier |-> PrepareQueueHeaders(acts[a].ctx, held.carrier),
                        sent |-> acts[a].ctx.carried, library |-> TRUE, hint |-> Absent]
      OBVIOUS
    <3>2. m \in Messages /\ Offered(m) \subseteq Known /\ Faithful(m)
      BY <1>3, <1>4, <1>5, <2>4, <3>1, SendFacts DEF Publish, Transports
    <3>3. GoodMessage(m)
      BY <3>1, <3>2 DEF GoodMessage
    <3>4. minted' = minted /\ acts' = acts /\ msgs' = msgs \cup {m}
      BY <2>4, <3>1 DEF Publish, Send
    <3>5. GoodMessage(m)'
      BY <1>2, <3>3, <3>4, GoodMessageGrows
    <3> QED
      BY <1>2, <3>4, <3>5, SendStep
  <2>5. ASSUME Produce(a) PROVE IInv'
    <3>1. PICK ctx : /\ ctx \in Contexts
                     /\ ctx.carried.trace \in Known'
                     /\ minted' \in 0 .. MaxTraces /\ minted <= minted'
                     /\ acts' = acts
                     /\ Send("queue", ctx, PrepareQueueHeaders(ctx, Empty), Absent)
      <4>1. acts[a].ctx \in Contexts /\ acts[a].ctx.carried.trace \in Known /\ acts' = acts
        BY <1>3, <2>5 DEF Produce
      <4>2. CASE acts[a].at.traced
        <5>1. /\ CanStart(acts[a].ctx) /\ Mint(acts[a].ctx)
              /\ Send("queue", InSpan(acts[a].ctx),
                      PrepareQueueHeaders(InSpan(acts[a].ctx), Empty), Absent)
          BY <2>5, <4>2 DEF Produce
        <5>2. /\ InSpan(acts[a].ctx) \in Contexts
              /\ InSpan(acts[a].ctx).carried.trace = Or(acts[a].ctx.carried.trace, NoTrace, minted + 1)
          BY <1>2, <4>1, <5>1, InSpanFacts
        <5>3. /\ minted' \in 0 .. MaxTraces /\ minted <= minted'
              /\ InSpan(acts[a].ctx).carried.trace \in Known'
          BY <1>2, <4>1, <5>1, <5>2, BoundsAssumption DEF CanStart, Mint, Known, Or
        <5> QED  BY <4>1, <5>1, <5>2, <5>3
      <4>3. CASE ~acts[a].at.traced
        <5>1. /\ minted' = minted
              /\ Send("queue", acts[a].ctx, PrepareQueueHeaders(acts[a].ctx, Empty), Absent)
          BY <2>5, <4>3 DEF Produce
        <5> QED  BY <1>2, <4>1, <5>1 DEF Known
      <4> QED  BY <4>2, <4>3
    <3> DEFINE m == [transport |-> "queue", carrier |-> PrepareQueueHeaders(ctx, Empty),
                     sent |-> ctx.carried, library |-> TRUE, hint |-> Absent]
    <3>2. NoTrace \in Known' /\ Holds(Fresh, Known') /\ Fresh.carrier = Empty
      BY <1>2, <1>4, <3>1, BoundsAssumption DEF Known, Holds, Fresh, Empty, Nothing
    <3>3. m \in Messages /\ Offered(m) \subseteq Known' /\ Faithful(m)
      BY <3>1, <3>2, SendFacts DEF Transports
    <3>4. GoodMessage(m)'
      BY <3>3 DEF GoodMessage, Offered, Faithful
    <3> QED
      BY <3>1, <3>4, SendStep DEF Send
  <2> QED  BY <2>1, <2>2, <2>3, <2>4, <2>5
<1>9. CASE \E m \in Strangers : Arrive(m)
  <2>1. PICK m \in Strangers : Arrive(m)
    BY <1>9
  <2>2. m \in Messages /\ Foreign(m)
    BY StrangersAssumption
  <2>3. Offered(m) \subseteq Known
    BY <1>2, <2>2 DEF Foreign, Offered, Empty, Nothing, Known
  <2>4. GoodMessage(m)'
    BY <1>2, <2>1, <2>2, <2>3, GoodMessageGrows DEF GoodMessage, Foreign, Arrive
  <2> QED  BY <1>2, <2>1, <2>4, SendStep DEF Arrive
<1>10. CASE UNCHANGED vars
  BY <1>2, <1>10, SendStep DEF vars
<1> QED
  BY <1>6, <1>7, <1>8, <1>9, <1>10 DEF Next

-----------------------------------------------------------------------------
(***************************************************************************)
(* Theorems of the specification.                                          *)
(***************************************************************************)
\* The inductive invariant holds in every reachable state.
THEOREM TraceInvariant == Spec => []IInv
  BY InitIInv, NextStep, PTL DEF Spec

\* The baggage of a context names the tenant its own application put there, no
\* carrier sets or wipes it (ExtractTraceContext); and so does its AttrBag, but
\* for the tenant-id metadata of a gRPC call, until the handler labels anew.
THEOREM TenantAttested == Spec => []TenantIsAttested
<1>1. IInv => TenantIsAttested
  BY DEF IInv
<1> QED  BY <1>1, TraceInvariant, PTL

\* A library message continues its sender's trace and brings its baggage
\* member, over every transport (the inject and extract pairs).
THEOREM CallerJoined == Spec => []JoinsItsCaller
<1>1. IInv => JoinsItsCaller
  BY DEF IInv
<1> QED  BY <1>1, TraceInvariant, PTL

\* An entry point that does not trust its callers opens a trace nobody else
\* opens (TrustInboundTraceContext).
THEOREM UntrustedOpens == Spec => []UntrustedOpensItsOwn
<1>1. IInv => UntrustedOpensItsOwn
  BY DEF IInv
<1> QED  BY <1>1, TraceInvariant, PTL

\* Every span names the label of its AttrBag, the application's or the caller's,
\* and else the attested tenant; the built-in HTTP server span names none
\* (AttrBagSpanProcessor).
THEOREM SpansTenant == Spec => []SpansNameTheTenant
<1>1. IInv => SpansNameTheTenant
  BY DEF IInv
<1> QED  BY <1>1, TraceInvariant, PTL

=============================================================================
