-------------------------- MODULE TracePropagation --------------------------
(***************************************************************************)
(* How a trace, a tenant and the other baggage members travel from service *)
(* to service: the inject and extract functions of package tracing, and    *)
(* the HTTP, gRPC and queue entry points that call them.                   *)
(*                                                                         *)
(* An activity is one request or delivery being handled.  Messages stay in *)
(* a set: they may be delivered late, twice, out of order or never.        *)
(***************************************************************************)
EXTENDS Naturals, FiniteSets

CONSTANTS
    Activities,     \* requests and deliveries handled in a behaviour
    Endpoints,      \* the entry points of the services
    Tenants,        \* tenant identities
    Members,        \* values of the baggage members other than tenant.id
    ForeignTraces,  \* trace ids chosen by callers that do not use this library
    Strangers,      \* what callers that do not use this library send
    Seeds,          \* contexts of an application before the middleware
    Verdicts,       \* tenants that authentication in a handler resolves to
    Additions,      \* members that a handler adds to its baggage
    MaxTraces,      \* bound: traces the tracers mint
    MaxMessages,    \* bound: messages sent
    Absent          \* no tenant, no member

Transports == {"http", "grpc", "queue"}

ASSUME BoundsAssumption ==
    /\ MaxTraces \in Nat
    /\ MaxMessages \in Nat
    /\ ForeignTraces \subseteq {n \in Nat : n > MaxTraces}
ASSUME ValuesAssumption == Absent \notin Tenants \cup Members
ASSUME EndpointsAssumption ==
    Endpoints \subseteq [transport : Transports, trusts : BOOLEAN, traced : BOOLEAN]

NoTrace == 0
Traces == 1 .. MaxTraces \cup ForeignTraces \cup {NoTrace}
Baggages == [tenant : Tenants \cup {Absent}, other : Members \cup {Absent}]
NoBaggage == [tenant |-> Absent, other |-> Absent]

\* What a propagator moves between a context and a carrier.
Carried == [trace : Traces, baggage : Baggages]
Nothing == [trace |-> NoTrace, baggage |-> NoBaggage]

\* bag is the tenant.id of the request's AttrBag.
Contexts == [carried : Carried, bag : Tenants \cup {Absent}]

\* A header map, by the spelling of its keys ("traceparent", "Traceparent").
Carriers == [lower : Carried, canonical : Carried]
Empty == [lower |-> Nothing, canonical |-> Nothing]

\* sent: what the sender's context carried; hint: the tenant-id metadata.
Messages == [transport : Transports, carrier : Carriers, sent : Carried,
             library : BOOLEAN, hint : Tenants \cup {Absent}]

\* HTTP names have one spelling, gRPC lower-cases them, a queue keeps the
\* producer's; only gRPC has the tenant-id metadata.
Foreign(m) ==
    /\ ~m.library
    /\ m.sent.trace \in ForeignTraces \cup {NoTrace}
    /\ \/ m.carrier = [Empty EXCEPT !.lower = m.sent] /\ m.transport # "http"
       \/ m.carrier = [Empty EXCEPT !.canonical = m.sent] /\ m.transport # "grpc"
    /\ m.hint # Absent => m.transport = "grpc"

ASSUME StrangersAssumption ==
    /\ Strangers \subseteq {m \in Messages : Foreign(m)}
    /\ Seeds \subseteq {c \in Contexts : c.carried.trace = NoTrace}
ASSUME HandlersAssumption == Verdicts \subseteq Tenants /\ Additions \subseteq Members

\* got: the message being handled; entered: the context handed to the
\* application; attested, label: the tenant the application last put in its
\* baggage and in its AttrBag; settled: it labelled inside the handler; span:
\* tenant.id on the server or consumer span.
Running == [at : Endpoints, got : Messages, entered : Contexts, ctx : Contexts,
            attested : Tenants \cup {Absent}, label : Tenants \cup {Absent},
            settled : BOOLEAN, span : Tenants \cup {Absent}]
Idle == [at |-> "idle"]

VARIABLES
    acts,    \* what each activity is doing
    msgs,    \* every message sent so far
    minted   \* how many traces the tracers minted

vars == <<acts, msgs, minted>>

TypeOK ==
    /\ acts \in [Activities -> Running \cup {Idle}]
    /\ msgs \subseteq Messages
    /\ minted \in 0 .. MaxTraces

Init ==
    /\ acts = [a \in Activities |-> Idle]
    /\ msgs = {}
    /\ minted = 0

-----------------------------------------------------------------------------
(***************************************************************************)
(* Package tracing.                                                        *)
(***************************************************************************)
Or(x, none, y) == IF x = none THEN y ELSE x

\* One propagator step: each of the two fields replaces the old one whole.
Over(new, old) ==
    [trace   |-> Or(new.trace, NoTrace, old.trace),
     baggage |-> Or(new.baggage, NoBaggage, old.baggage)]

StripTenantIDBaggage(c) == [c EXCEPT !.baggage.tenant = Absent]

RestoreTenantIDBaggage(c, tenant) ==
    IF tenant = Absent THEN c ELSE [c EXCEPT !.baggage.tenant = tenant]

\* Mutant: one of the two repairs is missing.
ExtractWithoutStrip(ctx, headers) ==
    [ctx EXCEPT !.carried =
        RestoreTenantIDBaggage(Over(headers, ctx.carried), ctx.carried.baggage.tenant)]

ExtractTraceContext(ctx, headers) ==
    [ctx EXCEPT !.carried = RestoreTenantIDBaggage(
        StripTenantIDBaggage(Over(headers, ctx.carried)), ctx.carried.baggage.tenant)]

\* The canonicalizing carrier writes the canonical keys, whatever is there.
InjectTraceContext(ctx, carrier) ==
    [carrier EXCEPT !.canonical = Over(ctx.carried, carrier.canonical)]

\* Mutant: the canonical keys stay beside the old lower-case ones.
InjectGRPCWithoutRemap(ctx, md) == InjectTraceContext(ctx, md)

InjectGRPCContext(ctx, md) ==
    LET injected == InjectTraceContext(ctx, md)
    IN  [lower |-> Over(injected.canonical, injected.lower), canonical |-> Nothing]

ExtractGRPCContext(ctx, md) ==
    ExtractTraceContext(ctx, Over(md.lower, md.canonical))

PrepareQueueHeaders(ctx, base) ==
    [base EXCEPT !.canonical =
        Over(InjectTraceContext(ctx, Empty).canonical, base.canonical)]

\* Both spellings land on one canonical key, in the order of a Go map.
Either(x, none, y) == IF x = none \/ y = none THEN {Or(x, none, y)} ELSE {x, y}

QueueReadings(carrier) ==
    [trace   : Either(carrier.lower.trace, NoTrace, carrier.canonical.trace),
     baggage : Either(carrier.lower.baggage, NoBaggage, carrier.canonical.baggage)]

ExtractQueueTraceContexts(ctx, carrier) ==
    {ExtractTraceContext(ctx, h) : h \in QueueReadings(carrier)}

\* Mutant: the sources in the opposite order.
SpanTenantBaggageLast(ctx) == Or(ctx.carried.baggage.tenant, Absent, ctx.bag)

\* AttrBagSpanProcessor.OnStart: baggage first, then the AttrBag over it.
SpanTenant(ctx) == Or(ctx.bag, Absent, ctx.carried.baggage.tenant)

IdentityFilteredSpanStartContext(ctx) ==
    [ctx EXCEPT !.bag = Absent, !.carried.baggage.tenant = Absent]

-----------------------------------------------------------------------------
(***************************************************************************)
(* Tracers.                                                                *)
(***************************************************************************)
\* A span without a parent opens a trace of its own.
InSpan(ctx) ==
    [ctx EXCEPT !.carried.trace = Or(@, NoTrace, minted + 1)]

CanStart(ctx) == ctx.carried.trace = NoTrace => minted < MaxTraces

Mint(ctx) == minted' = minted + (IF ctx.carried.trace = NoTrace THEN 1 ELSE 0)

-----------------------------------------------------------------------------
(***************************************************************************)
(* Receiving.  base is the context before the middleware: the application  *)
(* may have put a tenant in its baggage, and one in its AttrBag.           *)
(***************************************************************************)

\* Mutant: the flag is not consulted.
ExtractsIfTraced(e) == e.transport = "queue" \/ e.traced

\* Whether the entry point reads the trace headers at all.
Extracts(e) ==
    \/ e.transport = "queue"
    \/ e.traced /\ e.trusts

Incoming(e, base, extracted) == IF Extracts(e) THEN extracted ELSE {base}

Enter(a, e, m, base, ctx, span) ==
    acts' = [acts EXCEPT ![a] =
        [at |-> e, got |-> m, entered |-> ctx, ctx |-> ctx,
         attested |-> base.carried.baggage.tenant, label |-> base.bag,
         settled |-> FALSE, span |-> span]]

Receivable(a, e, m, transport) ==
    /\ acts[a] = Idle
    /\ e.transport = transport
    /\ m.transport = transport

\* WithTelemetry: the server span starts from a context without identity.
ReceiveHTTP(a, e, m, base) ==
    /\ Receivable(a, e, m, "http")
    /\ \E ctx \in Incoming(e, base, {ExtractTraceContext(base, m.carrier.canonical)}) :
        IF e.traced
        THEN /\ CanStart(ctx)
             /\ Mint(ctx)
             /\ Enter(a, e, m, base, InSpan(ctx),
                      SpanTenant(IdentityFilteredSpanStartContext(ctx)))
        ELSE /\ Enter(a, e, m, base, ctx, Absent)
             /\ UNCHANGED minted
    /\ UNCHANGED msgs

\* ResolveTenantIDFromGRPC: the tenant-id metadata goes to the AttrBag.
Labelled(base, hint) == [base EXCEPT !.bag = Or(hint, Absent, @)]

\* WithTelemetryInterceptor: no identity is filtered.
ReceiveGRPC(a, e, m, base) ==
    /\ Receivable(a, e, m, "grpc")
    /\ IF e.traced
       THEN LET labelled == Labelled(base, m.hint)
            IN  \E ctx \in Incoming(e, labelled, {ExtractGRPCContext(labelled, m.carrier)}) :
                    /\ CanStart(ctx)
                    /\ Mint(ctx)
                    /\ Enter(a, e, m, base, InSpan(ctx), SpanTenant(ctx))
       ELSE /\ Enter(a, e, m, base, base, Absent)
            /\ UNCHANGED minted
    /\ UNCHANGED msgs

\* Consume extracts whether or not telemetry is on.
Consume(a, e, m, base) ==
    /\ Receivable(a, e, m, "queue")
    /\ \E ctx \in Incoming(e, base, ExtractQueueTraceContexts(base, m.carrier)) :
        IF e.traced
        THEN /\ CanStart(ctx)
             /\ Mint(ctx)
             /\ Enter(a, e, m, base, InSpan(ctx), SpanTenant(ctx))
        ELSE /\ Enter(a, e, m, base, ctx, Absent)
             /\ UNCHANGED minted
    /\ UNCHANGED msgs

-----------------------------------------------------------------------------
(***************************************************************************)
(* Inside a handler.                                                       *)
(***************************************************************************)
IsRunning(a) == acts[a] # Idle

\* ContextWithSpanAttributes "after authentication resolves the real tenant":
\* the last writer of the AttrBag, and of nothing else.
LabelTenant(a, tenant) ==
    /\ IsRunning(a)
    /\ acts' = [acts EXCEPT ![a] = [@ EXCEPT !.ctx.bag = tenant, !.label = tenant,
                                             !.settled = TRUE]]
    /\ UNCHANGED <<msgs, minted>>

\* The application's own baggage, as its authentication leaves it.
AttestTenant(a, tenant) ==
    /\ IsRunning(a)
    /\ acts' = [acts EXCEPT ![a] = [@ EXCEPT !.ctx.carried.baggage.tenant = tenant,
                                             !.attested = tenant]]
    /\ UNCHANGED <<msgs, minted>>

AddMember(a, member) ==
    /\ IsRunning(a)
    /\ acts' = [acts EXCEPT ![a].ctx.carried.baggage.other = member]
    /\ UNCHANGED <<msgs, minted>>

-----------------------------------------------------------------------------
(***************************************************************************)
(* Sending.  held: the header maps the application may start from, a fresh *)
(* one or that of a message it forwards, retries or replays.               *)
(***************************************************************************)
Fresh == [carrier |-> Empty, hint |-> Absent]

Held(transport) ==
    {Fresh} \cup {[carrier |-> m.carrier, hint |-> m.hint] :
                    m \in {x \in msgs : x.transport = transport}}

Send(transport, ctx, carrier, hint) ==
    /\ Cardinality(msgs) < MaxMessages
    /\ msgs' = msgs \cup {[transport |-> transport, carrier |-> carrier,
                           sent |-> ctx.carried, library |-> TRUE, hint |-> hint]}

\* InjectHTTPContext.
CallHTTP(a, held) ==
    /\ IsRunning(a)
    /\ Send("http", acts[a].ctx, InjectTraceContext(acts[a].ctx, held.carrier), Absent)
    /\ UNCHANGED <<acts, minted>>

\* UnaryClientInterceptor merges into a copy of the outgoing metadata.
CallGRPC(a, held) ==
    /\ IsRunning(a)
    /\ Send("grpc", acts[a].ctx, InjectGRPCContext(acts[a].ctx, held.carrier), held.hint)
    /\ UNCHANGED <<acts, minted>>

\* Publisher.Produce: a producer span when there is a tracer, fresh headers.
Produce(a) ==
    /\ IsRunning(a)
    /\ LET ctx == acts[a].ctx IN
        IF acts[a].at.traced
        THEN /\ CanStart(ctx)
             /\ Mint(ctx)
             /\ Send("queue", InSpan(ctx), PrepareQueueHeaders(InSpan(ctx), Empty), Absent)
        ELSE /\ Send("queue", ctx, PrepareQueueHeaders(ctx, Empty), Absent)
             /\ UNCHANGED minted
    /\ UNCHANGED acts

\* PrepareQueueHeaders and InjectTraceHeadersIntoQueue, over given headers.
Publish(a, held) ==
    /\ IsRunning(a)
    /\ Send("queue", acts[a].ctx, PrepareQueueHeaders(acts[a].ctx, held.carrier), Absent)
    /\ UNCHANGED <<acts, minted>>

\* A caller that does not use this library.
Arrive(m) ==
    /\ Cardinality(msgs) < MaxMessages
    /\ msgs' = msgs \cup {m}
    /\ UNCHANGED <<acts, minted>>

-----------------------------------------------------------------------------
Receive ==
    \E a \in Activities, e \in Endpoints, m \in msgs, base \in Seeds :
        ReceiveHTTP(a, e, m, base) \/ ReceiveGRPC(a, e, m, base) \/ Consume(a, e, m, base)

Handle ==
    \E a \in Activities :
        \/ \E tenant \in Verdicts : LabelTenant(a, tenant) \/ AttestTenant(a, tenant)
        \/ \E member \in Additions : AddMember(a, member)

Call ==
    \E a \in Activities :
        \/ \E held \in Held("http") : CallHTTP(a, held)
        \/ \E held \in Held("grpc") : CallGRPC(a, held)
        \/ \E held \in Held("queue") : Publish(a, held)
        \/ Produce(a)

Next == Receive \/ Handle \/ Call \/ \E m \in Strangers : Arrive(m)

Spec == Init /\ [][Next]_vars

-----------------------------------------------------------------------------
(***************************************************************************)
(* Properties.                                                             *)
(***************************************************************************)
Live == {a \in Activities : acts[a] # Idle}

\* The tenant-id metadata of a call, where an interceptor reads it.
Claimed(act) ==
    IF act.at.transport = "grpc" /\ act.at.traced THEN act.got.hint ELSE Absent

LabelOf(act) == IF act.settled THEN act.label ELSE Or(Claimed(act), Absent, act.label)

\* The tenant in the baggage of a context is the one its own application put
\* there: a carrier neither sets it nor, by carrying other baggage, wipes it
\* (ExtractTraceContext, strip and restore).  Nor does baggage reach the
\* AttrBag: its tenant is the application's too, but for the "observability
\* hint" of ResolveTenantIDFromGRPC, which holds until the handler labels anew.
TenantIsAttested ==
    \A a \in Live : /\ acts[a].ctx.carried.baggage.tenant = acts[a].attested
                    /\ acts[a].ctx.bag = LabelOf(acts[a])

Mixed(carrier) ==
    \/ carrier.lower.trace # NoTrace /\ carrier.canonical.trace # NoTrace
    \/ carrier.lower.baggage # NoBaggage /\ carrier.canonical.baggage # NoBaggage

Joined(act) ==
    /\ act.got.sent.trace # NoTrace => act.entered.carried.trace = act.got.sent.trace
    /\ act.got.sent.baggage.other # Absent
        => act.entered.carried.baggage.other = act.got.sent.baggage.other

\* A library message, handled by an entry point that extracts, continues the
\* sender's trace and brings its baggage member, over every transport and
\* over headers the sender forwarded (InjectGRPCContext overrides what was in
\* the metadata) -- unless a queue message has a field in both spellings.
JoinsItsCaller ==
    \A a \in Live :
        /\ acts[a].got.library
        /\ Extracts(acts[a].at)
        /\ acts[a].at.transport = "queue" => ~Mixed(acts[a].got.carrier)
        => Joined(acts[a])

Offered(m) == {m.carrier.lower.trace, m.carrier.canonical.trace}

Opened(act) == act.entered.carried.trace \notin Offered(act.got) \cup {NoTrace}

\* An entry point that does not trust its callers opens a trace of its own
\* (TrustInboundTraceContext, fail-closed), and two activities that opened
\* theirs never share one, whatever is delivered late or twice.
UntrustedOpensItsOwn ==
    /\ \A a \in Live :
        acts[a].at.transport # "queue" /\ acts[a].at.traced /\ ~acts[a].at.trusts
            => Opened(acts[a])
    /\ \A a, b \in Live :
        a # b /\ Opened(acts[a]) /\ Opened(acts[b])
            => acts[a].entered.carried.trace # acts[b].entered.carried.trace

\* The built-in HTTP server span carries no tenant.  The consumer's and the
\* gRPC server's, and those the application starts now, carry the label of the
\* AttrBag when there is one, be it its own or the caller's claim, and the
\* attested tenant otherwise, whichever was written last.
SpansNameTheTenant ==
    \A a \in Live : acts[a].at.traced =>
        /\ acts[a].span = IF acts[a].at.transport = "http" THEN Absent
                          ELSE Or(acts[a].entered.bag, Absent,
                                  acts[a].entered.carried.baggage.tenant)
        /\ SpanTenant(acts[a].ctx) = Or(LabelOf(acts[a]), Absent, acts[a].attested)

\* What a library message says, in the spelling its receiver prefers, is what
\* its sender's context carried.
Faithful(m) ==
    LET headers == IF m.transport = "grpc" THEN m.carrier.lower ELSE m.carrier.canonical
    IN  /\ m.sent.trace # NoTrace => headers.trace = m.sent.trace
        /\ m.sent.baggage # NoBaggage => headers.baggage = m.sent.baggage

\* No context and no message names a trace that is yet to be minted.
Known == 0 .. minted \cup ForeignTraces

NoneFromTheFuture ==
    /\ \A m \in msgs : Offered(m) \subseteq Known
    /\ \A a \in Live : {acts[a].ctx.carried.trace, acts[a].entered.carried.trace} \subseteq Known
    /\ \A a \in Live : Offered(acts[a].got) \subseteq Known

\* The inductive invariant: the properties above, what messages say, and that
\* what an activity got was sent.
IInv ==
    /\ TypeOK
    /\ TenantIsAttested
    /\ JoinsItsCaller
    /\ UntrustedOpensItsOwn
    /\ SpansNameTheTenant
    /\ NoneFromTheFuture
    /\ \A m \in msgs : m.library => Faithful(m)
    /\ \A m \in msgs : m.transport # "grpc" => m.hint = Absent
    /\ \A a \in Live : acts[a].got \in msgs /\ acts[a].got.transport = acts[a].at.transport

\* "a consumer-kind span joined to the producer's trace via the inbound
\* headers" (messagingobs/doc.go), whatever headers the producer started from.
ConsumerJoinsProducer ==
    \A a \in Live :
        /\ acts[a].at.transport = "queue"
        /\ acts[a].at.traced
        /\ acts[a].got.library
        /\ acts[a].got.sent.trace # NoTrace
        => acts[a].entered.carried.trace = acts[a].got.sent.trace

=============================================================================
