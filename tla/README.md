# A verification project for lib-observability

TLA+ models of the parts of this Go library that keep state across calls, callbacks
and goroutines, TLC runs that check them on small instances, and theorems, checked
by TLAPS, that hold for every value of the constants.

Line numbers refer to the sources of the commit this directory was written against.

## 1. The system

lib-observability is linked into services. It has no process of its own: everything
below runs on the service's goroutines, or on goroutines the library starts there.

| Component (package) | State it keeps | Operations | Talks to |
|---|---|---|---|
| System-metrics collector (`telemetrycore`) | package variables under `metricsCollectorMu`: started flag, `sync.Once`, error, shutdown channel; one goroutine per start with a ticker | `EnsureMetricsCollector`, `StopMetricsCollector`, the goroutine's loop | started by HTTP and gRPC middleware alike; `runtime.SafeGo`; a metrics factory |
| HTTP middleware (`middleware`; its one gRPC interceptor is with the gRPC middleware) | per request: values in `c.Context()`, the finalizer's `httpResponseState`, the error-cause slot, the server span, the in-flight gauge; per app: the refusal mark | `WithHTTPLogging`, `WithTelemetry` and its variants, `EndTracingSpans`, `WithHTTPErrorHandling`, `LogRefusalsBeforeRouting` | Fiber's chain, `recover` and `ErrorHandler`; the handler; tracing; metrics |
| Panic recovery (`runtime`, `internal/panicobs`, `log/adapt.go`, `log/guard*.go`) | production-mode flag, panic-metrics instance, shared counter, error reporter | `SafeGo*`, `RecoverWithPolicyAndContext`, `InitPanicMetrics`, `SetProductionMode`, `log.Adapt`, `log.Guard` | foreign loggers, the stdlib logger, a recorder, a reporter |
| Metrics factory (`metrics`) | six `sync.Map` caches of instruments | `Counter`, `Gauge`, `Histogram` and float64 forms, builders, `RecordHistogram` | an OpenTelemetry meter |
| Telemetry lifecycle (`tracing/otel.go`) | three exporters, three providers, shutdown handlers; OpenTelemetry's process-wide globals | `NewTelemetry`, `ApplyGlobals`, `ForceFlush`, `ShutdownTelemetry*` | the OpenTelemetry SDK |
| zap logger (`zap`) | an `AtomicLevel` shared by derived loggers; the goroutine of a `Sync` | `Log`, `With`, `WithGroup`, `Sync`, `SetLevel` | the local output; OpenTelemetry's log bridge |
| gRPC middleware (`grpcmiddleware`, `WithGrpcLogging` of `middleware`) | per call: a context derived on the way in, the span it carries, the request id | `WithTelemetryInterceptor`, `EndTracingSpansInterceptor`, `WithGrpcLogging`, `UnaryClientInterceptor` (unary calls only) | grpc-go's chain, tracing, `telemetrycore` |
| Trace propagation (`tracing/otel.go`, `tracing/processor.go`) | trace, baggage and AttrBag of a context; headers and metadata on the way | `Inject*`, `Extract*`, `PrepareQueueHeaders`, the span processor | the middlewares of both transports, `messagingobs`, OpenTelemetry's propagators |
| Instrumentation set-up (`sqlobs`, `redisobs`, `messagingobs`) | pools and clients being instrumented | `Setup`, `Instrument`, cleanups, `FinishFunc` | otelsql, redisotel |
| Context tracking (`observability.go`, `authenticated_tenant.go`) | copy-on-write values of a context; the cached default factory | `ContextWith*`, `NewTrackingFromContext` | everything above |
| `net/http` wrappers (`httpobs`) | per request: a clone without what a span may not carry, the original in the context | `NewHandler`, `NewTransport`, `NewClient` | otelhttp |
| Assertions (`assert`) | none; a shared recorder | `That`, `NoError`, ..., `Halt` | log, metrics, span, the production switch |
| Span helpers, redaction, sanitizing, constants, predefined metrics | none | pure conversions | - |

How they interact: the pipeline (2) reports a request through spans and metrics made
by (4) and (5), as does the gRPC middleware (6); trace and tenant come in and go out through
(7), over HTTP, gRPC and queues; both transports start the collector (1), whose goroutine is started
and guarded by (3); a foreign logger used anywhere is behind the guards of (3). The zap logger
records into whatever logger provider (5) made global, and what it hands to a provider is
exported or flushed with the rest. Assertions fail inside goroutines of (3). A context without a tracer or
a factory falls back to the providers (5) made global.

### What is hard here, and what makes each part correct

* **Collector.** Start, failed start, stop and restart in any order, with a `sync.Once`
  that must be replaced and not reused, and a stopped goroutine that still drains while
  the next one runs. Correct: Stop reaches every collector that was not told to stop, no
  channel is closed twice, a failed or stopped collector can be started again, and a
  collector told to stop ends although `select` may prefer ticks.
* **Pipeline.** Logging, telemetry and the finalizer look at the outcome of one request at
  three moments, on two ways up (error and panic), through a context the handler may
  have replaced. Correct: they report one status, which is the one the client got; each
  request is logged, counted and traced once; the gauge is given back; the decided
  response survives rogue middleware; an error nobody can print never takes the process
  down.
* **Panic recovery.** Code that runs while a panic is recovered calls loggers, recorders
  and reporters that may panic themselves, and takes the stdlib logger's lock; the
  production switch is read more than once. Correct: KeepRunning keeps running, in
  production mode neither log nor reporter is given details, a policy crash is reported first, and a report ends.
* **Metrics factory.** Racing load/create/load-or-store; keys that must tell apart what
  differs; float64 values at the edge of int64. Correct: one instrument per metric, made for that metric, and only sound samples on it.
* **Telemetry lifecycle.** A failure at any step of the construction, ownership that moves
  from the construction to the providers half-way, overlapping shutdowns. Correct: every
  exporter is closed once by its owner, none leaks, none is skipped, and no insecure
  connection is made from a strict environment without leave. A flush asks every provider,
  whatever one of them answers and whoever is stopping them.
* **zap logger.** Two sinks read a level that moves meanwhile, and derived loggers rewrap one of them;
  `Sync` may be left by its caller while its goroutine is inside the sink. Correct: one level rules both
  sinks, and no goroutine is left behind.
* **gRPC pipeline.** Interceptors of the library and of the application nest in any order and
  number, over derived contexts; nothing in grpc-go recovers a panic. Correct: what span and
  histogram report is the code the client is sent, a span ends after its code is on it,
  no error value takes the process down, and all interceptors use one request id.
* **Trace propagation.** Callers that may not be trusted, messages that come late, twice or
  never, headers that are forwarded with the spelling they had, two sources for
  the tenant. Correct: no carrier sets or wipes a tenant, a trusted caller's trace is
  continued, an untrusted one's is not, and every span names the tenant it should.
* **Pool set-up.** A failure at any step of replacing a pool or hooking a client, retries of what
  half succeeded, and a cleanup that several goroutines call at once. Correct: the application keeps
  one open pool that can dial; a client has both hooks of an attempt or neither; a cleanup that
  returned has released, once; what a failed set-up registered is taken back.
* **Context tracking.** Goroutines derive contexts from one parent, whose attributes are a slice with
  room to spare; four global providers are set one by one while fallbacks are read and a default factory
  is made once and kept. Correct: a context is a value that nobody changes any more, and when one
  instance is global whatever was got from the fallbacks leads to it, however early it was asked for.
* **net/http.** What no span may carry is taken out above otelhttp and put back below it, through a
  context that requests made on the way inherit. Correct: nothing exported carries it, nothing
  sent lacks it, and the server span is named even when the handler panics.
* **Assertions.** One failure is told to a logger, a recorder and a span in turn, each of which
  may panic, while the switch that forbids stack traces is turned. Correct: all are told alike.

The full list of hazards, each at its line with the properties about it, is in
`PROJECT.json`.

## 2. The modules

| Abstract | Detailed | Instance | Proofs |
|---|---|---|---|
| `CollectorSlot` | `MetricsCollector`, composed in `ServiceProcess` | `MCMetricsCollector` | `MetricsCollectorProofs` |
| `ImmutableContexts` | `ContextValues`, extended by `Tracking`; in `ServiceProcess` | `MCMetricsCollector` | `MetricsCollectorProofs` |
| - | `NetHttp`, in `ServiceProcess` | `MCMetricsCollector` | `MetricsCollectorProofs` |
| `RequestSignals` | `HttpPipeline` | `MCHttpPipeline` | `HttpPipelineProofs` |
| - | `PanicRecovery`, extended by `Assertions` | `MCPanicRecovery` | `PanicRecoveryProofs` |
| `InstrumentRegistry` | `MetricsFactory`; in `ServiceProcess` | `MCMetricsCollector` | `MetricsFactoryProofs` |
| `ExporterLease` | `TelemetryLifecycle`, extended by `Delivery`, extended by `ZapLogger` | `MCTelemetryLifecycle` | `TelemetryLifecycleProofs` |
| - | `TracePropagation` | `MCTracePropagation` | `TracePropagationProofs` |
| - | `GrpcPipeline` | `MCGrpcPipeline` | `GrpcPipelineProofs` |
| `ExporterLease` | `PoolSetup` | `MCPoolSetup` | `PoolSetupProofs` |

Operators whose comment starts with "Mutant:" are not part of a model: each is a
plausible bug in the definition after it, kept to show that a property notices it.

### CollectorSlot and MetricsCollector (`telemetrycore/metrics_collector.go`)

The mutex is held from the first read to the last write of `EnsureMetricsCollector` and
`StopMetricsCollector`, so each is one action; the branches of Ensure (nil or started,
no factory, start) are its disjuncts. `started`, `onceDone`, `initErr` and `shutdown`
are the package variables. Goroutine number n, its channel and its ticker share the
number n: `closed` holds the channels that were closed, `pc`, `ticker` and `tick` the
goroutines' states. A reading (CPU, memory) is a step and may panic; `SafeGo` then
ends the goroutine. `CollectorSlot` is the contract: one slot, and collectors on their
way out.

### ImmutableContexts, ContextValues and Tracking (`observability.go`, `ApplyGlobals`)

A `ContextValue` is an object on a heap and its AttrBag a slice: a length over an array that may have room
for more, so that two appends to one slice would write the same element. `Clone` is
`cloneContextValues`, `SetHeader` to `Replace` the setters' writes, `Publish` the `context.WithValue` that makes the
object known; between any two of a goroutine's steps others run. `Elements` reads what a
context holds now, and the refinement of `ImmutableContexts` says that this never changes. `Tracking` adds
the four assignments of `ApplyGlobals`, one step each, and `NewTracking`, which asks the globals for what
the context lacks. A provider asked for before one is set is OpenTelemetry's stand-in, which hands on to the
first one ever set (external): that is why an early default factory is not lost.

### NetHttp (`httpobs/httpobs.go`)

One inbound request through `NewHandler` (`Arrive`, `Blind`, `StartSpan`, `Restore`, `Route`, `Handled`, `NameRoute`,
`EndSpan`) and the calls its handler makes through `NewTransport`, as a stack of round trips, since the transport
below may be another wrapped one or one that makes a request of its own. otelhttp
(external) records what it is shown. A URL is where it leads and the parts no span may carry.

### ServiceProcess

One service process: the collector, the contexts, the net/http side and the metrics factory of one program, with what
it uses (`Services`) chosen by Init. They share no variable but the process, which a panic that nothing recovers ends
for all of them. `MetricsCollectorProofs` shows that what is proved of `MetricsCollector` and of `MetricsFactory` alone
holds inside it (`CollectorInService`, `FactoryInService`).

### RequestSignals and HttpPipeline (`middleware/*.go`)

One request through a chain of middleware frames. `Enter*` actions are what a
middleware does before `c.Next()`, `Leave*` what it does after it returned, `Unwind*` its
deferred calls while a panic passes. `ctx` is `c.Context()`, `final` the finalizer's
`httpResponseState`, `cause` the slot of `RecordErrorCause`, `carried` the error on its way
up or the panic value. Errors are classes that differ in what the code asks of them: is
there a `*fiber.Error` in the tree (`Code`), can it be printed (`IsSafeToStringify`), is it a
typed nil (`Normalize`). An application's middleware (`AppAnswers`) returns what it got, an error of its own, or nil after it
answered the error itself; `own` keeps which of these it did. Fiber, the route handler, an application middleware and the
`ErrorHandler` are the environment and may return, panic, or fail in any way their types
allow. Requests share nothing but commutative counters, so one stands for all.
`RequestSignals` says what telemetry owes to a request: taken in once, reported once.

### PanicRecovery (`runtime/*.go`, `internal/panicobs`, `log/adapt.go`, `log/guard*.go`)

Goroutines with explicit call stacks, because reports nest: a frame is the callback,
the deferred recovery, a `reportLoggerPanic`, or a `log.Print` redirected into an adapted
logger. `Panics` unwinds to the innermost frame that recovers. `outMu` is the stdlib
logger's output lock. The setup (policy, kinds of logger, recorder, reporter, stdlib
writer) is chosen by Init; production mode and panic metrics are switched at any time.

`Assertions` puts `Asserter.fail` on those stacks: `DecideStack` reads the production switch once, `LogFailure`, `LogStack`,
`CountFailure` and `TraceFailure` tell the sinks, `ReturnFailure` goes back to a callback that may
halt. A sink that panics sends the panic up the same stack.

### InstrumentRegistry and MetricsFactory (`metrics/metrics.go`, `builders.go`, `recorder.go`)

`Load`, `Create` and `Store` are the three steps of every `getOrCreate*`; between any two of
them other callers run. The six maps are one function keyed by kind, name and
boundaries. `Spelled` says how a name reads, which is how a histogram key can be
ambiguous. A value is a number of halves, or not finite, so that `math.Round` and the
conversion to int64 are modelled by what they do; `MaxInt64` is a constant.

### ExporterLease and TelemetryLifecycle (`tracing/otel.go`)

One `Telemetry`: `Configure` is the decision of `newTelemetry` over the whole configuration;
`NewExporter`, `ExporterFails`, `ResourceFails`, `NewProviders`, `NewFactory`, `RollBackStep` and `RolledBack` are
`newExporters`, `buildTelemetry` and `shutdownAll`; `ShutdownCalled` to `ShutdownReturns` are the
loop of `buildShutdownHandlers`, in any number of goroutines at once. A provider is the
SDK's (external): its first `Shutdown` stops it and it shuts down the exporter it owns, in
its own time; a later one only returns. The tracer provider is the exception: a first `Shutdown` whose context is over
already marks it shut and touches nothing below it (`ProviderAbandons`), so its exporter stays open for good.
`NewTelemetry`'s rollback and `ShutdownTelemetry` use a background context and cannot run into that. The four assignments of `ApplyGlobals` are one
step: with a single instance nobody can tell. `ExporterLease` is the contract: each
exporter has one holder at a time, and is closed once by that holder.

`Delivery` adds what providers hold in memory until it is exported, of which only the age is kept: `BatchExported` is
a provider's own batch, `FlushCalled`, `ProviderFlushes` and `FlushReturns` are `ForceFlush`, which asks the three providers in turn. One
flush at a time: flushes only read, and two of them ask for more.

`ZapLogger` (`zap/*.go`) runs a process around that Telemetry. A `Log` call is `LogCalled`, `CheckLocal`, `CheckBridge`, `Write` and
`LogReturns`: each core reads the level for itself, the bridge behind `levelGate`. `SetLevel` and `Applied` (`ApplyGlobals`) may come
between any two of them. Entries are debug entries, the only ones a level decides about. `SyncCalled`,
`SinkSyncs`, `SinkSynced`, `HelperSends` and `SyncReturns` are `Sync` and its goroutine; the sink may answer late or never,
or panic, which leaves `zapcore.Lock` locked (`kept`): whoever needs it next waits for good. That
goroutine hands a panic to the report of `PanicRecovery`, which is assumed to return here.

### TracePropagation (`tracing/otel.go`, `tracing/processor.go` and the entry points)

Activities are requests and deliveries being handled by services that use the library.
`ReceiveHTTP`, `ReceiveGRPC` and `Consume` are what the three entry points do before the
handler runs: which context they start from, whether they extract, the span they
start and what it says of the tenant. `LabelTenant` is `ContextWithSpanAttributes`, which writes the AttrBag alone;
`AttestTenant` and `AddMember` are the application's own baggage, so that AttrBag and baggage may name different tenants at any time;
`CallHTTP`, `CallGRPC`, `Produce` and `Publish` inject. `Arrive` is a caller that does not use
the library and sends any headers. `msgs` never shrinks: a message may be received at any
time and any number of times. A carrier is a pair, by the spelling of its keys, since
that is what HTTP, gRPC and queues disagree about; where `ExtractQueueTraceContext`
ranges over a Go map that holds both spellings, either may win (`Either`). `sent` is
history: what the sender's context carried. A trace id stands for the whole span
context; parents, sampling flags and trace state travel with it.

### GrpcPipeline (`grpcmiddleware/telemetry.go`, `WithGrpcLogging` of `middleware/logging.go`)

One unary call. `Enter*` is what an interceptor does before it calls the next one, `Leave*`
what it does with the error that comes back, `Unwind*` its deferred calls. Contexts are
derived and never written to, so what frame i finds is what the frames outside it put
there: `Outer` and `Current` read it off the chain. An error is a status by its code, or
plain, a bare context error, or one whose `Error()` panics. A request id has a source and a form,
because the two packages look for it in the same places but clean it differently (`ResolveGRPCRequestID`,
`ResolveAndNormalize`). `Send` is grpc-go's server,
which asks an error for its status on a goroutine nobody recovers (`Crash`).

### PoolSetup (`sqlobs/sqlobs.go`, `redisobs/redisobs.go` and the `setup.go` of each)

An attempt is one call of `Setup`, `SetupOpen` or `Instrument`. Those of one pool or client come one
after the other, those of different ones in any interleaving. `InstrumentDB`, `CloseOriginal`, `RegisterStats` and
`HandBack` are the steps of sqlobs; `InstrumentMetrics` and `InstrumentTracing` those of redisobs,
which work on the client in place. otelsql, redisotel and the meter are external: opening a pool may
fail, so may registering gauges or taking them back; redisotel starts its `Unwatch` goroutine
before it registers, refuses a type it does not know, and registers again for each node that
joins a cluster; a refusal of the meter to take one back is otel's error handler's business (`Unwatch`). `CleanupCalled`, `Releases` and `OnceOver` are `onceCleanup`: the `sync.Once` and those
who wait for it. The contract is `ExporterLease` again, with attempts for exporters: until it is handed to the
caller inside a `CleanupFunc` a registration belongs to the set-up, and it is released once.

## 3. The runs

| Run | Shows |
|---|---|
| `MetricsCollector` | a service: whatever happened, a collector can be started (`Restartable`); the slot contract (`ImplementsSlot`); a stopped collector ends (`StoppedCollectorEnds`); contexts are values (`ContextsAreImmutable`); a lone Telemetry serves every fallback (`LoneInstanceServesAll`); `ExportedIsClean` and `RequestsArriveWhole` of net/http; `SamplesAreSound` of the metrics factory, and the registry contract, which holds that one metric has one instrument (`ImplementsRegistry`) |
| `HttpPipeline` | in the documented order `SignalsAgree` and `ClientSeesWhatWasReported`; in any order `LoggedAndCountedOnce`, `CauseIsLogged`, `RogueErrorIsDiscarded`, `MappedStatusSurvives`, `ReturnedErrorNeverCrashes`; the contract of `RequestSignals` |
| `PanicRecovery` | `KeepRunningSurvives`, `RedactionHolds`, `TraceSurvivesFallback`, `PolicyCrashIsReported`; a failed assertion is told to all sinks alike (`AssertionToldAlike`); a panicking goroutine's report comes to an end (`ReportEnds`) |
| `GrpcPipeline` | `ReportedIsSent`, `ReturnedErrorNeverCrashes`, `OneRequestID` |
| `TelemetryLifecycle` | `ShutdownDrains`; the lease contract, which holds that no exporter is closed twice; `FlushedIsExported`; one level for both sinks (`SinksAgree`); the goroutine of a Sync ends once its sink answered (`SyncEnds`) |
| `PoolSetup` | `OnePoolThatDials`, `FailureLeavesNoHook`, `CleanupMeansReleased`; `ReleasesEnd`; the lease contract, which holds that nothing is released twice |
| `TracePropagation` | `TenantIsAttested`, `JoinsItsCaller`, `UntrustedOpensItsOwn`, `SpansNameTheTenant` |
| `NetHttpNestedCall`, `HttpPipelineRecoverAbove`, `HttpPipelineRogueError`, `PanicRecoveryRedirect`, `TracePropagationReplay` | a counterexample each: see the findings |

Properties that the modules state without a run of their own (`AtMostOneActive`, `StopIsSafe`,
`OneInstrumentEach`, `NeverAliased`, `FailureLeaksNothing`, `ShutdownReachesAll`, `ShutAtMostOnce`, `StrictIsSecure`,
`ActiveIsBalanced`, `SpanEndsFinalized` of `HttpPipeline` and of `GrpcPipeline`) are proved, as are the inductive
invariants `IInv` they follow from: a run would say less.

### Bounds, and why they are enough

* `MetricsCollector`: three starts, so that two stopped goroutines can drain while a third
  is in the slot; three telemetries: complete, without factory, without provider. The services of `MCServices`
  do not cross what shares no state. Three contexts (`MaxContexts`): the request's and two derived from it, at once or one
  from the other, over a bag with one spare element (`MaxSpare`), which is what two appends can collide in.
  Six http.Requests (`MaxRequests`): a call, the one made below it, and the clones each wrapper makes.
* `HttpPipeline`: all orders of logging, telemetry, `EndTracingSpans`, finalizer and
  recover; the documented orders with an application middleware and recover inside or
  outside; chains with a rogue middleware between observer and finalizer; every
  kind of request and of `ErrorHandler`. No chain of the library has more kinds of frame,
  and a kind occurs once, as its documentation demands (`SetupAssumption`).
* `PanicRecovery`: two goroutines (the lock and the switches are all they share), stacks
  of 5 frames: one report inside another inside the recovery or the assertion of a callback. Nothing goes deeper as long as
  counting a panic neither panics nor fails into a logger that may: a goroutine prints once at a time, as the output lock is
  not reentrant, and the theorems show that 5 frames are enough (`MaxStack >= 5`). Where the recorder fails into a
  panicking logger reports nest without end, and the bound plays the Go runtime's stack limit. Assertions are made
  in one goroutine (`MCApplications`), through each kind of logger and recorder; the other turns nothing but the switches they read.
* `MetricsFactory`, in the run `MetricsCollector`: two callers and two instruments are a race and its loser; one name,
  boundary lists that are empty, sorted, unsorted, duplicated and NaN; `MaxInt64 = 3` with
  values on, next to and beyond both ends.
* `TelemetryLifecycle`: every strict configuration (the others export as one of these does; the
  policy that tells them apart is proved), every failure, and two goroutines
  that call Shutdown any number of times. Beside one of them or none, the jobs of `MCJobs`: records and flushes;
  two writers, one that logs and one that syncs, or both syncing.
* `TracePropagation`: two activities (a caller and a callee, or two receivers of one
  message), seven entry points (every transport, trusting or not, with telemetry or
  without), six strangers, two traces minted and one foreign, three tenants (one that applications seed in baggage, AttrBag or
  neither, one that strangers claim, and one that authentication in a handler resolves to, `Verdicts`), two members
  (a handler adds one, `Additions`; strangers send the other),
  two messages: a message and what is sent on receiving it. `TracePropagationReplay` allows three.
* `GrpcPipeline`: every chain of up to three interceptors of eight kinds, and of four without
  one that is off: two of the library's with one of the application's outside,
  between or inside, and one more. Ids in no place, in one, and in two or three that compete, of every form.
* `PoolSetup`: two attempts, so that one can fail or be replaced by the next; a database, a client, a
  cluster and a client of an unknown type, since what differs between attempts is the
  kind of their line; three goroutines are the one that releases, one that waits and one that comes late;
  two registrations are a node and one that joins.

`CHECK_DEADLOCK FALSE` stands in a configuration only where the modelled activity ends: a
request is served, a process or its goroutines are over, a construction failed,
the attempts are used up.

### Fairness

* `MetricsCollector`: weak fairness of each reading (a goroutine that can run does run),
  strong fairness of the shutdown branch: Go's `select` picks uniformly among ready
  cases, so a branch that is ready again and again is taken.
* `PanicRecovery`: weak fairness of each goroutine; a goroutine that waits for the output
  lock is not enabled, so nothing is assumed about being granted the lock.
* `TelemetryLifecycle`: weak fairness of the construction and of a Shutdown call (both are
  straight-line code) and of the SDK shutting down a provider it began to stop: its
  exporter works under a timeout. A tracer provider that was abandoned is not assumed to shut anything.
* `PoolSetup`: weak fairness of a set-up that was begun, of a release and of those who wait for it
  (straight-line code under a `sync.Once`), and of the watcher, which waits for its channel and nothing else; not of the
  meter, which may refuse what either of them asks.
* `Assertions`: as `PanicRecovery`, whose goroutines make them. `ServiceProcess`: as `MetricsCollector`, and nothing more.
* `ZapLogger`: weak fairness of the construction, the draining of providers and a begun Shutdown, as above, and of a Sync's
  own code on both goroutines. None of the sink: it may never answer, and then the goroutine does stay, as does one that waits for
  the lock of a sink that panicked; `SyncEnds` speaks of those whose sink answered or panicked.
* Nobody is assumed to call Ensure, Stop, Shutdown, a set-up, a cleanup, or anything else.

## 4. The proofs

Each `*Proofs` module proves `Spec => []IInv` by the usual three facts (it holds initially,
each action keeps it, it implies the property) and derives the rest from it.

* `MetricsCollectorProofs`, for any number of collectors and telemetries: every collector but
  the one in the slot has had its channel closed (`IInv`, the reason `AtMostOneActive` is
  inductive at all: the bare property says nothing of the channel numbers to come).
  From it `AtMostOneActive`, `StopIsSafe`, `Restartable`, and that every step is a step of
  `CollectorSlot` (`ImplementsSlot`'s safety part). The same holds inside any service (`CollectorInService`).
  For any number of instances, `LoneInstanceServes`: a stand-in leads to the first provider set, which is the lone instance's.
  For transports nested to any depth, `SpansAreClean` and `RequestsAreWhole`: by induction on the stack of round trips, each
  request in flight is as clean as the layer it is at demands, and what it hides is in the context it carries.
  For any number of contexts, goroutines and updates, `ContextsKeepTheirValues`: the operations that share one
  heap are derivations of immutable values (`ContextsAreImmutable`). It follows from `HeapInv`: an address is written to by
  the goroutine that allocated it only, and no longer once it is published; a bag is nil or lies in the array at its own address, with
  one entry for a key; the object of an operation under way says its parent's value, updated as far as the operation
  is (`Stage`). Which entry the last writer of a key made is part of the invariant, as it takes an induction over data to compute it.
* `HttpPipelineProofs`, for every chain, request and `ErrorHandler` that `SetupAssumption` allows:
  `IInv` says what gauge, span and histogram are before, inside and after the telemetry
  frame. From it `TypeOK`, `ActiveIsBalanced`, `SpanEndsFinalized` and the refinement of `RequestSignals`.
  `ReportInv` adds what the finalizer decided, which error is on its way up, and which lines, durations and causes stand,
  each by the frames that are still open. From it the seven properties about what a client is told and what is reported of it
  (`SignalsAgree`, `ClientSeesWhatWasReported`, `LoggedAndCountedOnce`, `CauseIsLogged`, `RogueErrorIsDiscarded`,
  `MappedStatusSurvives`, `ReturnedErrorNeverCrashes`).
* `MetricsFactoryProofs`, for any number of callers, metrics and instruments and any width of
  integer: the cache only grows, holds under a key an instrument made for that
  metric, and every sample went to what the cache holds. All under `ColonFree` (no name
  contains a colon; `FactoryInService` carries the samples over to any service), without which `KeysAreUnique` fails: the histogram named
  `x:1,2` has the key of the histogram `x` with boundaries 1 and 2.
* `TelemetryLifecycleProofs`, for any number of callers and any set of configurations: each open
  exporter has exactly one owner, which alone may shut it down, the construction or its
  provider, and a rollback's list is exactly what is open. From it `FailureLeaksNothing`, `ShutdownReachesAll`,
  `ShutAtMostOnce`, `StrictIsSecure` and the refinement of `ExporterLease`. Beside records, flushes and
  writers (`JobInvariant`): what is due is with a provider that is still to be asked, or that answered an error (`DueIsAsked`,
  hence `FlushDelivers`); and a Log call whose level and provider did not move wrote to the sinks its level allows (`Settled`, hence `OneLevel`).
* `PanicRecoveryProofs`, for any number of goroutines, any wiring and any stack bound:
  stacks are a callback or a recovery at the bottom with reports above it, so nothing but
  the recovery tells a sink about a panic, and it does so after the panic; a detail
  that reached log or reporter implies that production mode was off at some moment since
  (`RedactionHolds`, for log line and error reporter: the span is given the details in any mode). Both hold when callbacks assert as well (`AssertingInvariant`, `NoDetailsInProduction`).
  `TellInv` says where each kind of frame may stand, that the output lock bounds the nesting to five frames (unless counting a panic panics), that a panic is pending
  only at the innermost report, and that recovery and assertion have told the sinks before the place they are at. From it
  `PolicyCrashIsReported`, `AssertionToldAlike` and, with `MaxStack >= 5`, `KeepRunningSurvives` and `TraceSurvivesFallback`:
  on a shorter stack the model's overflow would end a process that Go's far larger stack does not end.
* `TracePropagationProofs`, for any number of activities, endpoints, messages and traces:
  a library message says, in the spelling its receiver prefers, what its sender's context carried
  (`Faithful`), and nobody holds a trace that is not minted yet
  (`NoneFromTheFuture`), which is why a trace that was opened is nobody else's. Baggage and AttrBag name what the application
  wrote to each last, the AttrBag of a gRPC call the metadata's hint until then (`LabelOf`). From it all four invariants of the run.
* `GrpcPipelineProofs`, for chains of any length and any set of statuses: the frames
  left so far agree with the error on its way up (`ReportsTheError`), an unprintable error
  has met no interceptor of the package (`UnprintableIsFresh`), and the request id in the
  context is the one the frames outside chose, or what a logging frame made of it (`HeaderIsChosen`). From it all three
  invariants of the run, and `SpanEndsFinalized`.
* `PoolSetupProofs`, for any pools, clients, callers and number of attempts: a line is worked on by one
  attempt at most (`SetupsInStep`), one caller runs a release while the rest wait or know its result
  (`CallsInStep`), and the open pools before, in and after a swap are just these
  (`PoolsInStep`). From it the three invariants of the run and the refinement of `ExporterLease`.

Assumptions: `CollectorAssumption`, `SetupAssumption`, `FactoryAssumption`, `LifecycleAssumption`,
`PanicAssumption`, `NoneAssumption`, `BoundsAssumption`, `ValuesAssumption`, `EndpointsAssumption`, `StrangersAssumption`,
`HandlersAssumption`,
`ChainsAssumption`, `RequestsAssumption`, `StatusesAssumption`, `LinesAssumption`, `SetupBoundsAssumption`,
`ContextAssumption`, `InstancesAssumption`, `NetHttpAssumption`, `ServicesAssumption`, `AssertionsAssumption` and `ZapAssumption` are about the constants, and TLC evaluates them in the runs. `ColonFree` and
`MaxStack >= 5` are the only further hypotheses, and are written in the theorems that need them.

Only model-checked: liveness (`StoppedCollectorEnds`, `ReportEnds`, `ShutdownDrains`, `ReleasesEnd`, `SyncEnds`, and the
fairness part of `CollectorSlot`), which needs ENABLED and which the provers do not cover. Every invariant, action
property and refinement that a passing run checks is stated by a theorem. The counterexamples of the five other runs are TLC's.

## 5. Findings

Five places where the code does something other than its comments say; each is a run
that ends in a counterexample, with the quotation in `PROJECT.json`.

1. `NetHttpNestedCall`: a transport below `NewTransport` that makes a request of its own, in the context of the request
   it carries, has it sent to that other request's URL: `restoredURLTransport` finds the outer stash there.
2. `HttpPipelineRecoverAbove`: recover above the finalizer is not "safe on either side": an unprintable
   panic value reaches Fiber's default `ErrorHandler`, which panics outside every recover.
3. `HttpPipelineRogueError`: when a middleware under the finalizer turns the response the finalizer rendered into an error of its
   own, "Fiber would invoke it a second time" (`WithHTTPErrorHandling`); the observer above the finalizer discards that error and
   restores the response, so the `ErrorHandler` runs once (`RogueErrorIsDiscarded` holds of the same case).
4. `PanicRecoveryRedirect`: the fallback line of `reportLoggerPanic`, when the stdlib logger is redirected
   into the panicking logger, waits for the output lock its own goroutine holds.
5. `TracePropagationReplay`: a message published over headers that hold a lower-case trace key has
   both spellings; which one its consumer reads is up to the order of a Go map.

Met on the way, without a run:

* `finishOnPanic` reports every panic as a 500; a panic that carries a `*fiber.Error` is rendered with
  that error's code (`ClientSeesWhatWasReported` makes the exception).
* A middleware above the finalizer, or without one, that answers a handler's error itself and returns nil leaves an access line that
  names no cause (`CauseIsLogged` makes the exception: `own.silent`).
* The interceptors take a bare context error for `Unknown`, where grpc-go's server converts it
  (`ReportedIsSent` makes the exception).
* `WithGrpcLogging` and `WithTelemetryInterceptor` share no helper for request ids, and theirs differ: the first cuts an id from
  metadata or context to 128 bytes of printable ASCII (`middleware/helpers.go:187`), the second does not. With the
  telemetry interceptor outside, a call with a longer id has one id on its span and another in its
  log entry (`OneRequestID` makes the exception).
* A name with a colon makes a histogram's key ambiguous (`ColonFree`).
* `ContextWithSpanAttributes` keeps one value for a key; `ReplaceAttributes` keeps what it is given, duplicates
  included (`ContextAssumption` excludes them).
* A log entry made before `ApplyGlobals` goes to the local output only: the bridge asks for the global provider
  each time, and there is none.
* Production mode keeps a panic's details from log and reporter only: the span gets the value, cleaned of secrets by
  their names, and the stack (`runtime/tracing.go:88`, `log/adapt.go:111` says so; the comment of
  `panicobs.SetProductionMode`, "out of reports", is wider).
* A context that is over when `ShutdownTelemetryWithContext` reaches the tracer provider leaves the span exporter open for good:
  the SDK counts that call as its Shutdown, and every later one, with whatever context, returns nil (`ShutdownDrains` makes the exception).
  The other two exporters are closed all the same.
* The cleanup of `redisobs.Setup` answers nil whatever happens: redisotel takes registrations back on a goroutine of its
  own, which tells a refusal of the meter to otel's error handler alone, where a SQL pool's cleanup returns it (`ReleasesEnd` makes
  both exceptions).
* The tenant-id metadata of a gRPC call reaches the AttrBag, and the AttrBag wins over baggage: until the handler calls
  `ContextWithSpanAttributes`, spans name the caller's claim even where the baggage holds an authenticated tenant. The library
  documents the hint as a known gap (`ResolveTenantIDFromGRPC`).
* An assertion reports failure "without panicking" (`assert/doc.go`) as long as logger and recorder do not panic: nothing
  in `fail` recovers them, and the panic goes up to whoever guards the goroutine.

## 6. Not modelled, and the plan

Left out for good: pure conversions (attribute flattening, obfuscation, sanitizing, the fields of the zap logger,
redaction's word list, the predicates of `assert`), the zap encoder, constants, predefined metrics, release scripts. They keep no
state across calls, and no property of a string matcher is hard to reach by a test.

Left out of modelled parts: attributes and their values; problem bodies of the HTTP
middleware; the duration histogram of the gRPC client interceptor; span names, metrics and the extraction that
`httpobs.NewHandler` leaves to otelhttp; finish functions of `messagingobs`; the rewriting of the endpoint
environment variables, resources, sampling and the runtime metrics of the lifecycle;
the options, statements and attributes that the set-ups pass to otelsql and redisotel.

What could follow:

1. The tenant an access line names (`resolveTenantIDForTelemetry`) in `TracePropagation`.
2. The finish functions of `messagingobs`.
