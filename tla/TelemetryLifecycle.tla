------------------------- MODULE TelemetryLifecycle -------------------------
(***************************************************************************)
(* One tracing.Telemetry from NewTelemetry to Shutdown: the checks of the  *)
(* configuration, three exporters built one after the other, the providers *)
(* that take them over, the rollback of whatever was built when a later    *)
(* step fails, and Shutdown calls that repeat and overlap.                 *)
(*                                                                         *)
(* A provider is the OpenTelemetry SDK's: its first Shutdown shuts down    *)
(* the exporter it was given, in its own time; any other returns.  The     *)
(* tracer provider differs when that first one comes with a context that   *)
(* is over: it counts, and leaves the exporter open.                       *)
(***************************************************************************)
EXTENDS Naturals, Sequences

CONSTANTS
  Callers,   \* goroutines that call Shutdown
  Configs    \* the configurations considered

ConfigType == [logger : BOOLEAN,      \* not nil
               ratio : BOOLEAN,       \* a valid SampleRatio
               enabled : BOOLEAN,     \* EnableTelemetry
               endpoint : {"empty", "http", "https", "bare"},
               insecure : BOOLEAN,    \* InsecureExporter, as the caller set it
               strict : BOOLEAN,      \* DeploymentEnv, isStrictEnvironment
               allowed : BOOLEAN]     \* ALLOW_INSECURE_OTEL

ASSUME LifecycleAssumption == Configs \subseteq ConfigType

Signals == {"trace", "metric", "log"}
BuildOrder    == <<"trace", "metric", "log">>
ProviderOrder == <<"metric", "trace", "log">>

VARIABLES
  config,
  pc,         \* where the construction is
  built,      \* how many exporters it has built
  exporter,   \* the exporters: "none", "open" or "shut"
  shuts,      \* how often each exporter's Shutdown was called
  provider,   \* the providers over exporters: "none", "up", "stopping" and "down",
              \* or "abandoned", which a Shutdown that returned at once leaves
  undo,       \* what a rollback has still to shut down
  global,     \* whether the process-wide providers are this instance's
  calls       \* the Shutdown call each caller is in, or was in last

vars == <<config, pc, built, exporter, shuts, provider, undo, global, calls>>

NoCall == [at |-> "none", rest |-> <<>>]

Init ==
  /\ config \in Configs
  /\ pc = "new"
  /\ built = 0
  /\ exporter = [s \in Signals |-> "none"]
  /\ shuts = [s \in Signals |-> 0]
  /\ provider = [s \in Signals |-> "none"]
  /\ undo = <<>>
  /\ global = FALSE
  /\ calls = [c \in Callers |-> NoCall]

-----------------------------------------------------------------------------
(* newTelemetry: what the configuration decides                            *)

\* normalizeEndpoint: no scheme and http:// make the exporter insecure,
\* https:// leaves what the caller set.
Insecure(f) == f.insecure \/ f.endpoint \in {"http", "bare"}

Exports(f) == f.enabled /\ f.endpoint # "empty"

Rejected(f) == \/ ~f.logger
               \/ ~f.ratio
               \/ Exports(f) /\ Insecure(f) /\ f.strict /\ ~f.allowed

Configure ==
  /\ pc = "new"
  /\ \/ Rejected(config) /\ pc' = "rejected" /\ UNCHANGED global
     \/ ~Rejected(config) /\ Exports(config) /\ pc' = "exporters" /\ UNCHANGED global
     \/ ~Rejected(config) /\ ~config.enabled /\ pc' = "noop" /\ UNCHANGED global
     \* handleEmptyEndpoint: the no-op telemetry is made global, and returned
     \* with an error.
     \/ ~Rejected(config) /\ config.enabled /\ ~Exports(config) /\ pc' = "noop" /\ global' = TRUE
  /\ UNCHANGED <<config, built, exporter, shuts, provider, undo, calls>>

-----------------------------------------------------------------------------
(* newExporters and buildTelemetry                                         *)

Undo(what, order) == [n \in 1..Len(order) |-> [what |-> what, signal |-> order[n]]]

RollBack(items) == pc' = "rollback" /\ undo' = items

NewExporter ==
  /\ pc = "exporters" /\ built < 3
  /\ built' = built + 1
  /\ exporter' = [exporter EXCEPT ![BuildOrder[built + 1]] = "open"]
  /\ UNCHANGED <<config, pc, shuts, provider, undo, global, calls>>

\* No provider owns the exporters yet.
RollBackExporters ==
  /\ RollBack(Undo("exporter", SubSeq(BuildOrder, 1, built)))
  /\ UNCHANGED <<config, built, exporter, shuts, provider, global, calls>>

ExporterFails == pc = "exporters" /\ built < 3 /\ RollBackExporters

\* newResource; attributes that only parse in part are no failure.
ResourceFails == pc = "exporters" /\ built = 3 /\ RollBackExporters

BuildFails == ExporterFails \/ ResourceFails

NewProviders ==
  /\ pc = "exporters" /\ built = 3
  /\ pc' = "factory"
  /\ provider' = [s \in Signals |-> "up"]
  /\ UNCHANGED <<config, built, exporter, shuts, undo, global, calls>>

\* Mutant: the exporters roll back as well as their providers.
BothOwners == Undo("provider", ProviderOrder) \o Undo("exporter", BuildOrder)

\* From here on the providers own the exporters, and only they roll back.
Owners == Undo("provider", ProviderOrder)

NewFactory ==
  /\ pc = "factory"
  /\ RollBack(Owners) \/ (pc' = "live" /\ UNCHANGED undo)
  /\ UNCHANGED <<config, built, exporter, shuts, provider, global, calls>>

\* shutdownAll: one after the other, errors ignored.
RollBackStep ==
  /\ pc = "rollback" /\ undo # <<>>
  /\ undo' = Tail(undo)
  /\ LET s == Head(undo).signal IN
       /\ exporter' = [exporter EXCEPT ![s] = "shut"]
       /\ shuts' = [shuts EXCEPT ![s] = @ + 1]
       /\ provider' = IF Head(undo).what = "provider"
                      THEN [provider EXCEPT ![s] = "down"] ELSE provider
  /\ UNCHANGED <<config, pc, built, global, calls>>

RolledBack ==
  /\ pc = "rollback" /\ undo = <<>>
  /\ pc' = "rejected"
  /\ UNCHANGED <<config, built, exporter, shuts, provider, undo, global, calls>>

-----------------------------------------------------------------------------
(* The Telemetry that was returned                                         *)

Usable == {"live", "noop"}

ApplyGlobals ==
  /\ pc \in Usable
  /\ global' = TRUE
  /\ UNCHANGED <<config, pc, built, exporter, shuts, provider, undo, calls>>

\* ShutdownTelemetryWithContext; that of a no-op has nothing to shut down.
ShutdownCalled(c) ==
  /\ pc \in Usable /\ calls[c].at \in {"none", "returned"}
  /\ calls' = [calls EXCEPT ![c] =
       [at |-> "loop", rest |-> IF pc = "live" THEN ProviderOrder ELSE <<>>]]
  /\ UNCHANGED <<config, pc, built, exporter, shuts, provider, undo, global>>

\* The provider's own Shutdown: only the first call stops it.
ProviderStops(c) ==
  /\ calls[c].at = "loop" /\ calls[c].rest # <<>>
  /\ calls' = [calls EXCEPT ![c].at = "wait"]
  /\ LET s == Head(calls[c].rest) IN
       provider' = IF provider[s] = "up" THEN [provider EXCEPT ![s] = "stopping"] ELSE provider
  /\ UNCHANGED <<config, pc, built, exporter, shuts, undo, global>>

\* TracerProvider.Shutdown marks itself shut before it looks at the context, and
\* returns its error with no span processor told; those of meters and logs go on.
ProviderAbandons(c) ==
  /\ calls[c].at = "loop" /\ calls[c].rest # <<>>
  /\ Head(calls[c].rest) = "trace" /\ provider["trace"] = "up"
  /\ calls' = [calls EXCEPT ![c].at = "wait"]
  /\ provider' = [provider EXCEPT !["trace"] = "abandoned"]
  /\ UNCHANGED <<config, pc, built, exporter, shuts, undo, global>>

\* The exporter is drained and shut, by the provider it belongs to.
ProviderDown(s) ==
  /\ provider[s] = "stopping"
  /\ provider' = [provider EXCEPT ![s] = "down"]
  /\ exporter' = [exporter EXCEPT ![s] = "shut"]
  /\ shuts' = [shuts EXCEPT ![s] = @ + 1]
  /\ UNCHANGED <<config, pc, built, undo, global, calls>>

\* Mutant: the first provider that fails ends the loop.
StopAtError(c, failed) == IF failed THEN <<>> ELSE Tail(calls[c].rest)

\* Whatever Shutdown answered, the next provider is asked.
Remaining(c, failed) == Tail(calls[c].rest)

\* It answers, well or with an error, and perhaps before its exporter is shut:
\* when the caller's context is over, or when another call is stopping it.
ProviderAnswers(c, failed) ==
  /\ calls[c].at = "wait"
  /\ calls' = [calls EXCEPT ![c] = [at |-> "loop", rest |-> Remaining(c, failed)]]
  /\ UNCHANGED <<config, pc, built, exporter, shuts, provider, undo, global>>

ShutdownReturns(c) ==
  /\ calls[c].at = "loop" /\ calls[c].rest = <<>>
  /\ calls' = [calls EXCEPT ![c].at = "returned"]
  /\ UNCHANGED <<config, pc, built, exporter, shuts, provider, undo, global>>

-----------------------------------------------------------------------------
Construction == Configure \/ NewExporter \/ BuildFails \/ NewProviders \/ NewFactory
                \/ RollBackStep \/ RolledBack

ShutdownGoesOn(c) == ProviderStops(c) \/ ProviderAbandons(c) \/ ShutdownReturns(c)
                     \/ \E failed \in BOOLEAN : ProviderAnswers(c, failed)

Next == \/ Construction
        \/ ApplyGlobals
        \/ \E s \in Signals : ProviderDown(s)
        \/ \E c \in Callers : ShutdownCalled(c) \/ ShutdownGoesOn(c)

\* Calls go on once made, and the SDK shuts down what it stopped, if it did.
Spec == /\ Init /\ [][Next]_vars
        /\ WF_vars(Construction)
        /\ \A s \in Signals : WF_vars(ProviderDown(s))
        /\ \A c \in Callers : WF_vars(ShutdownGoesOn(c))

-----------------------------------------------------------------------------
(* Properties                                                              *)

\* "Draining one a second time is what makes otlpmetricgrpc answer 'gRPC
\* exporter is shutdown'": no exporter is shut down twice, by a rollback and its
\* provider, or by Shutdown calls that overlap.
ShutAtMostOnce == \A s \in Signals : shuts[s] <= 1

\* A failed NewTelemetry leaves no connection open that nobody can close.
FailureLeaksNothing == pc = "rejected" => \A s \in Signals : exporter[s] # "open"

\* One provider that fails to shut down does not save the others from it.
ShutdownReachesAll == \A c \in Callers :
  calls[c].at = "returned" => \A s \in Signals : provider[s] # "up"

\* After a call of Shutdown, whatever the providers answer and whatever other
\* calls are made, every connection is closed for good; but that of spans when
\* the first to ask its provider had a context that was over.
ShutdownDrains == (\E c \in Callers : calls[c].at # "none") ~>
  [](\A s \in Signals : exporter[s] = "open" => s = "trace" /\ provider[s] = "abandoned")

\* No insecure connection is made from a strict environment without leave,
\* whether the caller asked for it or the endpoint implies it.
StrictIsSecure == config.strict /\ ~config.allowed /\ (\E s \in Signals : exporter[s] = "open") =>
  config.endpoint = "https" /\ ~config.insecure

-----------------------------------------------------------------------------
(* The inductive invariant                                                 *)

Listed(l) == {l[n] : n \in 1..Len(l)}

TypeOK ==
  /\ config \in Configs
  /\ pc \in {"new", "exporters", "factory", "rollback", "rejected", "live", "noop"}
  /\ built \in 0..3
  /\ exporter \in [Signals -> {"none", "open", "shut"}]
  /\ shuts \in [Signals -> Nat]
  /\ provider \in [Signals -> {"none", "up", "stopping", "down", "abandoned"}]
  /\ undo \in Seq([what : {"exporter", "provider"}, signal : Signals])
  /\ global \in BOOLEAN
  /\ calls \in [Callers -> [at : {"none", "loop", "wait", "returned"}, rest : Seq(Signals)]]

\* A provider is over an open exporter until it has shut it down, which is the
\* only time that exporter is shut down.
Ownership == \A s \in Signals :
  /\ shuts[s] = IF exporter[s] = "shut" THEN 1 ELSE 0
  /\ provider[s] \in {"up", "stopping", "abandoned"} => exporter[s] = "open"
  /\ provider[s] = "down" => exporter[s] = "shut"
  /\ provider[s] \in {"stopping", "abandoned"} => pc = "live"

\* What is built at each point of the construction.
Stages ==
  /\ pc \in {"new", "noop"} => built = 0
  /\ pc \in {"new", "noop", "exporters"} => \A n \in 1..3 :
       /\ exporter[BuildOrder[n]] = IF n <= built THEN "open" ELSE "none"
       /\ provider[BuildOrder[n]] = "none"
  /\ pc = "factory" => \A s \in Signals : provider[s] = "up"
  /\ pc = "live" => \A s \in Signals : provider[s] # "none"
  /\ pc = "rejected" => \A s \in Signals : exporter[s] # "open"
  /\ pc \notin {"new", "rejected", "noop"} => ~Rejected(config) /\ Exports(config)

\* A rollback has every open exporter still to do, once each, through its owner.
Undoing == pc = "rollback" =>
  /\ \A s \in Signals : exporter[s] = "open" => \E n \in 1..Len(undo) : undo[n].signal = s
  /\ \A n \in 1..Len(undo) :
       /\ exporter[undo[n].signal] = "open"
       /\ provider[undo[n].signal] = IF undo[n].what = "provider" THEN "up" ELSE "none"
       /\ \A m \in 1..Len(undo) : m # n => undo[m].signal # undo[n].signal

\* A call has asked every provider it is no longer to ask.
Reached == \A c \in Callers : calls[c].at # "none" =>
  /\ pc \in Usable
  /\ calls[c].at = "returned" => calls[c].rest = <<>>
  /\ calls[c].at = "wait" => calls[c].rest # <<>> /\ provider[Head(calls[c].rest)] # "up"
  /\ \A s \in Signals : s \notin Listed(calls[c].rest) => provider[s] # "up"

IInv == TypeOK /\ Ownership /\ Stages /\ Undoing /\ Reached

-----------------------------------------------------------------------------
\* Who closes each exporter, step by step: ExporterLease.
Holder(s) == CASE exporter[s] = "none" -> "nobody"
               [] exporter[s] = "shut" -> "closed"
               [] OTHER -> IF provider[s] = "none" THEN "builder" ELSE "provider"

Lease == INSTANCE ExporterLease WITH
  Exporters <- Signals, holder <- [s \in Signals |-> Holder(s)], closings <- shuts

ImplementsLease == Lease!Spec
=============================================================================
