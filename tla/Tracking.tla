------------------------------- MODULE Tracking -------------------------------
(***************************************************************************)
(* What NewTrackingFromContext answers with: the values of the context,    *)
(* and where it has none, process-wide fallbacks.  Those are OpenTelemetry *)
(* providers that Telemetry.ApplyGlobals sets one by one, and a metrics    *)
(* factory that is made once and kept.                                     *)
(*                                                                         *)
(* OpenTelemetry's globals: until a provider is set, what asks for one     *)
(* gets a stand-in that hands on to the first one ever set.                *)
(***************************************************************************)
EXTENDS ContextValues

CONSTANT Instances   \* the Telemetry values that are made global

VARIABLES
  global,     \* the instance each process-wide provider is of
  first,      \* the instance the stand-ins hand on to
  applied,    \* how many of its providers each instance has set
  fallback,   \* the provider under the default metrics factory, once it is made
  tracers     \* the providers that fallback tracers were asked of

globalVars   == <<global, first, applied, fallback, tracers>>
trackingVars == <<contextVars, globalVars>>

ASSUME InstancesAssumption == {"nobody", "stand-in", "unmade"} \cap Instances = {}

ApplyOrder == <<"tracer", "meter", "logger", "propagator">>
Kinds      == {ApplyOrder[n] : n \in 1..4}

TrackingInit ==
  /\ ContextsInit
  /\ global = [k \in Kinds |-> "nobody"]
  /\ first = [k \in Kinds |-> "nobody"]
  /\ applied = [i \in Instances |-> 0]
  /\ fallback = "unmade"
  /\ tracers = {}

-----------------------------------------------------------------------------
\* One of the four assignments of ApplyGlobals.
SetProvider(i) ==
  LET k == ApplyOrder[applied[i] + 1] IN
  /\ applied[i] < 4
  /\ applied' = [applied EXCEPT ![i] = @ + 1]
  /\ global' = [global EXCEPT ![k] = i]
  /\ first' = IF first[k] = "nobody" THEN [first EXCEPT ![k] = i] ELSE first
  /\ UNCHANGED <<contextVars, fallback, tracers>>

\* otel.GetMeterProvider and otel.GetTracerProvider.
Provider(k) == IF global[k] = "nobody" THEN "stand-in" ELSE global[k]

\* Mutant: a factory made before there is a provider records nowhere.
NoFactoryYet == IF global["meter"] = "nobody" THEN "nobody" ELSE global["meter"]

\* getDefaultMetricsFactory, the first time.
DefaultFactory == Provider("meter")

\* NewTrackingFromContext, of a context that has no tracer: the factory is the
\* context's, or the default one.
NewTracking(c) ==
  /\ tracers' = tracers \cup {Provider("tracer")}
  /\ fallback' = IF objects[contexts[c]].factory = Unset /\ fallback = "unmade"
                 THEN DefaultFactory ELSE fallback
  /\ UNCHANGED <<contextVars, global, first, applied>>

TrackingNext ==
  \/ ContextsNext /\ UNCHANGED globalVars
  \/ \E i \in Instances : SetProvider(i)
  \/ \E c \in 1..Len(contexts) : NewTracking(c)

-----------------------------------------------------------------------------
(* Properties                                                              *)

\* Where what was got from a provider records to.
LeadsTo(k, provider) == IF provider = "stand-in" THEN first[k] ELSE provider

\* A process that makes one Telemetry global is served by it alone: whenever a
\* context without values was asked, before, while or after the four providers were
\* set, its tracer and the factory that was cached then lead to that instance.
LoneInstanceServesAll == \A i \in Instances :
  applied[i] = 4 /\ (\A j \in Instances \ {i} : applied[j] = 0) =>
    /\ \A k \in Kinds : global[k] = i
    /\ \A p \in tracers : LeadsTo("tracer", p) = i
    /\ fallback # "unmade" => LeadsTo("meter", fallback) = i
=============================================================================
