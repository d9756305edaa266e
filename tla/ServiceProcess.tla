---------------------------- MODULE ServiceProcess ----------------------------
(***************************************************************************)
(* What the goroutines of one process share: the system-metrics collector  *)
(* of MetricsCollector, the contexts, the global providers and the default *)
(* factory of Tracking, the net/http requests of NetHttp, and a metrics    *)
(* factory of MetricsFactory.  They share no variable but the process,     *)
(* which a panic that nothing recovers ends for all of them.               *)
(*                                                                         *)
(* A service says what it uses: the telemetries its transports pass to     *)
(* EnsureMetricsCollector, the ones it makes global, whether it asks       *)
(* contexts for their tracking, the goroutines that derive contexts,       *)
(* whether it serves a request and makes others meanwhile, and the calls   *)
(* that goroutines which record metrics make.                              *)
(***************************************************************************)
EXTENDS MetricsCollector, Tracking, NetHttp, MetricsFactory

CONSTANT Services   \* [ensures, applies, tracks, workers, serves, records]

VARIABLE service

serviceVars == <<vars, service, trackingVars, netVars, factoryVars>>

\* ApplyGlobals refuses a Telemetry without its providers.
ASSUME ServicesAssumption ==
  /\ Instances \subseteq WithProvider
  /\ \A s \in Services :
       /\ s.ensures \subseteq Telemetries
       /\ s.applies \subseteq Instances
       /\ s.tracks \in BOOLEAN
       /\ s.workers \subseteq Goroutines
       /\ s.serves \in BOOLEAN
       /\ s.records \subseteq Calls

\* Where no goroutine derives contexts, the first one holds no values.
ServiceInit ==
  /\ Init /\ TrackingInit /\ NetInit /\ FactoryInit
  /\ service \in Services
  /\ service.workers = {} => objects[Ingress] = Nothing

CollectorStep ==
  /\ \/ \E t \in service.ensures : Ensure(t)
     \/ Stop
     \/ \E c \in Collectors : Collector(c) \/ TickerFires(c) \/ ReadingPanics(c)
  /\ UNCHANGED <<service, trackingVars, netVars, factoryVars>>

TrackingStep ==
  /\ process = "up"
  /\ \/ \E i \in service.applies : SetProvider(i)
     \/ service.tracks /\ \E c \in 1..Len(contexts) : NewTracking(c)
     \/ \E g \in service.workers : WorkerStep(g) /\ UNCHANGED globalVars
  /\ UNCHANGED <<service, vars, netVars, factoryVars>>

NetStep ==
  /\ process = "up"
  /\ service.serves /\ NetNext
  /\ UNCHANGED <<service, vars, trackingVars, factoryVars>>

FactoryStep ==
  /\ process = "up"
  /\ \E c \in Callers : Caller(c, service.records)
  /\ UNCHANGED <<service, vars, trackingVars, netVars>>

ServiceNext == CollectorStep \/ TrackingStep \/ NetStep \/ FactoryStep

ServiceSafe == ServiceInit /\ [][ServiceNext]_serviceVars
ServiceSpec == ServiceSafe /\ Fairness
=============================================================================
