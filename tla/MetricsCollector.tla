-------------------------- MODULE MetricsCollector --------------------------
(***************************************************************************)
(* The process-wide system-metrics collector of telemetrycore: the         *)
(* package variables guarded by metricsCollectorMu, EnsureMetricsCollector *)
(* and StopMetricsCollector (each one step: the mutex is held from the     *)
(* first read to the last write), and the goroutines they leave behind,    *)
(* which share nothing with them but their own shutdown channel.           *)
(*                                                                         *)
(* The n-th goroutine, its shutdown channel and its ticker are all called  *)
(* n.  MaxStarts bounds how many are started.                              *)
(***************************************************************************)
EXTENDS Naturals

CONSTANTS
  Telemetries,   \* the *tracing.Telemetry values callers pass
  WithProvider,  \* those whose MeterProvider is set
  WithFactory,   \* those whose MetricsFactory is set
  MaxStarts      \* bound: collectors started in one behaviour

ASSUME CollectorAssumption ==
  /\ WithProvider \subseteq Telemetries
  /\ WithFactory \subseteq Telemetries
  /\ MaxStarts \in Nat

Collectors == 1..MaxStarts
NoChannel  == 0

VARIABLES
  started,   \* metricsCollectorStarted
  onceDone,  \* the current metricsCollectorOnce has run
  initErr,   \* metricsCollectorInitErr # nil
  shutdown,  \* metricsCollectorShutdown
  spawned,   \* how many collectors were started
  closed,    \* the shutdown channels that were closed
  pc,        \* where each collector goroutine is
  ticker,    \* its time.Ticker
  tick,      \* whether the ticker's channel (capacity one) holds a tick
  process    \* "up", or "crashed" by a panic nothing recovered

mutexVars     == <<started, onceDone, initErr, shutdown, spawned, closed>>
goroutineVars == <<pc, ticker, tick>>
vars          == <<mutexVars, goroutineVars, process>>

Running == {"cpu", "mem", "select"}
Live(c) == pc[c] \in Running

Init ==
  /\ started = FALSE /\ onceDone = FALSE /\ initErr = FALSE
  /\ shutdown = NoChannel /\ spawned = 0 /\ closed = {}
  /\ pc     = [c \in Collectors |-> "unborn"]
  /\ ticker = [c \in Collectors |-> "none"]
  /\ tick   = [c \in Collectors |-> FALSE]
  /\ process = "up"

-----------------------------------------------------------------------------
(* EnsureMetricsCollector(tl)                                              *)

\* A failed start is forgotten and its sync.Once replaced before Do.
OnceAlreadyRan == onceDone /\ ~initErr

EnsureNoFactory(t) ==
  /\ t \in WithProvider \ WithFactory
  /\ ~started /\ ~OnceAlreadyRan
  /\ onceDone' = TRUE /\ initErr' = TRUE
  /\ UNCHANGED <<started, shutdown, spawned, closed, goroutineVars, process>>

EnsureStarts(t) ==
  LET c == spawned + 1 IN
  /\ t \in WithProvider \cap WithFactory
  /\ ~started /\ ~OnceAlreadyRan
  /\ c \in Collectors
  /\ onceDone' = TRUE /\ initErr' = FALSE /\ started' = TRUE
  /\ shutdown' = c /\ spawned' = c
  /\ pc'     = [pc EXCEPT ![c] = "cpu"]
  /\ ticker' = [ticker EXCEPT ![c] = "running"]
  /\ UNCHANGED <<closed, tick, process>>

\* No telemetry, no provider, a collector started, or a Do that does nothing.
EnsureReturnsNil(t) ==
  /\ t \notin WithProvider \/ started \/ OnceAlreadyRan
  /\ UNCHANGED vars

Ensure(t) ==
  /\ process = "up"
  /\ \/ EnsureReturnsNil(t)
     \/ EnsureNoFactory(t)
     \/ EnsureStarts(t)

-----------------------------------------------------------------------------
(* StopMetricsCollector(); closing a closed channel panics in the caller.  *)

CloseShutdown ==
  /\ closed' = closed \cup {shutdown}
  /\ process' = IF shutdown \in closed THEN "crashed" ELSE "up"

\* Mutant: the flag is not cleared.
ResetKeepsStarted == onceDone' = FALSE /\ initErr' = FALSE /\ UNCHANGED started

\* Mutant: the sync.Once is not replaced.
ResetKeepsOnce == started' = FALSE /\ initErr' = FALSE /\ UNCHANGED onceDone

Reset == started' = FALSE /\ onceDone' = FALSE /\ initErr' = FALSE

Stop ==
  /\ process = "up"
  /\ started /\ shutdown # NoChannel
  /\ CloseShutdown
  /\ Reset
  /\ UNCHANGED <<shutdown, spawned, goroutineVars>>

-----------------------------------------------------------------------------
(* One collector goroutine: two readings, then select.                     *)

Step(c, from, to) == pc[c] = from /\ pc' = [pc EXCEPT ![c] = to]

ReadCPU(c) ==
  /\ process = "up" /\ Step(c, "cpu", "mem")
  /\ UNCHANGED <<mutexVars, ticker, tick, process>>

ReadMem(c) ==
  /\ process = "up" /\ Step(c, "mem", "select")
  /\ UNCHANGED <<mutexVars, ticker, tick, process>>

\* Mutant: the goroutine reads the package variable, not its own channel.
ToldByPackage(c) == shutdown \in closed

ToldToStop(c) == c \in closed

SelectShutdown(c) ==
  /\ process = "up" /\ ToldToStop(c)
  /\ Step(c, "select", "ended")
  /\ ticker' = [ticker EXCEPT ![c] = "stopped"]
  /\ UNCHANGED <<mutexVars, tick, process>>

\* A closed shutdown channel does not win over a pending tick: when both
\* are ready select picks either.
SelectTick(c) ==
  /\ process = "up" /\ tick[c]
  /\ Step(c, "select", "cpu")
  /\ tick' = [tick EXCEPT ![c] = FALSE]
  /\ UNCHANGED <<mutexVars, ticker, process>>

\* The runtime's timer; a tick nobody has taken yet makes it drop the next.
TickerFires(c) ==
  /\ process = "up" /\ ticker[c] = "running" /\ ~tick[c]
  /\ tick' = [tick EXCEPT ![c] = TRUE]
  /\ UNCHANGED <<mutexVars, pc, ticker, process>>

\* A reading panics (the meter or gopsutil): SafeGo recovers it under
\* KeepRunning, so the goroutine is over and nobody stops its ticker; a
\* logger that panics while the panic is being reported ends the process.
ReadingPanics(c) ==
  /\ process = "up" /\ pc[c] \in {"cpu", "mem"}
  /\ pc' = [pc EXCEPT ![c] = "died"]
  /\ process' \in {"up", "crashed"}
  /\ UNCHANGED <<mutexVars, ticker, tick>>

Collector(c) == ReadCPU(c) \/ ReadMem(c) \/ SelectShutdown(c) \/ SelectTick(c)

Next ==
  \/ \E t \in Telemetries : Ensure(t)
  \/ Stop
  \/ \E c \in Collectors : Collector(c) \/ TickerFires(c) \/ ReadingPanics(c)

\* A goroutine that can run does run.  The shutdown branch competes with
\* ticks for ever, and wins because select chooses uniformly among the ready
\* cases: that is strong fairness.
Fairness == \A c \in Collectors :
  /\ WF_vars(ReadCPU(c))
  /\ WF_vars(ReadMem(c))
  /\ SF_vars(SelectShutdown(c))

SafeSpec == Init /\ [][Next]_vars
Spec     == SafeSpec /\ Fairness

-----------------------------------------------------------------------------
(* Properties                                                              *)

\* Every package variable and every goroutine is in a state the Go types and
\* the code of this package allow.
TypeOK ==
  /\ started \in BOOLEAN /\ onceDone \in BOOLEAN /\ initErr \in BOOLEAN
  /\ spawned \in 0..MaxStarts
  /\ shutdown \in 0..spawned
  /\ closed \subseteq 1..spawned
  /\ pc \in [Collectors -> Running \cup {"unborn", "ended", "died"}]
  /\ ticker \in [Collectors -> {"none", "running", "stopped"}]
  /\ tick \in [Collectors -> BOOLEAN]
  /\ process \in {"up", "crashed"}

\* However Ensure and Stop calls of both transports interleave with slow
\* goroutines, at most one collector has not been told to stop, and it is the
\* one Stop would reach: no collector is ever beyond the reach of Stop.
AtMostOneActive == \A c \in Collectors :
  Live(c) /\ c \notin closed => started /\ c = shutdown

\* Stop never closes a channel twice, which would panic in the shutdown path.
StopIsSafe == started => shutdown # NoChannel /\ shutdown \notin closed

\* "After calling this function, the collector can be restarted", and a start
\* that failed is retried: whenever no collector is started, the sync.Once is
\* one through which the next Ensure with a usable telemetry will start it.
Restartable == ~started => ~OnceAlreadyRan

\* Stop is not only a flag: a collector that was told to stop ends and
\* releases its ticker (unless a panic ended it, or the process, first).
StoppedCollectorEnds == \A c \in Collectors :
  c \in closed ~> \/ pc[c] = "ended" /\ ticker[c] = "stopped"
                  \/ pc[c] = "died"
                  \/ process = "crashed"

\* What makes those invariants inductive: every collector but the one in the
\* slot has had its channel closed, and later ones are not born yet.
SlotInv ==
  /\ shutdown = spawned
  /\ closed = IF started THEN 1..(spawned - 1) ELSE 1..spawned
  /\ started => spawned # 0
  /\ \A c \in Collectors : pc[c] = "unborn" <=> c > spawned

IInv == TypeOK /\ SlotInv /\ Restartable

\* The package implements the one-slot contract of CollectorSlot.
Slot == INSTANCE CollectorSlot WITH
  None     <- NoChannel,
  active   <- IF started THEN shutdown ELSE NoChannel,
  draining <- {c \in closed : Live(c)},
  used     <- 1..spawned

ImplementsSlot == Slot!SafeSpec
=============================================================================
