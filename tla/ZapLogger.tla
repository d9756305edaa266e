------------------------------- MODULE ZapLogger -------------------------------
(***************************************************************************)
(* The zap logger of a process that runs the Telemetry of Delivery: Log    *)
(* writes an entry to two sinks, the local output and the OpenTelemetry    *)
(* bridge, each of which reads the level for itself; loggers derived with  *)
(* With and WithGroup share sinks and level; and Sync has a goroutine of   *)
(* its own flush the local output, so that its caller can leave it.        *)
(*                                                                         *)
(* The bridge records into whatever logger provider is global.  Entries    *)
(* are debug entries: one at or above Info would pass either level.        *)
(***************************************************************************)
EXTENDS Delivery

CONSTANTS
  Writers,   \* goroutines that log or sync
  Jobs       \* what the process does, see JobType

JobType == [configs : SUBSET Configs,
            stops : SUBSET Callers,    \* who calls Shutdown
            records : BOOLEAN,         \* spans and measurements are recorded
            flushes : BOOLEAN,         \* and flushed by ForceFlush
            logs : SUBSET Writers,
            syncs : SUBSET Writers,
            samples : BOOLEAN]         \* not DisableSampling

ASSUME ZapAssumption == Jobs \subseteq JobType

VARIABLES
  job,
  level,   \* the AtomicLevel
  entry,   \* the Log call each writer is in, or was in last
  sync     \* its Sync call, with the goroutine and the channel of that call

zapVars == <<job, level, entry, sync>>
jobVars == <<vars, deliveryVars, zapVars>>

Derivations == {"root", "derived"}

\* sinks: what the entry is written to.  loud, on: what level and bridge were
\* when Log was called.  moved: one of them has changed since.
NoEntry == [at |-> "none", logger |-> "root", sinks |-> {}, loud |-> FALSE, on |-> FALSE,
            moved |-> FALSE]

\* kept: the sink panicked under its lock, in this call or an earlier one.
NoSync  == [at |-> "none", over |-> FALSE, helper |-> "none", result |-> FALSE, kept |-> FALSE]

JobInit ==
  /\ Init /\ DeliveryInit
  /\ job \in Jobs /\ config \in job.configs
  /\ level = "info"
  /\ entry = [w \in Writers |-> NoEntry]
  /\ sync = [w \in Writers |-> NoSync]

-----------------------------------------------------------------------------
(* Log                                                                     *)

\* The provider of a no-op telemetry, and the one there is before any is
\* global, have every severity disabled.
BridgeOn == global /\ pc = "live"

\* Every call that is under way has now seen two levels, or two providers.
Unsettled == [w \in Writers |-> [entry[w] EXCEPT !.moved = TRUE]]

SetLevel ==
  /\ job.logs # {}
  /\ level' \in {"info", "debug"} \ {level}
  /\ entry' = Unsettled
  /\ UNCHANGED <<vars, deliveryVars, job, sync>>

Applied ==
  /\ ApplyGlobals
  /\ entry' = IF global THEN entry ELSE Unsettled
  /\ UNCHANGED <<deliveryVars, job, level, sync>>

\* Mutant: With returns the bridge without its gate.
RootOnly(logger) == logger = "root"

\* levelGate.With returns a gate again.
Gated(logger) == TRUE

\* levelGate.Enabled, and that of the core inside it.
BridgeEnabled(logger) == (Gated(logger) => level = "debug") /\ BridgeOn

\* The Logger asks the tee first, which is enabled when one of its cores is.
LogCalled(w, logger) ==
  /\ entry[w].at = "none"
  /\ entry' = [entry EXCEPT ![w] =
       [at     |-> IF level = "debug" \/ BridgeEnabled(logger) THEN "local" ELSE "written",
        logger |-> logger, sinks |-> {}, loud |-> level = "debug", on |-> BridgeOn,
        moved  |-> FALSE]]
  /\ UNCHANGED <<held, flush, job, level, sync>>

Checked(w, sink, next) ==
  entry' = [entry EXCEPT ![w].at = next, ![w].sinks = @ \cup sink]

\* The sampler is around the local output only.
CheckLocal(w) ==
  /\ entry[w].at = "local"
  /\ \/ level = "debug" /\ Checked(w, {"local"}, "bridge")
     \/ (level = "debug" => job.samples) /\ Checked(w, {}, "bridge")
  /\ UNCHANGED <<held, flush, job, level, sync>>

CheckBridge(w) ==
  /\ entry[w].at = "bridge"
  /\ Checked(w, IF BridgeEnabled(entry[w].logger) THEN {"otlp"} ELSE {}, "write")
  /\ UNCHANGED <<held, flush, job, level, sync>>

\* Writing to the local output and syncing it take one lock, which a sink that
\* panics leaves locked.
Locked == \E w \in Writers : sync[w].helper = "syncing" \/ sync[w].kept

Write(w) ==
  /\ entry[w].at = "write"
  /\ "local" \in entry[w].sinks => ~Locked
  /\ entry' = [entry EXCEPT ![w].at = "written"]
  /\ held' = IF "otlp" \in entry[w].sinks THEN WithRecord("log") ELSE held
  /\ UNCHANGED <<flush, job, level, sync>>

LogReturns(w) ==
  /\ entry[w].at = "written"
  /\ entry' = [entry EXCEPT ![w] = NoEntry]
  /\ UNCHANGED <<held, flush, job, level, sync>>

Log(w) == (\E l \in Derivations : LogCalled(w, l)) \/ CheckLocal(w) \/ CheckBridge(w)
          \/ Write(w) \/ LogReturns(w)

-----------------------------------------------------------------------------
(* Sync                                                                    *)

SyncBecomes(w, call) ==
  /\ sync' = [sync EXCEPT ![w] = call]
  /\ UNCHANGED <<deliveryVars, job, level, entry>>

\* With a context that is over it returns at once; with none, the caller
\* itself flushes.
SyncCalled(w) ==
  /\ sync[w].at \in {"none", "returned"} /\ sync[w].helper \in {"none", "gone"}
  /\ LET new == [NoSync EXCEPT !.kept = sync[w].kept] IN
       \/ SyncBecomes(w, [new EXCEPT !.at = "returned", !.over = TRUE])
       \/ SyncBecomes(w, [new EXCEPT !.at = "direct", !.helper = "started"])
       \/ SyncBecomes(w, [new EXCEPT !.at = "waiting", !.helper = "started"])

ContextEnds(w) ==
  /\ sync[w].at = "waiting" /\ ~sync[w].over
  /\ SyncBecomes(w, [sync[w] EXCEPT !.over = TRUE])

SinkSyncs(w) ==
  /\ sync[w].helper = "started" /\ ~Locked
  /\ SyncBecomes(w, [sync[w] EXCEPT !.helper = "syncing"])

\* The sink's Sync returns, or panics, and zapcore.Lock does not unlock then:
\* HandlePanicValue reports the panic, and the error made of it is sent as any
\* other.
SinkSynced(w, panics) ==
  /\ sync[w].helper = "syncing"
  /\ SyncBecomes(w, IF sync[w].at = "direct"
       THEN [sync[w] EXCEPT !.at = "returned", !.helper = "gone", !.kept = panics]
       ELSE [sync[w] EXCEPT !.helper = "sending", !.kept = panics])

\* Mutant: the channel has no room, somebody must be receiving.
Rendezvous(w) == sync[w].at = "waiting"

\* The channel has room for the one result that is sent.
HasRoom(w) == ~sync[w].result

HelperSends(w) ==
  /\ sync[w].helper = "sending" /\ HasRoom(w)
  /\ SyncBecomes(w, [sync[w] EXCEPT !.helper = "gone", !.result = TRUE])

\* Of a result and the end of the context, select takes either.
SyncReturns(w) ==
  /\ sync[w].at = "waiting" /\ (sync[w].result \/ sync[w].over)
  /\ SyncBecomes(w, [sync[w] EXCEPT !.at = "returned"])

SyncGoesOn(w) == SinkSyncs(w) \/ HelperSends(w) \/ SyncReturns(w)

Sync(w) == SyncCalled(w) \/ ContextEnds(w) \/ SyncGoesOn(w)
           \/ \E panics \in BOOLEAN : SinkSynced(w, panics)

-----------------------------------------------------------------------------
(* The process                                                             *)

Building       == Construction /\ UNCHANGED <<deliveryVars, zapVars>>
Draining(s)    == Drained(s) /\ UNCHANGED zapVars
ShuttingOn(c)  == ShutdownGoesOn(c) /\ UNCHANGED <<deliveryVars, zapVars>>
Syncing(w)     == SyncGoesOn(w) /\ UNCHANGED vars

JobNext ==
  \/ Building
  \/ Applied
  \/ \E s \in Signals : Draining(s)
  \/ \E c \in job.stops : ShuttingOn(c) \/ (ShutdownCalled(c) /\ UNCHANGED <<deliveryVars, zapVars>>)
  \/ job.records /\ Batches /\ UNCHANGED zapVars
  \/ job.flushes /\ ForceFlush /\ UNCHANGED zapVars
  \/ SetLevel
  \/ \E w \in job.logs : Log(w) /\ UNCHANGED vars
  \/ \E w \in job.syncs : Sync(w) /\ UNCHANGED vars

JobSafe == JobInit /\ [][JobNext]_jobVars

\* As in TelemetryLifecycle; and goroutines that are not blocked run.
JobSpec == /\ JobSafe
           /\ WF_jobVars(Building)
           /\ \A s \in Signals : WF_jobVars(Draining(s))
           /\ \A c \in Callers : WF_jobVars(ShuttingOn(c))
           /\ \A w \in Writers : WF_jobVars(Syncing(w))

-----------------------------------------------------------------------------
(* Properties                                                              *)

\* One level rules both sinks, through whichever logger of the family an entry
\* is written and whenever the level is set: unless level or provider changed
\* during the call, the bridge gets what the level lets through, and the local
\* output the same but for what was sampled away.
SinksAgree == \A w \in Writers :
  entry[w].at = "written" /\ ~entry[w].moved =>
    /\ "otlp" \in entry[w].sinks <=> entry[w].loud /\ entry[w].on
    /\ "local" \in entry[w].sinks => entry[w].loud
    /\ ~job.samples /\ entry[w].loud => "local" \in entry[w].sinks

\* What makes it inductive.
Steps == {"none", "local", "bridge", "write", "written"}

LogTypeOK ==
  /\ job \in Jobs
  /\ level \in {"info", "debug"}
  /\ entry \in [Writers -> [at : Steps, logger : Derivations, sinks : SUBSET {"local", "otlp"},
                            loud : BOOLEAN, on : BOOLEAN, moved : BOOLEAN]]

\* What a call has found out so far is what it would find out now.
Settled(e) ==
  /\ e.loud <=> level = "debug"
  /\ e.on <=> BridgeOn
  /\ e.at = "local" => e.sinks = {}
  /\ e.at = "bridge" => "otlp" \notin e.sinks
  /\ e.at \in {"write", "written"} => ("otlp" \in e.sinks <=> e.loud /\ e.on)
  /\ "local" \in e.sinks => e.loud
  /\ e.at \in {"bridge", "write", "written"} /\ ~job.samples /\ e.loud => "local" \in e.sinks

\* No instance is global before it is returned.
GlobalIsUsable == global => pc \in Usable

LogInv == /\ LogTypeOK
          /\ GlobalIsUsable
          /\ \A w \in Writers : entry[w].at # "none" /\ ~entry[w].moved => Settled(entry[w])

\* Sync leaves no goroutine behind once the sink has answered or panicked: its
\* helper ends, whether the caller is still there or left it when its context was
\* over.
SyncEnds == \A w \in Writers : sync[w].helper = "sending" ~> sync[w].helper = "gone"
=============================================================================
