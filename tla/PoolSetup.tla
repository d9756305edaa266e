------------------------------ MODULE PoolSetup ------------------------------
(***************************************************************************)
(* Setting up the instrumentation of SQL pools (package sqlobs) and of     *)
(* Redis clients (package redisobs), again and again, with a failure at    *)
(* any step, and releasing what a set-up registered, from any goroutine.   *)
(*                                                                         *)
(* An attempt is one call of Setup, SetupOpen or Instrument.  What an      *)
(* attempt registers with the meter outlives it and must have an owner.    *)
(***************************************************************************)
EXTENDS Naturals, FiniteSets

CONSTANTS
    Pools,      \* the SQL databases of the application
    Clients,    \* its Redis clients
    Supported,  \* those that are of a type redisotel knows
    Clustered,  \* those whose nodes come and go
    Nils,       \* pools and clients that were never set: nil, or a typed nil
    Callers,    \* goroutines that call a cleanup
    MaxSetups,  \* bound: attempts
    MaxNodes    \* bound: pool-stat registrations of one client

Lines == Pools \cup Clients
Attempts == 1 .. MaxSetups

ASSUME LinesAssumption ==
    /\ Pools \cap Clients = {}
    /\ Clustered \subseteq Supported /\ Supported \subseteq Clients
    /\ Nils \subseteq Lines \ Supported
ASSUME SetupBoundsAssumption == MaxSetups \in Nat /\ MaxNodes \in Nat \ {0}

VARIABLES
    setups,    \* each attempt: its line, its entry point, where it is
    open,      \* the pools of each database that are not closed
    current,   \* the pool the application was last given
    hooks,     \* the attempts that hooked metrics, and tracing, into a client
    regs,      \* the registrations an attempt made that the meter still calls
    releases,  \* how often its release was asked for
    cleanup,   \* its CleanupFunc: the sync.Once and what it returns
    watcher,   \* redisotel's goroutine that waits on the close channel
    calls      \* the cleanup calls

vars == <<setups, open, current, hooks, regs, releases, cleanup, watcher, calls>>

\* A pool, by the attempt that opened it (0: the application), and whether it
\* can reach its database.
AllPools == [by : 0 .. MaxSetups, dials : BOOLEAN]
Raw == [by |-> 0, dials |-> TRUE]
NoPool == [by |-> 0, dials |-> FALSE]

PoolSteps == {"instrument", "close", "register", "hand"}
ClientSteps == {"metrics", "tracing"}
Steps == PoolSteps \cup ClientSteps
Unborn == [at |-> "unborn"]
Setups == [at : Steps \cup {"failed", "done"}, line : Lines, dsn : BOOLEAN,
           entry : {"Setup", "SetupOpen", "Instrument"}]
Idle == [at |-> "idle"]
Over == {"ok", "error"}
Calls == [at : {"running", "waiting"}, of : Attempts]
         \cup [at : {"returned"}, of : Attempts, result : Over]

TypeOK ==
    /\ setups \in [Attempts -> Setups \cup {Unborn}]
    /\ open \in [Pools -> SUBSET AllPools]
    /\ current \in [Pools -> AllPools]
    /\ hooks \in [Clients -> [metrics : SUBSET Attempts, tracing : SUBSET Attempts]]
    /\ regs \in [Attempts -> 0 .. MaxNodes]
    /\ releases \in [Attempts -> Nat]
    /\ cleanup \in [Attempts -> {"none", "fresh", "running"} \cup Over]
    /\ watcher \in [Attempts -> {"none", "waiting", "over", "refused"}]
    /\ calls \in [Callers -> Calls \cup {Idle}]

\* A database may have a pool already, or be opened by SetupOpen.
Init ==
    /\ setups = [a \in Attempts |-> Unborn]
    /\ current \in [Pools -> {Raw, NoPool}]
    /\ \A p \in Nils \cap Pools : current[p] = NoPool
    /\ open = [p \in Pools |-> {current[p]} \ {NoPool}]
    /\ hooks = [c \in Clients |-> [metrics |-> {}, tracing |-> {}]]
    /\ regs = [a \in Attempts |-> 0]
    /\ releases = [a \in Attempts |-> 0]
    /\ cleanup = [a \in Attempts |-> "none"]
    /\ watcher = [a \in Attempts |-> "none"]
    /\ calls = [c \in Callers |-> Idle]

-----------------------------------------------------------------------------
(***************************************************************************)
(* Attempts.                                                               *)
(***************************************************************************)
Of(a) == setups[a].line
At(a, step) == setups[a].at = step

\* A pool or client belongs to one goroutine while it is being set up.
Busy(line) == \E a \in Attempts : setups[a].at \in Steps /\ Of(a) = line

Begin(a, line, entry, dsn, step) ==
    /\ At(a, "unborn") /\ \A b \in Attempts : b < a => ~At(b, "unborn")
    /\ ~Busy(line)
    /\ setups' = [setups EXCEPT ![a] = [at |-> step, line |-> line, dsn |-> dsn, entry |-> entry]]

GoTo(a, step) == setups' = [setups EXCEPT ![a].at = step]

\* A nil pool or client is refused before anything is touched.
RefuseNil(a, line) ==
    /\ line \in Nils
    /\ Begin(a, line, "Setup", FALSE, "failed")
    /\ UNCHANGED <<open, current, hooks, regs, releases, cleanup, watcher, calls>>

-----------------------------------------------------------------------------
(* sqlobs.Setup and sqlobs.SetupOpen.                                      *)

\* Mutant: the pool is swapped whether or not the new one can dial.
TakesAny(dsn) == "instrument"

\* ErrDSNRequired: without a DSN the new pool could not be opened.
AfterDSNCheck(dsn) == IF dsn THEN "instrument" ELSE "failed"

SetupPool(a, p, dsn) ==
    /\ current[p] # NoPool
    /\ Begin(a, p, "Setup", dsn, AfterDSNCheck(dsn))
    /\ UNCHANGED <<open, current, hooks, regs, releases, cleanup, watcher, calls>>

NewPool(a) == [by |-> a, dials |-> setups[a].dsn]

\* The wrapped driver may refuse the DSN; the caller keeps its pool then.
InstrumentDB(a) ==
    /\ At(a, "instrument")
    /\ \/ /\ GoTo(a, "close")
          /\ open' = [open EXCEPT ![Of(a)] = @ \cup {NewPool(a)}]
       \/ GoTo(a, "failed") /\ UNCHANGED open
    /\ UNCHANGED <<current, hooks, regs, releases, cleanup, watcher, calls>>

\* An error of Close is only reported: the pool is closed all the same.
CloseOriginal(a) ==
    /\ At(a, "close")
    /\ GoTo(a, "register")
    /\ open' = [open EXCEPT ![Of(a)] = @ \ {current[Of(a)]}]
    /\ UNCHANGED <<current, hooks, regs, releases, cleanup, watcher, calls>>

\* sqlobs.SetupOpen; a pool that cannot be opened leaves the caller none.
SetupOpen(a, p) ==
    /\ p \notin Nils /\ current[p] = NoPool
    /\ \/ /\ Begin(a, p, "SetupOpen", TRUE, "register")
          /\ open' = [open EXCEPT ![p] = @ \cup {[by |-> a, dials |-> TRUE]}]
       \/ Begin(a, p, "SetupOpen", TRUE, "failed") /\ UNCHANGED open
    /\ UNCHANGED <<current, hooks, regs, releases, cleanup, watcher, calls>>

\* Gauges that cannot be registered cost nothing but the gauges.
RegisterStats(a) ==
    /\ At(a, "register")
    /\ \/ /\ GoTo(a, "hand")
          /\ regs' = [regs EXCEPT ![a] = 1]
          /\ UNCHANGED current
       \/ /\ GoTo(a, "done")
          /\ current' = [current EXCEPT ![Of(a)] = NewPool(a)]
          /\ UNCHANGED regs
    /\ UNCHANGED <<open, hooks, releases, cleanup, watcher, calls>>

HandBack(a) ==
    /\ At(a, "hand")
    /\ GoTo(a, "done")
    /\ current' = [current EXCEPT ![Of(a)] = NewPool(a)]
    /\ cleanup' = [cleanup EXCEPT ![a] = "fresh"]
    /\ UNCHANGED <<open, hooks, regs, releases, watcher, calls>>

-----------------------------------------------------------------------------
(* redisobs.Setup and redisobs.Instrument.                                 *)

\* Mutant: the order before it mattered.
TracingFirst(step) == IF step = "begin" THEN "tracing"
                      ELSE IF step = "tracing" THEN "metrics" ELSE "done"

\* Metrics first: only they can fail on a client that is supported.
InstrumentOrder(step) == IF step = "begin" THEN "metrics"
                         ELSE IF step = "metrics" THEN "tracing" ELSE "done"

InstrumentClient(a, c, entry) ==
    /\ c \notin Nils
    /\ Begin(a, c, entry, FALSE, InstrumentOrder("begin"))
    /\ UNCHANGED <<open, current, hooks, regs, releases, cleanup, watcher, calls>>

Releasable(a) == setups[a].entry = "Setup"

\* Mutant: a failed Setup forgets its close channel.
LeaveOpen(a) == releases

\* A failed Setup closes its channel; Instrument has none to close.
CloseOnFailure(a) == IF Releasable(a) THEN [releases EXCEPT ![a] = @ + 1] ELSE releases

Fail(a) == GoTo(a, "failed") /\ releases' = CloseOnFailure(a) /\ UNCHANGED cleanup

Proceed(a, step) ==
    /\ GoTo(a, InstrumentOrder(step))
    /\ cleanup' = IF InstrumentOrder(step) = "done" /\ Releasable(a)
                  THEN [cleanup EXCEPT ![a] = "fresh"] ELSE cleanup
    /\ UNCHANGED releases

\* redisotel starts the watcher first; it may fail when the pool statistics are
\* registered already, but then has not hooked the client.
InstrumentMetrics(a) ==
    /\ At(a, "metrics")
    /\ watcher' = [watcher EXCEPT ![a] = IF Releasable(a) THEN "waiting" ELSE "none"]
    /\ \/ /\ Of(a) \in Supported
          /\ hooks' = [hooks EXCEPT ![Of(a)].metrics = @ \cup {a}]
          /\ regs' = [regs EXCEPT ![a] = IF Of(a) \in Clustered THEN 0 ELSE 1]
          /\ Proceed(a, "metrics")
       \/ /\ \E n \in IF Of(a) \in Supported THEN 0 .. 1 ELSE {0} : regs' = [regs EXCEPT ![a] = n]
          /\ Fail(a)
          /\ UNCHANGED hooks
    /\ UNCHANGED <<open, current, calls>>

InstrumentTracing(a) ==
    /\ At(a, "tracing")
    /\ \/ /\ Of(a) \in Supported
          /\ hooks' = [hooks EXCEPT ![Of(a)].tracing = @ \cup {a}]
          /\ Proceed(a, "tracing")
       \/ Of(a) \notin Supported /\ Fail(a) /\ UNCHANGED hooks
    /\ UNCHANGED <<open, current, regs, watcher, calls>>

\* A node that joins is registered for every attempt that hooked the client's
\* metrics, until the watcher of that attempt is over.
NodeJoins(a) ==
    /\ setups[a].at \in {"tracing", "done"} /\ Of(a) \in Clustered
    /\ a \in hooks[Of(a)].metrics
    /\ watcher[a] \notin {"over", "refused"}
    /\ regs[a] < MaxNodes
    /\ regs' = [regs EXCEPT ![a] = @ + 1]
    /\ UNCHANGED <<setups, open, current, hooks, releases, cleanup, watcher, calls>>

\* It unregisters one after the other, and goes on where the meter refuses one:
\* otel's error handler is told of that, and nobody else.
Unwatch(a) ==
    /\ watcher[a] = "waiting" /\ releases[a] > 0
    /\ \E n \in 0 .. regs[a] :
        /\ regs' = [regs EXCEPT ![a] = n]
        /\ watcher' = [watcher EXCEPT ![a] = IF n = 0 THEN "over" ELSE "refused"]
    /\ UNCHANGED <<setups, open, current, hooks, releases, cleanup, calls>>

-----------------------------------------------------------------------------
(***************************************************************************)
(* Cleanups: once.Do of onceCleanup, in any number of goroutines.          *)
(***************************************************************************)
\* Mutants: a flag that is set when the release is over, or before it starts,
\* in place of the sync.Once.
FlagAfter(a) == IF cleanup[a] \in Over THEN "return" ELSE "run"
FlagBefore(a) == IF cleanup[a] = "fresh" THEN "run" ELSE "return"

OnceDo(a) == IF cleanup[a] \in Over THEN "return"
             ELSE IF cleanup[a] = "running" THEN "wait" ELSE "run"

Returned(c, a) == calls' = [calls EXCEPT ![c] = [at |-> "returned", of |-> a, result |-> cleanup'[a]]]

CleanupCalled(c, a) ==
    /\ calls[c].at \in {"idle", "returned"}
    /\ cleanup[a] # "none"
    /\ \/ /\ OnceDo(a) = "run"
          /\ cleanup' = [cleanup EXCEPT ![a] = "running"]
          /\ calls' = [calls EXCEPT ![c] = [at |-> "running", of |-> a]]
       \/ /\ OnceDo(a) = "wait"
          /\ calls' = [calls EXCEPT ![c] = [at |-> "waiting", of |-> a]]
          /\ UNCHANGED cleanup
       \/ OnceDo(a) = "return" /\ UNCHANGED cleanup /\ Returned(c, a)
    /\ UNCHANGED <<setups, open, current, hooks, regs, releases, watcher>>

\* reg.Unregister of sqlobs may fail; close(closeChan) of redisobs may not.
Releases(c) ==
    /\ calls[c].at = "running"
    /\ LET a == calls[c].of
       IN  /\ releases' = [releases EXCEPT ![a] = @ + 1]
           /\ \/ /\ Of(a) \in Pools
                 /\ \/ regs' = [regs EXCEPT ![a] = 0] /\ cleanup' = [cleanup EXCEPT ![a] = "ok"]
                    \/ cleanup' = [cleanup EXCEPT ![a] = "error"] /\ UNCHANGED regs
              \/ /\ Of(a) \in Clients
                 /\ cleanup' = [cleanup EXCEPT ![a] = "ok"]
                 /\ UNCHANGED regs
           /\ Returned(c, a)
    /\ UNCHANGED <<setups, open, current, hooks, watcher>>

OnceOver(c) ==
    /\ calls[c].at = "waiting"
    /\ cleanup[calls[c].of] \in Over
    /\ UNCHANGED cleanup
    /\ Returned(c, calls[c].of)
    /\ UNCHANGED <<setups, open, current, hooks, regs, releases, watcher>>

-----------------------------------------------------------------------------
Start(a) ==
    \/ \E line \in Lines : RefuseNil(a, line)
    \/ \E p \in Pools, dsn \in BOOLEAN : SetupPool(a, p, dsn)
    \/ \E p \in Pools : SetupOpen(a, p)
    \/ \E c \in Clients, entry \in {"Setup", "Instrument"} : InstrumentClient(a, c, entry)

Advance(a) ==
    \/ InstrumentDB(a) \/ CloseOriginal(a) \/ RegisterStats(a) \/ HandBack(a)
    \/ InstrumentMetrics(a) \/ InstrumentTracing(a)

Next ==
    \/ \E a \in Attempts : Start(a) \/ Advance(a) \/ NodeJoins(a) \/ Unwatch(a)
    \/ \E c \in Callers, a \in Attempts : CleanupCalled(c, a)
    \/ \E c \in Callers : Releases(c) \/ OnceOver(c)

SafeSpec == Init /\ [][Next]_vars

\* A Setup and a cleanup are straight-line code, a watcher waits for one thing.
Spec ==
    /\ SafeSpec
    /\ \A a \in Attempts : WF_vars(Advance(a)) /\ WF_vars(Unwatch(a))
    /\ \A c \in Callers : WF_vars(Releases(c)) /\ WF_vars(OnceOver(c))

-----------------------------------------------------------------------------
(***************************************************************************)
(* Properties.                                                             *)
(***************************************************************************)
\* "Instrumentation never breaks connectivity": whatever failed, an application
\* that had a pool, or was given one, holds one that dials and is open, and no
\* other pool of that database is open beside it (sqlobs.Setup closes the one it
\* replaces) but for the moment in which Setup swaps them.
OnePoolThatDials ==
    \A p \in Pools :
        /\ ~Busy(p) => open[p] = {current[p]} \ {NoPool}
        /\ \A pool \in open[p] : pool.dials
        /\ current[p] # NoPool => open[p] # {}

\* "A retry is clean": an attempt that failed has left neither hook on the
\* client, so one that is retried until it succeeds has each hook once.
FailureLeavesNoHook ==
    \A c \in Clients : ~Busy(c) =>
        /\ hooks[c].metrics = {a \in Attempts : setups[a].at = "done" /\ Of(a) = c}
        /\ hooks[c].tracing = hooks[c].metrics

\* A cleanup that returned has released: the gauges of a SQL pool are gone, or
\* every caller is told the error; the close channel of a Redis client is closed,
\* and what its watcher makes of that no caller is told.
CleanupMeansReleased ==
    \A c \in Callers : calls[c].at = "returned" =>
        LET a == calls[c].of
        IN  /\ calls[c].result = cleanup[a]
            /\ releases[a] = 1
            /\ Of(a) \in Pools /\ calls[c].result = "ok" => regs[a] = 0

\* What a failed Setup registered, and what a called cleanup is to release, ends
\* up released for good, nodes that join a cluster meanwhile included -- unless
\* the meter refuses: every caller of a SQL pool's cleanup is told so, and of a
\* Redis client's none, as its watcher tells otel's error handler alone.
ReleasesEnd ==
    \A a \in Attempts :
        (cleanup[a] = "running" \/ (setups[a].at = "failed" /\ Releasable(a)))
            ~> [](\/ regs[a] = 0
                  \/ Of(a) \in Pools /\ cleanup[a] = "error"
                  \/ Of(a) \in Clients /\ watcher[a] = "refused")

-----------------------------------------------------------------------------
(***************************************************************************)
(* The inductive invariant.                                                *)
(***************************************************************************)
\* An attempt works on a line of its kind, alone, and releases at most once.
SetupsInStep ==
    /\ \A a \in Attempts :
        /\ setups[a].at \in PoolSteps => Of(a) \in Pools /\ setups[a].dsn
        /\ setups[a].at \in ClientSteps => Of(a) \in Clients
        /\ At(a, "tracing") => Of(a) \in Supported
        /\ cleanup[a] # "none" => At(a, "done")
        /\ releases[a] <= 1
        /\ setups[a].at \in Steps \cup {"unborn"} \/ cleanup[a] \in {"fresh", "running"}
            => releases[a] = 0
        /\ cleanup[a] \in Over => releases[a] = 1
        /\ cleanup[a] = "ok" /\ Of(a) \in Pools => regs[a] = 0
    /\ \A a, b \in Attempts :
        setups[a].at \in Steps /\ setups[b].at \in Steps /\ Of(a) = Of(b) => a = b

\* One caller runs a release; the others wait for it, or know what came of it.
CallsInStep ==
    /\ \A c \in Callers :
        /\ calls[c].at = "running" => cleanup[calls[c].of] = "running"
        /\ calls[c].at = "waiting" => cleanup[calls[c].of] \in {"running"} \cup Over
        /\ calls[c].at = "returned" => calls[c].result = cleanup[calls[c].of]
    /\ \A c, d \in Callers :
        calls[c].at = "running" /\ calls[d].at = "running" /\ calls[c].of = calls[d].of => c = d

\* The pools of a database, before a swap, in the middle of it and after it.
PoolsInStep ==
    /\ \A p \in Pools :
        /\ ~Busy(p) => open[p] = {current[p]} \ {NoPool}
        /\ current[p] = NoPool \/ current[p].dials
        /\ current[p].by = 0 \/ At(current[p].by, "done")
    /\ \A a \in Attempts :
        /\ At(a, "instrument") => current[Of(a)] # NoPool /\ open[Of(a)] = {current[Of(a)]}
        /\ At(a, "close") => current[Of(a)] # NoPool /\ open[Of(a)] = {current[Of(a)], NewPool(a)}
        /\ setups[a].at \in {"register", "hand"} => open[Of(a)] = {NewPool(a)}

\* An attempt hooks metrics first and has hooked both when it is done.
HooksInStep ==
    \A c \in Clients, a \in Attempts :
        /\ a \in hooks[c].metrics <=> setups[a].at \in {"tracing", "done"} /\ Of(a) = c
        /\ a \in hooks[c].tracing <=> At(a, "done") /\ Of(a) = c

IInv == TypeOK /\ SetupsInStep /\ CallsInStep /\ PoolsInStep /\ HooksInStep

\* Who is to release what an attempt registered, step by step: ExporterLease.
Holder(a) ==
    IF releases[a] > 0 THEN "closed"
    ELSE IF cleanup[a] # "none" THEN "provider"
    ELSE IF At(a, "hand") \/ (setups[a].at \in ClientSteps /\ Releasable(a)) THEN "builder"
    ELSE "nobody"

Lease == INSTANCE ExporterLease WITH
    Exporters <- Attempts, holder <- [a \in Attempts |-> Holder(a)], closings <- releases

ImplementsLease == Lease!Spec

=============================================================================
