---------------------------- MODULE PanicRecovery ----------------------------
(***************************************************************************)
(* What happens to a panic: in a goroutine started with SafeGo* (package   *)
(* runtime), and inside a foreign logger behind log.Adapt or log.Guard.    *)
(* Both report through the same counter, and reporting logs, so one panic  *)
(* report can run inside another.                                          *)
(*                                                                         *)
(* Each goroutine has a call stack of frames: its callback, the deferred   *)
(* RecoverWithPolicyAndContext once the callback panicked, a reportLogger- *)
(* Panic for every logger panic being reported, a log.Print that was       *)
(* redirected into an adapted logger, and the failed assertion of module   *)
(* Assertions.  MaxStack bounds the stack (the runtime's own bound is a    *)
(* fatal error too).                                                       *)
(***************************************************************************)
EXTENDS Naturals, Sequences, FiniteSets

CONSTANTS
  Goroutines,
  Setups,     \* how the process is wired, see SetupType
  MaxStack    \* bound: frames on one goroutine's stack

\* A logger is absent, sound, foreign and unguarded, or foreign behind Adapt.
Loggers == {"nil", "sound", "bare", "adapted"}

SetupType == [policy : [Goroutines -> {"KeepRunning", "CrashProcess"}],
              logger : Loggers,                              \* SafeGo's logger
              recorder : {"sound", "failing", "panicking"},  \* InitPanicMetrics'
              metricsLogger : Loggers,
              reporter : {"none", "sound", "panicking"},     \* SetErrorReporter's
              stdlog : {"plain", "bare", "adapted"}]         \* log.SetOutput

ASSUME PanicAssumption == Setups \subseteq SetupType /\ MaxStack \in Nat \ {0}

VARIABLES
  setup,       \* fixed by Init
  production,  \* panicobs.productionMode
  instance,    \* panicMetricsInstance # nil
  counter,     \* panicobs.counter # nil
  outMu,       \* who holds the stdlib logger's output lock, or None
  stack,       \* the frames of each goroutine, the innermost last
  panicked,    \* whether its callback panicked
  relaxed,     \* whether production mode was off at some moment since then
  sinks,       \* what each sink was told of that panic
  guarded,     \* logger panics its guards recovered, and those put on the span
  process      \* "up", "policy" (CrashProcess), "unrecovered" or "overflow"

globals == <<setup, production, instance, counter>>
vars == <<globals, outMu, stack, panicked, relaxed, sinks, guarded, process>>

None     == "none"
ASSUME NoneAssumption == None \notin Goroutines

NoReport == [log |-> None, span |-> None, error |-> None]
Frame(kind, at) == [kind |-> kind, at |-> at]

Init ==
  /\ setup \in Setups
  /\ production = FALSE /\ instance = FALSE /\ counter = FALSE
  /\ outMu = None
  /\ stack    = [g \in Goroutines |-> <<Frame("callback", "log")>>]
  /\ panicked = [g \in Goroutines |-> FALSE]
  /\ relaxed  = [g \in Goroutines |-> FALSE]
  /\ sinks    = [g \in Goroutines |-> NoReport]
  /\ guarded  = [g \in Goroutines |-> [panics |-> 0, traced |-> 0]]
  /\ process  = "up"

-----------------------------------------------------------------------------
(* The switches an application turns, at any time.                         *)

SetProductionMode ==
  /\ production' \in BOOLEAN \ {production}
  /\ relaxed' = [g \in Goroutines |-> relaxed[g] \/ (panicked[g] /\ ~production')]
  /\ UNCHANGED <<setup, instance, counter, outMu, stack, panicked, sinks, guarded, process>>

\* The first recorder wins; the counter stays installed after a reset, but
\* reads the instance every time.
InitPanicMetrics ==
  /\ instance' = TRUE /\ counter' = TRUE
  /\ UNCHANGED <<setup, production, outMu, stack, panicked, relaxed, sinks, guarded, process>>

ResetPanicMetrics ==
  /\ instance' = FALSE
  /\ UNCHANGED <<setup, production, counter, outMu, stack, panicked, relaxed,
                 sinks, guarded, process>>

-----------------------------------------------------------------------------
(* Stacks                                                                  *)

Depth(g) == Len(stack[g])
Top(g)   == stack[g][Depth(g)]
At(g, kind, at) == process = "up" /\ Depth(g) > 0 /\ Top(g) = Frame(kind, at)

\* The stack once the innermost frame went on to this step.
Moved(g, at)     == [stack[g] EXCEPT ![Depth(g)].at = at]
Returned(g)      == SubSeq(stack[g], 1, Depth(g) - 1)
Becomes(g, s)    == stack' = [stack EXCEPT ![g] = s]

\* A panic unwinds to the innermost guard, which drops it, or to the callback's
\* deferred recovery; a panic in that recovery itself is nobody's.
Catchers(g) == {i \in 1..Depth(g) : stack[g][i].kind = "guard"}
Panics(g) ==
  IF Catchers(g) # {}
  THEN \E i \in Catchers(g) :
       /\ \A j \in Catchers(g) : j <= i
       /\ Becomes(g, SubSeq(stack[g], 1, i - 1))
       /\ outMu' = IF outMu = g /\ ~\E j \in 1..(i - 1) : stack[g][j].kind = "print"
                   THEN None ELSE outMu
       /\ UNCHANGED <<panicked, relaxed, process>>
  ELSE IF stack[g][1].kind = "callback"
  THEN /\ Becomes(g, <<Frame("recovery", "log")>>)
       /\ panicked' = [panicked EXCEPT ![g] = TRUE]
       /\ relaxed' = [relaxed EXCEPT ![g] = ~production]
       /\ UNCHANGED <<outMu, process>>
  ELSE /\ process' = "unrecovered"
       /\ UNCHANGED <<outMu, stack, panicked, relaxed>>

\* A new frame over s, if the stack has room for it.
Pushed(g, s, frame) ==
  IF Len(s) < MaxStack
  THEN Becomes(g, Append(s, frame)) /\ UNCHANGED process
  ELSE process' = "overflow" /\ UNCHANGED stack

\* The deferred recover of the Adapt shim and of each method of a Guard.
GuardRecovers(g, s) ==
  /\ guarded' = [guarded EXCEPT ![g].panics = @ + 1]
  /\ Pushed(g, s, Frame("guard", "count"))
  /\ UNCHANGED <<outMu, panicked, relaxed>>

\* Calling a logger and going on with stack s: a foreign logger may panic, and
\* a guard recovers that panic and reports it.
CallLogger(g, logger, s) ==
  \/ /\ Becomes(g, s)
     /\ UNCHANGED <<outMu, panicked, relaxed, guarded, process>>
  \/ logger = "bare" /\ Panics(g) /\ UNCHANGED guarded
  \/ logger = "adapted" /\ GuardRecovers(g, s)

\* recordPanicMetric: a failing recorder is logged about, by a logger again.
RecordPanicMetric(g, s) ==
  \/ /\ ~instance \/ setup.recorder = "sound"
     /\ Becomes(g, s) /\ UNCHANGED <<outMu, panicked, relaxed, guarded, process>>
  \/ instance /\ setup.recorder = "failing" /\ CallLogger(g, setup.metricsLogger, s)
  \/ instance /\ setup.recorder = "panicking" /\ Panics(g) /\ UNCHANGED guarded

-----------------------------------------------------------------------------
(* The callback of a SafeGo goroutine: it may log, and ends or panics.     *)

CallbackLogs(g) ==
  /\ At(g, "callback", "log")
  /\ CallLogger(g, setup.logger, Moved(g, "work"))
  /\ UNCHANGED <<globals, sinks>>

CallbackReturns(g) ==
  /\ At(g, "callback", "work")
  /\ Becomes(g, <<>>)
  /\ UNCHANGED <<globals, outMu, panicked, relaxed, sinks, guarded, process>>

CallbackPanics(g) ==
  /\ At(g, "callback", "work")
  /\ Panics(g)
  /\ UNCHANGED <<globals, sinks, guarded>>

-----------------------------------------------------------------------------
(* RecoverWithPolicyAndContext                                             *)

\* Mutant: the policy is applied before the reporter is called.
ReporterLast(at) == [log |-> "metric", metric |-> "span", span |-> "policy"][at]

\* The order of the deferred function's steps.
NextReport(at) ==
  [log |-> "metric", metric |-> "span", span |-> "error", error |-> "policy"][at]

\* Mutant: the switch is read the wrong way round.
DetailInverted == IF production THEN "full" ELSE "redacted"

\* What log and error reporter are given of the panic value and its stack.
Detail == IF production THEN "redacted" ELSE "full"

LogPanic(g) ==
  /\ At(g, "recovery", "log")
  /\ CallLogger(g, setup.logger, Moved(g, NextReport("log")))
  /\ sinks' = [sinks EXCEPT ![g].log = IF setup.logger = "nil" THEN None ELSE Detail]
  /\ UNCHANGED globals

RecordMetric(g) ==
  /\ At(g, "recovery", "metric")
  /\ RecordPanicMetric(g, Moved(g, NextReport("metric")))
  /\ UNCHANGED <<globals, sinks>>

\* The span gets the value, cleaned of secrets by their names, and the stack:
\* nothing here asks for the mode.
RecordSpan(g) ==
  /\ At(g, "recovery", "span")
  /\ sinks' = [sinks EXCEPT ![g].span = "full"]
  /\ Becomes(g, Moved(g, NextReport("span")))
  /\ UNCHANGED <<globals, outMu, panicked, relaxed, guarded, process>>

\* Mutant: nothing recovers the reporter's panic.
CaptureUnguarded(g, s) ==
  IF setup.reporter = "panicking" THEN Panics(g)
  ELSE Becomes(g, s) /\ UNCHANGED <<outMu, panicked, relaxed, process>>

\* A reporter's own panic is recovered where it is called.
CaptureException(g, s) ==
  Becomes(g, s) /\ UNCHANGED <<outMu, panicked, relaxed, process>>

ReportError(g) ==
  /\ At(g, "recovery", "error")
  /\ sinks' = [sinks EXCEPT ![g].error = IF setup.reporter = "none" THEN None ELSE Detail]
  /\ CaptureException(g, Moved(g, NextReport("error")))
  /\ UNCHANGED <<globals, guarded>>

\* Mutant: to keep running is to run the callback again.
RunAgain(g) == <<Frame("callback", "log")>>

\* The process keeps running, the goroutine does not.
KeepRunning(g) == <<>>

ApplyPolicy(g) ==
  /\ At(g, "recovery", "policy")
  /\ IF setup.policy[g] = "CrashProcess"
     THEN process' = "policy" /\ UNCHANGED stack
     ELSE Becomes(g, KeepRunning(g)) /\ UNCHANGED process
  /\ UNCHANGED <<globals, outMu, panicked, relaxed, sinks, guarded>>

-----------------------------------------------------------------------------
(* reportLoggerPanic: count, then span, then the line that may panic.      *)

\* Mutant: the fallback line goes first, and nothing runs after its panic.
FallbackFirst(at) == IF at = "count" THEN "fallback" ELSE "return"

NextStep(at) == IF at = "count" THEN "span" ELSE "fallback"

GuardCounts(g) ==
  /\ At(g, "guard", "count")
  /\ \/ /\ ~counter
        /\ Becomes(g, Moved(g, NextStep("count")))
        /\ UNCHANGED <<outMu, panicked, relaxed, guarded, process>>
     \/ counter /\ RecordPanicMetric(g, Moved(g, NextStep("count")))
  /\ UNCHANGED <<globals, sinks>>

GuardTraces(g) ==
  /\ At(g, "guard", "span")
  /\ guarded' = [guarded EXCEPT ![g].traced = @ + 1]
  /\ Becomes(g, Moved(g, NextStep("span")))
  /\ UNCHANGED <<globals, outMu, panicked, relaxed, sinks, process>>

\* The stdlib logger holds its output lock while it writes, and the writer may
\* be the very logger that panicked, bare or behind its guard.
GuardFallsBack(g) ==
  /\ At(g, "guard", "fallback")
  /\ outMu = None
  /\ \/ /\ setup.stdlog # "adapted"
        /\ Becomes(g, Returned(g))
        /\ UNCHANGED <<outMu, panicked, relaxed, process>>
     \/ setup.stdlog = "bare" /\ Panics(g)
     \/ /\ setup.stdlog = "adapted"
        /\ outMu' = g
        /\ Pushed(g, Moved(g, "return"), Frame("print", "write"))
        /\ UNCHANGED <<panicked, relaxed>>
  /\ UNCHANGED <<globals, sinks, guarded>>

GuardReturns(g) ==
  /\ At(g, "guard", "return")
  /\ Becomes(g, Returned(g))
  /\ UNCHANGED <<globals, outMu, panicked, relaxed, sinks, guarded, process>>

PrintWrites(g) ==
  /\ At(g, "print", "write")
  /\ CallLogger(g, "adapted", Moved(g, "written"))
  /\ UNCHANGED <<globals, sinks>>

PrintReturns(g) ==
  /\ At(g, "print", "written")
  /\ Becomes(g, Returned(g))
  /\ outMu' = None
  /\ UNCHANGED <<globals, panicked, relaxed, sinks, guarded, process>>

Callback(g) == CallbackLogs(g) \/ CallbackReturns(g) \/ CallbackPanics(g)
Recovery(g) == LogPanic(g) \/ RecordMetric(g) \/ RecordSpan(g) \/ ReportError(g)
               \/ ApplyPolicy(g)
Guard(g)    == GuardCounts(g) \/ GuardTraces(g) \/ GuardFallsBack(g)
               \/ GuardReturns(g) \/ PrintWrites(g) \/ PrintReturns(g)

Goroutine(g) == Callback(g) \/ Recovery(g) \/ Guard(g)
Application  == process = "up"
                /\ (SetProductionMode \/ InitPanicMetrics \/ ResetPanicMetrics)

Next == Application \/ \E g \in Goroutines : Goroutine(g)

\* A goroutine that is not blocked runs.
Spec == Init /\ [][Next]_vars /\ \A g \in Goroutines : WF_vars(Goroutine(g))

-----------------------------------------------------------------------------
(* Properties                                                              *)

\* Stacks are stacks of known frames, and every other variable has its type.
Frames == {Frame("callback", at) : at \in {"log", "work"}}
          \cup {Frame("recovery", at) : at \in {"log", "metric", "span", "error", "policy"}}
          \cup {Frame("assert", at) : at \in {"stack", "log", "stackLog", "count", "span", "return"}}
          \cup {Frame("guard", at) : at \in {"count", "span", "fallback", "return"}}
          \cup {Frame("print", at) : at \in {"write", "written"}}
TypeOK ==
  /\ setup \in Setups
  /\ production \in BOOLEAN /\ instance \in BOOLEAN /\ counter \in BOOLEAN
  /\ outMu \in Goroutines \cup {None}
  /\ stack \in [Goroutines -> Seq(Frames)]
  /\ panicked \in [Goroutines -> BOOLEAN] /\ relaxed \in [Goroutines -> BOOLEAN]
  /\ sinks \in [Goroutines -> [{"log", "span", "error"} -> {None, "redacted", "full"}]]
  /\ guarded \in [Goroutines -> [panics : Nat, traced : Nat]]
  /\ process \in {"up", "policy", "unrecovered", "overflow"}

\* Under KeepRunning no panic ends the process, whatever the reporter, the
\* stdlib logger and other goroutines do, as long as no unguarded logger and no
\* broken recorder sits in the report path.
KeepRunningSurvives ==
  /\ \A g \in Goroutines : setup.policy[g] = "KeepRunning"
  /\ setup.logger # "bare"
  /\ \/ setup.recorder = "sound"
     \/ setup.recorder = "failing" /\ setup.metricsLogger \in {"nil", "sound"}
  => process = "up"

\* While production mode is on from the panic onwards, neither the log line nor
\* the error reporter is given the panic's details, however often the switch was
\* turned before.  The span is, in any mode: see PolicyCrashIsReported.
RedactionHolds == \A g \in Goroutines :
  panicked[g] /\ ~relaxed[g] => "full" \notin {sinks[g].log, sinks[g].error}

\* A logger panic reaches the span whatever becomes of the fallback line: all
\* but the reports still before that step are on it.
TraceSurvivesFallback ==
  setup.recorder = "sound" =>
    \A g \in Goroutines :
      guarded[g].panics = guarded[g].traced
        + Cardinality({i \in 1..Depth(g) : stack[g][i].kind = "guard"
                                           /\ stack[g][i].at \in {"count", "span"}})

\* CrashProcess crashes on a panic that every sink there is was told of, the span
\* in full whatever the mode ("the span always gets it, as runtime's does").
PolicyCrashIsReported == process = "policy" =>
  \E g \in Goroutines :
    /\ setup.policy[g] = "CrashProcess" /\ panicked[g] /\ sinks[g].span = "full"
    /\ setup.logger # "nil" => sinks[g].log # None
    /\ setup.reporter # "none" => sinks[g].error # None

\* What makes redaction inductive.  Only the bottom frame is the goroutine's
\* own, and it is the recovery from its panic onwards.
GoodStack(s) ==
  /\ s \in Seq(Frames)
  /\ \A i \in 1..Len(s) : s[i].kind \in {"callback", "recovery"} <=> i = 1
Base(s) == IF s = <<>> THEN "none" ELSE s[1].kind

StackInv == \A g \in Goroutines :
  /\ GoodStack(stack[g])
  /\ Base(stack[g]) = "callback" => ~panicked[g]
  /\ Base(stack[g]) = "recovery" => panicked[g]

\* No sink hears of a panic before it; since an unrelaxed one the mode is on.
RedactionInv == \A g \in Goroutines :
  /\ ~panicked[g] => sinks[g] = NoReport
  /\ panicked[g] /\ ~relaxed[g] => production

IInv == TypeOK /\ StackInv /\ RedactionInv /\ RedactionHolds

\* A panicking goroutine comes to an end: reporting its panic never hangs, as
\* long as the stdlib logger does not write into a guarded logger.
ReportEnds == \A g \in Goroutines :
  panicked[g] /\ setup.stdlog # "adapted" ~> stack[g] = <<>> \/ process # "up"

\* Comment of reportLoggerPanic: the fallback line may be "redirected into the
\* logger that panicked"; it then still comes back to the caller.
FallbackReturns == \A g \in Goroutines : ~(At(g, "guard", "fallback") /\ outMu = g)
=============================================================================
