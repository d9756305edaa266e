------------------------------ MODULE Assertions ------------------------------
(***************************************************************************)
(* Package assert inside the goroutines of PanicRecovery: a callback       *)
(* asserts something that does not hold, and goes on with the error or     *)
(* halts.  Asserter.fail is a frame of its own on the goroutine's stack:   *)
(* it logs, counts and traces the failure, through a logger and a recorder *)
(* that may panic in turn.                                                 *)
(***************************************************************************)
EXTENDS PanicRecovery

CONSTANT Applications   \* wirings, and the asserters of their callbacks

\* recorder: InitAssertionMetrics', if it was called.  env: ENV or GO_ENV says
\* production.  halts: the callback calls Halt with what fail returns.
AsserterType == [by : SUBSET Goroutines, logger : Loggers,
                 recorder : {"none", "sound", "failing", "panicking"},
                 env : BOOLEAN, halts : BOOLEAN]

ASSUME AssertionsAssumption ==
  \A a \in Applications : a.setup \in Setups /\ a.asserter \in AsserterType

VARIABLES
  asserter,
  failed    \* what became of each goroutine's failed assertion

assertVars  == <<asserter, failed>>
processVars == <<vars, assertVars>>

\* Whether it was called, took a stack trace and came back; and how often each
\* sink was told, with the stack trace or without.
NotFailed == [at |-> "no", taken |-> FALSE, logs |-> 0, stackLogs |-> 0, counts |-> 0,
              events |-> 0, stackEvents |-> 0]

AssertInit ==
  /\ Init
  /\ \E a \in Applications : setup = a.setup /\ asserter = a.asserter
  /\ failed = [g \in Goroutines |-> NotFailed]

-----------------------------------------------------------------------------
(* Asserter.fail                                                           *)

Asserts(g) ==
  /\ At(g, "callback", "work")
  /\ g \in asserter.by /\ failed[g].at = "no"
  /\ Pushed(g, stack[g], Frame("assert", "stack"))
  /\ failed' = [failed EXCEPT ![g].at = "called"]
  /\ UNCHANGED <<globals, outMu, panicked, relaxed, sinks, guarded, asserter>>

\* shouldIncludeStack.
StackIncluded == ~production /\ ~asserter.env

DecideStack(g) ==
  /\ At(g, "assert", "stack")
  /\ failed' = [failed EXCEPT ![g].taken = StackIncluded]
  /\ Becomes(g, Moved(g, "log"))
  /\ UNCHANGED <<globals, outMu, panicked, relaxed, sinks, guarded, process, asserter>>

\* logAssertionStructured; with no logger, a line on stderr.
LogFailure(g) ==
  /\ At(g, "assert", "log")
  /\ failed' = [failed EXCEPT ![g].logs = @ + 1]
  /\ CallLogger(g, asserter.logger, Moved(g, "stackLog"))
  /\ UNCHANGED <<globals, sinks, asserter>>

LogStack(g) ==
  /\ At(g, "assert", "stackLog")
  /\ \/ /\ failed[g].taken /\ asserter.logger # "nil"
        /\ failed' = [failed EXCEPT ![g].stackLogs = @ + 1]
        /\ CallLogger(g, asserter.logger, Moved(g, "count"))
     \/ /\ ~failed[g].taken \/ asserter.logger = "nil"
        /\ Becomes(g, Moved(g, "count"))
        /\ UNCHANGED <<failed, outMu, panicked, relaxed, guarded, process>>
  /\ UNCHANGED <<globals, sinks, asserter>>

\* RecordAssertionFailed; a recorder that fails is told of on stderr.
CountFailure(g) ==
  /\ At(g, "assert", "count")
  /\ failed' = [failed EXCEPT ![g].counts = @ + (IF asserter.recorder = "sound" THEN 1 ELSE 0)]
  /\ \/ asserter.recorder = "panicking" /\ Panics(g)
     \/ /\ asserter.recorder # "panicking"
        /\ Becomes(g, Moved(g, "span"))
        /\ UNCHANGED <<outMu, panicked, relaxed, process>>
  /\ UNCHANGED <<globals, sinks, guarded, asserter>>

\* Mutant: the event asks again whether to include the stack.
IncludedNow(g) == StackIncluded

\* What fail hands on to the event.
Included(g) == failed[g].taken

\* recordAssertionToSpan.
TraceFailure(g) ==
  /\ At(g, "assert", "span")
  /\ failed' = [failed EXCEPT ![g].events = @ + 1,
                              ![g].stackEvents = @ + (IF Included(g) THEN 1 ELSE 0)]
  /\ Becomes(g, Moved(g, "return"))
  /\ UNCHANGED <<globals, outMu, panicked, relaxed, sinks, guarded, process, asserter>>

\* The error is back with the callback, which goes on, or halts: runtime.Goexit
\* runs the deferred recovery, which finds no panic.
ReturnFailure(g) ==
  /\ At(g, "assert", "return")
  /\ failed' = [failed EXCEPT ![g].at = "returned"]
  /\ Becomes(g, IF asserter.halts THEN <<>> ELSE Returned(g))
  /\ UNCHANGED <<globals, outMu, panicked, relaxed, sinks, guarded, process, asserter>>

Assertion(g) == Asserts(g) \/ DecideStack(g) \/ LogFailure(g) \/ LogStack(g)
                \/ CountFailure(g) \/ TraceFailure(g) \/ ReturnFailure(g)

AssertingGoroutine(g) == Assertion(g) \/ (Goroutine(g) /\ UNCHANGED assertVars)

AssertNext ==
  \/ Application /\ UNCHANGED assertVars
  \/ \E g \in Goroutines : AssertingGoroutine(g)

AssertSafe == AssertInit /\ [][AssertNext]_processVars
AssertSpec == AssertSafe /\ \A g \in Goroutines : WF_processVars(AssertingGoroutine(g))

-----------------------------------------------------------------------------
(* Properties                                                              *)

\* An assertion that comes back with its error has told each sink once, the span
\* and the log both with a stack trace or both without, however production mode is
\* switched meanwhile and whatever the logger's guard had to recover; and one that
\* has nothing unguarded to report to is under way or has come back.
AssertionToldAlike == \A g \in Goroutines :
  /\ failed[g].at = "returned" =>
       /\ failed[g].logs = 1 /\ failed[g].events = 1
       /\ asserter.recorder = "sound" => failed[g].counts = 1
       /\ asserter.logger # "nil" => failed[g].stackLogs = failed[g].stackEvents
  /\ process = "up" /\ failed[g].at = "called"
       /\ asserter.logger # "bare" /\ asserter.recorder # "panicking"
     => \E i \in 1..Depth(g) : stack[g][i].kind = "assert"
=============================================================================
