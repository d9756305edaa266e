---------------------------- MODULE HttpPipeline ----------------------------
(***************************************************************************)
(* One HTTP request through a Fiber application that uses this library's   *)
(* middleware: down the chain with c.Next(), through the route handler,    *)
(* and back up by a returned error or by a panic, to Fiber's dispatch.     *)
(*                                                                         *)
(* The stack of open middleware frames is Setup.chain[1..depth].  Fiber,   *)
(* its recover middleware, the application's own middleware, its handlers  *)
(* and its ErrorHandler are the environment; they do anything their types  *)
(* allow.  Requests share nothing here but commutative counters, so one    *)
(* request stands for all.                                                 *)
(***************************************************************************)
EXTENDS Naturals, Integers, Sequences

CONSTANTS
  Setups   \* the applications and requests considered, see SetupType

Frames == {"recover",    \* Fiber's recover middleware
           "logging",    \* WithHTTPLogging
           "telemetry",  \* WithTelemetry, WithAuthenticatedTenantHTTPMetrics
           "tracing",    \* WithTracingOnly
           "metered",    \* WithTelemetry over a Telemetry with no TracerProvider
           "endspans",   \* EndTracingSpans
           "finalizer",  \* WithHTTPErrorHandling
           "app"}        \* a middleware of the application

Traced(f)       == f \in {"telemetry", "tracing"}
Metered(f)      == f \in {"telemetry", "metered"}
IsTelemetry(f)  == Traced(f) \/ Metered(f)

\* Where the request comes from.  A refusal is a request fasthttp refused
\* before routing, in an application that called LogRefusalsBeforeRouting:
\* Fiber runs the Use chain over it, unless it does not know its method, and
\* then renders the refusal; "nothingRead" is a bare network error.
Refusals == {"refused", "unknownMethod", "nothingRead"}
Kinds    == {"routed"} \cup Refusals

SetupType == [chain : Seq(Frames), kind : Kinds,
              errorHandler : {"default", "custom", "failing", "panicking"},
              excludedLog : BOOLEAN, excludedTel : BOOLEAN]

ASSUME SetupAssumption ==
  /\ Setups \subseteq SetupType
  \* a middleware of the library registered twice is documented as a mistake
  /\ \A s \in Setups : \A i, j \in 1..Len(s.chain) :
       \/ i = j
       \/ s.chain[i] \in {"app", "recover"}
       \/ /\ s.chain[i] # s.chain[j]
          /\ ~(IsTelemetry(s.chain[i]) /\ IsTelemetry(s.chain[j]))

-----------------------------------------------------------------------------
(* Errors.  A handler can return, and a panic can carry, any of these.     *)

None     == "none"
Returned == {"plain", "unsafe", "fiber404", "joined404", "typedNil"}
Errors   == Returned \cup {"fiber500", "refusal"}
Statuses == {200, 404, 500}      \* what handlers and ErrorHandlers set
AllStatuses == Statuses \cup {413}

\* The status of the first non-nil *fiber.Error in the error's tree, else 500.
Code(e) == CASE e \in {"fiber404", "joined404"} -> 404
             [] e = "refusal"                   -> 413
             [] OTHER                           -> 500

\* Whether Error() can be called: a typed nil down the tree makes it panic.
IsSafeToStringify(e) == e \notin {"unsafe", "joined404"}

\* A top-level typed nil is an error, and a 500; anything else passes intact.
Normalize(e) == IF e = "typedNil" THEN "fiber500" ELSE e

\* Mutant: the error is handed over as it is.
PrintableAsIs(e) == e

\* What WithHTTPErrorHandling hands to the ErrorHandler instead of an error
\* nobody can print: the fiber error in its tree, or a 500 of its own.
Printable(e) == CASE IsSafeToStringify(e) -> e
                  [] e = "joined404"      -> "fiber404"
                  [] OTHER                -> "fiber500"

-----------------------------------------------------------------------------
VARIABLES
  setup,     \* the application and the request, fixed by Init
  phase,     \* "down", "up", "panic", "rendered", "served" or "crashed"
  depth,     \* open frames
  carried,   \* the error on its way up, or the error recover makes of a panic
  response,  \* the response's status code
  ctx,       \* what c.Context() holds
  final,     \* WithHTTPErrorHandling's httpResponseState
  cause,     \* the error in the slot WithHTTPLogging installed
  span,      \* the server span WithTelemetry owns
  child,     \* the span the handler put in the context, if it did
  lines,     \* the access lines written
  durations, \* the statuses http.server.request.duration was recorded with
  active,    \* http.server.active_requests
  mark,      \* whether WithTelemetry left its histogram in the refusal's mark
  renders,   \* how often the application's ErrorHandler was invoked
  handled,   \* what the route handler did: None, an error, "ok" or "panic"
  own        \* what the application's middleware did of its own, see NoOwn

history == <<handled, own>>
signals == <<span, child, lines, durations, active>>
vars == <<setup, phase, depth, carried, response, ctx, final, cause, signals,
          mark, renders, history>>

chain == setup.chain
Top   == chain[depth]
Next1 == chain[depth + 1]   \* the frame c.Next() enters

\* After c.Next() it changed a response the finalizer had decided; it answered
\* for a request without a decision, and no cause was recorded; it returned an
\* error of its own after the decision.
NoOwn == [rewrote |-> FALSE, silent |-> FALSE, rogue |-> FALSE]

NoSpan == [state |-> "none", status |-> 0, failed |-> FALSE, cause |-> FALSE]

Init ==
  /\ setup \in Setups
  /\ phase = IF setup.kind = "unknownMethod" THEN "up" ELSE "down"
  /\ depth = 0 /\ carried = None /\ response = 200
  /\ ctx = [finalizer |-> FALSE, owned |-> FALSE, slot |-> FALSE, span |-> "none"]
  /\ final = [finalized |-> FALSE, status |-> 0, err |-> None]
  /\ cause = None
  /\ span = NoSpan /\ child = NoSpan
  /\ lines = <<>> /\ durations = <<>> /\ active = 0
  /\ mark = FALSE /\ renders = 0 /\ handled = None /\ own = NoOwn

Refused == setup.kind \in Refusals

\* The path is on this middleware's list of excluded routes.
Excluded(f) == \/ f = "logging" /\ setup.excludedLog
               \/ IsTelemetry(f) /\ setup.excludedTel

\* Mutant: the refusal's mark is not looked at.
SkipsExcludedOnly(f) == Excluded(f)

\* A middleware that does nothing but nextWithNormalizedHTTPError.
Skips(f) == Excluded(f) \/ (Refused /\ (f = "logging" \/ IsTelemetry(f)))

Enter == phase = "down" /\ depth < Len(chain) /\ depth' = depth + 1
Leave(p) == phase = p /\ depth > 0 /\ depth' = depth - 1

-----------------------------------------------------------------------------
(* Down: what each middleware does before c.Next().                        *)

EnterPassive ==
  /\ Enter
  /\ Next1 \in {"recover", "endspans", "app"} \/ Skips(Next1)
  \* a telemetry handler that is not excluded leaves its histogram in the mark
  /\ mark' = (mark \/ (Metered(Next1) /\ Refused /\ ~setup.excludedTel))
  /\ UNCHANGED <<setup, phase, carried, response, ctx, final, cause, signals,
                 renders, history>>

EnterLogging ==
  /\ Enter /\ Next1 = "logging" /\ ~Skips(Next1)
  /\ ctx' = [ctx EXCEPT !.slot = TRUE]
  /\ UNCHANGED <<setup, phase, carried, response, final, cause, signals, mark,
                 renders, history>>

EnterTelemetry ==
  /\ Enter /\ IsTelemetry(Next1) /\ ~Skips(Next1)
  /\ active' = IF Metered(Next1) THEN active + 1 ELSE active
  /\ IF Traced(Next1)
     THEN /\ span' = [span EXCEPT !.state = "open"]
          /\ ctx' = [ctx EXCEPT !.span = "server", !.owned = TRUE]
     ELSE UNCHANGED <<span, ctx>>
  /\ UNCHANGED <<setup, phase, carried, response, final, cause, child, lines,
                 durations, mark, renders, history>>

EnterFinalizer ==
  /\ Enter /\ Next1 = "finalizer"
  /\ ctx' = [ctx EXCEPT !.finalizer = TRUE]
  /\ UNCHANGED <<setup, phase, carried, response, final, cause, signals, mark,
                 renders, history>>

-----------------------------------------------------------------------------
(* The route handler.                                                      *)

AtHandler == phase = "down" /\ depth = Len(chain)

\* RecordErrorCause: the first cause wins, and only a slot keeps it.
Records(e) == cause' = IF ctx.slot /\ cause = None THEN e ELSE cause

\* Whoever answers a request itself may leave any status, and name the cause
\* of one that is an error.
Answers(s) ==
  /\ response' = s
  /\ \/ UNCHANGED cause
     \/ s >= 400 /\ Records("plain")

\* An application middleware that answers itself, without c.Next(): it renders
\* the response, or returns an error, or panics.
ShortCircuit ==
  /\ Enter /\ Next1 = "app"
  /\ \/ /\ phase' = "up" /\ UNCHANGED carried
        /\ \E s \in Statuses : Answers(s)
     \/ /\ phase' \in {"up", "panic"} /\ UNCHANGED <<response, cause>>
        /\ \E e \in Returned : carried' = e
  /\ UNCHANGED <<setup, ctx, final, signals, mark, renders, history>>

\* It may put a span of its own, or a context of its own, in c.Context(); a
\* fresh context has none of the keys the middleware left there.
TouchesContext ==
  \/ UNCHANGED <<ctx, child>>
  \/ /\ ctx' = [ctx EXCEPT !.span = "child"]
     /\ child' = [child EXCEPT !.state = "open"]
  \/ /\ ctx' = [finalizer |-> FALSE, owned |-> FALSE, slot |-> FALSE, span |-> "none"]
     /\ UNCHANGED child

HandlerReturns ==
  /\ AtHandler /\ ~Refused
  /\ \E s \in Statuses, e \in Returned \cup {None} :
       /\ carried' = e
       /\ handled' = IF e = None THEN "ok" ELSE e
       /\ Answers(s)
  /\ TouchesContext
  /\ phase' = "up"
  /\ UNCHANGED <<setup, depth, final, span, lines, durations, active, mark, renders,
                 own>>

HandlerPanics ==
  /\ AtHandler /\ ~Refused
  /\ \E e \in Returned : carried' = e
  /\ TouchesContext
  /\ handled' = "panic" /\ phase' = "panic"
  /\ UNCHANGED <<setup, depth, response, final, cause, span, lines, durations,
                 active, mark, renders, own>>

\* Nothing is decided for a refused request: no handler, status still 200.
NoRoute ==
  /\ AtHandler /\ Refused
  /\ phase' = "up"
  /\ UNCHANGED <<setup, depth, carried, response, ctx, final, cause, signals,
                 mark, renders, history>>

-----------------------------------------------------------------------------
(* The application's ErrorHandler, invoked with e: how it ends, and the    *)
(* status it leaves.  Fiber's default one prints the error.                *)

ErrorHandler(e) ==
  CASE setup.errorHandler = "default" ->
         {[ends |-> IF IsSafeToStringify(e) THEN "ok" ELSE "panic",
           status |-> IF IsSafeToStringify(e) THEN Code(e) ELSE response]}
    [] setup.errorHandler = "custom"  -> {[ends |-> "ok", status |-> s] : s \in Statuses}
    [] setup.errorHandler = "failing" -> {[ends |-> "error", status |-> s] : s \in Statuses}
    [] OTHER                          -> {[ends |-> "panic", status |-> s] : s \in Statuses}

\* An ErrorHandler that fails is replaced by a plain 500.
StatusAfter(out) == IF out.ends = "ok" THEN out.status ELSE 500

-----------------------------------------------------------------------------
(* Up: what each middleware does when c.Next() returns.                    *)

\* The status of an error nobody decided on: Fiber will render it.
HttpStatusCode(e) == IF e = None THEN response ELSE Code(e)

\* Mutant: the error a middleware returned above the finalizer goes on.
ResolvedKeepsRogue ==
  LET n == Normalize(carried) IN
  IF ctx.finalizer /\ final.finalized
  THEN [status |-> final.status, chainErr |-> n, handlerErr |-> final.err]
  ELSE [status |-> HttpStatusCode(n), chainErr |-> n, handlerErr |-> n]

\* resolveHTTPResponse: what the finalizer decided, when the context still
\* leads to it, whatever error was returned above it; else the error's own.
Resolved ==
  LET n == Normalize(carried) IN
  IF ctx.finalizer /\ final.finalized
  THEN [status |-> final.status, chainErr |-> None, handlerErr |-> final.err]
  ELSE [status |-> HttpStatusCode(n), chainErr |-> n, handlerErr |-> n]

\* Mutant: only a recorded cause is logged.
OrElseDefault(e, default) == default

OrElse(e, default) == IF e = None THEN default ELSE e

\* A middleware with nothing to do on the way up but normalize the error.
LeavePassive ==
  /\ Leave("up")
  /\ Top \in {"recover", "app"} \/ Skips(Top)
  /\ carried' = IF Top \in {"recover", "app"} THEN carried ELSE Normalize(carried)
  /\ UNCHANGED <<setup, phase, response, ctx, final, cause, signals, mark,
                 renders, history>>

WriteAccessLine(status, why) == lines' = Append(lines, [status |-> status, cause |-> why])

LeaveLogging ==
  /\ Leave("up") /\ Top = "logging" /\ ~Skips(Top)
  /\ WriteAccessLine(Resolved.status, OrElse(Resolved.handlerErr, cause))
  /\ carried' = Resolved.chainErr
  /\ UNCHANGED <<setup, phase, response, ctx, final, cause, span, child,
                 durations, active, mark, renders, history>>

\* finish and the deferred calls, for a request that ended with this status.
FinishTelemetry(f, status, err) ==
  /\ durations' = IF Metered(f) THEN Append(durations, status) ELSE durations
  /\ active' = IF Metered(f) THEN active - 1 ELSE active
  /\ span' = IF Traced(f)
             THEN [state |-> "ended", status |-> status, failed |-> status >= 500,
                   cause |-> err # None]
             ELSE span

LeaveTelemetry ==
  /\ Leave("up") /\ IsTelemetry(Top) /\ ~Skips(Top)
  /\ FinishTelemetry(Top, Resolved.status, Resolved.handlerErr)
  /\ carried' = Resolved.chainErr
  /\ UNCHANGED <<setup, phase, response, ctx, final, cause, child, lines, mark,
                 renders, history>>

\* Mutant: it ends the span whoever owns it.
EndSpanOfOthers(failed) ==
  LET End(s) == [s EXCEPT !.state = "ended", !.failed = @ \/ failed] IN
  /\ child' = IF ctx.span = "child" THEN End(child) ELSE child
  /\ span'  = IF ctx.span = "server" THEN End(span) ELSE span

\* endRequestSpan ends the context's span unless WithTelemetry owns it.
EndRequestSpan(failed) ==
  LET End(s) == [s EXCEPT !.state = "ended", !.failed = @ \/ failed] IN
  /\ child' = IF ~ctx.owned /\ ctx.span = "child" THEN End(child) ELSE child
  /\ span'  = IF ~ctx.owned /\ ctx.span = "server" THEN End(span) ELSE span

LeaveEndSpans ==
  /\ Leave("up") /\ Top = "endspans"
  /\ EndRequestSpan(FALSE)
  /\ carried' = Normalize(carried)
  /\ UNCHANGED <<setup, phase, response, ctx, final, cause, lines, durations,
                 active, mark, renders, history>>

\* Mutant: the status is read before the ErrorHandler ran.
DecideEarly(out, err) ==
  final' = [finalized |-> TRUE, status |-> response, err |-> err]

Decide(out, err) ==
  final' = [finalized |-> TRUE, status |-> StatusAfter(out), err |-> err]

\* Mutant: the rendered error is returned too.
ReturnsRendered(n) == n

\* It returns nil, so that Fiber does not render the error a second time.
FinalizerReturns(n) == None

\* The finalizer renders a returned error and decides the response.
LeaveFinalizer ==
  /\ Leave("up") /\ Top = "finalizer"
  /\ LET n    == Normalize(carried)
         orig == IF carried = "typedNil" THEN n ELSE carried IN
     \E out \in IF n = None THEN {[ends |-> "ok", status |-> response]}
                            ELSE ErrorHandler(Printable(n)) :
       /\ response' = StatusAfter(out)
       /\ Decide(out, orig)
       /\ renders' = IF n = None THEN renders ELSE renders + 1
  /\ carried' = FinalizerReturns(Normalize(carried))
  /\ UNCHANGED <<setup, phase, ctx, cause, signals, mark, history>>

\* An application middleware makes an error of its own after c.Next().
AppReturnsItsOwn ==
  /\ Leave("up") /\ Top = "app"
  /\ \E e \in Returned : carried' = e
  /\ own' = [own EXCEPT !.rogue = @ \/ final.finalized]
  /\ UNCHANGED <<setup, phase, response, ctx, final, cause, signals, mark,
                 renders, handled>>

\* Or it answers the request itself, the error it was given included, and
\* returns nil.
AppAnswers ==
  /\ Leave("up") /\ Top = "app"
  /\ \E s \in Statuses : Answers(s)
  /\ carried' = None
  /\ own' = [own EXCEPT !.rewrote = @ \/ final.finalized,
                        !.silent = @ \/ (~final.finalized /\ cause' = None)]
  /\ UNCHANGED <<setup, phase, ctx, final, signals, mark, renders, handled>>

AppPanics ==
  /\ Leave("up") /\ Top = "app"
  /\ \E e \in Returned : carried' = e
  /\ phase' = "panic"
  /\ UNCHANGED <<setup, response, ctx, final, cause, signals, mark, renders,
                 history>>

-----------------------------------------------------------------------------
(* A panic unwinds: only the deferred calls run.                           *)

UnwindPassive ==
  /\ Leave("panic")
  /\ Top \in {"app", "finalizer"} \/ Skips(Top)
  /\ UNCHANGED <<setup, phase, carried, response, ctx, final, cause, signals,
                 mark, renders, history>>

\* finishOnPanic writes the line of the 500 recover is expected to render.
UnwindLogging ==
  /\ Leave("panic") /\ Top = "logging" /\ ~Skips(Top)
  /\ WriteAccessLine(500, "panic")
  /\ UNCHANGED <<setup, phase, carried, response, ctx, final, cause, span,
                 child, durations, active, mark, renders, history>>

\* Mutant: the panic is reported with the status the response has now.
UnwindTelemetryAsIs ==
  /\ Leave("panic") /\ IsTelemetry(Top) /\ ~Skips(Top)
  /\ FinishTelemetry(Top, response, "panic")
  /\ UNCHANGED <<setup, phase, carried, response, ctx, final, cause, child,
                 lines, mark, renders, history>>

UnwindTelemetry ==
  /\ Leave("panic") /\ IsTelemetry(Top) /\ ~Skips(Top)
  /\ FinishTelemetry(Top, 500, "panic")
  /\ UNCHANGED <<setup, phase, carried, response, ctx, final, cause, child,
                 lines, mark, renders, history>>

UnwindEndSpans ==
  /\ Leave("panic") /\ Top = "endspans"
  /\ EndRequestSpan(TRUE)
  /\ UNCHANGED <<setup, phase, carried, response, ctx, final, cause, lines,
                 durations, active, mark, renders, history>>

\* Fiber's recover returns the panic as an error, itself when it is one.
Recover ==
  /\ Leave("panic") /\ Top = "recover"
  /\ phase' = "up"
  /\ UNCHANGED <<setup, carried, response, ctx, final, cause, signals, mark,
                 renders, history>>

\* Nothing recovers it: the process goes down.
Crash ==
  /\ phase = "panic" /\ depth = 0
  /\ phase' = "crashed"
  /\ UNCHANGED <<setup, depth, carried, response, ctx, final, cause, signals,
                 mark, renders, history>>

-----------------------------------------------------------------------------
(* Fiber's dispatch, above every middleware.                               *)

\* It hands a returned error, or the refusal, to the ErrorHandler; nothing
\* recovers a panic of the ErrorHandler here.
Dispatch ==
  /\ phase = "up" /\ depth = 0
  /\ LET e == IF Refused THEN "refusal" ELSE Normalize(carried) IN
     \E out \in IF e = None THEN {[ends |-> "ok", status |-> response]}
                            ELSE ErrorHandler(e) :
       /\ response' = StatusAfter(out)
       /\ renders' = IF e = None THEN renders ELSE renders + 1
       /\ phase' = CASE out.ends = "panic" -> "crashed"
                     [] Refused            -> "rendered"
                     [] OTHER              -> "served"
  /\ UNCHANGED <<setup, depth, carried, ctx, final, cause, signals, mark, history>>

\* LogRefusalsBeforeRouting, once the refusal was rendered.
LogRefusal ==
  /\ phase = "rendered"
  /\ phase' = "served"
  /\ IF setup.kind = "nothingRead"
     THEN UNCHANGED <<lines, durations>>
     ELSE /\ WriteAccessLine(response, "refusal")
          /\ durations' = IF mark THEN Append(durations, response) ELSE durations
  /\ UNCHANGED <<setup, depth, carried, response, ctx, final, cause, span, child,
                 active, mark, renders, history>>

Down == EnterPassive \/ EnterLogging \/ EnterTelemetry \/ EnterFinalizer
        \/ ShortCircuit \/ HandlerReturns \/ HandlerPanics \/ NoRoute
Up == LeavePassive \/ LeaveLogging \/ LeaveTelemetry \/ LeaveEndSpans
      \/ LeaveFinalizer \/ AppReturnsItsOwn \/ AppAnswers \/ AppPanics
Unwind == UnwindPassive \/ UnwindLogging \/ UnwindTelemetry \/ UnwindEndSpans
          \/ Recover \/ Crash

Next == Down \/ Up \/ Unwind \/ Dispatch \/ LogRefusal

Spec == Init /\ [][Next]_vars

-----------------------------------------------------------------------------
(* Shapes of a chain                                                       *)

Observes(f) == f = "logging" \/ IsTelemetry(f)
Has(f)      == \E i \in 1..Len(chain) : chain[i] = f

\* No application middleware stands above f, so every request reaches it.
Reached(f) == \E k \in 1..Len(chain) :
  f = chain[k] /\ \A i \in 1..(k - 1) : chain[i] # "app"

\* WithHTTPErrorHandling after logging and telemetry, and between them only
\* middleware of this library: what its comment requires.
DocumentedOrder == \E k \in 1..Len(chain) :
  /\ chain[k] = "finalizer"
  /\ \A i \in 1..Len(chain) : Observes(chain[i]) =>
       i < k /\ \A j \in i..k : chain[j] \notin {"app", "recover"}

NoAppAboveObservers == \A f \in Frames : Observes(f) /\ Has(f) => Reached(f)

\* The application middleware above the finalizer is all below an observer,
\* and so is every recover.
ObserverOutside == Len(chain) > 0 /\ Observes(chain[1]) /\ ~Skips(chain[1])

Finished == phase \in {"served", "crashed"}

\* Every status this request was reported with.
Reported == {lines[i].status : i \in 1..Len(lines)}
            \cup {durations[i] : i \in 1..Len(durations)}
            \cup (IF span.state = "ended" THEN {span.status} ELSE {})

-----------------------------------------------------------------------------
(* Properties                                                              *)

CtxType == [finalizer : BOOLEAN, owned : BOOLEAN, slot : BOOLEAN,
            span : {"none", "server", "child"}]
FinalType == [finalized : BOOLEAN, status : AllStatuses \cup {0},
              err : Errors \cup {None}]
SpanType == [state : {"none", "open", "ended"}, status : AllStatuses \cup {0},
             failed : BOOLEAN, cause : BOOLEAN]
LineType == [status : AllStatuses, cause : Errors \cup {None, "panic"}]

\* The values the code's variables can take.
TypeOK ==
  /\ setup \in Setups
  /\ phase \in {"down", "up", "panic", "rendered", "served", "crashed"}
  /\ depth \in 0..Len(chain)
  /\ carried \in Errors \cup {None}
  /\ response \in AllStatuses
  /\ ctx \in CtxType
  /\ final \in FinalType /\ (final.finalized => final.status # 0)
  /\ cause \in {None, "plain"}
  /\ span \in SpanType /\ child \in SpanType
  /\ lines \in Seq(LineType)
  /\ durations \in Seq(AllStatuses)
  /\ active \in Int /\ mark \in BOOLEAN /\ renders \in Nat
  /\ handled \in Errors \cup {None, "ok", "panic"}
  /\ own \in [rewrote : BOOLEAN, silent : BOOLEAN, rogue : BOOLEAN]

\* In the documented order the access line, the duration histogram and the
\* server span report one and the same status, panics, failing ErrorHandlers
\* and replaced contexts included.
SignalsAgree ==
  Finished /\ DocumentedOrder => \A s, t \in Reported : s = t

\* In the documented order, what was reported for a request the finalizer
\* decided is what the client was sent, whatever the ErrorHandler did.
ClientSeesWhatWasReported ==
  phase = "served" /\ DocumentedOrder /\ NoAppAboveObservers /\ final.finalized
    => Reported \subseteq {response}

\* An error an application middleware returns over a decided response neither
\* reaches the ErrorHandler again nor changes the response, as long as an
\* observer stands above that middleware (resolveHTTPResponse; the comment of
\* WithHTTPErrorHandling says otherwise, see RogueErrorIsRenderedAgain): only a
\* middleware that writes to the response itself does.
RogueErrorIsDiscarded ==
  phase = "served" /\ ObserverOutside /\ ctx.finalizer /\ final.finalized
    => renders <= 1 /\ (response = final.status \/ own.rewrote)

\* A handler error whose tree holds a typed nil keeps the status it maps to,
\* and a typed-nil error is a 500: nothing in the finalizer turns either into
\* something else on its way to Fiber's own ErrorHandler.
MappedStatusSurvives ==
  /\ phase = "served" /\ setup.errorHandler = "default"
  /\ Has("finalizer") /\ ~Has("app") /\ handled \in Returned
  => response = Code(handled)

\* With the finalizer no error a handler returns takes the process down,
\* whatever the ErrorHandler does with it; only a panic can.
ReturnedErrorNeverCrashes ==
  phase = "crashed" /\ Has("finalizer") /\ ~Has("app") /\ ~Refused
    => handled = "panic"

\* The access line of a request whose handler returned an error names a
\* cause, in any order of the chain: the error, what an application middleware
\* made of it, or what somebody recorded.  It does not where such a middleware
\* answers before anything is decided, returns nil and records no cause, or
\* where the handler threw away the context the finalizer reports through.
CauseIsLogged ==
  handled \in Returned /\ (Has("finalizer") => ctx.finalizer) /\ ~own.silent
    => \A i \in 1..Len(lines) : lines[i].cause # None

\* One access line for each request, the panicking and the refused included:
\* none is logged twice, and none that reached the logger is lost.
OneAccessLine ==
  /\ Len(lines) <= 1
  /\ Finished /\ ~Refused /\ ~setup.excludedLog /\ Reached("logging")
       => Len(lines) = 1
  /\ phase = "served" /\ Refused
       => Len(lines) = IF setup.kind = "nothingRead" THEN 0 ELSE 1

\* The same for the duration histogram; a refusal is counted, with the status
\* that was rendered, when the chain ran over it down to a telemetry handler.
OneDuration ==
  /\ Len(durations) <= 1
  /\ Finished /\ ~setup.excludedTel /\ ~Refused
     /\ (Reached("telemetry") \/ Reached("metered")) => Len(durations) = 1
  /\ phase = "served" /\ setup.kind = "refused" /\ ~setup.excludedTel
     /\ (Reached("telemetry") \/ Reached("metered")) => durations = <<response>>

\* Whatever order the chain has and however the request ends, it is logged
\* once and counted once.
LoggedAndCountedOnce == OneAccessLine /\ OneDuration

\* Wherever EndTracingSpans is registered and however the request ends, the
\* server span is ended, and never before its status was set.
SpanEndsFinalized ==
  /\ span.state = "ended" => span.status # 0
  /\ Finished => span.state # "open"

\* http.server.active_requests counts this request while its telemetry frame
\* is open, and no longer: a panic gives the count back.
ActiveIsBalanced ==
  active = IF ~Refused /\ ~setup.excludedTel
              /\ \E i \in 1..depth : Metered(chain[i]) THEN 1 ELSE 0

\* Those two, made inductive: what the signals are while the telemetry frame is
\* open, before it is entered and after it is left.
OpenTelemetry(i) == i \in 1..depth /\ IsTelemetry(chain[i]) /\ ~Skips(chain[i])
SignalsInv ==
  /\ \A i \in 1..Len(chain) : OpenTelemetry(i) =>
       /\ active = IF Metered(chain[i]) THEN 1 ELSE 0
       /\ span.state = IF Traced(chain[i]) THEN "open" ELSE "none"
       /\ durations = <<>>
  /\ (\A i \in 1..Len(chain) : ~OpenTelemetry(i)) =>
       /\ active = 0 /\ span.state # "open"
       /\ phase = "down" => span.state = "none" /\ durations = <<>>
  /\ Refused => span.state = "none" /\ (phase # "served" => durations = <<>>)
  /\ ctx.span = "server" => ctx.owned
  /\ phase \in {"rendered", "served", "crashed"} => depth = 0
  /\ phase = "rendered" => Refused
  /\ span.state = "ended" => span.status # 0

IInv == TypeOK /\ SignalsInv

\* Comment of WithHTTPErrorHandling: panic recovery "is safe on either side of
\* this middleware", so a documented chain with one survives a panic.
RecoverAboveIsSafe ==
  DocumentedOrder /\ Has("recover") /\ ~Has("app") /\ ~Refused
    => phase # "crashed"

\* Comment of WithHTTPErrorHandling: where a middleware between the observers
\* and this one manufactures its own error after c.Next(), "Fiber's dispatcher
\* then invokes the app-level ErrorHandler a second time on whatever it
\* returned, in addition to the invocation this middleware already performed".
RogueErrorIsRenderedAgain ==
  phase = "served" /\ ObserverOutside /\ final.err # None /\ own.rogue
    => renders = 2

\* Telemetry implements the once-in, once-out contract of RequestSignals.
Signals == INSTANCE RequestSignals WITH
  StatusCodes <- AllStatuses,
  gauge      <- active,
  spanState  <- span.state,
  spanStatus <- span.status,
  reports    <- durations

ImplementsSignals == Signals!Spec
=============================================================================
