------------------------- MODULE HttpPipelineProofs -------------------------
(***************************************************************************)
(* For every chain, request and ErrorHandler that SetupAssumption allows:  *)
(* type correctness, a balanced in-flight gauge, a server span that is     *)
(* ended once its status is known, the refinement of RequestSignals, and   *)
(* what is reported: one line, one duration and one status, which is the   *)
(* client's.  The arguments go by the frames that are open: IInv for the   *)
(* signals, ReportInv for the reports and for the error on its way up.     *)
(***************************************************************************)
EXTENDS HttpPipeline, TLAPS

\* Both variables of the history, wherever a step leaves it alone.
USE DEF history

\* Code always names one of the statuses an error can map to.
LEMMA CodeType == ASSUME NEW e PROVE Code(e) \in AllStatuses
  BY DEF Code, AllStatuses, Statuses

\* Normalization replaces an error it cannot print by one of its own.
LEMMA NormalizeType ==
  ASSUME NEW e \in Errors \cup {None} PROVE Normalize(e) \in Errors \cup {None}
  BY DEF Normalize, Errors, Returned, None

\* Whatever the ErrorHandler does, a status a client can be sent is left.
LEMMA HandlerStatus ==
  ASSUME response \in AllStatuses, NEW e, NEW out \in ErrorHandler(e)
  PROVE  StatusAfter(out) \in AllStatuses
<1>1. Code(e) \in AllStatuses BY CodeType
<1>2. Statuses \subseteq AllStatuses BY DEF AllStatuses
<1>3. 500 \in AllStatuses BY DEF AllStatuses, Statuses
<1>4. CASE setup.errorHandler = "default"
  BY <1>1, <1>3, <1>4 DEF ErrorHandler, StatusAfter
<1>5. CASE setup.errorHandler = "custom"
  <2>1. PICK s \in Statuses : out = [ends |-> "ok", status |-> s]
    BY <1>5 DEF ErrorHandler
  <2> QED BY <2>1, <1>2, <1>3 DEF StatusAfter
<1>6. CASE setup.errorHandler \notin {"default", "custom"}
  <2>1. PICK s \in Statuses : \/ out = [ends |-> "error", status |-> s]
                              \/ out = [ends |-> "panic", status |-> s]
    BY <1>6 DEF ErrorHandler
  <2> QED BY <2>1, <1>3 DEF StatusAfter
<1> QED BY <1>4, <1>5, <1>6

\* What an observer resolves on the way up is a status, never "undecided".
LEMMA ResolvedType ==
  ASSUME TypeOK
  PROVE  /\ Resolved.status \in AllStatuses
         /\ Resolved.chainErr \in Errors \cup {None}
         /\ Resolved.handlerErr \in Errors \cup {None}
<1> DEFINE n == Normalize(carried)
<1>1. n \in Errors \cup {None} BY NormalizeType DEF TypeOK
<1>2. Code(n) \in AllStatuses BY CodeType
<1>3. CASE ctx.finalizer /\ final.finalized
  BY <1>3 DEF TypeOK, Resolved, FinalType
<1>4. CASE ~(ctx.finalizer /\ final.finalized)
  BY <1>1, <1>2, <1>4 DEF TypeOK, Resolved, HttpStatusCode
<1> QED BY <1>3, <1>4

\* A chain is a sequence of frames with one telemetry frame at most.
LEMMA ChainFacts ==
  ASSUME TypeOK
  PROVE  /\ chain \in Seq(Frames) /\ Len(chain) \in Nat
         /\ \A i, j \in 1..Len(chain) :
              IsTelemetry(chain[i]) /\ IsTelemetry(chain[j]) => i = j
<1>1. setup \in Setups /\ setup \in SetupType BY SetupAssumption DEF TypeOK
<1>2. chain \in Seq(Frames) BY <1>1 DEF SetupType, chain
<1>3. ASSUME NEW i \in 1..Len(chain), NEW j \in 1..Len(chain),
             IsTelemetry(chain[i]), IsTelemetry(chain[j])
      PROVE  i = j
  BY <1>1, <1>3, SetupAssumption DEF chain, IsTelemetry, Traced, Metered
<1> QED BY <1>2, <1>3

-----------------------------------------------------------------------------
(* Types                                                                   *)

\* Every initial state has the types.
LEMMA InitTypeOK == Init => TypeOK
<1> SUFFICES ASSUME Init PROVE TypeOK OBVIOUS
<1>1. setup \in Setups /\ setup \in SetupType BY SetupAssumption DEF Init
<1>2. Len(chain) \in Nat BY <1>1 DEF SetupType, chain
<1>3. span \in SpanType /\ child \in SpanType
  BY DEF Init, NoSpan, SpanType
<1>4. lines \in Seq(LineType) /\ durations \in Seq(AllStatuses) BY DEF Init
<1>5. final \in FinalType BY DEF Init, FinalType
<1>6. ctx \in CtxType BY DEF Init, CtxType
<1>7. final.finalized => final.status # 0 BY DEF Init
<1>8. depth \in 0..Len(chain) BY <1>2 DEF Init
<1>9. phase \in {"down", "up"} /\ response \in AllStatuses
  BY DEF Init, AllStatuses, Statuses
<1>10. active \in Int /\ renders \in Nat BY DEF Init
<1>11. mark \in BOOLEAN BY DEF Init
<1>12. own \in [rewrote : BOOLEAN, silent : BOOLEAN, rogue : BOOLEAN]
  BY DEF Init, NoOwn
<1>13. carried = None /\ cause = None /\ handled = None BY DEF Init
<1> QED BY <1>1, <1>3, <1>4, <1>5, <1>6, <1>7, <1>8, <1>9, <1>10, <1>11,
           <1>12, <1>13 DEF TypeOK

\* The way down keeps the types.
LEMMA DownTypeOK == ASSUME TypeOK, Down PROVE TypeOK'
<1>0. Len(chain) \in Nat /\ setup' = setup
  BY ChainFacts DEF Down, EnterPassive, EnterLogging, EnterTelemetry,
       EnterFinalizer, ShortCircuit, HandlerReturns, HandlerPanics, NoRoute
<1>1. CASE EnterPassive
  <2>1. mark' \in BOOLEAN BY <1>1 DEF TypeOK, EnterPassive
  <2>2. depth' \in 0..Len(chain)' BY <1>0, <1>1 DEF TypeOK, EnterPassive, Enter, chain
  <2>3. UNCHANGED <<setup, phase, carried, response, ctx, final, cause, span,
                    child, lines, durations, active, renders, handled, own>>
    BY <1>1 DEF EnterPassive, signals
  <2> QED BY <2>1, <2>2, <2>3 DEF TypeOK
<1>2. CASE EnterLogging
  <2>1. ctx' \in CtxType BY <1>2 DEF TypeOK, EnterLogging, CtxType
  <2>2. depth' \in 0..Len(chain)' BY <1>0, <1>2 DEF TypeOK, EnterLogging, Enter, chain
  <2> QED BY <1>2, <2>1, <2>2 DEF TypeOK, EnterLogging, Enter, signals
<1>3. CASE EnterTelemetry
  <2>1. span' \in SpanType BY <1>3 DEF TypeOK, EnterTelemetry, SpanType
  <2>2. active' \in Int BY <1>3 DEF TypeOK, EnterTelemetry
  <2>3. ctx' \in CtxType
    BY <1>3 DEF TypeOK, EnterTelemetry, CtxType
  <2>4. depth' \in 0..Len(chain)'
    BY <1>0, <1>3 DEF TypeOK, EnterTelemetry, Enter, chain
  <2> QED BY <1>3, <2>1, <2>2, <2>3, <2>4 DEF TypeOK, EnterTelemetry, Enter
<1>4. CASE EnterFinalizer
  <2>1. ctx' \in CtxType BY <1>4 DEF TypeOK, EnterFinalizer, CtxType
  <2>2. depth' \in 0..Len(chain)' BY <1>0, <1>4 DEF TypeOK, EnterFinalizer, Enter, chain
  <2> QED BY <1>4, <2>1, <2>2 DEF TypeOK, EnterFinalizer, Enter, signals
<1>5. CASE ShortCircuit
  <2>0. cause' \in {None, "plain"} /\ response' \in AllStatuses
    BY <1>5 DEF ShortCircuit, Answers, Records, TypeOK, AllStatuses
  <2>1. carried' \in Errors \cup {None} /\ phase' \in {"up", "panic"}
    BY <1>5 DEF ShortCircuit, Errors, TypeOK
  <2>2. depth' \in 0..Len(chain)' BY <1>0, <1>5 DEF TypeOK, ShortCircuit, Enter, chain
  <2>3. UNCHANGED <<setup, ctx, final, span, child, lines, durations, active,
                    mark, renders, handled, own>>
    BY <1>5 DEF ShortCircuit, signals
  <2> QED BY <2>0, <2>1, <2>2, <2>3 DEF TypeOK
<1>6. ASSUME TouchesContext
      PROVE  /\ child' \in SpanType
             /\ ctx' \in CtxType
  <2>1. CASE UNCHANGED <<ctx, child>> BY <2>1 DEF TypeOK
  <2>2. CASE /\ ctx' = [ctx EXCEPT !.span = "child"]
             /\ child' = [child EXCEPT !.state = "open"]
    BY <2>2 DEF TypeOK, CtxType, SpanType
  <2>3. CASE /\ ctx' = [finalizer |-> FALSE, owned |-> FALSE, slot |-> FALSE,
                        span |-> "none"]
             /\ UNCHANGED child
    <3>1. ctx' \in CtxType BY <2>3 DEF CtxType
    <3> QED BY <3>1, <2>3 DEF TypeOK
  <2> QED BY <1>6, <2>1, <2>2, <2>3 DEF TouchesContext
<1>7. CASE HandlerReturns
  <2>1. response' \in AllStatuses BY <1>7 DEF HandlerReturns, Answers, AllStatuses
  <2>2. carried' \in Errors \cup {None} BY <1>7 DEF HandlerReturns, Errors
  <2>3. handled' \in Errors \cup {None, "ok", "panic"}
    BY <1>7 DEF HandlerReturns, Errors
  <2>4. cause' \in {None, "plain"} BY <1>7 DEF HandlerReturns, Answers, Records, TypeOK
  <2> QED BY <1>0, <1>6, <1>7, <2>1, <2>2, <2>3, <2>4
          DEF TypeOK, HandlerReturns, AtHandler, chain
<1>8. CASE HandlerPanics
  BY <1>0, <1>6, <1>8 DEF TypeOK, HandlerPanics, AtHandler, chain, Errors
<1>9. CASE NoRoute BY <1>0, <1>9 DEF TypeOK, NoRoute, signals, chain
<1> QED BY <1>1, <1>2, <1>3, <1>4, <1>5, <1>7, <1>8, <1>9 DEF Down

\* What FinishTelemetry and EndRequestSpan leave is well-typed.
LEMMA FinishType ==
  ASSUME TypeOK, NEW f, NEW status \in AllStatuses, NEW err,
         FinishTelemetry(f, status, err)
  PROVE  /\ durations' \in Seq(AllStatuses) /\ active' \in Int
         /\ span' \in SpanType
  BY DEF TypeOK, FinishTelemetry, SpanType

\* Ending the span of the context leaves spans.
LEMMA EndSpanType ==
  ASSUME TypeOK, NEW b \in BOOLEAN, EndRequestSpan(b)
  PROVE  span' \in SpanType /\ child' \in SpanType
<1> DEFINE End(s) == [s EXCEPT !.state = "ended", !.failed = @ \/ b]
<1>1. ASSUME NEW s \in SpanType PROVE End(s) \in SpanType
  <2>1. (s.failed \/ b) \in BOOLEAN BY DEF SpanType
  <2> QED BY <2>1 DEF SpanType
<1>2. /\ child' = IF ~ctx.owned /\ ctx.span = "child" THEN End(child) ELSE child
      /\ span'  = IF ~ctx.owned /\ ctx.span = "server" THEN End(span) ELSE span
  BY DEF EndRequestSpan
<1>3. span \in SpanType /\ child \in SpanType BY DEF TypeOK
<1> HIDE DEF End
<1> QED BY <1>1, <1>2, <1>3

\* Leaving a frame keeps depth in range.
LEMMA LeaveType ==
  ASSUME TypeOK, NEW p, Leave(p), UNCHANGED setup
  PROVE  depth' \in 0..Len(chain)'
  BY ChainFacts DEF TypeOK, Leave, chain

\* What the finalizer and dispatch make of the ErrorHandler's outcome.
LEMMA RenderedType ==
  ASSUME TypeOK, NEW e, NEW arg,
         NEW out \in IF e = None THEN {[ends |-> "ok", status |-> response]}
                                 ELSE ErrorHandler(arg)
  PROVE  StatusAfter(out) \in AllStatuses
<1>1. response \in AllStatuses BY DEF TypeOK
<1>2. CASE e = None BY <1>1, <1>2 DEF StatusAfter
<1>3. CASE e # None BY <1>1, <1>3, HandlerStatus
<1> QED BY <1>2, <1>3

\* A line that is written is a line like those before it.
LEMMA LineWritten ==
  ASSUME TypeOK, NEW status, NEW why, [status |-> status, cause |-> why] \in LineType,
         WriteAccessLine(status, why)
  PROVE  lines' \in Seq(LineType)
<1>1. lines \in Seq(LineType) BY DEF TypeOK
<1>2. lines' = Append(lines, [status |-> status, cause |-> why]) BY DEF WriteAccessLine
<1> QED BY <1>1, <1>2

\* The way up keeps the types.
LEMMA UpTypeOK == ASSUME TypeOK, Up PROVE TypeOK'
<1>0. Normalize(carried) \in Errors \cup {None} BY NormalizeType DEF TypeOK
<1>1. CASE LeavePassive
  <2>1. depth' \in 0..Len(chain)' BY <1>1, LeaveType DEF LeavePassive
  <2>2. carried' \in Errors \cup {None} BY <1>0, <1>1 DEF LeavePassive, TypeOK
  <2> QED BY <1>1, <2>1, <2>2 DEF TypeOK, LeavePassive, signals
<1>2. CASE LeaveLogging
  <2>1. depth' \in 0..Len(chain)' BY <1>2, LeaveType DEF LeaveLogging
  <2>2. carried' \in Errors \cup {None} BY <1>2, ResolvedType DEF LeaveLogging
  <2>3. OrElse(Resolved.handlerErr, cause) \in Errors \cup {None}
    BY ResolvedType DEF OrElse, TypeOK, Errors, Returned
  <2>4. [status |-> Resolved.status, cause |-> OrElse(Resolved.handlerErr, cause)]
           \in LineType
    BY <2>3, ResolvedType DEF LineType
  <2>5. WriteAccessLine(Resolved.status, OrElse(Resolved.handlerErr, cause))
    BY <1>2 DEF LeaveLogging
  <2>6. lines' \in Seq(LineType) BY <2>4, <2>5, LineWritten
  <2> QED BY <1>2, <2>1, <2>2, <2>6 DEF TypeOK, LeaveLogging
<1>3. CASE LeaveTelemetry
  <2>1. depth' \in 0..Len(chain)' BY <1>3, LeaveType DEF LeaveTelemetry
  <2>2. carried' \in Errors \cup {None} BY <1>3, ResolvedType DEF LeaveTelemetry
  <2>3. /\ durations' \in Seq(AllStatuses) /\ active' \in Int
        /\ span' \in SpanType
    BY <1>3, ResolvedType, FinishType DEF LeaveTelemetry
  <2> QED BY <1>3, <2>1, <2>2, <2>3 DEF TypeOK, LeaveTelemetry
<1>4. CASE LeaveEndSpans
  <2>1. depth' \in 0..Len(chain)' BY <1>4, LeaveType DEF LeaveEndSpans
  <2>2. span' \in SpanType /\ child' \in SpanType
    BY <1>4, EndSpanType DEF LeaveEndSpans
  <2> QED BY <1>0, <1>4, <2>1, <2>2 DEF TypeOK, LeaveEndSpans
<1>5. CASE LeaveFinalizer
  <2>1. depth' \in 0..Len(chain)' BY <1>5, LeaveType DEF LeaveFinalizer
  <2> DEFINE n == Normalize(carried)
             orig == IF carried = "typedNil" THEN n ELSE carried
  <2>2. PICK out \in IF n = None THEN {[ends |-> "ok", status |-> response]}
                                 ELSE ErrorHandler(Printable(n)) :
          /\ response' = StatusAfter(out)
          /\ final' = [finalized |-> TRUE, status |-> StatusAfter(out), err |-> orig]
          /\ renders' = IF n = None THEN renders ELSE renders + 1
    BY <1>5 DEF LeaveFinalizer, Decide
  <2>3. orig \in Errors \cup {None} BY <1>0 DEF TypeOK
  <2>4. StatusAfter(out) \in AllStatuses BY RenderedType
  <2>5. StatusAfter(out) # 0 BY <2>4 DEF AllStatuses, Statuses
  <2> HIDE DEF n, orig
  <2>6. final' \in FinalType /\ (final'.finalized => final'.status # 0)
    BY <2>2, <2>3, <2>4, <2>5 DEF FinalType
  <2>7. renders' \in Nat BY <2>2 DEF TypeOK
  <2>8. response' \in AllStatuses BY <2>2, <2>4
  <2> QED BY <1>5, <2>1, <2>6, <2>7, <2>8
          DEF TypeOK, LeaveFinalizer, FinalizerReturns, signals
<1>6. CASE AppReturnsItsOwn \/ AppPanics
  <2>1. depth' \in 0..Len(chain)'
    BY <1>6, LeaveType DEF AppReturnsItsOwn, AppPanics
  <2>2. carried' \in Errors \cup {None} /\ phase' \in {"up", "panic"}
    BY <1>6 DEF AppReturnsItsOwn, AppPanics, Errors, Leave
  <2>3. own' \in [rewrote : BOOLEAN, silent : BOOLEAN, rogue : BOOLEAN]
    BY <1>6 DEF AppReturnsItsOwn, AppPanics, TypeOK, FinalType
  <2> QED BY <1>6, <2>1, <2>2, <2>3 DEF TypeOK, AppReturnsItsOwn, AppPanics, signals
<1>7. CASE AppAnswers
  <2>1. depth' \in 0..Len(chain)' BY <1>7, LeaveType DEF AppAnswers
  <2>2. cause' \in {None, "plain"} /\ response' \in AllStatuses
    BY <1>7 DEF AppAnswers, Answers, Records, TypeOK, AllStatuses
  <2>3. own' \in [rewrote : BOOLEAN, silent : BOOLEAN, rogue : BOOLEAN]
    BY <1>7 DEF AppAnswers, TypeOK, FinalType
  <2> QED BY <1>7, <2>1, <2>2, <2>3 DEF TypeOK, AppAnswers, signals
<1> QED BY <1>1, <1>2, <1>3, <1>4, <1>5, <1>6, <1>7 DEF Up

\* A panic on its way up keeps the types.
LEMMA UnwindTypeOK == ASSUME TypeOK, Unwind PROVE TypeOK'
<1>1. CASE UnwindPassive \/ Recover
  <2>1. depth' \in 0..Len(chain)' BY <1>1, LeaveType DEF UnwindPassive, Recover
  <2> QED BY <1>1, <2>1 DEF TypeOK, UnwindPassive, Recover, signals
<1>2. CASE UnwindLogging
  <2>1. depth' \in 0..Len(chain)' BY <1>2, LeaveType DEF UnwindLogging
  <2>2. [status |-> 500, cause |-> "panic"] \in LineType
    BY DEF LineType, AllStatuses, Statuses
  <2>3. WriteAccessLine(500, "panic") BY <1>2 DEF UnwindLogging
  <2>4. lines' \in Seq(LineType) BY <2>2, <2>3, LineWritten
  <2> QED BY <1>2, <2>1, <2>4 DEF TypeOK, UnwindLogging
<1>3. CASE UnwindTelemetry
  <2>1. depth' \in 0..Len(chain)' BY <1>3, LeaveType DEF UnwindTelemetry
  <2>2. 500 \in AllStatuses BY DEF AllStatuses, Statuses
  <2>3. /\ durations' \in Seq(AllStatuses) /\ active' \in Int
        /\ span' \in SpanType
    BY <1>3, <2>2, FinishType DEF UnwindTelemetry
  <2> QED BY <1>3, <2>1, <2>3 DEF TypeOK, UnwindTelemetry
<1>4. CASE UnwindEndSpans
  <2>1. depth' \in 0..Len(chain)' BY <1>4, LeaveType DEF UnwindEndSpans
  <2>2. span' \in SpanType /\ child' \in SpanType
    BY <1>4, EndSpanType DEF UnwindEndSpans
  <2> QED BY <1>4, <2>1, <2>2 DEF TypeOK, UnwindEndSpans
<1>5. CASE Crash BY <1>5 DEF TypeOK, Crash, signals, chain
<1> QED BY <1>1, <1>2, <1>3, <1>4, <1>5 DEF Unwind

\* Serving the response and logging a refusal keep the types.
LEMMA ServeTypeOK == ASSUME TypeOK, Dispatch \/ LogRefusal PROVE TypeOK'
<1>1. CASE Dispatch
  <2> DEFINE e == IF Refused THEN "refusal" ELSE Normalize(carried)
  <2>1. PICK out \in IF e = None THEN {[ends |-> "ok", status |-> response]}
                                 ELSE ErrorHandler(e) :
          /\ response' = StatusAfter(out)
          /\ renders' = IF e = None THEN renders ELSE renders + 1
          /\ phase' = CASE out.ends = "panic" -> "crashed"
                        [] Refused            -> "rendered"
                        [] OTHER              -> "served"
    BY <1>1 DEF Dispatch
  <2> HIDE DEF e
  <2>2. StatusAfter(out) \in AllStatuses BY RenderedType
  <2>3. response' \in AllStatuses BY <2>1, <2>2
  <2>4. renders' \in Nat BY <2>1 DEF TypeOK
  <2>5. phase' \in {"crashed", "rendered", "served"} BY <2>1
  <2>6. depth' \in 0..Len(chain)' BY <1>1 DEF Dispatch, TypeOK, chain
  <2> QED BY <1>1, <2>3, <2>4, <2>5, <2>6 DEF TypeOK, Dispatch, signals
<1>2. CASE LogRefusal
  <2>1. depth' \in 0..Len(chain)' BY <1>2 DEF LogRefusal, TypeOK, chain
  <2>2. [status |-> response, cause |-> "refusal"] \in LineType
    BY DEF TypeOK, LineType, Errors
  <2>3. lines' \in Seq(LineType)
    <3>1. CASE setup.kind = "nothingRead" BY <1>2, <3>1 DEF LogRefusal, TypeOK
    <3>2. CASE setup.kind # "nothingRead"
      <4>1. WriteAccessLine(response, "refusal") BY <1>2, <3>2 DEF LogRefusal
      <4> QED BY <2>2, <4>1, LineWritten
    <3> QED BY <3>1, <3>2
  <2>4. durations' \in Seq(AllStatuses) BY <1>2 DEF LogRefusal, TypeOK
  <2> QED BY <1>2, <2>1, <2>3, <2>4 DEF TypeOK, LogRefusal
<1> QED BY <1>1, <1>2

\* Every step keeps the types.
LEMMA NextTypeOK == ASSUME TypeOK, [Next]_vars PROVE TypeOK'
<1>1. CASE UNCHANGED vars BY <1>1 DEF TypeOK, vars, signals, chain
<1> QED BY <1>1, DownTypeOK, UpTypeOK, UnwindTypeOK, ServeTypeOK DEF Next

-----------------------------------------------------------------------------
(* The signals                                                             *)

\* At most one telemetry frame is open, and none over a refused request.
LEMMA OpenFacts ==
  ASSUME TypeOK, NEW i \in 1..Len(chain), OpenTelemetry(i)
  PROVE  /\ ~Refused
         /\ \A j \in 1..Len(chain) : OpenTelemetry(j) => j = i
  BY ChainFacts DEF OpenTelemetry, Skips, Excluded

\* The frames open before and after entering or leaving one that is not open.
SameOpen == \A i \in 1..Len(chain) : OpenTelemetry(i)' <=> OpenTelemetry(i)

\* Entering a frame that is not a telemetry opens none.
LEMMA EnterSameOpen ==
  ASSUME TypeOK, Enter, UNCHANGED setup, ~IsTelemetry(Next1) \/ Skips(Next1)
  PROVE  SameOpen
<1>1. Len(chain) \in Nat /\ depth \in 0..Len(chain) BY ChainFacts DEF TypeOK
<1>2. SUFFICES ASSUME NEW i \in 1..Len(chain)
               PROVE  OpenTelemetry(i)' <=> OpenTelemetry(i)
  BY DEF SameOpen
<1>3. chain' = chain /\ (Skips(chain[i])' <=> Skips(chain[i]))
  BY DEF chain, Skips, Excluded, Refused
<1>4. i \in 1..depth' <=> i \in 1..depth \/ i = depth + 1
  BY <1>1 DEF Enter
<1>5. i = depth + 1 => ~IsTelemetry(chain[i]) \/ Skips(chain[i]) BY DEF Next1
<1> QED BY <1>3, <1>4, <1>5 DEF OpenTelemetry

\* Leaving a frame that is not a telemetry closes none.
LEMMA LeaveSameOpen ==
  ASSUME TypeOK, NEW p, Leave(p), UNCHANGED setup, ~IsTelemetry(Top) \/ Skips(Top)
  PROVE  SameOpen
<1>1. Len(chain) \in Nat /\ depth \in 0..Len(chain) BY ChainFacts DEF TypeOK
<1>2. SUFFICES ASSUME NEW i \in 1..Len(chain)
               PROVE  OpenTelemetry(i)' <=> OpenTelemetry(i)
  BY DEF SameOpen
<1>3. chain' = chain /\ (Skips(chain[i])' <=> Skips(chain[i]))
  BY DEF chain, Skips, Excluded, Refused
<1>4. i \in 1..depth <=> i \in 1..depth' \/ i = depth
  BY <1>1 DEF Leave
<1>5. i = depth => ~IsTelemetry(chain[i]) \/ Skips(chain[i]) BY DEF Top
<1> QED BY <1>3, <1>4, <1>5 DEF OpenTelemetry

\* A step that enters and leaves no frame opens and closes none.
LEMMA StaySameOpen ==
  ASSUME UNCHANGED <<setup, depth>> PROVE SameOpen
  BY DEF SameOpen, OpenTelemetry, chain, Skips, Excluded, Refused

\* A step that leaves the signals and the open frames alone preserves them.
LEMMA QuietStep ==
  ASSUME TypeOK, SignalsInv, SameOpen, UNCHANGED <<setup, span, durations, active>>,
         ctx'.span = "server" => ctx'.owned,
         phase' = "down" => phase = "down",
         phase' # "served" => phase # "served",
         phase' \in {"rendered", "served", "crashed"} => depth' = 0,
         phase' = "rendered" => Refused
  PROVE  SignalsInv'
<1>1. chain' = chain /\ (Refused' <=> Refused) BY DEF chain, Refused
<1> QED BY <1>1 DEF SignalsInv, SameOpen

\* EndTracingSpans leaves the server span to the middleware that owns it.
LEMMA EndSpansLeavesServerSpan ==
  ASSUME SignalsInv, NEW b, EndRequestSpan(b) PROVE span' = span
  BY DEF SignalsInv, EndRequestSpan

\* Before the first frame there are no signals.
LEMMA InitSignals == Init => SignalsInv
<1> SUFFICES ASSUME Init PROVE SignalsInv OBVIOUS
<1>1. depth = 0 BY DEF Init
<1>2. \A i \in 1..Len(chain) : ~OpenTelemetry(i) BY <1>1 DEF OpenTelemetry
<1>3. span.state = "none" /\ active = 0 /\ durations = <<>> BY DEF Init, NoSpan
<1>4. ctx.span = "none" BY DEF Init
<1>5. phase \in {"up", "down"} BY DEF Init
<1> QED BY <1>1, <1>2, <1>3, <1>4, <1>5 DEF SignalsInv

\* The way down keeps the signals invariant.
LEMMA DownSignals == ASSUME IInv, Down PROVE SignalsInv'
<1> USE DEF IInv
<1>1. CASE EnterPassive
  <2>1. SameOpen
    BY <1>1, EnterSameOpen DEF EnterPassive, IsTelemetry, Traced, Metered
  <2> QED BY <1>1, <2>1, QuietStep DEF EnterPassive, Enter, signals, SignalsInv
<1>2. CASE EnterLogging
  <2>1. SameOpen
    BY <1>2, EnterSameOpen DEF EnterLogging, IsTelemetry, Traced, Metered
  <2>2. ctx'.span = "server" => ctx'.owned
    BY <1>2 DEF EnterLogging, SignalsInv, TypeOK, CtxType
  <2> QED BY <1>2, <2>1, <2>2, QuietStep DEF EnterLogging, Enter, signals
<1>3. CASE EnterTelemetry
  <2>1. Len(chain) \in Nat /\ depth \in 0..Len(chain)
    BY ChainFacts DEF TypeOK
  <2>2. PICK d \in 1..Len(chain) : d = depth + 1 /\ depth' = d
    BY <1>3, <2>1 DEF EnterTelemetry, Enter
  <2>3. chain' = chain /\ (Refused' <=> Refused) BY <1>3 DEF EnterTelemetry, chain, Refused
  <2>4. \A i \in 1..Len(chain) : (Skips(chain[i])' <=> Skips(chain[i]))
    BY <1>3, <2>3 DEF EnterTelemetry, Skips, Excluded
  <2>5. IsTelemetry(chain[d]) /\ ~Skips(chain[d])
    BY <1>3, <2>2 DEF EnterTelemetry, Next1
  <2>6. ~Refused BY <2>5 DEF Skips, Excluded
  <2>7. \A i \in 1..Len(chain) : ~OpenTelemetry(i)
    BY <2>1, <2>2, <2>5, ChainFacts DEF OpenTelemetry
  <2>8. active = 0 /\ span.state = "none" /\ durations = <<>>
    BY <1>3, <2>7 DEF SignalsInv, EnterTelemetry, Enter
  <2>9. OpenTelemetry(d)'
    BY <2>2, <2>3, <2>4, <2>5 DEF OpenTelemetry
  <2>10. \A i \in 1..Len(chain) : OpenTelemetry(i)' => i = d
    BY <2>3, <2>5, ChainFacts DEF OpenTelemetry
  <2>11. /\ active' = IF Metered(chain[d]) THEN 1 ELSE 0
         /\ span'.state = IF Traced(chain[d]) THEN "open" ELSE "none"
         /\ durations' = <<>>
    BY <1>3, <2>2, <2>8 DEF EnterTelemetry, Next1, TypeOK, SpanType
  <2>12. ctx'.span = "server" => ctx'.owned
    BY <1>3 DEF EnterTelemetry, SignalsInv, TypeOK, CtxType
  <2>13. phase' = "down" BY <1>3 DEF EnterTelemetry, Enter
  <2>14. span'.state # "ended" BY <2>11
  <2> QED BY <2>3, <2>6, <2>9, <2>10, <2>11, <2>12, <2>13, <2>14 DEF SignalsInv
<1>4. CASE EnterFinalizer
  <2>1. SameOpen
    BY <1>4, EnterSameOpen DEF EnterFinalizer, IsTelemetry, Traced, Metered
  <2>2. ctx'.span = "server" => ctx'.owned
    BY <1>4 DEF EnterFinalizer, SignalsInv, TypeOK, CtxType
  <2> QED BY <1>4, <2>1, <2>2, QuietStep DEF EnterFinalizer, Enter, signals
<1>5. CASE ShortCircuit
  <2>1. SameOpen
    BY <1>5, EnterSameOpen DEF ShortCircuit, IsTelemetry, Traced, Metered
  <2> QED BY <1>5, <2>1, QuietStep DEF ShortCircuit, Enter, signals, SignalsInv
<1>6. ASSUME TouchesContext PROVE ctx'.span = "server" => ctx'.owned
  <2>1. CASE ctx' = ctx BY <2>1 DEF SignalsInv
  <2>2. CASE ctx' # ctx
    BY <1>6, <2>2 DEF TouchesContext, TypeOK, CtxType
  <2> QED BY <2>1, <2>2
<1>7. CASE HandlerReturns \/ HandlerPanics
  <2>1. SameOpen BY <1>7, StaySameOpen DEF HandlerReturns, HandlerPanics
  <2> QED BY <1>6, <1>7, <2>1, QuietStep
          DEF HandlerReturns, HandlerPanics, AtHandler
<1>8. CASE NoRoute
  <2>1. SameOpen BY <1>8, StaySameOpen DEF NoRoute
  <2> QED BY <1>8, <2>1, QuietStep DEF NoRoute, AtHandler, signals, SignalsInv
<1> QED BY <1>1, <1>2, <1>3, <1>4, <1>5, <1>7, <1>8 DEF Down

\* The telemetry frame reports once, takes its count back and is gone.
LEMMA FinishSignals ==
  ASSUME IInv, NEW p \in {"up", "panic"}, Leave(p), IsTelemetry(Top), ~Skips(Top),
         NEW status \in AllStatuses, NEW err, FinishTelemetry(Top, status, err),
         UNCHANGED <<setup, phase, ctx>>
  PROVE  SignalsInv'
<1> USE DEF IInv
<1>1. Len(chain) \in Nat /\ depth \in 1..Len(chain)
  BY ChainFacts DEF TypeOK, Leave
<1>2. chain' = chain /\ (Refused' <=> Refused) BY DEF chain, Refused
<1>3. OpenTelemetry(depth) BY <1>1 DEF OpenTelemetry, Top
<1>4. ~Refused BY <1>1, <1>3, OpenFacts
<1>5. \A i \in 1..Len(chain) : ~OpenTelemetry(i)'
  BY <1>1, <1>2, ChainFacts DEF OpenTelemetry, Top, Leave
<1>6. /\ active = IF Metered(Top) THEN 1 ELSE 0
      /\ span.state = IF Traced(Top) THEN "open" ELSE "none"
  BY <1>1, <1>3 DEF SignalsInv, Top
<1>7. active' = 0 BY <1>6 DEF FinishTelemetry
<1>8. status # 0 BY DEF AllStatuses, Statuses
<1>9. span'.state # "open" /\ (span'.state = "ended" => span'.status # 0)
  BY <1>6, <1>8 DEF FinishTelemetry
<1>10. phase' \in {"up", "panic"} BY DEF Leave
<1> QED BY <1>2, <1>4, <1>5, <1>7, <1>9, <1>10 DEF SignalsInv

\* The way up keeps the signals invariant.
LEMMA UpSignals == ASSUME IInv, Up PROVE SignalsInv'
<1> USE DEF IInv
<1>1. CASE LeavePassive \/ LeaveFinalizer \/ AppReturnsItsOwn \/ AppAnswers \/ AppPanics
  <2>1. SameOpen
    BY <1>1, LeaveSameOpen DEF LeavePassive, LeaveFinalizer, AppReturnsItsOwn,
         AppAnswers, AppPanics, IsTelemetry, Traced, Metered
  <2> QED BY <1>1, <2>1, QuietStep DEF LeavePassive, LeaveFinalizer,
            AppReturnsItsOwn, AppAnswers, AppPanics, Leave, signals, SignalsInv
<1>2. CASE LeaveLogging
  <2>1. SameOpen
    BY <1>2, LeaveSameOpen DEF LeaveLogging, IsTelemetry, Traced, Metered
  <2> QED BY <1>2, <2>1, QuietStep DEF LeaveLogging, Leave, SignalsInv
<1>3. CASE LeaveTelemetry
  BY <1>3, ResolvedType, FinishSignals DEF LeaveTelemetry
<1>4. CASE LeaveEndSpans
  <2>1. SameOpen
    BY <1>4, LeaveSameOpen DEF LeaveEndSpans, IsTelemetry, Traced, Metered
  <2>2. span' = span BY <1>4, EndSpansLeavesServerSpan DEF LeaveEndSpans
  <2> QED BY <1>4, <2>1, <2>2, QuietStep DEF LeaveEndSpans, Leave, SignalsInv
<1> QED BY <1>1, <1>2, <1>3, <1>4 DEF Up

\* A panic on its way up keeps the signals invariant.
LEMMA UnwindSignals == ASSUME IInv, Unwind PROVE SignalsInv'
<1> USE DEF IInv
<1>1. CASE UnwindPassive \/ Recover
  <2>1. SameOpen
    BY <1>1, LeaveSameOpen DEF UnwindPassive, Recover, IsTelemetry, Traced, Metered
  <2> QED BY <1>1, <2>1, QuietStep DEF UnwindPassive, Recover, Leave, signals, SignalsInv
<1>2. CASE UnwindLogging
  <2>1. SameOpen
    BY <1>2, LeaveSameOpen DEF UnwindLogging, IsTelemetry, Traced, Metered
  <2> QED BY <1>2, <2>1, QuietStep DEF UnwindLogging, Leave, SignalsInv
<1>3. CASE UnwindTelemetry
  <2>1. 500 \in AllStatuses BY DEF AllStatuses, Statuses
  <2> QED BY <1>3, <2>1, FinishSignals DEF UnwindTelemetry
<1>4. CASE UnwindEndSpans
  <2>1. SameOpen
    BY <1>4, LeaveSameOpen DEF UnwindEndSpans, IsTelemetry, Traced, Metered
  <2>2. span' = span BY <1>4, EndSpansLeavesServerSpan DEF UnwindEndSpans
  <2> QED BY <1>4, <2>1, <2>2, QuietStep DEF UnwindEndSpans, Leave, SignalsInv
<1>5. CASE Crash
  <2>1. SameOpen BY <1>5, StaySameOpen DEF Crash
  <2> QED BY <1>5, <2>1, QuietStep DEF Crash, signals, SignalsInv
<1> QED BY <1>1, <1>2, <1>3, <1>4, <1>5 DEF Unwind

\* Serving and logging a refusal keep the signals invariant.
LEMMA ServeSignals == ASSUME IInv, Dispatch \/ LogRefusal PROVE SignalsInv'
<1> USE DEF IInv
<1>1. CASE Dispatch
  <2>1. SameOpen BY <1>1, StaySameOpen DEF Dispatch
  <2>2. /\ phase' \in {"crashed", "rendered", "served"}
        /\ phase' = "rendered" => Refused
    BY <1>1 DEF Dispatch
  <2> QED BY <1>1, <2>1, <2>2, QuietStep DEF Dispatch, signals, SignalsInv
<1>2. CASE LogRefusal
  <2>1. depth = 0 /\ Refused /\ span.state = "none" /\ phase' = "served"
    BY <1>2 DEF LogRefusal, SignalsInv
  <2>2. \A i \in 1..Len(chain) : ~OpenTelemetry(i) /\ ~OpenTelemetry(i)'
    BY <1>2, <2>1 DEF LogRefusal, OpenTelemetry
  <2>3. chain' = chain /\ Refused' BY <1>2, <2>1 DEF LogRefusal, chain, Refused
  <2> QED BY <1>2, <2>1, <2>2, <2>3 DEF LogRefusal, SignalsInv
<1> QED BY <1>1, <1>2

\* The inductive invariant: types, and what the signals are while the telemetry
\* frame is open, before it is entered and after it is left.
THEOREM InductiveInvariant == Spec => []IInv
<1>1. Init => IInv BY InitTypeOK, InitSignals DEF IInv
<1>2. IInv /\ [Next]_vars => IInv'
  <2> SUFFICES ASSUME IInv, [Next]_vars PROVE IInv' OBVIOUS
  <2>1. TypeOK' BY NextTypeOK DEF IInv
  <2>2. CASE UNCHANGED vars
    <3>1. SameOpen BY <2>2, StaySameOpen DEF vars
    <3>2. SignalsInv'
      BY <2>2, <3>1, QuietStep DEF vars, signals, IInv, SignalsInv
    <3> QED BY <2>1, <3>2 DEF IInv
  <2>3. CASE Next
    <3>1. SignalsInv'
      BY <2>3, DownSignals, UpSignals, UnwindSignals, ServeSignals DEF Next
    <3> QED BY <2>1, <3>1 DEF IInv
  <2> QED BY <2>2, <2>3
<1> QED BY <1>1, <1>2, PTL DEF Spec

-----------------------------------------------------------------------------
(* What follows                                                            *)

\* Every variable keeps its type, for every chain and request.
THEOREM TypeCorrect == Spec => []TypeOK
  BY InductiveInvariant, PTL DEF IInv

\* http.server.active_requests counts the request exactly while its telemetry
\* frame is open, panics included.
THEOREM GaugeBalanced == Spec => []ActiveIsBalanced
<1>1. IInv => ActiveIsBalanced
  <2> SUFFICES ASSUME IInv PROVE ActiveIsBalanced OBVIOUS
  <2>0. Len(chain) \in Nat /\ depth \in 0..Len(chain)
    BY ChainFacts DEF IInv, TypeOK
  <2> DEFINE M == ~Refused /\ ~setup.excludedTel
                  /\ \E i \in 1..depth : Metered(chain[i])
  <2>1. CASE M
    <3>1. PICK i \in 1..depth : Metered(chain[i]) BY <2>1
    <3>2. OpenTelemetry(i) /\ i \in 1..Len(chain)
      BY <2>0, <2>1, <3>1 DEF OpenTelemetry, Skips, Excluded, IsTelemetry, Metered
    <3>3. active = 1 BY <3>1, <3>2 DEF IInv, SignalsInv
    <3> QED BY <2>1, <3>3 DEF ActiveIsBalanced
  <2>2. CASE ~M
    <3>1. CASE \E i \in 1..Len(chain) : OpenTelemetry(i)
      <4>1. PICK i \in 1..Len(chain) : OpenTelemetry(i) BY <3>1
      <4>2. ~Metered(chain[i]) BY <2>2, <4>1 DEF OpenTelemetry, Skips, Excluded
      <4>3. active = 0 BY <4>1, <4>2 DEF IInv, SignalsInv
      <4> QED BY <2>2, <4>3 DEF ActiveIsBalanced
    <3>2. CASE \A i \in 1..Len(chain) : ~OpenTelemetry(i)
      <4>1. active = 0 BY <3>2 DEF IInv, SignalsInv
      <4> QED BY <2>2, <4>1 DEF ActiveIsBalanced
    <3> QED BY <3>1, <3>2
  <2> QED BY <2>1, <2>2
<1> QED BY <1>1, InductiveInvariant, PTL

\* The server span is always ended when the request is over, whoever else ends
\* spans in the chain, and never before it was given its status.
THEOREM SpanAlwaysFinalized == Spec => []SpanEndsFinalized
<1>1. IInv => SpanEndsFinalized
  <2> SUFFICES ASSUME IInv, Finished PROVE span.state # "open"
    BY DEF IInv, SignalsInv, SpanEndsFinalized
  <2>1. depth = 0 BY DEF Finished, IInv, SignalsInv
  <2>2. \A i \in 1..Len(chain) : ~OpenTelemetry(i) BY <2>1 DEF OpenTelemetry
  <2> QED BY <2>2 DEF IInv, SignalsInv
<1> QED BY <1>1, InductiveInvariant, PTL

-----------------------------------------------------------------------------
(* The refinement of RequestSignals                                        *)

\* A step that leaves the gauge, the span and the histogram alone stutters.
LEMMA Stutter ==
  ASSUME UNCHANGED <<active, span, durations>> PROVE UNCHANGED Signals!vars
  BY DEF Signals!vars

\* A telemetry that finishes takes the abstract Report step.
LEMMA ReportStep ==
  ASSUME IInv, NEW p, Leave(p), IsTelemetry(Top), ~Skips(Top),
         NEW status \in AllStatuses, NEW err, FinishTelemetry(Top, status, err)
  PROVE  Signals!Report(status)
<1>1. Len(chain) \in Nat /\ depth \in 1..Len(chain)
  BY ChainFacts DEF IInv, TypeOK, Leave
<1>2. OpenTelemetry(depth) BY <1>1 DEF OpenTelemetry, Top
<1>3. /\ active = IF Metered(Top) THEN 1 ELSE 0
      /\ span.state = IF Traced(Top) THEN "open" ELSE "none"
      /\ durations = <<>>
  BY <1>1, <1>2 DEF IInv, SignalsInv, Top
<1>4. Metered(Top) \/ Traced(Top) BY DEF IsTelemetry
<1>5. durations' = IF active = 1 THEN <<status>> ELSE durations
  BY <1>3 DEF FinishTelemetry
<1>6. active' = 0 BY <1>3 DEF FinishTelemetry
<1>7. /\ span'.state = IF span.state = "open" THEN "ended" ELSE span.state
      /\ span'.status = IF span.state = "open" THEN status ELSE span.status
  BY <1>3 DEF FinishTelemetry
<1> QED BY <1>3, <1>4, <1>5, <1>6, <1>7 DEF Signals!Report

\* Every step is one of the contract's steps, or leaves what it speaks of alone.
LEMMA StepSignals == ASSUME IInv, [Next]_vars PROVE [Signals!Next]_(Signals!vars)
<1>1. CASE EnterTelemetry
  <2>1. Len(chain) \in Nat /\ depth \in 0..Len(chain)
    BY ChainFacts DEF IInv, TypeOK
  <2>2. PICK d \in 1..Len(chain) : d = depth + 1
    BY <1>1, <2>1 DEF EnterTelemetry, Enter
  <2>3. IsTelemetry(chain[d]) BY <1>1, <2>2 DEF EnterTelemetry, Next1
  <2>4. \A i \in 1..Len(chain) : ~OpenTelemetry(i)
    BY <2>1, <2>2, <2>3, ChainFacts DEF IInv, OpenTelemetry
  <2>5. active = 0 /\ span.state = "none" /\ durations = <<>>
    BY <1>1, <2>4 DEF IInv, SignalsInv, EnterTelemetry, Enter
  <2>6. Metered(Next1) \in BOOLEAN /\ Traced(Next1) \in BOOLEAN
    BY DEF Metered, Traced
  <2>7. /\ active' = IF Metered(Next1) THEN 1 ELSE 0
        /\ durations' = durations
    BY <1>1, <2>5 DEF EnterTelemetry
  <2>8. /\ span'.state = IF Traced(Next1) THEN "open" ELSE "none"
        /\ span'.status = span.status
    BY <1>1, <2>5 DEF EnterTelemetry, IInv, TypeOK, SpanType
  <2>9. Signals!Begin(Metered(Next1), Traced(Next1))
    BY <2>5, <2>7, <2>8 DEF Signals!Begin, Signals!Fresh
  <2> QED BY <2>6, <2>9 DEF Signals!Next
<1>2. CASE LeaveTelemetry
  <2>1. Signals!Report(Resolved.status)
    BY <1>2, ReportStep, ResolvedType DEF LeaveTelemetry, IInv
  <2> QED BY <2>1, ResolvedType DEF Signals!Next, IInv
<1>3. CASE UnwindTelemetry
  <2>1. 500 \in AllStatuses BY DEF AllStatuses, Statuses
  <2>2. Signals!Report(500) BY <1>3, <2>1, ReportStep DEF UnwindTelemetry
  <2> QED BY <2>1, <2>2 DEF Signals!Next
<1>4. CASE LogRefusal
  <2>1. CASE durations' = durations
    BY <1>4, <2>1, Stutter DEF LogRefusal
  <2>2. CASE durations' # durations
    <3>1. durations' = <<response>> /\ active = 0 /\ span.state = "none" /\ durations = <<>>
      <4>1. Refused /\ depth = 0 /\ span.state = "none" /\ durations = <<>>
        BY <1>4 DEF LogRefusal, IInv, SignalsInv
      <4>2. active = 0 BY <4>1 DEF IInv, SignalsInv, OpenTelemetry
      <4> QED BY <1>4, <2>2, <4>1, <4>2 DEF LogRefusal
    <3>2. Signals!CountRefusal(response)
      BY <1>4, <3>1 DEF LogRefusal, Signals!CountRefusal, Signals!Fresh
    <3> QED BY <3>2 DEF Signals!Next, IInv, TypeOK
  <2> QED BY <2>1, <2>2
<1>5. CASE LeaveEndSpans \/ UnwindEndSpans
  <2>1. span' = span
    BY <1>5, EndSpansLeavesServerSpan DEF LeaveEndSpans, UnwindEndSpans, IInv
  <2> QED BY <1>5, <2>1, Stutter DEF LeaveEndSpans, UnwindEndSpans
<1>6. CASE EnterPassive \/ EnterLogging \/ EnterFinalizer \/ ShortCircuit
           \/ HandlerReturns \/ HandlerPanics \/ NoRoute
  BY <1>6, Stutter DEF EnterPassive, EnterLogging, EnterFinalizer, ShortCircuit,
       HandlerReturns, HandlerPanics, NoRoute, signals
<1>7. CASE LeavePassive \/ LeaveLogging \/ LeaveFinalizer \/ AppReturnsItsOwn
           \/ AppAnswers \/ AppPanics \/ UnwindPassive \/ UnwindLogging \/ Recover \/ Crash
           \/ Dispatch \/ UNCHANGED vars
  BY <1>7, Stutter DEF LeavePassive, LeaveLogging, LeaveFinalizer,
       AppReturnsItsOwn, AppAnswers, AppPanics, UnwindPassive, UnwindLogging, Recover, Crash,
       Dispatch, signals, vars
<1> QED BY <1>1, <1>2, <1>3, <1>4, <1>5, <1>6, <1>7
        DEF Next, Down, Up, Unwind

\* However the chain is ordered and however the request ends, telemetry takes it
\* in once and reports it once, gauge, span and histogram together.
THEOREM Refinement == Spec => ImplementsSignals
<1>1. Init => Signals!Init BY DEF Init, NoSpan, Signals!Init
<1> QED BY <1>1, StepSignals, InductiveInvariant, PTL DEF Spec, Signals!Spec, ImplementsSignals

-----------------------------------------------------------------------------
(* What is reported of a request, and what becomes of its error            *)

\* Some frame of this kind is open.
Opened(F) == \E i \in 1..depth : chain[i] \in F

Finalizer == {"finalizer"}
Logger    == {"logging"}
Counters  == {"telemetry", "metered"}
Observers == {"logging", "telemetry", "tracing", "metered"}

\* The finalizer decides once, on the way up, and the decision stands.
FinalInv ==
  /\ phase = "down" => carried = None
  /\ phase = "down" \/ Refused => handled = None
  /\ phase = "down" \/ Opened(Finalizer) => ~final.finalized /\ renders = 0
  /\ final.finalized => Has("finalizer")
  /\ phase \in {"up", "panic"} =>
       /\ renders <= 1
       /\ IF final.finalized THEN response = final.status \/ own.rewrote
                             ELSE renders = 0

\* Under an outermost observer no error is left once the response is decided.
RogueInv == ObserverOutside /\ ctx.finalizer /\ final.finalized =>
  /\ phase = "up" /\ depth = 0 => carried = None
  /\ phase = "served" => renders <= 1 /\ (response = final.status \/ own.rewrote)

\* A handler's error reaches the finalizer as what it normalizes to, and leaves
\* it as a response.
GuardedChain == Has("finalizer") /\ ~Has("app") /\ ~Refused
GuardedInv == GuardedChain =>
  /\ handled # "panic" => phase \notin {"panic", "crashed"}
  /\ handled # "panic" /\ phase = "up" /\ ~Opened(Finalizer) => carried = None
  /\ handled \in Returned /\ phase = "up" /\ Opened(Finalizer) =>
       Normalize(carried) = Normalize(handled)
  /\ /\ handled \in Returned /\ setup.errorHandler = "default"
     /\ (phase = "up" /\ ~Opened(Finalizer)) \/ phase = "served"
     => response = Code(handled)

\* Until the finalizer decides, a failed request carries an error; then the
\* decision names one.  Whoever swallowed the error before recorded a cause.
Named == handled \in Returned /\ (Has("finalizer") => ctx.finalizer) /\ ~own.silent
CauseInv == Named =>
  /\ \A i \in 1..Len(lines) : lines[i].cause # None
  /\ phase \in {"up", "panic"} =>
       \/ IF final.finalized THEN final.err # None ELSE carried # None
       \/ cause # None

\* No access line until the logging frame is left, and exactly one after it.
LinesInv ==
  /\ Len(lines) <= 1
  /\ phase = "down" \/ Opened(Logger) \/ (Refused /\ phase # "served") => lines = <<>>
  /\ /\ phase # "down" /\ ~Refused /\ ~setup.excludedLog
     /\ Reached("logging") /\ ~Opened(Logger)
     => Len(lines) = 1
  /\ phase = "served" /\ Refused =>
       Len(lines) = IF setup.kind = "nothingRead" THEN 0 ELSE 1

\* The same for the histogram; a refusal finds it through the mark.
Counted == Reached("telemetry") \/ Reached("metered")
DurationsInv ==
  /\ Len(durations) <= 1
  /\ phase = "down" \/ Opened(Counters) \/ (Refused /\ phase # "served") => durations = <<>>
  /\ /\ phase # "down" /\ ~Refused /\ ~setup.excludedTel
     /\ Counted /\ ~Opened(Counters)
     => Len(durations) = 1
  /\ setup.kind = "refused" /\ ~setup.excludedTel =>
       /\ Opened(Counters) => mark
       /\ phase # "down" /\ Counted => mark
       /\ phase = "served" /\ Counted => durations = <<response>>

\* Between the finalizer and the outermost observer nothing changes its mind:
\* what is reported there is the decided response, or the 500 of a panic.
ZoneInv ==
  /\ phase = "down" \/ Opened(Finalizer) => Reported = {}
  /\ Opened(Observers) /\ ~Opened(Finalizer) /\ phase = "up" =>
       /\ final.finalized /\ carried = None
       /\ response = final.status /\ Reported \subseteq {response}
  /\ Opened(Observers) /\ phase = "panic" => Reported \subseteq {500}
  /\ \A s, t \in Reported : s = t

\* With no application middleware above either, the client is sent it.
Watched == \E i \in 1..Len(chain) : chain[i] \in Observers
ClientInv ==
  /\ ~Watched => Reported = {}
  /\ Watched /\ NoAppAboveObservers /\ final.finalized =>
       /\ phase \in {"up", "served"} /\ Reported \subseteq {response}
       /\ phase = "up" => carried = None /\ response = final.status

AgreeInv ==
  /\ Refused => Reported \subseteq {response} /\ (phase # "served" => Reported = {})
  /\ DocumentedOrder /\ ~Refused => ZoneInv /\ ClientInv

ReportInv == FinalInv /\ RogueInv /\ GuardedInv /\ CauseInv /\ LinesInv
             /\ DurationsInv /\ AgreeInv

-----------------------------------------------------------------------------
(* Frames that open and close                                              *)

\* The depth is a position in the chain, or none.
LEMMA DepthFacts ==
  ASSUME TypeOK PROVE Len(chain) \in Nat /\ depth \in 0..Len(chain) /\ depth \in Nat
  BY ChainFacts DEF TypeOK

\* A middleware of the library stands in the chain once.
LEMMA FrameOnce ==
  ASSUME TypeOK, NEW i \in 1..Len(chain), NEW j \in 1..Len(chain),
         chain[i] = chain[j], chain[i] \notin {"app", "recover"}
  PROVE  i = j
<1>1. setup \in Setups BY DEF TypeOK
<1> QED BY <1>1, SetupAssumption DEF chain

\* Entering a frame opens it.
LEMMA EnterOpens ==
  ASSUME TypeOK, Enter, UNCHANGED setup, NEW F
  PROVE  Opened(F)' <=> Opened(F) \/ Next1 \in F
<1>1. chain' = chain BY DEF chain
<1>2. 1..depth' = (1..depth) \cup {depth + 1} BY DepthFacts DEF Enter
<1> QED BY <1>1, <1>2 DEF Opened, Next1

\* Leaving a frame closes it, and no other.
LEMMA LeaveCloses ==
  ASSUME TypeOK, NEW p, Leave(p), UNCHANGED setup, NEW F
  PROVE  Opened(F) <=> Opened(F)' \/ Top \in F
<1>1. chain' = chain BY DEF chain
<1>2. 1..depth = (1..depth') \cup {depth} BY DepthFacts DEF Leave
<1> QED BY <1>1, <1>2 DEF Opened, Top

\* Of a kind that stands in the chain once, none is open after it is left.
LEMMA LeaveLast ==
  ASSUME TypeOK, NEW p, Leave(p), UNCHANGED setup, NEW F, Top \in F,
         \A i, j \in 1..Len(chain) : chain[i] \in F /\ chain[j] \in F => i = j
  PROVE  ~Opened(F)'
<1>1. chain' = chain BY DEF chain
<1>2. depth \in 1..Len(chain) /\ depth' = depth - 1 BY DepthFacts DEF Leave
<1> QED BY <1>1, <1>2 DEF Opened, Top

\* The frames that stand in the chain once.
LEMMA OnceEach ==
  ASSUME TypeOK
  PROVE  \A F \in {Finalizer, Logger, Counters} : \A i, j \in 1..Len(chain) :
           chain[i] \in F /\ chain[j] \in F => i = j
  BY FrameOnce, ChainFacts DEF Finalizer, Logger, Counters, IsTelemetry, Metered

\* Nothing opens or closes where no frame is entered or left.
LEMMA StayOpened ==
  ASSUME UNCHANGED <<setup, depth>>, NEW F PROVE Opened(F)' <=> Opened(F)
  BY DEF Opened, chain

\* Nothing is open above the first frame.
LEMMA NoneOpened == ASSUME depth = 0, NEW F PROVE ~Opened(F)
  BY DEF Opened

\* At the handler every frame is open.
LEMMA AllOpened ==
  ASSUME TypeOK, depth = Len(chain), NEW f, Has(f), NEW F, f \in F PROVE Opened(F)
  BY DEF Opened, Has

\* What is fixed by the application and the request.
LEMMA Fixed ==
  ASSUME UNCHANGED setup
  PROVE  /\ chain' = chain /\ (Refused' <=> Refused) /\ (Watched' <=> Watched)
         /\ (DocumentedOrder' <=> DocumentedOrder) /\ (Counted' <=> Counted)
         /\ (NoAppAboveObservers' <=> NoAppAboveObservers)
         /\ (ObserverOutside' <=> ObserverOutside) /\ (GuardedChain' <=> GuardedChain)
         /\ \A f : (Has(f)' <=> Has(f)) /\ (Reached(f)' <=> Reached(f))
                   /\ (Skips(f)' <=> Skips(f))
<1>1. chain' = chain /\ (Refused' <=> Refused) BY DEF chain, Refused
<1>2. \A f : (Has(f)' <=> Has(f)) /\ (Reached(f)' <=> Reached(f))
             /\ (Skips(f)' <=> Skips(f))
  BY <1>1 DEF Has, Reached, Skips, Excluded
<1>3. (DocumentedOrder' <=> DocumentedOrder) /\ (Watched' <=> Watched)
  BY <1>1 DEF DocumentedOrder, Watched
<1>4. (NoAppAboveObservers' <=> NoAppAboveObservers) /\ (Counted' <=> Counted)
  BY <1>2 DEF NoAppAboveObservers, Counted
<1>5. (ObserverOutside' <=> ObserverOutside) /\ (GuardedChain' <=> GuardedChain)
  BY <1>1, <1>2 DEF ObserverOutside, GuardedChain
<1> QED BY <1>1, <1>2, <1>3, <1>4, <1>5

-----------------------------------------------------------------------------
(* Six shapes of a step                                                    *)

\* The frames on the way down.
Enters ==
  /\ Enter /\ phase' = "down"
  /\ UNCHANGED <<setup, carried, response, final, cause, lines, durations, renders, handled>>
  /\ span' = span \/ span'.state # "ended"

\* The way down ends, at the handler or in an application middleware.
Turns ==
  /\ phase = "down" /\ phase' \in {"up", "panic"}
  /\ \/ depth = Len(chain) /\ depth' = depth
     \/ Enter /\ Next1 = "app"
  /\ UNCHANGED <<setup, final, span, lines, durations, mark, renders>>

\* A frame is left on the way up, or unwound, without a decision.
Passes ==
  /\ phase \in {"up", "panic"} /\ phase' \in {"up", "panic"} /\ Leave(phase)
  /\ UNCHANGED <<setup, response, ctx, final, cause, mark, renders, handled>>
  /\ own' = own \/ (own'.rewrote = own.rewrote /\ own'.silent = own.silent)

\* An application middleware answers: over a decision it rewrites the response,
\* before one it says why or is silent.
Answered ==
  /\ phase = "up" /\ phase' = "up" /\ Leave("up") /\ Top = "app" /\ carried' = None
  /\ UNCHANGED <<setup, ctx, final, span, lines, durations, mark, renders, handled>>
  /\ final.finalized => own'.rewrote
  /\ ~own'.silent => ~own.silent /\ (final.finalized \/ cause' # None)
  /\ cause # None => cause' # None

\* The steps that leave a frame without a decision.
Leaving == \/ LeavePassive \/ LeaveLogging \/ LeaveTelemetry \/ LeaveEndSpans
           \/ AppReturnsItsOwn \/ AppPanics \/ UnwindPassive \/ UnwindLogging
           \/ UnwindTelemetry \/ UnwindEndSpans \/ Recover

\* Fiber ends the request.
Ends ==
  /\ depth = 0 /\ depth' = 0 /\ phase # "down" /\ phase # "served"
  /\ phase' \in {"rendered", "served", "crashed"}
  /\ UNCHANGED <<setup, carried, ctx, final, cause, span, mark, handled, own>>

\* Every step but the finalizer's decision has one of those shapes.
LEMMA Shapes ==
  ASSUME IInv, Next
  PROVE  \/ Enters /\ (EnterPassive \/ EnterLogging \/ EnterTelemetry \/ EnterFinalizer)
         \/ Turns /\ (ShortCircuit \/ HandlerReturns \/ HandlerPanics \/ NoRoute)
         \/ Passes /\ Leaving
         \/ Answered
         \/ LeaveFinalizer
         \/ Ends /\ (Crash \/ Dispatch \/ LogRefusal)
<1>1. CASE EnterPassive \/ EnterLogging \/ EnterFinalizer
  BY <1>1 DEF EnterPassive, EnterLogging, EnterFinalizer, Enters, Enter, signals
<1>2. CASE EnterTelemetry
  <2>1. span' = span \/ span'.state # "ended"
    BY <1>2 DEF EnterTelemetry, IInv, TypeOK, SpanType
  <2> QED BY <1>2, <2>1 DEF EnterTelemetry, Enters, Enter
<1>3. CASE ShortCircuit \/ HandlerReturns \/ HandlerPanics \/ NoRoute
  BY <1>3 DEF ShortCircuit, HandlerReturns, HandlerPanics, NoRoute, AtHandler,
       Enter, Turns, signals
<1>4. CASE LeavePassive \/ LeaveLogging \/ LeaveTelemetry \/ LeaveEndSpans
           \/ AppPanics
  BY <1>4 DEF Leaving, LeavePassive, LeaveLogging, LeaveTelemetry, LeaveEndSpans,
       AppPanics, Passes, Leave
<1>8. CASE AppReturnsItsOwn
  <2>1. own'.rewrote = own.rewrote /\ own'.silent = own.silent
    BY <1>8 DEF AppReturnsItsOwn, IInv, TypeOK
  <2> QED BY <1>8, <2>1 DEF Leaving, AppReturnsItsOwn, Passes, Leave
<1>9. CASE AppAnswers
  <2>1. /\ final.finalized => own'.rewrote
        /\ ~own'.silent => ~own.silent /\ (final.finalized \/ cause' # None)
    BY <1>9 DEF AppAnswers, IInv, TypeOK
  <2>2. cause # None => cause' # None
    BY <1>9 DEF AppAnswers, Answers, Records
  <2> QED BY <1>9, <2>1, <2>2 DEF Answered, AppAnswers, Leave, signals
<1>5. CASE UnwindPassive \/ UnwindLogging \/ UnwindTelemetry \/ UnwindEndSpans
           \/ Recover
  <2>1. Leave("panic") /\ phase = "panic" /\ phase' \in {"up", "panic"}
    BY <1>5 DEF UnwindPassive, UnwindLogging, UnwindTelemetry, UnwindEndSpans,
         Recover, Leave
  <2>2. UNCHANGED <<setup, response, ctx, final, cause, mark, renders, handled, own>>
    BY <1>5 DEF UnwindPassive, UnwindLogging, UnwindTelemetry, UnwindEndSpans, Recover
  <2> QED BY <1>5, <2>1, <2>2 DEF Leaving, Passes
<1>6. CASE Crash \/ Dispatch
  BY <1>6 DEF Crash, Dispatch, Ends, signals
<1>7. CASE LogRefusal
  <2>1. depth = 0 BY <1>7 DEF LogRefusal, IInv, SignalsInv
  <2> QED BY <1>7, <2>1 DEF LogRefusal, Ends
<1> QED BY <1>1, <1>2, <1>3, <1>4, <1>5, <1>6, <1>7, <1>8, <1>9
        DEF Next, Down, Up, Unwind

\* An observer that is not skipped is left by reporting.
LEMMA ObserverReports ==
  ASSUME Passes, Top \in Observers, ~Skips(Top),
         Leaving
  PROVE  \/ Top = "logging" /\ (LeaveLogging \/ UnwindLogging)
         \/ IsTelemetry(Top) /\ (LeaveTelemetry \/ UnwindTelemetry)
  BY DEF Leaving, Observers, LeavePassive, LeaveEndSpans, AppReturnsItsOwn, AppPanics,
       UnwindPassive, UnwindEndSpans, Recover, LeaveLogging, UnwindLogging,
       LeaveTelemetry, UnwindTelemetry

\* Leaving any other frame, or one that is skipped, reports nothing.
LEMMA OthersReportNothing ==
  ASSUME IInv, Passes, Top \notin Observers \/ Skips(Top),
         Leaving
  PROVE  UNCHANGED <<lines, durations, span>>
<1>1. CASE LeavePassive \/ AppReturnsItsOwn \/ AppPanics \/ UnwindPassive \/ Recover
  BY <1>1 DEF LeavePassive, AppReturnsItsOwn, AppPanics, UnwindPassive, Recover, signals
<1>2. CASE LeaveEndSpans \/ UnwindEndSpans
  BY <1>2, EndSpansLeavesServerSpan DEF IInv, LeaveEndSpans, UnwindEndSpans
<1>3. CASE LeaveLogging \/ UnwindLogging \/ LeaveTelemetry \/ UnwindTelemetry
  BY <1>3 DEF LeaveLogging, UnwindLogging, LeaveTelemetry, UnwindTelemetry,
       Observers, IsTelemetry, Traced, Metered
<1> QED BY <1>1, <1>2, <1>3 DEF Leaving

\* What the error on its way up becomes where a frame is left, not panicking.
LEMMA CarriedOn ==
  ASSUME Passes, phase = "up", Top # "app",
         Leaving
  PROVE  /\ phase' = "up" /\ Top # "finalizer"
         /\ \/ carried' = carried
            \/ carried' = Normalize(carried)
            \/ carried' = Resolved.chainErr
<1>1. CASE LeavePassive
  BY <1>1 DEF LeavePassive, Skips, Excluded, Refused, IsTelemetry, Traced, Metered
<1>2. CASE LeaveLogging \/ LeaveTelemetry \/ LeaveEndSpans
  BY <1>2 DEF LeaveLogging, LeaveTelemetry, LeaveEndSpans, IsTelemetry, Traced, Metered
<1>3. ~(AppReturnsItsOwn \/ AppPanics) BY DEF AppReturnsItsOwn, AppPanics
<1>4. ~(UnwindPassive \/ UnwindLogging \/ UnwindTelemetry \/ UnwindEndSpans \/ Recover)
  BY DEF UnwindPassive, UnwindLogging, UnwindTelemetry, UnwindEndSpans, Recover, Leave
<1> QED BY <1>1, <1>2, <1>3, <1>4 DEF Leaving

\* What normalizing does: an error stays an error, once and for all.
LEMMA NormalizeFacts ==
  /\ \A e : e # None => Normalize(e) # None
  /\ \A e : Normalize(Normalize(e)) = Normalize(e)
  /\ Normalize(None) = None
  BY DEF Normalize, None

\* Nothing the middleware of the library does turns no error into one.
LEMMA NoErrorStays ==
  ASSUME carried = None PROVE Normalize(carried) = None /\ Resolved.chainErr = None
  BY NormalizeFacts DEF Resolved

\* The finalizer's decision, and how the error handler ended.
LEMMA Decision ==
  ASSUME LeaveFinalizer
  PROVE  LET n == Normalize(carried)
             orig == IF carried = "typedNil" THEN n ELSE carried IN
         /\ phase = "up" /\ phase' = "up" /\ Leave("up") /\ Top = "finalizer"
         /\ carried' = None
         /\ UNCHANGED <<setup, ctx, cause, span, lines, durations, mark, handled, own>>
         /\ final'.finalized /\ final'.status = response' /\ final'.err = orig
         /\ renders' = IF n = None THEN renders ELSE renders + 1
         /\ \E out \in IF n = None THEN {[ends |-> "ok", status |-> response]}
                                   ELSE ErrorHandler(Printable(n)) :
              response' = StatusAfter(out)
<1> DEFINE n == Normalize(carried)
           orig == IF carried = "typedNil" THEN n ELSE carried
<1>1. PICK out \in IF n = None THEN {[ends |-> "ok", status |-> response]}
                               ELSE ErrorHandler(Printable(n)) :
        /\ response' = StatusAfter(out)
        /\ final' = [finalized |-> TRUE, status |-> StatusAfter(out), err |-> orig]
        /\ renders' = IF n = None THEN renders ELSE renders + 1
  BY DEF LeaveFinalizer, Decide
<1>2. /\ phase = "up" /\ phase' = "up" /\ Leave("up") /\ Top = "finalizer"
      /\ carried' = None
      /\ UNCHANGED <<setup, ctx, cause, span, lines, durations, mark, handled, own>>
  BY DEF LeaveFinalizer, Leave, FinalizerReturns, signals
<1> HIDE DEF n, orig
<1>3. final'.finalized /\ final'.status = response' /\ final'.err = orig BY <1>1
<1> QED BY <1>1, <1>2, <1>3 DEF n, orig

\* A request that comes up without an error is served as it is.
LEMMA ServedAsIs ==
  ASSUME Dispatch, ~Refused, carried = None
  PROVE  response' = response /\ renders' = renders /\ phase' = "served"
<1>1. Normalize(carried) = None BY NormalizeFacts
<1> QED BY <1>1 DEF Dispatch, StatusAfter

-----------------------------------------------------------------------------
(* Each invariant is kept                                                  *)

\* The finalizer decides once.
LEMMA FinalKept ==
  ASSUME IInv, FinalInv, Next PROVE FinalInv'
<1> USE DEF IInv
<1>1. CASE Enters \/ (Turns /\ (ShortCircuit \/ HandlerReturns \/ HandlerPanics \/ NoRoute))
  <2>1. phase = "down" /\ ~final.finalized /\ renders = 0 /\ handled = None /\ carried = None
    BY <1>1 DEF Enters, Turns, Enter, FinalInv
  <2>2. UNCHANGED <<final, renders>> BY <1>1 DEF Enters, Turns
  <2>3. phase' = "down" => UNCHANGED <<handled, carried>> BY <1>1 DEF Enters, Turns
  <2>4. Refused' <=> Refused BY <1>1, Fixed DEF Enters, Turns
  <2>5. Refused => handled' = None
    BY <1>1, <2>1 DEF Enters, ShortCircuit, HandlerReturns, HandlerPanics, NoRoute
  <2> QED BY <2>1, <2>2, <2>3, <2>4, <2>5 DEF FinalInv
<1>2. CASE Passes
  <2>1. Opened(Finalizer)' => Opened(Finalizer) BY <1>2, LeaveCloses DEF Passes
  <2>2. (Refused' <=> Refused) /\ \A f : Has(f)' <=> Has(f) BY <1>2, Fixed DEF Passes
  <2> QED BY <1>2, <2>1, <2>2 DEF FinalInv, Passes
<1>3. CASE LeaveFinalizer
  <2>1. Opened(Finalizer) /\ ~Opened(Finalizer)'
    BY <1>3, Decision, LeaveCloses, LeaveLast, OnceEach DEF Finalizer
  <2>2. (Refused' <=> Refused) /\ Has("finalizer")'
    BY <1>3, Decision, Fixed, DepthFacts DEF Has, Top, Leave
  <2>3. renders = 0 BY <2>1 DEF FinalInv
  <2>4. renders' <= 1 BY <1>3, <2>3, Decision
  <2> QED BY <1>3, <2>1, <2>2, <2>4, Decision DEF FinalInv
<1>4. CASE Ends
  <2>1. ~Opened(Finalizer)' BY <1>4, NoneOpened DEF Ends, Opened
  <2>2. (Refused' <=> Refused) /\ \A f : Has(f)' <=> Has(f) BY <1>4, Fixed DEF Ends
  <2> QED BY <1>4, <2>1, <2>2 DEF FinalInv, Ends
<1>5. CASE Answered
  <2>1. Opened(Finalizer)' => Opened(Finalizer) BY <1>5, LeaveCloses DEF Answered
  <2>2. (Refused' <=> Refused) /\ \A f : Has(f)' <=> Has(f) BY <1>5, Fixed DEF Answered
  <2> QED BY <1>5, <2>1, <2>2 DEF FinalInv, Answered
<1> QED BY <1>1, <1>2, <1>3, <1>4, <1>5, Shapes

\* An observer above everything hands on no error the finalizer decided on.
LEMMA RogueKept ==
  ASSUME IInv, FinalInv, RogueInv, Next PROVE RogueInv'
<1> USE DEF IInv
<1> SUFFICES ASSUME (ObserverOutside /\ ctx.finalizer /\ final.finalized)'
             PROVE  /\ phase' = "up" /\ depth' = 0 => carried' = None
                    /\ phase' = "served" =>
                         renders' <= 1 /\ (response' = final'.status \/ own'.rewrote)
  BY DEF RogueInv
<1>0. UNCHANGED setup
  BY Shapes, Decision DEF Enters, Turns, Passes, Answered, Ends
<1>1. /\ ObserverOutside /\ chain[1] \in Observers /\ ~Skips(chain[1]) /\ ~Refused
      /\ Len(chain) > 0
  BY <1>0, Fixed DEF ObserverOutside, Observes, IsTelemetry, Traced, Metered,
       Observers, Skips
<1>2. CASE Enters \/ Turns BY <1>2 DEF Enters, Turns, FinalInv, Enter
<1>3. CASE Passes /\ Leaving
  <2>1. ctx.finalizer /\ final.finalized /\ phase' # "served" BY <1>3 DEF Passes
  <2>2. SUFFICES ASSUME phase' = "up", depth' = 0 PROVE carried' = None
    BY <2>1
  <2>3. Top = chain[1] BY <1>3, <2>2, DepthFacts DEF Passes, Leave, Top
  <2>4. LeaveLogging \/ LeaveTelemetry \/ UnwindLogging \/ UnwindTelemetry
    BY <1>1, <1>3, <2>3, ObserverReports
  <2>5. ~(UnwindLogging \/ UnwindTelemetry)
    BY <2>2 DEF UnwindLogging, UnwindTelemetry, Leave
  <2>6. carried' = Resolved.chainErr BY <2>4, <2>5 DEF LeaveLogging, LeaveTelemetry
  <2> QED BY <2>1, <2>6 DEF Resolved
<1>4. CASE LeaveFinalizer
  <2>1. depth' = 0 => Top = chain[1] BY <1>4, Decision, DepthFacts DEF Leave, Top
  <2> QED BY <1>1, <1>4, <2>1, Decision DEF Observers
<1>5. CASE Ends /\ Crash BY <1>5 DEF Crash
<1>6. CASE Ends /\ Dispatch
  <2>1. ctx.finalizer /\ final.finalized /\ depth = 0 /\ phase = "up"
    BY <1>6 DEF Ends, Dispatch
  <2>2. carried = None BY <1>1, <2>1 DEF RogueInv
  <2>3. response' = response /\ renders' = renders BY <1>1, <1>6, <2>2, ServedAsIs
  <2>4. renders <= 1 /\ (response = final.status \/ own.rewrote) BY <2>1 DEF FinalInv
  <2> QED BY <1>6, <2>2, <2>3, <2>4 DEF Ends
<1>7. CASE Ends /\ LogRefusal BY <1>1, <1>7 DEF LogRefusal, SignalsInv
<1>8. CASE Answered BY <1>8 DEF Answered
<1> QED BY <1>2, <1>3, <1>4, <1>5, <1>6, <1>7, <1>8, Shapes

\* Whatever it is handed, what the finalizer prints maps to the error's status.
LEMMA PrintedStatus ==
  ASSUME NEW e \in Returned
  PROVE  LET n == Normalize(e) IN
         n # None /\ Code(Printable(n)) = Code(e) /\ IsSafeToStringify(Printable(n))
  BY DEF Returned, None, Normalize, Printable, IsSafeToStringify, Code

\* A handler's error reaches the finalizer intact and leaves it as a response.
LEMMA GuardedKept ==
  ASSUME IInv, FinalInv, GuardedInv, Next PROVE GuardedInv'
<1> USE DEF IInv
<1>0. UNCHANGED setup
  BY Shapes, Decision DEF Enters, Turns, Passes, Answered, Ends
<1> SUFFICES ASSUME GuardedChain'
             PROVE  /\ handled' # "panic" => phase' \notin {"panic", "crashed"}
                    /\ handled' # "panic" /\ phase' = "up" /\ ~Opened(Finalizer)'
                         => carried' = None
                    /\ handled' \in Returned /\ phase' = "up" /\ Opened(Finalizer)'
                         => Normalize(carried') = Normalize(handled')
                    /\ /\ handled' \in Returned /\ setup'.errorHandler = "default"
                       /\ (phase' = "up" /\ ~Opened(Finalizer)') \/ phase' = "served"
                       => response' = Code(handled')
  BY DEF GuardedInv
<1>1. GuardedChain /\ ~Refused /\ Has("finalizer") /\ ~Has("app")
  BY <1>0, Fixed DEF GuardedChain
<1>2. "panic" \notin Returned /\ None \notin Returned /\ "ok" \notin Returned /\ None # "panic"
  BY DEF Returned, None
<1>3. CASE Enters
  BY <1>2, <1>3 DEF Enters, FinalInv, Enter
<1>4. CASE Turns /\ (ShortCircuit \/ HandlerReturns \/ HandlerPanics \/ NoRoute)
  <2>1. ~ShortCircuit
    BY <1>1, DepthFacts DEF ShortCircuit, Has, Enter, Next1
  <2>2. ~NoRoute BY <1>1 DEF NoRoute
  <2>3. CASE HandlerPanics BY <1>2, <2>3 DEF HandlerPanics
  <2>4. CASE HandlerReturns
    <3>1. phase' = "up" /\ handled' # "panic"
          /\ (handled' \in Returned => carried' = handled')
      BY <1>2, <2>4 DEF HandlerReturns
    <3>2. Opened(Finalizer)
      BY <1>1, <2>4, AllOpened DEF HandlerReturns, AtHandler, Finalizer
    <3>3. Opened(Finalizer)' BY <1>0, <2>4, <3>2, StayOpened DEF HandlerReturns
    <3> QED BY <3>1, <3>3
  <2> QED BY <1>4, <2>1, <2>2, <2>3, <2>4
<1>5. CASE Passes /\ Leaving
  <2>1. Top # "app" BY <1>1, <1>5, DepthFacts DEF Passes, Leave, Has, Top
  <2>2. CASE handled = "panic" BY <1>2, <1>5, <2>2 DEF Passes
  <2>3. CASE handled # "panic"
    <3>1. phase = "up" BY <1>1, <1>5, <2>3 DEF GuardedInv, Passes
    <3>2. /\ phase' = "up" /\ Top # "finalizer"
          /\ \/ carried' = carried
             \/ carried' = Normalize(carried)
             \/ carried' = Resolved.chainErr
      BY <1>5, <2>1, <3>1, CarriedOn
    <3>3. Opened(Finalizer)' <=> Opened(Finalizer)
      BY <1>5, <3>2, LeaveCloses DEF Passes, Finalizer
    <3>4. handled' = handled /\ response' = response BY <1>5 DEF Passes
    <3>5. CASE Opened(Finalizer)
      <4>1. Resolved.chainErr = Normalize(carried) BY <3>5 DEF FinalInv, Resolved
      <4>2. Normalize(carried') = Normalize(carried) BY <3>2, <4>1, NormalizeFacts
      <4> QED BY <1>1, <3>1, <3>2, <3>3, <3>4, <3>5, <4>2 DEF GuardedInv
    <3>6. CASE ~Opened(Finalizer)
      <4>1. carried = None BY <1>1, <2>3, <3>1, <3>6 DEF GuardedInv
      <4>2. carried' = None BY <3>2, <4>1, NoErrorStays
      <4> QED BY <1>0, <1>1, <3>1, <3>2, <3>3, <3>4, <3>6, <4>2 DEF GuardedInv
    <3> QED BY <3>5, <3>6
  <2> QED BY <2>2, <2>3
<1>6. CASE LeaveFinalizer
  <2>1. Opened(Finalizer) /\ ~Opened(Finalizer)'
    BY <1>6, Decision, LeaveCloses, LeaveLast, OnceEach DEF Finalizer
  <2>2. phase = "up" /\ phase' = "up" /\ carried' = None /\ handled' = handled
    BY <1>6, Decision
  <2>3. ASSUME handled \in Returned, setup.errorHandler = "default"
        PROVE  response' = Code(handled)
    <3> DEFINE n == Normalize(handled)
    <3>1. Normalize(carried) = n BY <1>1, <2>1, <2>2, <2>3 DEF GuardedInv
    <3>2. n # None /\ Code(Printable(n)) = Code(handled) /\ IsSafeToStringify(Printable(n))
      BY <2>3, PrintedStatus
    <3> HIDE DEF n
    <3>3. \E out \in ErrorHandler(Printable(n)) : response' = StatusAfter(out)
      BY <1>6, <3>1, <3>2, Decision
    <3> QED BY <2>3, <3>2, <3>3 DEF ErrorHandler, StatusAfter
  <2> QED BY <1>0, <2>1, <2>2, <2>3
<1>7. CASE Ends /\ (Crash \/ Dispatch \/ LogRefusal)
  <2>1. handled' = handled BY <1>7 DEF Ends
  <2>2. CASE Crash BY <1>1, <2>1, <2>2 DEF Crash, GuardedInv, Returned
  <2>3. CASE Dispatch
    <3>1. phase = "up" /\ ~Opened(Finalizer) BY <2>3, NoneOpened DEF Dispatch
    <3>2. CASE handled = "panic" BY <1>2, <2>1, <3>2
    <3>3. CASE handled # "panic"
      <4>1. carried = None BY <1>1, <3>1, <3>3 DEF GuardedInv
      <4>2. response' = response /\ phase' = "served" BY <1>1, <2>3, <4>1, ServedAsIs
      <4> QED BY <1>0, <1>1, <2>1, <3>1, <4>2 DEF GuardedInv
    <3> QED BY <3>2, <3>3
  <2>4. ~LogRefusal BY <1>1 DEF LogRefusal, SignalsInv
  <2> QED BY <1>7, <2>2, <2>3, <2>4
<1>8. ~Answered
  BY <1>1, DepthFacts DEF Answered, Leave, Has, Top
<1> QED BY <1>3, <1>4, <1>5, <1>6, <1>7, <1>8, Shapes

\* A line appended to lines that all name a cause, with a cause of its own.
LEMMA CauseAppended ==
  ASSUME TypeOK, \A i \in 1..Len(lines) : lines[i].cause # None,
         NEW status, NEW why, why # None, WriteAccessLine(status, why)
  PROVE  \A i \in 1..Len(lines') : lines'[i].cause # None
<1> DEFINE line == [status |-> status, cause |-> why]
<1>1. lines' = Append(lines, line) /\ line.cause = why BY DEF WriteAccessLine
<1>2. lines \in Seq(LineType) BY DEF TypeOK
<1> HIDE DEF line
<1>3. /\ Len(lines') = Len(lines) + 1 /\ Len(lines) \in Nat
      /\ \A i \in 1..Len(lines') :
           lines'[i] = IF i <= Len(lines) THEN lines[i] ELSE line
  BY <1>1, <1>2
<1> QED BY <1>1, <1>3

\* The error a failed request carries, or the one it was decided with, is named.
LEMMA CauseKept ==
  ASSUME IInv, FinalInv, LinesInv, CauseInv, Next PROVE CauseInv'
<1> USE DEF IInv
<1>0. UNCHANGED setup
  BY Shapes, Decision DEF Enters, Turns, Passes, Answered, Ends
<1> SUFFICES ASSUME Named'
             PROVE  /\ \A i \in 1..Len(lines') : lines'[i].cause # None
                    /\ phase' \in {"up", "panic"} =>
                         \/ IF final'.finalized THEN final'.err # None ELSE carried' # None
                         \/ cause' # None
  BY DEF CauseInv
<1>1. /\ "panic" \notin Returned /\ "ok" \notin Returned /\ None \notin Returned
      /\ "panic" # None /\ "refusal" # None
  BY DEF Returned, None
<1>2. CASE Enters BY <1>1, <1>2 DEF Enters, FinalInv, Enter, Named
<1>3. CASE Turns /\ (ShortCircuit \/ HandlerReturns \/ HandlerPanics \/ NoRoute)
  <2>1. lines' = <<>> /\ ~final'.finalized
    BY <1>3 DEF Turns, LinesInv, FinalInv
  <2>2. ~HandlerPanics BY <1>1 DEF HandlerPanics, Named
  <2>3. ~(ShortCircuit \/ NoRoute)
    BY <1>1, <1>3 DEF ShortCircuit, NoRoute, Turns, FinalInv, Named
  <2>4. carried' # None BY <1>1, <1>3, <2>2, <2>3 DEF HandlerReturns, Named
  <2> QED BY <2>1, <2>4
<1>4. ASSUME UNCHANGED <<ctx, handled>>, ~own'.silent => ~own.silent PROVE Named
  BY <1>0, <1>4, Fixed DEF Named
<1>5. CASE Passes /\ Leaving
  <2>0. Named BY <1>4, <1>5 DEF Passes
  <2>1. /\ \A i \in 1..Len(lines) : lines[i].cause # None
        /\ \/ IF final.finalized THEN final.err # None ELSE carried # None
           \/ cause # None
    BY <1>5, <2>0 DEF CauseInv, Passes
  <2>2. /\ final.finalized => ctx.finalizer
        /\ cause = None /\ ~final.finalized => Normalize(carried) # None
    BY <2>0, <2>1, NormalizeFacts DEF FinalInv, Named
  <2>3. /\ Resolved.handlerErr # None \/ cause # None
        /\ cause = None /\ ~final.finalized => Resolved.chainErr # None
    BY <2>1, <2>2 DEF Resolved
  <2>4. cause = None /\ ~final.finalized => carried' # None
    <3>1. CASE LeavePassive BY <2>1, <2>2, <3>1 DEF LeavePassive
    <3>2. CASE LeaveLogging \/ LeaveTelemetry
      BY <2>3, <3>2 DEF LeaveLogging, LeaveTelemetry
    <3>3. CASE LeaveEndSpans BY <2>2, <3>3 DEF LeaveEndSpans
    <3>4. CASE AppReturnsItsOwn \/ AppPanics
      BY <1>1, <3>4 DEF AppReturnsItsOwn, AppPanics
    <3>5. CASE UnwindPassive \/ UnwindLogging \/ UnwindTelemetry \/ UnwindEndSpans
               \/ Recover
      BY <2>1, <3>5 DEF UnwindPassive, UnwindLogging, UnwindTelemetry,
           UnwindEndSpans, Recover
    <3> QED BY <1>5, <3>1, <3>2, <3>3, <3>4, <3>5 DEF Leaving
  <2>5. \A i \in 1..Len(lines') : lines'[i].cause # None
    <3>1. CASE LeaveLogging
      <4>1. OrElse(Resolved.handlerErr, cause) # None BY <2>3 DEF OrElse
      <4> QED BY <2>1, <3>1, <4>1, CauseAppended DEF LeaveLogging
    <3>2. CASE UnwindLogging
      BY <1>1, <2>1, <3>2, CauseAppended DEF UnwindLogging
    <3>3. CASE LeaveTelemetry \/ UnwindTelemetry
      BY <2>1, <3>3 DEF LeaveTelemetry, UnwindTelemetry
    <3>4. CASE ~(LeaveLogging \/ UnwindLogging \/ LeaveTelemetry \/ UnwindTelemetry)
      <4>1. Top \notin Observers \/ Skips(Top) BY <1>5, <3>4, ObserverReports
      <4>2. lines' = lines BY <1>5, <4>1, OthersReportNothing
      <4> QED BY <2>1, <4>2
    <3> QED BY <3>1, <3>2, <3>3, <3>4
  <2> QED BY <1>5, <2>1, <2>4, <2>5 DEF Passes
<1>6. CASE LeaveFinalizer
  <2>0. Named BY <1>4, <1>6, Decision
  <2>1. Opened(Finalizer)
    BY <1>6, Decision, LeaveCloses DEF Finalizer
  <2>2. carried # None \/ cause # None
    BY <1>6, <2>0, <2>1, Decision DEF FinalInv, CauseInv
  <2>3. final'.finalized /\ (final'.err # None \/ cause' # None)
    BY <1>6, <2>2, Decision, NormalizeFacts
  <2> QED BY <1>6, <2>0, <2>3, Decision DEF CauseInv
<1>7. CASE Ends /\ (Crash \/ Dispatch \/ LogRefusal)
  <2>0. Named BY <1>4, <1>7 DEF Ends
  <2>1. \A i \in 1..Len(lines) : lines[i].cause # None BY <2>0 DEF CauseInv
  <2>2. phase' \notin {"up", "panic"} BY <1>7 DEF Ends
  <2>3. CASE Crash \/ Dispatch BY <2>1, <2>2, <2>3 DEF Crash, Dispatch, signals
  <2>4. CASE LogRefusal
    <3>1. \/ lines' = lines
          \/ WriteAccessLine(response, "refusal")
      BY <2>4 DEF LogRefusal
    <3> QED BY <1>1, <2>1, <2>2, <3>1, CauseAppended
  <2> QED BY <1>7, <2>3, <2>4
<1>8. CASE Answered
  <2>0. ~own'.silent BY DEF Named
  <2>1. Named BY <1>4, <1>8, <2>0 DEF Answered
  <2> QED BY <1>8, <2>0, <2>1 DEF Answered, CauseInv
<1> QED BY <1>2, <1>3, <1>5, <1>6, <1>7, <1>8, Shapes

\* A frame no application middleware stands above is open when the way down
\* ends.
LEMMA ReachedIsOpen ==
  ASSUME TypeOK, Turns, NEW f, f # "app", Reached(f), NEW F, f \in F
  PROVE  Opened(F)'
<1>1. chain' = chain /\ Len(chain) \in Nat /\ depth \in 0..Len(chain)
  BY DepthFacts DEF Turns, chain
<1>2. PICK k \in 1..Len(chain) : f = chain[k] /\ \A i \in 1..(k - 1) : chain[i] # "app"
  BY DEF Reached
<1>3. k \in 1..depth'
  <2>1. CASE depth' = Len(chain) BY <1>1, <2>1
  <2>2. CASE Enter /\ Next1 = "app"
    <3>1. depth' \in Nat /\ depth' >= 1 /\ chain[depth'] = "app"
      BY <1>1, <2>2 DEF Enter, Next1
    <3>2. ~(depth' \in 1..(k - 1)) BY <1>2, <3>1
    <3> QED BY <1>1, <1>2, <3>1, <3>2
  <2> QED BY <2>1, <2>2 DEF Turns
<1> QED BY <1>1, <1>2, <1>3 DEF Opened

\* An access line is written where the logging frame is left, and for a refusal.
LEMMA LinesKept ==
  ASSUME IInv, LinesInv, Next PROVE LinesInv'
<1> USE DEF IInv
<1>0. UNCHANGED setup
  BY Shapes, Decision DEF Enters, Turns, Passes, Answered, Ends
<1>1. (Refused' <=> Refused) /\ (Reached("logging")' <=> Reached("logging"))
  BY <1>0, Fixed
<1>2. CASE Enters
  <2>1. lines' = <<>> /\ phase' = "down" BY <1>2 DEF Enters, Enter, LinesInv
  <2> QED BY <2>1 DEF LinesInv
<1>3. CASE Turns
  <2>1. lines' = <<>> /\ phase' \in {"up", "panic"} BY <1>3 DEF Turns, LinesInv
  <2>2. ~Refused /\ Reached("logging") => Opened(Logger)'
    BY <1>3, ReachedIsOpen DEF Logger
  <2> QED BY <1>1, <2>1, <2>2 DEF LinesInv
<1>4. CASE Passes /\ Leaving
  <2>1. phase \in {"up", "panic"} /\ phase' \in {"up", "panic"} BY <1>4 DEF Passes
  <2>2. Opened(Logger) <=> Opened(Logger)' \/ Top = "logging"
    BY <1>4, LeaveCloses DEF Passes, Logger
  <2>3. CASE LeaveLogging \/ UnwindLogging
    <3>1. Top = "logging" /\ ~Skips(Top) BY <2>3 DEF LeaveLogging, UnwindLogging
    <3>2. ~Refused BY <3>1 DEF Skips
    <3>3. lines = <<>> BY <2>2, <3>1 DEF LinesInv
    <3>4. Len(lines') = 1 BY <2>3, <3>3 DEF LeaveLogging, UnwindLogging, WriteAccessLine
    <3>5. ~Opened(Logger)' BY <1>4, <3>1, LeaveLast, OnceEach DEF Passes, Logger
    <3> QED BY <1>1, <2>1, <3>2, <3>4, <3>5 DEF LinesInv
  <2>4. CASE ~(LeaveLogging \/ UnwindLogging)
    <3>1. lines' = lines
      <4>1. CASE LeaveTelemetry \/ UnwindTelemetry
        BY <4>1 DEF LeaveTelemetry, UnwindTelemetry
      <4>2. CASE ~(LeaveTelemetry \/ UnwindTelemetry)
        <5>1. Top \notin Observers \/ Skips(Top) BY <1>4, <2>4, <4>2, ObserverReports
        <5> QED BY <1>4, <5>1, OthersReportNothing
      <4> QED BY <4>1, <4>2
    <3>2. Top = "logging" => Skips(Top)
      BY <1>4, <2>4, ObserverReports DEF Observers, IsTelemetry, Traced, Metered
    <3>3. Top = "logging" => Refused \/ setup.excludedLog
      BY <3>2 DEF Skips, Excluded, IsTelemetry, Traced, Metered
    <3> QED BY <1>0, <1>1, <2>1, <2>2, <3>1, <3>3 DEF LinesInv
  <2> QED BY <2>3, <2>4
<1>5. CASE LeaveFinalizer
  <2>1. Opened(Logger) <=> Opened(Logger)'
    BY <1>5, Decision, LeaveCloses DEF Logger
  <2>2. lines' = lines /\ phase' = phase /\ phase = "up" BY <1>5, Decision
  <2> QED BY <1>0, <1>1, <2>1, <2>2 DEF LinesInv
<1>6. CASE Ends /\ (Crash \/ Dispatch \/ LogRefusal)
  <2>1. ~Opened(Logger) /\ ~Opened(Logger)' BY <1>6, NoneOpened DEF Ends, Opened
  <2>2. phase # "down" /\ phase # "served" /\ phase' # "down" BY <1>6 DEF Ends
  <2>3. CASE Crash \/ Dispatch
    <3>1. lines' = lines BY <2>3 DEF Crash, Dispatch, signals
    <3>2. ~(phase' = "served" /\ Refused) BY <2>3 DEF Crash, Dispatch
    <3> QED BY <1>0, <1>1, <2>1, <2>2, <3>1, <3>2 DEF LinesInv
  <2>4. CASE LogRefusal
    <3>1. Refused BY <2>4 DEF LogRefusal, SignalsInv
    <3>2. lines = <<>> /\ phase' = "served" BY <2>4, <3>1 DEF LogRefusal, LinesInv
    <3>3. Len(lines') = IF setup.kind = "nothingRead" THEN 0 ELSE 1
      BY <2>4, <3>2 DEF LogRefusal, WriteAccessLine
    <3> QED BY <1>0, <1>1, <2>1, <3>1, <3>2, <3>3 DEF LinesInv
  <2> QED BY <1>6, <2>3, <2>4
<1>7. CASE Answered
  <2>1. Opened(Logger) <=> Opened(Logger)'
    BY <1>7, LeaveCloses DEF Answered, Logger
  <2> QED BY <1>0, <1>1, <1>7, <2>1 DEF LinesInv, Answered
<1> QED BY <1>2, <1>3, <1>4, <1>5, <1>6, <1>7, Shapes

\* A telemetry frame that counts is one of the two kinds, and one alone.
LEMMA CountersFacts ==
  \A f : (f \in Counters <=> Metered(f)) /\ (f \in Counters => f \in Observers /\ IsTelemetry(f))
  BY DEF Counters, Metered, Observers, IsTelemetry

\* The histogram is recorded where a metered frame is left, and for a refusal
\* that finds the mark one left.
LEMMA DurationsKept ==
  ASSUME IInv, DurationsInv, Next PROVE DurationsInv'
<1> USE DEF IInv
<1>0. UNCHANGED setup
  BY Shapes, Decision DEF Enters, Turns, Passes, Answered, Ends
<1>1. /\ (Refused' <=> Refused) /\ (Counted' <=> Counted)
  BY <1>0, Fixed
<1>2. setup.kind = "refused" => Refused BY DEF Refused, Refusals
<1>3. CASE Enters /\ (EnterPassive \/ EnterLogging \/ EnterTelemetry \/ EnterFinalizer)
  <2>1. durations' = <<>> /\ phase' = "down" BY <1>3 DEF Enters, Enter, DurationsInv
  <2>2. Opened(Counters)' <=> Opened(Counters) \/ Metered(Next1)
    BY <1>3, EnterOpens, CountersFacts DEF Enters
  <2>3. ASSUME setup.kind = "refused", ~setup.excludedTel, Opened(Counters)' PROVE mark'
    <3>1. CASE EnterPassive BY <1>2, <2>2, <2>3, <3>1 DEF EnterPassive, DurationsInv
    <3>2. CASE EnterLogging \/ EnterFinalizer
      <4>1. ~Metered(Next1) /\ mark' = mark
        BY <3>2 DEF EnterLogging, EnterFinalizer, Metered
      <4> QED BY <2>2, <2>3, <4>1 DEF DurationsInv
    <3>3. ~EnterTelemetry BY <1>2, <2>3 DEF EnterTelemetry, Skips
    <3> QED BY <1>3, <3>1, <3>2, <3>3
  <2> QED BY <1>0, <2>1, <2>3 DEF DurationsInv
<1>4. CASE Turns /\ (ShortCircuit \/ HandlerReturns \/ HandlerPanics \/ NoRoute)
  <2>1. durations' = <<>> /\ phase = "down" /\ phase' \in {"up", "panic"} /\ mark' = mark
    BY <1>4 DEF Turns, DurationsInv
  <2>2. Counted => Opened(Counters)'
    BY <1>4, ReachedIsOpen DEF Counted, Counters
  <2>3. ASSUME setup.kind = "refused", ~setup.excludedTel,
               Opened(Counters)' \/ Counted
        PROVE  mark'
    <3>1. Opened(Counters)' => Opened(Counters)
      BY <1>0, <1>4, StayOpened, EnterOpens DEF Turns, Counters
    <3> QED BY <2>1, <2>2, <2>3, <3>1 DEF DurationsInv
  <2> QED BY <1>0, <1>1, <2>1, <2>2, <2>3 DEF DurationsInv
<1>5. CASE Passes /\ Leaving
  <2>1. /\ phase \in {"up", "panic"} /\ phase' \in {"up", "panic"} /\ mark' = mark
        /\ response' = response
    BY <1>5 DEF Passes
  <2>2. Opened(Counters) <=> Opened(Counters)' \/ Top \in Counters
    BY <1>5, LeaveCloses DEF Passes
  <2>3. CASE Metered(Top) /\ ~Skips(Top)
    <3>1. ~Refused BY <2>3 DEF Skips, IsTelemetry
    <3>2. durations = <<>> BY <2>2, <2>3, CountersFacts DEF DurationsInv
    <3>3. LeaveTelemetry \/ UnwindTelemetry
      BY <1>5, <2>3, ObserverReports, CountersFacts DEF LeaveLogging, UnwindLogging, Metered
    <3>4. Len(durations') = 1
      BY <2>3, <3>2, <3>3 DEF LeaveTelemetry, UnwindTelemetry, FinishTelemetry
    <3>5. ~Opened(Counters)'
      BY <1>5, <2>3, CountersFacts, LeaveLast, OnceEach DEF Passes
    <3> QED BY <1>0, <1>1, <1>2, <2>1, <3>1, <3>4, <3>5 DEF DurationsInv
  <2>4. CASE ~(Metered(Top) /\ ~Skips(Top))
    <3>1. durations' = durations
      <4>1. CASE LeaveTelemetry \/ UnwindTelemetry
        BY <2>4, <4>1 DEF LeaveTelemetry, UnwindTelemetry, FinishTelemetry
      <4>2. CASE LeaveLogging \/ UnwindLogging
        BY <4>2 DEF LeaveLogging, UnwindLogging
      <4>3. CASE ~(LeaveTelemetry \/ UnwindTelemetry \/ LeaveLogging \/ UnwindLogging)
        <5>1. Top \notin Observers \/ Skips(Top) BY <1>5, <4>3, ObserverReports
        <5> QED BY <1>5, <5>1, OthersReportNothing
      <4> QED BY <4>1, <4>2, <4>3
    <3>2. Top \in Counters => Refused \/ setup.excludedTel
      BY <2>4, CountersFacts DEF Skips, Excluded, Metered
    <3> QED BY <1>0, <1>1, <1>2, <2>1, <2>2, <3>1, <3>2 DEF DurationsInv
  <2> QED BY <2>3, <2>4
<1>6. CASE LeaveFinalizer
  <2>1. Opened(Counters) <=> Opened(Counters)'
    BY <1>6, Decision, LeaveCloses DEF Counters
  <2>2. durations' = durations /\ phase' = phase /\ phase = "up" /\ mark' = mark
    BY <1>6, Decision
  <2> QED BY <1>0, <1>1, <2>1, <2>2 DEF DurationsInv
<1>7. CASE Ends /\ (Crash \/ Dispatch \/ LogRefusal)
  <2>1. ~Opened(Counters) /\ ~Opened(Counters)' BY <1>7, NoneOpened DEF Ends, Opened
  <2>2. phase # "down" /\ phase # "served" /\ phase' # "down" /\ mark' = mark
    BY <1>7 DEF Ends
  <2>3. CASE Crash \/ Dispatch
    <3>1. durations' = durations BY <2>3 DEF Crash, Dispatch, signals
    <3>2. ~(phase' = "served" /\ Refused) BY <2>3 DEF Crash, Dispatch
    <3> QED BY <1>0, <1>1, <1>2, <2>1, <2>2, <3>1, <3>2 DEF DurationsInv
  <2>4. CASE LogRefusal
    <3>1. Refused BY <2>4 DEF LogRefusal, SignalsInv
    <3>2. durations = <<>> /\ phase' = "served" /\ response' = response
      BY <2>4, <3>1 DEF LogRefusal, DurationsInv
    <3>3. Len(durations') <= 1
      <4>1. durations' = <<>> \/ durations' = <<response>> BY <2>4, <3>2 DEF LogRefusal
      <4>2. CASE durations' = <<>> BY <4>2
      <4>3. CASE durations' = <<response>> BY <4>3
      <4> QED BY <4>1, <4>2, <4>3
    <3>4. setup.kind = "refused" /\ mark => durations' = <<response>>
      BY <2>4, <3>2 DEF LogRefusal
    <3>5. setup.kind = "refused" /\ ~setup.excludedTel /\ Counted => mark
      BY <2>2 DEF DurationsInv
    <3> QED BY <1>0, <1>1, <2>1, <2>2, <3>1, <3>2, <3>3, <3>4, <3>5 DEF DurationsInv
  <2> QED BY <1>7, <2>3, <2>4
<1>8. CASE Answered
  <2>1. Opened(Counters) <=> Opened(Counters)'
    BY <1>8, LeaveCloses DEF Answered, Counters
  <2> QED BY <1>0, <1>1, <1>8, <2>1 DEF DurationsInv, Answered
<1> QED BY <1>3, <1>4, <1>5, <1>6, <1>7, <1>8, Shapes

\* The library's observers, as a set.
LEMMA ObserversFacts ==
  /\ \A f : (f \in Observers <=> Observes(f)) /\ (f \in Observers => f \in Frames)
  /\ "finalizer" \notin Observers /\ "app" \notin Observers /\ "recover" \notin Observers
  BY DEF Observers, Observes, IsTelemetry, Traced, Metered, Frames

\* Where nothing is reported, nothing new was.
LEMMA ReportsNothing ==
  ASSUME UNCHANGED <<lines, durations>>, span' = span \/ span'.state # "ended"
  PROVE  Reported' \subseteq Reported
  BY DEF Reported

\* A duration that is recorded is reported.
LEMMA DurationReports ==
  ASSUME TypeOK, NEW status, durations' = durations \/ durations' = Append(durations, status)
  PROVE  {durations'[i] : i \in 1..Len(durations')}
           \subseteq {durations[i] : i \in 1..Len(durations)} \cup {status}
<1>1. durations \in Seq(AllStatuses) BY DEF TypeOK
<1>2. CASE durations' = Append(durations, status)
  <2>1. /\ Len(durations') = Len(durations) + 1 /\ Len(durations) \in Nat
        /\ \A i \in 1..Len(durations') :
             durations'[i] = IF i <= Len(durations) THEN durations[i] ELSE status
    BY <1>1, <1>2
  <2> QED BY <2>1
<1>3. CASE durations' = durations BY <1>3
<1> QED BY <1>2, <1>3

\* The access line reports its status.
LEMMA LineReports ==
  ASSUME TypeOK, NEW status, NEW why, WriteAccessLine(status, why),
         durations' = durations \/ durations' = Append(durations, status),
         UNCHANGED span
  PROVE  Reported' \subseteq Reported \cup {status}
<1> DEFINE line == [status |-> status, cause |-> why]
<1>1. lines' = Append(lines, line) /\ line.status = status BY DEF WriteAccessLine
<1>2. lines \in Seq(LineType) BY DEF TypeOK
<1> HIDE DEF line
<1>3. /\ Len(lines') = Len(lines) + 1 /\ Len(lines) \in Nat
      /\ \A i \in 1..Len(lines') :
           lines'[i] = IF i <= Len(lines) THEN lines[i] ELSE line
  BY <1>1, <1>2
<1>4. {lines'[i].status : i \in 1..Len(lines')}
        \subseteq {lines[i].status : i \in 1..Len(lines)} \cup {status}
  BY <1>1, <1>3
<1> QED BY <1>4, DurationReports DEF Reported

\* Telemetry reports its status, in the histogram and on the span alike.
LEMMA TelemetryReports ==
  ASSUME TypeOK, NEW f, NEW status, NEW err, FinishTelemetry(f, status, err),
         UNCHANGED lines
  PROVE  Reported' \subseteq Reported \cup {status}
<1>1. {durations'[i] : i \in 1..Len(durations')}
        \subseteq {durations[i] : i \in 1..Len(durations)} \cup {status}
  BY DurationReports DEF FinishTelemetry
<1>2. span' = span \/ span'.status = status BY DEF FinishTelemetry
<1> QED BY <1>1, <1>2 DEF Reported

\* What leaving a frame adds to what was reported.
LEMMA PassReports ==
  ASSUME IInv, Passes, NEW status,
         phase = "up" => Resolved.status = status, phase = "panic" => status = 500,
         Leaving
  PROVE  Reported' \subseteq Reported \cup {status}
<1> USE DEF IInv
<1>1. CASE LeaveLogging
  BY <1>1, LineReports DEF LeaveLogging, Leave
<1>2. CASE UnwindLogging
  BY <1>2, LineReports DEF UnwindLogging, Leave
<1>3. CASE LeaveTelemetry
  BY <1>3, TelemetryReports DEF LeaveTelemetry, Leave
<1>4. CASE UnwindTelemetry
  BY <1>4, TelemetryReports DEF UnwindTelemetry, Leave
<1>5. CASE ~(LeaveLogging \/ UnwindLogging \/ LeaveTelemetry \/ UnwindTelemetry)
  <2>1. Top \notin Observers \/ Skips(Top) BY <1>5, ObserverReports
  <2>2. UNCHANGED <<lines, durations, span>> BY <2>1, OthersReportNothing
  <2> QED BY <2>2, ReportsNothing
<1> QED BY <1>1, <1>2, <1>3, <1>4, <1>5

\* In the documented order the observers stand above the finalizer, and nothing
\* that returns or recovers an error of its own stands between them.
LEMMA DocumentedZone ==
  ASSUME TypeOK, DocumentedOrder, NEW d \in 1..Len(chain)
  PROVE  /\ \A i \in 1..Len(chain) : chain[i] = "finalizer" /\ i <= d
              => chain[d] \notin Observers
         /\ \A i \in 1..d : chain[i] \in Observers /\ chain[d] \in {"app", "recover"}
              => \E k \in 1..d : chain[k] = "finalizer"
         /\ \E k \in 1..Len(chain) : chain[k] = "finalizer"
<1>1. PICK k \in 1..Len(chain) :
        /\ chain[k] = "finalizer"
        /\ \A i \in 1..Len(chain) : Observes(chain[i]) =>
             i < k /\ \A j \in i..k : chain[j] \notin {"app", "recover"}
  BY DEF DocumentedOrder
<1>2. \A i \in 1..Len(chain) : chain[i] = "finalizer" => i = k BY <1>1, FrameOnce
<1>3. Len(chain) \in Nat BY DepthFacts
<1>4. \A i \in 1..Len(chain) : chain[i] = "finalizer" /\ i <= d
        => chain[d] \notin Observers
  BY <1>1, <1>2, <1>3, ObserversFacts
<1>5. ASSUME NEW i \in 1..d, chain[i] \in Observers, chain[d] \in {"app", "recover"}
      PROVE  k \in 1..d
  <2>1. ~(d \in i..k) BY <1>1, <1>3, <1>5, ObserversFacts
  <2> QED BY <1>3, <1>5, <2>1
<1> QED BY <1>1, <1>4, <1>5

\* A refused request is reported once it is logged, with the status rendered.
LEMMA RefusedKept ==
  ASSUME IInv, AgreeInv, Refused, Next
  PROVE  Reported' \subseteq {response'} /\ (phase' # "served" => Reported' = {})
<1> USE DEF IInv
<1>1. CASE Enters \/ Turns
  <2>1. Reported' \subseteq Reported BY <1>1, ReportsNothing DEF Enters, Turns
  <2>2. Reported = {} BY <1>1 DEF AgreeInv, Enters, Enter, Turns
  <2> QED BY <2>1, <2>2
<1>2. CASE Passes /\ Leaving
  <2>1. Top \in Observers => Skips(Top) BY ObserversFacts DEF Observes, Skips
  <2>2. Reported' \subseteq Reported BY <1>2, <2>1, OthersReportNothing, ReportsNothing
  <2>3. Reported = {} BY <1>2 DEF AgreeInv, Passes
  <2> QED BY <2>2, <2>3
<1>3. CASE LeaveFinalizer
  <2>1. Reported' \subseteq Reported BY <1>3, Decision, ReportsNothing
  <2>2. Reported = {} BY <1>3, Decision DEF AgreeInv
  <2> QED BY <2>1, <2>2
<1>4. CASE Ends /\ (Crash \/ Dispatch \/ LogRefusal)
  <2>1. Reported = {} BY <1>4 DEF AgreeInv, Ends
  <2>2. CASE Crash \/ Dispatch
    <3>1. Reported' \subseteq Reported
      BY <2>2, ReportsNothing DEF Crash, Dispatch, signals
    <3> QED BY <2>1, <3>1
  <2>3. CASE LogRefusal
    <3>1. \/ UNCHANGED <<lines, durations>>
          \/ /\ WriteAccessLine(response, "refusal")
             /\ durations' = durations \/ durations' = Append(durations, response)
      BY <2>3 DEF LogRefusal
    <3>2. Reported' \subseteq Reported \cup {response}
      BY <2>3, <3>1, ReportsNothing, LineReports DEF LogRefusal
    <3> QED BY <2>1, <2>3, <3>2 DEF LogRefusal
  <2> QED BY <1>4, <2>2, <2>3
<1>5. CASE Answered
  <2>1. Reported' \subseteq Reported BY <1>5, ReportsNothing DEF Answered
  <2>2. Reported = {} BY <1>5 DEF AgreeInv, Answered
  <2> QED BY <2>1, <2>2
<1> QED BY <1>1, <1>2, <1>3, <1>4, <1>5, Shapes

\* Where an observer is open and the finalizer is not, the frame on top is one of
\* the library's; over an open finalizer there is no observer.
LEMMA ZoneTop ==
  ASSUME TypeOK, DocumentedOrder, NEW p, Leave(p)
  PROVE  /\ Opened(Finalizer) => Top \notin Observers
         /\ Opened(Observers) /\ ~Opened(Finalizer) => Top \notin {"app", "recover"}
<1>1. depth \in 1..Len(chain) /\ depth \in Nat /\ Len(chain) \in Nat
  BY DepthFacts DEF Leave
<1>2. \A i \in 1..depth : i \in 1..Len(chain) /\ i <= depth BY <1>1
<1>3. Opened(Finalizer) => Top \notin Observers
  BY <1>1, <1>2, DocumentedZone DEF Opened, Finalizer, Top
<1>4. Opened(Observers) /\ Top \in {"app", "recover"} => Opened(Finalizer)
  BY <1>1, <1>2, DocumentedZone DEF Opened, Finalizer, Top
<1> QED BY <1>3, <1>4

\* In the documented order nothing between the finalizer and the outermost
\* observer changes what is reported.
LEMMA ZoneKept ==
  ASSUME IInv, FinalInv, ZoneInv, DocumentedOrder, ~Refused, Next PROVE ZoneInv'
<1> USE DEF IInv
<1>0. UNCHANGED setup
  BY Shapes, Decision DEF Enters, Turns, Passes, Answered, Ends
<1>1. CASE Enters
  <2>1. Reported' \subseteq Reported /\ phase' = "down" BY <1>1, ReportsNothing DEF Enters
  <2>2. Reported = {} BY <1>1 DEF ZoneInv, Enters, Enter
  <2> QED BY <2>1, <2>2 DEF ZoneInv
<1>2. CASE Turns
  <2>1. Reported' \subseteq Reported BY <1>2, ReportsNothing DEF Turns
  <2>2. Reported = {} BY <1>2 DEF ZoneInv, Turns
  <2>3. chain' = chain BY <1>0 DEF chain
  <2>4. Opened(Observers)' => Opened(Finalizer)'
    <3>1. CASE depth = Len(chain) /\ depth' = depth
      <4>1. Opened(Finalizer)
        <5>1. PICK k \in 1..Len(chain) : chain[k] = "finalizer" BY DEF DocumentedOrder
        <5> QED BY <3>1, <5>1 DEF Opened, Finalizer
      <4> QED BY <1>0, <3>1, <4>1, StayOpened
    <3>2. CASE Enter /\ Next1 = "app"
      <4>1. depth' \in 1..Len(chain) /\ chain[depth'] = "app"
        BY <3>2, DepthFacts DEF Enter, Next1
      <4> QED BY <2>3, <4>1, DocumentedZone DEF Opened, Finalizer
    <3> QED BY <1>2, <3>1, <3>2 DEF Turns
  <2> QED BY <1>2, <2>1, <2>2, <2>4 DEF ZoneInv, Turns
<1>3. CASE Passes /\ Leaving
  <2>0. /\ phase \in {"up", "panic"} /\ phase' \in {"up", "panic"} /\ Leave(phase)
        /\ UNCHANGED <<response, final, ctx>>
    BY <1>3 DEF Passes
  <2>1. \A F : Opened(F) <=> Opened(F)' \/ Top \in F
    BY <1>0, <2>0, LeaveCloses
  <2>2. CASE Opened(Finalizer)
    <3>1. Top \notin Observers BY <2>0, <2>2, ZoneTop
    <3>2. Reported' \subseteq Reported BY <1>3, <3>1, OthersReportNothing, ReportsNothing
    <3>3. Reported' = {} BY <2>2, <3>2 DEF ZoneInv
    <3>4. phase' = "up" => Opened(Finalizer)' \/ ~Opened(Observers)'
      <4>1. CASE Top # "finalizer" BY <2>1, <2>2, <4>1 DEF Finalizer
      <4>2. CASE Top = "finalizer"
        <5>1. ~(LeavePassive \/ LeaveLogging \/ LeaveTelemetry \/ LeaveEndSpans
                \/ AppReturnsItsOwn \/ AppPanics \/ Recover)
          BY <4>2 DEF LeavePassive, LeaveLogging, LeaveTelemetry, LeaveEndSpans,
               AppReturnsItsOwn, AppPanics, Recover, Skips, Excluded, IsTelemetry,
               Traced, Metered
        <5>2. phase' = "panic"
          BY <1>3, <5>1 DEF Leaving, UnwindPassive, UnwindLogging, UnwindTelemetry,
               UnwindEndSpans, Leave
        <5> QED BY <5>2
      <4> QED BY <4>1, <4>2
    <3> QED BY <2>0, <3>3, <3>4 DEF ZoneInv
  <2>3. CASE ~Opened(Finalizer) /\ Opened(Observers) /\ phase = "up"
    <3>1. final.finalized /\ carried = None /\ Reported \subseteq {response}
          /\ response = final.status
      BY <2>3 DEF ZoneInv
    <3>2. Resolved.status = response
      BY <3>1, NormalizeFacts DEF Resolved, HttpStatusCode
    <3>3. Reported' \subseteq {response}
      <4>1. phase # "panic" BY <2>3
      <4>2. Reported' \subseteq Reported \cup {response}
        BY ONLY IInv, <1>3, <3>2, <4>1, PassReports
      <4> QED BY ONLY <3>1, <4>2
    <3>4. Top \notin {"app", "recover"} BY <2>0, <2>3, ZoneTop
    <3>5. phase' = "up" /\ carried' = None BY <1>3, <2>3, <3>1, <3>4, CarriedOn, NoErrorStays
    <3>6. ~Opened(Finalizer)' BY <2>1, <2>3
    <3> QED BY <2>0, <3>1, <3>3, <3>5, <3>6 DEF ZoneInv
  <2>4. CASE ~Opened(Finalizer) /\ Opened(Observers) /\ phase = "panic"
    <3>1. Reported \subseteq {500} BY <2>4 DEF ZoneInv
    <3>2. Reported' \subseteq {500}
      <4>1. phase # "up" BY <2>4
      <4>2. Reported' \subseteq Reported \cup {500} BY ONLY IInv, <1>3, <4>1, PassReports
      <4> QED BY ONLY <3>1, <4>2
    <3>3. Top \notin {"app", "recover"} BY <2>0, <2>4, ZoneTop
    <3>4. ~Opened(Finalizer)' BY <2>1, <2>4
    <3>5. phase' = "panic"
      BY <1>3, <2>4, <3>3 DEF Leaving, LeavePassive, LeaveLogging, LeaveTelemetry, LeaveEndSpans,
           AppReturnsItsOwn, AppPanics, UnwindPassive, UnwindLogging,
           UnwindTelemetry, UnwindEndSpans, Recover, Leave
    <3> QED BY <3>2, <3>4, <3>5 DEF ZoneInv
  <2>5. CASE ~Opened(Finalizer) /\ ~Opened(Observers)
    <3>1. Top \notin Observers BY <2>1, <2>5
    <3>2. Reported' \subseteq Reported BY <1>3, <3>1, OthersReportNothing, ReportsNothing
    <3>3. ~Opened(Finalizer)' /\ ~Opened(Observers)' BY <2>1, <2>5
    <3> QED BY <2>0, <3>2, <3>3 DEF ZoneInv
  <2> QED BY <2>0, <2>2, <2>3, <2>4, <2>5
<1>4. CASE LeaveFinalizer
  <2>1. Opened(Finalizer) BY <1>4, Decision, LeaveCloses DEF Finalizer
  <2>2. Reported' \subseteq Reported /\ Reported = {}
    BY <1>4, <2>1, Decision, ReportsNothing DEF ZoneInv
  <2> QED BY <1>4, <2>2, Decision DEF ZoneInv
<1>5. CASE Ends /\ (Crash \/ Dispatch \/ LogRefusal)
  <2>1. ~Opened(Finalizer)' /\ ~Opened(Observers)' BY <1>5, NoneOpened DEF Ends, Opened
  <2>2. ~LogRefusal BY DEF LogRefusal, SignalsInv
  <2>3. Reported' \subseteq Reported
    BY <1>5, <2>2, ReportsNothing DEF Crash, Dispatch, signals
  <2>4. phase' # "down" /\ phase' # "up" /\ phase' # "panic" BY <1>5 DEF Ends
  <2> QED BY <2>1, <2>3, <2>4 DEF ZoneInv
<1>6. CASE Answered
  <2>1. \A F : Opened(F) <=> Opened(F)' \/ "app" \in F
    BY <1>6, LeaveCloses DEF Answered
  <2>2. Opened(Observers) => Opened(Finalizer) BY <1>6, ZoneTop DEF Answered
  <2>3. Reported' \subseteq Reported BY <1>6, ReportsNothing DEF Answered
  <2> QED BY <1>6, <2>1, <2>2, <2>3, ObserversFacts DEF ZoneInv, Answered, Finalizer
<1> QED BY <1>1, <1>2, <1>3, <1>4, <1>5, <1>6, Shapes

\* With no application middleware above an observer there is none above the
\* finalizer either.
LEMMA NoAppAbove ==
  ASSUME TypeOK, DocumentedOrder, NoAppAboveObservers, Watched,
         NEW p, Leave(p), ~Opened(Finalizer)
  PROVE  Top # "app"
<1>1. depth \in 1..Len(chain) /\ depth \in Nat /\ Len(chain) \in Nat
  BY DepthFacts DEF Leave
<1>2. PICK i \in 1..Len(chain) : chain[i] \in Observers BY DEF Watched
<1>3. chain[i] \in Frames /\ Has(chain[i]) BY <1>2, ObserversFacts DEF Has
<1>4. PICK j \in 1..Len(chain) :
        chain[i] = chain[j] /\ \A m \in 1..(j - 1) : chain[m] # "app"
  BY <1>2, <1>3, ObserversFacts DEF NoAppAboveObservers, Reached
<1>5. \A m \in 1..(i - 1) : chain[m] # "app" BY <1>2, <1>4, FrameOnce, ObserversFacts
<1>6. SUFFICES ASSUME Top = "app" PROVE FALSE OBVIOUS
<1>7. i \in 1..depth
  <2>1. ~(depth \in 1..(i - 1)) BY <1>5, <1>6 DEF Top
  <2> QED BY <1>1, <2>1
<1>8. Opened(Observers) BY <1>2, <1>7 DEF Opened
<1> QED BY <1>6, <1>8, ZoneTop

\* There, what was reported is what the client is sent.
LEMMA ClientKept ==
  ASSUME IInv, FinalInv, ZoneInv, ClientInv, DocumentedOrder, ~Refused, Next
  PROVE  ClientInv'
<1> USE DEF IInv
<1>0. UNCHANGED setup
  BY Shapes, Decision DEF Enters, Turns, Passes, Answered, Ends
<1>1. /\ (Watched' <=> Watched) /\ (NoAppAboveObservers' <=> NoAppAboveObservers)
      /\ (Refused' <=> Refused)
  BY <1>0, Fixed
<1>2. CASE Enters \/ Turns
  <2>1. Reported' \subseteq Reported BY <1>2, ReportsNothing DEF Enters, Turns
  <2>2. ~final'.finalized BY <1>2 DEF FinalInv, Enters, Turns, Enter
  <2> QED BY <1>1, <2>1, <2>2 DEF ClientInv
<1>3. CASE Passes /\ Leaving
  <2>0. /\ phase \in {"up", "panic"} /\ Leave(phase) /\ UNCHANGED <<response, final>>
    BY <1>3 DEF Passes
  <2>1. CASE ~Watched
    <3>1. Top \notin Observers BY <2>0, <2>1, DepthFacts DEF Watched, Leave, Top
    <3>2. Reported' \subseteq Reported BY <1>3, <3>1, OthersReportNothing, ReportsNothing
    <3> QED BY <1>1, <2>1, <3>2 DEF ClientInv
  <2>2. CASE Watched /\ NoAppAboveObservers /\ final.finalized
    <3>1. /\ phase = "up" /\ Reported \subseteq {response} /\ carried = None
          /\ response = final.status
      BY <2>0, <2>2 DEF ClientInv
    <3>2. ~Opened(Finalizer) BY <2>2 DEF FinalInv
    <3>3. Top # "app" BY <2>0, <2>2, <3>2, NoAppAbove
    <3>4. phase' = "up" /\ carried' = None BY <1>3, <3>1, <3>3, CarriedOn, NoErrorStays
    <3>5. Resolved.status = response
      BY <2>2, <3>1, NormalizeFacts DEF Resolved, HttpStatusCode
    <3>6. Reported' \subseteq {response}
      <4>1. phase # "panic" BY <3>1
      <4>2. Reported' \subseteq Reported \cup {response}
        BY ONLY IInv, <1>3, <3>5, <4>1, PassReports
      <4> QED BY ONLY <3>1, <4>2
    <3> QED BY <2>0, <2>2, <1>1, <3>4, <3>6 DEF ClientInv
  <2>3. CASE Watched /\ ~(NoAppAboveObservers /\ final.finalized)
    BY <1>1, <2>0, <2>3 DEF ClientInv
  <2> QED BY <2>1, <2>2, <2>3
<1>4. CASE LeaveFinalizer
  <2>1. Opened(Finalizer) BY <1>4, Decision, LeaveCloses DEF Finalizer
  <2>2. Reported' \subseteq Reported /\ Reported = {}
    BY <1>4, <2>1, Decision, ReportsNothing DEF ZoneInv
  <2> QED BY <1>4, <2>2, Decision DEF ClientInv
<1>5. CASE Ends /\ (Crash \/ Dispatch \/ LogRefusal)
  <2>1. ~LogRefusal BY DEF LogRefusal, SignalsInv
  <2>2. Reported' \subseteq Reported /\ final' = final
    BY <1>5, <2>1, ReportsNothing DEF Ends, Crash, Dispatch, signals
  <2>3. CASE Watched /\ NoAppAboveObservers /\ final.finalized
    <3>1. ~Crash BY <2>3 DEF Crash, ClientInv
    <3>2. carried = None /\ Reported \subseteq {response}
      BY <1>5, <2>1, <2>3, <3>1 DEF Dispatch, ClientInv
    <3>3. response' = response /\ phase' = "served"
      BY <1>5, <2>1, <3>1, <3>2, ServedAsIs
    <3> QED BY <1>1, <2>2, <2>3, <3>2, <3>3 DEF ClientInv
  <2>4. CASE ~(Watched /\ NoAppAboveObservers /\ final.finalized)
    BY <1>1, <2>2, <2>4 DEF ClientInv
  <2> QED BY <2>3, <2>4
<1>6. CASE Answered
  <2>1. Reported' \subseteq Reported BY <1>6, ReportsNothing DEF Answered
  <2>2. ~(Watched /\ NoAppAboveObservers /\ final.finalized)
    BY <1>6, NoAppAbove DEF Answered, FinalInv
  <2> QED BY <1>1, <1>6, <2>1, <2>2 DEF ClientInv, Answered
<1> QED BY <1>2, <1>3, <1>4, <1>5, <1>6, Shapes

\* A refused request and a documented chain, together.
LEMMA AgreeKept ==
  ASSUME IInv, FinalInv, AgreeInv, Next PROVE AgreeInv'
<1>0. UNCHANGED setup
  BY Shapes, Decision DEF Enters, Turns, Passes, Answered, Ends
<1>1. (Refused' <=> Refused) /\ (DocumentedOrder' <=> DocumentedOrder)
  BY <1>0, Fixed
<1>2. CASE Refused BY <1>1, <1>2, RefusedKept DEF AgreeInv
<1>3. CASE ~Refused
  BY <1>1, <1>3, ZoneKept, ClientKept DEF AgreeInv
<1> QED BY <1>2, <1>3

\* Before the first frame nothing is reported, decided or logged.
LEMMA InitReport == Init => ReportInv
<1> SUFFICES ASSUME Init PROVE ReportInv OBVIOUS
<1>1. depth = 0 /\ \A F : ~Opened(F) BY DEF Init, Opened
<1>2. /\ lines = <<>> /\ durations = <<>> /\ span.state = "none" /\ renders = 0
      /\ ~final.finalized /\ carried = None /\ handled = None
      /\ phase = "down" \/ (phase = "up" /\ setup.kind = "unknownMethod")
  BY DEF Init, NoSpan
<1>3. phase = "up" => Refused BY <1>2 DEF Refused, Refusals
<1>4. Reported = {} BY <1>2 DEF Reported
<1>5. None \notin Returned BY DEF None, Returned
<1>6. FinalInv /\ RogueInv BY <1>1, <1>2 DEF FinalInv, RogueInv
<1>7. GuardedInv /\ CauseInv BY <1>2, <1>3, <1>5 DEF GuardedInv, GuardedChain, CauseInv, Named
<1>8. LinesInv /\ DurationsInv BY <1>1, <1>2, <1>3 DEF LinesInv, DurationsInv
<1>9. AgreeInv BY <1>1, <1>2, <1>4 DEF AgreeInv, ZoneInv, ClientInv
<1> QED BY <1>6, <1>7, <1>8, <1>9 DEF ReportInv

\* A step that changes nothing keeps it.
LEMMA StutterReport ==
  ASSUME ReportInv, UNCHANGED vars PROVE ReportInv'
<1>1. UNCHANGED <<setup, phase, depth, carried, response, ctx, final, cause, span,
                  lines, durations, mark, renders, handled, own>>
  BY DEF vars, signals
<1>2. Reported' = Reported /\ \A F : Opened(F)' <=> Opened(F)
  BY <1>1, StayOpened DEF Reported
<1>3. /\ chain' = chain /\ (Refused' <=> Refused) /\ (Watched' <=> Watched)
      /\ (DocumentedOrder' <=> DocumentedOrder) /\ (Counted' <=> Counted)
      /\ (NoAppAboveObservers' <=> NoAppAboveObservers)
      /\ (ObserverOutside' <=> ObserverOutside) /\ (GuardedChain' <=> GuardedChain)
      /\ \A f : (Has(f)' <=> Has(f)) /\ (Reached(f)' <=> Reached(f))
  BY <1>1, Fixed
<1>4. FinalInv' /\ RogueInv'
  BY <1>1, <1>2, <1>3 DEF ReportInv, FinalInv, RogueInv
<1>5. GuardedInv' /\ CauseInv'
  BY <1>1, <1>2, <1>3 DEF ReportInv, GuardedInv, CauseInv, Named
<1>6. LinesInv' /\ DurationsInv'
  BY <1>1, <1>2, <1>3 DEF ReportInv, LinesInv, DurationsInv
<1>7. AgreeInv'
  BY <1>1, <1>2, <1>3 DEF ReportInv, AgreeInv, ZoneInv, ClientInv
<1> QED BY <1>4, <1>5, <1>6, <1>7 DEF ReportInv

\* The inductive invariant of what is reported: on top of the signals', where the
\* decision, the error and the reports stand by the frames that are open.
THEOREM ReportInvariant == Spec => []ReportInv
<1>1. IInv /\ ReportInv /\ [Next]_vars => ReportInv'
  <2> SUFFICES ASSUME IInv, ReportInv, [Next]_vars PROVE ReportInv' OBVIOUS
  <2>1. CASE Next
    BY <2>1, FinalKept, RogueKept, GuardedKept, CauseKept, LinesKept,
       DurationsKept, AgreeKept DEF ReportInv
  <2>2. CASE UNCHANGED vars BY <2>2, StutterReport
  <2> QED BY <2>1, <2>2
<1> QED BY <1>1, InitReport, InductiveInvariant, PTL DEF Spec

\* In the documented order the access line, the histogram and the server span
\* report one status, whatever the handler, the ErrorHandler and the rest of the
\* chain do.
THEOREM OneStatusReported == Spec => []SignalsAgree
<1>1. ReportInv => SignalsAgree
  <2> SUFFICES ASSUME ReportInv, DocumentedOrder PROVE \A s, t \in Reported : s = t
    BY DEF SignalsAgree
  <2> QED BY DEF ReportInv, AgreeInv, ZoneInv
<1> QED BY <1>1, ReportInvariant, PTL

\* There, with no application middleware above, it is the status the client gets.
THEOREM ClientSeesReport == Spec => []ClientSeesWhatWasReported
<1>1. ReportInv => ClientSeesWhatWasReported
  BY DEF ReportInv, AgreeInv, ClientInv, ClientSeesWhatWasReported
<1> QED BY <1>1, ReportInvariant, PTL

\* An error returned above the finalizer is dropped by the observer outside it:
\* only a middleware that answers itself changes a decided response.
THEOREM RogueDiscarded == Spec => []RogueErrorIsDiscarded
<1>1. ReportInv => RogueErrorIsDiscarded
  BY DEF ReportInv, RogueInv, RogueErrorIsDiscarded
<1> QED BY <1>1, ReportInvariant, PTL

\* Whatever the finalizer makes of an error nobody can print, its status is the
\* one the handler's error maps to.
THEOREM StatusSurvives == Spec => []MappedStatusSurvives
<1>1. IInv /\ ReportInv => MappedStatusSurvives
  <2> SUFFICES ASSUME IInv, ReportInv, phase = "served", setup.errorHandler = "default",
                      Has("finalizer"), ~Has("app"), handled \in Returned
               PROVE  response = Code(handled)
    BY DEF MappedStatusSurvives
  <2>1. ~Refused BY DEF ReportInv, FinalInv, Returned, None
  <2> QED BY <2>1 DEF ReportInv, GuardedInv, GuardedChain
<1> QED BY <1>1, InductiveInvariant, ReportInvariant, PTL

\* With the finalizer only a panic takes the process down.
THEOREM NoErrorCrashes == Spec => []ReturnedErrorNeverCrashes
<1>1. ReportInv => ReturnedErrorNeverCrashes
  BY DEF ReportInv, GuardedInv, GuardedChain, ReturnedErrorNeverCrashes
<1> QED BY <1>1, ReportInvariant, PTL

\* A failed request's access line names a cause, unless an application middleware
\* answered before anything was decided and recorded none.
THEOREM CauseAlwaysLogged == Spec => []CauseIsLogged
<1>1. ReportInv => CauseIsLogged BY DEF ReportInv, CauseInv, CauseIsLogged, Named
<1> QED BY <1>1, ReportInvariant, PTL

\* Every request is logged once and counted once.
THEOREM LoggedOnce == Spec => []LoggedAndCountedOnce
<1>1. IInv /\ ReportInv => LoggedAndCountedOnce
  <2> SUFFICES ASSUME IInv, ReportInv PROVE LoggedAndCountedOnce OBVIOUS
  <2>1. Finished => phase # "down" /\ \A F : ~Opened(F)
    BY DEF Finished, IInv, SignalsInv, Opened
  <2>2. OneAccessLine BY <2>1 DEF ReportInv, LinesInv, OneAccessLine
  <2>3. setup.kind = "refused" => Refused BY DEF Refused, Refusals
  <2>4. OneDuration BY <2>1, <2>3 DEF ReportInv, DurationsInv, OneDuration, Counted
  <2> QED BY <2>2, <2>4 DEF LoggedAndCountedOnce
<1> QED BY <1>1, InductiveInvariant, ReportInvariant, PTL
=============================================================================
