---------------------------- MODULE GrpcPipeline ----------------------------
(***************************************************************************)
(* One unary call through a chain of gRPC server interceptors: the two of  *)
(* package grpcmiddleware and the logging one of package middleware,       *)
(* installed in any order and number, between interceptors of the          *)
(* application, around the application's handler.                          *)
(*                                                                         *)
(* Interceptors nest: each calls the next one and goes on when it returns. *)
(* Contexts are derived on the way in and never changed, so what frame i   *)
(* finds in its context is what the frames outside it put there.           *)
(***************************************************************************)
EXTENDS Naturals, Sequences

CONSTANTS
    Chains,    \* interceptor chains, outermost first
    Requests,  \* what a call has in the places a request id is looked for
    Statuses,  \* codes of the gRPC statuses an application returns
    None       \* nothing recorded, no id

\* "telemetry", "traces", "metrics" and "off" are WithTelemetryInterceptor with
\* both providers, with one of them and without a Telemetry; "end" is
\* EndTracingSpansInterceptor, "logging" WithGrpcLogging.  "tracer" is an
\* application interceptor with a span of its own, "recover" one that turns a
\* panic into a status.
Traced == {"telemetry", "traces"}
Metered == {"telemetry", "metrics"}
Recording == Metered \cup {"logging"}
Kinds == Traced \cup Recording \cup {"off", "end", "tracer", "recover"}

\* A bare context error and an error whose Error() panics are not statuses.
Errors == Statuses \cup {"nil", "plain", "context", "unprintable"}
Codes == Statuses \cup {"OK", "Unknown", "ContextError"}

\* Where an id comes from, and the frame that made up a new one.  Logging cuts
\* a "long" id short and finds nothing it would keep in a "foreign" one.
Sources == {"body", "context", "metadata"}
Forms == {"clean", "long", "foreign"}
RequestIDs == [from : Sources, frame : {0}, form : Forms]
              \cup [from : {"new"}, frame : Nat \ {0}, form : {"clean"}]

\* An id in the body counts only if it is a UUID.
ASSUME ChainsAssumption == \A c \in Chains : c \in Seq(Kinds)
ASSUME RequestsAssumption ==
    /\ Requests \subseteq [Sources -> Forms \cup {"absent"}]
    /\ \A r \in Requests : r["body"] \in {"clean", "absent"}
ASSUME StatusesAssumption ==
    /\ {"Unknown", "Internal"} \subseteq Statuses
    /\ Statuses \cap {"nil", "plain", "context", "unprintable", "OK", "ContextError"} = {}
    /\ None \notin Codes \cup RequestIDs

VARIABLES
    chain,    \* the chain of this call
    request,  \* what each place holds
    phase,    \* "down", "up", "panic", "sent" or "crashed"
    depth,    \* how many frames were entered and not yet left
    header,   \* the request id in the context on the way down
    err,      \* the error on its way up
    frames,   \* what each frame made of the call
    answer,   \* the code the client is sent
    panicked  \* whether somebody panicked

vars == <<chain, request, phase, depth, header, err, frames, answer, panicked>>

\* span, code and failed: the frame's span, its rpc.grpc.status_code and
\* whether it has an error status; recorded: the code of its duration, or of
\* the error in its log entry; id: the request id it chose; unwound: left by a
\* panic.
Frame == [span : {"none", "open", "ended"}, code : Codes \cup {None}, failed : BOOLEAN,
          recorded : Codes \cup {None}, id : RequestIDs \cup {None}, unwound : BOOLEAN]

Brought(source) == [from |-> source, frame |-> 0, form |-> request[source]]
MadeUp(i) == [from |-> "new", frame |-> i, form |-> "clean"]
Has(source) == request[source] # "absent"

NewFrame == [span |-> "none", code |-> None, failed |-> FALSE,
             recorded |-> None, id |-> None, unwound |-> FALSE]

TypeOK ==
    /\ chain \in Chains
    /\ request \in Requests
    /\ phase \in {"down", "up", "panic", "sent", "crashed"}
    /\ depth \in 0 .. Len(chain)
    /\ header \in RequestIDs \cup {None}
    /\ err \in Errors
    /\ frames \in [DOMAIN chain -> Frame]
    /\ answer \in Codes \cup {None}
    /\ panicked \in BOOLEAN

Init ==
    /\ chain \in Chains
    /\ request \in Requests
    /\ phase = "down"
    /\ depth = 0
    /\ header = IF Has("context") THEN Brought("context") ELSE None
    /\ err = "nil"
    /\ frames = [i \in DOMAIN chain |-> NewFrame]
    /\ answer = None
    /\ panicked = FALSE

-----------------------------------------------------------------------------
(***************************************************************************)
(* Errors and request ids.                                                 *)
(***************************************************************************)
\* Mutant: the error is handed on as it came.
NormalizeNothing(e) == e

NormalizeGRPCError(e) == IF e = "unprintable" THEN "Unknown" ELSE e

\* status.Code of a printable error.
Code(e) == IF e \in Statuses THEN e ELSE IF e = "nil" THEN "OK" ELSE "Unknown"

\* The server's own conversion knows context errors.
Wire(e) == IF e = "context" THEN "ContextError" ELSE Code(e)

\* Mutant: the metadata or a new id, whatever the context holds.
RequestIDOfItsOwn(i) ==
    IF Has("body") THEN Brought("body")
    ELSE IF Has("metadata") THEN Brought("metadata")
    ELSE MadeUp(i)

\* Body, context, metadata, in this order, or an id made up by frame i.
ResolveGRPCRequestID(i) ==
    IF Has("body") THEN Brought("body")
    ELSE IF header # None THEN header
    ELSE IF Has("metadata") THEN Brought("metadata")
    ELSE MadeUp(i)

\* Package middleware looks in the same places and makes the id printable
\* ASCII of at most 128 bytes, which grpcmiddleware does not.
Kept(id) == id # None /\ id.form # "foreign"
Cleaned(id) == [id EXCEPT !.form = "clean"]

ResolveAndNormalize(i) ==
    IF Has("body") THEN Brought("body")
    ELSE IF Kept(header) THEN Cleaned(header)
    ELSE IF Has("metadata") /\ Kept(Brought("metadata")) THEN Cleaned(Brought("metadata"))
    ELSE MadeUp(i)

-----------------------------------------------------------------------------
(***************************************************************************)
(* On the way in.                                                          *)
(***************************************************************************)
Entering(kinds) ==
    /\ phase = "down"
    /\ depth < Len(chain)
    /\ chain[depth + 1] \in kinds
    /\ depth' = depth + 1
    /\ UNCHANGED <<chain, request, phase, err, answer, panicked>>

EnterPassive ==
    /\ Entering({"off", "end", "recover"})
    /\ UNCHANGED <<header, frames>>

EnterMetrics ==
    /\ Entering({"metrics"})
    /\ header' = ResolveGRPCRequestID(depth + 1)
    /\ frames' = [frames EXCEPT ![depth + 1].id = header']

EnterLogging ==
    /\ Entering({"logging"})
    /\ header' = ResolveAndNormalize(depth + 1)
    /\ frames' = [frames EXCEPT ![depth + 1].id = header']

\* collects: whether the metrics collector could be started.
EnterTelemetry(collects) ==
    /\ Entering(Traced)
    /\ header' = ResolveGRPCRequestID(depth + 1)
    /\ frames' = [frames EXCEPT ![depth + 1] =
                    [@ EXCEPT !.id = header', !.span = "open", !.failed = ~collects]]

EnterTracer ==
    /\ Entering({"tracer"})
    /\ frames' = [frames EXCEPT ![depth + 1].span = "open"]
    /\ UNCHANGED header

AtHandler == phase = "down" /\ depth = Len(chain)

HandlerReturns(e) ==
    /\ AtHandler
    /\ phase' = "up"
    /\ err' = e
    /\ UNCHANGED <<chain, request, depth, header, frames, answer, panicked>>

HandlerPanics ==
    /\ AtHandler
    /\ phase' = "panic"
    /\ panicked' = TRUE
    /\ UNCHANGED <<chain, request, depth, header, err, frames, answer>>

-----------------------------------------------------------------------------
(***************************************************************************)
(* On the way out.                                                         *)
(***************************************************************************)
Leaving(kinds) ==
    /\ phase = "up"
    /\ depth > 0
    /\ chain[depth] \in kinds
    /\ depth' = depth - 1
    /\ UNCHANGED <<chain, request, header, answer>>

LeavePassive ==
    /\ Leaving({"off", "recover"})
    /\ UNCHANGED <<phase, err, frames, panicked>>

LeaveMetrics ==
    /\ Leaving({"metrics"})
    /\ err' = NormalizeGRPCError(err)
    /\ frames' = [frames EXCEPT ![depth].recorded = Code(err')]
    /\ UNCHANGED <<phase, panicked>>

\* The entry is logged once the handler has returned, with the error it gave.
LeaveLogging ==
    /\ Leaving({"logging"})
    /\ err' = NormalizeGRPCError(err)
    /\ frames' = [frames EXCEPT ![depth].recorded = Code(err')]
    /\ UNCHANGED <<phase, panicked>>

\* Mutant: the code is set only in the branch of an error.
FinalizedOnError(f, e) ==
    IF f.span = "open" /\ e # "nil" THEN [f EXCEPT !.code = Code(e), !.failed = TRUE] ELSE f

\* What is set on a span that has ended is lost.
Finalized(f, e) ==
    IF f.span = "open"
    THEN [f EXCEPT !.code = Code(e), !.failed = @ \/ e # "nil"]
    ELSE f

Ended(f) == [f EXCEPT !.span = IF @ = "open" THEN "ended" ELSE @]

LeaveTelemetry ==
    /\ Leaving(Traced)
    /\ err' = NormalizeGRPCError(err)
    /\ LET f == Ended(Finalized(frames[depth], err')) IN
        frames' = [frames EXCEPT ![depth] =
            [f EXCEPT !.recorded = IF chain[depth] \in Metered THEN Code(err') ELSE f.recorded]]
    /\ UNCHANGED <<phase, panicked>>

\* The frames outside frame i whose span is the one in the context of i.
Outer(i, kinds) == {j \in 1 .. i - 1 : chain[j] \in kinds}

Current(i) ==
    LET starters == Outer(i, Traced \cup {"tracer"})
    IN  {j \in starters : \A k \in starters : k <= j}

\* A span end state in the context is that of an owned span, which is left
\* alone; without one, the current span is ended.
EndedBy(i) == IF Outer(i, Traced) # {} THEN {} ELSE Current(i)

LeaveEnd ==
    /\ Leaving({"end"})
    /\ frames' = [j \in DOMAIN frames |->
                    IF j \in EndedBy(depth) THEN Ended(frames[j]) ELSE frames[j]]
    /\ UNCHANGED <<phase, err, panicked>>

\* An application interceptor may replace the error; it ends its span.
LeaveTracer(e) ==
    /\ Leaving({"tracer"})
    /\ err' = e
    /\ frames' = [frames EXCEPT ![depth] = Ended(@)]
    /\ UNCHANGED <<phase, panicked>>

AppPanics ==
    /\ Leaving({"tracer"})
    /\ phase' = "panic"
    /\ panicked' = TRUE
    /\ frames' = [frames EXCEPT ![depth] = Ended(@)]
    /\ UNCHANGED err

-----------------------------------------------------------------------------
(***************************************************************************)
(* A panic on its way out.                                                 *)
(***************************************************************************)
Unwinding(kinds) ==
    /\ phase = "panic"
    /\ depth > 0
    /\ chain[depth] \in kinds
    /\ depth' = depth - 1
    /\ UNCHANGED <<chain, request, header, answer, panicked>>

UnwindPassive ==
    /\ Unwinding({"metrics", "logging", "off", "end"})
    /\ frames' = [frames EXCEPT ![depth].unwound = TRUE]
    /\ UNCHANGED <<phase, err>>

\* Only the deferred End runs: no code, no duration.
UnwindTelemetry ==
    /\ Unwinding(Traced \cup {"tracer"})
    /\ frames' = [frames EXCEPT ![depth] = [Ended(@) EXCEPT !.unwound = TRUE]]
    /\ UNCHANGED <<phase, err>>

Recover ==
    /\ Unwinding({"recover"})
    /\ phase' = "up"
    /\ err' = "Internal"
    /\ frames' = [frames EXCEPT ![depth].unwound = TRUE]

-----------------------------------------------------------------------------
(***************************************************************************)
(* The server above the chain.  A panic it meets ends the process, and so  *)
(* does an error it cannot print.                                          *)
(***************************************************************************)
Send ==
    /\ phase = "up"
    /\ depth = 0
    /\ err # "unprintable"
    /\ phase' = "sent"
    /\ answer' = Wire(err)
    /\ UNCHANGED <<chain, request, depth, header, err, frames, panicked>>

Crash ==
    /\ depth = 0
    /\ \/ phase = "panic"
       \/ phase = "up" /\ err = "unprintable"
    /\ phase' = "crashed"
    /\ UNCHANGED <<chain, request, depth, header, err, frames, answer, panicked>>

Next ==
    \/ EnterPassive \/ EnterMetrics \/ EnterLogging \/ EnterTracer
    \/ \E collects \in BOOLEAN : EnterTelemetry(collects)
    \/ \E e \in Errors : HandlerReturns(e)
    \/ HandlerPanics
    \/ LeavePassive \/ LeaveMetrics \/ LeaveLogging \/ LeaveTelemetry \/ LeaveEnd
    \/ \E e \in Errors : LeaveTracer(e)
    \/ AppPanics
    \/ UnwindPassive \/ UnwindTelemetry \/ Recover
    \/ Send \/ Crash

Spec == Init /\ [][Next]_vars

-----------------------------------------------------------------------------
(***************************************************************************)
(* Properties.                                                             *)
(***************************************************************************)
Normalizing == Traced \cup Recording

\* Nobody outside frame i gave the error another value.
Final(i) == ~frames[i].unwound /\ Outer(i, {"tracer"}) = {}

Reports(i, code) ==
    /\ chain[i] \in Traced => frames[i].code = code /\ (code # "OK" => frames[i].failed)
    /\ chain[i] \in Recording => frames[i].recorded = code

\* What a call is reported as is what its client is sent: by the span, by the
\* duration and by the log entry of every interceptor that no application interceptor is
\* outside of and no panic went through, however they nest.  A bare context
\* error is the exception: Unknown to the interceptors, not to the server.
ReportedIsSent ==
    phase = "sent" => \A i \in DOMAIN chain : Final(i) =>
        Reports(i, IF answer = "ContextError" THEN "Unknown" ELSE answer)

\* An interceptor that was entered and left has ended its span, and not before
\* the code of the call was on it, unless a panic went through: neither an
\* EndTracingSpansInterceptor inside it nor one outside it ends it early.
SpanEndsFinalized ==
    \A i \in DOMAIN chain : chain[i] \in Traced =>
        /\ (phase # "down" /\ depth < i) => frames[i].span = "ended"
        /\ frames[i].span = "ended" => (frames[i].code # None \/ frames[i].unwound)

\* An error value never takes the process down once it has passed an
\* interceptor of this package (NormalizeGRPCError): a crash is a panic, or an
\* error that appeared outside all of them.
ReturnedErrorNeverCrashes ==
    (phase = "crashed" /\ ~panicked) =>
        \/ \A i \in DOMAIN chain : chain[i] \notin Normalizing
        \/ \E t \in DOMAIN chain : chain[t] = "tracer" /\ Outer(t, Normalizing) = {}

\* The id is one the request brought, the body's before the context's before
\* the metadata's, or a new one when it brought none a log would keep.
Honours(id) ==
    /\ Has("body") => id = Brought("body")
    /\ id.from = "new" => \A source \in Sources : request[source] \in {"absent", "foreign"}
    /\ id.from # "new" => Has(id.from) /\ id.form \in {request[id.from], "clean"}
    /\ id.from = "metadata" => request["context"] \in {"absent", "foreign"}

\* An id that logging does not leave as it is, and a frame of it on the way.
Rewritten(id, i, j) == id.form # "clean" /\ \E k \in i + 1 .. j : chain[k] = "logging"

\* All interceptors of a call name it by one request id, and by the right one
\* (resolveGRPCRequestID): an inner interceptor finds what the outer chose.  A
\* WithGrpcLogging between the two may have shortened or replaced it, and only
\* an id that is not printable ASCII of at most 128 bytes.
OneRequestID ==
    \A i, j \in DOMAIN chain :
        (i < j /\ frames[i].id # None /\ frames[j].id # None) =>
            /\ Honours(frames[i].id) /\ Honours(frames[j].id)
            /\ frames[i].id = frames[j].id \/ Rewritten(frames[i].id, i, j)

-----------------------------------------------------------------------------
(***************************************************************************)
(* The inductive invariant.                                                *)
(***************************************************************************)
\* A frame not reached yet is untouched; one that runs still has its span.
FramesInStep ==
    \A i \in DOMAIN chain :
        /\ (phase = "down" /\ depth < i) => frames[i] = NewFrame
        /\ (phase \in {"down", "up", "panic"} /\ i <= depth /\ chain[i] \in Traced)
            => frames[i].span = "open"

\* The frames left so far say what the error on its way up says.
ReportsTheError ==
    \A i \in DOMAIN chain : (depth < i /\ Final(i) /\ chain[i] \in Normalizing) =>
        /\ phase # "panic"
        /\ phase = "up" => Reports(i, Code(err))

\* An unprintable error has met no interceptor of this package.
UnprintableIsFresh ==
    /\ phase = "panic" => panicked
    /\ (phase = "up" /\ err = "unprintable") =>
        \E t \in depth + 1 .. Len(chain) + 1 :
            /\ t <= Len(chain) => chain[t] = "tracer"
            /\ \A i \in depth + 1 .. t - 1 : chain[i] \notin Normalizing

\* The id in the context is the one the frames outside chose, or one of them
\* rewrote.
HeaderIsChosen ==
    /\ header = None => ~Has("context")
    /\ (header # None /\ ~Has("body")) => Honours(header)
    /\ \A i \in DOMAIN chain : frames[i].id # None =>
            /\ Honours(frames[i].id)
            /\ phase = "down" => frames[i].id = header \/ Rewritten(frames[i].id, i, depth)

IInv ==
    /\ TypeOK
    /\ FramesInStep
    /\ ReportsTheError
    /\ UnprintableIsFresh
    /\ HeaderIsChosen
    /\ ReportedIsSent
    /\ SpanEndsFinalized
    /\ ReturnedErrorNeverCrashes
    /\ OneRequestID

=============================================================================
