------------------------------- MODULE Delivery -------------------------------
(***************************************************************************)
(* What the application records until it is exported: each provider of     *)
(* TelemetryLifecycle holds records in memory and exports them in batches, *)
(* and ForceFlush has all three export what they hold, while records are   *)
(* added and Shutdown calls stop the providers under it.                   *)
(*                                                                         *)
(* Of what a provider holds, only its age is kept: whether some of it was  *)
(* there when ForceFlush was called last.  The providers are the           *)
(* OpenTelemetry SDK's; one that was stopped takes no more records and has *)
(* nothing to flush, and has exported what it held when it is down.        *)
(***************************************************************************)
EXTENDS TelemetryLifecycle

VARIABLES
  held,    \* what each provider holds: "nothing", only what is "new" since
           \* the last call of ForceFlush, or something that was "due" by then
  flush    \* that call: the providers still to ask, and who answered an error

deliveryVars == <<held, flush>>

FlushOrder == <<"trace", "metric", "log">>

NoFlush == [at |-> "none", rest |-> <<>>, errs |-> {}]

DeliveryInit ==
  /\ held = [s \in Signals |-> "nothing"]
  /\ flush = NoFlush

\* A provider that is down has exported or dropped what it held.
Drained(s) ==
  /\ ProviderDown(s)
  /\ held' = [held EXCEPT ![s] = "nothing"]
  /\ UNCHANGED flush

-----------------------------------------------------------------------------
(* The batches                                                             *)

\* The tracers of an abandoned provider still record, and it still exports.
Serving == {"up", "abandoned"}

\* One more record for a provider of the Telemetry that was returned.
WithRecord(s) ==
  IF pc = "live" /\ provider[s] \in Serving /\ held[s] = "nothing"
  THEN [held EXCEPT ![s] = "new"] ELSE held

\* Spans that end and measurements; log records come from ZapLogger.
Recorded(s) ==
  /\ s # "log"
  /\ held' = WithRecord(s)
  /\ UNCHANGED flush

\* A batch is due: by its size, or its age.
BatchExported(s) ==
  /\ provider[s] \in Serving /\ held[s] # "nothing"
  /\ held' = [held EXCEPT ![s] = "nothing"]
  /\ UNCHANGED flush

-----------------------------------------------------------------------------
(* ForceFlush                                                              *)

FlushCalled ==
  /\ pc \in Usable /\ flush.at \in {"none", "returned"}
  /\ flush' = [at |-> "asking", rest |-> FlushOrder, errs |-> {}]
  /\ held' = [s \in Signals |-> IF held[s] = "nothing" THEN "nothing" ELSE "due"]

\* Mutant: the first error is returned at once.
UntilError(failed) == IF failed THEN <<>> ELSE Tail(flush.rest)

\* Whatever a provider answered, the next one is asked.
StillToAsk(failed) == Tail(flush.rest)

\* The error may be the context's: what was held is then on its way, lost or
\* still held.
ProviderFlushes(failed) ==
  /\ flush.at = "asking" /\ flush.rest # <<>>
  /\ LET s == Head(flush.rest) IN
       /\ flush' = [at   |-> "asking",
                    rest |-> StillToAsk(failed),
                    errs |-> IF failed THEN flush.errs \cup {s} ELSE flush.errs]
       /\ \/ failed /\ UNCHANGED held
          \/ provider[s] \notin Serving /\ UNCHANGED held
          \/ provider[s] \in Serving /\ held' = [held EXCEPT ![s] = "nothing"]

FlushReturns ==
  /\ flush.at = "asking" /\ flush.rest = <<>>
  /\ flush' = [flush EXCEPT !.at = "returned"]
  /\ UNCHANGED held

ForceFlush ==
  /\ FlushCalled \/ FlushReturns \/ \E failed \in BOOLEAN : ProviderFlushes(failed)
  /\ UNCHANGED vars

Batches ==
  /\ \E s \in Signals : Recorded(s) \/ BatchExported(s)
  /\ UNCHANGED vars

-----------------------------------------------------------------------------
(* Properties                                                              *)

\* "Joins their errors so one failing signal does not hide the others": once
\* ForceFlush has returned, nothing recorded before the call is still in memory,
\* but with a provider that answered an error, or was stopped meanwhile and is to
\* export it on its way down.
FlushedIsExported == flush.at = "returned" =>
  \A s \in Signals : held[s] = "due" => s \in flush.errs \/ provider[s] = "stopping"

\* What makes it inductive.
DeliveryTypeOK ==
  /\ held \in [Signals -> {"nothing", "new", "due"}]
  /\ flush \in [at : {"none", "asking", "returned"}, rest : Seq(Signals), errs : SUBSET Signals]

HeldByProvider == \A s \in Signals :
  held[s] # "nothing" => pc \in Usable /\ provider[s] \in Serving \cup {"stopping"}

DueIsAsked ==
  /\ flush.at # "asking" => flush.rest = <<>>
  /\ \A s \in Signals : held[s] = "due" =>
       /\ flush.at # "none"
       /\ s \in flush.errs \/ provider[s] = "stopping" \/ s \in Listed(flush.rest)

DeliveryInv == DeliveryTypeOK /\ HeldByProvider /\ DueIsAsked
=============================================================================
