--------------------------- MODULE RequestSignals ---------------------------
(***************************************************************************)
(* What HTTP telemetry promises for one request, with no chain, no errors  *)
(* and no panics: the request is taken in once and reported once, and the  *)
(* in-flight gauge, the server span and the duration histogram change      *)
(* together.  A refusal is only ever counted.                              *)
(***************************************************************************)
EXTENDS Naturals

CONSTANT StatusCodes

VARIABLES gauge,       \* 1 while the request is in flight, else 0
          spanState,   \* "none", "open" or "ended"
          spanStatus,  \* the status the span was ended with
          reports      \* the statuses the histogram was recorded with

vars == <<gauge, spanState, spanStatus, reports>>

Init == gauge = 0 /\ spanState = "none" /\ spanStatus = 0 /\ reports = <<>>

Fresh == gauge = 0 /\ spanState = "none" /\ reports = <<>>

Begin(counted, traced) ==
  /\ Fresh
  /\ gauge' = IF counted THEN 1 ELSE 0
  /\ spanState' = IF traced THEN "open" ELSE "none"
  /\ UNCHANGED <<spanStatus, reports>>

Report(status) ==
  /\ gauge = 1 \/ spanState = "open"
  /\ reports' = IF gauge = 1 THEN <<status>> ELSE reports
  /\ spanState' = IF spanState = "open" THEN "ended" ELSE spanState
  /\ spanStatus' = IF spanState = "open" THEN status ELSE spanStatus
  /\ gauge' = 0

CountRefusal(status) ==
  /\ Fresh
  /\ reports' = <<status>>
  /\ UNCHANGED <<gauge, spanState, spanStatus>>

Next == \/ \E counted, traced \in BOOLEAN : Begin(counted, traced)
        \/ \E status \in StatusCodes : Report(status) \/ CountRefusal(status)

Spec == Init /\ [][Next]_vars
=============================================================================
