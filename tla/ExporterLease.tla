--------------------------- MODULE ExporterLease ---------------------------
(***************************************************************************)
(* What the construction and the shutdown of telemetry promise about each  *)
(* exporter connection, with no order, failures or callers: it is opened   *)
(* by whoever builds the telemetry, is handed over at most once, to the    *)
(* provider, and is closed once, by the one that holds it.                 *)
(***************************************************************************)
CONSTANT Exporters

VARIABLES holder,    \* who must close it: "nobody" yet, the "builder", the
                     \* "provider", or nobody any more, when it is "closed"
          closings   \* how often it was told to close

vars == <<holder, closings>>

Init == /\ holder = [e \in Exporters |-> "nobody"]
        /\ closings = [e \in Exporters |-> 0]

Open(e) == /\ holder[e] = "nobody"
           /\ holder' = [holder EXCEPT ![e] = "builder"]
           /\ UNCHANGED closings

\* Several exporters can be handed over together.
HandOver(es) ==
  /\ \A e \in es : holder[e] = "builder"
  /\ holder' = [e \in Exporters |-> IF e \in es THEN "provider" ELSE holder[e]]
  /\ UNCHANGED closings

Close(e) == /\ holder[e] \in {"builder", "provider"}
            /\ holder' = [holder EXCEPT ![e] = "closed"]
            /\ closings' = [closings EXCEPT ![e] = 1]

Next == \/ \E e \in Exporters : Open(e) \/ Close(e)
        \/ \E es \in SUBSET Exporters : HandOver(es)

Spec == Init /\ [][Next]_vars
=============================================================================
