------------------------- MODULE InstrumentRegistry -------------------------
(***************************************************************************)
(* What a metrics factory promises the goroutines that share it, without   *)
(* maps, races or builders: a metric (kind, name and boundaries) is bound  *)
(* once and for all to an instrument, and whatever is recorded for that    *)
(* metric is recorded on that instrument.                                  *)
(***************************************************************************)
CONSTANTS Metrics, Instruments

VARIABLES bound,     \* the instrument of each metric bound so far
          recorded   \* the <<metric, instrument>> pairs ever recorded on

vars == <<bound, recorded>>

Init == bound = [m \in {} |-> 0] /\ recorded = {}

Bind(m, i) ==
  /\ m \in Metrics \ DOMAIN bound
  /\ i \in Instruments
  /\ bound' = [n \in DOMAIN bound \cup {m} |-> IF n = m THEN i ELSE bound[n]]
  /\ UNCHANGED recorded

Record(m) == /\ recorded' = recorded \cup {<<m, bound[m]>>}
             /\ UNCHANGED bound

\* Only the metric whose binding appears can be the one that was bound.
Next == \/ \E m \in DOMAIN bound' : Bind(m, bound'[m])
        \/ \E m \in DOMAIN bound : Record(m)

Spec == Init /\ [][Next]_vars
=============================================================================
