--------------------------- MODULE CollectorSlot ---------------------------
(***************************************************************************)
(* What the process-wide metrics collector promises its callers, with no   *)
(* locks, channels or goroutines: one slot that holds at most one          *)
(* collector, and the collectors that were told to stop and are still on   *)
(* their way out.                                                          *)
(***************************************************************************)
CONSTANTS Collectors,  \* identities a started collector can have
          None         \* the empty slot, no collector

VARIABLES active,      \* the collector in the slot, or None
          draining,    \* collectors told to stop that still run
          used         \* every collector that was ever started

vars == <<active, draining, used>>

Init == /\ active = None
        /\ draining = {}
        /\ used = {}

Start(c) == /\ active = None
            /\ c \notin used
            /\ active' = c
            /\ used' = used \cup {c}
            /\ UNCHANGED draining

\* The stopped collector drains, unless it had already died in the slot.
Stop == /\ active # None
        /\ active' = None
        /\ draining' \in {draining, draining \cup {active}}
        /\ UNCHANGED used

Finish(c) == /\ c \in draining
             /\ draining' = draining \ {c}
             /\ UNCHANGED <<active, used>>

Next == \/ Stop
        \/ \E c \in Collectors : Start(c) \/ Finish(c)

SafeSpec == Init /\ [][Next]_vars

Spec == SafeSpec /\ \A c \in Collectors : WF_vars(Finish(c))
=============================================================================
