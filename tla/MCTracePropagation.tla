------------------------- MODULE MCTracePropagation -------------------------
EXTENDS TracePropagation, TLC

CONSTANTS a1, a2, t1, t2, t3, k1, k2

MCEndpoints ==
    {[transport |-> "http",  trusts |-> TRUE,  traced |-> TRUE],
     [transport |-> "http",  trusts |-> FALSE, traced |-> TRUE],
     [transport |-> "grpc",  trusts |-> TRUE,  traced |-> TRUE],
     [transport |-> "grpc",  trusts |-> FALSE, traced |-> TRUE],
     [transport |-> "grpc",  trusts |-> TRUE,  traced |-> FALSE],
     [transport |-> "queue", trusts |-> FALSE, traced |-> TRUE],
     [transport |-> "queue", trusts |-> FALSE, traced |-> FALSE]}
MCForeign == {3}

\* Two callers per transport: one sends all three, the other a member alone.
MCContents ==
    {[trace |-> 3, baggage |-> [tenant |-> t2, other |-> k2]],
     [trace |-> NoTrace, baggage |-> [tenant |-> Absent, other |-> k2]]}
MCSpelling(transport, c) ==
    IF transport = "grpc" \/ (transport = "queue" /\ c.trace = 3) THEN "lower" ELSE "canonical"
MCStrangers ==
    {[transport |-> transport, carrier |-> [Empty EXCEPT ![MCSpelling(transport, c)] = c],
      sent |-> c, library |-> FALSE,
      hint |-> IF transport = "grpc" /\ c.trace = 3 THEN t2 ELSE Absent] :
        transport \in Transports, c \in MCContents}

\* Nothing; a tenant in the baggage; and the same in the AttrBag.
Seed(baggage, bag) == [carried |-> [trace |-> NoTrace, baggage |-> baggage], bag |-> bag]
Own     == [tenant |-> t1, other |-> k1]
MCSeeds == {Seed(NoBaggage, Absent), Seed(Own, Absent), Seed(Own, t1)}

Symmetric == Permutations({a1, a2})
=============================================================================
