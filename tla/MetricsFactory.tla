--------------------------- MODULE MetricsFactory ---------------------------
(***************************************************************************)
(* metrics.MetricsFactory, shared by goroutines: the six sync.Map caches   *)
(* from which instruments are taken (load, create, load-or-store: three    *)
(* separate steps), the builders that hold an instrument, and the checks a *)
(* value passes before it is recorded.                                     *)
(*                                                                         *)
(* A number is counted in halves, so that rounding shows.  Boundaries that *)
(* passed validateBuckets are sorted and distinct: a set.  MaxInstruments  *)
(* bounds what the meter makes.                                            *)
(***************************************************************************)
EXTENDS Integers, Sequences

CONSTANTS
  Callers,
  Names,
  Spelled,         \* how each name reads: see the assumption
  Boundaries,      \* the boundary lists callers pass: sequences over Nat
  DefaultBuckets,  \* what selectDefaultBuckets picks for each name: a set
  Values,          \* the values callers record, see ValueType
  MaxInt64,        \* the largest int64; the smallest is one further from 0
  MaxInstruments   \* bound: instruments the meter makes in one behaviour

NaN == 99          \* a boundary that is not a number

ValueType == [finite : BOOLEAN, halves : Int]

\* A name without a colon spells itself, <<n, {}>>; the name "m:1,2" spells the
\* name m followed by the boundaries {1, 2}.
ASSUME FactoryAssumption ==
  /\ Spelled \in [Names -> Names \X SUBSET Nat]
  /\ \A m, n \in Names : Spelled[m] = Spelled[n] => m = n
  /\ Boundaries \subseteq Seq(Nat)
  /\ DefaultBuckets \in [Names -> SUBSET Nat]
  /\ Values \subseteq ValueType
  /\ MaxInt64 \in Nat
  /\ MaxInstruments \in Nat

\* Calls: "rounded" is RecordHistogram, a float64 onto an int64 histogram.
InstrumentKinds == {"counter", "gauge", "histogram",
                    "counter64f", "gauge64f", "histogram64f"}
Calls      == InstrumentKinds \cup {"rounded"}
Histograms == {"histogram", "histogram64f", "rounded"}
Floats     == {"counter64f", "gauge64f", "histogram64f"}
Counters   == {"counter", "counter64f"}

\* A metric: what a caller asks for, its boundaries sorted.
Identities == [kind : InstrumentKinds, name : Names, buckets : SUBSET Nat]

VARIABLES
  instruments,  \* those the meter made, each with the metric it is for
  cache,    \* the sync.Maps: the instrument stored under each key, or 0
  stage,    \* where each caller is
  call,     \* which call it makes
  metric,   \* for which metric
  held,     \* the instrument it holds, in a builder or on its way there
  used      \* the <<metric, instrument>> pairs recorded on

factoryVars == <<instruments, cache, stage, call, metric, held, used>>

-----------------------------------------------------------------------------
(* Boundaries and keys                                                     *)

BoundsIn(s) == {s[i] : i \in 1..Len(s)}

\* validateBuckets, of the sorted list: no NaN, strictly increasing.
ValidBuckets(b) == /\ NaN \notin BoundsIn(b)
                   /\ \A i, j \in 1..Len(b) : b[i] = b[j] => i = j

\* The boundaries a call may name: none but on a histogram, where no list
\* (nil) means the default of the name.
Buckets(kind, name) ==
  IF kind \notin Histograms THEN {{}}
  ELSE {DefaultBuckets[name]} \cup {BoundsIn(b) : b \in {b \in Boundaries : ValidBuckets(b)}}

MapOf(kind) == IF kind = "rounded" THEN "histogram" ELSE kind

\* Where a metric is cached: in the map of its kind, under its name, followed
\* by a colon and the boundaries when there are some.
Key(m) == IF m.buckets # {} THEN m
          ELSE [m EXCEPT !.name = Spelled[m.name][1], !.buckets = Spelled[m.name][2]]

-----------------------------------------------------------------------------
(* Values                                                                  *)

MinInt64 == -MaxInt64 - 1
Int64    == MinInt64..MaxInt64

\* math.Round: to the nearest integer, halves away from zero.
Rounded(h) == IF h >= 0 THEN (h + 1) \div 2 ELSE -((1 - h) \div 2)

\* What the conversion to int64 can give; out of range that is up to the build.
Converted(n) == IF n \in Int64 THEN {n} ELSE {MinInt64, MaxInt64}

\* Mutant: compared with MaxInt64 as a float64, which rounds up to one more.
FitsMaxInt(v) == v.finite /\ Rounded(v.halves) \in MinInt64..(MaxInt64 + 1)

\* int64FromFloat compares with 2^63, excluded: a float64 can hold it.
Representable(v) == v.finite /\ MinInt64 <= Rounded(v.halves) /\ Rounded(v.halves) < MaxInt64 + 1

\* The values the parameter of a call can hold: a float64, or an int64.
Passable(kind, v) == \/ kind \in Floats \cup {"rounded"}
                     \/ v.finite /\ v.halves % 2 = 0 /\ v.halves \div 2 \in Int64

\* Mutant: only the int64 counter refuses a negative delta.
AcceptsAnyFloat(kind, v) == /\ kind \in Floats => v.finite
                            /\ kind = "counter" => v.halves >= 0
                            /\ kind = "rounded" => Representable(v)

\* What is recorded rather than refused with an error: no NaN, no infinity, no
\* negative counter delta, nothing an int64 cannot hold.
Accepts(kind, v) == /\ kind \in Floats => v.finite
                    /\ kind \in Counters => v.halves >= 0
                    /\ kind = "rounded" => Representable(v)

\* The numbers, in halves, that recording v may put on the instrument.
Recorded(kind, v) ==
  IF kind = "rounded" THEN {2 * n : n \in Converted(Rounded(v.halves))} ELSE {v.halves}

-----------------------------------------------------------------------------
NoMetric == [kind |-> "none"]

FactoryInit ==
  /\ instruments = <<>>
  /\ cache = [k \in {} |-> 0]
  /\ stage = [c \in Callers |-> "idle"]
  /\ call = [c \in Callers |-> "none"]
  /\ metric = [c \in Callers |-> NoMetric]
  /\ held = [c \in Callers |-> 0]
  /\ used = {}

GoTo(c, at) == stage' = [stage EXCEPT ![c] = at]

\* Counter, Gauge, Histogram and their float64 forms, or a flattened call.
\* Boundaries it refuses leave everything as it is, and so does a value that
\* RecordHistogram refuses: it looks at the value before it asks for anything.
Call(c, kind, m) ==
  /\ stage[c] \in {"idle", "holding"}
  /\ m.kind = MapOf(kind) /\ m.buckets \in Buckets(kind, m.name)
  /\ kind = "rounded" => \E v \in Values : Accepts(kind, v)
  /\ call' = [call EXCEPT ![c] = kind]
  /\ metric' = [metric EXCEPT ![c] = m]
  /\ held' = [held EXCEPT ![c] = 0]
  /\ GoTo(c, "load")
  /\ UNCHANGED <<instruments, cache, used>>

Load(c) ==
  /\ stage[c] = "load"
  /\ LET k == Key(metric[c]) IN
       \/ k \in DOMAIN cache /\ held' = [held EXCEPT ![c] = cache[k]] /\ GoTo(c, "holding")
       \/ k \notin DOMAIN cache /\ GoTo(c, "create") /\ UNCHANGED held
  /\ UNCHANGED <<instruments, cache, call, metric, used>>

Create(c) ==
  /\ stage[c] = "create"
  /\ Len(instruments) < MaxInstruments
  /\ instruments' = Append(instruments, metric[c])
  /\ held' = [held EXCEPT ![c] = Len(instruments) + 1]
  /\ GoTo(c, "store")
  /\ UNCHANGED <<cache, call, metric, used>>

\* The call is over and nothing of it is kept.
Returns(c) == /\ GoTo(c, "idle")
              /\ call' = [call EXCEPT ![c] = "none"]
              /\ metric' = [metric EXCEPT ![c] = NoMetric]
              /\ held' = [held EXCEPT ![c] = 0]

\* The meter fails: nothing is cached and the caller gets the error.
CreateFails(c) ==
  /\ stage[c] = "create"
  /\ Returns(c)
  /\ UNCHANGED <<instruments, cache, used>>

\* Mutant: the loser of the race keeps the instrument it made.
KeepsItsOwn(c, k) == UNCHANGED held

\* LoadOrStore lost: the instrument that is there is used.
Adopts(c, k) == held' = [held EXCEPT ![c] = cache[k]]

Store(c) ==
  /\ stage[c] = "store"
  /\ LET k == Key(metric[c]) IN
       \/ /\ k \notin DOMAIN cache
          /\ cache' = [j \in DOMAIN cache \cup {k} |-> IF j = k THEN held[c] ELSE cache[j]]
          /\ UNCHANGED held
       \/ k \in DOMAIN cache /\ Adopts(c, k) /\ UNCHANGED cache
  /\ GoTo(c, "holding")
  /\ UNCHANGED <<instruments, call, metric, used>>

\* A builder records, now or much later, once or many times; the flattened
\* RecordHistogram does it once.  What it refuses changes nothing.
Record(c, v) ==
  /\ stage[c] = "holding"
  /\ Passable(call[c], v) /\ Accepts(call[c], v)
  /\ used' = used \cup {<<metric[c], held[c]>>}
  /\ IF call[c] = "rounded" THEN Returns(c) ELSE UNCHANGED <<stage, call, metric, held>>
  /\ UNCHANGED <<instruments, cache>>

\* What a goroutine does that makes these calls.
Caller(c, asked) ==
  \/ \E kind \in asked, name \in Names : \E b \in Buckets(kind, name) :
       Call(c, kind, [kind |-> MapOf(kind), name |-> name, buckets |-> b])
  \/ Load(c) \/ Create(c) \/ CreateFails(c) \/ Store(c)
  \/ \E v \in Values : Record(c, v)

FactoryNext == \E c \in Callers : Caller(c, Calls)

FactorySpec == FactoryInit /\ [][FactoryNext]_factoryVars

-----------------------------------------------------------------------------
(* Properties                                                              *)

\* Instruments are numbered as they are made and every reference is to one
\* that exists.
FactoryTypeOK ==
  /\ instruments \in Seq(Identities)
  /\ DOMAIN cache \subseteq Identities
  /\ cache \in [DOMAIN cache -> 1..Len(instruments)]
  /\ stage \in [Callers -> {"idle", "load", "create", "store", "holding"}]
  /\ call \in [Callers -> Calls \cup {"none"}]
  /\ metric \in [Callers -> Identities \cup {NoMetric}]
  /\ held \in [Callers -> 0..Len(instruments)]
  /\ used \subseteq Identities \X (1..Len(instruments))
  /\ \A c \in Callers : /\ stage[c] # "idle" => metric[c] \in Identities /\ call[c] \in Calls
                        /\ stage[c] \in {"store", "holding"} => held[c] # 0

\* However callers race to create an instrument, what is recorded for one
\* metric is recorded on one instrument: no count is split over two.
OneInstrumentEach == \A u, w \in used : u[1] = w[1] => u[2] = w[2]

\* An instrument is only recorded on for the metric it was made for: same kind,
\* name and boundaries, so int64 and float64, or two histograms, never alias.
NeverAliased == \A u \in used : instruments[u[2]] = u[1]

\* What a call in hand can put on its instrument is what was asked: finite,
\* never negative on a counter, and no further from it than rounding takes it.
SamplesAreSound ==
  \A c \in Callers, v \in Values :
    stage[c] = "holding" /\ Passable(call[c], v) /\ Accepts(call[c], v) =>
      \A n \in Recorded(call[c], v) :
        /\ v.finite
        /\ call[c] \in Counters => n >= 0
        /\ n - v.halves \in -1..1

\* What makes them inductive: the cache only holds instruments made for their
\* key, and every builder and every sample uses the one in the cache.
RegistryInv ==
  /\ \A k \in DOMAIN cache : instruments[cache[k]] = k
  /\ \A c \in Callers :
       /\ stage[c] = "store" => instruments[held[c]] = metric[c]
       /\ stage[c] = "holding" => metric[c] \in DOMAIN cache /\ held[c] = cache[metric[c]]
  /\ \A u \in used : u[1] \in DOMAIN cache /\ u[2] = cache[u[1]]

FactoryInv == FactoryTypeOK /\ RegistryInv

\* Names of which none contains a colon, as OpenTelemetry wants them.  Without it
\* the histogram "m:1,2" is served from the cache as m with boundaries 1 and 2.
ColonFree == \A n \in Names : Spelled[n] = <<n, {}>>

\* The factory implements InstrumentRegistry: racing callers notwithstanding,
\* a metric is bound once and recorded on what it is bound to.
Registry == INSTANCE InstrumentRegistry WITH
  Metrics     <- Identities,
  Instruments <- Nat \ {0},
  bound       <- cache,
  recorded    <- used

ImplementsRegistry == Registry!Spec
=============================================================================
