------------------------ MODULE MetricsFactoryProofs ------------------------
(***************************************************************************)
(* Proofs about MetricsFactory, for any number of callers, metrics and     *)
(* instruments.  The argument: the cache only grows, holds under a key an  *)
(* instrument made for that very metric, and everything recorded so far    *)
(* was recorded on what the cache holds.  It needs that no name contains a *)
(* colon, or two metrics may share a key.                                  *)
(***************************************************************************)
EXTENDS MetricsFactory, TLAPS

\* Boundaries are sets of naturals, the defaults included.
LEMMA BucketsType ==
  ASSUME NEW kind, NEW name \in Names, NEW b \in Buckets(kind, name)
  PROVE  b \in SUBSET Nat
<1>1. ASSUME NEW s \in Boundaries PROVE BoundsIn(s) \in SUBSET Nat
  <2>1. s \in Seq(Nat)  BY FactoryAssumption
  <2> QED  BY <2>1 DEF BoundsIn
<1>2. DefaultBuckets[name] \in SUBSET Nat  BY FactoryAssumption
<1> QED  BY <1>1, <1>2 DEF Buckets

\* histogramCacheKey and the bare names of the other maps: without colons in
\* names the key tells everything the instrument depends on.
LEMMA KeyIsTheMetric ==
  ASSUME ColonFree, NEW m \in Identities
  PROVE  Key(m) = m
<1>1. m.name \in Names  BY DEF Identities
<1>2. Spelled[m.name] = <<m.name, {}>>  BY <1>1 DEF ColonFree
<1>3. CASE m.buckets # {}  BY <1>3 DEF Key
<1>4. CASE m.buckets = {}
  <2>1. Key(m) = [m EXCEPT !.name = m.name, !.buckets = {}]  BY <1>2, <1>4 DEF Key
  <2> QED  BY <2>1, <1>4 DEF Identities
<1> QED  BY <1>3, <1>4

\* Every call is for a metric.
LEMMA CallType ==
  ASSUME NEW kind \in Calls, NEW name \in Names, NEW b \in Buckets(kind, name)
  PROVE  [kind |-> MapOf(kind), name |-> name, buckets |-> b] \in Identities
<1>1. MapOf(kind) \in InstrumentKinds  BY DEF Calls, InstrumentKinds, MapOf
<1>2. b \in SUBSET Nat  BY BucketsType
<1> QED  BY <1>1, <1>2 DEF Identities

-----------------------------------------------------------------------------
\* The start: nothing is cached, nobody holds anything.
LEMMA InitInv == FactoryInit => FactoryInv
<1> SUFFICES ASSUME FactoryInit PROVE FactoryInv  OBVIOUS
<1>1. FactoryTypeOK  BY DEF FactoryInit, FactoryTypeOK
<1>2. RegistryInv  BY DEF FactoryInit, RegistryInv
<1> QED  BY <1>1, <1>2 DEF FactoryInv

\* A new call drops whatever builder the caller had.
LEMMA CallInv ==
  ASSUME FactoryInv, NEW c \in Callers, NEW kind \in Calls, NEW m \in Identities, Call(c, kind, m)
  PROVE  FactoryInv'
<1>1. FactoryTypeOK'  BY DEF FactoryInv, FactoryTypeOK, Call, GoTo
<1>2. RegistryInv'  BY DEF FactoryInv, FactoryTypeOK, RegistryInv, Call, GoTo
<1> QED  BY <1>1, <1>2 DEF FactoryInv

\* A hit hands out what the cache holds for this very metric.
LEMMA LoadInv ==
  ASSUME ColonFree, FactoryInv, NEW c \in Callers, Load(c)
  PROVE  FactoryInv'
<1>1. metric[c] \in Identities  BY DEF FactoryInv, FactoryTypeOK, Load
<1>2. Key(metric[c]) = metric[c]  BY <1>1, KeyIsTheMetric
<1>3. FactoryTypeOK'
  <2>1. CASE metric[c] \in DOMAIN cache
    <3>1. cache[metric[c]] \in 1..Len(instruments) /\ Len(instruments) \in Nat
      BY <2>1 DEF FactoryInv, FactoryTypeOK
    <3>2. held' = [held EXCEPT ![c] = cache[metric[c]]] /\ stage' = [stage EXCEPT ![c] = "holding"]
      BY <1>2, <2>1 DEF Load, GoTo
    <3> QED  BY <1>1, <3>1, <3>2 DEF FactoryInv, FactoryTypeOK, Load
  <2>2. CASE metric[c] \notin DOMAIN cache
    <3>1. held' = held /\ stage' = [stage EXCEPT ![c] = "create"]
      BY <1>2, <2>2 DEF Load, GoTo
    <3> QED  BY <1>1, <3>1 DEF FactoryInv, FactoryTypeOK, Load
  <2> QED  BY <2>1, <2>2
<1>4. RegistryInv'  BY <1>1, <1>2 DEF FactoryInv, FactoryTypeOK, RegistryInv, Load, GoTo
<1> QED  BY <1>3, <1>4 DEF FactoryInv

\* A new instrument gets a number nothing refers to yet.
LEMMA CreateInv ==
  ASSUME FactoryInv, NEW c \in Callers, Create(c)
  PROVE  FactoryInv'
<1>1. metric[c] \in Identities  BY DEF FactoryInv, FactoryTypeOK, Create
<1>2. /\ instruments' \in Seq(Identities)
      /\ Len(instruments') = Len(instruments) + 1
      /\ instruments'[Len(instruments) + 1] = metric[c]
      /\ \A i \in 1..Len(instruments) : instruments'[i] = instruments[i]
  BY <1>1 DEF FactoryInv, FactoryTypeOK, Create
<1>3. Len(instruments) \in Nat  BY DEF FactoryInv, FactoryTypeOK
<1>4. FactoryTypeOK'
  <2>1. cache' \in [DOMAIN cache' -> 1..Len(instruments')]
    BY <1>2, <1>3 DEF FactoryInv, FactoryTypeOK, Create
  <2>2. held' \in [Callers -> 0..Len(instruments')]
    BY <1>2, <1>3 DEF FactoryInv, FactoryTypeOK, Create
  <2>3. used' \subseteq Identities \X (1..Len(instruments'))
    BY <1>2, <1>3 DEF FactoryInv, FactoryTypeOK, Create
  <2>4. \A d \in Callers : stage'[d] \in {"store", "holding"} => held'[d] # 0
    BY <1>3 DEF FactoryInv, FactoryTypeOK, Create, GoTo
  <2> QED  BY <1>2, <2>1, <2>2, <2>3, <2>4 DEF FactoryInv, FactoryTypeOK, Create, GoTo
<1>5. RegistryInv'
  <2>1. \A k \in DOMAIN cache' : instruments'[cache'[k]] = k
    BY <1>2 DEF FactoryInv, FactoryTypeOK, RegistryInv, Create
  <2>2. ASSUME NEW d \in Callers, stage'[d] = "store" PROVE instruments'[held'[d]] = metric'[d]
    <3>1. CASE d = c  BY <1>2, <1>3, <3>1 DEF FactoryInv, FactoryTypeOK, Create
    <3>2. CASE d # c
      <4>1. stage[d] = "store" /\ held'[d] = held[d] /\ metric'[d] = metric[d]
        BY <2>2, <3>2 DEF FactoryInv, FactoryTypeOK, Create, GoTo
      <4>2. held[d] \in 1..Len(instruments)  BY <1>3, <4>1 DEF FactoryInv, FactoryTypeOK
      <4> QED  BY <1>2, <4>1, <4>2 DEF FactoryInv, RegistryInv
    <3> QED  BY <3>1, <3>2
  <2>3. ASSUME NEW d \in Callers, stage'[d] = "holding"
        PROVE  metric'[d] \in DOMAIN cache' /\ held'[d] = cache'[metric'[d]]
    <3>1. stage[d] = "holding" /\ d # c  BY <2>3 DEF FactoryInv, FactoryTypeOK, Create, GoTo
    <3> QED  BY <3>1 DEF FactoryInv, FactoryTypeOK, RegistryInv, Create
  <2> QED  BY <2>1, <2>2, <2>3 DEF FactoryInv, RegistryInv, Create
<1> QED  BY <1>4, <1>5 DEF FactoryInv

\* The meter fails: the cache is what it was.
LEMMA CreateFailsInv ==
  ASSUME FactoryInv, NEW c \in Callers, CreateFails(c)
  PROVE  FactoryInv'
<1>1. FactoryTypeOK'  BY DEF FactoryInv, FactoryTypeOK, CreateFails, Returns, GoTo
<1>2. RegistryInv'  BY DEF FactoryInv, FactoryTypeOK, RegistryInv, CreateFails, Returns, GoTo
<1> QED  BY <1>1, <1>2 DEF FactoryInv

\* LoadOrStore: the winner binds the metric, the loser takes what is bound.
LEMMA StoreInv ==
  ASSUME ColonFree, FactoryInv, NEW c \in Callers, Store(c)
  PROVE  FactoryInv'
<1>1. metric[c] \in Identities  BY DEF FactoryInv, FactoryTypeOK, Store
<1>2. Key(metric[c]) = metric[c]  BY <1>1, KeyIsTheMetric
<1>3. instruments[held[c]] = metric[c] /\ held[c] \in 1..Len(instruments) /\ Len(instruments) \in Nat
  BY DEF FactoryInv, FactoryTypeOK, RegistryInv, Store
<1>4. stage' = [stage EXCEPT ![c] = "holding"] /\ UNCHANGED <<instruments, call, metric, used>>
  BY DEF Store, GoTo
<1>5. CASE metric[c] \notin DOMAIN cache
  <2>1. /\ held' = held
        /\ cache' = [j \in DOMAIN cache \cup {metric[c]} |->
                       IF j = metric[c] THEN held[c] ELSE cache[j]]
    BY <1>2, <1>5 DEF Store
  <2>2. DOMAIN cache' = DOMAIN cache \cup {metric[c]}  BY <2>1
  <2>3. FactoryTypeOK'
    <3>1. cache' \in [DOMAIN cache' -> 1..Len(instruments')]
      BY <1>3, <1>4, <2>1, <2>2 DEF FactoryInv, FactoryTypeOK
    <3>2. DOMAIN cache' \subseteq Identities
      BY <1>1, <2>2 DEF FactoryInv, FactoryTypeOK
    <3>3. stage' \in [Callers -> {"idle", "load", "create", "store", "holding"}]
      BY <1>4 DEF FactoryInv, FactoryTypeOK
    <3>4. \A d \in Callers : /\ stage'[d] # "idle" => metric'[d] \in Identities /\ call'[d] \in Calls
                             /\ stage'[d] \in {"store", "holding"} => held'[d] # 0
      BY <1>3, <1>4, <2>1 DEF FactoryInv, FactoryTypeOK, Store
    <3> QED  BY <1>4, <2>1, <3>1, <3>2, <3>3, <3>4 DEF FactoryInv, FactoryTypeOK
  <2>4. RegistryInv'
    <3>1. \A k \in DOMAIN cache' : instruments'[cache'[k]] = k
      BY <1>3, <1>4, <2>1, <2>2 DEF FactoryInv, RegistryInv
    <3>2. \A k \in DOMAIN cache : k \in DOMAIN cache' /\ cache'[k] = cache[k]
      BY <1>5, <2>1
    <3>3. metric[c] \in DOMAIN cache' /\ held[c] = cache'[metric[c]]
      BY <2>1
    <3>4. ASSUME NEW d \in Callers
          PROVE  /\ stage'[d] = "store" => instruments'[held'[d]] = metric'[d]
                 /\ stage'[d] = "holding" =>
                      metric'[d] \in DOMAIN cache' /\ held'[d] = cache'[metric'[d]]
      <4>1. CASE d = c  BY <1>4, <2>1, <3>3, <4>1 DEF FactoryInv, FactoryTypeOK
      <4>2. CASE d # c  BY <1>4, <2>1, <3>2, <4>2 DEF FactoryInv, FactoryTypeOK, RegistryInv
      <4> QED  BY <4>1, <4>2
    <3>5. \A u \in used' : u[1] \in DOMAIN cache' /\ u[2] = cache'[u[1]]
      BY <1>4, <3>2 DEF FactoryInv, RegistryInv
    <3> QED  BY <3>1, <3>4, <3>5 DEF RegistryInv
  <2> QED  BY <2>3, <2>4 DEF FactoryInv
<1>6. CASE metric[c] \in DOMAIN cache
  <2>1. cache' = cache /\ held' = [held EXCEPT ![c] = cache[metric[c]]]
    BY <1>2, <1>6 DEF Store, Adopts
  <2>2. cache[metric[c]] \in 1..Len(instruments)  BY <1>6 DEF FactoryInv, FactoryTypeOK
  <2>3. FactoryTypeOK'
    <3>1. held' \in [Callers -> 0..Len(instruments)]
      BY <1>3, <2>1, <2>2 DEF FactoryInv, FactoryTypeOK
    <3>2. stage' \in [Callers -> {"idle", "load", "create", "store", "holding"}]
      BY <1>4 DEF FactoryInv, FactoryTypeOK
    <3>3. \A d \in Callers : /\ stage'[d] # "idle" => metric'[d] \in Identities /\ call'[d] \in Calls
                             /\ stage'[d] \in {"store", "holding"} => held'[d] # 0
      BY <1>3, <1>4, <2>1, <2>2 DEF FactoryInv, FactoryTypeOK, Store
    <3> QED  BY <1>4, <2>1, <3>1, <3>2, <3>3 DEF FactoryInv, FactoryTypeOK
  <2>4. RegistryInv'
    <3>1. ASSUME NEW d \in Callers
          PROVE  /\ stage'[d] = "store" => instruments'[held'[d]] = metric'[d]
                 /\ stage'[d] = "holding" =>
                      metric'[d] \in DOMAIN cache' /\ held'[d] = cache'[metric'[d]]
      <4>1. CASE d = c  BY <1>4, <1>6, <2>1, <4>1 DEF FactoryInv, FactoryTypeOK
      <4>2. CASE d # c  BY <1>4, <2>1, <4>2 DEF FactoryInv, FactoryTypeOK, RegistryInv
      <4> QED  BY <4>1, <4>2
    <3> QED  BY <1>4, <2>1, <3>1 DEF FactoryInv, RegistryInv
  <2> QED  BY <2>3, <2>4 DEF FactoryInv
<1> QED  BY <1>5, <1>6

\* A builder records on the instrument its metric is bound to.
LEMMA RecordInv ==
  ASSUME FactoryInv, NEW c \in Callers, NEW v \in Values, Record(c, v)
  PROVE  FactoryInv'
<1>1. /\ metric[c] \in Identities
      /\ held[c] \in 1..Len(instruments)
      /\ metric[c] \in DOMAIN cache /\ held[c] = cache[metric[c]]
  BY DEF FactoryInv, FactoryTypeOK, RegistryInv, Record
<1>2. used' = used \cup {<<metric[c], held[c]>>} /\ UNCHANGED <<instruments, cache>>
  BY DEF Record
<1>u. used' \subseteq Identities \X (1..Len(instruments))
  BY <1>1, <1>2 DEF FactoryInv, FactoryTypeOK
<1>v. \A u \in used' : u[1] \in DOMAIN cache' /\ u[2] = cache'[u[1]]
  BY <1>1, <1>2 DEF FactoryInv, RegistryInv
<1>3. CASE call[c] = "rounded"
  <2>1. /\ stage' = [stage EXCEPT ![c] = "idle"]
        /\ call' = [call EXCEPT ![c] = "none"]
        /\ metric' = [metric EXCEPT ![c] = NoMetric]
        /\ held' = [held EXCEPT ![c] = 0]
    BY <1>3 DEF Record, Returns, GoTo
  <2>2. FactoryTypeOK'
    <3>1. held' \in [Callers -> 0..Len(instruments)]
      <4>1. 0 \in 0..Len(instruments)  BY DEF FactoryInv, FactoryTypeOK
      <4> QED  BY <2>1, <4>1 DEF FactoryInv, FactoryTypeOK
    <3>2. /\ stage' \in [Callers -> {"idle", "load", "create", "store", "holding"}]
          /\ call' \in [Callers -> Calls \cup {"none"}]
          /\ metric' \in [Callers -> Identities \cup {NoMetric}]
      BY <2>1 DEF FactoryInv, FactoryTypeOK
    <3>3. \A d \in Callers : /\ stage'[d] # "idle" => metric'[d] \in Identities /\ call'[d] \in Calls
                             /\ stage'[d] \in {"store", "holding"} => held'[d] # 0
      BY <2>1 DEF FactoryInv, FactoryTypeOK
    <3> QED  BY <1>2, <1>u, <3>1, <3>2, <3>3 DEF FactoryInv, FactoryTypeOK
  <2>3. RegistryInv'
    <3>1. ASSUME NEW d \in Callers
          PROVE  /\ stage'[d] = "store" => instruments'[held'[d]] = metric'[d]
                 /\ stage'[d] = "holding" =>
                      metric'[d] \in DOMAIN cache' /\ held'[d] = cache'[metric'[d]]
      <4>1. CASE d = c  BY <2>1, <4>1 DEF FactoryInv, FactoryTypeOK
      <4>2. CASE d # c  BY <1>2, <2>1, <4>2 DEF FactoryInv, FactoryTypeOK, RegistryInv
      <4> QED  BY <4>1, <4>2
    <3> QED  BY <1>2, <1>v, <3>1 DEF FactoryInv, RegistryInv
  <2> QED  BY <2>2, <2>3 DEF FactoryInv
<1>4. CASE call[c] # "rounded"
  <2>1. FactoryTypeOK'  BY <1>2, <1>4, <1>u DEF FactoryInv, FactoryTypeOK, Record
  <2>2. RegistryInv'  BY <1>2, <1>4, <1>v DEF FactoryInv, RegistryInv, Record
  <2> QED  BY <2>1, <2>2 DEF FactoryInv
<1> QED  BY <1>3, <1>4

\* Every step keeps the invariant.
LEMMA StepInv == ASSUME ColonFree PROVE FactoryInv /\ [FactoryNext]_factoryVars => FactoryInv'
<1> SUFFICES ASSUME FactoryInv, [FactoryNext]_factoryVars PROVE FactoryInv'  OBVIOUS
<1>1. CASE UNCHANGED factoryVars  BY <1>1 DEF factoryVars, FactoryInv, FactoryTypeOK, RegistryInv
<1>2. ASSUME NEW c \in Callers, NEW kind \in Calls, NEW name \in Names,
             NEW b \in Buckets(kind, name),
             Call(c, kind, [kind |-> MapOf(kind), name |-> name, buckets |-> b])
      PROVE  FactoryInv'
  BY <1>2, CallType, CallInv
<1>3. ASSUME NEW c \in Callers, Load(c) PROVE FactoryInv'  BY <1>3, LoadInv
<1>4. ASSUME NEW c \in Callers, Create(c) PROVE FactoryInv'  BY <1>4, CreateInv
<1>5. ASSUME NEW c \in Callers, CreateFails(c) PROVE FactoryInv'  BY <1>5, CreateFailsInv
<1>6. ASSUME NEW c \in Callers, Store(c) PROVE FactoryInv'  BY <1>6, StoreInv
<1>7. ASSUME NEW c \in Callers, NEW v \in Values, Record(c, v) PROVE FactoryInv'
  BY <1>7, RecordInv
<1> QED  BY <1>1, <1>2, <1>3, <1>4, <1>5, <1>6, <1>7 DEF FactoryNext, Caller

-----------------------------------------------------------------------------
(* The theorems                                                            *)

\* The cache holds for each metric an instrument made for it, and everybody
\* who records uses that one.
THEOREM InductiveInvariant == ASSUME ColonFree PROVE FactorySpec => []FactoryInv
<1>1. FactoryInit => FactoryInv  BY InitInv
<1>2. FactoryInv /\ [FactoryNext]_factoryVars => FactoryInv'  BY StepInv
<1> QED  BY <1>1, <1>2, PTL DEF FactorySpec

\* getOrCreate*: racing callers never split a metric over two instruments.
THEOREM NoSplit == ASSUME ColonFree PROVE FactorySpec => []OneInstrumentEach
<1>1. FactoryInv => OneInstrumentEach  BY DEF FactoryInv, RegistryInv, OneInstrumentEach
<1> QED  BY <1>1, InductiveInvariant, PTL

\* Nothing is recorded on an instrument made for another metric.
THEOREM NoAliasing == ASSUME ColonFree PROVE FactorySpec => []NeverAliased
<1>1. FactoryInv => NeverAliased
  BY DEF FactoryInv, FactoryTypeOK, RegistryInv, NeverAliased
<1> QED  BY <1>1, InductiveInvariant, PTL

\* math.Round moves a value by at most a half.
LEMMA RoundedIsNear ==
  ASSUME NEW h \in Int
  PROVE  Rounded(h) \in Int /\ 2 * Rounded(h) - h \in -1..1
<1>1. CASE h >= 0
  <2>1. Rounded(h) = (h + 1) \div 2  BY <1>1 DEF Rounded
  <2> QED  BY <2>1
<1>2. CASE h < 0
  <2>1. Rounded(h) = -((1 - h) \div 2)  BY <1>2 DEF Rounded
  <2> QED  BY <2>1
<1> QED  BY <1>1, <1>2

\* The checks of the builders and of RecordHistogram: what passes them is
\* recorded as it was asked, the conversion to int64 included.
LEMMA SoundCalls ==
  ASSUME NEW kind \in Calls, NEW v \in Values, Passable(kind, v), Accepts(kind, v),
         NEW n \in Recorded(kind, v)
  PROVE  v.finite /\ (kind \in Counters => n >= 0) /\ n - v.halves \in -1..1
<1>1. v.halves \in Int /\ v.finite \in BOOLEAN  BY FactoryAssumption DEF ValueType
<1>2. v.finite
  BY DEF Passable, Accepts, Floats, Representable
<1>3. CASE kind = "rounded"
  <2>1. Rounded(v.halves) \in Int64
    BY <1>1, <1>3, RoundedIsNear, FactoryAssumption DEF Accepts, Representable, Int64, MinInt64
  <2>2. n = 2 * Rounded(v.halves)  BY <1>3, <2>1 DEF Recorded, Converted
  <2> QED  BY <1>1, <1>2, <1>3, <2>2, RoundedIsNear DEF Counters
<1>4. CASE kind # "rounded"
  <2>1. n = v.halves  BY <1>4 DEF Recorded
  <2> QED  BY <1>1, <1>2, <2>1 DEF Accepts
<1> QED  BY <1>3, <1>4

\* No builder can record a NaN, a negative counter delta or a garbage sample.
THEOREM Soundness == ASSUME ColonFree PROVE FactorySpec => []SamplesAreSound
<1>1. FactoryInv => SamplesAreSound  BY SoundCalls DEF FactoryInv, FactoryTypeOK, SamplesAreSound
<1> QED  BY <1>1, InductiveInvariant, PTL

-----------------------------------------------------------------------------
\* The factory implements InstrumentRegistry: only Store binds, only Record
\* records, and both do it as the registry does.
THEOREM Refinement == ASSUME ColonFree PROVE FactorySpec => ImplementsRegistry
<1>1. FactoryInit => Registry!Init  BY DEF FactoryInit, Registry!Init
<1>2. FactoryInv /\ [FactoryNext]_factoryVars => [Registry!Next]_(Registry!vars)
  <2> SUFFICES ASSUME FactoryInv, [FactoryNext]_factoryVars PROVE [Registry!Next]_(Registry!vars)  OBVIOUS
  <2>1. CASE UNCHANGED <<cache, used>>  BY <2>1 DEF Registry!vars
  <2>2. ASSUME NEW c \in Callers, Store(c) PROVE [Registry!Next]_(Registry!vars)
    <3>1. metric[c] \in Identities /\ held[c] \in Nat \ {0}
      BY <2>2 DEF FactoryInv, FactoryTypeOK, Store
    <3>2. Key(metric[c]) = metric[c]  BY <3>1, KeyIsTheMetric
    <3>3. CASE metric[c] \in DOMAIN cache
      BY <2>2, <3>2, <3>3 DEF Store, Registry!vars
    <3>4. CASE metric[c] \notin DOMAIN cache
      <4>1. /\ cache' = [j \in DOMAIN cache \cup {metric[c]} |->
                           IF j = metric[c] THEN held[c] ELSE cache[j]]
            /\ used' = used
        BY <2>2, <3>2, <3>4 DEF Store
      <4>2. metric[c] \in DOMAIN cache' /\ cache'[metric[c]] = held[c]  BY <4>1
      <4>3. Registry!Bind(metric[c], cache'[metric[c]])
        BY <3>1, <3>4, <4>1, <4>2 DEF Registry!Bind
      <4> QED  BY <4>2, <4>3 DEF Registry!Next
    <3> QED  BY <3>3, <3>4
  <2>3. ASSUME NEW c \in Callers, NEW v \in Values, Record(c, v)
        PROVE  [Registry!Next]_(Registry!vars)
    <3>1. metric[c] \in DOMAIN cache /\ held[c] = cache[metric[c]]
      BY <2>3 DEF FactoryInv, RegistryInv, Record
    <3>2. Registry!Record(metric[c])  BY <2>3, <3>1 DEF Record, Registry!Record
    <3> QED  BY <3>1, <3>2 DEF Registry!Next
  <2> QED
    BY <2>1, <2>2, <2>3 DEF FactoryNext, Caller, factoryVars, Call, Load, Create, CreateFails
<1> QED  BY <1>1, <1>2, InductiveInvariant, PTL DEF FactorySpec, ImplementsRegistry, Registry!Spec
=============================================================================
