----------------------- MODULE MetricsCollectorProofs -----------------------
(***************************************************************************)
(* The collector of MetricsCollector for any telemetries and any number of *)
(* starts: type correctness, the single active collector, the safety of    *)
(* Stop, and the implementation of CollectorSlot; and the process it runs  *)
(* in: nothing else there touches the collector, the instance that is made *)
(* global serves all fallbacks, net/http requests arrive whole and are     *)
(* recorded without what no span may carry, and contexts are values, that  *)
(* is, ContextValues implements ImmutableContexts.                         *)
(***************************************************************************)
EXTENDS ServiceProcess, SequenceTheorems, TLAPS

\* No collector runs at first.
LEMMA InitIInv == Init => IInv
  <1> USE CollectorAssumption DEF Init
  <1>1. Init => TypeOK
    <2>1. 0 \in 0..MaxStarts /\ 0 \in 0..0 /\ {} \subseteq 1..0
      OBVIOUS
    <2>2. [c \in Collectors |-> "unborn"]
            \in [Collectors -> Running \cup {"unborn", "ended", "died"}]
      OBVIOUS
    <2> QED BY <2>1, <2>2 DEF TypeOK, NoChannel
  <1>2. Init => SlotInv
    <2>1. 1..0 = {}
      OBVIOUS
    <2> QED BY <2>1 DEF SlotInv, Collectors, NoChannel
  <1> QED BY <1>1, <1>2 DEF IInv, Restartable, OnceAlreadyRan

\* Stop closes the channel of the collector in the slot and frees the slot.
LEMMA StopIInv == IInv /\ Stop => IInv'
  <1> SUFFICES ASSUME IInv, Stop PROVE IInv'
    OBVIOUS
  <1> USE CollectorAssumption DEF IInv, Stop, CloseShutdown, Reset, SlotInv, goroutineVars
  <1>1. TypeOK'
    <2>1. closed' \subseteq 1..spawned
      BY DEF TypeOK, NoChannel
    <2> QED BY <2>1 DEF TypeOK
  <1>2. closed' = 1..spawned
    BY DEF TypeOK
  <1>3. SlotInv'
    BY <1>2 DEF TypeOK, Collectors
  <1>4. Restartable'
    BY DEF Restartable, OnceAlreadyRan
  <1> QED BY <1>1, <1>3, <1>4

\* Ensure starts a collector only when every earlier one was told to stop.
LEMMA EnsureIInv == ASSUME IInv, NEW t \in Telemetries, Ensure(t) PROVE IInv'
  <1> USE CollectorAssumption DEF IInv
  <1>1. CASE EnsureReturnsNil(t)
    BY <1>1 DEF EnsureReturnsNil, vars, mutexVars, goroutineVars, TypeOK,
                SlotInv, Restartable, OnceAlreadyRan
  <1>2. CASE EnsureNoFactory(t)
    BY <1>2 DEF EnsureNoFactory, mutexVars, goroutineVars, TypeOK, SlotInv,
                Restartable, OnceAlreadyRan
  <1>3. CASE EnsureStarts(t)
    <2> USE <1>3 DEF EnsureStarts
    <2>1. TypeOK'
      <3>1. spawned' \in 0..MaxStarts /\ shutdown' \in 0..spawned'
        BY DEF TypeOK, Collectors
      <3>2. closed' \subseteq 1..spawned'
        BY DEF TypeOK
      <3>3. pc' \in [Collectors -> Running \cup {"unborn", "ended", "died"}]
        BY DEF TypeOK, Running
      <3>4. ticker' \in [Collectors -> {"none", "running", "stopped"}]
        BY DEF TypeOK
      <3> QED BY <3>1, <3>2, <3>3, <3>4 DEF TypeOK
    <2>2. closed' = 1..(spawned' - 1)
      BY DEF TypeOK, SlotInv
    <2>3. ASSUME NEW c \in Collectors
          PROVE  (pc[c] = "unborn" <=> c > spawned)'
      BY DEF TypeOK, SlotInv, Collectors
    <2>4. SlotInv'
      BY <2>2, <2>3 DEF TypeOK, SlotInv
    <2>5. Restartable'
      BY DEF Restartable
    <2> QED BY <2>1, <2>4, <2>5
  <1> QED BY <1>1, <1>2, <1>3 DEF Ensure

\* What a collector goroutine and its timer do, they do to themselves.
LEMMA GoroutineIInv ==
  ASSUME IInv, NEW c \in Collectors,
         Collector(c) \/ TickerFires(c) \/ ReadingPanics(c)
  PROVE  IInv'
  <1> USE DEF IInv, mutexVars
  <1>1. UNCHANGED mutexVars
    BY DEF Collector, ReadCPU, ReadMem, SelectShutdown, ToldToStop, SelectTick,
           TickerFires, ReadingPanics
  <1>2. TypeOK'
    BY DEF TypeOK, Running, Step, Collector, ReadCPU, ReadMem,
           SelectShutdown, ToldToStop, SelectTick, TickerFires, ReadingPanics
  <1>3. \A d \in Collectors : (pc'[d] = "unborn") <=> (pc[d] = "unborn")
    BY DEF TypeOK, Running, Step, Collector, ReadCPU, ReadMem,
           SelectShutdown, ToldToStop, SelectTick, TickerFires, ReadingPanics
  <1>4. SlotInv'
    BY <1>1, <1>3 DEF SlotInv
  <1>5. Restartable'
    BY <1>1 DEF Restartable, OnceAlreadyRan
  <1> QED BY <1>2, <1>4, <1>5

\* The inductive invariant holds in every reachable state.
THEOREM InductiveInvariant == SafeSpec => []IInv
  <1>1. IInv /\ [Next]_vars => IInv'
    <2> SUFFICES ASSUME IInv, [Next]_vars PROVE IInv'
      OBVIOUS
    <2>1. CASE UNCHANGED vars
      BY <2>1 DEF vars, mutexVars, goroutineVars, IInv, TypeOK, SlotInv,
                  Restartable, OnceAlreadyRan
    <2>2. CASE Next
      BY <2>2, StopIInv, EnsureIInv, GoroutineIInv DEF Next
    <2> QED BY <2>1, <2>2
  <1> QED BY <1>1, InitIInv, PTL DEF SafeSpec

\* Type correctness for any number of telemetries and starts.
THEOREM TypeCorrect == SafeSpec => []TypeOK
  <1>1. IInv => TypeOK
    BY DEF IInv
  <1> QED BY <1>1, InductiveInvariant, PTL

\* At most one collector has not been told to stop, and Stop reaches it.
THEOREM SingleActiveCollector == SafeSpec => []AtMostOneActive
  <1>1. IInv => AtMostOneActive
    BY CollectorAssumption
    DEF IInv, TypeOK, SlotInv, AtMostOneActive, Live, Running, Collectors
  <1> QED BY <1>1, InductiveInvariant, PTL

\* Stop never closes a closed channel.
THEOREM StopNeverPanics == SafeSpec => []StopIsSafe
  <1>1. IInv => StopIsSafe
    BY DEF IInv, TypeOK, SlotInv, StopIsSafe, NoChannel
  <1> QED BY <1>1, InductiveInvariant, PTL

\* Whenever no collector is started, the next usable Ensure will start one.
THEOREM AlwaysRestartable == SafeSpec => []Restartable
  <1>1. IInv => Restartable
    BY DEF IInv
  <1> QED BY <1>1, InductiveInvariant, PTL

\* What the package does is what CollectorSlot promises: a start fills the
\* empty slot with a collector never used before, Stop empties it, and every
\* other step only lets stopped collectors end.
THEOREM Refinement == SafeSpec => ImplementsSlot
  <1> USE CollectorAssumption
  <1>1. Init => Slot!Init
    <2>1. 1..0 = {}
      OBVIOUS
    <2> QED BY <2>1 DEF Init, Slot!Init, NoChannel
  <1>2. IInv /\ [Next]_vars => [Slot!Next]_(Slot!vars)
    <2> SUFFICES ASSUME IInv, [Next]_vars PROVE [Slot!Next]_(Slot!vars)
      OBVIOUS
    <2> USE DEF IInv
    <2>1. CASE UNCHANGED vars
      BY <2>1 DEF vars, mutexVars, goroutineVars, Slot!vars, Live
    <2>2. CASE Stop
      <3>1. {c \in closed' : Live(c)'}
              \in {{c \in closed : Live(c)},
                  {c \in closed : Live(c)} \cup {shutdown}}
        BY <2>2 DEF Stop, CloseShutdown, Reset, goroutineVars, Live, SlotInv
      <3>2. Slot!Stop
        BY <2>2, <3>1 DEF Stop, CloseShutdown, Reset, Slot!Stop, SlotInv, NoChannel
      <3> QED BY <3>2 DEF Slot!Next
    <2>3. ASSUME NEW t \in Telemetries, Ensure(t)
          PROVE  [Slot!Next]_(Slot!vars)
      <3>1. CASE EnsureReturnsNil(t)
        BY <3>1 DEF EnsureReturnsNil, vars, mutexVars, goroutineVars,
                    Slot!vars, Live
      <3>2. CASE EnsureNoFactory(t)
        BY <3>2 DEF EnsureNoFactory, goroutineVars, Slot!vars, Live
      <3>3. CASE EnsureStarts(t)
        <4>1. {c \in closed' : Live(c)'} = {c \in closed : Live(c)}
          BY <3>3 DEF EnsureStarts, Live, SlotInv, TypeOK, Collectors
        <4>2. 1..(spawned + 1) = 1..spawned \cup {spawned + 1}
          BY DEF TypeOK
        <4>3. /\ spawned + 1 \in Collectors /\ ~started
              /\ started' /\ shutdown' = spawned + 1
              /\ spawned' = spawned + 1
          BY <3>3 DEF EnsureStarts
        <4>4. spawned + 1 \notin 1..spawned
          BY DEF TypeOK
        <4>5. Slot!Start(spawned + 1)
          BY <4>1, <4>2, <4>3, <4>4 DEF Slot!Start
        <4> QED BY <4>3, <4>5 DEF Slot!Next
      <3> QED BY <2>3, <3>1, <3>2, <3>3 DEF Ensure
    <2>4. ASSUME NEW c \in Collectors,
                 Collector(c) \/ TickerFires(c) \/ ReadingPanics(c)
          PROVE  [Slot!Next]_(Slot!vars)
      <3>1. UNCHANGED mutexVars
        BY <2>4 DEF Collector, ReadCPU, ReadMem, SelectShutdown, ToldToStop, SelectTick,
                    TickerFires, ReadingPanics
      <3>2. pc' = [pc EXCEPT ![c] = pc'[c]] /\ (Live(c)' => Live(c))
        BY <2>4 DEF Collector, ReadCPU, ReadMem, SelectShutdown, ToldToStop, SelectTick,
                    TickerFires, ReadingPanics, Step, Live, Running, TypeOK
      <3>3. \A d \in closed \ {c} : Live(d)' <=> Live(d)
        BY <3>2 DEF Live, TypeOK, Collectors
      <3>4. CASE c \in closed /\ Live(c) /\ ~Live(c)'
        <4>1. {d \in closed' : Live(d)'} = {d \in closed : Live(d)} \ {c}
          BY <3>1, <3>3, <3>4 DEF mutexVars
        <4>2. Slot!Finish(c)
          BY <3>1, <3>4, <4>1 DEF Slot!Finish, mutexVars
        <4> QED BY <4>2 DEF Slot!Next
      <3>5. CASE ~(c \in closed /\ Live(c) /\ ~Live(c)')
        <4>1. {d \in closed' : Live(d)'} = {d \in closed : Live(d)}
          BY <3>1, <3>2, <3>3, <3>5 DEF mutexVars
        <4> QED BY <3>1, <4>1 DEF Slot!vars, mutexVars
      <3> QED BY <3>4, <3>5
    <2> QED BY <2>1, <2>2, <2>3, <2>4 DEF Next
  <1> QED BY <1>1, <1>2, InductiveInvariant, PTL
       DEF SafeSpec, Slot!SafeSpec, ImplementsSlot

-----------------------------------------------------------------------------
(* The process                                                             *)

LEMMA ServiceFixed == ServiceSafe => [](service \in Services)
  <1>1. ServiceInit => service \in Services
    BY DEF ServiceInit
  <1>2. service \in Services /\ [ServiceNext]_serviceVars => (service \in Services)'
    BY DEF ServiceNext, CollectorStep, TrackingStep, NetStep, FactoryStep, serviceVars
  <1> QED BY <1>1, <1>2, PTL DEF ServiceSafe

\* Whatever else goes on in the process, the collector in it behaves as
\* MetricsCollector says, so that everything proved of it holds there.
THEOREM CollectorInService == ServiceSafe => SafeSpec
  <1>1. ServiceInit => Init
    BY DEF ServiceInit
  <1>2. service \in Services /\ [ServiceNext]_serviceVars => [Next]_vars
    <2> SUFFICES ASSUME service \in Services, [ServiceNext]_serviceVars
                 PROVE  [Next]_vars
      OBVIOUS
    <2>1. CASE CollectorStep
      <3>1. CASE \E t \in service.ensures : Ensure(t)
        BY <3>1, ServicesAssumption DEF Next
      <3>2. CASE Stop
        BY <3>2 DEF Next
      <3>3. CASE \E c \in Collectors : Collector(c) \/ TickerFires(c) \/ ReadingPanics(c)
        BY <3>3 DEF Next
      <3> QED BY <2>1, <3>1, <3>2, <3>3 DEF CollectorStep
    <2>2. CASE TrackingStep \/ NetStep \/ FactoryStep
      BY <2>2 DEF TrackingStep, NetStep, FactoryStep
    <2>3. CASE UNCHANGED serviceVars
      BY <2>3 DEF serviceVars
    <2> QED BY <2>1, <2>2, <2>3 DEF ServiceNext
  <1> QED BY <1>1, <1>2, ServiceFixed, PTL DEF ServiceSafe, SafeSpec

\* And so does the metrics factory in it, as MetricsFactory says.
THEOREM FactoryInService == ServiceSafe => FactorySpec
  <1>1. ServiceInit => FactoryInit
    BY DEF ServiceInit
  <1>2. service \in Services /\ [ServiceNext]_serviceVars => [FactoryNext]_factoryVars
    <2> SUFFICES ASSUME service \in Services, [ServiceNext]_serviceVars
                 PROVE  [FactoryNext]_factoryVars
      OBVIOUS
    <2>1. CASE FactoryStep
      <3>1. service.records \subseteq Calls
        BY ServicesAssumption
      <3>2. PICK c \in Callers : Caller(c, service.records)
        BY <2>1 DEF FactoryStep
      <3>3. Caller(c, Calls)
        BY <3>1, <3>2 DEF Caller
      <3> QED BY <3>3 DEF FactoryNext
    <2>2. CASE CollectorStep \/ TrackingStep \/ NetStep
      BY <2>2 DEF CollectorStep, TrackingStep, NetStep
    <2>3. CASE UNCHANGED serviceVars
      BY <2>3 DEF serviceVars
    <2> QED BY <2>1, <2>2, <2>3 DEF ServiceNext
  <1> QED BY <1>1, <1>2, ServiceFixed, PTL DEF ServiceSafe, FactorySpec

-----------------------------------------------------------------------------
(* The global providers                                                    *)

\* An instance is in a global, or behind a stand-in, only once it set it; a
\* provider that any instance set is somebody's; and nobody was given a provider
\* of an instance before that set it.
GlobalsInv ==
  /\ applied \in [Instances -> 0..4]
  /\ global \in [Kinds -> Instances \cup {"nobody"}]
  /\ first \in [Kinds -> Instances \cup {"nobody"}]
  /\ fallback \in Instances \cup {"stand-in", "unmade"}
  /\ tracers \subseteq Instances \cup {"stand-in"}
  /\ \A i \in Instances : \A n \in 1..4 :
       /\ global[ApplyOrder[n]] = i \/ first[ApplyOrder[n]] = i => applied[i] >= n
       /\ applied[i] >= n => global[ApplyOrder[n]] # "nobody" /\ first[ApplyOrder[n]] # "nobody"
  /\ \A i \in Instances : i \in tracers => applied[i] >= 1
  /\ \A i \in Instances : fallback = i => applied[i] >= 2

LEMMA OrderOfKinds ==
  /\ \A n \in 1..4 : ApplyOrder[n] \in Kinds
  /\ \A m, n \in 1..4 : ApplyOrder[m] = ApplyOrder[n] => m = n
  /\ ApplyOrder[1] = "tracer" /\ ApplyOrder[2] = "meter"
  /\ \A k \in Kinds : \E n \in 1..4 : k = ApplyOrder[n]
  <1>1. \A n \in 1..4 : n = 1 \/ n = 2 \/ n = 3 \/ n = 4
    OBVIOUS
  <1> QED BY <1>1 DEF ApplyOrder, Kinds

\* A provider that is given out is a stand-in, or that of whoever set it last.
LEMMA ProviderGiven ==
  ASSUME GlobalsInv, NEW n \in 1..4
  PROVE  /\ Provider(ApplyOrder[n]) \in Instances \cup {"stand-in"}
         /\ \A i \in Instances : Provider(ApplyOrder[n]) = i => applied[i] >= n
  BY OrderOfKinds, InstancesAssumption DEF GlobalsInv, Provider

LEMMA GlobalsInit == TrackingInit => GlobalsInv
  BY OrderOfKinds, InstancesAssumption DEF TrackingInit, GlobalsInv

LEMMA SetProviderKeeps ==
  ASSUME GlobalsInv, NEW i \in Instances, SetProvider(i)
  PROVE  GlobalsInv'
  <1> DEFINE m == applied[i] + 1
             k == ApplyOrder[m]
  <1>1. m \in 1..4 /\ k \in Kinds /\ applied[i] \in 0..4
    BY OrderOfKinds DEF GlobalsInv, SetProvider
  <1>2. /\ applied' = [applied EXCEPT ![i] = m]
        /\ global' = [global EXCEPT ![k] = i]
        /\ first' = IF first[k] = "nobody" THEN [first EXCEPT ![k] = i] ELSE first
        /\ UNCHANGED <<fallback, tracers>>
    BY DEF SetProvider
  <1>3. /\ applied' \in [Instances -> 0..4]
        /\ global' \in [Kinds -> Instances \cup {"nobody"}]
        /\ first' \in [Kinds -> Instances \cup {"nobody"}]
    BY <1>1, <1>2 DEF GlobalsInv
  <1>4. \A j \in Instances : applied[j] \in 0..4 /\ applied'[j] \in 0..4 /\ applied'[j] >= applied[j]
    BY <1>1, <1>2 DEF GlobalsInv
  <1>5. ASSUME NEW j \in Instances, NEW n \in 1..4
        PROVE  /\ global'[ApplyOrder[n]] = j \/ first'[ApplyOrder[n]] = j => applied'[j] >= n
               /\ applied'[j] >= n =>
                    global'[ApplyOrder[n]] # "nobody" /\ first'[ApplyOrder[n]] # "nobody"
    <2>1. ApplyOrder[n] \in Kinds
      BY OrderOfKinds
    <2>2. CASE n = m
      <3>1. global'[k] = i /\ first'[k] # "nobody"
        BY <1>1, <1>2, <2>1, <2>2, InstancesAssumption DEF GlobalsInv
      <3>2. first[k] # "nobody" => first'[k] = first[k]
        BY <1>2
      <3>3. first'[k] = j => j = i \/ applied[j] >= m
        BY <1>1, <1>2, <2>2, <3>2 DEF GlobalsInv
      <3>4. applied'[i] = m
        BY <1>2 DEF GlobalsInv
      <3> HIDE DEF k, m
      <3>5. k = ApplyOrder[n]
        BY <2>2 DEF k
      <3>6. global'[k] = j \/ first'[k] = j => applied'[j] >= m
        BY <1>1, <1>4, <3>1, <3>3, <3>4
      <3> QED BY <2>2, <3>1, <3>5, <3>6, InstancesAssumption
    <2>3. CASE n # m
      <3>1. ApplyOrder[n] # k
        BY <1>1, <2>3, OrderOfKinds
      <3>2. /\ global'[ApplyOrder[n]] = global[ApplyOrder[n]]
            /\ first'[ApplyOrder[n]] = first[ApplyOrder[n]]
        BY <1>1, <1>2, <2>1, <3>1 DEF GlobalsInv
      <3>3. applied'[j] >= n => applied[j] >= n
        BY <1>1, <1>2, <2>3 DEF GlobalsInv
      <3> QED BY <1>4, <3>2, <3>3 DEF GlobalsInv
    <2> QED BY <2>2, <2>3
  <1>6. /\ \A j \in Instances : j \in tracers' => applied'[j] >= 1
        /\ \A j \in Instances : fallback' = j => applied'[j] >= 2
    BY <1>2, <1>4 DEF GlobalsInv
  <1> QED BY <1>2, <1>3, <1>5, <1>6 DEF GlobalsInv

LEMMA NewTrackingKeeps ==
  ASSUME GlobalsInv, NEW c, NewTracking(c)
  PROVE  GlobalsInv'
  <1>1. UNCHANGED <<global, first, applied>>
    BY DEF NewTracking
  <1>2. /\ Provider("tracer") \in Instances \cup {"stand-in"}
        /\ \A i \in Instances : Provider("tracer") = i => applied[i] >= 1
    BY ProviderGiven, OrderOfKinds
  <1>3. /\ Provider("meter") \in Instances \cup {"stand-in"}
        /\ \A i \in Instances : Provider("meter") = i => applied[i] >= 2
    BY ProviderGiven, OrderOfKinds
  <1>4. tracers' = tracers \cup {Provider("tracer")}
    BY DEF NewTracking
  <1>5. fallback' = fallback \/ fallback' = Provider("meter")
    BY DEF NewTracking, DefaultFactory
  <1>6. /\ tracers' \subseteq Instances \cup {"stand-in"}
        /\ \A i \in Instances : i \in tracers' => applied[i] >= 1
    BY <1>2, <1>4 DEF GlobalsInv
  <1>7. /\ fallback' \in Instances \cup {"stand-in", "unmade"}
        /\ \A i \in Instances : fallback' = i => applied[i] >= 2
    BY <1>3, <1>5 DEF GlobalsInv
  <1> QED BY <1>1, <1>6, <1>7 DEF GlobalsInv

LEMMA GlobalsInductive ==
  service \in Services /\ GlobalsInv /\ [ServiceNext]_serviceVars => GlobalsInv'
  <1> SUFFICES ASSUME service \in Services, GlobalsInv, [ServiceNext]_serviceVars
               PROVE  GlobalsInv'
    OBVIOUS
  <1>1. CASE CollectorStep \/ NetStep \/ FactoryStep \/ UNCHANGED serviceVars
    <2>1. UNCHANGED globalVars
      BY <1>1 DEF CollectorStep, NetStep, FactoryStep, serviceVars, trackingVars
    <2> QED BY <2>1 DEF GlobalsInv, globalVars
  <1>2. CASE TrackingStep
    <2>1. CASE \E i \in service.applies : SetProvider(i)
      BY <2>1, ServicesAssumption, SetProviderKeeps
    <2>2. CASE \E c \in 1..Len(contexts) : NewTracking(c)
      BY <2>2, NewTrackingKeeps
    <2>3. CASE UNCHANGED globalVars
      BY <2>3 DEF GlobalsInv, globalVars
    <2> QED BY <1>2, <2>1, <2>2, <2>3 DEF TrackingStep
  <1> QED BY <1>1, <1>2 DEF ServiceNext

\* With one instance applied, whatever is in a global or behind a stand-in is its.
LEMMA LoneInstance == GlobalsInv => LoneInstanceServesAll
  <1> SUFFICES ASSUME GlobalsInv, NEW i \in Instances, applied[i] = 4,
                      \A j \in Instances \ {i} : applied[j] = 0
               PROVE  /\ \A k \in Kinds : global[k] = i
                      /\ \A p \in tracers : LeadsTo("tracer", p) = i
                      /\ fallback # "unmade" => LeadsTo("meter", fallback) = i
    BY DEF LoneInstanceServesAll
  <1>1. ASSUME NEW n \in 1..4 PROVE global[ApplyOrder[n]] = i /\ first[ApplyOrder[n]] = i
    <2>1. /\ global[ApplyOrder[n]] \in Instances
          /\ first[ApplyOrder[n]] \in Instances
      BY OrderOfKinds DEF GlobalsInv
    <2>2. \A j \in Instances : j # i => ~(applied[j] >= n)
      OBVIOUS
    <2> QED BY <2>1, <2>2 DEF GlobalsInv
  <1>2. \A k \in Kinds : global[k] = i
    BY <1>1, OrderOfKinds
  <1>3. first["tracer"] = i /\ first["meter"] = i
    BY <1>1, OrderOfKinds
  <1>4. \A p \in tracers : p = i \/ p = "stand-in"
    BY DEF GlobalsInv
  <1>5. fallback # "unmade" => fallback = i \/ fallback = "stand-in"
    BY DEF GlobalsInv
  <1> QED BY <1>2, <1>3, <1>4, <1>5 DEF LeadsTo

\* For any number of instances and any contexts: once one Telemetry is global and
\* no other ever was, every tracer and factory that a context without values was
\* answered with leads to it.
THEOREM LoneInstanceServes == ServiceSafe => []LoneInstanceServesAll
  <1>1. ServiceInit => GlobalsInv
    BY GlobalsInit DEF ServiceInit
  <1>2. ServiceSafe => []GlobalsInv
    BY <1>1, GlobalsInductive, ServiceFixed, PTL DEF ServiceSafe
  <1> QED BY <1>2, LoneInstance, PTL

-----------------------------------------------------------------------------
(* net/http requests                                                       *)

RequestType == [url : URL, asked : URL, stash : {<<>>} \cup {<<u>> : u \in URL},
                clone : BOOLEAN, nested : BOOLEAN]
CallType    == [at : {"scrub", "instrument", "restore", "base"}, req : Nat, wraps : {0, 1}]

\* The span is named by a template once it may end, and says nothing of a caller
\* that is kept out; what the handler is told is either at hand or saved.
InboundInv ==
  /\ setup.blind \in BOOLEAN
  /\ inbound \in [at : {"awaited", "arrived", "blinded", "started", "routing", "handling",
                        "handled", "unwound"},
                  sent : SUBSET CallerInfo, caller : SUBSET CallerInfo,
                  saved : SUBSET CallerInfo, pattern : Routes \cup {None}]
  /\ server \in [path : Routes \cup {None, "concrete", "unmatched"}, route : Routes \cup {None},
                 caller : SUBSET CallerInfo, ended : BOOLEAN]
  /\ inbound.at = "unwound" => server.path \in Routes \cup {"unmatched"}
  /\ server.ended => inbound.at = "unwound"
  /\ setup.blind \/ inbound.at = "awaited" => server.caller = {}
  /\ inbound.at \in {"blinded", "started"} =>
       IF setup.blind THEN inbound.caller = {} /\ inbound.saved = inbound.sent
       ELSE inbound.caller = inbound.sent
  /\ inbound.at \in {"arrived", "routing", "handling"} => inbound.caller = inbound.sent

\* A transport's own request that has nothing to hide: its URL may be another's.
Astray(r) == r.nested /\ r.asked.hidden = {}

\* What a round trip still knows of the URL it was asked for, layer by layer.
Knows(layer, r) ==
  \/ Astray(r)
  \/ /\ layer = "scrub" /\ r.url = r.asked
     /\ r.url.hidden # {} \/ r.stash = <<>> \/ r.stash = <<r.asked>>
  \/ /\ layer \in {"instrument", "restore"}
     /\ r.stash = <<r.asked>> \/ (r.stash = <<>> /\ r.url = r.asked)
  \/ layer = "base" /\ r.url = r.asked

CallInv(c, rs) ==
  /\ c.req \in 1..Len(rs)
  /\ Knows(c.at, rs[c.req])
  /\ c.at \in {"instrument", "restore"} => rs[c.req].url.hidden = {}
  /\ c.at = "restore" => rs[c.req].clone

OutboundInv ==
  /\ requests \in Seq(RequestType)
  /\ calls \in Seq(CallType)
  /\ \A n \in 1..Len(calls) : CallInv(calls[n], requests)
  /\ \A m, n \in 1..Len(calls) : m < n => calls[m].req < calls[n].req
  /\ \A m, n \in 1..Len(calls) : m < n => calls[m].at = "base"
  /\ \A n \in 1..Len(requests) : ~requests[n].clone => requests[n].url = requests[n].asked
  /\ \A url \in client : url.hidden = {}
  /\ \A w \in wire : w.sent = w.asked \/ (w.nested /\ w.asked.hidden = {})

LEMMA NetStarts == NetInit => InboundInv /\ OutboundInv
  BY DEF NetInit, NoSetup, InboundInv, OutboundInv

LEMMA ServeKeeps == InboundInv /\ Serve => InboundInv'
  <1> SUFFICES ASSUME InboundInv, Serve PROVE InboundInv'
    OBVIOUS
  <1> USE NetHttpAssumption DEF InboundInv
  <1>1. CASE Arrive
    <2>1. setup' \in SetupType /\ UNCHANGED server /\ inbound.at = "awaited"
      BY <1>1 DEF Arrive
    <2>2. setup'.blind \in BOOLEAN
      BY <2>1 DEF SetupType
    <2>3. PICK who \in Arrivals :
            inbound' = [inbound EXCEPT !.at = "arrived", !.sent = who, !.caller = who]
      BY <1>1 DEF Arrive
    <2> QED BY <2>1, <2>2, <2>3
  <1>2. CASE Blind
    BY <1>2 DEF Blind, Serving
  <1>3. CASE StartSpan
    BY <1>3 DEF StartSpan, Serving
  <1>4. CASE Restore
    BY <1>4 DEF Restore, Serving
  <1>5. CASE Route
    <2>1. PICK pattern \in Routes \cup {None} :
            inbound' = [inbound EXCEPT !.at = "handling", !.pattern = pattern]
      BY <1>5 DEF Route
    <2>2. UNCHANGED <<setup, server>> /\ inbound.at = "routing"
      BY <1>5 DEF Route, Serving
    <2> QED BY <2>1, <2>2
  <1>6. CASE Handled
    BY <1>6 DEF Handled, Deferred, Serving
  <1>7. CASE NameRoute
    BY <1>7 DEF NameRoute, Template, Serving
  <1>8. CASE EndSpan
    BY <1>8 DEF EndSpan, Serving
  <1> QED BY <1>1, <1>2, <1>3, <1>4, <1>5, <1>6, <1>7, <1>8 DEF Serve

LEMMA CallFields ==
  ASSUME NEW c \in CallType
  PROVE  c.at \in {"scrub", "instrument", "restore", "base"} /\ c.req \in Nat
  BY DEF CallType

LEMMA MovedCall ==
  ASSUME NEW c \in CallType, NEW r \in Nat, NEW at \in {"scrub", "instrument", "restore", "base"}
  PROVE  /\ [c EXCEPT !.at = at, !.req = r] \in CallType
         /\ [c EXCEPT !.at = at, !.req = r].at = at
         /\ [c EXCEPT !.at = at, !.req = r].req = r
  BY DEF CallType

LEMMA InnermostCall ==
  ASSUME OutboundInv, calls # <<>>
  PROVE  /\ Len(calls) \in 1..Len(calls) /\ Len(requests) \in Nat
         /\ Innermost \in CallType /\ Innermost = calls[Len(calls)]
         /\ Innermost.req \in 1..Len(requests)
         /\ Knows(Innermost.at, Request)
         /\ Innermost.at \in {"instrument", "restore"} => Request.url.hidden = {}
         /\ Innermost.at = "restore" => Request.clone
         /\ Request \in RequestType /\ Request = requests[Innermost.req]
  <1>1. Len(calls) \in 1..Len(calls) /\ Len(requests) \in Nat
    BY DEF OutboundInv
  <1>2. Innermost \in CallType /\ Innermost = calls[Len(calls)] /\ CallInv(Innermost, requests)
    BY <1>1 DEF OutboundInv, Innermost
  <1>3. Innermost.req \in 1..Len(requests)
    BY <1>2 DEF CallInv
  <1>4. Request \in RequestType /\ Request = requests[Innermost.req]
    BY <1>3 DEF OutboundInv, Request
  <1> QED BY <1>1, <1>2, <1>3, <1>4 DEF CallInv

\* A round trip may go on as c, with another request, its own or a new one, as
\* long as that knows what it has to and no other round trip's request is touched.
Extends ==
  /\ requests' \in Seq(RequestType) /\ Len(requests') >= Len(requests)
  /\ \A n \in 1..Len(requests) : n # Innermost.req => requests'[n] = requests[n]
  /\ \A n \in 1..Len(requests') : ~requests'[n].clone => requests'[n].url = requests'[n].asked
  /\ \A url \in client' : url.hidden = {}
  /\ UNCHANGED wire
Continues(c) ==
  /\ calls' = [calls EXCEPT ![Len(calls)] = c]
  /\ c.req = Innermost.req \/ c.req > Len(requests)
  /\ CallInv(c, requests')

LEMMA GoesOn ==
  ASSUME OutboundInv, calls # <<>>, Extends, NEW c \in CallType, Continues(c)
  PROVE  OutboundInv'
  <1>1. /\ Len(calls) \in Nat \ {0} /\ Len(calls') = Len(calls) /\ Len(requests') \in Nat
        /\ calls' \in Seq(CallType) /\ calls'[Len(calls)] = c
        /\ \A n \in 1..Len(calls) : n # Len(calls) => calls'[n] = calls[n]
    BY DEF OutboundInv, Extends, Continues
  <1>2. /\ \A n \in 1..Len(calls) : CallInv(calls[n], requests)
        /\ \A n \in 1..Len(calls) : calls[n] \in CallType
    BY DEF OutboundInv
  <1>3. \A n \in 1..Len(calls) : calls[n].req \in Nat
    BY <1>2, CallFields
  <1>4. Innermost.req \in Nat /\ c.req \in Nat /\ Innermost = calls[Len(calls)]
    BY <1>1, <1>3, CallFields DEF Innermost
  <1>5. \A n \in 1..Len(calls) : n # Len(calls) =>
          n < Len(calls) /\ calls[n].req < Innermost.req /\ calls[n].at = "base"
    BY <1>1, <1>4 DEF OutboundInv
  <1>6. Len(requests) \in Nat /\ Innermost.req <= Len(requests)
    BY InnermostCall
  <1>7. ASSUME NEW n \in 1..Len(calls) PROVE CallInv(calls'[n], requests')
    <2>1. CASE n = Len(calls)
      BY <1>1, <2>1 DEF Continues
    <2>2. CASE n # Len(calls)
      <3>1. calls'[n] = calls[n] /\ CallInv(calls[n], requests) /\ calls[n].req # Innermost.req
        BY <1>1, <1>2, <1>3, <1>4, <1>5, <2>2
      <3>2. calls[n].req \in 1..Len(requests)
        BY <3>1 DEF CallInv
      <3>3. requests'[calls[n].req] = requests[calls[n].req] /\ calls[n].req \in 1..Len(requests')
        BY <1>6, <3>1, <3>2 DEF Extends
      <3> QED BY <3>1, <3>3 DEF CallInv
    <2> QED BY <2>1, <2>2
  <1>8. ASSUME NEW m \in 1..Len(calls), NEW n \in 1..Len(calls), m < n
        PROVE  calls'[m].at = "base" /\ calls'[m].req < calls'[n].req
    <2>1. m # Len(calls) /\ calls'[m] = calls[m] /\ calls[m].at = "base"
          /\ calls[m].req \in Nat /\ calls[m].req < Innermost.req
      BY <1>1, <1>3, <1>5, <1>8
    <2>2. CASE n = Len(calls)
      <3>1. c.req = Innermost.req \/ c.req > Len(requests)
        BY DEF Continues
      <3>2. calls'[n] = c
        BY <1>1, <2>2
      <3> QED BY <1>4, <1>6, <2>1, <3>1, <3>2
    <2>3. CASE n # Len(calls)
      <3>1. calls'[n] = calls[n] /\ calls[m].req < calls[n].req
        BY <1>1, <1>8, <2>3 DEF OutboundInv
      <3> QED BY <2>1, <3>1
    <2> QED BY <2>2, <2>3
  <1>9. \A w \in wire' : w.sent = w.asked \/ (w.nested /\ w.asked.hidden = {})
    BY DEF OutboundInv, Extends
  <1> QED BY <1>1, <1>7, <1>8, <1>9 DEF OutboundInv, Extends

\* A request that is added leaves those there are as they are.
LEMMA Added ==
  ASSUME OutboundInv, NEW q \in RequestType, requests' = Append(requests, q),
         q.clone \/ q.url = q.asked
  PROVE  /\ Len(requests) \in Nat
         /\ requests' \in Seq(RequestType) /\ Len(requests') = Len(requests) + 1
         /\ requests'[Len(requests) + 1] = q
         /\ \A n \in 1..Len(requests) : requests'[n] = requests[n]
         /\ \A n \in 1..Len(requests') : ~requests'[n].clone => requests'[n].url = requests'[n].asked
  <1>1. /\ Len(requests) \in Nat
        /\ requests' \in Seq(RequestType) /\ Len(requests') = Len(requests) + 1
        /\ requests'[Len(requests) + 1] = q
        /\ \A n \in 1..Len(requests) : requests'[n] = requests[n]
    BY DEF OutboundInv
  <1> QED BY <1>1 DEF OutboundInv

LEMMA RoundTripKeeps == OutboundInv /\ RoundTrip => OutboundInv'
  <1> SUFFICES ASSUME OutboundInv, RoundTrip PROVE OutboundInv'
    OBVIOUS
  <1>1. CASE HandlerAsks
    <2>1. PICK url \in URLs : requests' = <<Asked(url, <<>>)>>
      BY <1>1 DEF HandlerAsks
    <2>2. url \in URL
      BY NetHttpAssumption
    <2>3. calls = <<>> /\ calls' = <<RoundTripOf(1)>> /\ client' = {} /\ wire' = {}
      BY <1>1 DEF HandlerAsks
    <2> DEFINE q == Asked(url, <<>>)
               c == RoundTripOf(1)
    <2>4. q \in RequestType /\ ~q.clone /\ q.url = q.asked /\ q.stash = <<>>
      BY <2>2, <2>3 DEF Asked, RequestType
    <2>5. c \in CallType /\ c.at = "scrub" /\ c.req = 1
      BY DEF RoundTripOf, CallType
    <2>6. Knows(c.at, q)
      BY <2>4, <2>5 DEF Knows
    <2> HIDE DEF q, c
    <2>7. requests' \in Seq(RequestType) /\ Len(requests') = 1 /\ requests'[1] = q
      BY <2>1, <2>4 DEF q
    <2>8. calls' \in Seq(CallType) /\ Len(calls') = 1 /\ calls'[1] = c
      BY <2>3, <2>5 DEF c
    <2>9. \A n \in 1..Len(calls') : CallInv(calls'[n], requests')
      BY <2>5, <2>6, <2>7, <2>8 DEF CallInv
    <2> QED BY <2>3, <2>4, <2>7, <2>8, <2>9 DEF OutboundInv
  <1>2. CASE BaseAsks
    <2>1. calls # <<>> /\ Innermost.at = "base"
      BY <1>2 DEF BaseAsks, At
    <2>2. PICK url \in URLs : requests' = Append(requests, Asked(url, Request.stash))
      BY <1>2 DEF BaseAsks, Adds
    <2> DEFINE q == Asked(url, Request.stash)
               c == RoundTripOf(Len(requests) + 1)
    <2>3. q \in RequestType /\ q.url = q.asked /\ q.nested
      BY <2>1, InnermostCall, NetHttpAssumption DEF Asked, RequestType
    <2>4. Knows("scrub", q)
      BY <2>3 DEF Knows, Astray
    <2>5. calls' = Append(calls, c) /\ UNCHANGED <<client, wire>>
      BY <1>2 DEF BaseAsks
    <2>6. c \in CallType /\ c.at = "scrub" /\ c.req = Len(requests) + 1
      BY <2>1, InnermostCall DEF RoundTripOf, CallType
    <2> HIDE DEF q, c
    <2>7. /\ Len(calls) \in Nat /\ Len(calls') = Len(calls) + 1
          /\ calls' \in Seq(CallType) /\ calls'[Len(calls) + 1] = c
          /\ \A n \in 1..Len(calls) : calls'[n] = calls[n]
      BY <2>5, <2>6 DEF OutboundInv
    <2>8. /\ Len(requests) \in Nat
          /\ requests' \in Seq(RequestType) /\ Len(requests') = Len(requests) + 1
          /\ requests'[Len(requests) + 1] = q
          /\ \A n \in 1..Len(requests) : requests'[n] = requests[n]
          /\ \A n \in 1..Len(requests') : ~requests'[n].clone => requests'[n].url = requests'[n].asked
      BY <2>2, <2>3, Added DEF q
    <2>9. \A n \in 1..Len(calls) : CallInv(calls[n], requests') /\ calls[n].req \in 1..Len(requests)
      BY <2>8 DEF OutboundInv, CallInv
    <2>10. CallInv(c, requests')
      BY <2>4, <2>6, <2>8 DEF CallInv
    <2>11. \A n \in 1..Len(calls) : calls[n].at = "base"
      BY <2>1, <2>7 DEF OutboundInv, Innermost
    <2>12. \A n \in 1..Len(calls') : CallInv(calls'[n], requests')
      BY <2>7, <2>9, <2>10
    <2>13. \A m, n \in 1..Len(calls') : m < n => calls'[m].at = "base"
      BY <2>7, <2>11
    <2>14. \A m, n \in 1..Len(calls') : m < n => calls'[m].req < calls'[n].req
      <3> SUFFICES ASSUME NEW m \in 1..Len(calls'), NEW n \in 1..Len(calls'), m < n
                   PROVE  calls'[m].req < calls'[n].req
        OBVIOUS
      <3>1. m \in 1..Len(calls) /\ calls'[m] = calls[m] /\ calls[m].req \in 1..Len(requests)
        BY <2>7, <2>9
      <3>2. CASE n = Len(calls) + 1
        BY <2>6, <2>7, <2>8, <3>1, <3>2
      <3>3. CASE n # Len(calls) + 1
        <4>1. n \in 1..Len(calls) /\ calls'[n] = calls[n]
          BY <2>7, <3>3
        <4> QED BY <3>1, <4>1 DEF OutboundInv
      <3> QED BY <3>2, <3>3
    <2> QED BY <2>5, <2>7, <2>8, <2>12, <2>13, <2>14 DEF OutboundInv
  <1>3. CASE ScrubURL
    <2>1. calls # <<>> /\ Innermost.at = "scrub" /\ UNCHANGED <<client, wire>>
      BY <1>3 DEF ScrubURL, At
    <2>2. CASE Request.url.hidden # {} /\ Scrub
      <3> DEFINE q == [Request EXCEPT !.url.hidden = {}, !.stash = <<Request.url>>, !.clone = TRUE]
                 c == [Innermost EXCEPT !.at = "instrument", !.req = Len(requests) + 1]
      <3>1. requests' = Append(requests, q)
        BY <2>2 DEF Scrub, Adds
      <3>2. calls' = [calls EXCEPT ![Len(calls)] = c]
        BY <2>1, <2>2, InnermostCall DEF Scrub, Passes, OutboundInv, CallType
      <3>3. /\ q \in RequestType /\ q.clone /\ q.url.hidden = {} /\ q.stash = <<Request.url>>
            /\ q.asked = Request.asked /\ q.nested = Request.nested
        BY <2>1, InnermostCall DEF RequestType, URL
      <3>4. Knows("instrument", q)
        BY <2>1, <3>3, InnermostCall DEF Knows, Astray
      <3>9. Innermost \in CallType /\ Len(requests) + 1 \in Nat
        BY <2>1, InnermostCall
      <3>5. c \in CallType /\ c.at = "instrument" /\ c.req = Len(requests) + 1
        BY <3>9, MovedCall
      <3> HIDE DEF q, c
      <3>6. CallInv(c, requests')
        BY <3>1, <3>3, <3>4, <3>5, Added DEF CallInv
      <3>7. /\ Len(requests) \in Nat
            /\ requests' \in Seq(RequestType) /\ Len(requests') = Len(requests) + 1
            /\ \A n \in 1..Len(requests) : requests'[n] = requests[n]
            /\ \A n \in 1..Len(requests') : ~requests'[n].clone => requests'[n].url = requests'[n].asked
        BY <3>1, <3>3, Added
      <3>8. Len(requests') >= Len(requests) /\ c.req > Len(requests) /\ \A url \in client' : url.hidden = {}
        BY <2>1, <3>5, <3>7 DEF OutboundInv
      <3> QED BY <2>1, <3>2, <3>5, <3>6, <3>7, <3>8, GoesOn DEF Extends, Continues
    <2>3. CASE Request.url.hidden = {} /\ Passes("instrument", Innermost.req) /\ UNCHANGED requests
      <3> DEFINE c == [Innermost EXCEPT !.at = "instrument"]
      <3>1. calls' = [calls EXCEPT ![Len(calls)] = c]
        BY <2>1, <2>3, InnermostCall DEF Passes, OutboundInv, CallType
      <3>2. c \in CallType /\ c.at = "instrument" /\ c.req = Innermost.req
        BY <2>1, InnermostCall DEF CallType
      <3>3. Knows("instrument", Request)
        BY <2>1, <2>3, InnermostCall DEF Knows
      <3> HIDE DEF c
      <3>4. CallInv(c, requests')
        BY <2>1, <2>3, <3>2, <3>3, InnermostCall DEF CallInv
      <3> QED BY <2>1, <2>3, <3>1, <3>2, <3>4, InnermostCall, GoesOn DEF OutboundInv
    <2> QED BY <1>3, <2>2, <2>3 DEF ScrubURL
  <1>4. CASE Instrument
    <2>1. calls # <<>> /\ Innermost.at = "instrument" /\ client' = client \cup {Request.url} /\ UNCHANGED wire
      BY <1>4 DEF Instrument, At
    <2> DEFINE q == [Request EXCEPT !.clone = TRUE]
               c == [Innermost EXCEPT !.at = "restore", !.req = Len(requests) + 1]
    <2>2. requests' = Append(requests, q)
      BY <1>4 DEF Instrument, Adds
    <2>3. calls' = [calls EXCEPT ![Len(calls)] = c]
      BY <1>4, <2>1, InnermostCall DEF Instrument, Passes, OutboundInv, CallType
    <2>4. /\ q \in RequestType /\ q.clone /\ q.url = Request.url /\ q.stash = Request.stash
          /\ q.asked = Request.asked /\ q.nested = Request.nested
      BY <2>1, InnermostCall DEF RequestType
    <2>5. Knows("restore", q) /\ q.url.hidden = {} /\ \A url \in client' : url.hidden = {}
      BY <2>1, <2>4, InnermostCall DEF Knows, Astray, OutboundInv
    <2>10. Innermost \in CallType /\ Len(requests) + 1 \in Nat
      BY <2>1, InnermostCall
    <2>6. c \in CallType /\ c.at = "restore" /\ c.req = Len(requests) + 1
      BY <2>10, MovedCall
    <2> HIDE DEF q, c
    <2>7. CallInv(c, requests')
      BY <2>2, <2>4, <2>5, <2>6, Added DEF CallInv
    <2>8. /\ Len(requests) \in Nat
          /\ requests' \in Seq(RequestType) /\ Len(requests') = Len(requests) + 1
          /\ \A n \in 1..Len(requests) : requests'[n] = requests[n]
          /\ \A n \in 1..Len(requests') : ~requests'[n].clone => requests'[n].url = requests'[n].asked
      BY <2>2, <2>4, Added
    <2>9. Len(requests') >= Len(requests) /\ c.req > Len(requests)
      BY <2>6, <2>8
    <2> QED BY <2>1, <2>3, <2>5, <2>6, <2>7, <2>8, <2>9, GoesOn DEF Extends, Continues
  <1>5. CASE RestoreURL
    <2>1. calls # <<>> /\ Innermost.at = "restore" /\ UNCHANGED <<client, wire>>
      BY <1>5 DEF RestoreURL, At
    <2> DEFINE q == [Request EXCEPT !.url = IF Request.stash = <<>> THEN @ ELSE Request.stash[1]]
               c == [Innermost EXCEPT !.at = IF Innermost.wraps > 0 THEN "scrub" ELSE "base", !.wraps = 0]
    <2>2. requests' = [requests EXCEPT ![Innermost.req] = q]
      BY <1>5, <2>1, InnermostCall DEF RestoreURL, RequestType, OutboundInv
    <2>3. calls' = [calls EXCEPT ![Len(calls)] = c]
      BY <1>5, <2>1, InnermostCall DEF RestoreURL, OutboundInv, CallType
    <2>4. /\ q \in RequestType /\ q.clone /\ q.stash = Request.stash
          /\ q.asked = Request.asked /\ q.nested = Request.nested
          /\ q.url = IF Request.stash = <<>> THEN Request.url ELSE Request.stash[1]
      BY <2>1, InnermostCall DEF RequestType
    <2>6. c \in CallType /\ c.at \in {"scrub", "base"} /\ c.req = Innermost.req
      BY <2>1, InnermostCall DEF CallType
    <2>12. Knows("restore", Request)
      BY <2>1, InnermostCall
    <2> HIDE DEF q, c
    <2>13. ASSUME Request.stash = <<Request.asked>> PROVE Knows("scrub", q) /\ Knows("base", q)
      <3>1. q.url = Request.asked /\ q.stash = <<q.asked>>
        BY <2>4, <2>13
      <3> QED BY <2>4, <3>1 DEF Knows
    <2>14. ASSUME Request.stash = <<>>, Request.url = Request.asked
           PROVE  Knows("scrub", q) /\ Knows("base", q)
      BY <2>4, <2>14 DEF Knows
    <2>15. ASSUME Astray(Request) PROVE Knows("scrub", q) /\ Knows("base", q)
      BY <2>4, <2>15 DEF Knows, Astray
    <2>10. Knows("scrub", q) /\ Knows("base", q)
      BY <2>12, <2>13, <2>14, <2>15 DEF Knows
    <2>7. /\ requests' \in Seq(RequestType) /\ Len(requests') = Len(requests)
          /\ requests'[Innermost.req] = q
          /\ \A n \in 1..Len(requests) : n # Innermost.req => requests'[n] = requests[n]
      BY <2>1, <2>2, <2>4, InnermostCall DEF OutboundInv
    <2>8. CallInv(c, requests')
      BY <2>1, <2>6, <2>7, <2>10, InnermostCall DEF CallInv
    <2>9. \A n \in 1..Len(requests') : ~requests'[n].clone => requests'[n].url = requests'[n].asked
      BY <2>4, <2>7 DEF OutboundInv
    <2>11. Len(requests') >= Len(requests) /\ \A url \in client' : url.hidden = {}
      BY <2>1, <2>7, InnermostCall DEF OutboundInv
    <2> QED BY <2>1, <2>3, <2>6, <2>7, <2>8, <2>9, <2>11, GoesOn DEF Extends, Continues
  <1>6. CASE Send
    <2>1. calls # <<>> /\ Innermost.at = "base" /\ UNCHANGED <<requests, client>>
      BY <1>6 DEF Send, At
    <2>2. calls' = SubSeq(calls, 1, Len(calls) - 1)
      BY <1>6 DEF Send
    <2>7. calls \in Seq(CallType) /\ Len(calls) \in 1..Len(calls)
      BY <2>1, InnermostCall DEF OutboundInv
    <2>3. /\ Len(calls) \in Nat \ {0} /\ Len(calls') = Len(calls) - 1 /\ calls' \in Seq(CallType)
          /\ \A n \in 1..Len(calls') : calls'[n] = calls[n] /\ n \in 1..Len(calls)
      <3>1. \A n \in 1..(Len(calls) - 1) : calls[n] \in CallType /\ n \in 1..Len(calls)
        BY <2>7
      <3>2. /\ calls' \in Seq(CallType)
            /\ Len(calls') = IF 1 <= Len(calls) - 1 THEN Len(calls) - 1 - 1 + 1 ELSE 0
            /\ \A n \in 1..(Len(calls) - 1 - 1 + 1) : calls'[n] = calls[1 + n - 1]
        BY <2>2, <2>7, <3>1, SubSeqProperties
      <3>5. Len(calls) \in Nat /\ Len(calls) >= 1
        BY <2>7
      <3>6. /\ 1 <= Len(calls) - 1 => Len(calls') = Len(calls) - 1 - 1 + 1
            /\ ~(1 <= Len(calls) - 1) => Len(calls') = 0
        BY <3>2
      <3>3. Len(calls') = Len(calls) - 1
        BY <3>5, <3>6
      <3>4. \A n \in 1..(Len(calls) - 1) : calls'[n] = calls[n]
        BY <2>7, <3>2
      <3> QED BY <2>7, <3>1, <3>2, <3>3, <3>4, <3>5
    <2>4. wire' = wire \cup {[asked |-> Request.asked, sent |-> Request.url, nested |-> Request.nested]}
      BY <1>6 DEF Send
    <2>5. \A w \in wire' : w.sent = w.asked \/ (w.nested /\ w.asked.hidden = {})
      BY <2>1, <2>4, InnermostCall DEF OutboundInv, Knows, Astray
    <2>6. \A n \in 1..Len(calls') : CallInv(calls'[n], requests')
      BY <2>1, <2>3 DEF OutboundInv, CallInv
    <2> QED BY <2>1, <2>3, <2>5, <2>6 DEF OutboundInv
  <1> QED BY <1>1, <1>2, <1>3, <1>4, <1>5, <1>6 DEF RoundTrip

LEMMA NetInductive ==
  InboundInv /\ OutboundInv /\ [ServiceNext]_serviceVars => (InboundInv /\ OutboundInv)'
  <1> SUFFICES ASSUME InboundInv, OutboundInv, [ServiceNext]_serviceVars
               PROVE  InboundInv' /\ OutboundInv'
    OBVIOUS
  <1>1. CASE UNCHANGED netVars
    BY <1>1 DEF netVars, InboundInv, OutboundInv, CallInv
  <1>2. CASE Serve
    <2>1. UNCHANGED <<requests, calls, client, wire>>
      BY <1>2 DEF Serve, Serving, Arrive, Blind, StartSpan, Restore, Route, Handled, NameRoute, EndSpan
    <2>2. OutboundInv'
      BY <2>1 DEF OutboundInv, CallInv
    <2> QED BY <1>2, <2>2, ServeKeeps
  <1>3. CASE RoundTrip
    <2>1. UNCHANGED <<setup, inbound, server>>
      BY <1>3 DEF RoundTrip, Calling, HandlerAsks, BaseAsks, ScrubURL, Instrument, RestoreURL, Send
    <2>2. InboundInv'
      BY <2>1 DEF InboundInv
    <2> QED BY <1>3, <2>2, RoundTripKeeps
  <1> QED BY <1>1, <1>2, <1>3 DEF ServiceNext, CollectorStep, TrackingStep, NetStep, FactoryStep, NetNext, serviceVars

LEMMA NetInvariant == ServiceSafe => [](InboundInv /\ OutboundInv)
  <1>1. ServiceInit => InboundInv /\ OutboundInv
    BY NetStarts DEF ServiceInit
  <1> QED BY <1>1, NetInductive, PTL DEF ServiceSafe

\* For any URLs, routes and callers, and transports that call one another to any
\* depth: no span is exported with what it may not carry.
THEOREM SpansAreClean == ServiceSafe => []ExportedIsClean
  <1>1. InboundInv /\ OutboundInv => ExportedIsClean
    BY DEF InboundInv, OutboundInv, ExportedIsClean
  <1> QED BY <1>1, NetInvariant, PTL

\* And nothing of what was taken out of a request is missing below, but for a
\* transport's own request that had nothing to hide.
THEOREM RequestsAreWhole == ServiceSafe => []RequestsArriveWhole
  <1>1. InboundInv /\ OutboundInv => RequestsArriveWhole
    BY DEF InboundInv, OutboundInv, RequestsArriveWhole
  <1> QED BY <1>1, NetInvariant, PTL

-----------------------------------------------------------------------------
(* Contexts                                                                *)

\* What is on the heap.
Marks       == {Unset} \cup {u.to : u \in Updates}
Slices      == [array : Addresses, len : Nat]
Objects     == [header : Marks, factory : Marks, bag : Slices]
Entries     == Attributes \cup {Free} \cup {[key |-> k, val |-> "ingress"] : k \in Keys}
Derivations == [at : {"header", "factory", "merge", "replace", "written"},
                attrs : Seq(Attributes), to : Marks]

\* The value of key k among the first n entries of t, as Lookup reads it.
EntryOf(t, n, k) ==
  CASE {m \in 1..n : t[m].key = k} = {} -> Unset
    [] \E i \in {m \in 1..n : t[m].key = k} : {m \in 1..n : t[m].key = k} = {i} ->
         t[CHOOSE i \in {m \in 1..n : t[m].key = k} : TRUE].val
    [] OTHER -> "ambiguous"

\* What an object says whose bag lies in array t.
ValueOf(o, t) == [header |-> o.header, factory |-> o.factory,
                  bag |-> [k \in Keys |-> EntryOf(t, o.bag.len, k)]]

\* A bag is empty or lies in the array at its object's own address, and has one
\* entry for a key.
OneEach(t, n) == \A i, j \in 1..n : t[i].key = t[j].key => i = j
GoodBag(a, o, t) ==
  \/ o.bag = NilSlice
  \/ o.bag.array = a /\ o.bag.len \in 1..Len(t) /\ OneEach(t, o.bag.len)

\* What key k has after the first i of attrs were merged over otherwise.
Given(attrs, i, k, otherwise, val) ==
  \/ (\A n \in 1..i : attrs[n].key # k) /\ val = otherwise
  \/ \E n \in 1..i : /\ attrs[n].key = k /\ val = attrs[n].val
                     /\ \A m \in n + 1..i : attrs[m].key # k

\* A derivation d by update u from a context that says from is under way, and what
\* it is building says now.
Stage(d, now, u, from) ==
  \/ /\ d.at = "written" /\ d.attrs = <<>>
     /\ now = Contexts!Updated(from, u)
  \/ /\ d.at = u.op /\ u.op # "merge" /\ d.attrs = u.attrs /\ d.to = u.to
     /\ now = from
  \/ /\ d.at = "merge" /\ u.op = "merge"
     /\ now.header = from.header /\ now.factory = from.factory
     /\ \E i \in 0..Len(u.attrs) :
          /\ i + Len(d.attrs) = Len(u.attrs)
          /\ \A n \in 1..Len(d.attrs) : d.attrs[n] = u.attrs[i + n]
          /\ \A k \in Keys : Given(u.attrs, i, k, from.bag[k], now.bag[k])

DerivingInv(g) == deriving[g] # Idle =>
  /\ made[g] < MaxContexts
  /\ \E u \in Updates, p \in 1..Len(contexts) :
       Stage(deriving[g], Value(Fresh(g)), u, Value(contexts[p]))

\* Nobody but g knows an address of g's until the context there is published.
HeapType ==
  /\ objects \in [Addresses -> Objects] /\ arrays \in [Addresses -> Seq(Entries)]
  /\ arrays[Nil] = <<>>
  /\ \A a \in Addresses : GoodBag(a, objects[a], arrays[a])
  /\ contexts \in Seq(Addresses) /\ Len(contexts) >= 1
  /\ made \in [Goroutines -> Nat]
  /\ \A g \in Goroutines : made[g] < Len(contexts)
  /\ \A c \in 1..Len(contexts) : contexts[c] = Ingress
       \/ \E g \in Goroutines : \E n \in 1..made[g] : contexts[c] = Address(g, n)
  /\ deriving \in [Goroutines -> Derivations \cup {Idle}]

HeapInv == HeapType /\ \A g \in Goroutines : DerivingInv(g)

\* Addresses are told apart by who allocates and by how much there was before.
LEMMA AddressFacts ==
  ASSUME HeapType
  PROVE  /\ Ingress \in Addresses /\ Nil \in Addresses /\ Ingress # Nil
         /\ \A g \in Goroutines : made[g] \in Nat /\ Fresh(g) # Nil
         /\ \A g \in Goroutines : made[g] < MaxContexts => Fresh(g) \in Addresses
         /\ \A g, h \in Goroutines : g # h => Fresh(g) # Fresh(h)
         /\ \A g \in Goroutines, c \in 1..Len(contexts) :
              contexts[c] \in Addresses /\ contexts[c] # Nil /\ contexts[c] # Fresh(g)
<1>1. \A g \in Goroutines : made[g] \in Nat  BY DEF HeapType
<1>2. Ingress \in Addresses /\ Nil \in Addresses /\ Ingress # Nil
  BY DEF Addresses, Ingress, Nil, Address
<1>3. \A g, n : Address(g, n).by = g /\ Address(g, n).n = n
  BY DEF Address
<1>4. \A g \in Goroutines : Fresh(g) # Nil /\ Fresh(g) # Ingress
  BY <1>1, <1>3 DEF Fresh, Nil, Ingress
<1>5. ASSUME NEW g \in Goroutines, made[g] < MaxContexts PROVE Fresh(g) \in Addresses
  <2>1. made[g] + 1 \in 1..MaxContexts  BY <1>1, <1>5, ContextAssumption
  <2> QED  BY <2>1 DEF Addresses, Fresh
<1>6. ASSUME NEW g \in Goroutines, NEW h \in Goroutines, g # h PROVE Fresh(g) # Fresh(h)
  BY <1>3, <1>6 DEF Fresh
<1>7. ASSUME NEW g \in Goroutines, NEW c \in 1..Len(contexts)
      PROVE  contexts[c] \in Addresses /\ contexts[c] # Nil /\ contexts[c] # Fresh(g)
  <2>1. contexts[c] \in Addresses  BY DEF HeapType
  <2>2. CASE contexts[c] = Ingress  BY <1>2, <1>4, <2>1, <2>2
  <2>3. CASE \E h \in Goroutines : \E n \in 1..made[h] : contexts[c] = Address(h, n)
    <3>1. PICK h \in Goroutines : \E n \in 1..made[h] : contexts[c] = Address(h, n)  BY <2>3
    <3>2. PICK n \in 1..made[h] : contexts[c] = Address(h, n)  BY <3>1
    <3>3. n \in Nat /\ n >= 1 /\ n <= made[h]  BY <1>1
    <3>4. contexts[c] # Nil  BY <1>3, <3>2, <3>3 DEF Nil
    <3>5. contexts[c] # Fresh(g)
      <4>1. SUFFICES ASSUME contexts[c] = Fresh(g) PROVE FALSE  OBVIOUS
      <4>2. Address(h, n) = Address(g, made[g] + 1)  BY <3>2, <4>1 DEF Fresh
      <4>3. h = g /\ n = made[g] + 1  BY <1>3, <4>2
      <4> QED  BY <1>1, <3>3, <4>3
    <3> QED  BY <2>1, <3>4, <3>5
  <2> QED  BY <2>2, <2>3 DEF HeapType
<1> QED  BY <1>1, <1>2, <1>4, <1>5, <1>6, <1>7

\* A key that no entry has has no value.
LEMMA NoEntry ==
  ASSUME NEW t, NEW n, n \in Nat, NEW k, \A m \in 1..n : t[m].key # k
  PROVE  EntryOf(t, n, k) = Unset
<1>1. {m \in 1..n : t[m].key = k} = {}  OBVIOUS
<1> QED  BY <1>1 DEF EntryOf

\* A key that one entry has has its value.
LEMMA OneEntry ==
  ASSUME NEW t, NEW n, n \in Nat, NEW k, NEW i \in 1..n, t[i].key = k, OneEach(t, n)
  PROVE  EntryOf(t, n, k) = t[i].val
<1> DEFINE S == {m \in 1..n : t[m].key = k}
<1>1. S = {i}  BY DEF OneEach
<1>2. \E j \in S : S = {j}  BY <1>1
<1>3. S # {}  BY <1>1
<1>4. (CHOOSE j \in S : TRUE) = i  BY <1>1
<1> QED  BY <1>2, <1>3, <1>4 DEF EntryOf

\* Only the first n entries count.
LEMMA SameEntries ==
  ASSUME NEW s, NEW t, NEW n, n \in Nat, NEW k, \A m \in 1..n : s[m] = t[m]
  PROVE  EntryOf(s, n, k) = EntryOf(t, n, k)
<1> DEFINE S == {m \in 1..n : s[m].key = k}
           T == {m \in 1..n : t[m].key = k}
<1>1. S = T  OBVIOUS
<1>2. CASE \E i \in T : T = {i}
  <2>1. (CHOOSE i \in S : TRUE) = (CHOOSE i \in T : TRUE)  BY <1>1
  <2>2. (CHOOSE i \in T : TRUE) \in T  BY <1>2
  <2>3. s[CHOOSE i \in S : TRUE].val = t[CHOOSE i \in T : TRUE].val  BY <2>1, <2>2
  <2> QED  BY <1>1, <1>2, <2>3 DEF EntryOf
<1>3. CASE ~\E i \in T : T = {i}  BY <1>1, <1>3 DEF EntryOf
<1> QED  BY <1>2, <1>3

\* What an object says, it says by the array at its address.
LEMMA EntryThere ==
  ASSUME NEW heap, NEW a, NEW o \in Objects, GoodBag(a, o, heap[a]), NEW k
  PROVE  EntryOf(heap[o.bag.array], o.bag.len, k) = EntryOf(heap[a], o.bag.len, k)
<1>1. o.bag.len \in Nat  BY DEF Objects, Slices
<1>2. CASE o.bag = NilSlice
  <2>1. o.bag.len = 0  BY <1>2 DEF NilSlice
  <2>2. EntryOf(heap[o.bag.array], 0, k) = Unset /\ EntryOf(heap[a], 0, k) = Unset
    BY NoEntry
  <2> QED  BY <2>1, <2>2
<1>3. CASE o.bag.array = a  BY <1>3
<1> QED  BY <1>2, <1>3 DEF GoodBag

LEMMA ValueThere ==
  ASSUME HeapType, NEW a \in Addresses
  PROVE  Value(a) = ValueOf(objects[a], arrays[a])
<1>1. objects[a] \in Objects /\ GoodBag(a, objects[a], arrays[a])  BY DEF HeapType
<1>2. ASSUME NEW k \in Keys
      PROVE  Lookup(objects[a].bag, k) = EntryOf(arrays[a], objects[a].bag.len, k)
  <2>1. Lookup(objects[a].bag, k)
          = EntryOf(arrays[objects[a].bag.array], objects[a].bag.len, k)
    BY DEF Lookup, EntryOf, Position
  <2> QED  BY <1>1, <2>1, EntryThere
<1> QED  BY <1>2 DEF Value, ValueOf

LEMMA ValueThereNext ==
  ASSUME HeapType', NEW a \in Addresses
  PROVE  Value(a)' = ValueOf(objects'[a], arrays'[a])
<1>1. objects'[a] \in Objects /\ GoodBag(a, objects'[a], arrays'[a])  BY DEF HeapType
<1>2. ASSUME NEW k \in Keys
      PROVE  Lookup(objects[a].bag, k)' = EntryOf(arrays'[a], objects'[a].bag.len, k)
  <2>1. Lookup(objects[a].bag, k)'
          = EntryOf(arrays'[objects'[a].bag.array], objects'[a].bag.len, k)
    BY DEF Lookup, EntryOf, Position
  <2> QED  BY <1>1, <2>1, EntryThere
<1> QED  BY <1>2 DEF Value, ValueOf

\* What one step of goroutine g does, short of publishing: it writes at its own
\* address, and what it is building stays as far as the derivation is.
Builds(g) ==
  /\ made[g] < MaxContexts /\ UNCHANGED <<contexts, made>>
  /\ \E o \in Objects, t \in Seq(Entries), d \in Derivations :
       /\ GoodBag(Fresh(g), o, t)
       /\ objects' = [objects EXCEPT ![Fresh(g)] = o]
       /\ arrays' = [arrays EXCEPT ![Fresh(g)] = t]
       /\ deriving' = [deriving EXCEPT ![g] = d]
       /\ \E u \in Updates, p \in 1..Len(contexts) :
            Stage(d, ValueOf(o, t), u, Value(contexts[p]))

\* What nobody writes to says what it said.
LEMMA ValueStands ==
  ASSUME HeapType, HeapType', NEW a \in Addresses,
         objects'[a] = objects[a], arrays'[a] = arrays[a]
  PROVE  Value(a)' = Value(a)
<1>1. Value(a) = ValueOf(objects[a], arrays[a])  BY ValueThere
<1>2. Value(a)' = ValueOf(objects'[a], arrays'[a])  BY ValueThereNext
<1> QED  BY <1>1, <1>2

LEMMA BuildsType ==
  ASSUME HeapType, NEW g \in Goroutines, Builds(g) PROVE HeapType'
<1>1. PICK o \in Objects, t \in Seq(Entries), d \in Derivations :
        /\ GoodBag(Fresh(g), o, t)
        /\ objects' = [objects EXCEPT ![Fresh(g)] = o]
        /\ arrays' = [arrays EXCEPT ![Fresh(g)] = t]
        /\ deriving' = [deriving EXCEPT ![g] = d]
  BY DEF Builds
<1>2. Fresh(g) \in Addresses /\ Fresh(g) # Nil  BY AddressFacts DEF Builds
<1>3. objects' \in [Addresses -> Objects] /\ arrays' \in [Addresses -> Seq(Entries)]
  BY <1>1, <1>2 DEF HeapType
<1>4. arrays'[Nil] = <<>>  BY <1>1, <1>2, AddressFacts DEF HeapType
<1>5. \A a \in Addresses : GoodBag(a, objects'[a], arrays'[a])
  BY <1>1, <1>2 DEF HeapType
<1>6. deriving' \in [Goroutines -> Derivations \cup {Idle}]  BY <1>1 DEF HeapType
<1>7. contexts' = contexts /\ made' = made  BY DEF Builds
<1> QED  BY <1>3, <1>4, <1>5, <1>6, <1>7 DEF HeapType

\* The others' contexts and what they are building are out of its reach.
LEMMA BuildsKeeps ==
  ASSUME HeapInv, NEW g \in Goroutines, Builds(g)
  PROVE  HeapInv' /\ \A c \in 1..Len(contexts) : Value(contexts[c])' = Value(contexts[c])
<1>1. PICK o \in Objects, t \in Seq(Entries), d \in Derivations :
        /\ objects' = [objects EXCEPT ![Fresh(g)] = o]
        /\ arrays' = [arrays EXCEPT ![Fresh(g)] = t]
        /\ deriving' = [deriving EXCEPT ![g] = d]
        /\ \E u \in Updates, p \in 1..Len(contexts) :
             Stage(d, ValueOf(o, t), u, Value(contexts[p]))
  BY DEF Builds
<1>2. HeapType /\ HeapType'  BY BuildsType DEF HeapInv
<1>3. contexts' = contexts /\ made' = made /\ made[g] < MaxContexts  BY DEF Builds
<1>4. Fresh(g) \in Addresses  BY <1>2, <1>3, AddressFacts
<1>5. \A a \in Addresses : a # Fresh(g) => Value(a)' = Value(a)
  BY <1>1, <1>2, ValueStands DEF HeapType
<1>6. \A c \in 1..Len(contexts) : Value(contexts[c])' = Value(contexts[c])
  BY <1>2, <1>3, <1>5, AddressFacts
<1>7. \A h \in Goroutines : Fresh(h)' = Fresh(h)  BY <1>3 DEF Fresh
<1>8. Value(Fresh(g))' = ValueOf(o, t)
  <2>1. PICK a \in Addresses : a = Fresh(g)  BY <1>4
  <2>2. Value(a)' = ValueOf(objects'[a], arrays'[a])  BY <1>2, ValueThereNext
  <2>3. Fresh(g)' = a  BY <1>7, <2>1
  <2>4. Value(Fresh(g))' = Value(a)'  BY <2>3 DEF Value
  <2> QED  BY <1>1, <1>2, <2>1, <2>2, <2>4 DEF HeapType
<1>9. ASSUME NEW h \in Goroutines PROVE DerivingInv(h)'
  <2>1. CASE h = g
    <3>1. deriving'[g] = d  BY <1>1, <1>2 DEF HeapType
    <3>2. \E u \in Updates, p \in 1..Len(contexts)' :
            Stage(deriving[g]', Value(Fresh(g))', u, Value(contexts[p])')
      BY <1>1, <1>3, <1>6, <1>8, <3>1
    <3> QED  BY <1>3, <2>1, <3>2 DEF DerivingInv
  <2>2. CASE h # g
    <3>1. deriving'[h] = deriving[h]  BY <1>1, <1>2, <2>2 DEF HeapType
    <3>2. SUFFICES ASSUME deriving[h] # Idle PROVE DerivingInv(h)'
      BY <3>1 DEF DerivingInv
    <3>3. made[h] < MaxContexts
          /\ \E u \in Updates, p \in 1..Len(contexts) :
               Stage(deriving[h], Value(Fresh(h)), u, Value(contexts[p]))
      BY <3>2 DEF HeapInv, DerivingInv
    <3>4. Value(Fresh(h))' = Value(Fresh(h))
      BY <1>2, <1>5, <1>7, <2>2, <3>3, AddressFacts
    <3>5. \E u \in Updates, p \in 1..Len(contexts)' :
            Stage(deriving[h]', Value(Fresh(h))', u, Value(contexts[p])')
      BY <1>3, <1>6, <3>1, <3>3, <3>4
    <3> QED  BY <1>3, <3>3, <3>5 DEF DerivingInv
  <2> QED  BY <2>1, <2>2
<1> QED  BY <1>2, <1>6, <1>9 DEF HeapInv

\* The first n entries of an array are a sequence of entries.
LEMMA FirstEntries ==
  ASSUME NEW t \in Seq(Entries), NEW n \in 0..Len(t)
  PROVE  /\ SubSeq(t, 1, n) \in Seq(Entries) /\ Len(SubSeq(t, 1, n)) = n
         /\ \A m \in 1..n : SubSeq(t, 1, n)[m] = t[m]
  OBVIOUS

\* A copy says the same.
LEMMA CopySays ==
  ASSUME NEW o \in Objects, NEW p \in Objects, NEW s, NEW t,
         o.header = p.header, o.factory = p.factory, o.bag.len = p.bag.len,
         \A m \in 1..p.bag.len : s[m] = t[m]
  PROVE  ValueOf(o, s) = ValueOf(p, t)
<1>1. p.bag.len \in Nat  BY DEF Objects, Slices
<1>2. \A k \in Keys : EntryOf(s, p.bag.len, k) = EntryOf(t, p.bag.len, k)
  BY <1>1, SameEntries
<1> QED  BY <1>2 DEF ValueOf

\* cloneContextValues: the copy says what its parent says, and has a bag of its own.
LEMMA CloneIsOwn ==
  ASSUME HeapType, NEW g \in Goroutines, Fresh(g) \in Addresses, NEW a \in Addresses
  PROVE  LET copy  == [objects[a] EXCEPT !.bag = OwnSlice(g, @)]
             array == Elements(objects[a].bag)
         IN  /\ copy \in Objects /\ array \in Seq(Entries)
             /\ GoodBag(Fresh(g), copy, array) /\ ValueOf(copy, array) = Value(a)
<1> DEFINE copy  == [objects[a] EXCEPT !.bag = OwnSlice(g, @)]
           array == Elements(objects[a].bag)
           len   == objects[a].bag.len
<1>1. objects[a] \in Objects /\ arrays[a] \in Seq(Entries)  BY DEF HeapType
<1>2. GoodBag(a, objects[a], arrays[a]) /\ len \in Nat
  BY <1>1 DEF HeapType, Objects, Slices
<1>3. /\ array \in Seq(Entries) /\ Len(array) = len
      /\ \A m \in 1..len : array[m] = arrays[a][m]
  <2>1. CASE objects[a].bag = NilSlice
    <3>1. array = SubSeq(<<>>, 1, 0) /\ len = 0  BY <2>1 DEF Elements, NilSlice, HeapType
    <3>2. <<>> \in Seq(Entries) /\ 0 \in 0..Len(<<>>)  OBVIOUS
    <3> QED  BY <3>1, <3>2, FirstEntries
  <2>2. CASE objects[a].bag.array = a /\ len \in 1..Len(arrays[a])
    <3>1. array = SubSeq(arrays[a], 1, len) /\ len \in 0..Len(arrays[a])
      BY <1>1, <2>2 DEF Elements
    <3> QED  BY <1>1, <3>1, FirstEntries
  <2> QED  BY <1>2, <2>1, <2>2 DEF GoodBag
<1>4. /\ copy.header = objects[a].header /\ copy.factory = objects[a].factory
      /\ copy.bag = OwnSlice(g, objects[a].bag) /\ copy.bag.len = len
      /\ copy \in Objects
  BY <1>1 DEF Objects, Slices, OwnSlice
<1>5. GoodBag(Fresh(g), copy, array)
  <2>1. CASE len = 0  BY <1>2, <1>4, <2>1 DEF GoodBag, OwnSlice
  <2>2. CASE len # 0
    <3>1. len \in 1..Len(arrays[a]) /\ OneEach(arrays[a], len)
      BY <1>2, <2>2 DEF GoodBag, NilSlice
    <3>2. OneEach(array, len)  BY <1>3, <3>1 DEF OneEach
    <3> QED  BY <1>2, <1>3, <1>4, <2>2, <3>2 DEF GoodBag, OwnSlice
  <2> QED  BY <2>1, <2>2
<1>6. ValueOf(copy, array) = Value(a)
  <2>1. Value(a) = ValueOf(objects[a], arrays[a])  BY ValueThere
  <2>2. \A m \in 1..objects[a].bag.len : array[m] = arrays[a][m]  BY <1>3
  <2>3. /\ objects[a] \in Objects /\ copy \in Objects
        /\ copy.header = objects[a].header /\ copy.factory = objects[a].factory
        /\ copy.bag.len = objects[a].bag.len
    BY <1>1, <1>4
  <2> HIDE DEF copy, array
  <2>4. ValueOf(copy, array) = ValueOf(objects[a], arrays[a])
    BY <2>2, <2>3, CopySays
  <2> QED  BY <2>1, <2>4
<1> QED  BY <1>3, <1>4, <1>5, <1>6

LEMMA CloneBuilds ==
  ASSUME HeapType, NEW g \in Goroutines, NEW c \in 1..Len(contexts), NEW u \in Updates,
         Clone(g, c, u)
  PROVE  Builds(g)
<1> DEFINE parent == objects[contexts[c]]
           copy == [parent EXCEPT !.bag = OwnSlice(g, @)]
           array == Elements(parent.bag)
           d == [at |-> u.op, attrs |-> u.attrs, to |-> u.to]
<1>1. made[g] < MaxContexts  BY ContextAssumption DEF HeapType, Clone
<1>2. Fresh(g) \in Addresses /\ contexts[c] \in Addresses  BY <1>1, AddressFacts
<1>3. /\ copy \in Objects /\ array \in Seq(Entries) /\ GoodBag(Fresh(g), copy, array)
      /\ ValueOf(copy, array) = Value(contexts[c])
  BY <1>2, CloneIsOwn
<1>4. d \in Derivations
  BY ContextAssumption DEF Derivations, Marks
<1>5. Stage(d, ValueOf(copy, array), u, Value(contexts[c]))
  <2>1. CASE u.op # "merge"  BY <1>3, <2>1 DEF Stage
  <2>2. CASE u.op = "merge"
    <3> DEFINE from == Value(contexts[c])
    <3>1. \A k \in Keys : Given(u.attrs, 0, k, from.bag[k], from.bag[k])
      BY DEF Given
    <3>2. u.attrs \in Seq(Attributes) /\ Len(u.attrs) \in Nat  BY ContextAssumption
    <3>3. 0 \in 0..Len(u.attrs) /\ 0 + Len(d.attrs) = Len(u.attrs)
          /\ \A n \in 1..Len(d.attrs) : d.attrs[n] = u.attrs[0 + n]
      BY <3>2
    <3>4. d.at = "merge"  BY <2>2
    <3> HIDE DEF d, copy, array, from
    <3>5. Stage(d, from, u, from)  BY <2>2, <3>1, <3>3, <3>4 DEF Stage
    <3> QED  BY <1>3, <3>5 DEF from
  <2> QED  BY <2>1, <2>2
<1>6. /\ arrays' = [arrays EXCEPT ![Fresh(g)] = array]
      /\ objects' = [objects EXCEPT ![Fresh(g)] = copy]
      /\ deriving' = [deriving EXCEPT ![g] = d]
      /\ UNCHANGED <<contexts, made>>
  BY DEF Clone
<1> HIDE DEF copy, array, d
<1> QED  BY <1>1, <1>3, <1>4, <1>5, <1>6 DEF Builds

\* What is known of a derivation that was begun.
LEMMA UnderWay ==
  ASSUME HeapInv, NEW g \in Goroutines, deriving[g].at # "idle"
  PROVE  /\ made[g] < MaxContexts /\ Fresh(g) \in Addresses
         /\ deriving[g] \in Derivations
         /\ objects[Fresh(g)] \in Objects /\ arrays[Fresh(g)] \in Seq(Entries)
         /\ GoodBag(Fresh(g), objects[Fresh(g)], arrays[Fresh(g)])
         /\ \E u \in Updates, p \in 1..Len(contexts) :
              Stage(deriving[g], ValueOf(objects[Fresh(g)], arrays[Fresh(g)]), u,
                    Value(contexts[p]))
<1>1. deriving[g] # Idle  BY DEF Idle
<1>2. deriving[g] \in Derivations  BY <1>1 DEF HeapInv, HeapType
<1>3. made[g] < MaxContexts
      /\ \E u \in Updates, p \in 1..Len(contexts) :
           Stage(deriving[g], Value(Fresh(g)), u, Value(contexts[p]))
  BY <1>1 DEF HeapInv, DerivingInv
<1>4. Fresh(g) \in Addresses  BY <1>3, AddressFacts DEF HeapInv
<1>5. Value(Fresh(g)) = ValueOf(objects[Fresh(g)], arrays[Fresh(g)])
  BY <1>4, ValueThere DEF HeapInv
<1> QED  BY <1>2, <1>3, <1>4, <1>5 DEF HeapInv, HeapType

\* What the last step of a derivation leaves.
LEMMA WrittenIs ==
  ASSUME HeapInv, NEW g \in Goroutines, deriving[g] \in Derivations, Written(g)
  PROVE  LET d == [deriving[g] EXCEPT !.at = "written", !.attrs = <<>>]
         IN  /\ deriving' = [deriving EXCEPT ![g] = d] /\ d \in Derivations
             /\ d.at = "written" /\ d.attrs = <<>>
<1>1. <<>> \in Seq(Attributes)  OBVIOUS
<1> QED  BY <1>1 DEF Written, Derivations, HeapInv, HeapType

LEMMA HeaderBuilds ==
  ASSUME HeapInv, NEW g \in Goroutines, SetHeader(g) PROVE Builds(g)
<1> DEFINE here == objects[Fresh(g)]
           there == arrays[Fresh(g)]
           o == [here EXCEPT !.header = deriving[g].to]
           d == [deriving[g] EXCEPT !.at = "written", !.attrs = <<>>]
<1>1. deriving[g].at = "header"  BY DEF SetHeader
<1>2. /\ made[g] < MaxContexts /\ Fresh(g) \in Addresses /\ deriving[g] \in Derivations
      /\ here \in Objects /\ there \in Seq(Entries) /\ GoodBag(Fresh(g), here, there)
  BY <1>1, UnderWay
<1>3. PICK u \in Updates, p \in 1..Len(contexts) :
        Stage(deriving[g], ValueOf(here, there), u, Value(contexts[p]))
  BY <1>1, UnderWay
<1>4. /\ deriving' = [deriving EXCEPT ![g] = d] /\ d \in Derivations
      /\ d.at = "written" /\ d.attrs = <<>>
  BY <1>2, WrittenIs DEF SetHeader
<1>5. o \in Objects /\ o.header = deriving[g].to /\ o.factory = here.factory /\ o.bag = here.bag
  BY <1>2 DEF Objects, Derivations
<1>6. u.op = "header" /\ ValueOf(here, there) = Value(contexts[p]) /\ deriving[g].to = u.to
  BY <1>1, <1>3, ContextAssumption DEF Stage
<1>7. ValueOf(o, there) = [ValueOf(here, there) EXCEPT !.header = u.to]
  BY <1>5, <1>6 DEF ValueOf
<1>8. Contexts!Updated(Value(contexts[p]), u) = [Value(contexts[p]) EXCEPT !.header = u.to]
  BY <1>6 DEF Contexts!Updated
<1>9. Stage(d, ValueOf(o, there), u, Value(contexts[p]))
  BY <1>4, <1>6, <1>7, <1>8 DEF Stage
<1>10. GoodBag(Fresh(g), o, there)  BY <1>2, <1>5 DEF GoodBag
<1>11. /\ objects' = [objects EXCEPT ![Fresh(g)] = o]
       /\ arrays' = [arrays EXCEPT ![Fresh(g)] = there]
       /\ UNCHANGED <<contexts, made>>
  BY <1>2 DEF SetHeader, HeapInv, HeapType
<1> HIDE DEF o, d, there
<1> QED  BY <1>2, <1>4, <1>5, <1>9, <1>10, <1>11 DEF Builds

LEMMA FactoryBuilds ==
  ASSUME HeapInv, NEW g \in Goroutines, SetFactory(g) PROVE Builds(g)
<1> DEFINE here == objects[Fresh(g)]
           there == arrays[Fresh(g)]
           o == [here EXCEPT !.factory = deriving[g].to]
           d == [deriving[g] EXCEPT !.at = "written", !.attrs = <<>>]
<1>1. deriving[g].at = "factory"  BY DEF SetFactory
<1>2. /\ made[g] < MaxContexts /\ Fresh(g) \in Addresses /\ deriving[g] \in Derivations
      /\ here \in Objects /\ there \in Seq(Entries) /\ GoodBag(Fresh(g), here, there)
  BY <1>1, UnderWay
<1>3. PICK u \in Updates, p \in 1..Len(contexts) :
        Stage(deriving[g], ValueOf(here, there), u, Value(contexts[p]))
  BY <1>1, UnderWay
<1>4. /\ deriving' = [deriving EXCEPT ![g] = d] /\ d \in Derivations
      /\ d.at = "written" /\ d.attrs = <<>>
  BY <1>2, WrittenIs DEF SetFactory
<1>5. o \in Objects /\ o.header = here.header /\ o.factory = deriving[g].to /\ o.bag = here.bag
  BY <1>2 DEF Objects, Derivations
<1>6. u.op = "factory" /\ ValueOf(here, there) = Value(contexts[p]) /\ deriving[g].to = u.to
  BY <1>1, <1>3, ContextAssumption DEF Stage
<1>7. ValueOf(o, there) = [ValueOf(here, there) EXCEPT !.factory = u.to]
  BY <1>5, <1>6 DEF ValueOf
<1>8. Contexts!Updated(Value(contexts[p]), u) = [Value(contexts[p]) EXCEPT !.factory = u.to]
  BY <1>6 DEF Contexts!Updated
<1>9. Stage(d, ValueOf(o, there), u, Value(contexts[p]))
  BY <1>4, <1>6, <1>7, <1>8 DEF Stage
<1>10. GoodBag(Fresh(g), o, there)  BY <1>2, <1>5 DEF GoodBag
<1>11. /\ objects' = [objects EXCEPT ![Fresh(g)] = o]
       /\ arrays' = [arrays EXCEPT ![Fresh(g)] = there]
       /\ UNCHANGED <<contexts, made>>
  BY <1>2 DEF SetFactory, HeapInv, HeapType
<1> HIDE DEF o, d, there
<1> QED  BY <1>2, <1>4, <1>5, <1>9, <1>10, <1>11 DEF Builds

\* What the attributes of an update that replaces the bag leave in it.
LEMMA ReplacedIs ==
  ASSUME NEW u \in Updates, u.op = "replace", NEW k
  PROVE  EntryOf(u.attrs, Len(u.attrs), k) = Contexts!LastOf(u.attrs, k, Unset)
<1> DEFINE n == Len(u.attrs)
           Last(i) == u.attrs[i].key = k /\ \A m \in i + 1..n : u.attrs[m].key # k
<1>1. n \in Nat /\ OneEach(u.attrs, n)  BY ContextAssumption DEF OneEach
<1>2. CASE \A m \in 1..n : u.attrs[m].key # k
  <2>1. EntryOf(u.attrs, n, k) = Unset  BY <1>1, <1>2, NoEntry
  <2> QED  BY <1>2, <2>1 DEF Contexts!LastOf
<1>3. CASE \E m \in 1..n : u.attrs[m].key = k
  <2>1. PICK m \in 1..n : u.attrs[m].key = k  BY <1>3
  <2>2. EntryOf(u.attrs, n, k) = u.attrs[m].val  BY <1>1, <2>1, OneEntry
  <2>3. \A i \in 1..n : Last(i) <=> i = m
    BY <1>1, <2>1 DEF OneEach
  <2>4. (CHOOSE i \in 1..n : Last(i)) = m  BY <2>3
  <2> QED  BY <1>3, <2>2, <2>4 DEF Contexts!LastOf
<1> QED  BY <1>2, <1>3

LEMMA ReplaceBuilds ==
  ASSUME HeapInv, NEW g \in Goroutines, Replace(g) PROVE Builds(g)
<1> DEFINE here == objects[Fresh(g)]
           there == arrays[Fresh(g)]
           bag == IF deriving[g].attrs = <<>> THEN NilSlice
                  ELSE [array |-> Fresh(g), len |-> Len(deriving[g].attrs)]
           o == [here EXCEPT !.bag = bag]
           d == [deriving[g] EXCEPT !.at = "written", !.attrs = <<>>]
<1>1. deriving[g].at = "replace"  BY DEF Replace
<1>2. /\ made[g] < MaxContexts /\ Fresh(g) \in Addresses /\ deriving[g] \in Derivations
      /\ here \in Objects
  BY <1>1, UnderWay
<1>3. PICK u \in Updates, p \in 1..Len(contexts) :
        Stage(deriving[g], ValueOf(here, there), u, Value(contexts[p]))
  BY <1>1, UnderWay
<1>4. /\ deriving' = [deriving EXCEPT ![g] = d] /\ d \in Derivations
      /\ d.at = "written" /\ d.attrs = <<>>
  BY <1>2, WrittenIs DEF Replace
<1>5. u.op = "replace" /\ ValueOf(here, there) = Value(contexts[p]) /\ deriving[g].attrs = u.attrs
  BY <1>1, <1>3, ContextAssumption DEF Stage
<1>6. u.attrs \in Seq(Attributes) /\ u.attrs \in Seq(Entries) /\ Len(u.attrs) \in Nat
      /\ OneEach(u.attrs, Len(u.attrs))
  BY <1>5, ContextAssumption DEF Entries, OneEach
<1>7. bag \in Slices /\ bag.len = Len(u.attrs)
  <2>1. CASE u.attrs = <<>>
    <3>1. bag = NilSlice /\ Len(u.attrs) = 0  BY <1>5, <2>1
    <3>2. Nil \in Addresses  BY AddressFacts DEF HeapInv
    <3> QED  BY <3>1, <3>2 DEF NilSlice, Slices
  <2>2. CASE u.attrs # <<>>
    <3>1. bag = [array |-> Fresh(g), len |-> Len(u.attrs)]  BY <1>5, <2>2
    <3> QED  BY <1>2, <1>6, <3>1 DEF Slices
  <2> QED  BY <2>1, <2>2
<1>8. o \in Objects /\ o.header = here.header /\ o.factory = here.factory /\ o.bag = bag
  BY <1>2, <1>7 DEF Objects
<1>9. GoodBag(Fresh(g), o, u.attrs)
  <2>1. CASE u.attrs = <<>>  BY <1>5, <1>8, <2>1 DEF GoodBag
  <2>2. CASE u.attrs # <<>>
    <3>1. Len(u.attrs) \in 1..Len(u.attrs)  BY <1>6, <2>2
    <3>2. bag.array = Fresh(g)  BY <1>5, <2>2
    <3> QED  BY <1>6, <1>7, <1>8, <3>1, <3>2 DEF GoodBag
  <2> QED  BY <2>1, <2>2
<1>10. Stage(d, ValueOf(o, u.attrs), u, Value(contexts[p]))
  <2>1. \A k \in Keys : EntryOf(u.attrs, bag.len, k) = Contexts!LastOf(u.attrs, k, Unset)
    BY <1>5, <1>7, ReplacedIs
  <2> DEFINE last == [k \in Keys |-> Contexts!LastOf(u.attrs, k, Unset)]
             now  == [k \in Keys |-> EntryOf(u.attrs, bag.len, k)]
  <2>2. now = last  BY <2>1
  <2>3. ValueOf(o, u.attrs) = [header |-> here.header, factory |-> here.factory, bag |-> now]
    BY <1>8 DEF ValueOf
  <2>4. Contexts!Updated(Value(contexts[p]), u) = [ValueOf(here, there) EXCEPT !.bag = last]
    BY <1>5 DEF Contexts!Updated
  <2> HIDE DEF last, now, d
  <2>5. ValueOf(o, u.attrs) = Contexts!Updated(Value(contexts[p]), u)
    BY <2>2, <2>3, <2>4 DEF ValueOf
  <2> QED  BY <1>4, <2>5 DEF Stage
<1>11. /\ objects' = [objects EXCEPT ![Fresh(g)] = o]
       /\ arrays' = [arrays EXCEPT ![Fresh(g)] = u.attrs]
       /\ UNCHANGED <<contexts, made>>
  BY <1>5 DEF Replace
<1> HIDE DEF o, d, there
<1> QED  BY <1>2, <1>4, <1>6, <1>8, <1>9, <1>10, <1>11 DEF Builds

\* An attribute was put over the entry of its key, or after the last of l entries:
\* array s became t, with l2 entries.
Laid(s, l, attr, t, l2) ==
  \/ /\ l2 = l
     /\ \E n \in 1..l : /\ s[n].key = attr.key /\ t[n] = attr
                        /\ \A m \in 1..l : m # n => t[m] = s[m]
  \/ /\ l2 = l + 1 /\ \A m \in 1..l : s[m].key # attr.key
     /\ t[l2] = attr /\ \A m \in 1..l : t[m] = s[m]

\* Its key has its value then, and the others have theirs.
LEMMA LaidSays ==
  ASSUME NEW s, NEW l, l \in Nat, NEW attr, NEW t, NEW l2, Laid(s, l, attr, t, l2),
         OneEach(s, l)
  PROVE  /\ OneEach(t, l2)
         /\ \A k : EntryOf(t, l2, k) = IF k = attr.key THEN attr.val ELSE EntryOf(s, l, k)
<1>1. l2 \in Nat /\ l <= l2  BY DEF Laid
<1>2. PICK n \in 1..l2 :
        /\ t[n] = attr
        /\ \A m \in 1..l2 : m # n => m \in 1..l /\ t[m] = s[m] /\ s[m].key # attr.key
        /\ \A m \in 1..l : m # n => m \in 1..l2
        /\ n \in 1..l => s[n].key = attr.key
  <2>1. CASE l2 = l /\ \E n \in 1..l : /\ s[n].key = attr.key /\ t[n] = attr
                                       /\ \A m \in 1..l : m # n => t[m] = s[m]
    BY <2>1 DEF OneEach
  <2>2. CASE /\ l2 = l + 1 /\ \A m \in 1..l : s[m].key # attr.key
             /\ t[l2] = attr /\ \A m \in 1..l : t[m] = s[m]
    <3>1. l2 \in 1..l2 /\ l2 \notin 1..l  BY <2>2
    <3>2. \A m \in 1..l2 : m # l2 => m \in 1..l  BY <2>2
    <3>3. \A m \in 1..l : m \in 1..l2  BY <2>2
    <3> QED  BY <2>2, <3>1, <3>2, <3>3
  <2> QED  BY <2>1, <2>2 DEF Laid
<1>3. OneEach(t, l2)
  <2> SUFFICES ASSUME NEW i \in 1..l2, NEW j \in 1..l2, t[i].key = t[j].key PROVE i = j
    BY DEF OneEach
  <2>1. CASE i = n \/ j = n  BY <1>2, <2>1
  <2>2. CASE i # n /\ j # n  BY <1>2, <2>2 DEF OneEach
  <2> QED  BY <2>1, <2>2
<1>4. ASSUME NEW k
      PROVE  EntryOf(t, l2, k) = IF k = attr.key THEN attr.val ELSE EntryOf(s, l, k)
  <2>1. CASE k = attr.key
    <3>1. t[n].key = k /\ t[n].val = attr.val  BY <1>2, <2>1
    <3>2. EntryOf(t, l2, k) = t[n].val  BY <1>1, <1>3, <3>1, OneEntry
    <3> QED  BY <2>1, <3>1, <3>2
  <2>2. CASE k # attr.key /\ \E m \in 1..l : s[m].key = k
    <3>1. PICK m \in 1..l : s[m].key = k  BY <2>2
    <3>2. m \in 1..l2 /\ m # n  BY <1>2, <2>2, <3>1
    <3>3. t[m].key = k /\ t[m].val = s[m].val  BY <1>2, <3>1, <3>2
    <3>4. EntryOf(t, l2, k) = t[m].val  BY <1>1, <1>3, <3>2, <3>3, OneEntry
    <3>5. EntryOf(s, l, k) = s[m].val  BY <3>1, OneEntry
    <3> QED  BY <2>2, <3>3, <3>4, <3>5
  <2>3. CASE k # attr.key /\ \A m \in 1..l : s[m].key # k
    <3>1. \A m \in 1..l2 : t[m].key # k  BY <1>2, <2>3
    <3>2. EntryOf(t, l2, k) = Unset  BY <1>1, <3>1, NoEntry
    <3>3. EntryOf(s, l, k) = Unset  BY <2>3, NoEntry
    <3> QED  BY <2>3, <3>2, <3>3
  <2> QED  BY <2>1, <2>2, <2>3
<1> QED  BY <1>3, <1>4

\* One more of the attributes was merged.
LEMMA GivenNext ==
  ASSUME NEW attrs \in Seq(Attributes), NEW i \in 0..Len(attrs), i < Len(attrs),
         NEW k, NEW otherwise, NEW val, Given(attrs, i, k, otherwise, val)
  PROVE  Given(attrs, i + 1, k, otherwise,
               IF k = attrs[i + 1].key THEN attrs[i + 1].val ELSE val)
<1>1. i + 1 \in 1..i + 1 /\ (\A n \in 1..i + 1 : n \in 1..i \/ n = i + 1)
      /\ \A n \in 1..i : n \in 1..i + 1
  OBVIOUS
<1>2. CASE k = attrs[i + 1].key
  <2>1. \A m \in (i + 1) + 1..i + 1 : attrs[m].key # k  OBVIOUS
  <2> QED  BY <1>1, <1>2, <2>1 DEF Given
<1>3. CASE k # attrs[i + 1].key
  <2>1. CASE (\A n \in 1..i : attrs[n].key # k) /\ val = otherwise
    BY <1>1, <1>3, <2>1 DEF Given
  <2>2. CASE \E n \in 1..i : /\ attrs[n].key = k /\ val = attrs[n].val
                             /\ \A m \in n + 1..i : attrs[m].key # k
    <3>1. PICK n \in 1..i : /\ attrs[n].key = k /\ val = attrs[n].val
                            /\ \A m \in n + 1..i : attrs[m].key # k
      BY <2>2
    <3>2. \A m \in n + 1..i + 1 : m \in n + 1..i \/ m = i + 1  OBVIOUS
    <3>3. \A m \in n + 1..i + 1 : attrs[m].key # k  BY <1>3, <3>1, <3>2
    <3>4. n \in 1..i + 1  BY <1>1
    <3> QED  BY <1>3, <3>1, <3>3, <3>4 DEF Given
  <2> QED  BY <2>1, <2>2 DEF Given
<1> QED  BY <1>2, <1>3

\* An array with an entry after its n-th, and room to spare.
LEMMA Extended ==
  ASSUME NEW s \in Seq(Entries), NEW e \in Entries, NEW n \in Nat
  PROVE  LET t == Append(s, e) \o Spare(n)
         IN  /\ t \in Seq(Entries) /\ Len(s) + 1 \in 1..Len(t) /\ t[Len(s) + 1] = e
             /\ \A m \in 1..Len(s) : t[m] = s[m]
<1>1. Free \in Entries  BY DEF Entries
<1>2. Spare(n) \in Seq(Entries) /\ Len(Spare(n)) = n
  <2>1. Spare(n) = [m \in 1..n |-> Free]  BY DEF Spare
  <2> QED  BY <1>1, <2>1
<1>3. Append(s, e) \in Seq(Entries) /\ Len(Append(s, e)) = Len(s) + 1
      /\ Append(s, e)[Len(s) + 1] = e /\ \A m \in 1..Len(s) : Append(s, e)[m] = s[m]
  OBVIOUS
<1> HIDE DEF Spare
<1> QED  BY <1>2, <1>3

\* mergeAttrBagLastWins lays its attribute into the bag under construction, in the
\* array at its own address.
LEMMA MergeLays ==
  ASSUME HeapInv, NEW g \in Goroutines, Merge(g)
  PROVE  \E o \in Objects, t \in Seq(Entries) :
           /\ objects' = [objects EXCEPT ![Fresh(g)] = o]
           /\ arrays' = [arrays EXCEPT ![Fresh(g)] = t]
           /\ o.header = objects[Fresh(g)].header /\ o.factory = objects[Fresh(g)].factory
           /\ o.bag.array = Fresh(g) /\ o.bag.len \in 1..Len(t)
           /\ Laid(arrays[Fresh(g)], objects[Fresh(g)].bag.len, Head(deriving[g].attrs),
                   t, o.bag.len)
<1> DEFINE here == objects[Fresh(g)]
           there == arrays[Fresh(g)]
           bag == here.bag
           attr == Head(deriving[g].attrs)
<1>1. deriving[g].at # "idle" /\ deriving[g].attrs # <<>>  BY DEF Merge
<1>2. /\ Fresh(g) \in Addresses /\ deriving[g] \in Derivations
      /\ here \in Objects /\ there \in Seq(Entries) /\ GoodBag(Fresh(g), here, there)
  BY <1>1, UnderWay
<1>3. bag \in Slices /\ bag.len \in Nat  BY <1>2 DEF Objects, Slices
<1>4. attr \in Entries
  <2>1. deriving[g].attrs \in Seq(Attributes)  BY <1>2 DEF Derivations
  <2>2. attr \in Attributes  BY <1>1, <2>1
  <2> QED  BY <2>2 DEF Entries
<1>5. bag = NilSlice => bag.len = 0 /\ arrays[bag.array] = <<>>
  BY DEF NilSlice, HeapInv, HeapType
<1>6. bag # NilSlice => bag.array = Fresh(g) /\ bag.len \in 1..Len(there)
  BY <1>2 DEF GoodBag
<1>7. CASE UNCHANGED objects /\ \E n \in Position(bag, attr.key) : Put(bag, n, attr)
  <2>1. PICK n \in Position(bag, attr.key) : Put(bag, n, attr)  BY <1>7
  <2>2. n \in 1..bag.len /\ arrays[bag.array][n].key = attr.key  BY <2>1 DEF Position
  <2>3. bag # NilSlice  BY <1>5, <2>2
  <2>4. bag.array = Fresh(g) /\ bag.len \in 1..Len(there)  BY <1>6, <2>3
  <2> DEFINE t == [there EXCEPT ![n] = attr]
  <2>5. n \in 1..Len(there) /\ there[n].key = attr.key  BY <1>2, <2>2, <2>4
  <2>6. t \in Seq(Entries) /\ Len(t) = Len(there) /\ t[n] = attr
        /\ \A m \in 1..bag.len : m # n => t[m] = there[m]
    BY <1>2, <1>4, <2>4, <2>5
  <2>7. arrays' = [arrays EXCEPT ![Fresh(g)] = t]
    BY <1>2, <2>1, <2>4 DEF Put, HeapInv, HeapType
  <2>8. objects' = [objects EXCEPT ![Fresh(g)] = here]
    BY <1>2, <1>7 DEF HeapInv, HeapType
  <2> HIDE DEF t
  <2>9. Laid(there, bag.len, attr, t, bag.len)  BY <2>2, <2>5, <2>6 DEF Laid
  <2> QED  BY <1>2, <2>4, <2>6, <2>7, <2>8, <2>9
<1>8. CASE Position(bag, attr.key) = {} /\ AppendTo(g, bag, attr)
  <2> DEFINE slice == [array |-> IF HasRoom(bag) THEN bag.array ELSE Fresh(g),
                       len |-> bag.len + 1]
             o == [here EXCEPT !.bag = slice]
  <2>1. HasRoom(bag) => bag # NilSlice
    <3>1. bag = NilSlice => Len(arrays[bag.array]) = 0  BY <1>5
    <3> QED  BY <1>5, <3>1 DEF HasRoom
  <2>2. slice.array = Fresh(g) /\ slice.len = bag.len + 1 /\ slice \in Slices
    <3>1. HasRoom(bag) => bag.array = Fresh(g)  BY <1>6, <2>1
    <3> QED  BY <1>2, <1>3, <3>1 DEF Slices
  <2>3. o \in Objects /\ o.header = here.header /\ o.factory = here.factory /\ o.bag = slice
    BY <1>2, <2>2 DEF Objects
  <2>4. objects' = [objects EXCEPT ![Fresh(g)] = o]
    BY <1>2, <1>8 DEF AppendTo, HeapInv, HeapType
  <2>5. \A m \in 1..bag.len : there[m].key # attr.key
    <3>1. CASE bag = NilSlice  BY <1>5, <3>1
    <3>2. CASE bag # NilSlice  BY <1>6, <1>8, <3>2 DEF Position
    <3> QED  BY <3>1, <3>2
  <2>6. \E t \in Seq(Entries) :
          /\ arrays' = [arrays EXCEPT ![Fresh(g)] = t] /\ bag.len + 1 \in 1..Len(t)
          /\ t[bag.len + 1] = attr /\ \A m \in 1..bag.len : t[m] = there[m]
    <3>1. CASE HasRoom(bag)
      <4> DEFINE t == [there EXCEPT ![bag.len + 1] = attr]
      <4>1. bag.array = Fresh(g)  BY <1>6, <2>1, <3>1
      <4>2. bag.len + 1 \in 1..Len(there)  BY <1>2, <1>3, <3>1, <4>1 DEF HasRoom
      <4>3. t \in Seq(Entries) /\ Len(t) = Len(there) /\ t[bag.len + 1] = attr
            /\ \A m \in 1..bag.len : t[m] = there[m]
        BY <1>2, <1>3, <1>4, <4>2
      <4>4. arrays' = [arrays EXCEPT ![Fresh(g)] = t]
        BY <1>2, <1>8, <3>1, <4>1 DEF AppendTo, Put, HeapInv, HeapType
      <4> HIDE DEF t
      <4> QED  BY <4>2, <4>3, <4>4
    <3>2. CASE ~HasRoom(bag)
      <4> DEFINE s == Elements(bag)
      <4>1. s \in Seq(Entries) /\ Len(s) = bag.len /\ \A m \in 1..bag.len : s[m] = there[m]
        <5>1. CASE bag = NilSlice
          <6>1. s = SubSeq(<<>>, 1, 0)  BY <1>5, <5>1 DEF Elements
          <6>2. <<>> \in Seq(Entries) /\ 0 \in 0..Len(<<>>)  OBVIOUS
          <6> QED  BY <1>5, <5>1, <6>1, <6>2, FirstEntries
        <5>2. CASE bag # NilSlice
          <6>1. s = SubSeq(there, 1, bag.len) /\ bag.len \in 0..Len(there)
            BY <1>2, <1>6, <5>2 DEF Elements
          <6> QED  BY <1>2, <6>1, FirstEntries
        <5> QED  BY <5>1, <5>2
      <4>2. PICK n \in 0..MaxSpare :
              arrays' = [arrays EXCEPT ![Fresh(g)] = Append(s, attr) \o Spare(n)]
        BY <1>8, <3>2 DEF AppendTo
      <4>3. n \in Nat  BY ContextAssumption
      <4> DEFINE t == Append(s, attr) \o Spare(n)
      <4> HIDE DEF s, attr
      <4>4. /\ t \in Seq(Entries) /\ Len(s) + 1 \in 1..Len(t) /\ t[Len(s) + 1] = attr
            /\ \A m \in 1..Len(s) : t[m] = s[m]
        BY <1>4, <4>1, <4>3, Extended
      <4>5. arrays' = [arrays EXCEPT ![Fresh(g)] = t]  BY <4>2
      <4> HIDE DEF t
      <4> QED  BY <4>1, <4>4, <4>5
    <3> QED  BY <3>1, <3>2
  <2>7. PICK t \in Seq(Entries) :
          /\ arrays' = [arrays EXCEPT ![Fresh(g)] = t] /\ bag.len + 1 \in 1..Len(t)
          /\ t[bag.len + 1] = attr /\ \A m \in 1..bag.len : t[m] = there[m]
    BY <2>6
  <2>8. Laid(there, bag.len, attr, t, bag.len + 1)  BY <2>5, <2>7 DEF Laid
  <2> HIDE DEF o, slice
  <2> QED  BY <2>2, <2>3, <2>4, <2>7, <2>8
<1> QED  BY <1>7, <1>8 DEF Merge

LEMMA MergeBuilds ==
  ASSUME HeapInv, NEW g \in Goroutines, Merge(g) PROVE Builds(g)
<1> DEFINE here == objects[Fresh(g)]
           there == arrays[Fresh(g)]
           attrs == deriving[g].attrs
           d == [deriving[g] EXCEPT !.attrs = Tail(@)]
<1>1. deriving[g].at = "merge" /\ attrs # <<>>  BY DEF Merge
<1>2. /\ made[g] < MaxContexts /\ deriving[g] \in Derivations
      /\ here \in Objects /\ GoodBag(Fresh(g), here, there)
  BY <1>1, UnderWay
<1>3. PICK u \in Updates, p \in 1..Len(contexts) :
        Stage(deriving[g], ValueOf(here, there), u, Value(contexts[p]))
  BY <1>1, UnderWay
<1> DEFINE from == Value(contexts[p])
           was  == ValueOf(here, there)
<1>4. PICK i \in 0..Len(u.attrs) :
        /\ i + Len(attrs) = Len(u.attrs)
        /\ \A n \in 1..Len(attrs) : attrs[n] = u.attrs[i + n]
        /\ \A k \in Keys : Given(u.attrs, i, k, from.bag[k], was.bag[k])
  BY <1>1, <1>3 DEF Stage
<1>5. u.op = "merge" /\ was.header = from.header /\ was.factory = from.factory
  BY <1>1, <1>3 DEF Stage
<1>6. u.attrs \in Seq(Attributes) /\ attrs \in Seq(Attributes)
  BY <1>2, ContextAssumption DEF Derivations
<1>7. /\ Len(attrs) \in Nat /\ Len(attrs) >= 1 /\ i < Len(u.attrs)
      /\ Head(attrs) = u.attrs[i + 1]
      /\ Tail(attrs) \in Seq(Attributes) /\ Len(Tail(attrs)) = Len(attrs) - 1
      /\ \A n \in 1..Len(Tail(attrs)) : Tail(attrs)[n] = u.attrs[(i + 1) + n]
  <2>1. Len(attrs) \in Nat /\ Len(attrs) >= 1 /\ Head(attrs) = attrs[1]
        /\ Tail(attrs) \in Seq(Attributes) /\ Len(Tail(attrs)) = Len(attrs) - 1
        /\ \A n \in 1..Len(Tail(attrs)) : Tail(attrs)[n] = attrs[n + 1]
    BY <1>1, <1>6
  <2>2. \A n \in 1..Len(attrs) - 1 : n + 1 \in 1..Len(attrs) /\ i + (n + 1) = (i + 1) + n
    BY <2>1
  <2>3. 1 \in 1..Len(attrs) /\ i < Len(u.attrs)  BY <1>4, <2>1
  <2> HIDE DEF attrs
  <2> QED  BY <1>4, <2>1, <2>2, <2>3
<1>8. /\ deriving' = [deriving EXCEPT ![g] = d] /\ d \in Derivations
      /\ d.at = "merge" /\ d.attrs = Tail(attrs)
  BY <1>1, <1>2, <1>7 DEF Merge, Derivations, HeapInv, HeapType
<1>9. PICK o \in Objects, t \in Seq(Entries) :
        /\ objects' = [objects EXCEPT ![Fresh(g)] = o]
        /\ arrays' = [arrays EXCEPT ![Fresh(g)] = t]
        /\ o.header = here.header /\ o.factory = here.factory
        /\ o.bag.array = Fresh(g) /\ o.bag.len \in 1..Len(t)
        /\ Laid(there, here.bag.len, Head(attrs), t, o.bag.len)
  BY MergeLays
<1>10. here.bag.len \in Nat /\ OneEach(there, here.bag.len)
  <2>1. here.bag.len \in Nat  BY <1>2 DEF Objects, Slices
  <2> QED  BY <1>2, <2>1 DEF GoodBag, NilSlice, OneEach
<1>11. /\ OneEach(t, o.bag.len)
       /\ \A k : EntryOf(t, o.bag.len, k)
            = IF k = Head(attrs).key THEN Head(attrs).val ELSE EntryOf(there, here.bag.len, k)
  <2> HIDE DEF here, there, attrs
  <2> QED  BY <1>9, <1>10, LaidSays
<1>12. GoodBag(Fresh(g), o, t)  BY <1>9, <1>11 DEF GoodBag
<1> DEFINE now == ValueOf(o, t)
<1>13. now.header = from.header /\ now.factory = from.factory
  BY <1>5, <1>9 DEF ValueOf
<1>14. ASSUME NEW k \in Keys PROVE Given(u.attrs, i + 1, k, from.bag[k], now.bag[k])
  <2>1. now.bag[k] = EntryOf(t, o.bag.len, k)  BY DEF ValueOf
  <2>2. was.bag[k] = EntryOf(there, here.bag.len, k)  BY DEF ValueOf
  <2>3. now.bag[k] = IF k = u.attrs[i + 1].key THEN u.attrs[i + 1].val ELSE was.bag[k]
    <3> HIDE DEF now, was, attrs, here, there
    <3> QED  BY <1>7, <1>11, <2>1, <2>2
  <2>4. Given(u.attrs, i, k, from.bag[k], was.bag[k])  BY <1>4
  <2> HIDE DEF now, was, from
  <2> QED  BY <1>6, <1>7, <2>3, <2>4, GivenNext
<1>15. Stage(d, now, u, from)
  <2>1. i + 1 \in 0..Len(u.attrs) /\ (i + 1) + Len(d.attrs) = Len(u.attrs)
    <3>1. Len(d.attrs) = Len(attrs) - 1 /\ Len(attrs) \in Nat  BY <1>7, <1>8
    <3>2. i \in Nat /\ i < Len(u.attrs) /\ Len(u.attrs) \in Nat  BY <1>6, <1>7
    <3>3. i + Len(attrs) = Len(u.attrs)  BY <1>4
    <3> HIDE DEF d, attrs
    <3> QED  BY <3>1, <3>2, <3>3
  <2>2. \A n \in 1..Len(d.attrs) : d.attrs[n] = u.attrs[(i + 1) + n]  BY <1>7, <1>8
  <2> HIDE DEF now, from, d, attrs
  <2> QED  BY <1>5, <1>8, <1>13, <1>14, <2>1, <2>2 DEF Stage
<1>16. UNCHANGED <<contexts, made>>  BY DEF Merge
<1> HIDE DEF d
<1> QED  BY <1>2, <1>8, <1>9, <1>12, <1>15, <1>16 DEF Builds

\* A derivation that is through has built what its update makes of its parent.
LEMMA DerivedIs ==
  ASSUME HeapInv, NEW g \in Goroutines, deriving[g].at \in {"written", "merge"},
         deriving[g].attrs = <<>>
  PROVE  \E u \in Updates, p \in 1..Len(contexts) :
           Value(Fresh(g)) = Contexts!Updated(Value(contexts[p]), u)
<1>1. deriving[g].at # "idle"  OBVIOUS
<1>2. PICK u \in Updates, p \in 1..Len(contexts) :
        Stage(deriving[g], Value(Fresh(g)), u, Value(contexts[p]))
  BY <1>1 DEF HeapInv, DerivingInv, Idle
<1> DEFINE from == Value(contexts[p])
           now  == Value(Fresh(g))
<1>3. CASE deriving[g].at = "written"
  <2>1. u.op # "written"  BY ContextAssumption
  <2> QED  BY <1>2, <1>3, <2>1 DEF Stage
<1>4. CASE deriving[g].at = "merge"
  <2>1. u.op = "merge" /\ now.header = from.header /\ now.factory = from.factory
    BY <1>2, <1>4 DEF Stage
  <2>2. PICK i \in 0..Len(u.attrs) :
          /\ i + Len(deriving[g].attrs) = Len(u.attrs)
          /\ \A k \in Keys : Given(u.attrs, i, k, from.bag[k], now.bag[k])
    BY <1>2, <1>4 DEF Stage
  <2>3. i = Len(u.attrs) /\ Len(u.attrs) \in Nat
    <3>1. u.attrs \in Seq(Attributes) /\ Len(deriving[g].attrs) = 0  BY ContextAssumption
    <3> QED  BY <2>2, <3>1
  <2>4. ASSUME NEW k \in Keys
        PROVE  now.bag[k] = Contexts!LastOf(u.attrs, k, from.bag[k])
    <3> DEFINE n == Len(u.attrs)
               Last(m) == u.attrs[m].key = k /\ \A j \in m + 1..n : u.attrs[j].key # k
    <3>1. Given(u.attrs, n, k, from.bag[k], now.bag[k])  BY <2>2, <2>3
    <3>2. CASE (\A m \in 1..n : u.attrs[m].key # k) /\ now.bag[k] = from.bag[k]
      BY <3>2 DEF Contexts!LastOf
    <3>3. CASE \E m \in 1..n : Last(m) /\ now.bag[k] = u.attrs[m].val
      <4>1. PICK m \in 1..n : Last(m) /\ now.bag[k] = u.attrs[m].val  BY <3>3
      <4>2. ASSUME NEW j \in 1..n, Last(j) PROVE j = m
        <5>1. j > m => j \in m + 1..n  BY <2>3
        <5>2. m > j => m \in j + 1..n  BY <2>3
        <5>3. ~(j > m)  BY <4>1, <4>2, <5>1
        <5>4. ~(m > j)  BY <4>1, <4>2, <5>2
        <5> QED  BY <2>3, <5>3, <5>4
      <4>3. (CHOOSE j \in 1..n : Last(j)) = m  BY <4>1, <4>2
      <4> HIDE DEF now, from
      <4> QED  BY <4>1, <4>3 DEF Contexts!LastOf
    <3> QED  BY <3>1, <3>2, <3>3 DEF Given
  <2>5. /\ now = [header |-> now.header, factory |-> now.factory, bag |-> now.bag]
        /\ now.bag = [k \in Keys |-> now.bag[k]]
    BY DEF Value
  <2>6. from = [header |-> from.header, factory |-> from.factory, bag |-> from.bag]
    BY DEF Value
  <2> DEFINE last == [k \in Keys |-> Contexts!LastOf(u.attrs, k, from.bag[k])]
  <2>7. Contexts!Updated(from, u) = [from EXCEPT !.bag = last]
    BY <2>1 DEF Contexts!Updated
  <2>8. now.bag = last
    <3> HIDE DEF now, from
    <3> QED  BY <2>4, <2>5
  <2> HIDE DEF now, from, last
  <2>9. [from EXCEPT !.bag = last]
          = [header |-> from.header, factory |-> from.factory, bag |-> last]
    BY <2>6
  <2>10. now = Contexts!Updated(from, u)  BY <2>1, <2>5, <2>7, <2>8, <2>9
  <2> QED  BY <2>10 DEF now, from
<1> QED  BY <1>3, <1>4

\* Publishing adds the context and touches nothing.
LEMMA PublishKeeps ==
  ASSUME HeapInv, NEW g \in Goroutines, Publish(g)
  PROVE  /\ HeapInv' /\ contexts' = Append(contexts, Fresh(g))
         /\ \A a \in Addresses : Value(a)' = Value(a)
<1>1. deriving[g].at # "idle" /\ deriving[g].attrs = <<>>  BY DEF Publish
<1>2. Fresh(g) \in Addresses /\ made[g] < MaxContexts  BY <1>1, UnderWay
<1>3. made \in [Goroutines -> Nat] /\ contexts \in Seq(Addresses)  BY DEF HeapInv, HeapType
<1>4. /\ contexts' = Append(contexts, Fresh(g))
      /\ made' = [made EXCEPT ![g] = made[g] + 1]
      /\ deriving' = [deriving EXCEPT ![g] = Idle]
      /\ objects' = objects /\ arrays' = arrays
  BY DEF Publish
<1>5. /\ contexts' \in Seq(Addresses) /\ Len(contexts') = Len(contexts) + 1
      /\ Len(contexts) \in Nat /\ contexts'[Len(contexts) + 1] = Fresh(g)
      /\ \A c \in 1..Len(contexts) : contexts'[c] = contexts[c]
  BY <1>2, <1>3, <1>4
<1>6. \A a \in Addresses : Value(a)' = Value(a)  BY <1>4 DEF Value, Lookup, Position
<1>7. HeapType'
  <2>1. /\ objects' \in [Addresses -> Objects] /\ arrays' \in [Addresses -> Seq(Entries)]
        /\ arrays'[Nil] = <<>> /\ \A a \in Addresses : GoodBag(a, objects'[a], arrays'[a])
    BY <1>4 DEF HeapInv, HeapType
  <2>2. contexts' \in Seq(Addresses) /\ Len(contexts') >= 1  BY <1>5
  <2>3. made' \in [Goroutines -> Nat]  BY <1>3, <1>4
  <2>4. \A h \in Goroutines : made[h] < Len(contexts)  BY DEF HeapInv, HeapType
  <2>5. \A h \in Goroutines : made'[h] < Len(contexts')
    BY <1>3, <1>4, <1>5, <2>4
  <2>6. \A h \in Goroutines : \A n \in 1..made[h] : n \in 1..made'[h]
    BY <1>3, <1>4
  <2>7. made[g] + 1 \in 1..made'[g]  BY <1>3, <1>4
  <2>8. ASSUME NEW c \in 1..Len(contexts')
        PROVE  contexts'[c] = Ingress
                 \/ \E h \in Goroutines : \E n \in 1..made'[h] : contexts'[c] = Address(h, n)
    <3>1. CASE c = Len(contexts) + 1  BY <1>5, <2>7, <3>1 DEF Fresh
    <3>2. CASE c \in 1..Len(contexts)
      <4>1. contexts[c] = Ingress
              \/ \E h \in Goroutines : \E n \in 1..made[h] : contexts[c] = Address(h, n)
        BY <3>2 DEF HeapInv, HeapType
      <4>2. contexts'[c] = contexts[c]  BY <1>5, <3>2
      <4> QED  BY <2>6, <4>1, <4>2
    <3>3. c = Len(contexts) + 1 \/ c \in 1..Len(contexts)  BY <1>5
    <3> QED  BY <3>1, <3>2, <3>3
  <2>9. deriving' \in [Goroutines -> Derivations \cup {Idle}]
    BY <1>4 DEF HeapInv, HeapType
  <2> QED  BY <2>1, <2>2, <2>3, <2>5, <2>8, <2>9 DEF HeapType
<1>8. ASSUME NEW h \in Goroutines PROVE DerivingInv(h)'
  <2>1. deriving \in [Goroutines -> Derivations \cup {Idle}]  BY DEF HeapInv, HeapType
  <2>2. CASE h = g
    <3>1. deriving'[g] = Idle  BY <1>4, <2>1
    <3> QED  BY <2>2, <3>1 DEF DerivingInv
  <2>3. CASE h # g
    <3>1. deriving'[h] = deriving[h] /\ made'[h] = made[h]  BY <1>3, <1>4, <2>1, <2>3
    <3>2. SUFFICES ASSUME deriving[h] # Idle PROVE DerivingInv(h)'
      BY <3>1 DEF DerivingInv
    <3>3. made[h] < MaxContexts  BY <3>2 DEF HeapInv, DerivingInv
    <3>4. PICK u \in Updates, p \in 1..Len(contexts) :
            Stage(deriving[h], Value(Fresh(h)), u, Value(contexts[p]))
      BY <3>2 DEF HeapInv, DerivingInv
    <3>5. PICK a \in Addresses : a = Fresh(h)  BY <3>3, AddressFacts DEF HeapInv
    <3>6. PICK b \in Addresses : b = contexts[p]  BY AddressFacts DEF HeapInv
    <3>7. Fresh(h)' = a  BY <3>1, <3>5 DEF Fresh
    <3>8. contexts'[p] = b /\ p \in 1..Len(contexts')  BY <1>5, <3>6
    <3>9. Value(Fresh(h))' = Value(a)' /\ Value(contexts[p])' = Value(b)'
      BY <3>7, <3>8 DEF Value
    <3>10. Value(Fresh(h))' = Value(Fresh(h)) /\ Value(contexts[p])' = Value(contexts[p])
      BY <1>6, <3>5, <3>6, <3>9
    <3>11. Stage(deriving'[h], Value(Fresh(h))', u, Value(contexts[p])')
      BY <3>1, <3>4, <3>10
    <3> QED  BY <3>1, <3>3, <3>8, <3>11 DEF DerivingInv
  <2> QED  BY <2>2, <2>3
<1> QED  BY <1>4, <1>6, <1>7, <1>8 DEF HeapInv

\* AttributesFromContext hands out an array of its own.
LEMMA TakeLeaves ==
  ASSUME HeapInv, NEW g \in Goroutines, NEW c \in 1..Len(contexts), TakeAttributes(g, c)
  PROVE  UNCHANGED contextVars
BY DEF TakeAttributes, OwnSlice, contextVars

\* Where nothing of the contexts changes, nothing of what is known of them does.
LEMMA ContextsStand ==
  ASSUME HeapInv, UNCHANGED contextVars
  PROVE  HeapInv' /\ UNCHANGED [c \in 1..Len(contexts) |-> Value(contexts[c])]
<1>1. /\ objects' = objects /\ arrays' = arrays /\ contexts' = contexts
      /\ made' = made /\ deriving' = deriving
  BY DEF contextVars
<1>2. HeapType'  BY <1>1 DEF HeapInv, HeapType
<1>3. \A c \in 1..Len(contexts) : Value(contexts[c])' = Value(contexts[c])
  BY <1>1 DEF Value, Lookup, Position
<1>4. ASSUME NEW g \in Goroutines PROVE DerivingInv(g)'
  <2>1. Value(Fresh(g))' = Value(Fresh(g))
    BY <1>1 DEF Value, Lookup, Position, Fresh
  <2>2. DerivingInv(g)  BY DEF HeapInv
  <2> QED  BY <1>1, <1>3, <2>1, <2>2 DEF DerivingInv
<1> QED  BY <1>1, <1>2, <1>3, <1>4 DEF HeapInv

LEMMA ContextsInitInv == ContextsInit => HeapInv
<1> SUFFICES ASSUME ContextsInit PROVE HeapInv  OBVIOUS
<1>1. PICK begun \in {<<>>} \cup {<<[key |-> k, val |-> "ingress"]>> : k \in Keys},
           n \in 0..MaxSpare :
        /\ arrays = [a \in Addresses |->
             IF a = Ingress /\ begun # <<>> THEN begun \o Spare(n) ELSE <<>>]
        /\ objects = [a \in Addresses |-> IF a = Ingress /\ begun # <<>>
             THEN [Nothing EXCEPT !.bag = [array |-> Ingress, len |-> 1]] ELSE Nothing]
  BY DEF ContextsInit
<1>2. /\ Ingress \in Addresses /\ Nil \in Addresses /\ Ingress # Nil
  BY DEF Addresses, Ingress, Nil, Address
<1>3. Nothing \in Objects /\ Nothing.bag = NilSlice
  BY <1>2 DEF Nothing, Objects, Marks, Slices, NilSlice
<1>4. <<>> \in Seq(Entries)  OBVIOUS
<1>5. /\ contexts \in Seq(Addresses) /\ Len(contexts) >= 1
      /\ made \in [Goroutines -> Nat] /\ \A g \in Goroutines : made[g] < Len(contexts)
      /\ \A c \in 1..Len(contexts) : contexts[c] = Ingress
      /\ deriving \in [Goroutines -> Derivations \cup {Idle}]
      /\ \A g \in Goroutines : DerivingInv(g)
  <2>1. contexts = <<Ingress>>  BY DEF ContextsInit
  <2>2. contexts \in Seq(Addresses) /\ Len(contexts) = 1 /\ contexts[1] = Ingress
    BY <1>2, <2>1
  <2>3. made = [g \in Goroutines |-> 0] /\ deriving = [g \in Goroutines |-> Idle]
    BY DEF ContextsInit
  <2> QED  BY <2>2, <2>3 DEF DerivingInv
<1>6. CASE begun = <<>>
  <2>1. /\ objects = [a \in Addresses |-> Nothing]
        /\ arrays = [a \in Addresses |-> <<>>]
    BY <1>1, <1>6
  <2>2. \A a \in Addresses : GoodBag(a, objects[a], arrays[a])
    BY <1>3, <2>1 DEF GoodBag
  <2>3. objects \in [Addresses -> Objects] /\ arrays \in [Addresses -> Seq(Entries)]
        /\ arrays[Nil] = <<>>
    BY <1>2, <1>3, <1>4, <2>1
  <2> QED  BY <1>5, <2>2, <2>3 DEF HeapInv, HeapType
<1>7. CASE begun # <<>>
  <2>1. PICK k \in Keys : begun = <<[key |-> k, val |-> "ingress"]>>  BY <1>1, <1>7
  <2> DEFINE e == [key |-> k, val |-> "ingress"]
             t == begun \o Spare(n)
             o == [Nothing EXCEPT !.bag = [array |-> Ingress, len |-> 1]]
  <2>2. e \in Entries /\ n \in Nat  BY ContextAssumption DEF Entries
  <2>3. begun = Append(<<>>, e) /\ <<>> \in Seq(Entries) /\ Len(<<>>) = 0  BY <2>1
  <2>4. t \in Seq(Entries) /\ 1 \in 1..Len(t)
    <3>1. PICK s \in Seq(Entries) : s = <<>>  BY <2>3
    <3>2. Len(s) + 1 = 1 /\ t = Append(s, e) \o Spare(n)  BY <2>3, <3>1
    <3> HIDE DEF e, t
    <3>3. LET ext == Append(s, e) \o Spare(n)
          IN  ext \in Seq(Entries) /\ Len(s) + 1 \in 1..Len(ext)
      BY <2>2, Extended
    <3> QED  BY <3>2, <3>3
  <2>5. o \in Objects /\ o.bag = [array |-> Ingress, len |-> 1]
    BY <1>2, <1>3 DEF Objects, Slices
  <2>6. GoodBag(Ingress, o, t)  BY <2>4, <2>5 DEF GoodBag, OneEach
  <2> HIDE DEF o, t
  <2>7. /\ objects = [a \in Addresses |-> IF a = Ingress THEN o ELSE Nothing]
        /\ arrays = [a \in Addresses |-> IF a = Ingress THEN t ELSE <<>>]
    BY <1>1, <1>7 DEF o, t
  <2>8. \A a \in Addresses : GoodBag(a, objects[a], arrays[a])
    BY <1>3, <2>6, <2>7 DEF GoodBag
  <2>9. objects \in [Addresses -> Objects] /\ arrays \in [Addresses -> Seq(Entries)]
        /\ arrays[Nil] = <<>>
    BY <1>2, <1>3, <1>4, <2>4, <2>5, <2>7
  <2> QED  BY <1>5, <2>8, <2>9 DEF HeapInv, HeapType
<1> QED  BY <1>6, <1>7

\* A table of n values is a sequence of them.
LEMMA TableIsSeq ==
  ASSUME NEW S, NEW n \in Nat, NEW f \in [1..n -> S] PROVE f \in Seq(S) /\ Len(f) = n
  OBVIOUS

\* A table of the first n values, and the same with one more.
LEMMA OneMore ==
  ASSUME NEW n \in Nat, NEW f, f = [c \in 1..n |-> f[c]],
         NEW h, h = [c \in 1..n + 1 |-> h[c]], \A c \in 1..n : h[c] = f[c]
  PROVE  Len(f) = n /\ h = Append(f, h[n + 1])
<1> DEFINE S == {f[c] : c \in 1..n} \cup {h[n + 1]}
<1>1. f \in Seq(S) /\ Len(f) = n
  <2>1. \A c \in 1..n : f[c] \in S  OBVIOUS
  <2>2. f \in [1..n -> S]  BY <2>1
  <2> HIDE DEF S
  <2> QED  BY <2>2, TableIsSeq
<1>2. h \in Seq(S) /\ Len(h) = n + 1
  <2>1. \A c \in 1..n + 1 : h[c] \in S
    <3>1. \A c \in 1..n + 1 : c \in 1..n \/ c = n + 1  OBVIOUS
    <3> QED  BY <3>1
  <2>2. PICK m \in Nat : m = n + 1  OBVIOUS
  <2>3. h \in [1..m -> S]  BY <2>1, <2>2
  <2> HIDE DEF S
  <2>4. h \in Seq(S) /\ Len(h) = m  BY <2>3, TableIsSeq
  <2> QED  BY <2>2, <2>4
<1>3. h[n + 1] \in S  OBVIOUS
<1> DEFINE e == h[n + 1]
           t == Append(f, e)
<1>4. t \in Seq(S) /\ Len(t) = n + 1 /\ t[n + 1] = e /\ \A c \in 1..n : t[c] = f[c]
  <2> HIDE DEF S, e
  <2>1. e \in S  BY <1>3 DEF e
  <2> QED  BY <1>1, <2>1
<1>5. \A c \in 1..n + 1 : t[c] = h[c]
  <2>1. \A c \in 1..n + 1 : c \in 1..n \/ c = n + 1  OBVIOUS
  <2> HIDE DEF t
  <2> QED  BY <1>4, <2>1
<1> HIDE DEF S, t
<1>6. h = t  BY <1>2, <1>4, <1>5, SeqEqual
<1> QED  BY <1>1, <1>6 DEF t

\* Every step of a goroutine is a derivation, or changes nobody's value.
LEMMA WorkerImplements ==
  ASSUME HeapInv, NEW g \in Goroutines, WorkerStep(g)
  PROVE  /\ HeapInv'
         /\ \/ Contexts!Derive
            \/ UNCHANGED [c \in 1..Len(contexts) |-> Value(contexts[c])]
<1> DEFINE values == [c \in 1..Len(contexts) |-> Value(contexts[c])]
<1>1. CASE Builds(g)
  <2>1. HeapInv' /\ \A c \in 1..Len(contexts) : Value(contexts[c])' = Value(contexts[c])
    BY <1>1, BuildsKeeps
  <2>2. contexts' = contexts  BY <1>1 DEF Builds
  <2> QED  BY <2>1, <2>2
<1>2. CASE Publish(g)
  <2>1. /\ HeapInv' /\ contexts' = Append(contexts, Fresh(g))
        /\ \A a \in Addresses : Value(a)' = Value(a)
    BY <1>2, PublishKeeps
  <2>2. Len(contexts) < MaxContexts  BY <1>2 DEF Publish
  <2>3. PICK u \in Updates, p \in 1..Len(contexts) :
          Value(Fresh(g)) = Contexts!Updated(Value(contexts[p]), u)
    BY <1>2, DerivedIs DEF Publish
  <2>4. Fresh(g) \in Addresses
    <3>1. deriving[g].at # "idle"  BY <1>2 DEF Publish
    <3> QED  BY <3>1, UnderWay
  <2>5. contexts \in Seq(Addresses) /\ Len(contexts) \in Nat  BY DEF HeapInv, HeapType
  <2>6. /\ Len(contexts') = Len(contexts) + 1 /\ contexts'[Len(contexts) + 1] = Fresh(g)
        /\ \A c \in 1..Len(contexts) : contexts'[c] = contexts[c] /\ c \in 1..Len(contexts')
    BY <2>1, <2>4, <2>5
  <2>7. values' = [c \in 1..Len(contexts) + 1 |-> values'[c]]  BY <2>6
  <2>8. ASSUME NEW c \in 1..Len(contexts) PROVE values'[c] = values[c]
    <3>1. PICK a \in Addresses : a = contexts[c]  BY <2>5
    <3>2. Value(contexts[c])' = Value(a)'  BY <2>6, <3>1 DEF Value
    <3> QED  BY <2>1, <2>6, <3>1, <3>2
  <2>9. values'[Len(contexts) + 1] = Value(Fresh(g))
    <3>1. PICK a \in Addresses : a = Fresh(g)  BY <2>4
    <3>2. \A c : contexts'[c] = a => Value(contexts[c])' = Value(a)'  BY DEF Value
    <3>3. Len(contexts) + 1 \in 1..Len(contexts')  BY <2>5, <2>6
    <3> QED  BY <2>1, <2>6, <3>1, <3>2, <3>3
  <2>10. values[p] = Value(contexts[p])  OBVIOUS
  <2>11. values = [c \in 1..Len(contexts) |-> values[c]]  OBVIOUS
  <2>12. Len(values) = Len(contexts)
         /\ values' = Append(values, Contexts!Updated(values[p], u))
    <3> HIDE DEF values
    <3>1. Len(values) = Len(contexts)
          /\ values' = Append(values, values'[Len(contexts) + 1])
      BY <2>5, <2>7, <2>8, <2>11, OneMore
    <3> QED  BY <2>3, <2>9, <2>10, <3>1
  <2>13. Contexts!Derive
    BY <2>2, <2>12 DEF Contexts!Derive
  <2> QED  BY <2>1, <2>13
<1>3. CASE \E c \in 1..Len(contexts) : TakeAttributes(g, c)
  <2>1. UNCHANGED contextVars  BY <1>3, TakeLeaves
  <2> QED  BY <2>1, ContextsStand
<1> QED
  BY <1>1, <1>2, <1>3, HeaderBuilds, FactoryBuilds, MergeBuilds, ReplaceBuilds, CloneBuilds
  DEF WorkerStep, HeapInv

LEMMA ContextsInductive ==
  ASSUME HeapInv, service \in Services, [ServiceNext]_serviceVars
  PROVE  /\ HeapInv'
         /\ \/ Contexts!Derive
            \/ UNCHANGED [c \in 1..Len(contexts) |-> Value(contexts[c])]
<1>1. CASE \E g \in service.workers : WorkerStep(g)
  BY <1>1, ServicesAssumption, WorkerImplements
<1>2. CASE UNCHANGED contextVars  BY <1>2, ContextsStand
<1> QED
  BY <1>1, <1>2
  DEF ServiceNext, CollectorStep, TrackingStep, NetStep, FactoryStep, SetProvider, NewTracking,
      serviceVars, trackingVars

\* For any number of goroutines and of contexts, any updates and any room an append
\* leaves: contexts are values, since an address is written to by the goroutine that
\* allocated it and by no other, and not any more once a context leads there.
THEOREM ContextsKeepTheirValues == ServiceSafe => ContextsAreImmutable
<1>1. ServiceInit => HeapInv
  BY ContextsInitInv DEF ServiceInit, TrackingInit
<1>2. ServiceSafe => []HeapInv
  <2>1. service \in Services /\ HeapInv /\ [ServiceNext]_serviceVars => HeapInv'
    BY ContextsInductive
  <2> QED  BY <1>1, <2>1, ServiceFixed, PTL DEF ServiceSafe
<1>3. ServiceInit => Contexts!Init
  <2> SUFFICES ASSUME contexts = <<Ingress>>
               PROVE  Len([c \in 1..Len(contexts) |-> Value(contexts[c])]) = 1
    BY DEF ServiceInit, TrackingInit, ContextsInit, Contexts!Init
  <2> DEFINE f == [c \in 1..Len(contexts) |-> Value(contexts[c])]
  <2>1. f \in [1..1 -> {Value(contexts[1])}]
    <3>1. Len(contexts) = 1  OBVIOUS
    <3>2. \A c \in 1..1 : c = 1  OBVIOUS
    <3> QED  BY <3>1, <3>2
  <2>2. 1 \in Nat  OBVIOUS
  <2> HIDE DEF f
  <2> QED  BY <2>1, <2>2 DEF f
<1>4. service \in Services /\ HeapInv /\ [ServiceNext]_serviceVars
        => [Contexts!Derive]_([c \in 1..Len(contexts) |-> Value(contexts[c])])
  BY ContextsInductive
<1> QED  BY <1>2, <1>3, <1>4, ServiceFixed, PTL DEF ServiceSafe, ContextsAreImmutable, Contexts!Spec

=============================================================================
