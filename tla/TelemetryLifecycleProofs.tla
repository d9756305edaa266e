---------------------- MODULE TelemetryLifecycleProofs ----------------------
(***************************************************************************)
(* Proofs about TelemetryLifecycle, for any number of callers and any set  *)
(* of configurations, and about Delivery and ZapLogger, for any processes  *)
(* and writers.  The argument: at every moment each open exporter has      *)
(* exactly one owner that may shut it down: the construction before the   *)
(* providers exist, its provider from then on.  A provider that holds what *)
(* was due has answered an error, is being stopped, or is still to ask;    *)
(* and what a Log call has found out of level and bridge is what it would  *)
(* find out now, unless it was told that they moved.                       *)
(***************************************************************************)
EXTENDS ZapLogger, SequenceTheorems, TLAPS

\* The two orders list the three signals, each once.
LEMMA Orders ==
  /\ BuildOrder \in Seq(Signals) /\ Len(BuildOrder) = 3
  /\ ProviderOrder \in Seq(Signals) /\ Len(ProviderOrder) = 3
  /\ Listed(ProviderOrder) = Signals
  /\ \A n \in 1..3 : BuildOrder[n] \in Signals /\ ProviderOrder[n] \in Signals
  /\ \A s \in Signals : \E n \in 1..3 : BuildOrder[n] = s
  /\ \A s \in Signals : \E n \in 1..3 : ProviderOrder[n] = s
  /\ \A n, m \in 1..3 : n # m => BuildOrder[n] # BuildOrder[m]
  /\ \A n, m \in 1..3 : n # m => ProviderOrder[n] # ProviderOrder[m]
<1>1. /\ Len(BuildOrder) = 3 /\ Len(ProviderOrder) = 3
      /\ BuildOrder[1] = "trace" /\ BuildOrder[2] = "metric" /\ BuildOrder[3] = "log"
      /\ ProviderOrder[1] = "metric" /\ ProviderOrder[2] = "trace" /\ ProviderOrder[3] = "log"
  BY DEF BuildOrder, ProviderOrder
<1>2. BuildOrder \in Seq(Signals) /\ ProviderOrder \in Seq(Signals)
  BY DEF BuildOrder, ProviderOrder, Signals
<1>3. Listed(ProviderOrder) = Signals  BY <1>1 DEF Listed, Signals
<1> QED  BY <1>1, <1>2, <1>3 DEF Signals

\* A list of things to shut down is as long as the order it follows.
LEMMA UndoList ==
  ASSUME NEW what \in {"exporter", "provider"}, NEW order \in Seq(Signals)
  PROVE  /\ Undo(what, order) \in Seq([what : {"exporter", "provider"}, signal : Signals])
         /\ Len(Undo(what, order)) = Len(order)
         /\ \A n \in 1..Len(order) : /\ Undo(what, order)[n].what = what
                                     /\ Undo(what, order)[n].signal = order[n]
BY DEF Undo

\* The head of a list, and what its tail still lists.
LEMMA TailLists ==
  ASSUME NEW l \in Seq(Signals), l # <<>>
  PROVE  /\ Head(l) \in Signals /\ Tail(l) \in Seq(Signals)
         /\ \A s \in Signals : s \notin Listed(Tail(l)) => s = Head(l) \/ s \notin Listed(l)
<1>1. Len(l) \in Nat /\ Len(l) >= 1  OBVIOUS
<1>2. Head(l) \in Signals /\ Tail(l) \in Seq(Signals) /\ Len(Tail(l)) = Len(l) - 1  OBVIOUS
<1>3. \A n \in 2..Len(l) : Tail(l)[n - 1] = l[n]  OBVIOUS
<1>4. ASSUME NEW s \in Signals, s \notin Listed(Tail(l)), s \in Listed(l) PROVE s = Head(l)
  <2>1. PICK n \in 1..Len(l) : l[n] = s  BY <1>4 DEF Listed
  <2>2. CASE n = 1  BY <2>1, <2>2
  <2>3. CASE n \in 2..Len(l)
    <3>1. n - 1 \in 1..Len(Tail(l))  BY <1>1, <1>2, <2>3
    <3> QED  BY <3>1, <1>3, <1>4, <2>1, <2>3 DEF Listed
  <2> QED  BY <1>1, <2>1, <2>2, <2>3
<1> QED  BY <1>2, <1>4

-----------------------------------------------------------------------------
\* Nothing is built at the start.
LEMMA InitInv == Init => IInv
<1> SUFFICES ASSUME Init PROVE IInv  OBVIOUS
<1> USE DEF Init
<1>1. TypeOK
  <2>1. calls \in [Callers -> [at : {"none", "loop", "wait", "returned"}, rest : Seq(Signals)]]
    BY DEF NoCall
  <2>2. undo \in Seq([what : {"exporter", "provider"}, signal : Signals])  OBVIOUS
  <2>3. /\ shuts \in [Signals -> Nat]
        /\ exporter \in [Signals -> {"none", "open", "shut"}]
        /\ provider \in [Signals -> {"none", "up", "stopping", "down", "abandoned"}]
    OBVIOUS
  <2>4. built \in 0..3  OBVIOUS
  <2>5. global \in BOOLEAN  BY Zenon
  <2>6. config \in Configs  BY Zenon
  <2> QED  BY <2>1, <2>2, <2>3, <2>4, <2>5, <2>6 DEF TypeOK
<1>2. Ownership  BY DEF Ownership
<1>3. Stages  BY Orders DEF Stages
<1>4. Undoing  BY DEF Undoing
<1>5. Reached  BY DEF Reached, NoCall
<1> QED  BY <1>1, <1>2, <1>3, <1>4, <1>5 DEF IInv

\* A configuration is judged before anything is built.
LEMMA ConfigureInv ==
  ASSUME IInv, Configure
  PROVE  IInv'
<1> USE DEF IInv, Configure
<1>1. TypeOK'  BY DEF TypeOK
<1>2. Ownership'  BY DEF TypeOK, Ownership
<1>3. Stages'
  <2>1. /\ built = 0 /\ UNCHANGED <<built, exporter, provider, config>>
        /\ \A n \in 1..3 : exporter[BuildOrder[n]] = "none" /\ provider[BuildOrder[n]] = "none"
    BY DEF TypeOK, Stages
  <2>2. \A s \in Signals : exporter[s] = "none"  BY <2>1, Orders
  <2>3. pc' = "rejected" \/ pc' = "noop" \/ (pc' = "exporters" /\ ~Rejected(config) /\ Exports(config))
    OBVIOUS
  <2>4. ~Rejected(config)' /\ Exports(config)' <=> ~Rejected(config) /\ Exports(config)
    BY <2>1 DEF Rejected, Exports, Insecure
  <2> QED  BY <2>1, <2>2, <2>3, <2>4 DEF Stages
<1>4. Undoing'  BY DEF TypeOK, Undoing
<1>5. Reached'  BY DEF TypeOK, Reached, Usable
<1> QED  BY <1>1, <1>2, <1>3, <1>4, <1>5

\* The next exporter is open and nobody's but the construction's.
LEMMA NewExporterInv ==
  ASSUME IInv, NewExporter
  PROVE  IInv'
<1> USE DEF IInv, NewExporter
<1> DEFINE s == BuildOrder[built + 1]
<1>0. built + 1 \in 1..3 /\ built \in 0..2  BY DEF TypeOK
<1>a. s \in Signals /\ built + 1 \in 1..3 /\ built \in 0..2  BY <1>0, Orders
<1>b. exporter[s] = "none" /\ provider[s] = "none"  BY <1>a DEF TypeOK, Stages
<1>1. TypeOK'  BY <1>a DEF TypeOK
<1>2. Ownership'  BY <1>a, <1>b DEF TypeOK, Ownership
<1>3. Stages'
  <2>1. ASSUME NEW n \in 1..3
        PROVE  /\ exporter'[BuildOrder[n]] = IF n <= built' THEN "open" ELSE "none"
               /\ provider'[BuildOrder[n]] = "none"
    <3>1. BuildOrder[n] \in Signals  BY Orders
    <3>2. CASE n = built + 1  BY <3>1, <3>2, <1>a DEF TypeOK, Stages
    <3>3. CASE n # built + 1
      <4>1. BuildOrder[n] # s  BY <3>3, <1>a, Orders
      <4>2. n <= built' <=> n <= built  BY <3>3, <1>a
      <4> QED  BY <3>1, <4>1, <4>2, <1>a DEF TypeOK, Stages
    <3> QED  BY <3>2, <3>3
  <2> QED  BY <2>1 DEF Stages
<1>4. Undoing'  BY DEF TypeOK, Undoing
<1>5. Reached'  BY DEF TypeOK, Reached, Usable
<1> QED  BY <1>1, <1>2, <1>3, <1>4, <1>5

\* What was built is what is open, and is what is rolled back.
LEMMA BuildFailsInv ==
  ASSUME IInv, BuildFails
  PROVE  IInv'
<1> USE DEF IInv, BuildFails, ExporterFails, ResourceFails, RollBackExporters, RollBack
<1> DEFINE l == SubSeq(BuildOrder, 1, built)
<1>a. l \in Seq(Signals) /\ Len(l) = built /\ built \in 0..3
      /\ \A n \in 1..built : l[n] = BuildOrder[n]
  <2>1. built \in 0..3  BY DEF TypeOK
  <2>2. \A n \in 1..built : BuildOrder[n] \in Signals  BY <2>1, Orders
  <2>3. /\ l \in Seq(Signals) /\ Len(l) = IF 1 <= built THEN built - 1 + 1 ELSE 0
        /\ \A n \in 1..(built - 1 + 1) : l[n] = BuildOrder[1 + n - 1]
    BY <2>1, <2>2, SubSeqProperties
  <2> HIDE DEF l
  <2> QED  BY <2>1, <2>3
<1>b. undo' = Undo("exporter", l)  OBVIOUS
<1> HIDE DEF l
<1>c. undo' \in Seq([what : {"exporter", "provider"}, signal : Signals])
      /\ Len(undo') = built
      /\ \A n \in 1..built : undo'[n].what = "exporter" /\ undo'[n].signal = BuildOrder[n]
  <2>1. "exporter" \in {"exporter", "provider"}  OBVIOUS
  <2>2. /\ Undo("exporter", l) \in Seq([what : {"exporter", "provider"}, signal : Signals])
        /\ Len(Undo("exporter", l)) = Len(l)
        /\ \A n \in 1..Len(l) : /\ Undo("exporter", l)[n].what = "exporter"
                                /\ Undo("exporter", l)[n].signal = l[n]
    BY <2>1, <1>a, UndoList
  <2> QED  BY <2>2, <1>a, <1>b
<1>1. TypeOK'  BY <1>c DEF TypeOK
<1>2. Ownership'  BY DEF TypeOK, Ownership
<1>3. Stages'  BY DEF TypeOK, Stages
<1>4. Undoing'
  <2>1. ASSUME NEW s \in Signals, exporter[s] = "open"
        PROVE  \E n \in 1..built : undo'[n].signal = s
    <3>1. PICK n \in 1..3 : BuildOrder[n] = s  BY Orders
    <3>2. n <= built  BY <2>1, <3>1 DEF Stages
    <3> QED  BY <3>1, <3>2, <1>a, <1>c
  <2>2. ASSUME NEW n \in 1..built
        PROVE  /\ exporter[undo'[n].signal] = "open" /\ provider[undo'[n].signal] = "none"
               /\ \A m \in 1..built : m # n => undo'[m].signal # undo'[n].signal
    <3>1. n \in 1..3 /\ n <= built  BY <1>a
    <3>2. \A m \in 1..built : m \in 1..3  BY <1>a
    <3> QED  BY <3>1, <3>2, <1>c, Orders DEF Stages
  <2> QED  BY <2>1, <2>2, <1>c DEF Undoing
<1>5. Reached'  BY DEF TypeOK, Reached, Usable
<1> QED  BY <1>1, <1>2, <1>3, <1>4, <1>5

\* All three are open when the providers take them.
LEMMA NewProvidersInv ==
  ASSUME IInv, NewProviders
  PROVE  IInv'
<1> USE DEF IInv, NewProviders
<1>1. TypeOK'  BY DEF TypeOK
<1>2. Ownership'
  <2>1. ASSUME NEW s \in Signals PROVE exporter[s] = "open"
    <3>1. PICK n \in 1..3 : BuildOrder[n] = s  BY Orders
    <3> QED  BY <3>1 DEF Stages
  <2> QED  BY <2>1 DEF TypeOK, Ownership
<1>3. Stages'  BY DEF TypeOK, Stages
<1>4. Undoing'  BY DEF TypeOK, Undoing
<1>5. Reached'  BY DEF TypeOK, Reached, Usable
<1> QED  BY <1>1, <1>2, <1>3, <1>4, <1>5

\* The providers own what is open, so rolling them back is enough.
LEMMA NewFactoryInv ==
  ASSUME IInv, NewFactory
  PROVE  IInv'
<1> USE DEF IInv, NewFactory, RollBack, Owners
<1>a. undo' = undo \/ ( /\ undo' \in Seq([what : {"exporter", "provider"}, signal : Signals])
                        /\ Len(undo') = 3
                        /\ \A n \in 1..3 : /\ undo'[n].what = "provider"
                                           /\ undo'[n].signal = ProviderOrder[n] )
  <2>1. "provider" \in {"exporter", "provider"}  OBVIOUS
  <2>2. /\ Undo("provider", ProviderOrder) \in Seq([what : {"exporter", "provider"}, signal : Signals])
        /\ Len(Undo("provider", ProviderOrder)) = 3
        /\ \A n \in 1..3 : /\ Undo("provider", ProviderOrder)[n].what = "provider"
                           /\ Undo("provider", ProviderOrder)[n].signal = ProviderOrder[n]
    BY <2>1, UndoList, Orders
  <2> QED  BY <2>2
<1>1. TypeOK'  BY <1>a DEF TypeOK
<1>2. Ownership'  BY DEF TypeOK, Ownership
<1>3. Stages'  BY DEF TypeOK, Stages
<1>4. Undoing'
  <2> SUFFICES ASSUME pc' = "rollback" PROVE Undoing'  BY DEF Undoing
  <2>1. /\ Len(undo') = 3
        /\ \A n \in 1..3 : undo'[n].what = "provider" /\ undo'[n].signal = ProviderOrder[n]
    BY UndoList, Orders
  <2>2. \A s \in Signals : exporter[s] = "open" /\ provider[s] = "up"  BY DEF Stages, Ownership
  <2>3. \A n \in 1..3 : ProviderOrder[n] \in Signals  BY Orders
  <2> QED  BY <2>1, <2>2, <2>3, Orders DEF Undoing
<1>5. Reached'  BY DEF TypeOK, Reached, Usable
<1> QED  BY <1>1, <1>2, <1>3, <1>4, <1>5

\* One owner shuts its exporter, the others still have theirs.
LEMMA RollBackStepInv ==
  ASSUME IInv, RollBackStep
  PROVE  IInv'
<1> USE DEF IInv, RollBackStep
<1> DEFINE s == Head(undo).signal
<1>a. /\ Len(undo) \in Nat /\ Len(undo) >= 1 /\ Head(undo) = undo[1]
      /\ undo' \in Seq([what : {"exporter", "provider"}, signal : Signals])
      /\ Len(undo') = Len(undo) - 1
      /\ \A n \in 1..Len(undo') : undo'[n] = undo[n + 1] /\ n + 1 \in 1..Len(undo)
  BY DEF TypeOK
<1>b. \A n \in 1..Len(undo) : undo[n].signal \in Signals
  <2>1. undo \in Seq([what : {"exporter", "provider"}, signal : Signals])  BY DEF TypeOK
  <2>2. ASSUME NEW n \in 1..Len(undo) PROVE undo[n].signal \in Signals
    <3>1. undo[n] \in [what : {"exporter", "provider"}, signal : Signals]  BY <2>1, ElementOfSeq
    <3> QED  BY <3>1
  <2> QED  BY <2>2
<1>c. s \in Signals  BY <1>a, <1>b
<1>d. exporter[s] = "open" /\ provider[s] = IF Head(undo).what = "provider" THEN "up" ELSE "none"
  BY <1>a DEF Undoing
<1>1. TypeOK'
  <2>1. shuts' \in [Signals -> Nat]  BY <1>c DEF TypeOK
  <2>2. exporter' \in [Signals -> {"none", "open", "shut"}]  BY <1>c DEF TypeOK
  <2>3. provider' \in [Signals -> {"none", "up", "stopping", "down", "abandoned"}]  BY <1>c DEF TypeOK
  <2> QED  BY <2>1, <2>2, <2>3, <1>a DEF TypeOK
<1>2. Ownership'
  <2>1. \A t \in Signals : t # s => /\ exporter'[t] = exporter[t] /\ shuts'[t] = shuts[t]
                                   /\ provider'[t] = provider[t]
    BY <1>c DEF TypeOK
  <2>2. /\ exporter'[s] = "shut" /\ shuts'[s] = 1
        /\ provider'[s] = IF Head(undo).what = "provider" THEN "down" ELSE "none"
    BY <1>c, <1>d DEF TypeOK, Ownership
  <2> QED  BY <2>1, <2>2, <1>c DEF Ownership
<1>3. Stages'  BY DEF TypeOK, Stages
<1>4. Undoing'
  <2>1. \A t \in Signals : t # s => exporter'[t] = exporter[t] /\ provider'[t] = provider[t]
    BY <1>c DEF TypeOK
  <2>2. exporter'[s] = "shut"  BY <1>c DEF TypeOK
  <2>3. ASSUME NEW t \in Signals, exporter'[t] = "open"
        PROVE  \E n \in 1..Len(undo') : undo'[n].signal = t
    <3>1. t # s /\ exporter[t] = "open"  BY <2>1, <2>2, <2>3
    <3>2. PICK n \in 1..Len(undo) : undo[n].signal = t  BY <3>1 DEF Undoing
    <3>3. n # 1  BY <3>1, <3>2, <1>a
    <3>4. n - 1 \in 1..Len(undo')  BY <3>3, <1>a
    <3>5. undo'[n - 1] = undo[n]  BY <3>4, <1>a
    <3> QED  BY <3>2, <3>4, <3>5
  <2>4. ASSUME NEW n \in 1..Len(undo')
        PROVE  /\ exporter'[undo'[n].signal] = "open"
               /\ provider'[undo'[n].signal] = IF undo'[n].what = "provider" THEN "up" ELSE "none"
               /\ \A m \in 1..Len(undo') : m # n => undo'[m].signal # undo'[n].signal
    <3>1. undo'[n] = undo[n + 1] /\ n + 1 \in 1..Len(undo) /\ n + 1 # 1  BY <1>a
    <3>2. undo[n + 1].signal \in Signals  BY <3>1, <1>b
    <3>3. undo[n + 1].signal # s  BY <3>1, <1>a DEF Undoing
    <3>4. \A m \in 1..Len(undo') : m # n => undo'[m].signal # undo'[n].signal
      <4> SUFFICES ASSUME NEW m \in 1..Len(undo'), m # n PROVE undo'[m].signal # undo'[n].signal
        OBVIOUS
      <4>1. undo'[m] = undo[m + 1] /\ m + 1 \in 1..Len(undo) /\ m + 1 # n + 1  BY <1>a
      <4> QED  BY <3>1, <4>1 DEF Undoing
    <3> QED  BY <3>1, <3>2, <3>3, <3>4, <2>1 DEF Undoing
  <2> QED  BY <2>3, <2>4 DEF Undoing
<1>5. Reached'  BY DEF TypeOK, Reached, Usable
<1> QED  BY <1>1, <1>2, <1>3, <1>4, <1>5

\* Nothing left to do means nothing left open.
LEMMA RolledBackInv ==
  ASSUME IInv, RolledBack
  PROVE  IInv'
<1> USE DEF IInv, RolledBack
<1>1. TypeOK'  BY DEF TypeOK
<1>2. Ownership'  BY DEF TypeOK, Ownership
<1>3. Stages'
  <2>1. \A s \in Signals : exporter[s] # "open"  BY DEF Undoing
  <2> QED  BY <2>1 DEF Stages
<1>4. Undoing'  BY DEF TypeOK, Undoing
<1>5. Reached'  BY DEF TypeOK, Reached, Usable
<1> QED  BY <1>1, <1>2, <1>3, <1>4, <1>5

\* ApplyGlobals touches the globals only.
LEMMA ApplyGlobalsInv ==
  ASSUME IInv, ApplyGlobals
  PROVE  IInv'
<1> USE DEF IInv, ApplyGlobals
<1>1. TypeOK'  BY DEF TypeOK
<1>2. Ownership'  BY DEF TypeOK, Ownership
<1>3. Stages'  BY DEF TypeOK, Stages
<1>4. Undoing'  BY DEF TypeOK, Undoing
<1>5. Reached'  BY DEF TypeOK, Reached, Usable
<1> QED  BY <1>1, <1>2, <1>3, <1>4, <1>5

\* A stopping provider's exporter is open until here, so this shuts it once.
LEMMA ProviderDownInv ==
  ASSUME IInv, NEW s \in Signals, ProviderDown(s)
  PROVE  IInv'
<1> USE DEF IInv, ProviderDown
<1>1. TypeOK'  BY DEF TypeOK
<1>2. Ownership'  BY DEF TypeOK, Ownership
<1>3. Stages'  BY DEF TypeOK, Stages
<1>4. Undoing'  BY DEF TypeOK, Undoing
<1>5. Reached'  BY DEF TypeOK, Reached, Usable
<1> QED  BY <1>1, <1>2, <1>3, <1>4, <1>5

\* A call starts with every provider still to ask.
LEMMA ShutdownCalledInv ==
  ASSUME IInv, NEW c \in Callers, ShutdownCalled(c)
  PROVE  IInv'
<1> USE DEF IInv, ShutdownCalled
<1>1. TypeOK'
  <2>1. (IF pc = "live" THEN ProviderOrder ELSE <<>>) \in Seq(Signals)  BY Orders
  <2> QED  BY <2>1 DEF TypeOK
<1>2. Ownership'  BY DEF TypeOK, Ownership
<1>3. Stages'  BY DEF TypeOK, Stages
<1>4. Undoing'  BY DEF TypeOK, Undoing
<1>5. Reached'
  <2>1. ASSUME NEW d \in Callers, d # c PROVE calls'[d] = calls[d]  BY <2>1 DEF TypeOK
  <2>2. calls'[c] = [at |-> "loop", rest |-> IF pc = "live" THEN ProviderOrder ELSE <<>>]
    BY DEF TypeOK
  <2>3. pc = "live" => \A s \in Signals : s \in Listed(ProviderOrder)  BY Orders
  <2>4. pc = "noop" => \A s \in Signals : provider[s] # "up"  BY Orders DEF Stages
  <2> QED  BY <2>1, <2>2, <2>3, <2>4 DEF Reached, Usable
<1> QED  BY <1>1, <1>2, <1>3, <1>4, <1>5

\* The provider asked is no longer up.
LEMMA ProviderStopsInv ==
  ASSUME IInv, NEW c \in Callers, ProviderStops(c)
  PROVE  IInv'
<1> USE DEF IInv, ProviderStops
<1> DEFINE s == Head(calls[c].rest)
<1>a. s \in Signals  BY TailLists DEF TypeOK
<1>b. provider[s] = "up" => pc = "live"
  <2>1. pc \in Usable  BY DEF Reached
  <2>2. ASSUME pc = "noop" PROVE provider[s] = "none"
    <3>1. PICK n \in 1..3 : BuildOrder[n] = s  BY <1>a, Orders
    <3> QED  BY <3>1, <2>2 DEF Stages
  <2> QED  BY <2>1, <2>2 DEF Usable
<1>c. \/ provider' = provider
      \/ /\ provider[s] = "up" /\ provider'[s] = "stopping" /\ pc = "live"
         /\ \A t \in Signals : t # s => provider'[t] = provider[t]
  BY <1>a, <1>b DEF TypeOK
<1>d. pc \in Usable  BY DEF Reached
<1>1. TypeOK'  BY DEF TypeOK
<1>2. Ownership'  BY <1>a, <1>c DEF Ownership
<1>3. Stages'  BY <1>a, <1>c DEF Stages
<1>4. Undoing'  BY <1>d DEF Undoing, Usable
<1>5. Reached'  BY DEF TypeOK, Reached, Usable
<1> QED  BY <1>1, <1>2, <1>3, <1>4, <1>5

\* So is the tracer provider that did not stop; its exporter stays open.
LEMMA ProviderAbandonsInv ==
  ASSUME IInv, NEW c \in Callers, ProviderAbandons(c)
  PROVE  IInv'
<1> USE DEF IInv, ProviderAbandons
<1>a. "trace" \in Signals  BY DEF Signals
<1>b. pc = "live"
  <2>1. pc \in Usable  BY DEF Reached
  <2>2. ASSUME pc = "noop" PROVE provider["trace"] = "none"
    <3>1. PICK n \in 1..3 : BuildOrder[n] = "trace"  BY <1>a, Orders
    <3> QED  BY <3>1, <2>2 DEF Stages
  <2> QED  BY <2>1, <2>2 DEF Usable
<1>c. /\ provider["trace"] = "up" /\ provider'["trace"] = "abandoned"
      /\ \A t \in Signals : t # "trace" => provider'[t] = provider[t]
  BY <1>a DEF TypeOK
<1>1. TypeOK'  BY DEF TypeOK
<1>2. Ownership'  BY <1>a, <1>b, <1>c DEF Ownership
<1>3. Stages'  BY <1>a, <1>b, <1>c DEF Stages
<1>4. Undoing'  BY <1>b DEF Undoing
<1>5. Reached'  BY DEF TypeOK, Reached, Usable
<1> QED  BY <1>1, <1>2, <1>3, <1>4, <1>5

\* The loop drops a provider that was asked, whatever it said.
LEMMA ProviderAnswersInv ==
  ASSUME IInv, NEW c \in Callers, NEW failed \in BOOLEAN, ProviderAnswers(c, failed)
  PROVE  IInv'
<1> USE DEF IInv, ProviderAnswers, Remaining
<1>a. /\ calls[c].rest \in Seq(Signals) /\ calls[c].rest # <<>>
      /\ provider[Head(calls[c].rest)] # "up" /\ pc \in Usable
  BY DEF TypeOK, Reached
<1>b. /\ Tail(calls[c].rest) \in Seq(Signals)
      /\ \A s \in Signals : s \notin Listed(Tail(calls[c].rest)) =>
           s = Head(calls[c].rest) \/ s \notin Listed(calls[c].rest)
  BY <1>a, TailLists
<1>c. /\ calls'[c] = [at |-> "loop", rest |-> Tail(calls[c].rest)]
      /\ \A d \in Callers : d # c => calls'[d] = calls[d]
  BY DEF TypeOK
<1>1. TypeOK'  BY <1>b DEF TypeOK
<1>2. Ownership'  BY DEF TypeOK, Ownership
<1>3. Stages'  BY DEF TypeOK, Stages
<1>4. Undoing'  BY DEF TypeOK, Undoing
<1>5. Reached'
  <2>1. ASSUME NEW s \in Signals, s \notin Listed(calls'[c].rest) PROVE provider[s] # "up"
    BY <2>1, <1>a, <1>b, <1>c DEF Reached
  <2> QED  BY <2>1, <1>a, <1>c DEF Reached
<1> QED  BY <1>1, <1>2, <1>3, <1>4, <1>5

\* The loop ends when there is nothing left to ask.
LEMMA ShutdownReturnsInv ==
  ASSUME IInv, NEW c \in Callers, ShutdownReturns(c)
  PROVE  IInv'
<1> USE DEF IInv, ShutdownReturns
<1>1. TypeOK'  BY DEF TypeOK
<1>2. Ownership'  BY DEF TypeOK, Ownership
<1>3. Stages'  BY DEF TypeOK, Stages
<1>4. Undoing'  BY DEF TypeOK, Undoing
<1>5. Reached'  BY DEF TypeOK, Reached, Usable
<1> QED  BY <1>1, <1>2, <1>3, <1>4, <1>5

-----------------------------------------------------------------------------
\* Every step keeps the ownership.
LEMMA StepInv == IInv /\ [Next]_vars => IInv'
<1> SUFFICES ASSUME IInv, [Next]_vars PROVE IInv'  OBVIOUS
<1>1. CASE Construction
  BY <1>1, ConfigureInv, NewExporterInv, BuildFailsInv, NewProvidersInv, NewFactoryInv,
     RollBackStepInv, RolledBackInv DEF Construction
<1>2. CASE ApplyGlobals  BY <1>2, ApplyGlobalsInv
<1>3. ASSUME NEW s \in Signals, ProviderDown(s) PROVE IInv'  BY <1>3, ProviderDownInv
<1>4. ASSUME NEW c \in Callers, ShutdownCalled(c) \/ ShutdownGoesOn(c) PROVE IInv'
  BY <1>4, ShutdownCalledInv, ProviderStopsInv, ProviderAbandonsInv, ProviderAnswersInv,
     ShutdownReturnsInv
  DEF ShutdownGoesOn
<1>5. CASE UNCHANGED vars
  <2> USE <1>5 DEF vars, IInv
  <2>1. TypeOK'  BY DEF TypeOK
  <2>2. Ownership'  BY DEF Ownership
  <2>3. Stages'  BY DEF Stages, Rejected, Exports, Insecure
  <2>4. Undoing'  BY DEF Undoing
  <2>5. Reached'  BY DEF Reached, Listed
  <2> QED  BY <2>1, <2>2, <2>3, <2>4, <2>5
<1> QED  BY <1>1, <1>2, <1>3, <1>4, <1>5 DEF Next

\* Every open exporter has one owner, which alone may shut it down, at every point of
\* construction, rollback and shutdown.
THEOREM InductiveInvariant == Spec => []IInv
<1>1. Init => IInv  BY InitInv
<1>2. IInv /\ [Next]_vars => IInv'  BY StepInv
<1> QED  BY <1>1, <1>2, PTL DEF Spec

\* buildTelemetry's rule that the exporters are in neither the rollback list nor
\* the shutdown handlers once providers own them: no exporter is shut down twice.
THEOREM ShutsOnce == Spec => []ShutAtMostOnce
<1>1. IInv => ShutAtMostOnce  BY DEF IInv, Ownership, ShutAtMostOnce
<1> QED  BY <1>1, InductiveInvariant, PTL

\* newExporters and buildTelemetry roll back whatever they built.
THEOREM NoLeak == Spec => []FailureLeaksNothing
<1>1. IInv => FailureLeaksNothing  BY DEF IInv, Stages, FailureLeaksNothing
<1> QED  BY <1>1, InductiveInvariant, PTL

\* The shutdown handlers go on after an error.
THEOREM ReachesAll == Spec => []ShutdownReachesAll
<1>1. IInv => ShutdownReachesAll
  <2> SUFFICES ASSUME IInv, NEW c \in Callers, calls[c].at = "returned", NEW s \in Signals
               PROVE  provider[s] # "up"
    BY DEF ShutdownReachesAll
  <2>1. calls[c].rest = <<>>  BY DEF IInv, Reached
  <2>2. s \notin Listed(calls[c].rest)  BY <2>1 DEF Listed
  <2> QED  BY <2>2 DEF IInv, Reached
<1> QED  BY <1>1, InductiveInvariant, PTL

\* The security policy of newTelemetry, for every configuration: it is applied
\* after normalizeEndpoint has decided what is insecure.
THEOREM Strict == Spec => []StrictIsSecure
<1>1. IInv => StrictIsSecure
  <2> SUFFICES ASSUME IInv, config.strict, ~config.allowed,
                      NEW s \in Signals, exporter[s] = "open"
               PROVE  config.endpoint = "https" /\ ~config.insecure
    BY DEF StrictIsSecure
  <2>1. PICK n \in 1..3 : BuildOrder[n] = s  BY Orders
  <2>2. pc \notin {"new", "rejected", "noop"}
    <3>1. pc # "rejected"  BY DEF IInv, Stages
    <3>2. pc \in {"new", "noop"} => exporter[s] = "none"  BY <2>1 DEF IInv, Stages
    <3> QED  BY <3>1, <3>2
  <2>3. ~Rejected(config) /\ Exports(config)  BY <2>2 DEF IInv, Stages
  <2>4. config \in ConfigType  BY LifecycleAssumption DEF IInv, TypeOK
  <2> QED  BY <2>3, <2>4 DEF Rejected, Exports, Insecure, ConfigType
<1> QED  BY <1>1, InductiveInvariant, PTL

-----------------------------------------------------------------------------
\* Who holds an exporter depends on it and on its having a provider only.
LEMMA SameHolder ==
  ASSUME NEW s \in Signals, exporter'[s] = exporter[s],
         (provider'[s] = "none") <=> (provider[s] = "none")
  PROVE  Holder(s)' = Holder(s)
BY DEF Holder

\* The steps that open, hand over and close exporters do so by the lease, the
\* others are not seen by it.
LEMMA StepRefines == IInv /\ [Next]_vars => [Lease!Next]_Lease!vars
<1> SUFFICES ASSUME IInv, [Next]_vars PROVE [Lease!Next]_Lease!vars  OBVIOUS
<1> USE DEF Lease!vars
<1>1. ASSUME \A s \in Signals : /\ exporter'[s] = exporter[s]
                                /\ (provider'[s] = "none") <=> (provider[s] = "none"),
             shuts' = shuts
      PROVE  UNCHANGED Lease!vars
  <2>1. \A s \in Signals : Holder(s)' = Holder(s)  BY <1>1, SameHolder
  <2> QED  BY <2>1, <1>1
<1>2. CASE NewExporter
  <2>1. built + 1 \in 1..3 /\ built \in 0..2  BY <1>2 DEF NewExporter, IInv, TypeOK
  <2>2. PICK s \in Signals : s = BuildOrder[built + 1]  BY <2>1, Orders
  <2>3. exporter[s] = "none" /\ provider[s] = "none"  BY <1>2, <2>1, <2>2 DEF NewExporter, IInv, Stages
  <2>4. /\ exporter'[s] = "open" /\ provider' = provider /\ shuts' = shuts
        /\ \A t \in Signals : t # s => exporter'[t] = exporter[t]
    BY <1>2, <2>2 DEF NewExporter, IInv, TypeOK
  <2>5. Holder(s) = "nobody" /\ Holder(s)' = "builder"  BY <2>3, <2>4 DEF Holder
  <2>6. \A t \in Signals : t # s => Holder(t)' = Holder(t)  BY <2>4, SameHolder
  <2>7. Lease!Open(s)  BY <2>2, <2>4, <2>5, <2>6 DEF Lease!Open
  <2> QED  BY <2>2, <2>7 DEF Lease!Next
<1>3. CASE NewProviders
  <2>1. ASSUME NEW s \in Signals PROVE Holder(s) = "builder" /\ Holder(s)' = "provider"
    <3>1. PICK n \in 1..3 : BuildOrder[n] = s  BY Orders
    <3>2. exporter[s] = "open" /\ provider[s] = "none"
      BY <1>3, <3>1 DEF NewProviders, IInv, Stages
    <3>3. exporter'[s] = "open" /\ provider'[s] = "up"  BY <1>3, <3>2 DEF NewProviders
    <3> QED  BY <3>2, <3>3 DEF Holder
  <2>2. shuts' = shuts  BY <1>3 DEF NewProviders
  <2>3. Lease!HandOver(Signals)  BY <2>1, <2>2 DEF Lease!HandOver
  <2> QED  BY <2>3 DEF Lease!Next
<1>4. ASSUME NEW s \in Signals, exporter[s] = "open", exporter'[s] = "shut",
             shuts' = [shuts EXCEPT ![s] = @ + 1],
             \A t \in Signals : t # s => exporter'[t] = exporter[t] /\ provider'[t] = provider[t]
      PROVE  Lease!Next
  <2>1. shuts[s] = 0  BY <1>4 DEF IInv, Ownership
  <2>2. shuts' = [shuts EXCEPT ![s] = 1]  BY <1>4, <2>1
  <2>3. Holder(s) \in {"builder", "provider"} /\ Holder(s)' = "closed"  BY <1>4 DEF Holder
  <2>4. \A t \in Signals : t # s => Holder(t)' = Holder(t)  BY <1>4, SameHolder
  <2>5. Lease!Close(s)  BY <2>2, <2>3, <2>4 DEF Lease!Close
  <2> QED  BY <2>5 DEF Lease!Next
<1>5. CASE RollBackStep
  <2>1. Len(undo) >= 1 /\ Len(undo) \in Nat /\ Head(undo) = undo[1]
    BY <1>5 DEF RollBackStep, IInv, TypeOK
  <2>2. undo[1] \in [what : {"exporter", "provider"}, signal : Signals]
    <3>1. undo \in Seq([what : {"exporter", "provider"}, signal : Signals])  BY DEF IInv, TypeOK
    <3>2. 1 \in 1..Len(undo)  BY <2>1
    <3> QED  BY <3>1, <3>2, ElementOfSeq
  <2>3. PICK s \in Signals : s = Head(undo).signal  BY <2>1, <2>2
  <2>4. exporter[s] = "open"  BY <1>5, <2>1, <2>3 DEF RollBackStep, IInv, Undoing
  <2>5. /\ exporter'[s] = "shut" /\ shuts' = [shuts EXCEPT ![s] = @ + 1]
        /\ \A t \in Signals : t # s => exporter'[t] = exporter[t] /\ provider'[t] = provider[t]
    BY <1>5, <2>3 DEF RollBackStep, IInv, TypeOK
  <2> QED  BY <2>4, <2>5, <1>4
<1>6. ASSUME NEW s \in Signals, ProviderDown(s) PROVE Lease!Next
  <2>1. exporter[s] = "open"  BY <1>6 DEF ProviderDown, IInv, Ownership
  <2>2. /\ exporter'[s] = "shut" /\ shuts' = [shuts EXCEPT ![s] = @ + 1]
        /\ \A t \in Signals : t # s => exporter'[t] = exporter[t] /\ provider'[t] = provider[t]
    BY <1>6 DEF ProviderDown, IInv, TypeOK
  <2> QED  BY <2>1, <2>2, <1>4
<1>7. ASSUME NEW c \in Callers, ProviderStops(c) \/ ProviderAbandons(c)
      PROVE  UNCHANGED Lease!vars
  <2>1. exporter' = exporter /\ shuts' = shuts  BY <1>7 DEF ProviderStops, ProviderAbandons
  <2>2. \A s \in Signals : (provider'[s] = "none") <=> (provider[s] = "none")
    BY <1>7 DEF ProviderStops, ProviderAbandons, IInv, TypeOK
  <2> QED  BY <2>1, <2>2, <1>1
<1>8. CASE UNCHANGED <<exporter, shuts, provider>>  BY <1>8, <1>1
<1>9. CASE Construction
  BY <1>2, <1>3, <1>5, <1>8, <1>9
  DEF Construction, Configure, BuildFails, ExporterFails, ResourceFails, RollBackExporters,
      NewFactory, RolledBack
<1>10. ASSUME NEW c \in Callers, ShutdownCalled(c) \/ ShutdownGoesOn(c)
       PROVE  [Lease!Next]_Lease!vars
  <2>1. CASE ProviderStops(c) \/ ProviderAbandons(c)  BY <2>1, <1>7
  <2>2. CASE ~ProviderStops(c) /\ ~ProviderAbandons(c)
    <3>1. UNCHANGED <<exporter, shuts, provider>>
      BY <1>10, <2>2 DEF ShutdownCalled, ShutdownGoesOn, ProviderAnswers, ShutdownReturns
    <3> QED  BY <3>1, <1>8
  <2> QED  BY <2>1, <2>2
<1>11. CASE ApplyGlobals \/ UNCHANGED vars  BY <1>11, <1>8 DEF ApplyGlobals, vars
<1> QED  BY <1>6, <1>9, <1>10, <1>11 DEF Next

\* Construction, rollback and shutdown together keep to the lease of each
\* exporter: opened by the construction, handed over at most once, closed once,
\* by whoever holds it.
THEOREM Refinement == Spec => ImplementsLease
<1>1. Init => Lease!Init  BY DEF Init, Lease!Init, Holder
<1>2. IInv /\ [Next]_vars => [Lease!Next]_Lease!vars  BY StepRefines
<1> QED  BY <1>1, <1>2, InductiveInvariant, PTL DEF Spec, ImplementsLease, Lease!Spec

-----------------------------------------------------------------------------
(* The process of Delivery and ZapLogger                                   *)

\* Whatever else the process does, its Telemetry takes the steps of
\* TelemetryLifecycle.
LEMMA JobStep == LogTypeOK /\ [JobNext]_jobVars => [Next]_vars
<1> SUFFICES ASSUME LogTypeOK, [JobNext]_jobVars PROVE [Next]_vars  OBVIOUS
<1>1. CASE Building  BY <1>1 DEF Building, Next
<1>2. CASE Applied  BY <1>2 DEF Applied, Next
<1>3. ASSUME NEW s \in Signals, Draining(s) PROVE Next  BY <1>3 DEF Draining, Drained, Next
<1>4. ASSUME NEW c \in job.stops, ShuttingOn(c) \/ ShutdownCalled(c) PROVE Next
  <2>1. c \in Callers  BY <1>4, ZapAssumption DEF LogTypeOK, JobType
  <2> QED  BY <1>4, <2>1 DEF ShuttingOn, Next
<1>5. CASE UNCHANGED vars  BY <1>5
<1>6. CASE Batches \/ ForceFlush \/ SetLevel  BY <1>5, <1>6 DEF Batches, ForceFlush, SetLevel
<1>7. CASE UNCHANGED jobVars  BY <1>5, <1>7 DEF jobVars
<1> QED  BY <1>1, <1>2, <1>3, <1>4, <1>5, <1>6, <1>7 DEF JobNext

LEMMA JobInitInv == JobInit => Init /\ IInv /\ DeliveryInv /\ LogInv
<1> SUFFICES ASSUME JobInit PROVE Init /\ IInv /\ DeliveryInv /\ LogInv  OBVIOUS
<1>1. Init /\ IInv  BY InitInv DEF JobInit
<1>2. DeliveryInv
  BY DEF JobInit, DeliveryInit, NoFlush, DeliveryInv, DeliveryTypeOK, HeldByProvider, DueIsAsked
<1>3. LogTypeOK  BY DEF JobInit, LogTypeOK, NoEntry, Steps, Derivations
<1>4. GlobalIsUsable  BY DEF JobInit, Init, GlobalIsUsable
<1>5. \A w \in Writers : entry[w].at = "none"  BY DEF JobInit, NoEntry
<1> QED  BY <1>1, <1>2, <1>3, <1>4, <1>5 DEF LogInv

\* A Telemetry that was returned stays, and its providers are only stopped.
LEMMA OnlyStops ==
  ASSUME IInv, pc \in Usable,
         \/ Construction \/ ApplyGlobals
         \/ \E c \in Callers : ShutdownCalled(c) \/ ShutdownGoesOn(c)
  PROVE  /\ pc' = pc
         /\ \A s \in Signals : \/ provider'[s] = provider[s]
                               \/ provider[s] = "up" /\ provider'[s] \in {"stopping", "abandoned"}
<1>1. ~Construction
  BY DEF Usable, Construction, Configure, NewExporter, BuildFails, ExporterFails,
         ResourceFails, NewProviders, NewFactory, RollBackStep, RolledBack
<1>2. CASE ApplyGlobals  BY <1>2 DEF ApplyGlobals
<1>3. ASSUME NEW c \in Callers, ProviderStops(c) \/ ProviderAbandons(c)
      PROVE  /\ pc' = pc
             /\ \A s \in Signals : \/ provider'[s] = provider[s]
                                   \/ provider[s] = "up" /\ provider'[s] \in {"stopping", "abandoned"}
  BY <1>3 DEF ProviderStops, ProviderAbandons, IInv, TypeOK
<1>4. ASSUME NEW c \in Callers,
             \/ ShutdownCalled(c) \/ ShutdownReturns(c)
             \/ \E failed \in BOOLEAN : ProviderAnswers(c, failed)
      PROVE  pc' = pc /\ provider' = provider
  BY <1>4 DEF ShutdownCalled, ShutdownReturns, ProviderAnswers
<1> QED  BY <1>1, <1>2, <1>3, <1>4 DEF ShutdownGoesOn

\* Those steps leave what is held where it is.
LEMMA ProviderStepDelivers ==
  ASSUME IInv, DeliveryInv, UNCHANGED deliveryVars,
         \/ Construction \/ ApplyGlobals
         \/ \E c \in Callers : ShutdownCalled(c) \/ ShutdownGoesOn(c)
  PROVE  DeliveryInv'
<1> USE DEF DeliveryInv, deliveryVars
<1>1. DeliveryTypeOK'  BY DEF DeliveryTypeOK
<1>2. ASSUME NEW s \in Signals, held[s] # "nothing"
      PROVE  /\ pc' \in Usable /\ provider'[s] \in Serving \cup {"stopping"}
             /\ provider[s] = "stopping" => provider'[s] = "stopping"
  <2>1. pc \in Usable /\ provider[s] \in Serving \cup {"stopping"}  BY <1>2 DEF HeldByProvider
  <2> QED  BY <2>1, OnlyStops DEF Serving
<1>3. HeldByProvider'  BY <1>2 DEF HeldByProvider, Usable
<1>4. DueIsAsked'  BY <1>2 DEF DueIsAsked, Listed
<1> QED  BY <1>1, <1>3, <1>4

\* A record more, or a batch less, makes nothing due.
LEMMA HeldDelivers ==
  ASSUME DeliveryInv, UNCHANGED <<vars, flush>>, NEW s \in Signals,
         held' = WithRecord(s) \/ held' = [held EXCEPT ![s] = "nothing"] \/ held' = held
  PROVE  DeliveryInv'
<1> USE DEF DeliveryInv, vars
<1>1. DeliveryTypeOK'  BY DEF DeliveryTypeOK, WithRecord
<1>2. \A t \in Signals : \/ held'[t] = held[t] \/ held'[t] = "nothing"
                         \/ held'[t] = "new" /\ pc = "live" /\ provider[t] \in Serving
  BY DEF DeliveryTypeOK, WithRecord
<1>3. HeldByProvider'  BY <1>2 DEF HeldByProvider, Usable
<1>4. DueIsAsked'  BY <1>2 DEF DueIsAsked, Listed
<1> QED  BY <1>1, <1>3, <1>4

LEMMA ForceFlushDelivers ==
  ASSUME DeliveryInv, ForceFlush
  PROVE  DeliveryInv'
<1> USE DEF DeliveryInv
<1>0. UNCHANGED <<pc, provider>>  BY DEF ForceFlush, vars
<1>1. CASE FlushCalled
  <2>1. FlushOrder \in Seq(Signals) /\ Listed(FlushOrder) = Signals
    <3>1. /\ Len(FlushOrder) = 3 /\ FlushOrder[1] = "trace" /\ FlushOrder[2] = "metric"
          /\ FlushOrder[3] = "log"
      BY DEF FlushOrder
    <3>2. FlushOrder \in Seq(Signals)  BY DEF FlushOrder, Signals
    <3> QED  BY <3>1, <3>2 DEF Listed, Signals
  <2>2. DeliveryTypeOK'  BY <1>1, <2>1 DEF FlushCalled, DeliveryTypeOK
  <2>3. HeldByProvider'  BY <1>0, <1>1 DEF FlushCalled, HeldByProvider, Usable
  <2>4. DueIsAsked'  BY <1>0, <1>1, <2>1 DEF FlushCalled, DueIsAsked, Listed
  <2> QED  BY <2>2, <2>3, <2>4
<1>2. ASSUME NEW failed \in BOOLEAN, ProviderFlushes(failed) PROVE DeliveryInv'
  <2>1. flush.at = "asking" /\ flush.rest # <<>> /\ flush.rest \in Seq(Signals)
    BY <1>2 DEF ProviderFlushes, DeliveryTypeOK
  <2>2. PICK s \in Signals : s = Head(flush.rest)  BY <2>1
  <2>3. /\ Tail(flush.rest) \in Seq(Signals)
        /\ \A t \in Signals : t \notin Listed(Tail(flush.rest)) => t = s \/ t \notin Listed(flush.rest)
    BY <2>1, <2>2, TailLists
  <2>4. flush' = [at |-> "asking", rest |-> Tail(flush.rest),
                  errs |-> IF failed THEN flush.errs \cup {s} ELSE flush.errs]
    BY <1>2, <2>2 DEF ProviderFlushes, StillToAsk
  <2>5. /\ held' \in [Signals -> {"nothing", "new", "due"}]
        /\ \A t \in Signals : held'[t] \in {held[t], "nothing"}
        /\ held'[s] = "due" => failed \/ provider[s] \notin Serving
    BY <1>2, <2>2 DEF ProviderFlushes, DeliveryTypeOK
  <2>6. DeliveryTypeOK'  BY <2>2, <2>3, <2>4, <2>5 DEF DeliveryTypeOK
  <2>7. HeldByProvider'  BY <1>0, <2>5 DEF HeldByProvider, Usable
  <2>8. ASSUME NEW t \in Signals, held'[t] = "due"
        PROVE  t \in flush'.errs \/ provider'[t] = "stopping" \/ t \in Listed(flush'.rest)
    <3>1. held[t] = "due"  BY <2>5, <2>8
    <3>2. t \in flush.errs \/ provider[t] = "stopping" \/ t \in Listed(flush.rest)
      BY <3>1 DEF DueIsAsked
    <3>3. CASE t = s
      <4>1. failed \/ provider[s] = "stopping"  BY <2>5, <2>8, <3>1, <3>3 DEF HeldByProvider
      <4> QED  BY <1>0, <2>4, <3>3, <4>1
    <3>4. CASE t # s  BY <1>0, <2>3, <2>4, <3>2, <3>4
    <3> QED  BY <3>3, <3>4
  <2>9. DueIsAsked'  BY <2>4, <2>8 DEF DueIsAsked, Listed
  <2> QED  BY <2>6, <2>7, <2>9
<1>3. CASE FlushReturns
  BY <1>0, <1>3 DEF FlushReturns, DeliveryTypeOK, HeldByProvider, DueIsAsked, Listed, Usable
<1> QED  BY <1>1, <1>2, <1>3 DEF ForceFlush

\* A provider that is down holds nothing.
LEMMA DrainingDelivers ==
  ASSUME IInv, DeliveryInv, NEW s \in Signals, Drained(s)
  PROVE  DeliveryInv'
<1> USE DEF DeliveryInv, Drained
<1>1. DeliveryTypeOK'  BY DEF DeliveryTypeOK
<1>2. \A t \in Signals : held'[t] # "nothing" => held'[t] = held[t] /\ provider'[t] = provider[t]
  BY DEF DeliveryTypeOK, ProviderDown, IInv, TypeOK
<1>3. pc' = pc  BY DEF ProviderDown
<1>4. HeldByProvider'  BY <1>2, <1>3 DEF HeldByProvider, Usable
<1>5. DueIsAsked'  BY <1>2 DEF DueIsAsked, Listed
<1> QED  BY <1>1, <1>4, <1>5

\* No step lets a record that was due be forgotten.
LEMMA DeliveryStep == LogTypeOK /\ IInv /\ DeliveryInv /\ [JobNext]_jobVars => DeliveryInv'
<1> SUFFICES ASSUME LogTypeOK, IInv, DeliveryInv, [JobNext]_jobVars PROVE DeliveryInv'  OBVIOUS
<1>1. CASE Building  BY <1>1, ProviderStepDelivers DEF Building
<1>2. CASE Applied  BY <1>2, ProviderStepDelivers DEF Applied
<1>3. ASSUME NEW s \in Signals, Draining(s) PROVE DeliveryInv'
  BY <1>3, DrainingDelivers DEF Draining
<1>4. ASSUME NEW c \in job.stops,
             ShuttingOn(c) \/ (ShutdownCalled(c) /\ UNCHANGED <<deliveryVars, zapVars>>)
      PROVE  DeliveryInv'
  <2>1. c \in Callers  BY <1>4, ZapAssumption DEF LogTypeOK, JobType
  <2> QED  BY <1>4, <2>1, ProviderStepDelivers DEF ShuttingOn
<1>5. CASE Batches
  BY <1>5, HeldDelivers DEF Batches, Recorded, BatchExported
<1>6. CASE ForceFlush  BY <1>6, ForceFlushDelivers
<1>7. ASSUME UNCHANGED <<vars, deliveryVars>> PROVE DeliveryInv'
  <2>1. "log" \in Signals /\ held' = held  BY <1>7 DEF Signals, deliveryVars
  <2> QED  BY <1>7, <2>1, HeldDelivers DEF deliveryVars
<1>8. CASE SetLevel  BY <1>7, <1>8 DEF SetLevel
<1>9. ASSUME NEW w \in job.logs, Log(w), UNCHANGED vars PROVE DeliveryInv'
  <2>1. CASE Write(w)
    <3>1. "log" \in Signals  BY DEF Signals
    <3> QED  BY <1>9, <2>1, <3>1, HeldDelivers DEF Write
  <2>2. CASE ~Write(w)
    BY <1>7, <1>9, <2>2 DEF Log, LogCalled, CheckLocal, CheckBridge, LogReturns, deliveryVars
  <2> QED  BY <2>1, <2>2
<1>10. ASSUME NEW w \in job.syncs, Sync(w), UNCHANGED vars PROVE DeliveryInv'
  BY <1>7, <1>10
  DEF Sync, SyncGoesOn, SyncCalled, ContextEnds, SinkSynced, SinkSyncs, HelperSends, SyncReturns,
      SyncBecomes
<1>11. CASE UNCHANGED jobVars  BY <1>7, <1>11 DEF jobVars
<1> QED
  BY <1>1, <1>2, <1>3, <1>4, <1>5, <1>6, <1>8, <1>9, <1>10, <1>11 DEF JobNext

\* Level, bridge and job are as they were: so is what the other calls found out.
LEMMA OthersSettled ==
  ASSUME LogInv, NEW v \in Writers, UNCHANGED <<job, level>>, BridgeOn' = BridgeOn,
         entry'[v] = entry[v], entry'[v].at # "none", ~entry'[v].moved
  PROVE  Settled(entry[v])'
<1>1. Settled(entry[v])  BY DEF LogInv
<1> QED  BY <1>1 DEF Settled

\* A Log call asks for what is: its own steps keep it settled.
LEMMA LogSettles ==
  ASSUME LogInv, NEW w \in Writers, Log(w), UNCHANGED vars
  PROVE  LogInv'
<1> USE DEF LogInv
<1>0. UNCHANGED <<job, level, global, pc>> /\ BridgeOn' = BridgeOn /\ GlobalIsUsable'
  BY DEF Log, LogCalled, CheckLocal, CheckBridge, Write, LogReturns, vars, BridgeOn, GlobalIsUsable
<1>1. ASSUME NEW e, e \in [at : Steps, logger : Derivations, sinks : SUBSET {"local", "otlp"},
                           loud : BOOLEAN, on : BOOLEAN, moved : BOOLEAN],
             entry' = [entry EXCEPT ![w] = e],
             e.at # "none" /\ ~e.moved => Settled(e)
      PROVE  LogInv'
  <2>1. LogTypeOK'  BY <1>0, <1>1 DEF LogTypeOK
  <2>2. ASSUME NEW v \in Writers, entry'[v].at # "none", ~entry'[v].moved PROVE Settled(entry[v])'
    <3>1. CASE v = w
      <4>1. entry'[w] = e  BY <1>1 DEF LogTypeOK
      <4> QED  BY <1>0, <1>1, <2>2, <3>1, <4>1 DEF Settled
    <3>2. CASE v # w
      <4>1. entry'[v] = entry[v]  BY <1>1, <3>2 DEF LogTypeOK
      <4> QED  BY <1>0, <2>2, <4>1, OthersSettled
    <3> QED  BY <3>1, <3>2
  <2> QED  BY <1>0, <2>1, <2>2
<1>e. entry[w] \in [at : Steps, logger : Derivations, sinks : SUBSET {"local", "otlp"},
                    loud : BOOLEAN, on : BOOLEAN, moved : BOOLEAN]
  BY DEF LogTypeOK
<1>2. ASSUME NEW l \in Derivations, LogCalled(w, l) PROVE LogInv'
  <2> DEFINE e == [at     |-> IF level = "debug" \/ BridgeEnabled(l) THEN "local" ELSE "written",
                   logger |-> l, sinks |-> {}, loud |-> level = "debug", on |-> BridgeOn,
                   moved  |-> FALSE]
  <2>1. entry' = [entry EXCEPT ![w] = e]  BY <1>2 DEF LogCalled
  <2>2. BridgeOn \in BOOLEAN  BY DEF BridgeOn
  <2>3. e \in [at : Steps, logger : Derivations, sinks : SUBSET {"local", "otlp"},
               loud : BOOLEAN, on : BOOLEAN, moved : BOOLEAN]
    BY <2>2 DEF Steps
  <2>4. Settled(e)  BY <2>2 DEF Settled, BridgeEnabled, Gated
  <2> HIDE DEF e
  <2> QED  BY <1>1, <2>1, <2>3, <2>4
<1>3. ASSUME NEW sink \in SUBSET {"local", "otlp"}, NEW next \in Steps,
             Checked(w, sink, next),
             LET e == [entry[w] EXCEPT !.at = next, !.sinks = @ \cup sink]
             IN  ~e.moved => Settled(e)
      PROVE  LogInv'
  <2> DEFINE e == [entry[w] EXCEPT !.at = next, !.sinks = @ \cup sink]
  <2>1. entry' = [entry EXCEPT ![w] = e]  BY <1>3, <1>e DEF Checked, LogTypeOK
  <2>2. e \in [at : Steps, logger : Derivations, sinks : SUBSET {"local", "otlp"},
               loud : BOOLEAN, on : BOOLEAN, moved : BOOLEAN]
    BY <1>e
  <2>3. ~e.moved => Settled(e)  BY <1>3
  <2> HIDE DEF e
  <2> QED  BY <1>1, <2>1, <2>2, <2>3
<1>s. entry[w].at # "none" /\ ~entry[w].moved => Settled(entry[w])  OBVIOUS
<1>4. CASE CheckLocal(w)
  <2>1. entry[w].at = "local"  BY <1>4 DEF CheckLocal
  <2>2. ASSUME level = "debug", Checked(w, {"local"}, "bridge") PROVE LogInv'
    BY <1>3, <1>e, <1>s, <2>1, <2>2 DEF Settled, Steps
  <2>3. ASSUME level = "debug" => job.samples, Checked(w, {}, "bridge") PROVE LogInv'
    BY <1>3, <1>e, <1>s, <2>1, <2>3 DEF Settled, Steps
  <2> QED  BY <1>4, <2>2, <2>3 DEF CheckLocal
<1>5. CASE CheckBridge(w)
  <2> DEFINE sink == IF BridgeEnabled(entry[w].logger) THEN {"otlp"} ELSE {}
  <2>1. entry[w].at = "bridge" /\ Checked(w, sink, "write")  BY <1>5 DEF CheckBridge
  <2>2. BridgeEnabled(entry[w].logger) <=> level = "debug" /\ BridgeOn
    BY DEF BridgeEnabled, Gated
  <2> QED  BY <1>3, <1>e, <1>s, <2>1, <2>2 DEF Settled, Steps
<1>6. CASE Write(w)
  <2> DEFINE e == [entry[w] EXCEPT !.at = "written"]
  <2>1. entry[w].at = "write" /\ entry' = [entry EXCEPT ![w] = e]
    BY <1>6, <1>e DEF Write, LogTypeOK
  <2>2. e \in [at : Steps, logger : Derivations, sinks : SUBSET {"local", "otlp"},
               loud : BOOLEAN, on : BOOLEAN, moved : BOOLEAN]
    BY <1>e DEF Steps
  <2>3. ~e.moved => Settled(e)  BY <1>e, <1>s, <2>1 DEF Settled
  <2> HIDE DEF e
  <2> QED  BY <1>1, <2>1, <2>2, <2>3
<1>7. CASE LogReturns(w)
  <2>1. entry' = [entry EXCEPT ![w] = NoEntry]  BY <1>7 DEF LogReturns
  <2> QED  BY <1>1, <2>1 DEF NoEntry, Steps, Derivations
<1> QED  BY <1>2, <1>4, <1>5, <1>6, <1>7 DEF Log

LEMMA LogStep == IInv /\ LogInv /\ [JobNext]_jobVars => LogInv'
<1> SUFFICES ASSUME IInv, LogInv, [JobNext]_jobVars PROVE LogInv'  OBVIOUS
<1> USE DEF LogInv
<1>1. ASSUME UNCHANGED <<job, level, entry>>, BridgeOn' = BridgeOn, GlobalIsUsable' PROVE LogInv'
  <2>1. LogTypeOK'  BY <1>1 DEF LogTypeOK
  <2> QED  BY <1>1, <2>1, OthersSettled
<1>2. ASSUME UNCHANGED <<job, level, entry, global, pc>> PROVE LogInv'
  <2>1. GlobalIsUsable' /\ BridgeOn' = BridgeOn  BY <1>2 DEF GlobalIsUsable, BridgeOn
  <2> QED  BY <1>1, <1>2, <2>1
<1>3. ASSUME entry' = Unsettled, job' = job, level' \in {"info", "debug"}, GlobalIsUsable'
      PROVE  LogInv'
  <2>1. LogTypeOK'  BY <1>3 DEF LogTypeOK, Unsettled
  <2>2. \A w \in Writers : entry'[w].moved  BY <1>3 DEF Unsettled, LogTypeOK
  <2> QED  BY <1>3, <2>1, <2>2
<1>4. CASE Building
  <2>1. UNCHANGED <<job, level, entry>>  BY <1>4 DEF Building, zapVars
  <2>2. CASE Configure
    <3>1. pc = "new" /\ pc' # "live" /\ (global' => global \/ pc' = "noop")
      BY <2>2 DEF Configure
    <3>2. ~global  BY <3>1 DEF GlobalIsUsable, Usable
    <3>3. GlobalIsUsable'  BY <3>1, <3>2 DEF GlobalIsUsable, Usable
    <3>4. BridgeOn' = BridgeOn  BY <3>1 DEF BridgeOn
    <3> QED  BY <1>1, <2>1, <3>3, <3>4
  <2>3. CASE ~Configure
    <3>1. pc \notin Usable /\ global' = global
      BY <1>4, <2>3
      DEF Building, Construction, NewExporter, BuildFails, ExporterFails, ResourceFails,
          RollBackExporters, RollBack, NewProviders, NewFactory, RollBackStep, RolledBack, Usable
    <3>2. ~global /\ ~global'  BY <3>1 DEF GlobalIsUsable
    <3> QED  BY <1>1, <2>1, <3>2 DEF GlobalIsUsable, BridgeOn
  <2> QED  BY <2>2, <2>3
<1>5. CASE Applied
  <2>1. GlobalIsUsable'  BY <1>5 DEF Applied, ApplyGlobals, GlobalIsUsable
  <2>2. CASE global
    <3>1. global' = global  BY <1>5, <2>2 DEF Applied, ApplyGlobals
    <3> QED  BY <1>2, <1>5, <2>2, <3>1 DEF Applied, ApplyGlobals
  <2>3. CASE ~global  BY <1>3, <1>5, <2>1, <2>3 DEF Applied, LogTypeOK
  <2> QED  BY <2>2, <2>3
<1>6. ASSUME NEW s \in Signals, Draining(s) PROVE LogInv'
  BY <1>2, <1>6 DEF Draining, Drained, ProviderDown, zapVars
<1>7. ASSUME NEW c \in job.stops,
             ShuttingOn(c) \/ (ShutdownCalled(c) /\ UNCHANGED <<deliveryVars, zapVars>>)
      PROVE  LogInv'
  BY <1>2, <1>7
  DEF ShuttingOn, ShutdownCalled, ShutdownGoesOn, ProviderStops, ProviderAbandons, ShutdownReturns,
      ProviderAnswers, zapVars
<1>8. CASE (Batches \/ ForceFlush) /\ UNCHANGED zapVars
  BY <1>2, <1>8 DEF Batches, ForceFlush, zapVars, vars
<1>9. CASE SetLevel
  <2>1. GlobalIsUsable'  BY <1>9 DEF SetLevel, GlobalIsUsable, vars
  <2> QED  BY <1>3, <1>9, <2>1 DEF SetLevel
<1>10. ASSUME NEW w \in job.logs, Log(w), UNCHANGED vars PROVE LogInv'
  <2>1. w \in Writers  BY <1>10, ZapAssumption DEF LogTypeOK, JobType
  <2> QED  BY <1>10, <2>1, LogSettles
<1>11. ASSUME NEW w \in job.syncs, Sync(w), UNCHANGED vars PROVE LogInv'
  BY <1>2, <1>11
  DEF Sync, SyncGoesOn, SyncCalled, ContextEnds, SinkSynced, SinkSyncs, HelperSends, SyncReturns,
      SyncBecomes, vars
<1>12. CASE UNCHANGED jobVars  BY <1>2, <1>12 DEF jobVars, zapVars, vars
<1> QED
  BY <1>4, <1>5, <1>6, <1>7, <1>8, <1>9, <1>10, <1>11, <1>12 DEF JobNext

\* The lifecycle, what is held and what is logged stay in step.
THEOREM JobInvariant == JobSafe => [](IInv /\ DeliveryInv /\ LogInv)
<1>1. JobInit => IInv /\ DeliveryInv /\ LogInv  BY JobInitInv
<1>2. IInv /\ DeliveryInv /\ LogInv /\ [JobNext]_jobVars => (IInv /\ DeliveryInv /\ LogInv)'
  BY JobStep, StepInv, DeliveryStep, LogStep DEF LogInv
<1> QED  BY <1>1, <1>2, PTL DEF JobSafe

\* A process that records, flushes, logs and syncs keeps to the lease of each
\* exporter as well.
THEOREM JobKeepsLease == JobSafe => ImplementsLease
<1>1. JobInit => Lease!Init  BY JobInitInv DEF Init, Lease!Init, Holder
<1>2. IInv /\ LogInv /\ [JobNext]_jobVars => [Lease!Next]_Lease!vars
  BY JobStep, StepRefines DEF LogInv
<1> QED  BY <1>1, <1>2, JobInvariant, PTL DEF JobSafe, ImplementsLease, Lease!Spec

\* ForceFlush asks every provider, whatever one answers and whoever stops them
\* meanwhile.
THEOREM FlushDelivers == JobSafe => []FlushedIsExported
<1>1. DeliveryInv => FlushedIsExported
  BY DEF DeliveryInv, DueIsAsked, FlushedIsExported, Listed
<1> QED  BY <1>1, JobInvariant, PTL

\* levelGate keeps the bridge on the level of the local output, for any number of
\* writers.
THEOREM OneLevel == JobSafe => []SinksAgree
<1>1. LogInv => SinksAgree  BY DEF LogInv, Settled, SinksAgree
<1> QED  BY <1>1, JobInvariant, PTL

=============================================================================
