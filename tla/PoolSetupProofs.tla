--------------------------- MODULE PoolSetupProofs ---------------------------
(***************************************************************************)
(* Theorems about PoolSetup, for any pools, clients, attempts and callers. *)
(***************************************************************************)
EXTENDS PoolSetup, TLAPS

-----------------------------------------------------------------------------
(* What the two ways to change setups do.                                  *)

\* Begin turns an unborn attempt into one that works on an idle line.
LEMMA BeginEffect ==
  ASSUME TypeOK, NEW a \in Attempts, NEW line \in Lines,
         NEW entry \in {"Setup", "SetupOpen", "Instrument"}, NEW dsn \in BOOLEAN,
         NEW step \in Steps \cup {"failed"}, Begin(a, line, entry, dsn, step)
  PROVE  /\ setups' \in [Attempts -> Setups \cup {Unborn}]
         /\ setups[a] = Unborn /\ setups[a].at = "unborn"
         /\ setups'[a].at = step /\ setups'[a].line = line
         /\ setups'[a].dsn = dsn /\ setups'[a].entry = entry
         /\ \A b \in Attempts : b # a => setups'[b] = setups[b]
         /\ \A b \in Attempts : setups[b].at \in Steps => setups[b].line # line
<1> DEFINE new == [at |-> step, line |-> line, dsn |-> dsn, entry |-> entry]
<1>1. new \in Setups  BY DEF Setups
<1>2. setups' = [setups EXCEPT ![a] = new] /\ setups[a].at = "unborn"  BY DEF Begin, At
<1>3. setups[a] = Unborn
  <2>1. setups[a] \in Setups \cup {Unborn}  BY DEF TypeOK
  <2>2. \A s \in Setups : s.at # "unborn"  BY DEF Setups, Steps, PoolSteps, ClientSteps
  <2> QED  BY <1>2, <2>1, <2>2
<1>4. setups' \in [Attempts -> Setups \cup {Unborn}]  BY <1>1, <1>2 DEF TypeOK
<1>5. setups'[a] = new /\ \A b \in Attempts : b # a => setups'[b] = setups[b]
  BY <1>2 DEF TypeOK
<1>6. \A b \in Attempts : setups[b].at \in Steps => setups[b].line # line
  BY DEF Begin, Busy, Of
<1> QED  BY <1>2, <1>3, <1>4, <1>5, <1>6

\* GoTo moves one attempt on and changes nothing else about it.
LEMMA GoToEffect ==
  ASSUME TypeOK, NEW a \in Attempts, setups[a].at \in Steps,
         NEW step \in Steps \cup {"failed", "done"}, GoTo(a, step)
  PROVE  /\ setups' \in [Attempts -> Setups \cup {Unborn}]
         /\ setups[a] \in Setups /\ setups[a].line \in Lines
         /\ setups'[a].at = step /\ setups'[a].line = setups[a].line
         /\ setups'[a].dsn = setups[a].dsn /\ setups'[a].entry = setups[a].entry
         /\ \A b \in Attempts : b # a => setups'[b] = setups[b]
<1>1. setups[a] \in Setups
  <2>1. setups[a] \in Setups \cup {Unborn}  BY DEF TypeOK
  <2>2. Unborn.at \notin Steps  BY DEF Unborn, Steps, PoolSteps, ClientSteps
  <2> QED  BY <2>1, <2>2
<1>2. setups' = [setups EXCEPT ![a].at = step]  BY DEF GoTo
<1>3. [setups[a] EXCEPT !.at = step] \in Setups  BY <1>1 DEF Setups
<1>4. setups'[a] = [setups[a] EXCEPT !.at = step]
      /\ \A b \in Attempts : b # a => setups'[b] = setups[b]
  BY <1>2 DEF TypeOK
<1>5. setups' \in [Attempts -> Setups \cup {Unborn}]
  BY <1>2, <1>3 DEF TypeOK
<1> QED  BY <1>1, <1>3, <1>4, <1>5 DEF Setups

-----------------------------------------------------------------------------
LEMMA InitInv == Init => IInv
<1> SUFFICES ASSUME Init PROVE IInv  OBVIOUS
<1> USE DEF Init, Unborn, Raw, NoPool, At
<1>1. TypeOK
  <2>1. current \in [Pools -> AllPools]
    <3>1. Raw \in AllPools /\ NoPool \in AllPools
      BY SetupBoundsAssumption DEF AllPools
    <3> QED  BY <3>1
  <2>2. open \in [Pools -> SUBSET AllPools]  BY <2>1
  <2> QED  BY <2>1, <2>2, SetupBoundsAssumption DEF TypeOK
<1>2. SetupsInStep
  BY DEF SetupsInStep, PoolSteps, ClientSteps, Steps, Over
<1>3. CallsInStep  BY DEF CallsInStep, Idle
<1>4. PoolsInStep  BY DEF PoolsInStep
<1>5. HooksInStep  BY DEF HooksInStep
<1> QED  BY <1>1, <1>2, <1>3, <1>4, <1>5 DEF IInv

-----------------------------------------------------------------------------
(* Attempts that begin.                                                    *)

\* A first step that changes no more than where its attempt is.
LEMMA BeginKeeps ==
  ASSUME IInv, NEW a \in Attempts, NEW line \in Lines,
         NEW entry \in {"Setup", "SetupOpen", "Instrument"}, NEW dsn \in BOOLEAN,
         NEW step \in Steps \cup {"failed"}, Begin(a, line, entry, dsn, step),
         step \in PoolSteps => line \in Pools /\ dsn,
         step \in ClientSteps => line \in Clients /\ step # "tracing",
         UNCHANGED <<current, hooks, regs, releases, cleanup, watcher, calls>>
  PROVE  /\ open' \in [Pools -> SUBSET AllPools] => TypeOK'
         /\ SetupsInStep' /\ CallsInStep' /\ HooksInStep'
<1>0. TypeOK  BY DEF IInv
<1>1. /\ setups' \in [Attempts -> Setups \cup {Unborn}]
      /\ setups[a] = Unborn /\ setups[a].at = "unborn"
      /\ setups'[a].at = step /\ setups'[a].line = line
      /\ setups'[a].dsn = dsn /\ setups'[a].entry = entry
      /\ \A b \in Attempts : b # a => setups'[b] = setups[b]
      /\ \A b \in Attempts : setups[b].at \in Steps => setups[b].line # line
  BY <1>0, BeginEffect
<1>2. open' \in [Pools -> SUBSET AllPools] => TypeOK'  BY <1>0, <1>1 DEF TypeOK
<1>3. SetupsInStep'
  <2>1. cleanup[a] = "none" /\ releases[a] = 0
    BY <1>1 DEF IInv, SetupsInStep, At
  <2>2. ASSUME NEW b \in Attempts, NEW d \in Attempts,
               setups'[b].at \in Steps, setups'[d].at \in Steps, setups'[b].line = setups'[d].line
        PROVE  b = d
    BY <1>1, <2>2 DEF IInv, SetupsInStep, Of
  <2> QED  BY <1>1, <2>1, <2>2 DEF IInv, SetupsInStep, At, Of, Steps, PoolSteps, ClientSteps, Over
<1>4. CallsInStep'  BY DEF IInv, CallsInStep
<1>5. HooksInStep'
  <2>1. \A b \in Attempts, c \in Clients :
          /\ (setups'[b].at \in {"tracing", "done"} /\ setups'[b].line = c)
               <=> (setups[b].at \in {"tracing", "done"} /\ setups[b].line = c)
          /\ (setups'[b].at = "done" /\ setups'[b].line = c)
               <=> (setups[b].at = "done" /\ setups[b].line = c)
    BY <1>1 DEF Steps, PoolSteps, ClientSteps
  <2> QED  BY <2>1 DEF IInv, HooksInStep, At, Of
<1> QED  BY <1>2, <1>3, <1>4, <1>5

-----------------------------------------------------------------------------
(* Which lines are busy afterwards.                                        *)

LEMMA BusyAfterBegin ==
  ASSUME TypeOK, NEW a \in Attempts, NEW line \in Lines,
         NEW entry \in {"Setup", "SetupOpen", "Instrument"}, NEW dsn \in BOOLEAN,
         NEW step \in Steps \cup {"failed"}, Begin(a, line, entry, dsn, step)
  PROVE  /\ ~Busy(line)
         /\ \A p \in Lines : Busy(p)' <=> IF p = line THEN step \in Steps ELSE Busy(p)
<1>1. "unborn" \notin Steps /\ "failed" \notin Steps  BY DEF Steps, PoolSteps, ClientSteps
<1> QED  BY <1>1, BeginEffect DEF Busy, Of

LEMMA BusyAfterGoTo ==
  ASSUME IInv, NEW a \in Attempts, setups[a].at \in Steps,
         NEW step \in Steps \cup {"failed", "done"}, GoTo(a, step)
  PROVE  \A p \in Lines : Busy(p)' <=> IF p = Of(a) THEN step \in Steps ELSE Busy(p)
<1>1. TypeOK  BY DEF IInv
<1>2. \A b \in Attempts : setups[b].at \in Steps /\ setups[b].line = setups[a].line => b = a
  BY DEF IInv, SetupsInStep, Of
<1> QED  BY <1>1, <1>2, GoToEffect DEF Busy, Of

\* Attempts that are done stay done.
LEMMA PoolsKept ==
  ASSUME IInv, NEW a \in Attempts, ~At(a, "done"), UNCHANGED <<open, current>>,
         \A b \in Attempts : b # a => setups'[b] = setups[b],
         \A p \in Pools : Busy(p)' <=> Busy(p),
         setups'[a].at \notin PoolSteps
  PROVE  PoolsInStep'
<1>1. \A b \in Attempts : At(b, "done") => setups'[b] = setups[b]  BY DEF At
<1>2. ASSUME NEW p \in Pools PROVE current[p].by = 0 \/ At(current[p].by, "done")'
  <2>1. current[p].by \in 0 .. MaxSetups  BY DEF IInv, TypeOK, AllPools
  <2>2. current[p].by = 0 \/ current[p].by \in Attempts
    BY <2>1, SetupBoundsAssumption DEF Attempts
  <2> QED  BY <1>1, <2>2 DEF IInv, PoolsInStep, At
<1>3. ASSUME NEW b \in Attempts, setups'[b].at \in PoolSteps PROVE b # a /\ setups'[b] = setups[b]
  BY <1>3
<1> QED  BY <1>2, <1>3 DEF IInv, PoolsInStep, At, Of, NewPool, PoolSteps

-----------------------------------------------------------------------------
LEMMA RefuseNilInv ==
  ASSUME IInv, NEW a \in Attempts, NEW line \in Lines, RefuseNil(a, line)
  PROVE  IInv'
<1> USE DEF RefuseNil
<1>1. "failed" \notin Steps  BY DEF Steps, PoolSteps, ClientSteps
<1>2. TypeOK  BY DEF IInv
<1>3. TypeOK' /\ SetupsInStep' /\ CallsInStep' /\ HooksInStep'
  <2>1. open' \in [Pools -> SUBSET AllPools]  BY <1>2 DEF TypeOK
  <2>2. "failed" \notin PoolSteps /\ "failed" \notin ClientSteps  BY <1>1 DEF Steps
  <2> QED  BY <2>1, <2>2, BeginKeeps
<1>4. PoolsInStep'
  <2>1. \A p \in Lines : Busy(p)' <=> IF p = line THEN "failed" \in Steps ELSE Busy(p)
    BY <1>2, BusyAfterBegin
  <2>2. ~Busy(line)  BY <1>2, BusyAfterBegin
  <2>3. \A p \in Pools : Busy(p)' <=> Busy(p)  BY <1>1, <2>1, <2>2 DEF Lines
  <2>4. /\ setups[a].at = "unborn" /\ setups'[a].at = "failed"
        /\ \A b \in Attempts : b # a => setups'[b] = setups[b]
    BY <1>2, BeginEffect
  <2> QED  BY <2>3, <2>4, PoolsKept DEF At, PoolSteps
<1> QED  BY <1>3, <1>4 DEF IInv

LEMMA SetupPoolInv ==
  ASSUME IInv, NEW a \in Attempts, NEW p \in Pools, NEW dsn \in BOOLEAN, SetupPool(a, p, dsn)
  PROVE  IInv'
<1> DEFINE step == AfterDSNCheck(dsn)
<1>1. step = (IF dsn THEN "instrument" ELSE "failed")  BY DEF AfterDSNCheck
<1>2. step \in Steps \cup {"failed"} /\ "failed" \notin Steps /\ "instrument" \in Steps
  BY <1>1 DEF Steps, PoolSteps, ClientSteps
<1>3. Begin(a, p, "Setup", dsn, step) /\ current[p] # NoPool  BY DEF SetupPool
<1>4. UNCHANGED <<open, current, hooks, regs, releases, cleanup, watcher, calls>>
  BY DEF SetupPool
<1>5. TypeOK /\ p \in Lines  BY DEF IInv, Lines
<1> HIDE DEF step
<1>6. TypeOK' /\ SetupsInStep' /\ CallsInStep' /\ HooksInStep'
  <2>1. open' \in [Pools -> SUBSET AllPools]  BY <1>4, <1>5 DEF TypeOK
  <2>2. step \in PoolSteps => dsn  BY <1>1 DEF PoolSteps
  <2>3. step \notin ClientSteps  BY <1>1 DEF ClientSteps
  <2> QED  BY <1>2, <1>3, <1>4, <1>5, <2>1, <2>2, <2>3, BeginKeeps
<1>7. PoolsInStep'
  <2>1. /\ ~Busy(p)
        /\ \A q \in Lines : Busy(q)' <=> IF q = p THEN step \in Steps ELSE Busy(q)
    BY <1>2, <1>3, <1>5, BusyAfterBegin
  <2>2. /\ setups[a].at = "unborn" /\ setups'[a].at = step /\ setups'[a].line = p
        /\ \A b \in Attempts : b # a => setups'[b] = setups[b]
    BY <1>2, <1>3, <1>5, BeginEffect
  <2>3. CASE ~dsn
    <3>1. \A q \in Pools : Busy(q)' <=> Busy(q)  BY <1>1, <1>2, <2>1, <2>3 DEF Lines
    <3>2. step = "failed"  BY <1>1, <2>3
    <3> QED  BY <1>4, <2>2, <3>1, <3>2, PoolsKept DEF At, PoolSteps
  <2>4. CASE dsn
    <3>1. step = "instrument"  BY <1>1, <2>4
    <3>2. open[p] = {current[p]}  BY <1>3, <2>1 DEF IInv, PoolsInStep
    <3>3. \A q \in Pools : ~Busy(q)' => ~Busy(q)  BY <1>2, <2>1, <3>1 DEF Lines
    <3>4. ASSUME NEW q \in Pools PROVE current[q].by = 0 \/ At(current[q].by, "done")'
      <4>1. current[q].by \in 0 .. MaxSetups  BY DEF IInv, TypeOK, AllPools
      <4>2. current[q].by = 0 \/ current[q].by \in Attempts
        BY <4>1, SetupBoundsAssumption DEF Attempts
      <4>3. current[q].by = 0 \/ At(current[q].by, "done")  BY DEF IInv, PoolsInStep
      <4>4. current[q].by = 0 \/ current[q].by # a  BY <2>2, <4>3 DEF At
      <4> QED  BY <1>4, <2>2, <4>2, <4>3, <4>4 DEF At
    <3>5. \A b \in Attempts : setups'[b].at \in PoolSteps => b = a \/ setups'[b] = setups[b]
      BY <2>2
    <3>6. setups'[a].at = "instrument" /\ Of(a)' = p  BY <2>2, <3>1 DEF Of
    <3> QED
      BY <1>3, <1>4, <3>2, <3>3, <3>4, <3>5, <3>6, <2>2
      DEF IInv, PoolsInStep, At, Of, NewPool, PoolSteps
  <2> QED  BY <2>3, <2>4
<1> QED  BY <1>6, <1>7 DEF IInv

LEMMA InstrumentClientInv ==
  ASSUME IInv, NEW a \in Attempts, NEW c \in Clients, NEW entry \in {"Setup", "Instrument"},
         InstrumentClient(a, c, entry)
  PROVE  IInv'
<1> DEFINE step == "metrics"
<1>1. Begin(a, c, entry, FALSE, step)  BY DEF InstrumentClient, InstrumentOrder
<1>2. UNCHANGED <<open, current, hooks, regs, releases, cleanup, watcher, calls>>
  BY DEF InstrumentClient
<1>3. /\ step \in Steps /\ step \notin PoolSteps /\ step # "tracing" /\ step # "done"
      /\ entry \in {"Setup", "SetupOpen", "Instrument"} /\ FALSE \in BOOLEAN
  BY DEF Steps, PoolSteps, ClientSteps
<1>4. TypeOK /\ c \in Lines  BY DEF IInv, Lines
<1> HIDE DEF step
<1>5. TypeOK' /\ SetupsInStep' /\ CallsInStep' /\ HooksInStep'
  <2>1. open' \in [Pools -> SUBSET AllPools]  BY <1>2, <1>4 DEF TypeOK
  <2> QED  BY <1>1, <1>2, <1>3, <1>4, <2>1, BeginKeeps
<1>6. PoolsInStep'
  <2>1. \A q \in Lines : Busy(q)' <=> IF q = c THEN step \in Steps ELSE Busy(q)
    BY <1>1, <1>3, <1>4, BusyAfterBegin
  <2>2. \A q \in Pools : Busy(q)' <=> Busy(q)  BY <2>1, LinesAssumption DEF Lines
  <2>3. /\ setups[a].at = "unborn" /\ setups'[a].at = step
        /\ \A b \in Attempts : b # a => setups'[b] = setups[b]
    BY <1>1, <1>4 DEF Begin, At, TypeOK
  <2> QED  BY <1>2, <1>3, <2>2, <2>3, PoolsKept DEF At
<1> QED  BY <1>5, <1>6 DEF IInv

LEMMA SetupOpenInv ==
  ASSUME IInv, NEW a \in Attempts, NEW p \in Pools, SetupOpen(a, p)
  PROVE  IInv'
<1>1. PICK step \in {"register", "failed"} : Begin(a, p, "SetupOpen", TRUE, step)
      /\ open' = IF step = "register" THEN [open EXCEPT ![p] = @ \cup {[by |-> a, dials |-> TRUE]}]
                 ELSE open
  BY DEF SetupOpen
<1>2. step \in Steps \cup {"failed"} /\ "failed" \notin Steps /\ "register" \in Steps
      /\ (step \in PoolSteps => step = "register") /\ step \notin ClientSteps
  BY <1>1 DEF Steps, PoolSteps, ClientSteps
<1>3. UNCHANGED <<current, hooks, regs, releases, cleanup, watcher, calls>> /\ current[p] = NoPool
  BY DEF SetupOpen
<1>4. TypeOK /\ p \in Lines  BY DEF IInv, Lines
<1>5. TypeOK' /\ SetupsInStep' /\ CallsInStep' /\ HooksInStep'
  <2>1. [by |-> a, dials |-> TRUE] \in AllPools
    BY SetupBoundsAssumption DEF AllPools, Attempts
  <2>2. open' \in [Pools -> SUBSET AllPools]  BY <1>1, <1>4, <2>1 DEF TypeOK
  <2> QED  BY <1>1, <1>2, <1>3, <1>4, <2>2, BeginKeeps
<1>6. PoolsInStep'
  <2>1. /\ ~Busy(p)
        /\ \A q \in Lines : Busy(q)' <=> IF q = p THEN step \in Steps ELSE Busy(q)
    BY <1>1, <1>2, <1>4, BusyAfterBegin
  <2>2. /\ setups[a].at = "unborn" /\ setups'[a].at = step /\ setups'[a].line = p
        /\ setups'[a].dsn = TRUE
        /\ \A b \in Attempts : b # a => setups'[b] = setups[b]
    BY <1>1, <1>2, <1>4, BeginEffect
  <2>3. CASE step = "failed"
    <3>1. \A q \in Pools : Busy(q)' <=> Busy(q)  BY <1>2, <2>1, <2>3 DEF Lines
    <3> QED  BY <1>1, <1>3, <2>2, <2>3, <3>1, PoolsKept DEF At, PoolSteps
  <2>4. CASE step = "register"
    <3>1. open[p] = {}  BY <1>3, <2>1 DEF IInv, PoolsInStep
    <3>2. open'[p] = {NewPool(a)'}  BY <1>1, <1>4, <2>2, <2>4, <3>1 DEF TypeOK, NewPool
    <3>3. \A q \in Pools : q # p => open'[q] = open[q]  BY <1>1, <2>4, <1>4 DEF TypeOK
    <3>4. \A q \in Pools : ~Busy(q)' => ~Busy(q) /\ q # p  BY <1>2, <2>1, <2>4 DEF Lines
    <3>5. ASSUME NEW q \in Pools PROVE current[q].by = 0 \/ At(current[q].by, "done")'
      <4>1. current[q].by \in 0 .. MaxSetups  BY DEF IInv, TypeOK, AllPools
      <4>2. current[q].by = 0 \/ current[q].by \in Attempts
        BY <4>1, SetupBoundsAssumption DEF Attempts
      <4>3. current[q].by = 0 \/ At(current[q].by, "done")  BY DEF IInv, PoolsInStep
      <4>4. current[q].by = 0 \/ current[q].by # a  BY <2>2, <4>3 DEF At
      <4> QED  BY <1>3, <2>2, <4>2, <4>3, <4>4 DEF At
    <3>6. ASSUME NEW b \in Attempts, setups[b].at \in PoolSteps PROVE Of(b) # p
      BY <2>1, <3>6 DEF Busy, Steps
    <3>7. \A b \in Attempts : b # a /\ setups[b].at \in PoolSteps => Of(b) \in Pools
      BY DEF IInv, SetupsInStep
    <3> QED
      BY <1>3, <2>2, <2>4, <3>2, <3>3, <3>4, <3>5, <3>6, <3>7
      DEF IInv, PoolsInStep, At, Of, NewPool, PoolSteps
  <2> QED  BY <1>1, <2>3, <2>4
<1> QED  BY <1>5, <1>6 DEF IInv

-----------------------------------------------------------------------------
(* Attempts that go on.                                                    *)

LEMMA SetupsAfterGoTo ==
  ASSUME IInv, NEW a \in Attempts, setups[a].at \in Steps,
         NEW step \in Steps \cup {"failed", "done"}, GoTo(a, step),
         cleanup'[a] = "none" \/ (cleanup'[a] = "fresh" /\ step = "done"),
         releases'[a] = 0 \/ (releases'[a] = 1 /\ step = "failed"),
         step \in PoolSteps => setups[a].at \in PoolSteps,
         step \in ClientSteps => setups[a].at \in ClientSteps /\ Of(a) \in Supported,
         \A b \in Attempts : b # a =>
            regs'[b] = regs[b] /\ cleanup'[b] = cleanup[b] /\ releases'[b] = releases[b]
  PROVE  SetupsInStep'
<1>1. TypeOK  BY DEF IInv
<1>2. /\ setups'[a].at = step /\ setups'[a].line = setups[a].line
      /\ setups'[a].dsn = setups[a].dsn
      /\ \A b \in Attempts : b # a => setups'[b] = setups[b]
  BY <1>1, GoToEffect
<1>3. ASSUME NEW b \in Attempts, NEW d \in Attempts,
             setups'[b].at \in Steps, setups'[d].at \in Steps, setups'[b].line = setups'[d].line
      PROVE  b = d
  BY <1>2, <1>3 DEF IInv, SetupsInStep, Of
<1> QED  BY <1>2, <1>3 DEF IInv, SetupsInStep, At, Of, Steps, PoolSteps, ClientSteps, Over

\* An attempt under way has no cleanup and has released nothing.
LEMMA NothingYet ==
  ASSUME IInv, NEW a \in Attempts, setups[a].at \in Steps
  PROVE  cleanup[a] = "none" /\ releases[a] = 0
BY DEF IInv, SetupsInStep, At, Steps, PoolSteps, ClientSteps

LEMMA GoToKeeps ==
  ASSUME IInv, NEW a \in Attempts, setups[a].at \in Steps,
         NEW step \in Steps \cup {"failed", "done"}, GoTo(a, step),
         UNCHANGED <<cleanup, releases>>,
         step \in PoolSteps => setups[a].at \in PoolSteps,
         step \in ClientSteps => setups[a].at \in ClientSteps /\ Of(a) \in Supported,
         \A b \in Attempts : b # a => regs'[b] = regs[b]
  PROVE  SetupsInStep'
BY NothingYet, SetupsAfterGoTo

\* No call is about a cleanup that does not exist yet.
LEMMA CallsKept ==
  ASSUME IInv, NEW a \in Attempts, cleanup[a] = "none", UNCHANGED calls,
         \A b \in Attempts : b # a => cleanup'[b] = cleanup[b]
  PROVE  CallsInStep'
<1>1. ASSUME NEW c \in Callers, calls[c].at \in {"running", "waiting", "returned"}
      PROVE  calls[c].of \in Attempts /\ calls[c].of # a
  <2>1. calls[c] \in Calls  BY <1>1 DEF IInv, TypeOK, Idle
  <2>2. calls[c].at = "returned" => calls[c].result \in Over  BY <2>1 DEF Calls
  <2> QED  BY <1>1, <2>1, <2>2 DEF IInv, CallsInStep, Calls, Over
<1> QED  BY <1>1 DEF IInv, CallsInStep

\* An attempt on a pool leaves the hooks of all clients in step.
LEMMA HooksKept ==
  ASSUME IInv, NEW a \in Attempts, setups[a].at \in PoolSteps,
         NEW step \in Steps \cup {"failed", "done"}, GoTo(a, step), UNCHANGED hooks
  PROVE  HooksInStep'
<1>1. setups[a].line \in Pools  BY DEF IInv, SetupsInStep, Of
<1>2. TypeOK /\ setups[a].at \in Steps  BY DEF IInv, Steps
<1>3. /\ setups'[a].line = setups[a].line
      /\ \A b \in Attempts : b # a => setups'[b] = setups[b]
  BY <1>2, GoToEffect
<1>4. \A c \in Clients : setups[a].line # c  BY <1>1, LinesAssumption
<1> QED  BY <1>3, <1>4 DEF IInv, HooksInStep, At, Of

\* Whoever opened a pool the application holds is done, and stays so.
LEMMA HoldersStay ==
  ASSUME IInv, NEW a \in Attempts, setups[a].at \in Steps,
         \A b \in Attempts : b # a => setups'[b] = setups[b],
         NEW p \in Pools, current'[p] = current[p]
  PROVE  /\ current[p].by # a
         /\ current'[p].by = 0 \/ At(current[p].by, "done")'
<1>1. current[p].by \in 0 .. MaxSetups  BY DEF IInv, TypeOK, AllPools
<1>2. current[p].by = 0 \/ current[p].by \in Attempts
  BY <1>1, SetupBoundsAssumption DEF Attempts
<1>3. current[p].by = 0 \/ At(current[p].by, "done")  BY DEF IInv, PoolsInStep
<1>4. a # 0  BY SetupBoundsAssumption DEF Attempts
<1>5. current[p].by # a  BY <1>3, <1>4 DEF At, Steps, PoolSteps, ClientSteps
<1> QED  BY <1>2, <1>3, <1>5 DEF At

\* An attempt on a pool that leaves that pool as its next step expects it.
LEMMA PoolsAfterGoTo ==
  ASSUME IInv, NEW a \in Attempts, setups[a].at \in PoolSteps,
         NEW step \in (Steps \ {"instrument"}) \cup {"failed", "done"}, GoTo(a, step),
         \A p \in Pools : p # Of(a) => open'[p] = open[p] /\ current'[p] = current[p],
         current'[Of(a)] = current[Of(a)] \/ (current'[Of(a)] = NewPool(a) /\ step = "done"),
         step \notin Steps => open'[Of(a)] = {current'[Of(a)]} \ {NoPool},
         step = "close" => current'[Of(a)] # NoPool /\ open'[Of(a)] = {current'[Of(a)], NewPool(a)},
         step \in {"register", "hand"} => open'[Of(a)] = {NewPool(a)}
  PROVE  PoolsInStep'
<1>1. TypeOK /\ setups[a].at \in Steps  BY DEF IInv, Steps
<1>2. /\ setups'[a].at = step /\ setups'[a].line = setups[a].line
      /\ setups'[a].dsn = setups[a].dsn
      /\ \A b \in Attempts : b # a => setups'[b] = setups[b]
  BY <1>1, GoToEffect
<1>3. Of(a) \in Pools /\ setups[a].dsn  BY DEF IInv, SetupsInStep
<1>4. Of(a)' = Of(a) /\ NewPool(a)' = NewPool(a)  BY <1>2 DEF Of, NewPool
<1>5. \A p \in Lines : Busy(p)' <=> IF p = Of(a) THEN step \in Steps ELSE Busy(p)
  BY <1>1, BusyAfterGoTo
<1>6. ASSUME NEW p \in Pools
      PROVE  /\ ~Busy(p)' => open'[p] = {current'[p]} \ {NoPool}
             /\ current'[p] = NoPool \/ current'[p].dials
             /\ current'[p].by = 0 \/ At(current[p].by, "done")'
  <2>1. CASE p # Of(a)
    <3>1. ~Busy(p)' => ~Busy(p)  BY <1>5, <2>1 DEF Lines
    <3>2. current'[p].by = 0 \/ At(current[p].by, "done")'
      BY <1>1, <1>2, <2>1, HoldersStay
    <3> QED  BY <2>1, <3>1, <3>2 DEF IInv, PoolsInStep
  <2>2. CASE p = Of(a)
    <3>1. ~Busy(p)' => step \notin Steps  BY <1>5, <2>2 DEF Lines
    <3>2. CASE current'[p] = current[p]
      <4>1. current'[p].by = 0 \/ At(current[p].by, "done")'
        BY <1>1, <1>2, <3>2, HoldersStay
      <4> QED  BY <2>2, <3>1, <3>2, <4>1 DEF IInv, PoolsInStep
    <3>3. CASE current'[p] = NewPool(a) /\ step = "done"
      <4>1. current'[p].by = a /\ current'[p].dials  BY <1>3, <3>3 DEF NewPool
      <4> QED  BY <1>2, <2>2, <3>1, <3>3, <4>1 DEF At
    <3> QED  BY <2>2, <3>2, <3>3
  <2> QED  BY <2>1, <2>2
<1>7. ASSUME NEW b \in Attempts, b # a, setups'[b].at \in PoolSteps
      PROVE  /\ setups'[b] = setups[b] /\ Of(b)' = Of(b) /\ NewPool(b)' = NewPool(b)
             /\ open'[Of(b)] = open[Of(b)] /\ current'[Of(b)] = current[Of(b)]
  <2>1. setups'[b] = setups[b]  BY <1>2, <1>7
  <2>2. Of(b) # Of(a) /\ Of(b) \in Pools
    BY <1>1, <1>7, <2>1 DEF IInv, SetupsInStep, Steps
  <2> QED  BY <2>1, <2>2 DEF Of, NewPool
<1>8. ASSUME NEW b \in Attempts
      PROVE  /\ At(b, "instrument")' =>
                  current'[Of(b)'] # NoPool /\ open'[Of(b)'] = {current'[Of(b)']}
             /\ At(b, "close")' =>
                  current'[Of(b)'] # NoPool /\ open'[Of(b)'] = {current'[Of(b)'], NewPool(b)'}
             /\ setups'[b].at \in {"register", "hand"} => open'[Of(b)'] = {NewPool(b)'}
  <2>1. CASE b = a
    <3>1. step # "instrument"  BY DEF Steps, PoolSteps, ClientSteps
    <3> QED  BY <1>2, <1>4, <2>1, <3>1 DEF At
  <2>2. CASE b # a
    BY <1>7, <2>2 DEF IInv, PoolsInStep, At, PoolSteps
  <2> QED  BY <2>1, <2>2
<1> QED  BY <1>6, <1>8 DEF PoolsInStep

LEMMA InstrumentDBInv ==
  ASSUME IInv, NEW a \in Attempts, InstrumentDB(a)
  PROVE  IInv'
<1>1. PICK step \in {"close", "failed"} : GoTo(a, step)
      /\ open' = IF step = "close" THEN [open EXCEPT ![Of(a)] = @ \cup {NewPool(a)}] ELSE open
  BY DEF InstrumentDB
<1>2. UNCHANGED <<current, hooks, regs, releases, cleanup, watcher, calls>>
      /\ setups[a].at = "instrument"
  BY DEF InstrumentDB, At
<1>3. /\ step \in Steps \cup {"failed", "done"} /\ step \notin ClientSteps
      /\ setups[a].at \in Steps /\ setups[a].at \in PoolSteps /\ "failed" \notin Steps /\ "close" \in Steps
      /\ "failed" \notin PoolSteps
  BY <1>1, <1>2 DEF Steps, PoolSteps, ClientSteps
<1>4. TypeOK  BY DEF IInv
<1>5. /\ setups' \in [Attempts -> Setups \cup {Unborn}]
      /\ setups[a] \in Setups
      /\ setups'[a].at = step /\ setups'[a].line = setups[a].line
      /\ setups'[a].dsn = setups[a].dsn
      /\ \A b \in Attempts : b # a => setups'[b] = setups[b]
  BY <1>1, <1>3, <1>4, GoToEffect
<1>6. Of(a) \in Pools /\ setups[a].dsn = TRUE
  BY <1>3, <1>5 DEF IInv, SetupsInStep, Setups
<1>7. NewPool(a) \in AllPools
  <2>1. NewPool(a) = [by |-> a, dials |-> TRUE]  BY <1>6 DEF NewPool
  <2>2. [by |-> a, dials |-> TRUE] \in AllPools  BY SetupBoundsAssumption DEF AllPools, Attempts
  <2> QED  BY <2>1, <2>2
<1>8. TypeOK'
  <2>1. open' \in [Pools -> SUBSET AllPools]  BY <1>1, <1>4, <1>7 DEF TypeOK
  <2> QED  BY <1>2, <1>4, <1>5, <2>1 DEF TypeOK
<1>9. SetupsInStep'  BY <1>1, <1>2, <1>3, GoToKeeps
<1>10. CallsInStep'  BY <1>2 DEF IInv, CallsInStep
<1>11. HooksInStep'  BY <1>1, <1>2, <1>3, HooksKept
<1>12. PoolsInStep'
  <2>1. current[Of(a)] # NoPool /\ open[Of(a)] = {current[Of(a)]}
    BY <1>2 DEF IInv, PoolsInStep, At
  <2>2. open'[Of(a)] = IF step = "close" THEN {current[Of(a)], NewPool(a)} ELSE {current[Of(a)]}
    BY <1>1, <1>4, <1>6, <2>1 DEF TypeOK
  <2>3. \A p \in Pools : p # Of(a) => open'[p] = open[p]  BY <1>1, <1>4 DEF TypeOK
  <2> QED  BY <1>1, <1>2, <1>3, <2>1, <2>2, <2>3, PoolsAfterGoTo
<1> QED  BY <1>8, <1>9, <1>10, <1>11, <1>12 DEF IInv

LEMMA CloseOriginalInv ==
  ASSUME IInv, NEW a \in Attempts, CloseOriginal(a)
  PROVE  IInv'
<1>1. /\ GoTo(a, "register") /\ setups[a].at = "close"
      /\ open' = [open EXCEPT ![Of(a)] = @ \ {current[Of(a)]}]
      /\ UNCHANGED <<current, hooks, regs, releases, cleanup, watcher, calls>>
  BY DEF CloseOriginal, At
<1>2. /\ setups[a].at \in Steps /\ setups[a].at \in PoolSteps
      /\ "register" \in Steps /\ "register" \notin ClientSteps /\ "register" \in PoolSteps
  BY <1>1 DEF Steps, PoolSteps, ClientSteps
<1>3. TypeOK  BY DEF IInv
<1>4. setups' \in [Attempts -> Setups \cup {Unborn}]  BY <1>1, <1>2, <1>3, GoToEffect
<1>5. Of(a) \in Pools  BY <1>2 DEF IInv, SetupsInStep
<1>6. TypeOK'
  <2>1. open' \in [Pools -> SUBSET AllPools]  BY <1>1, <1>3 DEF TypeOK
  <2> QED  BY <1>1, <1>3, <1>4, <2>1 DEF TypeOK
<1>7. SetupsInStep'  BY <1>1, <1>2, GoToKeeps
<1>8. CallsInStep'  BY <1>1 DEF IInv, CallsInStep
<1>9. HooksInStep'  BY <1>1, <1>2, HooksKept
<1>10. PoolsInStep'
  <2>1. open[Of(a)] = {current[Of(a)], NewPool(a)}  BY <1>1 DEF IInv, PoolsInStep, At
  <2>2. current[Of(a)] # NewPool(a)
    <3>1. current[Of(a)].by = 0 \/ At(current[Of(a)].by, "done")
      BY <1>5 DEF IInv, PoolsInStep
    <3>2. NewPool(a).by = a  BY DEF NewPool
    <3>3. a # 0  BY SetupBoundsAssumption DEF Attempts
    <3> QED  BY <1>1, <3>1, <3>2, <3>3 DEF At
  <2>3. open'[Of(a)] = {NewPool(a)}  BY <1>1, <1>3, <1>5, <2>1, <2>2 DEF TypeOK
  <2>4. \A p \in Pools : p # Of(a) => open'[p] = open[p]  BY <1>1, <1>3 DEF TypeOK
  <2> QED  BY <1>1, <1>2, <2>3, <2>4, PoolsAfterGoTo
<1> QED  BY <1>6, <1>7, <1>8, <1>9, <1>10 DEF IInv

LEMMA RegisterStatsInv ==
  ASSUME IInv, NEW a \in Attempts, RegisterStats(a)
  PROVE  IInv'
<1>1. PICK step \in {"hand", "done"} :
      /\ GoTo(a, step)
      /\ regs' = IF step = "hand" THEN [regs EXCEPT ![a] = 1] ELSE regs
      /\ current' = IF step = "hand" THEN current ELSE [current EXCEPT ![Of(a)] = NewPool(a)]
  BY DEF RegisterStats
<1>2. UNCHANGED <<open, hooks, releases, cleanup, watcher, calls>> /\ setups[a].at = "register"
  BY DEF RegisterStats, At
<1>3. /\ setups[a].at \in Steps /\ setups[a].at \in PoolSteps
      /\ step \in (Steps \ {"instrument"}) \cup {"failed", "done"} /\ step \notin ClientSteps
  BY <1>1, <1>2 DEF Steps, PoolSteps, ClientSteps
<1>4. TypeOK  BY DEF IInv
<1>5. setups' \in [Attempts -> Setups \cup {Unborn}]  BY <1>1, <1>3, <1>4, GoToEffect
<1>6. Of(a) \in Pools /\ setups[a].dsn  BY <1>3 DEF IInv, SetupsInStep
<1>7. NewPool(a) \in AllPools /\ NewPool(a) # NoPool
  <2>1. setups[a] \in Setups  BY <1>1, <1>3, <1>4, GoToEffect
  <2>2. NewPool(a) = [by |-> a, dials |-> TRUE]  BY <1>6, <2>1 DEF NewPool, Setups
  <2>3. [by |-> a, dials |-> TRUE] \in AllPools  BY SetupBoundsAssumption DEF AllPools, Attempts
  <2> QED  BY <2>2, <2>3 DEF NoPool
<1>8. TypeOK'
  <2>1. regs' \in [Attempts -> 0 .. MaxNodes]
    BY <1>1, <1>4, SetupBoundsAssumption DEF TypeOK
  <2>2. current' \in [Pools -> AllPools]  BY <1>1, <1>4, <1>7 DEF TypeOK
  <2> QED  BY <1>2, <1>4, <1>5, <2>1, <2>2 DEF TypeOK
<1>9. SetupsInStep'
  <2>1. \A b \in Attempts : b # a => regs'[b] = regs[b]  BY <1>1, <1>4 DEF TypeOK
  <2> QED  BY <1>1, <1>2, <1>3, <2>1, GoToKeeps
<1>10. CallsInStep'  BY <1>2 DEF IInv, CallsInStep
<1>11. HooksInStep'  BY <1>1, <1>2, <1>3, HooksKept
<1>12. PoolsInStep'
  <2>1. open[Of(a)] = {NewPool(a)}  BY <1>2 DEF IInv, PoolsInStep
  <2>2. /\ current'[Of(a)] = IF step = "hand" THEN current[Of(a)] ELSE NewPool(a)
        /\ \A p \in Pools : p # Of(a) => current'[p] = current[p]
    BY <1>1, <1>4, <1>6 DEF TypeOK
  <2>3. "hand" \in Steps /\ step # "close" /\ step # "register"
    BY <1>1 DEF Steps, PoolSteps
  <2> QED  BY <1>1, <1>2, <1>3, <1>7, <2>1, <2>2, <2>3, PoolsAfterGoTo
<1> QED  BY <1>8, <1>9, <1>10, <1>11, <1>12 DEF IInv

LEMMA HandBackInv ==
  ASSUME IInv, NEW a \in Attempts, HandBack(a)
  PROVE  IInv'
<1>1. /\ GoTo(a, "done") /\ setups[a].at = "hand"
      /\ current' = [current EXCEPT ![Of(a)] = NewPool(a)]
      /\ cleanup' = [cleanup EXCEPT ![a] = "fresh"]
      /\ UNCHANGED <<open, hooks, regs, releases, watcher, calls>>
  BY DEF HandBack, At
<1>2. /\ setups[a].at \in Steps /\ setups[a].at \in PoolSteps
      /\ "done" \notin Steps /\ "done" \notin ClientSteps /\ "done" \notin PoolSteps
  BY <1>1 DEF Steps, PoolSteps, ClientSteps
<1>3. TypeOK  BY DEF IInv
<1>4. setups' \in [Attempts -> Setups \cup {Unborn}]  BY <1>1, <1>2, <1>3, GoToEffect
<1>5. Of(a) \in Pools /\ setups[a].dsn  BY <1>2 DEF IInv, SetupsInStep
<1>6. NewPool(a) \in AllPools /\ NewPool(a) # NoPool
  <2>1. setups[a] \in Setups  BY <1>1, <1>2, <1>3, GoToEffect
  <2>2. NewPool(a) = [by |-> a, dials |-> TRUE]  BY <1>5, <2>1 DEF NewPool, Setups
  <2>3. [by |-> a, dials |-> TRUE] \in AllPools  BY SetupBoundsAssumption DEF AllPools, Attempts
  <2> QED  BY <2>2, <2>3 DEF NoPool
<1>7. TypeOK'
  <2>1. current' \in [Pools -> AllPools]  BY <1>1, <1>3, <1>6 DEF TypeOK
  <2>2. cleanup' \in [Attempts -> {"none", "fresh", "running"} \cup Over]
    BY <1>1, <1>3 DEF TypeOK
  <2> QED  BY <1>1, <1>3, <1>4, <2>1, <2>2 DEF TypeOK
<1>8. cleanup'[a] = "fresh" /\ \A b \in Attempts : b # a => cleanup'[b] = cleanup[b]
  BY <1>1, <1>3 DEF TypeOK
<1>9. cleanup[a] = "none" /\ releases[a] = 0  BY <1>2, NothingYet
<1>10. SetupsInStep'  BY <1>1, <1>2, <1>8, <1>9, SetupsAfterGoTo
<1>11. CallsInStep'  BY <1>1, <1>8, <1>9, CallsKept
<1>12. HooksInStep'  BY <1>1, <1>2, HooksKept
<1>13. PoolsInStep'
  <2>1. open[Of(a)] = {NewPool(a)}  BY <1>1 DEF IInv, PoolsInStep
  <2>2. /\ current'[Of(a)] = NewPool(a)
        /\ \A p \in Pools : p # Of(a) => current'[p] = current[p]
    BY <1>1, <1>3, <1>5 DEF TypeOK
  <2> QED  BY <1>1, <1>2, <1>6, <2>1, <2>2, PoolsAfterGoTo
<1> QED  BY <1>7, <1>10, <1>11, <1>12, <1>13 DEF IInv

\* An attempt on a client leaves all pools as they are.
LEMMA PoolsIdle ==
  ASSUME IInv, NEW a \in Attempts, setups[a].at \in ClientSteps,
         NEW step \in ClientSteps \cup {"failed", "done"}, GoTo(a, step),
         UNCHANGED <<open, current>>
  PROVE  PoolsInStep'
<1>1. TypeOK /\ setups[a].at \in Steps /\ step \in Steps \cup {"failed", "done"}
  BY DEF IInv, Steps
<1>2. /\ ~At(a, "done") /\ step \notin PoolSteps  BY DEF At, PoolSteps, ClientSteps
<1>3. /\ setups'[a].at = step
      /\ \A b \in Attempts : b # a => setups'[b] = setups[b]
  BY <1>1, GoToEffect
<1>4. Of(a) \in Clients  BY DEF IInv, SetupsInStep
<1>5. \A p \in Lines : Busy(p)' <=> IF p = Of(a) THEN step \in Steps ELSE Busy(p)
  BY <1>1, BusyAfterGoTo
<1>6. \A p \in Pools : Busy(p)' <=> Busy(p)  BY <1>4, <1>5, LinesAssumption DEF Lines
<1> QED  BY <1>2, <1>3, <1>6, PoolsKept

LEMMA InstrumentMetricsInv ==
  ASSUME IInv, NEW a \in Attempts, InstrumentMetrics(a)
  PROVE  IInv'
<1>1. /\ setups[a].at = "metrics"
      /\ watcher' = [watcher EXCEPT ![a] = IF Releasable(a) THEN "waiting" ELSE "none"]
      /\ UNCHANGED <<open, current, calls>>
  BY DEF InstrumentMetrics, At
<1>2. /\ setups[a].at \in Steps /\ setups[a].at \in ClientSteps
      /\ "tracing" \in Steps /\ "tracing" \in ClientSteps /\ "tracing" \notin PoolSteps
      /\ "failed" \notin Steps /\ "failed" \notin ClientSteps /\ "failed" \notin PoolSteps
  BY <1>1 DEF Steps, PoolSteps, ClientSteps
<1>3. TypeOK  BY DEF IInv
<1>4. PICK step \in {"tracing", "failed"}, n \in 0 .. 1 :
      /\ GoTo(a, step) /\ UNCHANGED cleanup
      /\ regs' = [regs EXCEPT ![a] = n]
      /\ hooks' = IF step = "tracing" THEN [hooks EXCEPT ![Of(a)].metrics = @ \cup {a}] ELSE hooks
      /\ releases' = releases \/ (step = "failed" /\ releases' = [releases EXCEPT ![a] = @ + 1])
      /\ step = "tracing" => Of(a) \in Supported
  <2>1. CASE Of(a) \in Supported
             /\ hooks' = [hooks EXCEPT ![Of(a)].metrics = @ \cup {a}]
             /\ regs' = [regs EXCEPT ![a] = IF Of(a) \in Clustered THEN 0 ELSE 1]
             /\ Proceed(a, "metrics")
    <3>1. GoTo(a, "tracing") /\ UNCHANGED <<cleanup, releases>>
      BY <2>1 DEF Proceed, InstrumentOrder
    <3>2. PICK n \in 0 .. 1 : regs' = [regs EXCEPT ![a] = n]
      <4>1. CASE Of(a) \in Clustered  BY <2>1, <4>1
      <4>2. CASE Of(a) \notin Clustered  BY <2>1, <4>2
      <4> QED  BY <4>1, <4>2
    <3> QED  BY <2>1, <3>1, <3>2
  <2>2. CASE /\ \E n \in IF Of(a) \in Supported THEN 0 .. 1 ELSE {0} : regs' = [regs EXCEPT ![a] = n]
             /\ Fail(a)
             /\ UNCHANGED hooks
    <3>1. PICK n \in 0 .. 1 : regs' = [regs EXCEPT ![a] = n]
      <4>1. CASE Of(a) \in Supported  BY <2>2, <4>1
      <4>2. CASE Of(a) \notin Supported  BY <2>2, <4>2
      <4> QED  BY <4>1, <4>2
    <3>2. GoTo(a, "failed") /\ UNCHANGED <<cleanup, hooks>> /\ releases' = CloseOnFailure(a)
      BY <2>2 DEF Fail
    <3>3. releases' = releases \/ releases' = [releases EXCEPT ![a] = @ + 1]
      BY <3>2 DEF CloseOnFailure
    <3> QED  BY <3>1, <3>2, <3>3
  <2> QED  BY <2>1, <2>2 DEF InstrumentMetrics
<1>5. step \in Steps \cup {"failed", "done"} /\ step \in ClientSteps \cup {"failed", "done"}
      /\ step \notin PoolSteps /\ (step \in ClientSteps => step = "tracing") /\ step # "done"
  BY <1>2, <1>4
<1>6. /\ setups' \in [Attempts -> Setups \cup {Unborn}] /\ setups[a] \in Setups
      /\ setups'[a].at = step /\ setups'[a].line = setups[a].line
      /\ \A b \in Attempts : b # a => setups'[b] = setups[b]
  BY <1>2, <1>3, <1>4, <1>5, GoToEffect
<1>7. cleanup[a] = "none" /\ releases[a] = 0  BY <1>2, NothingYet
<1>8. Of(a) \in Clients  BY <1>2 DEF IInv, SetupsInStep
<1>9. TypeOK'
  <2>1. hooks' \in [Clients -> [metrics : SUBSET Attempts, tracing : SUBSET Attempts]]
    BY <1>3, <1>4, <1>8 DEF TypeOK
  <2>2. regs' \in [Attempts -> 0 .. MaxNodes]
    BY <1>3, <1>4, SetupBoundsAssumption DEF TypeOK
  <2>3. releases' \in [Attempts -> Nat]  BY <1>3, <1>4 DEF TypeOK
  <2>4. watcher' \in [Attempts -> {"none", "waiting", "over", "refused"}]  BY <1>1, <1>3 DEF TypeOK
  <2> QED  BY <1>1, <1>3, <1>4, <1>6, <2>1, <2>2, <2>3, <2>4 DEF TypeOK
<1>10. SetupsInStep'
  <2>1. \A b \in Attempts : b # a =>
          regs'[b] = regs[b] /\ cleanup'[b] = cleanup[b] /\ releases'[b] = releases[b]
    BY <1>3, <1>4 DEF TypeOK
  <2>2. releases'[a] = 0 \/ (releases'[a] = 1 /\ step = "failed")
    BY <1>3, <1>4, <1>7 DEF TypeOK
  <2> QED  BY <1>2, <1>4, <1>5, <1>7, <2>1, <2>2, SetupsAfterGoTo
<1>11. CallsInStep'  BY <1>1, <1>4 DEF IInv, CallsInStep
<1>12. HooksInStep'
  <2>1. ASSUME NEW c \in Clients
        PROVE  /\ hooks'[c].metrics = IF c = Of(a) /\ step = "tracing"
                                      THEN hooks[c].metrics \cup {a} ELSE hooks[c].metrics
               /\ hooks'[c].tracing = hooks[c].tracing
    BY <1>3, <1>4, <1>8 DEF TypeOK
  <2>2. ASSUME NEW c \in Clients, NEW b \in Attempts
        PROVE  /\ b \in hooks'[c].metrics
                    <=> setups'[b].at \in {"tracing", "done"} /\ setups'[b].line = c
               /\ b \in hooks'[c].tracing <=> setups'[b].at = "done" /\ setups'[b].line = c
    <3>1. /\ b \in hooks[c].metrics
               <=> setups[b].at \in {"tracing", "done"} /\ setups[b].line = c
          /\ b \in hooks[c].tracing <=> setups[b].at = "done" /\ setups[b].line = c
      BY DEF IInv, HooksInStep, At, Of
    <3>2. CASE b = a  BY <1>1, <1>4, <1>6, <2>1, <3>1, <3>2 DEF Of
    <3>3. CASE b # a  BY <1>1, <1>4, <1>6, <2>1, <3>1, <3>3
    <3> QED  BY <3>2, <3>3
  <2> QED  BY <2>2 DEF HooksInStep, At, Of
<1>13. PoolsInStep'  BY <1>1, <1>2, <1>4, <1>5, PoolsIdle
<1> QED  BY <1>9, <1>10, <1>11, <1>12, <1>13 DEF IInv

LEMMA InstrumentTracingInv ==
  ASSUME IInv, NEW a \in Attempts, InstrumentTracing(a)
  PROVE  IInv'
<1>1. setups[a].at = "tracing" /\ Of(a) \in Supported
  BY DEF InstrumentTracing, IInv, SetupsInStep, At
<1>2. /\ hooks' = [hooks EXCEPT ![Of(a)].tracing = @ \cup {a}] /\ GoTo(a, "done")
      /\ cleanup' = IF Releasable(a) THEN [cleanup EXCEPT ![a] = "fresh"] ELSE cleanup
      /\ UNCHANGED <<open, current, regs, releases, watcher, calls>>
  BY <1>1 DEF InstrumentTracing, Proceed, InstrumentOrder
<1>3. /\ setups[a].at \in Steps /\ setups[a].at \in ClientSteps
      /\ "done" \notin Steps /\ "done" \notin ClientSteps /\ "done" \notin PoolSteps
  BY <1>1 DEF Steps, PoolSteps, ClientSteps
<1>4. TypeOK  BY DEF IInv
<1>5. /\ setups' \in [Attempts -> Setups \cup {Unborn}]
      /\ setups'[a].at = "done" /\ setups'[a].line = setups[a].line
      /\ \A b \in Attempts : b # a => setups'[b] = setups[b]
  BY <1>2, <1>3, <1>4, GoToEffect
<1>6. cleanup[a] = "none" /\ releases[a] = 0  BY <1>3, NothingYet
<1>7. Of(a) \in Clients  BY <1>3 DEF IInv, SetupsInStep
<1>8. /\ cleanup'[a] \in {"none", "fresh"}
      /\ \A b \in Attempts : b # a => cleanup'[b] = cleanup[b]
  BY <1>2, <1>4, <1>6 DEF TypeOK
<1>9. TypeOK'
  <2>1. hooks' \in [Clients -> [metrics : SUBSET Attempts, tracing : SUBSET Attempts]]
    BY <1>2, <1>4, <1>7 DEF TypeOK
  <2>2. cleanup' \in [Attempts -> {"none", "fresh", "running"} \cup Over]
    BY <1>2, <1>4 DEF TypeOK
  <2> QED  BY <1>2, <1>4, <1>5, <2>1, <2>2 DEF TypeOK
<1>10. SetupsInStep'  BY <1>2, <1>3, <1>6, <1>8, SetupsAfterGoTo
<1>11. CallsInStep'  BY <1>2, <1>6, <1>8, CallsKept
<1>12. HooksInStep'
  <2>1. ASSUME NEW c \in Clients
        PROVE  /\ hooks'[c].tracing = IF c = Of(a)
                                      THEN hooks[c].tracing \cup {a} ELSE hooks[c].tracing
               /\ hooks'[c].metrics = hooks[c].metrics
    BY <1>2, <1>4, <1>7 DEF TypeOK
  <2>2. ASSUME NEW c \in Clients, NEW b \in Attempts
        PROVE  /\ b \in hooks'[c].metrics
                    <=> setups'[b].at \in {"tracing", "done"} /\ setups'[b].line = c
               /\ b \in hooks'[c].tracing <=> setups'[b].at = "done" /\ setups'[b].line = c
    <3>1. /\ b \in hooks[c].metrics
               <=> setups[b].at \in {"tracing", "done"} /\ setups[b].line = c
          /\ b \in hooks[c].tracing <=> setups[b].at = "done" /\ setups[b].line = c
      BY DEF IInv, HooksInStep, At, Of
    <3>2. CASE b = a  BY <1>1, <1>5, <2>1, <3>1, <3>2 DEF Of
    <3>3. CASE b # a
      <4>1. setups'[b] = setups[b]  BY <1>5, <3>3
      <4>2. /\ b \in hooks'[c].tracing <=> b \in hooks[c].tracing
            /\ hooks'[c].metrics = hooks[c].metrics
        BY <2>1, <3>3
      <4> QED  BY <3>1, <4>1, <4>2
    <3> QED  BY <3>2, <3>3
  <2> QED  BY <2>2 DEF HooksInStep, At, Of
<1>13. PoolsInStep'  BY <1>2, <1>3, PoolsIdle
<1> QED  BY <1>9, <1>10, <1>11, <1>12, <1>13 DEF IInv

-----------------------------------------------------------------------------
(* Nodes that join, the watcher, and the cleanups.                         *)

LEMMA NodeJoinsInv ==
  ASSUME IInv, NEW a \in Attempts, NodeJoins(a)
  PROVE  IInv'
<1>1. /\ Of(a) \in Clients /\ regs[a] < MaxNodes /\ regs' = [regs EXCEPT ![a] = @ + 1]
      /\ UNCHANGED <<setups, open, current, hooks, releases, cleanup, watcher, calls>>
  BY LinesAssumption DEF NodeJoins
<1>2. TypeOK  BY DEF IInv
<1>3. TypeOK'
  <2>1. regs[a] \in Nat /\ regs[a] + 1 \in 0 .. MaxNodes
    BY <1>1, <1>2, SetupBoundsAssumption DEF TypeOK
  <2> QED  BY <1>1, <1>2, <2>1 DEF TypeOK
<1>4. SetupsInStep'
  <2>1. \A b \in Attempts : b # a => regs'[b] = regs[b]  BY <1>1, <1>2 DEF TypeOK
  <2>2. Of(a) \notin Pools  BY <1>1, LinesAssumption
  <2> QED  BY <1>1, <2>1, <2>2 DEF IInv, SetupsInStep, At, Of
<1> QED  BY <1>1, <1>3, <1>4
         DEF IInv, CallsInStep, PoolsInStep, HooksInStep, At, Of, Busy, NewPool

LEMMA UnwatchInv ==
  ASSUME IInv, NEW a \in Attempts, Unwatch(a)
  PROVE  IInv'
<1>1. PICK n \in 0 .. regs[a] :
         /\ regs' = [regs EXCEPT ![a] = n]
         /\ watcher' = [watcher EXCEPT ![a] = IF n = 0 THEN "over" ELSE "refused"]
  BY DEF Unwatch
<1>2. UNCHANGED <<setups, open, current, hooks, releases, cleanup, calls>>  BY DEF Unwatch
<1>3. TypeOK /\ regs[a] \in 0 .. MaxNodes  BY DEF IInv, TypeOK
<1>4. n \in 0 .. MaxNodes /\ (regs[a] = 0 => n = 0)  BY <1>3, SetupBoundsAssumption
<1>5. TypeOK'  BY <1>1, <1>2, <1>3, <1>4 DEF TypeOK
<1>6. SetupsInStep'
  <2>1. \A b \in Attempts : regs[b] = 0 => regs'[b] = 0
    BY <1>1, <1>3, <1>4 DEF TypeOK
  <2> QED  BY <1>2, <2>1 DEF IInv, SetupsInStep, At, Of
<1> QED  BY <1>2, <1>5, <1>6
         DEF IInv, CallsInStep, PoolsInStep, HooksInStep, At, Of, Busy, NewPool

LEMMA CallShape ==
  ASSUME IInv, NEW c \in Callers, calls[c].at \in {"running", "waiting", "returned"}
  PROVE  /\ calls[c] \in Calls /\ calls[c].of \in Attempts
         /\ calls[c].at = "returned" => calls[c].result \in Over
<1>1. calls[c] \in Calls  BY DEF IInv, TypeOK, Idle
<1> QED  BY <1>1 DEF Calls

\* What a step of one caller about one cleanup leaves of the calls.
LEMMA CallsAfter ==
  ASSUME IInv, NEW c \in Callers, NEW a \in Attempts,
         NEW new \in Calls, new.of = a, calls' = [calls EXCEPT ![c] = new],
         \A b \in Attempts : b # a => cleanup'[b] = cleanup[b],
         \/ cleanup'[a] = cleanup[a] /\ new.at # "running"
         \/ cleanup[a] = "fresh" /\ cleanup'[a] = "running"
         \/ /\ cleanup[a] = "running" /\ cleanup'[a] \in Over
            /\ calls[c].at = "running" /\ calls[c].of = a /\ new.at = "returned",
         new.at = "running" => cleanup'[a] = "running",
         new.at = "waiting" => cleanup'[a] \in {"running"} \cup Over,
         new.at = "returned" => new.result = cleanup'[a]
  PROVE  calls' \in [Callers -> Calls \cup {Idle}] /\ CallsInStep'
<1>1. /\ calls' \in [Callers -> Calls \cup {Idle}] /\ calls'[c] = new
      /\ \A d \in Callers : d # c => calls'[d] = calls[d]
  BY DEF IInv, TypeOK
<1>2. ASSUME NEW d \in Callers, d # c, calls[d].at \in {"running", "waiting", "returned"}
      PROVE  /\ calls[d].at = "running" => /\ cleanup'[calls[d].of] = "running"
                                           /\ calls[d].of # a \/ new.at # "running"
             /\ calls[d].at = "waiting" => cleanup'[calls[d].of] \in {"running"} \cup Over
             /\ calls[d].at = "returned" => calls[d].result = cleanup'[calls[d].of]
  <2>1. /\ calls[d].at = "running" => cleanup[calls[d].of] = "running"
        /\ calls[d].at = "waiting" => cleanup[calls[d].of] \in {"running"} \cup Over
        /\ calls[d].at = "returned" => calls[d].result = cleanup[calls[d].of]
    BY DEF IInv, CallsInStep
  <2>2. calls[d].of \in Attempts /\ (calls[d].at = "returned" => calls[d].result \in Over)
    BY <1>2, CallShape
  <2>3. calls[d].at = "running" /\ calls[d].of = a
          => ~(calls[c].at = "running" /\ calls[c].of = a)
    BY <1>2 DEF IInv, CallsInStep
  <2>4. CASE calls[d].of # a  BY <2>1, <2>2, <2>4
  <2>5. CASE calls[d].of = a  BY <2>1, <2>2, <2>3, <2>5 DEF Over
  <2> QED  BY <2>4, <2>5
<1>3. ASSUME NEW d \in Callers
      PROVE  /\ calls'[d].at = "running" => cleanup'[calls'[d].of] = "running"
             /\ calls'[d].at = "waiting" => cleanup'[calls'[d].of] \in {"running"} \cup Over
             /\ calls'[d].at = "returned" => calls'[d].result = cleanup'[calls'[d].of]
  <2>1. CASE d = c  BY <1>1, <2>1
  <2>2. CASE d # c
    <3>1. calls'[d] = calls[d]  BY <1>1, <2>2
    <3>2. /\ calls[d].at = "running" => cleanup'[calls[d].of] = "running"
          /\ calls[d].at = "waiting" => cleanup'[calls[d].of] \in {"running"} \cup Over
          /\ calls[d].at = "returned" => calls[d].result = cleanup'[calls[d].of]
      BY <1>2, <2>2
    <3> QED  BY <3>1, <3>2
  <2> QED  BY <2>1, <2>2
<1>4. ASSUME NEW d \in Callers, NEW e \in Callers, calls'[d].at = "running",
             calls'[e].at = "running", calls'[d].of = calls'[e].of
      PROVE  d = e
  <2>1. CASE d # c /\ e # c
    <3>1. calls'[d] = calls[d] /\ calls'[e] = calls[e]  BY <1>1, <2>1
    <3> QED  BY <1>4, <3>1 DEF IInv, CallsInStep
  <2>2. CASE d = c /\ e # c  BY <1>1, <1>2, <1>4, <2>2
  <2>3. CASE d # c /\ e = c  BY <1>1, <1>2, <1>4, <2>3
  <2> QED  BY <2>1, <2>2, <2>3
<1> QED  BY <1>1, <1>3, <1>4 DEF CallsInStep

\* The cleanups touch no set-up, no pool and no hook.
LEMMA RestKept ==
  ASSUME IInv, UNCHANGED <<setups, open, current, hooks>>
  PROVE  PoolsInStep' /\ HooksInStep'
BY DEF IInv, PoolsInStep, HooksInStep, At, Of, Busy, NewPool

LEMMA CleanupCalledInv ==
  ASSUME IInv, NEW c \in Callers, NEW a \in Attempts, CleanupCalled(c, a)
  PROVE  IInv'
<1>1. UNCHANGED <<setups, open, current, hooks, regs, releases, watcher>> /\ cleanup[a] # "none"
  BY DEF CleanupCalled
<1>2. TypeOK  BY DEF IInv
<1>3. cleanup[a] \in {"fresh", "running", "ok", "error"}  BY <1>1, <1>2 DEF TypeOK, Over
<1>4. /\ cleanup' \in [Attempts -> {"none", "fresh", "running"} \cup Over]
      /\ calls' \in [Callers -> Calls \cup {Idle}] /\ CallsInStep'
      /\ \A b \in Attempts : b # a => cleanup'[b] = cleanup[b]
      /\ cleanup'[a] = cleanup[a] \/ (cleanup[a] = "fresh" /\ cleanup'[a] = "running")
  <2>1. CASE cleanup[a] = "fresh"
    <3> DEFINE new == [at |-> "running", of |-> a]
    <3>1. OnceDo(a) = "run"  BY <2>1 DEF OnceDo, Over
    <3>2. cleanup' = [cleanup EXCEPT ![a] = "running"] /\ calls' = [calls EXCEPT ![c] = new]
      BY <3>1 DEF CleanupCalled
    <3>3. new \in Calls /\ new.at = "running" /\ new.of = a  BY DEF Calls
    <3>4. cleanup'[a] = "running" /\ \A b \in Attempts : b # a => cleanup'[b] = cleanup[b]
      BY <1>2, <3>2 DEF TypeOK
    <3>5. calls' \in [Callers -> Calls \cup {Idle}] /\ CallsInStep'
      <4> HIDE DEF new
      <4> QED  BY <2>1, <3>2, <3>3, <3>4, CallsAfter
    <3> QED  BY <1>2, <2>1, <3>2, <3>4, <3>5 DEF TypeOK
  <2>2. CASE cleanup[a] = "running"
    <3> DEFINE new == [at |-> "waiting", of |-> a]
    <3>1. OnceDo(a) = "wait"  BY <2>2 DEF OnceDo, Over
    <3>2. UNCHANGED cleanup /\ calls' = [calls EXCEPT ![c] = new]
      BY <3>1 DEF CleanupCalled
    <3>3. new \in Calls /\ new.at = "waiting" /\ new.of = a  BY DEF Calls
    <3>4. calls' \in [Callers -> Calls \cup {Idle}] /\ CallsInStep'
      <4> HIDE DEF new
      <4> QED  BY <2>2, <3>2, <3>3, CallsAfter
    <3> QED  BY <1>2, <3>2, <3>4 DEF TypeOK
  <2>3. CASE cleanup[a] \in Over
    <3> DEFINE new == [at |-> "returned", of |-> a, result |-> cleanup[a]]
    <3>1. OnceDo(a) = "return"  BY <2>3 DEF OnceDo
    <3>2. UNCHANGED cleanup /\ calls' = [calls EXCEPT ![c] = new]
      BY <3>1 DEF CleanupCalled, Returned
    <3>3. new \in Calls /\ new.at = "returned" /\ new.of = a /\ new.result = cleanup[a]
      BY <2>3 DEF Calls
    <3>4. calls' \in [Callers -> Calls \cup {Idle}] /\ CallsInStep'
      <4> HIDE DEF new
      <4> QED  BY <2>3, <3>2, <3>3, CallsAfter
    <3> QED  BY <1>2, <3>2, <3>4 DEF TypeOK
  <2> QED  BY <1>3, <2>1, <2>2, <2>3 DEF Over
<1>5. TypeOK'  BY <1>1, <1>2, <1>4 DEF TypeOK
<1>6. SetupsInStep'  BY <1>1, <1>3, <1>4 DEF IInv, SetupsInStep, At, Of, Over
<1>7. PoolsInStep' /\ HooksInStep'  BY <1>1, RestKept
<1> QED  BY <1>4, <1>5, <1>6, <1>7 DEF IInv

LEMMA ReleasesInv ==
  ASSUME IInv, NEW c \in Callers, Releases(c)
  PROVE  IInv'
<1> DEFINE a == calls[c].of
<1>1. /\ calls[c].at = "running" /\ UNCHANGED <<setups, open, current, hooks, watcher>>
      /\ releases' = [releases EXCEPT ![a] = @ + 1]
  BY DEF Releases
<1>2. a \in Attempts  BY <1>1, CallShape
<1>3. cleanup[a] = "running"  BY <1>1 DEF IInv, CallsInStep
<1>4. TypeOK  BY DEF IInv
<1>5. PICK result \in Over :
      /\ cleanup' = [cleanup EXCEPT ![a] = result]
      /\ UNCHANGED regs \/ regs' = [regs EXCEPT ![a] = 0]
      /\ result = "ok" /\ Of(a) \in Pools => regs' = [regs EXCEPT ![a] = 0]
  BY LinesAssumption DEF Releases, Over
<1>6. cleanup'[a] = result /\ \A b \in Attempts : b # a => cleanup'[b] = cleanup[b]
  BY <1>2, <1>4, <1>5 DEF TypeOK
<1> DEFINE new == [at |-> "returned", of |-> a, result |-> result]
<1>7. calls' = [calls EXCEPT ![c] = new]
  <2>1. Returned(c, a)  BY DEF Releases
  <2> QED  BY <2>1, <1>6 DEF Returned
<1>8. calls' \in [Callers -> Calls \cup {Idle}] /\ CallsInStep'
  <2>1. new \in Calls /\ new.at = "returned" /\ new.of = a /\ new.result = result
    BY <1>2 DEF Calls
  <2> HIDE DEF new
  <2> QED  BY <1>1, <1>2, <1>3, <1>6, <1>7, <2>1, CallsAfter
<1> HIDE DEF a
<1>9. releases[a] = 0 /\ At(a, "done")
  BY <1>2, <1>3 DEF IInv, SetupsInStep
<1>10. TypeOK'
  <2>1. releases' \in [Attempts -> Nat]  BY <1>1, <1>2, <1>4 DEF TypeOK
  <2>2. cleanup' \in [Attempts -> {"none", "fresh", "running"} \cup Over]
    BY <1>2, <1>4, <1>5 DEF TypeOK
  <2>3. regs' \in [Attempts -> 0 .. MaxNodes]
    BY <1>2, <1>4, <1>5, SetupBoundsAssumption DEF TypeOK
  <2> QED  BY <1>1, <1>4, <1>8, <2>1, <2>2, <2>3 DEF TypeOK
<1>11. SetupsInStep'
  <2>1. /\ releases'[a] = 1
        /\ \A b \in Attempts : b # a => releases'[b] = releases[b] /\ regs'[b] = regs[b]
        /\ result = "ok" /\ Of(a) \in Pools => regs'[a] = 0
    BY <1>1, <1>2, <1>4, <1>5, <1>9 DEF TypeOK
  <2> QED
    BY <1>1, <1>2, <1>6, <1>9, <2>1
    DEF IInv, SetupsInStep, At, Of, Over, Steps, PoolSteps, ClientSteps
<1>12. PoolsInStep' /\ HooksInStep'  BY <1>1, RestKept
<1> QED  BY <1>8, <1>10, <1>11, <1>12 DEF IInv

LEMMA OnceOverInv ==
  ASSUME IInv, NEW c \in Callers, OnceOver(c)
  PROVE  IInv'
<1> DEFINE a == calls[c].of
<1>1. /\ calls[c].at = "waiting" /\ cleanup[a] \in Over
      /\ UNCHANGED <<setups, open, current, hooks, regs, releases, cleanup, watcher>>
  BY DEF OnceOver
<1>2. a \in Attempts  BY <1>1, CallShape
<1> DEFINE new == [at |-> "returned", of |-> a, result |-> cleanup[a]]
<1>3. calls' = [calls EXCEPT ![c] = new]  BY <1>1 DEF OnceOver, Returned
<1>4. calls' \in [Callers -> Calls \cup {Idle}] /\ CallsInStep'
  <2>1. new \in Calls /\ new.at = "returned" /\ new.of = a /\ new.result = cleanup[a]
    BY <1>1, <1>2 DEF Calls
  <2> HIDE DEF new
  <2> QED  BY <1>1, <1>2, <1>3, <2>1, CallsAfter
<1>5. TypeOK'  BY <1>1, <1>4 DEF IInv, TypeOK
<1>6. SetupsInStep'  BY <1>1 DEF IInv, SetupsInStep, At, Of
<1>7. PoolsInStep' /\ HooksInStep'  BY <1>1, RestKept
<1> QED  BY <1>4, <1>5, <1>6, <1>7 DEF IInv

-----------------------------------------------------------------------------
(* The theorems.                                                           *)

\* Every step preserves the inductive invariant.
LEMMA StepInv == IInv /\ [Next]_vars => IInv'
<1> SUFFICES ASSUME IInv, [Next]_vars PROVE IInv'  OBVIOUS
<1>1. CASE \E a \in Attempts : Start(a)
  BY <1>1, RefuseNilInv, SetupPoolInv, SetupOpenInv, InstrumentClientInv DEF Start
<1>2. CASE \E a \in Attempts : Advance(a)
  BY <1>2, InstrumentDBInv, CloseOriginalInv, RegisterStatsInv, HandBackInv,
     InstrumentMetricsInv, InstrumentTracingInv DEF Advance
<1>3. CASE \E a \in Attempts : NodeJoins(a) \/ Unwatch(a)
  BY <1>3, NodeJoinsInv, UnwatchInv
<1>4. CASE \E c \in Callers, a \in Attempts : CleanupCalled(c, a)
  BY <1>4, CleanupCalledInv
<1>5. CASE \E c \in Callers : Releases(c) \/ OnceOver(c)
  BY <1>5, ReleasesInv, OnceOverInv
<1>6. CASE UNCHANGED vars
  <2>1. TypeOK' /\ CallsInStep'  BY <1>6 DEF vars, IInv, TypeOK, CallsInStep
  <2>2. SetupsInStep'  BY <1>6 DEF vars, IInv, SetupsInStep, At, Of
  <2>3. PoolsInStep' /\ HooksInStep'  BY <1>6, RestKept DEF vars
  <2> QED  BY <2>1, <2>2, <2>3 DEF IInv
<1> QED  BY <1>1, <1>2, <1>3, <1>4, <1>5, <1>6 DEF Next

\* The set-ups, the pools, the hooks and the cleanups stay in step whatever
\* sqlobs and redisobs are asked for, in whatever order and whatever fails.
THEOREM InductiveInvariant == SafeSpec => []IInv
<1>1. Init => IInv  BY InitInv
<1>2. IInv /\ [Next]_vars => IInv'  BY StepInv
<1> QED  BY <1>1, <1>2, PTL DEF SafeSpec

\* No failure of Setup or SetupOpen costs the application its pool, and no
\* success leaves the pool it replaces open.
THEOREM PoolKept == SafeSpec => []OnePoolThatDials
<1>1. IInv => OnePoolThatDials
  <2> SUFFICES ASSUME IInv, NEW p \in Pools
               PROVE  /\ ~Busy(p) => open[p] = {current[p]} \ {NoPool}
                      /\ \A pool \in open[p] : pool.dials
                      /\ current[p] # NoPool => open[p] # {}
    BY DEF OnePoolThatDials
  <2>1. ~Busy(p) => open[p] = {current[p]} \ {NoPool}  BY DEF IInv, PoolsInStep
  <2>2. current[p] = NoPool \/ current[p].dials  BY DEF IInv, PoolsInStep
  <2>3. CASE ~Busy(p)  BY <2>1, <2>2, <2>3
  <2>4. CASE Busy(p)
    <3>1. PICK a \in Attempts : setups[a].at \in Steps /\ Of(a) = p  BY <2>4 DEF Busy
    <3>2. setups[a].at \in PoolSteps
      BY <3>1, LinesAssumption DEF IInv, SetupsInStep, Steps
    <3>3. NewPool(a).dials  BY <3>2 DEF IInv, SetupsInStep, NewPool
    <3>4. CASE setups[a].at = "instrument"
      BY <2>2, <2>4, <3>1, <3>4 DEF IInv, PoolsInStep, At
    <3>5. CASE setups[a].at = "close"
      BY <2>2, <2>4, <3>1, <3>3, <3>5 DEF IInv, PoolsInStep, At
    <3>6. CASE setups[a].at \in {"register", "hand"}
      BY <2>4, <3>1, <3>3, <3>6 DEF IInv, PoolsInStep
    <3> QED  BY <3>2, <3>4, <3>5, <3>6 DEF PoolSteps
  <2> QED  BY <2>1, <2>3, <2>4
<1> QED  BY <1>1, InductiveInvariant, PTL

\* An attempt to instrument a Redis client leaves both hooks or neither.
THEOREM RetriesAreClean == SafeSpec => []FailureLeavesNoHook
<1>1. IInv => FailureLeavesNoHook
  <2> SUFFICES ASSUME IInv, NEW c \in Clients, ~Busy(c)
               PROVE  /\ hooks[c].metrics = {a \in Attempts : setups[a].at = "done" /\ Of(a) = c}
                      /\ hooks[c].tracing = hooks[c].metrics
    BY DEF FailureLeavesNoHook
  <2>1. hooks[c].metrics \subseteq Attempts /\ hooks[c].tracing \subseteq Attempts
    BY DEF IInv, TypeOK
  <2>2. \A a \in Attempts : ~(setups[a].at = "tracing" /\ Of(a) = c)
    BY DEF Busy, Steps, ClientSteps
  <2>3. \A a \in Attempts : a \in hooks[c].metrics <=> setups[a].at = "done" /\ Of(a) = c
    BY <2>2 DEF IInv, HooksInStep
  <2>4. \A a \in Attempts : a \in hooks[c].tracing <=> setups[a].at = "done" /\ Of(a) = c
    BY DEF IInv, HooksInStep, At
  <2>5. hooks[c].metrics = {a \in Attempts : setups[a].at = "done" /\ Of(a) = c}
    BY <2>1, <2>3
  <2>6. hooks[c].tracing = {a \in Attempts : setups[a].at = "done" /\ Of(a) = c}
    BY <2>1, <2>4
  <2> QED  BY <2>5, <2>6
<1> QED  BY <1>1, InductiveInvariant, PTL

\* However many goroutines call a cleanup, each returns after the one release,
\* with its result.
THEOREM CleanupReleases == SafeSpec => []CleanupMeansReleased
<1>1. IInv => CleanupMeansReleased
  <2> SUFFICES ASSUME IInv, NEW c \in Callers, calls[c].at = "returned"
               PROVE  LET a == calls[c].of
                      IN  /\ calls[c].result = cleanup[a]
                          /\ releases[a] = 1
                          /\ Of(a) \in Pools /\ calls[c].result = "ok" => regs[a] = 0
    BY DEF CleanupMeansReleased
  <2>1. calls[c].of \in Attempts /\ calls[c].result \in Over  BY CallShape
  <2>2. calls[c].result = cleanup[calls[c].of]  BY DEF IInv, CallsInStep
  <2> QED  BY <2>1, <2>2 DEF IInv, SetupsInStep
<1> QED  BY <1>1, InductiveInvariant, PTL

-----------------------------------------------------------------------------
(* The refinement: one attempt moves at a time, and one step of its lease.  *)

\* A step of one attempt that moves its lease as the abstract one allows.
LEMMA LeaseMove ==
  ASSUME TypeOK, NEW a \in Attempts,
         \A b \in Attempts : b # a => /\ setups'[b] = setups[b] /\ cleanup'[b] = cleanup[b]
                                      /\ releases'[b] = releases[b],
         releases' = [releases EXCEPT ![a] = releases'[a]],
         \/ Holder(a)' = Holder(a) /\ releases'[a] = releases[a]
         \/ /\ Holder(a) = "nobody" /\ Holder(a)' = "builder"
            /\ releases'[a] = releases[a]
         \/ /\ Holder(a) = "builder" /\ Holder(a)' = "provider"
            /\ releases'[a] = releases[a]
         \/ Holder(a) \in {"builder", "provider"} /\ Holder(a)' = "closed" /\ releases'[a] = 1
  PROVE  [Lease!Next]_Lease!vars
<1>1. \A b \in Attempts : b # a => Holder(b)' = Holder(b)
  BY DEF Holder, At, ClientSteps, Releasable
<1>2. releases'[a] = releases[a] => releases' = releases  BY DEF TypeOK
<1>3. CASE Holder(a)' = Holder(a) /\ releases'[a] = releases[a]
  <2>1. \A b \in Attempts : Holder(b)' = Holder(b)  BY <1>1, <1>3
  <2> QED  BY <1>2, <1>3, <2>1 DEF Lease!vars
<1>4. CASE Holder(a) = "nobody" /\ Holder(a)' = "builder" /\ releases'[a] = releases[a]
  <2>1. Lease!Open(a)  BY <1>1, <1>2, <1>4 DEF Lease!Open
  <2> QED  BY <2>1 DEF Lease!Next
<1>5. CASE Holder(a) = "builder" /\ Holder(a)' = "provider" /\ releases'[a] = releases[a]
  <2>1. Lease!HandOver({a})  BY <1>1, <1>2, <1>5 DEF Lease!HandOver
  <2>2. {a} \in SUBSET Attempts  OBVIOUS
  <2> QED  BY <2>1, <2>2 DEF Lease!Next
<1>6. CASE Holder(a) \in {"builder", "provider"} /\ Holder(a)' = "closed" /\ releases'[a] = 1
  <2>1. Lease!Close(a)  BY <1>1, <1>6 DEF Lease!Close
  <2> QED  BY <2>1 DEF Lease!Next
<1> QED  BY <1>3, <1>4, <1>5, <1>6

\* An attempt that begins owes nothing yet; a Setup of a client soon will.
LEMMA BeginMoves ==
  ASSUME IInv, NEW a \in Attempts, setups[a].at = "unborn",
         \A b \in Attempts : b # a => setups'[b] = setups[b],
         setups'[a].at \notin {"hand", "tracing"}, UNCHANGED <<cleanup, releases>>
  PROVE  [Lease!Next]_Lease!vars
<1>1. TypeOK  BY DEF IInv
<1>2. \A b \in Attempts : b # a => setups'[b] = setups[b]  OBVIOUS
<1>3. cleanup[a] = "none" /\ releases[a] = 0  BY DEF IInv, SetupsInStep, At
<1>4. Holder(a) = "nobody"  BY <1>2, <1>3 DEF Holder, At, ClientSteps
<1>5. Holder(a)' = "nobody" \/ Holder(a)' = "builder"
  BY <1>2, <1>3 DEF Holder, At, ClientSteps
<1>6. releases' = [releases EXCEPT ![a] = releases'[a]]  BY <1>1 DEF TypeOK
<1> QED  BY <1>1, <1>2, <1>4, <1>5, <1>6, LeaseMove

\* What an attempt under way owes, by the step it is at.
LEMMA Underway ==
  ASSUME IInv, NEW a \in Attempts, setups[a].at \in Steps
  PROVE  /\ setups[a].at \in ClientSteps /\ Releasable(a) => Holder(a) = "builder"
         /\ setups[a].at = "hand" => Holder(a) = "builder"
         /\ setups[a].at \in PoolSteps \ {"hand"} => Holder(a) = "nobody"
         /\ setups[a].at \in ClientSteps /\ ~Releasable(a) => Holder(a) = "nobody"
<1>1. cleanup[a] = "none" /\ releases[a] = 0  BY NothingYet
<1> QED  BY <1>1 DEF Holder, At, PoolSteps, ClientSteps

\* Until its gauges are registered, an attempt on a pool owes nothing.
LEMMA PoolMoves ==
  ASSUME IInv, NEW a \in Attempts, setups[a].at \in PoolSteps \ {"hand"},
         NEW step \in PoolSteps \cup {"failed", "done"}, GoTo(a, step),
         UNCHANGED <<cleanup, releases>>
  PROVE  [Lease!Next]_Lease!vars
<1>1. TypeOK /\ setups[a].at \in Steps /\ step \in Steps \cup {"failed", "done"}
  BY DEF IInv, Steps
<1>2. /\ setups'[a].at = step
      /\ \A b \in Attempts : b # a => setups'[b] = setups[b]
  BY <1>1, GoToEffect
<1>3. cleanup[a] = "none" /\ releases[a] = 0  BY <1>1, NothingYet
<1>4. Holder(a) = "nobody"  BY <1>1, Underway
<1>5. step \notin ClientSteps  BY DEF PoolSteps, ClientSteps
<1>6. Holder(a)' = "nobody" \/ Holder(a)' = "builder"
  BY <1>2, <1>3, <1>5 DEF Holder, At, ClientSteps
<1>7. releases' = [releases EXCEPT ![a] = releases'[a]]  BY <1>1 DEF TypeOK
<1> QED  BY <1>1, <1>2, <1>4, <1>6, <1>7, LeaseMove

LEMMA HandBackMoves ==
  ASSUME IInv, NEW a \in Attempts, HandBack(a)
  PROVE  [Lease!Next]_Lease!vars
<1>1. /\ GoTo(a, "done") /\ setups[a].at = "hand"
      /\ cleanup' = [cleanup EXCEPT ![a] = "fresh"] /\ UNCHANGED releases
  BY DEF HandBack, At
<1>2. TypeOK /\ setups[a].at \in Steps  BY <1>1 DEF IInv, Steps, PoolSteps
<1>3. \A b \in Attempts : b # a => setups'[b] = setups[b]
  BY <1>1, <1>2, GoToEffect
<1>4. cleanup[a] = "none" /\ releases[a] = 0  BY <1>2, NothingYet
<1>5. Holder(a) = "builder"  BY <1>1, <1>2, Underway
<1>6. cleanup'[a] = "fresh" /\ \A b \in Attempts : b # a => cleanup'[b] = cleanup[b]
  BY <1>1, <1>2 DEF TypeOK
<1>7. Holder(a)' = "provider"  BY <1>1, <1>4, <1>6 DEF Holder
<1>8. releases' = [releases EXCEPT ![a] = releases'[a]]  BY <1>1, <1>2 DEF TypeOK
<1> QED  BY <1>1, <1>2, <1>3, <1>5, <1>6, <1>7, <1>8, LeaseMove

LEMMA MetricsMoves ==
  ASSUME IInv, NEW a \in Attempts, InstrumentMetrics(a)
  PROVE  [Lease!Next]_Lease!vars
<1>1. setups[a].at = "metrics"  BY DEF InstrumentMetrics, At
<1>2. TypeOK /\ setups[a].at \in Steps /\ setups[a].at \in ClientSteps
  BY <1>1 DEF IInv, Steps, ClientSteps
<1>3. cleanup[a] = "none" /\ releases[a] = 0  BY <1>2, NothingYet
<1>4. CASE Proceed(a, "metrics")
  <2>1. GoTo(a, "tracing") /\ UNCHANGED <<cleanup, releases>>
    BY <1>4 DEF Proceed, InstrumentOrder
  <2>2. "tracing" \in Steps \cup {"failed", "done"}  BY DEF Steps, ClientSteps
  <2>3. /\ setups'[a].at = "tracing" /\ setups'[a].entry = setups[a].entry
        /\ \A b \in Attempts : b # a => setups'[b] = setups[b]
    BY <1>2, <2>1, <2>2, GoToEffect
  <2>4. Holder(a)' = Holder(a)
    BY <1>1, <1>3, <2>1, <2>3 DEF Holder, At, ClientSteps, Releasable
  <2>5. releases' = [releases EXCEPT ![a] = releases'[a]]  BY <1>2, <2>1 DEF TypeOK
  <2> QED  BY <1>2, <2>1, <2>3, <2>4, <2>5, LeaseMove
<1>5. CASE Fail(a)
  <2>1. GoTo(a, "failed") /\ releases' = CloseOnFailure(a) /\ UNCHANGED cleanup
    BY <1>5 DEF Fail
  <2>2. /\ setups'[a].at = "failed"
        /\ \A b \in Attempts : b # a => setups'[b] = setups[b]
    BY <1>2, <2>1, GoToEffect
  <2>3. CASE Releasable(a)
    <3>1. releases' = [releases EXCEPT ![a] = @ + 1]  BY <2>1, <2>3 DEF CloseOnFailure
    <3>2. /\ releases'[a] = 1 /\ releases' = [releases EXCEPT ![a] = releases'[a]]
          /\ \A b \in Attempts : b # a => releases'[b] = releases[b]
      BY <1>2, <1>3, <3>1 DEF TypeOK
    <3>3. Holder(a) = "builder"  BY <1>2, <2>3, Underway
    <3>4. Holder(a)' = "closed"  BY <3>2 DEF Holder
    <3> QED  BY <1>2, <2>1, <2>2, <3>2, <3>3, <3>4, LeaseMove
  <2>4. CASE ~Releasable(a)
    <3>1. releases' = releases  BY <2>1, <2>4 DEF CloseOnFailure
    <3>2. releases' = [releases EXCEPT ![a] = releases'[a]]  BY <1>2, <3>1 DEF TypeOK
    <3>3. Holder(a) = "nobody"  BY <1>2, <2>4, Underway
    <3>4. Holder(a)' = "nobody"  BY <1>3, <2>1, <2>2, <3>1 DEF Holder, At, ClientSteps
    <3> QED  BY <1>2, <2>1, <2>2, <3>1, <3>2, <3>3, <3>4, LeaseMove
  <2> QED  BY <2>3, <2>4
<1> QED  BY <1>4, <1>5 DEF InstrumentMetrics

LEMMA TracingMoves ==
  ASSUME IInv, NEW a \in Attempts, InstrumentTracing(a)
  PROVE  [Lease!Next]_Lease!vars
<1>1. setups[a].at = "tracing" /\ Of(a) \in Supported
  BY DEF InstrumentTracing, IInv, SetupsInStep, At
<1>2. /\ GoTo(a, "done") /\ UNCHANGED releases
      /\ cleanup' = IF Releasable(a) THEN [cleanup EXCEPT ![a] = "fresh"] ELSE cleanup
  BY <1>1 DEF InstrumentTracing, Proceed, InstrumentOrder
<1>3. TypeOK /\ setups[a].at \in Steps /\ setups[a].at \in ClientSteps
  BY <1>1 DEF IInv, Steps, ClientSteps
<1>4. /\ setups'[a].at = "done"
      /\ \A b \in Attempts : b # a => setups'[b] = setups[b]
  BY <1>2, <1>3, GoToEffect
<1>5. cleanup[a] = "none" /\ releases[a] = 0  BY <1>3, NothingYet
<1>6. releases' = [releases EXCEPT ![a] = releases'[a]]  BY <1>2, <1>3 DEF TypeOK
<1>7. \A b \in Attempts : b # a => cleanup'[b] = cleanup[b]  BY <1>2, <1>3 DEF TypeOK
<1>8. CASE Releasable(a)
  <2>1. cleanup'[a] = "fresh"  BY <1>2, <1>3, <1>8 DEF TypeOK
  <2>2. Holder(a) = "builder"  BY <1>3, <1>8, Underway
  <2>3. Holder(a)' = "provider"  BY <1>2, <1>5, <2>1 DEF Holder
  <2> QED  BY <1>2, <1>3, <1>4, <1>6, <1>7, <2>2, <2>3, LeaseMove
<1>9. CASE ~Releasable(a)
  <2>1. Holder(a) = "nobody"  BY <1>3, <1>9, Underway
  <2>2. Holder(a)' = "nobody"  BY <1>2, <1>4, <1>5, <1>9 DEF Holder, At, ClientSteps
  <2> QED  BY <1>2, <1>3, <1>4, <1>6, <1>7, <2>1, <2>2, LeaseMove
<1> QED  BY <1>8, <1>9

LEMMA ReleasesMoves ==
  ASSUME IInv, NEW c \in Callers, Releases(c)
  PROVE  [Lease!Next]_Lease!vars
<1>0. PICK a \in Attempts : calls[c].of = a /\ calls[c].at = "running"
  BY CallShape DEF Releases
<1>1. /\ calls[c].at = "running" /\ UNCHANGED setups
      /\ releases' = [releases EXCEPT ![a] = @ + 1]
  BY <1>0 DEF Releases
<1>2. cleanup[a] = "running"  BY <1>0 DEF IInv, CallsInStep
<1>3. TypeOK  BY DEF IInv
<1>4. releases[a] = 0  BY <1>2 DEF IInv, SetupsInStep
<1>5. \A b \in Attempts : b # a => cleanup'[b] = cleanup[b]
  <2>1. cleanup' = [cleanup EXCEPT ![a] = "ok"] \/ cleanup' = [cleanup EXCEPT ![a] = "error"]
    BY <1>0 DEF Releases
  <2> QED  BY <1>3, <2>1 DEF TypeOK
<1>6. /\ releases'[a] = 1 /\ releases' = [releases EXCEPT ![a] = releases'[a]]
      /\ \A b \in Attempts : b # a => releases'[b] = releases[b]
  BY <1>1, <1>3, <1>4 DEF TypeOK
<1>7. Holder(a) = "provider"  BY <1>2, <1>4 DEF Holder
<1>8. Holder(a)' = "closed"  BY <1>6 DEF Holder
<1> QED  BY <1>1, <1>3, <1>5, <1>6, <1>7, <1>8, LeaseMove

\* Steps that move no lease.
LEMMA NoMove ==
  ASSUME UNCHANGED <<setups, releases>>,
         \A a \in Attempts : (cleanup'[a] = "none") <=> (cleanup[a] = "none")
  PROVE  UNCHANGED Lease!vars
<1>1. \A a \in Attempts : Holder(a)' = Holder(a)  BY DEF Holder, At, ClientSteps, Releasable
<1> QED  BY <1>1 DEF Lease!vars

LEMMA StepRefines == IInv /\ [Next]_vars => [Lease!Next]_Lease!vars
<1> SUFFICES ASSUME IInv, [Next]_vars PROVE [Lease!Next]_Lease!vars  OBVIOUS
<1>1. ASSUME NEW a \in Attempts, Start(a) PROVE [Lease!Next]_Lease!vars
  <2>1. TypeOK  BY DEF IInv
  <2>2. CASE \E line \in Lines : RefuseNil(a, line)
    <3>1. /\ setups[a].at = "unborn" /\ setups'[a].at = "failed" /\ UNCHANGED <<cleanup, releases>>
          /\ \A b \in Attempts : b # a => setups'[b] = setups[b]
      BY <2>1, <2>2 DEF RefuseNil, Begin, At, TypeOK
    <3> QED  BY <3>1, BeginMoves
  <2>3. CASE \E p \in Pools, dsn \in BOOLEAN : SetupPool(a, p, dsn)
    <3>1. /\ setups[a].at = "unborn" /\ setups'[a].at \in {"instrument", "failed"}
          /\ UNCHANGED <<cleanup, releases>>
          /\ \A b \in Attempts : b # a => setups'[b] = setups[b]
      BY <2>1, <2>3 DEF SetupPool, AfterDSNCheck, Begin, At, TypeOK
    <3> QED  BY <3>1, BeginMoves
  <2>4. CASE \E p \in Pools : SetupOpen(a, p)
    <3>1. /\ setups[a].at = "unborn" /\ setups'[a].at \in {"register", "failed"}
          /\ UNCHANGED <<cleanup, releases>>
          /\ \A b \in Attempts : b # a => setups'[b] = setups[b]
      BY <2>1, <2>4 DEF SetupOpen, Begin, At, TypeOK
    <3> QED  BY <3>1, BeginMoves
  <2>5. CASE \E c \in Clients, entry \in {"Setup", "Instrument"} : InstrumentClient(a, c, entry)
    <3>1. /\ setups[a].at = "unborn" /\ setups'[a].at = "metrics" /\ UNCHANGED <<cleanup, releases>>
          /\ \A b \in Attempts : b # a => setups'[b] = setups[b]
      BY <2>1, <2>5 DEF InstrumentClient, InstrumentOrder, Begin, At, TypeOK
    <3> QED  BY <3>1, BeginMoves
  <2> QED  BY <1>1, <2>2, <2>3, <2>4, <2>5 DEF Start
<1>2. ASSUME NEW a \in Attempts, Advance(a) PROVE [Lease!Next]_Lease!vars
  <2>1. CASE InstrumentDB(a) \/ CloseOriginal(a) \/ RegisterStats(a)
    <3>1. PICK step \in PoolSteps \cup {"failed", "done"} :
            /\ setups[a].at \in PoolSteps \ {"hand"} /\ GoTo(a, step)
            /\ UNCHANGED <<cleanup, releases>>
      BY <2>1 DEF InstrumentDB, CloseOriginal, RegisterStats, At, PoolSteps
    <3> QED  BY <3>1, PoolMoves
  <2> QED  BY <1>2, <2>1, HandBackMoves, MetricsMoves, TracingMoves DEF Advance
<1>3. ASSUME NEW a \in Attempts, NodeJoins(a) \/ Unwatch(a) PROVE [Lease!Next]_Lease!vars
  BY <1>3, NoMove DEF NodeJoins, Unwatch
<1>4. ASSUME NEW c \in Callers, NEW a \in Attempts, CleanupCalled(c, a)
      PROVE  [Lease!Next]_Lease!vars
  <2>1. UNCHANGED <<setups, releases>> /\ cleanup[a] # "none"  BY <1>4 DEF CleanupCalled
  <2>2. cleanup' = cleanup \/ cleanup' = [cleanup EXCEPT ![a] = "running"]
    BY <1>4 DEF CleanupCalled
  <2>3. \A b \in Attempts : (cleanup'[b] = "none") <=> (cleanup[b] = "none")
    BY <2>1, <2>2 DEF IInv, TypeOK
  <2> QED  BY <2>1, <2>3, NoMove
<1>5. ASSUME NEW c \in Callers, Releases(c) \/ OnceOver(c) PROVE [Lease!Next]_Lease!vars
  <2>1. CASE OnceOver(c)  BY <2>1, NoMove DEF OnceOver
  <2> QED  BY <1>5, <2>1, ReleasesMoves
<1>6. CASE UNCHANGED vars  BY <1>6, NoMove DEF vars
<1> QED  BY <1>1, <1>2, <1>3, <1>4, <1>5, <1>6 DEF Next

\* What an attempt registered has an owner from the moment it is registered --
\* the set-up, then the CleanupFunc -- and is told to go once, whatever failed.
THEOREM Refinement == SafeSpec => ImplementsLease
<1>1. Init => Lease!Init
  <2> SUFFICES ASSUME Init PROVE Lease!Init  OBVIOUS
  <2>1. \A a \in Attempts : Holder(a) = "nobody" /\ releases = [b \in Attempts |-> 0]
    BY DEF Init, Holder, At, Unborn, ClientSteps
  <2>2. releases = [b \in Attempts |-> 0]  BY DEF Init
  <2> QED  BY <2>1, <2>2 DEF Lease!Init
<1>2. IInv /\ [Next]_vars => [Lease!Next]_Lease!vars  BY StepRefines
<1> QED  BY <1>1, <1>2, InductiveInvariant, PTL DEF SafeSpec, ImplementsLease, Lease!Spec

=============================================================================
