------------------------- MODULE GrpcPipelineProofs -------------------------
(***************************************************************************)
(* IInv of GrpcPipeline is an invariant, for every set of chains of any    *)
(* length, and with it the properties that make it up.                     *)
(***************************************************************************)
EXTENDS GrpcPipeline, TLAPS

\* A chain is a function of its frames' numbers.
LEMMA ChainFacts ==
    ASSUME TypeOK
    PROVE  /\ Len(chain) \in Nat
           /\ DOMAIN chain = 1 .. Len(chain)
           /\ \A i \in DOMAIN chain : chain[i] \in Kinds
           /\ depth \in Nat /\ depth <= Len(chain)
BY ChainsAssumption DEF TypeOK

\* Normalizing an error keeps its code, and makes it printable.
LEMMA Normalized ==
    ASSUME NEW e \in Errors
    PROVE  /\ NormalizeGRPCError(e) \in Errors
           /\ NormalizeGRPCError(e) # "unprintable"
           /\ Code(NormalizeGRPCError(e)) = Code(e)
BY StatusesAssumption DEF NormalizeGRPCError, Code, Errors

\* A code is a code; an error has the code OK only when there is none.
LEMMA CodeFacts ==
    ASSUME NEW e \in Errors
    PROVE  /\ Code(e) \in Codes
           /\ Code(e) # None
           /\ e = "nil" => Code(e) = "OK"
           /\ Wire(e) \in Codes
           /\ Code(e) = IF Wire(e) = "ContextError" THEN "Unknown" ELSE Wire(e)
BY StatusesAssumption DEF Code, Wire, Errors, Codes

\* What the operations on a frame's span give.
LEMMA FrameOperations ==
    ASSUME NEW f \in Frame, NEW e \in Errors
    PROVE  /\ Ended(f) \in Frame
           /\ Finalized(f, e) \in Frame
           /\ f.span = "open" => Ended(f).span = "ended"
           /\ f.span = "open" => /\ Finalized(f, e).span = "open"
                                 /\ Finalized(f, e).code = Code(e)
                                 /\ e # "nil" => Finalized(f, e).failed
           /\ \A field \in {"code", "failed", "recorded", "id", "unwound"} :
                Ended(f)[field] = f[field]
           /\ \A field \in {"recorded", "id", "unwound"} : Finalized(f, e)[field] = f[field]
<1>1. Code(e) \in Codes
  BY CodeFacts
<1> QED
  BY <1>1 DEF Ended, Finalized, Frame

\* The invariant holds initially.
LEMMA InitIInv == Init => IInv
<1> SUFFICES ASSUME Init PROVE IInv
  OBVIOUS
<1>1. NewFrame \in Frame /\ NewFrame.id = None
  BY DEF NewFrame, Frame
<1>2. TypeOK
  <2>1. Has("context") => Brought("context") \in RequestIDs
    BY RequestsAssumption DEF Init, Has, Brought, RequestIDs, Sources
  <2>2. Len(chain) \in Nat
    BY ChainsAssumption DEF Init
  <2>3. frames \in [DOMAIN chain -> Frame]
    BY <1>1 DEF Init
  <2>4. header \in RequestIDs \cup {None}
    BY <2>1 DEF Init
  <2>5. panicked \in BOOLEAN
    BY DEF Init
  <2>6. depth \in 0 .. Len(chain) /\ err \in Errors
    BY <2>2 DEF Init, Errors
  <2>7. phase \in {"down", "up", "panic", "sent", "crashed"}
    BY DEF Init
  <2> QED
    BY <2>3, <2>4, <2>5, <2>6, <2>7, Zenon DEF Init, TypeOK
<1>3. FramesInStep /\ SpanEndsFinalized
  BY ChainsAssumption DEF Init, FramesInStep, SpanEndsFinalized, NewFrame
<1>4. phase = "down"
  BY DEF Init
<1>6. ReportsTheError
  BY <1>4, SMT DEF ReportsTheError
<1>7. UnprintableIsFresh /\ ReportedIsSent /\ ReturnedErrorNeverCrashes
  BY <1>4, SMT DEF UnprintableIsFresh, ReportedIsSent, ReturnedErrorNeverCrashes
<1>5. HeaderIsChosen /\ OneRequestID
  <2>1. \A i \in DOMAIN chain : frames[i].id = None
    BY <1>1 DEF Init
  <2>2. header # None => header = Brought("context") /\ Has("context")
    BY DEF Init
  <2>3. header = None => ~Has("context")
    <3>1. Has("context") => header = Brought("context")
      BY DEF Init
    <3>2. Has("context") => Brought("context") \in RequestIDs
      BY RequestsAssumption DEF Init, Has, Brought, RequestIDs, Sources
    <3> QED
      BY <3>1, <3>2, StatusesAssumption
  <2> QED
    BY <2>1, <2>2, <2>3 DEF HeaderIsChosen, OneRequestID, Honours, Brought
<1> QED
  BY <1>2, <1>3, <1>5, <1>6, <1>7 DEF IInv

-----------------------------------------------------------------------------
(***************************************************************************)
(* On the way in.                                                          *)
(***************************************************************************)
\* An id that was brought is one, and in the form the call has it in.
LEMMA BroughtIDs ==
    ASSUME TypeOK, NEW source \in Sources, Has(source)
    PROVE  /\ Brought(source) \in RequestIDs
           /\ Brought(source).from = source
           /\ Brought(source).form = request[source]
           /\ source = "body" => Brought(source).form = "clean"
<1>1. /\ request \in [Sources -> Forms \cup {"absent"}]
      /\ request["body"] \in {"clean", "absent"}
  BY RequestsAssumption DEF TypeOK
<1>2. request[source] \in Forms
  BY <1>1 DEF Has
<1> QED
  BY <1>1, <1>2 DEF Has, Brought, RequestIDs

\* Cleaning an id changes its form only, and a clean one not at all.
LEMMA CleanedIDs ==
    ASSUME NEW id \in RequestIDs
    PROVE  /\ Cleaned(id) \in RequestIDs
           /\ Cleaned(id).from = id.from
           /\ Cleaned(id).form = "clean"
           /\ id.form = "clean" => Cleaned(id) = id
BY DEF RequestIDs, Forms, Cleaned

\* An id as it stands after frame j, given as it stood after frame i.
SameOrRewritten(i, id, j, other) == id = other \/ Rewritten(id, i, j)

\* The id a frame chooses is a good one, and the one the frames outside it
\* chose before, or what logging made of that.
LEMMA ChosenID ==
    ASSUME IInv, phase = "down", depth < Len(chain), NEW id,
           \/ id = ResolveGRPCRequestID(depth + 1)
           \/ id = ResolveAndNormalize(depth + 1) /\ chain[depth + 1] = "logging"
    PROVE  /\ id \in RequestIDs
           /\ id # None
           /\ Honours(id)
           /\ \A i \in DOMAIN chain :
                frames[i].id # None => SameOrRewritten(i, frames[i].id, depth + 1, id)
<1>1. /\ depth + 1 \in Nat \ {0} /\ depth \in Nat
      /\ MadeUp(depth + 1) \in RequestIDs /\ MadeUp(depth + 1).from = "new"
  BY ChainFacts DEF MadeUp, RequestIDs, IInv
<1>2. /\ header \in RequestIDs \cup {None}
      /\ request \in [Sources -> Forms \cup {"absent"}]
      /\ {"body", "context", "metadata"} = Sources
  BY RequestsAssumption DEF IInv, TypeOK, Sources
<1>3. \A source \in Sources : Has(source) =>
            /\ Brought(source) \in RequestIDs
            /\ Brought(source).from = source
            /\ Brought(source).form = request[source]
  BY BroughtIDs DEF IInv
<1>4. CASE Has("body")
  <2>1. id = Brought("body")
    BY <1>4 DEF ResolveGRPCRequestID, ResolveAndNormalize
  <2>2. Honours(id)
    BY <1>2, <1>3, <1>4, <2>1 DEF Honours
  <2>3. \A i \in DOMAIN chain : frames[i].id # None => frames[i].id = id
    BY <1>4, <2>1 DEF IInv, HeaderIsChosen, Honours
  <2>4. id \in RequestIDs
    BY <1>2, <1>3, <1>4, <2>1
  <2> QED
    BY <2>2, <2>3, <2>4, StatusesAssumption DEF SameOrRewritten
<1>5. CASE ~Has("body")
  <2>1. /\ header = None => ~Has("context")
        /\ header # None => Honours(header)
        /\ \A i \in DOMAIN chain :
                frames[i].id # None => SameOrRewritten(i, frames[i].id, depth, header)
    BY <1>5 DEF IInv, HeaderIsChosen, SameOrRewritten
  <2>2. \A i \in DOMAIN chain : Rewritten(frames[i].id, i, depth)
                                => Rewritten(frames[i].id, i, depth + 1)
    BY <1>1, ChainFacts DEF IInv, Rewritten
  <2>3. CASE id = ResolveGRPCRequestID(depth + 1) /\ header # None
    <3>1. id = header
      BY <1>5, <2>3 DEF ResolveGRPCRequestID
    <3> QED
      BY <1>2, <2>1, <2>2, <2>3, <3>1 DEF SameOrRewritten
  <2>4. CASE id = ResolveGRPCRequestID(depth + 1) /\ header = None
    <3>1. id = IF Has("metadata") THEN Brought("metadata") ELSE MadeUp(depth + 1)
      BY <1>5, <2>4 DEF ResolveGRPCRequestID
    <3>2. id \in RequestIDs
      BY <1>1, <1>2, <1>3, <3>1
    <3>3. Honours(id)
      BY <1>1, <1>2, <1>3, <1>5, <2>1, <2>4, <3>1 DEF Honours, Has
    <3>4. \A i \in DOMAIN chain : frames[i].id # None => Rewritten(frames[i].id, i, depth)
      BY <2>1, <2>4 DEF SameOrRewritten
    <3> QED
      BY <2>2, <3>2, <3>3, <3>4, StatusesAssumption DEF SameOrRewritten
  <2>5. CASE id = ResolveAndNormalize(depth + 1) /\ chain[depth + 1] = "logging"
    <3>1. \A i \in DOMAIN chain : frames[i].id # None /\ frames[i].id.form # "clean"
                                 /\ i <= depth => Rewritten(frames[i].id, i, depth + 1)
      BY <1>1, <2>5, ChainFacts DEF IInv, Rewritten
    <3>2. \A i \in DOMAIN chain : frames[i].id # None => i <= depth
      BY ChainFacts DEF IInv, FramesInStep, NewFrame
    <3>3. CASE Kept(header)
      <4>1. id = Cleaned(header) /\ header # None /\ header \in RequestIDs
        BY <1>2, <1>5, <2>5, <3>3 DEF ResolveAndNormalize, Kept
      <4>2. /\ id \in RequestIDs /\ id.from = header.from /\ id.form = "clean"
            /\ header.form = "clean" => id = header
        BY <4>1, CleanedIDs
      <4>3. Honours(id)
        BY <1>5, <2>1, <4>1, <4>2 DEF Honours
      <4>4. \A i \in DOMAIN chain :
                frames[i].id # None => SameOrRewritten(i, frames[i].id, depth + 1, id)
        BY <2>1, <2>2, <3>1, <3>2, <4>1, <4>2 DEF SameOrRewritten
      <4> QED
        BY <4>2, <4>3, <4>4, StatusesAssumption
    <3>4. CASE ~Kept(header)
      <4>1. id = IF Has("metadata") /\ Kept(Brought("metadata"))
                 THEN Cleaned(Brought("metadata")) ELSE MadeUp(depth + 1)
        BY <1>5, <2>5, <3>4 DEF ResolveAndNormalize
      <4>2. id \in RequestIDs
        <5>1. CASE Has("metadata") /\ Kept(Brought("metadata"))
          BY <1>2, <1>3, <4>1, <5>1, CleanedIDs
        <5>2. CASE ~(Has("metadata") /\ Kept(Brought("metadata")))
          BY <1>1, <4>1, <5>2
        <5> QED
          BY <5>1, <5>2
      <4>3. request["context"] \in {"absent", "foreign"}
        <5>1. CASE header = None
          BY <1>2, <2>1, <5>1 DEF Has
        <5>2. CASE header # None
          <6>1. header \in RequestIDs /\ header.form = "foreign" /\ Honours(header)
            BY <1>2, <2>1, <3>4, <5>2 DEF Kept
          <6>2. header.from \in {"context", "metadata"}
            BY <1>5, <6>1 DEF RequestIDs, Sources, Honours
          <6> QED
            BY <6>1, <6>2 DEF Honours
        <5> QED
          BY <5>1, <5>2
      <4>4. Honours(id)
        <5>1. CASE Has("metadata") /\ Kept(Brought("metadata"))
          <6>1. id.from = "metadata" /\ id.form = "clean"
            BY <1>2, <1>3, <4>1, <5>1, CleanedIDs
          <6> QED
            BY <1>5, <4>3, <5>1, <6>1 DEF Honours
        <5>2. CASE ~(Has("metadata") /\ Kept(Brought("metadata")))
          <6>1. request["metadata"] \in {"absent", "foreign"}
            BY <1>2, <1>3, <5>2, StatusesAssumption DEF Has, Kept
          <6>2. id = MadeUp(depth + 1) /\ id.from = "new"
            BY <1>1, <4>1, <5>2
          <6> QED
            BY <1>2, <1>5, <4>3, <6>1, <6>2 DEF Honours, Has
        <5> QED
          BY <5>1, <5>2
      <4>5. \A i \in DOMAIN chain :
                frames[i].id # None => SameOrRewritten(i, frames[i].id, depth + 1, id)
        BY <2>1, <2>2, <3>1, <3>2, <3>4 DEF SameOrRewritten, Kept
      <4> QED
        BY <4>2, <4>4, <4>5, StatusesAssumption
    <3> QED
      BY <3>3, <3>4
  <2> QED
    BY <2>3, <2>4, <2>5
<1> QED
  BY <1>4, <1>5

\* While the call goes in, four parts of the invariant have nothing to say.
LEMMA GoingIn ==
    ASSUME phase' = "down"
    PROVE  (ReportsTheError /\ UnprintableIsFresh /\ ReportedIsSent /\ ReturnedErrorNeverCrashes)'
<1>1. ReportsTheError'
  BY SMT DEF ReportsTheError
<1> QED
  BY <1>1, SMT DEF UnprintableIsFresh, ReportedIsSent, ReturnedErrorNeverCrashes

\* A frame that chooses no id leaves what is known of the ids.
LEMMA IDsKept ==
    ASSUME IInv, UNCHANGED <<chain, request, header>>,
           phase' = "down" => phase = "down" /\ depth' = depth + 1,
           \A i \in DOMAIN chain : frames'[i].id = frames[i].id
    PROVE  HeaderIsChosen' /\ OneRequestID'
<1>1. DOMAIN chain = 1 .. Len(chain) /\ depth \in Nat
  BY ChainFacts DEF IInv
<1>2. HeaderIsChosen'
  <2>1. header' = None => ~Has("context")'
    BY DEF IInv, HeaderIsChosen, Has
  <2>2. (header' # None /\ ~Has("body")') => Honours(header)'
    BY DEF IInv, HeaderIsChosen, Has, Honours, Brought
  <2>3. ASSUME NEW i \in DOMAIN chain, frames'[i].id # None
        PROVE  /\ Honours(frames[i].id)'
               /\ phase' = "down" => \/ frames'[i].id = header'
                                     \/ Rewritten(frames[i].id, i, depth)'
    <3>1. Honours(frames[i].id)
      BY <2>3 DEF IInv, HeaderIsChosen
    <3>2. Honours(frames[i].id)'
      BY <3>1 DEF Honours, Has, Brought
    <3>3. CASE phase' = "down"
      <4>1. frames[i].id = header \/ Rewritten(frames[i].id, i, depth)
        BY <2>3, <3>3 DEF IInv, HeaderIsChosen
      <4> QED
        BY <1>1, <3>2, <3>3, <4>1 DEF Rewritten
    <3> QED
      BY <3>2, <3>3
  <2> QED
    BY <2>1, <2>2, <2>3 DEF HeaderIsChosen
<1>3. OneRequestID'
  BY DEF IInv, OneRequestID, Honours, Has, Brought, Rewritten
<1> QED
  BY <1>2, <1>3

\* Entering a frame changes that frame only, and gives it a span if it traces.
LEMMA FrameEntered ==
    ASSUME IInv, NEW kinds, Entering(kinds), NEW f \in Frame,
           frames' = [frames EXCEPT ![depth + 1] = f],
           chain[depth + 1] \in Traced => f.span = "open",
           f.span # "ended"
    PROVE  FramesInStep' /\ SpanEndsFinalized' /\ frames' \in [DOMAIN chain -> Frame]
<1>1. /\ depth + 1 \in DOMAIN chain
      /\ DOMAIN chain = 1 .. Len(chain)
      /\ Len(chain) \in Nat /\ depth \in Nat
  BY ChainFacts DEF Entering, IInv
<1>2. frames \in [DOMAIN chain -> Frame]
  BY DEF IInv, TypeOK
<1>3. phase = "down" /\ phase' = "down" /\ chain' = chain /\ depth' = depth + 1
  BY DEF Entering
<1>4. FramesInStep'
  BY <1>1, <1>2, <1>3 DEF IInv, FramesInStep
<1>5. SpanEndsFinalized'
  BY <1>1, <1>2, <1>3 DEF IInv, SpanEndsFinalized
<1> QED
  BY <1>1, <1>2, <1>4, <1>5

\* What Entering leaves of the type invariant to show.
LEMMA TypeEntering ==
    ASSUME IInv, NEW kinds, Entering(kinds),
           header' \in RequestIDs \cup {None}, frames' \in [DOMAIN chain -> Frame]
    PROVE  TypeOK'
<1>1. Len(chain) \in Nat /\ depth \in Nat
  BY ChainFacts DEF IInv
<1>2. depth' \in 0 .. Len(chain')
  BY <1>1 DEF Entering
<1> QED
  BY <1>2, Zenon DEF Entering, IInv, TypeOK

\* EnterPassive preserves the invariant.
LEMMA EnterPassiveStep == IInv /\ EnterPassive => IInv'
<1> SUFFICES ASSUME IInv, EnterPassive PROVE IInv'
  OBVIOUS
<1>1. TypeOK'
  BY TypeEntering DEF EnterPassive, IInv, TypeOK
<1>2. /\ depth + 1 \in DOMAIN chain
      /\ DOMAIN chain = 1 .. Len(chain)
      /\ Len(chain) \in Nat /\ depth \in Nat
  BY ChainFacts DEF EnterPassive, Entering, IInv
<1>3. chain[depth + 1] \notin Traced
  BY DEF EnterPassive, Entering, Traced
<1>4. FramesInStep' /\ SpanEndsFinalized'
  BY <1>2, <1>3 DEF EnterPassive, Entering, IInv, FramesInStep, SpanEndsFinalized
<1>5. HeaderIsChosen' /\ OneRequestID'
  BY IDsKept DEF EnterPassive, Entering
<1> QED
  BY <1>1, <1>4, <1>5, GoingIn DEF EnterPassive, Entering, IInv

\* EnterTracer preserves the invariant.
LEMMA EnterTracerStep == IInv /\ EnterTracer => IInv'
<1> SUFFICES ASSUME IInv, EnterTracer PROVE IInv'
  OBVIOUS
<1>1. depth + 1 \in DOMAIN chain /\ frames[depth + 1] \in Frame
  BY ChainFacts DEF EnterTracer, Entering, IInv, TypeOK
<1> DEFINE f == [frames[depth + 1] EXCEPT !.span = "open"]
<1>2. f \in Frame /\ f.span = "open" /\ f.id = frames[depth + 1].id
  BY <1>1 DEF Frame
<1>3. frames' = [frames EXCEPT ![depth + 1] = f] /\ Entering({"tracer"})
  BY DEF EnterTracer
<1>4. FramesInStep' /\ SpanEndsFinalized' /\ frames' \in [DOMAIN chain -> Frame]
  <2> HIDE DEF f
  <2> QED
    BY <1>2, <1>3, FrameEntered
<1>5. TypeOK'
  BY <1>3, <1>4, TypeEntering DEF EnterTracer, IInv, TypeOK
<1>6. \A i \in DOMAIN chain : frames'[i].id = frames[i].id
  BY <1>1, <1>2, <1>3 DEF IInv, TypeOK
<1>7. HeaderIsChosen' /\ OneRequestID'
  BY <1>6, IDsKept DEF EnterTracer, Entering
<1> QED
  BY <1>4, <1>5, <1>7, GoingIn DEF EnterTracer, Entering, IInv

\* A frame that chooses the request id keeps what is known of the ids.
LEMMA IDChosen ==
    ASSUME IInv, NEW kinds, Entering(kinds), NEW f \in Frame,
           frames' = [frames EXCEPT ![depth + 1] = f],
           \/ header' = ResolveGRPCRequestID(depth + 1)
           \/ header' = ResolveAndNormalize(depth + 1) /\ kinds = {"logging"},
           f.id = header'
    PROVE  HeaderIsChosen' /\ OneRequestID' /\ header' \in RequestIDs
<1>1. /\ phase = "down" /\ phase' = "down" /\ depth < Len(chain) /\ depth' = depth + 1
      /\ chain' = chain /\ request' = request /\ chain[depth + 1] \in kinds
  BY DEF Entering
<1>2. DOMAIN chain = 1 .. Len(chain) /\ Len(chain) \in Nat /\ depth \in Nat
  BY ChainFacts DEF IInv
<1>3. /\ header' \in RequestIDs
      /\ header' # None
      /\ Honours(header')
      /\ \A i \in DOMAIN chain :
            frames[i].id # None => SameOrRewritten(i, frames[i].id, depth + 1, header')
  <2> DEFINE id == header'
  <2>1. \/ id = ResolveGRPCRequestID(depth + 1)
        \/ id = ResolveAndNormalize(depth + 1) /\ chain[depth + 1] = "logging"
    BY <1>1
  <2> HIDE DEF id
  <2>2. /\ id \in RequestIDs
        /\ id # None
        /\ Honours(id)
        /\ \A i \in DOMAIN chain :
              frames[i].id # None => SameOrRewritten(i, frames[i].id, depth + 1, id)
    BY <1>1, <2>1, ChosenID
  <2> QED
    BY <2>2 DEF id
<1>4. /\ frames'[depth + 1].id = header'
      /\ \A i \in DOMAIN chain : i # depth + 1 => frames'[i] = frames[i]
      /\ \A i \in DOMAIN chain : i > depth => frames[i].id = None
  BY <1>1, <1>2 DEF IInv, TypeOK, FramesInStep, NewFrame
<1>5. \A i \in DOMAIN chain : frames'[i].id # None =>
            /\ Honours(frames'[i].id)
            /\ frames'[i].id = header' \/ Rewritten(frames'[i].id, i, depth + 1)
  BY <1>2, <1>3, <1>4 DEF IInv, HeaderIsChosen, SameOrRewritten
<1>6. HeaderIsChosen'
  BY <1>1, <1>3, <1>5 DEF HeaderIsChosen, Honours, Has, Brought, Rewritten
<1>7. OneRequestID'
  <2> SUFFICES ASSUME NEW i \in DOMAIN chain, NEW j \in DOMAIN chain,
                      i < j, frames'[i].id # None, frames'[j].id # None
               PROVE  /\ Honours(frames'[i].id) /\ Honours(frames'[j].id)
                      /\ frames'[i].id = frames'[j].id \/ Rewritten(frames'[i].id, i, j)
    BY <1>1, <1>5 DEF OneRequestID, Honours, Has, Brought, Rewritten
  <2>1. CASE j = depth + 1
    BY <1>4, <1>5, <2>1
  <2>2. CASE j # depth + 1
    <3>1. j < depth + 1 /\ i # depth + 1
      BY <1>2, <1>4, <2>2
    <3> QED
      BY <1>4, <2>2, <3>1 DEF IInv, OneRequestID
  <2> QED
    BY <2>1, <2>2
<1> QED
  BY <1>3, <1>6, <1>7

\* EnterMetrics and EnterLogging preserve the invariant.
LEMMA EnterPlainStep == IInv /\ (EnterMetrics \/ EnterLogging) => IInv'
<1> SUFFICES ASSUME IInv, EnterMetrics \/ EnterLogging PROVE IInv'
  OBVIOUS
<1>1. PICK kinds \in {{"metrics"}, {"logging"}} :
        /\ Entering(kinds)
        /\ \/ header' = ResolveGRPCRequestID(depth + 1)
           \/ header' = ResolveAndNormalize(depth + 1) /\ kinds = {"logging"}
        /\ frames' = [frames EXCEPT ![depth + 1].id = header']
  BY DEF EnterMetrics, EnterLogging
<1>2. depth + 1 \in DOMAIN chain /\ frames[depth + 1] \in Frame /\ frames[depth + 1].span = "none"
  BY <1>1, ChainFacts DEF Entering, IInv, TypeOK, FramesInStep, NewFrame
<1> DEFINE id == header'
<1>3. id \in RequestIDs
  <2>1. phase = "down" /\ depth < Len(chain) /\ chain[depth + 1] \in kinds
    BY <1>1 DEF Entering
  <2>2. \/ id = ResolveGRPCRequestID(depth + 1)
        \/ id = ResolveAndNormalize(depth + 1) /\ chain[depth + 1] = "logging"
    BY <1>1, <2>1
  <2> HIDE DEF id
  <2> QED
    BY <2>1, <2>2, ChosenID
<1> DEFINE f == [frames[depth + 1] EXCEPT !.id = header']
<1>4. f \in Frame /\ f.span = "none" /\ f.id = header'
  BY <1>2, <1>3 DEF Frame
<1>5. frames' = [frames EXCEPT ![depth + 1] = f]
  BY <1>1
<1>6. chain[depth + 1] \notin Traced
  BY <1>1 DEF Entering, Traced
<1> HIDE DEF f
<1>7. FramesInStep' /\ SpanEndsFinalized' /\ frames' \in [DOMAIN chain -> Frame]
  BY <1>1, <1>4, <1>5, <1>6, FrameEntered
<1>8. HeaderIsChosen' /\ OneRequestID'
  BY <1>1, <1>4, <1>5, IDChosen
<1>9. TypeOK'
  BY <1>1, <1>3, <1>7, TypeEntering
<1> QED
  BY <1>1, <1>7, <1>8, <1>9, GoingIn DEF Entering, IInv

\* EnterTelemetry preserves the invariant.
LEMMA EnterTelemetryStep ==
    ASSUME IInv, NEW collects \in BOOLEAN, EnterTelemetry(collects)
    PROVE  IInv'
<1>1. depth + 1 \in DOMAIN chain /\ frames[depth + 1] \in Frame
  BY ChainFacts DEF EnterTelemetry, Entering, IInv, TypeOK
<1>2. header' \in RequestIDs
  <2> DEFINE id == header'
  <2>1. phase = "down" /\ depth < Len(chain) /\ id = ResolveGRPCRequestID(depth + 1)
    BY DEF EnterTelemetry, Entering
  <2> HIDE DEF id
  <2>2. id \in RequestIDs
    BY <2>1, ChosenID
  <2> QED
    BY <2>2 DEF id
<1> DEFINE f == [frames[depth + 1] EXCEPT !.id = header', !.span = "open", !.failed = ~collects]
<1>3. f \in Frame /\ f.span = "open" /\ f.id = header'
  BY <1>1, <1>2 DEF Frame
<1>4. /\ frames' = [frames EXCEPT ![depth + 1] = f]
      /\ Entering(Traced)
      /\ header' = ResolveGRPCRequestID(depth + 1)
  BY DEF EnterTelemetry
<1> HIDE DEF f
<1>5. FramesInStep' /\ SpanEndsFinalized' /\ frames' \in [DOMAIN chain -> Frame]
  BY <1>3, <1>4, FrameEntered
<1>6. HeaderIsChosen' /\ OneRequestID'
  BY <1>3, <1>4, IDChosen
<1>7. TypeOK'
  BY <1>2, <1>4, <1>5, TypeEntering
<1> QED
  BY <1>5, <1>6, <1>7, GoingIn DEF EnterTelemetry, Entering, IInv

\* At the end of the chain the handler returns, or panics.
LEMMA HandlerStep ==
    ASSUME IInv, (\E e \in Errors : HandlerReturns(e)) \/ HandlerPanics
    PROVE  IInv'
<1>1. /\ phase = "down" /\ depth = Len(chain)
      /\ UNCHANGED <<chain, request, depth, header, frames, answer>>
  BY DEF HandlerReturns, HandlerPanics, AtHandler
<1>2. \/ phase' = "up" /\ err' \in Errors /\ panicked' = panicked
      \/ phase' = "panic" /\ err' = err /\ panicked' = TRUE
  BY DEF HandlerReturns, HandlerPanics
<1>3. DOMAIN chain = 1 .. depth /\ depth \in Nat
  BY <1>1, ChainFacts DEF IInv
<1>4. TypeOK'
  <2>1. panicked' \in BOOLEAN
    BY <1>2 DEF IInv, TypeOK
  <2>2. err' \in Errors /\ phase' \in {"up", "panic"}
    BY <1>2 DEF IInv, TypeOK
  <2> QED
    BY <1>1, <2>1, <2>2 DEF IInv, TypeOK
<1>5. FramesInStep' /\ SpanEndsFinalized'
  BY <1>1, <1>2, <1>3 DEF IInv, FramesInStep, SpanEndsFinalized
<1>6. ReportsTheError'
  BY <1>1, <1>2, <1>3 DEF ReportsTheError
<1>7. UnprintableIsFresh'
  <2>1. phase' = "panic" => panicked'
    BY <1>2, Zenon
  <2>2. depth + 1 \in depth + 1 .. depth + 1 /\ \A i \in depth + 1 .. depth + 1 - 1 : FALSE
    BY <1>3
  <2>3. \E t \in depth' + 1 .. Len(chain') + 1 :
            /\ t <= Len(chain') => chain'[t] = "tracer"
            /\ \A i \in depth' + 1 .. t - 1 : chain'[i] \notin Normalizing
    BY <1>1, <1>3, <2>2
  <2> QED
    BY <2>1, <2>3 DEF UnprintableIsFresh
<1>8. ReportedIsSent' /\ ReturnedErrorNeverCrashes'
  BY <1>2, SMT DEF ReportedIsSent, ReturnedErrorNeverCrashes
<1>9. HeaderIsChosen' /\ OneRequestID'
  BY <1>1, <1>2, IDsKept
<1> QED
  BY <1>4, <1>5, <1>6, <1>7, <1>8, <1>9 DEF IInv

-----------------------------------------------------------------------------
(***************************************************************************)
(* On the way out, up or in panic.                                         *)
(***************************************************************************)
\* What every step that leaves a frame has in common.
Left ==
    /\ phase \in {"up", "panic"} /\ phase' \in {"up", "panic"}
    /\ depth > 0 /\ depth' = depth - 1
    /\ UNCHANGED <<chain, request, header, answer>>

\* Leaving a traced frame ends its span, with a code or by a panic, and the
\* other traced frames keep theirs.
LEMMA FrameLeft ==
    ASSUME IInv, Left,
           \A i \in DOMAIN chain : i # depth /\ chain[i] \in Traced => frames'[i] = frames[i],
           chain[depth] \in Traced =>
                /\ frames'[depth].span = "ended"
                /\ frames'[depth].code # None \/ frames'[depth].unwound,
           \A i \in DOMAIN chain : frames'[i].id = frames[i].id
    PROVE  /\ FramesInStep' /\ SpanEndsFinalized'
           /\ ReportedIsSent' /\ ReturnedErrorNeverCrashes'
           /\ HeaderIsChosen' /\ OneRequestID'
<1>1. DOMAIN chain = 1 .. Len(chain) /\ Len(chain) \in Nat /\ depth \in Nat /\ depth <= Len(chain)
  BY ChainFacts DEF IInv
<1>2. FramesInStep'
  BY <1>1 DEF IInv, FramesInStep, Left
<1>3. SpanEndsFinalized'
  BY <1>1 DEF IInv, SpanEndsFinalized, Left
<1>4. ReportedIsSent' /\ ReturnedErrorNeverCrashes'
  BY SMT DEF ReportedIsSent, ReturnedErrorNeverCrashes, Left
<1>5. HeaderIsChosen' /\ OneRequestID'
  BY IDsKept DEF Left
<1> QED
  BY <1>2, <1>3, <1>4, <1>5

\* What Left leaves of the type invariant to show.
LEMMA TypeLeft ==
    ASSUME IInv, Left, err' \in Errors, panicked' \in BOOLEAN,
           frames' \in [DOMAIN chain -> Frame]
    PROVE  TypeOK'
<1>1. Len(chain) \in Nat /\ depth \in Nat /\ depth <= Len(chain)
  BY ChainFacts DEF IInv
<1>2. depth' \in 0 .. Len(chain')
  BY <1>1 DEF Left
<1>3. phase' \in {"down", "up", "panic", "sent", "crashed"}
  BY DEF Left
<1> QED
  BY <1>2, <1>3, Zenon DEF Left, IInv, TypeOK

\* A frame left by an error that keeps its code reports it, as those inside do.
LEMMA ReportsKept ==
    ASSUME IInv, Left, phase = "up", phase' = "up", Code(err') = Code(err),
           \A i \in DOMAIN chain : i # depth /\ chain[i] \in Normalizing => frames'[i] = frames[i],
           \A i \in DOMAIN chain : i = depth /\ chain[i] \in Normalizing => Reports(i, Code(err))'
    PROVE  ReportsTheError'
<1>1. DOMAIN chain = 1 .. Len(chain) /\ Len(chain) \in Nat /\ depth \in Nat /\ depth <= Len(chain)
  BY ChainFacts DEF IInv
<1> SUFFICES ASSUME NEW i \in DOMAIN chain, depth' < i, Final(i)', chain[i] \in Normalizing
             PROVE  Reports(i, Code(err))'
  BY SMT DEF ReportsTheError, Left
<1>2. CASE i = depth
  BY <1>2
<1>3. CASE i # depth
  <2>1. depth < i /\ frames'[i] = frames[i] /\ chain' = chain
    BY <1>1, <1>3 DEF Left
  <2>2. Final(i)
    BY <2>1 DEF Final, Outer
  <2>3. Reports(i, Code(err))
    BY <2>1, <2>2 DEF IInv, ReportsTheError
  <2> QED
    BY <2>1, <2>3 DEF Reports
<1> QED
  BY <1>2, <1>3

\* Leaving a frame that neither normalizes nor replaces the error.
LEMMA FreshKept ==
    ASSUME IInv, Left, phase = "up", phase' = "up", err' = err, chain[depth] \notin Normalizing
    PROVE  UnprintableIsFresh'
<1>1. Len(chain) \in Nat /\ depth \in Nat /\ depth <= Len(chain)
  BY ChainFacts DEF IInv
<1> SUFFICES ASSUME err = "unprintable"
             PROVE  \E t \in depth' + 1 .. Len(chain') + 1 :
                        /\ t <= Len(chain') => chain'[t] = "tracer"
                        /\ \A i \in depth' + 1 .. t - 1 : chain'[i] \notin Normalizing
  BY SMT DEF UnprintableIsFresh
<1>2. PICK t \in depth + 1 .. Len(chain) + 1 :
            /\ t <= Len(chain) => chain[t] = "tracer"
            /\ \A i \in depth + 1 .. t - 1 : chain[i] \notin Normalizing
  BY DEF IInv, UnprintableIsFresh
<1>3. t \in depth' + 1 .. Len(chain') + 1
  BY <1>1 DEF Left
<1>4. \A i \in depth' + 1 .. t - 1 : chain'[i] \notin Normalizing
  BY <1>1, <1>2 DEF Left
<1> QED
  BY <1>2, <1>3, <1>4 DEF Left

\* LeavePassive preserves the invariant.
LEMMA LeavePassiveStep == IInv /\ LeavePassive => IInv'
<1> SUFFICES ASSUME IInv, LeavePassive PROVE IInv'
  OBVIOUS
<1>1. Left /\ phase = "up" /\ phase' = "up" /\ err' = err /\ frames' = frames
  BY DEF LeavePassive, Leaving, Left
<1>2. chain[depth] \notin Normalizing /\ chain[depth] \notin Traced
  BY DEF LeavePassive, Leaving, Normalizing, Traced, Recording, Metered
<1>3. /\ FramesInStep' /\ SpanEndsFinalized' /\ ReportedIsSent' /\ ReturnedErrorNeverCrashes'
      /\ HeaderIsChosen' /\ OneRequestID'
  BY <1>1, <1>2, FrameLeft
<1>4. TypeOK'
  BY <1>1, TypeLeft DEF LeavePassive, IInv, TypeOK
<1>5. ReportsTheError' /\ UnprintableIsFresh'
  BY <1>1, <1>2, ReportsKept, FreshKept
<1> QED
  BY <1>3, <1>4, <1>5 DEF IInv

\* What EndTracingSpansInterceptor ends is never the span of a traced frame.
LEMMA EndedByEnd ==
    ASSUME IInv, NEW i \in DOMAIN chain, NEW j \in EndedBy(i)
    PROVE  chain[j] \notin Normalizing /\ chain[j] \notin Traced
<1>1. Outer(i, Traced) = {} /\ j \in Outer(i, Traced \cup {"tracer"})
  BY DEF EndedBy, Current
<1>2. chain[j] = "tracer"
  BY <1>1 DEF Outer
<1> QED
  BY <1>2 DEF Normalizing, Traced, Recording, Metered

\* LeaveEnd preserves the invariant.
LEMMA LeaveEndStep == IInv /\ LeaveEnd => IInv'
<1> SUFFICES ASSUME IInv, LeaveEnd PROVE IInv'
  OBVIOUS
<1>1. Left /\ phase = "up" /\ phase' = "up" /\ err' = err /\ panicked' = panicked
  BY DEF LeaveEnd, Leaving, Left
<1>2. chain[depth] \notin Normalizing /\ chain[depth] \notin Traced
  BY DEF LeaveEnd, Leaving, Normalizing, Traced, Recording, Metered
<1>3. depth \in DOMAIN chain
  BY <1>1, ChainFacts DEF IInv, Left
<1>4. frames' = [j \in DOMAIN frames |->
                    IF j \in EndedBy(depth) THEN Ended(frames[j]) ELSE frames[j]]
  BY DEF LeaveEnd
<1>5. DOMAIN frames = DOMAIN chain /\ \A i \in DOMAIN chain : frames[i] \in Frame
  BY DEF IInv, TypeOK
<1>6. \A i \in DOMAIN chain : Ended(frames[i]) \in Frame /\ Ended(frames[i]).id = frames[i].id
  BY <1>5 DEF Ended, Frame
<1>7. \A i \in DOMAIN chain :
            chain[i] \in Normalizing \/ chain[i] \in Traced => frames'[i] = frames[i]
  BY <1>3, <1>4, <1>5, EndedByEnd
<1>8. /\ FramesInStep' /\ SpanEndsFinalized' /\ ReportedIsSent' /\ ReturnedErrorNeverCrashes'
      /\ HeaderIsChosen' /\ OneRequestID'
  <2>1. \A i \in DOMAIN chain : frames'[i].id = frames[i].id
    BY <1>4, <1>5, <1>6
  <2> QED
    BY <1>1, <1>2, <1>7, <2>1, FrameLeft
<1>9. TypeOK'
  <2>1. frames' \in [DOMAIN chain -> Frame]
    BY <1>4, <1>5, <1>6
  <2>2. err' \in Errors /\ panicked' \in BOOLEAN
    BY <1>1 DEF IInv, TypeOK
  <2> QED
    BY <1>1, <2>1, <2>2, TypeLeft
<1>10. ReportsTheError' /\ UnprintableIsFresh'
  BY <1>1, <1>2, <1>7, ReportsKept, FreshKept
<1> QED
  BY <1>8, <1>9, <1>10 DEF IInv

\* Leaving one frame by an update of that frame.
LEMMA OneFrameLeft ==
    ASSUME IInv, Left, NEW f \in Frame, frames' = [frames EXCEPT ![depth] = f],
           f.id = frames[depth].id,
           chain[depth] \in Traced => f.span = "ended" /\ (f.code # None \/ f.unwound),
           err' \in Errors, panicked' \in BOOLEAN
    PROVE  /\ TypeOK' /\ FramesInStep' /\ SpanEndsFinalized'
           /\ ReportedIsSent' /\ ReturnedErrorNeverCrashes'
           /\ HeaderIsChosen' /\ OneRequestID'
           /\ \A i \in DOMAIN chain : i # depth => frames'[i] = frames[i]
           /\ depth \in DOMAIN chain /\ frames'[depth] = f
<1>1. depth \in DOMAIN chain /\ DOMAIN chain' = DOMAIN chain
  BY ChainFacts DEF IInv, Left
<1>2. frames \in [DOMAIN chain -> Frame]
  BY DEF IInv, TypeOK
<1>3. /\ frames' \in [DOMAIN chain -> Frame]
      /\ frames'[depth] = f
      /\ \A i \in DOMAIN chain : i # depth => frames'[i] = frames[i]
  BY <1>1, <1>2
<1>4. \A i \in DOMAIN chain : frames'[i].id = frames[i].id
  BY <1>3
<1>5. TypeOK'
  BY <1>3, TypeLeft
<1>6. /\ FramesInStep' /\ SpanEndsFinalized'
      /\ ReportedIsSent' /\ ReturnedErrorNeverCrashes'
      /\ HeaderIsChosen' /\ OneRequestID'
  BY <1>3, <1>4, FrameLeft
<1> QED
  BY <1>1, <1>3, <1>5, <1>6

\* A printable error on its way up is fresh.
LEMMA PrintableIsFresh ==
    ASSUME phase' = "up", err' # "unprintable"
    PROVE  UnprintableIsFresh'
BY SMT DEF UnprintableIsFresh

\* LeaveMetrics and LeaveLogging preserve the invariant.
LEMMA LeavePlainStep == IInv /\ (LeaveMetrics \/ LeaveLogging) => IInv'
<1> SUFFICES ASSUME IInv, LeaveMetrics \/ LeaveLogging PROVE IInv'
  OBVIOUS
<1>1. /\ Left /\ phase = "up" /\ phase' = "up" /\ chain[depth] \in {"metrics", "logging"}
      /\ panicked' = panicked /\ err' = NormalizeGRPCError(err)
  BY DEF LeaveMetrics, LeaveLogging, Leaving, Left
<1>2. depth \in DOMAIN chain /\ frames[depth] \in Frame /\ err \in Errors /\ panicked' \in BOOLEAN
  BY <1>1, ChainFacts DEF IInv, TypeOK, Left
<1>3. /\ err' \in Errors /\ err' # "unprintable"
      /\ Code(err') = Code(err) /\ Code(err') \in Codes
  BY <1>1, <1>2, Normalized, CodeFacts
<1> DEFINE f == [frames[depth] EXCEPT !.recorded = Code(err')]
<1>4. f \in Frame /\ f.id = frames[depth].id /\ f.recorded = Code(err')
  BY <1>2, <1>3 DEF Frame
<1>5. frames' = [frames EXCEPT ![depth] = f]
  BY DEF LeaveMetrics, LeaveLogging
<1>6. chain[depth] \notin Traced
  BY <1>1 DEF Traced
<1> HIDE DEF f
<1>7. /\ TypeOK' /\ FramesInStep' /\ SpanEndsFinalized'
      /\ ReportedIsSent' /\ ReturnedErrorNeverCrashes'
      /\ HeaderIsChosen' /\ OneRequestID'
      /\ \A i \in DOMAIN chain : i # depth => frames'[i] = frames[i]
      /\ frames'[depth] = f
  BY <1>1, <1>2, <1>3, <1>4, <1>5, <1>6, OneFrameLeft
<1>8. \A i \in DOMAIN chain : i = depth => Reports(i, Code(err))'
  BY <1>1, <1>4, <1>6, <1>7 DEF Reports, Left
<1>9. ReportsTheError'
  BY <1>1, <1>3, <1>7, <1>8, ReportsKept
<1>10. UnprintableIsFresh'
  BY <1>1, <1>3, PrintableIsFresh
<1> QED
  BY <1>7, <1>9, <1>10 DEF IInv

\* LeaveTelemetry preserves the invariant: its span is still open, so the code
\* is set on it before it ends.
LEMMA LeaveTelemetryStep == IInv /\ LeaveTelemetry => IInv'
<1> SUFFICES ASSUME IInv, LeaveTelemetry PROVE IInv'
  OBVIOUS
<1>1. /\ Left /\ phase = "up" /\ phase' = "up" /\ chain[depth] \in Traced
      /\ panicked' = panicked /\ err' = NormalizeGRPCError(err)
  BY DEF LeaveTelemetry, Leaving, Left
<1>2. /\ depth \in DOMAIN chain /\ depth \in Nat
      /\ frames[depth] \in Frame /\ err \in Errors /\ panicked' \in BOOLEAN
  BY <1>1, ChainFacts DEF IInv, TypeOK, Left
<1>3. /\ err' \in Errors /\ err' # "unprintable"
      /\ Code(err') = Code(err) /\ Code(err') \in Codes /\ Code(err') # None
      /\ err' = "nil" => Code(err') = "OK"
  BY <1>1, <1>2, Normalized, CodeFacts
<1>4. frames[depth].span = "open"
  BY <1>1, <1>2 DEF IInv, FramesInStep
<1> DEFINE g == Ended(Finalized(frames[depth], err'))
           f == [g EXCEPT !.recorded = IF chain[depth] \in Metered THEN Code(err') ELSE g.recorded]
<1>5. /\ g \in Frame /\ g.span = "ended" /\ g.code = Code(err')
      /\ err' # "nil" => g.failed
      /\ g.id = frames[depth].id
  BY <1>2, <1>3, <1>4, FrameOperations
<1>6. frames' = [frames EXCEPT ![depth] = f]
  BY DEF LeaveTelemetry
<1> HIDE DEF g
<1>7. /\ f \in Frame /\ f.span = "ended" /\ f.code = Code(err')
      /\ err' # "nil" => f.failed
      /\ f.id = frames[depth].id
      /\ chain[depth] \in Recording => f.recorded = Code(err')
  BY <1>1, <1>3, <1>5 DEF Frame, Recording, Traced
<1> HIDE DEF f
<1>8. /\ TypeOK' /\ FramesInStep' /\ SpanEndsFinalized'
      /\ ReportedIsSent' /\ ReturnedErrorNeverCrashes'
      /\ HeaderIsChosen' /\ OneRequestID'
      /\ \A i \in DOMAIN chain : i # depth => frames'[i] = frames[i]
      /\ frames'[depth] = f
  BY <1>1, <1>2, <1>3, <1>6, <1>7, OneFrameLeft
<1>9. \A i \in DOMAIN chain : i = depth => Reports(i, Code(err))'
  <2>1. chain' = chain /\ Code(err)' = Code(err')
    BY <1>1 DEF Left, Code
  <2>2. Code(err') # "OK" => f.failed
    BY <1>3, <1>7
  <2> QED
    BY <1>7, <1>8, <2>1, <2>2, Zenon DEF Reports
<1>10. ReportsTheError'
  BY <1>1, <1>3, <1>8, <1>9, ReportsKept
<1>11. UnprintableIsFresh'
  BY <1>1, <1>3, PrintableIsFresh
<1> QED
  BY <1>8, <1>10, <1>11 DEF IInv

\* The frames inside one that replaced the error answer for it no longer.
LEMMA ReplacedReports ==
    ASSUME IInv, Left, chain[depth] = "tracer", NEW i \in DOMAIN chain, depth' < i,
           chain[i] \in Normalizing
    PROVE  ~Final(i)'
<1>1. DOMAIN chain = 1 .. Len(chain) /\ depth \in Nat /\ i \in Nat /\ chain' = chain
  BY ChainFacts DEF IInv, Left
<1>2. i # depth
  BY DEF Normalizing, Traced, Recording, Metered
<1>3. depth \in 1 .. i - 1
  BY <1>1, <1>2 DEF Left
<1> QED
  BY <1>1, <1>3 DEF Final, Outer

\* LeaveTracer preserves the invariant: an error that appears here is fresh.
LEMMA LeaveTracerStep ==
    ASSUME IInv, NEW e \in Errors, LeaveTracer(e)
    PROVE  IInv'
<1>1. /\ Left /\ phase = "up" /\ phase' = "up" /\ chain[depth] = "tracer"
      /\ panicked' = panicked /\ err' = e
      /\ frames' = [frames EXCEPT ![depth] = Ended(frames[depth])]
  BY DEF LeaveTracer, Leaving, Left
<1>2. /\ DOMAIN chain = 1 .. Len(chain) /\ Len(chain) \in Nat
      /\ depth \in DOMAIN chain
      /\ frames[depth] \in Frame /\ panicked' \in BOOLEAN
  BY <1>1, ChainFacts DEF IInv, TypeOK, Left
<1>3. Ended(frames[depth]) \in Frame /\ Ended(frames[depth]).id = frames[depth].id
  BY <1>2 DEF Ended, Frame
<1>4. chain[depth] \notin Traced
  BY <1>1 DEF Traced
<1>5. /\ TypeOK' /\ FramesInStep' /\ SpanEndsFinalized'
      /\ ReportedIsSent' /\ ReturnedErrorNeverCrashes'
      /\ HeaderIsChosen' /\ OneRequestID'
  BY <1>1, <1>2, <1>3, <1>4, OneFrameLeft
<1>6. ReportsTheError'
  BY <1>1, ReplacedReports, SMT DEF ReportsTheError, Left
<1>7. UnprintableIsFresh'
  <2>1. /\ depth \in depth' + 1 .. Len(chain') + 1
        /\ chain'[depth] = "tracer"
        /\ \A i \in depth' + 1 .. depth - 1 : FALSE
    BY <1>1, <1>2 DEF Left
  <2> QED
    BY <1>1, <2>1, SMT DEF UnprintableIsFresh
<1> QED
  BY <1>5, <1>6, <1>7 DEF IInv

\* AppPanics preserves the invariant.
LEMMA AppPanicsStep == IInv /\ AppPanics => IInv'
<1> SUFFICES ASSUME IInv, AppPanics PROVE IInv'
  OBVIOUS
<1>1. /\ Left /\ phase' = "panic" /\ chain[depth] = "tracer" /\ err' = err
      /\ frames' = [frames EXCEPT ![depth] = Ended(frames[depth])]
  BY DEF AppPanics, Leaving, Left
<1>2. panicked' = TRUE
  BY DEF AppPanics
<1>3. depth \in DOMAIN chain /\ frames[depth] \in Frame /\ err' \in Errors
  BY <1>1, ChainFacts DEF IInv, TypeOK, Left
<1>4. Ended(frames[depth]) \in Frame /\ Ended(frames[depth]).id = frames[depth].id
  BY <1>3 DEF Ended, Frame
<1>5. chain[depth] \notin Traced
  BY <1>1 DEF Traced
<1>6. /\ TypeOK' /\ FramesInStep' /\ SpanEndsFinalized'
      /\ ReportedIsSent' /\ ReturnedErrorNeverCrashes'
      /\ HeaderIsChosen' /\ OneRequestID'
  BY <1>1, <1>2, <1>3, <1>4, <1>5, OneFrameLeft
<1>7. ReportsTheError'
  BY <1>1, ReplacedReports, SMT DEF ReportsTheError, Left
<1>8. UnprintableIsFresh'
  <2>1. phase' = "panic" => panicked'
    BY <1>2
  <2> QED
    BY <1>1, <2>1, SMT DEF UnprintableIsFresh
<1> QED
  BY <1>6, <1>7, <1>8 DEF IInv

-----------------------------------------------------------------------------
(***************************************************************************)
(* A panic on its way out.                                                 *)
(***************************************************************************)
\* A panic marks the frame it goes through; no frame inside it answers for
\* the call any more.
LEMMA UnwoundReports ==
    ASSUME IInv, Left, phase = "panic",
           \A i \in DOMAIN chain : i # depth => frames'[i] = frames[i],
           chain[depth] \in Normalizing => frames'[depth].unwound
    PROVE  ReportsTheError'
<1>1. DOMAIN chain = 1 .. Len(chain) /\ Len(chain) \in Nat /\ depth \in Nat
  BY ChainFacts DEF IInv
<1>2. ASSUME NEW i \in DOMAIN chain, depth' < i, Final(i)', chain[i] \in Normalizing
      PROVE  FALSE
  <2>1. i # depth
    BY <1>2 DEF Final
  <2>2. depth < i /\ frames'[i] = frames[i] /\ chain' = chain
    BY <1>1, <1>2, <2>1 DEF Left
  <2>3. Final(i)
    BY <1>2, <2>2 DEF Final, Outer
  <2> QED
    BY <1>2, <2>2, <2>3 DEF IInv, ReportsTheError
<1> QED
  BY <1>2, SMT DEF ReportsTheError, Left

\* UnwindPassive preserves the invariant.
LEMMA UnwindPassiveStep == IInv /\ UnwindPassive => IInv'
<1> SUFFICES ASSUME IInv, UnwindPassive PROVE IInv'
  OBVIOUS
<1>1. /\ Left /\ phase = "panic" /\ phase' = "panic" /\ err' = err /\ panicked' = panicked
      /\ chain[depth] \in {"metrics", "logging", "off", "end"}
  BY DEF UnwindPassive, Unwinding, Left
<1>2. /\ depth \in DOMAIN chain /\ frames[depth] \in Frame
      /\ err' \in Errors /\ panicked' \in BOOLEAN
  BY <1>1, ChainFacts DEF IInv, TypeOK, Left
<1> DEFINE f == [frames[depth] EXCEPT !.unwound = TRUE]
<1>3. f \in Frame /\ f.id = frames[depth].id /\ f.unwound
  BY <1>2 DEF Frame
<1>4. frames' = [frames EXCEPT ![depth] = f]
  BY DEF UnwindPassive
<1>5. chain[depth] \notin Traced
  BY <1>1 DEF Traced
<1> HIDE DEF f
<1>6. /\ TypeOK' /\ FramesInStep' /\ SpanEndsFinalized'
      /\ ReportedIsSent' /\ ReturnedErrorNeverCrashes'
      /\ HeaderIsChosen' /\ OneRequestID'
      /\ \A i \in DOMAIN chain : i # depth => frames'[i] = frames[i]
      /\ frames'[depth] = f
  BY <1>1, <1>2, <1>3, <1>4, <1>5, OneFrameLeft
<1>7. ReportsTheError'
  BY <1>1, <1>3, <1>6, UnwoundReports
<1>8. UnprintableIsFresh'
  <2>1. panicked'
    BY <1>1 DEF IInv, UnprintableIsFresh
  <2> QED
    BY <1>1, <2>1, SMT DEF UnprintableIsFresh
<1> QED
  BY <1>6, <1>7, <1>8 DEF IInv

\* UnwindTelemetry preserves the invariant.
LEMMA UnwindTelemetryStep == IInv /\ UnwindTelemetry => IInv'
<1> SUFFICES ASSUME IInv, UnwindTelemetry PROVE IInv'
  OBVIOUS
<1>1. /\ Left /\ phase = "panic" /\ phase' = "panic" /\ err' = err /\ panicked' = panicked
  BY DEF UnwindTelemetry, Unwinding, Left
<1>2. /\ depth \in DOMAIN chain /\ frames[depth] \in Frame /\ depth \in Nat
      /\ err' \in Errors /\ panicked' \in BOOLEAN
  BY <1>1, ChainFacts DEF IInv, TypeOK, Left
<1> DEFINE f == [Ended(frames[depth]) EXCEPT !.unwound = TRUE]
<1>3. f \in Frame /\ f.id = frames[depth].id /\ f.unwound
  BY <1>2 DEF Frame, Ended
<1>4. chain[depth] \in Traced => f.span = "ended"
  <2>1. chain[depth] \in Traced => frames[depth].span = "open"
    BY <1>1, <1>2 DEF IInv, FramesInStep
  <2> QED
    BY <1>2, <2>1 DEF Frame, Ended
<1>5. frames' = [frames EXCEPT ![depth] = f]
  BY DEF UnwindTelemetry
<1> HIDE DEF f
<1>6. /\ TypeOK' /\ FramesInStep' /\ SpanEndsFinalized'
      /\ ReportedIsSent' /\ ReturnedErrorNeverCrashes'
      /\ HeaderIsChosen' /\ OneRequestID'
      /\ \A i \in DOMAIN chain : i # depth => frames'[i] = frames[i]
      /\ frames'[depth] = f
  BY <1>1, <1>2, <1>3, <1>4, <1>5, OneFrameLeft
<1>7. ReportsTheError'
  BY <1>1, <1>3, <1>6, UnwoundReports
<1>8. UnprintableIsFresh'
  <2>1. panicked'
    BY <1>1 DEF IInv, UnprintableIsFresh
  <2> QED
    BY <1>1, <2>1, SMT DEF UnprintableIsFresh
<1> QED
  BY <1>6, <1>7, <1>8 DEF IInv

\* Recover preserves the invariant: the status it makes of the panic is fresh.
LEMMA RecoverStep == IInv /\ Recover => IInv'
<1> SUFFICES ASSUME IInv, Recover PROVE IInv'
  OBVIOUS
<1>1. /\ Left /\ phase = "panic" /\ phase' = "up" /\ err' = "Internal" /\ panicked' = panicked
      /\ chain[depth] = "recover"
  BY DEF Recover, Unwinding, Left
<1>2. /\ depth \in DOMAIN chain /\ frames[depth] \in Frame
      /\ err' \in Errors /\ err' # "unprintable" /\ panicked' \in BOOLEAN
  BY <1>1, ChainFacts, StatusesAssumption DEF IInv, TypeOK, Left, Errors
<1> DEFINE f == [frames[depth] EXCEPT !.unwound = TRUE]
<1>3. f \in Frame /\ f.id = frames[depth].id /\ f.unwound
  BY <1>2 DEF Frame
<1>4. frames' = [frames EXCEPT ![depth] = f]
  BY DEF Recover
<1>5. chain[depth] \notin Traced
  BY <1>1 DEF Traced
<1> HIDE DEF f
<1>6. /\ TypeOK' /\ FramesInStep' /\ SpanEndsFinalized'
      /\ ReportedIsSent' /\ ReturnedErrorNeverCrashes'
      /\ HeaderIsChosen' /\ OneRequestID'
      /\ \A i \in DOMAIN chain : i # depth => frames'[i] = frames[i]
      /\ frames'[depth] = f
  BY <1>1, <1>2, <1>3, <1>4, <1>5, OneFrameLeft
<1>7. ReportsTheError'
  BY <1>1, <1>3, <1>6, UnwoundReports
<1>8. UnprintableIsFresh'
  BY <1>1, <1>2, PrintableIsFresh
<1> QED
  BY <1>6, <1>7, <1>8 DEF IInv

-----------------------------------------------------------------------------
(***************************************************************************)
(* The server.                                                             *)
(***************************************************************************)
\* Above the chain only the phase and the answer change.
LEMMA AboveTheChain ==
    ASSUME IInv, phase \in {"up", "panic"}, phase' \in {"sent", "crashed"}, depth = 0,
           UNCHANGED <<chain, request, depth, header, err, frames, panicked>>,
           answer' \in Codes \cup {None}
    PROVE  /\ TypeOK' /\ FramesInStep' /\ ReportsTheError' /\ UnprintableIsFresh'
           /\ HeaderIsChosen' /\ SpanEndsFinalized' /\ OneRequestID'
<1>1. TypeOK'
  <2>1. phase' \in {"down", "up", "panic", "sent", "crashed"}
    OBVIOUS
  <2> QED
    BY <2>1, Zenon DEF IInv, TypeOK
<1>2. FramesInStep' /\ SpanEndsFinalized'
  BY DEF IInv, FramesInStep, SpanEndsFinalized
<1>3. ReportsTheError' /\ UnprintableIsFresh'
  <2>1. phase' # "panic" /\ phase' # "up"
    OBVIOUS
  <2> QED
    BY <2>1, Zenon DEF ReportsTheError, UnprintableIsFresh
<1>4. HeaderIsChosen' /\ OneRequestID'
  BY IDsKept
<1> QED
  BY <1>1, <1>2, <1>3, <1>4

\* Send preserves the invariant: every frame was left, so the error's code is
\* what the final ones reported.
LEMMA SendStep == IInv /\ Send => IInv'
<1> SUFFICES ASSUME IInv, Send PROVE IInv'
  OBVIOUS
<1>1. /\ phase = "up" /\ depth = 0 /\ phase' = "sent" /\ answer' = Wire(err)
      /\ UNCHANGED <<chain, request, depth, header, err, frames, panicked>>
  BY DEF Send
<1>2. err \in Errors
  BY DEF IInv, TypeOK
<1>3. Wire(err) \in Codes /\ Code(err) = IF Wire(err) = "ContextError" THEN "Unknown" ELSE Wire(err)
  BY <1>2, CodeFacts
<1>4. /\ TypeOK' /\ FramesInStep' /\ ReportsTheError' /\ UnprintableIsFresh'
      /\ HeaderIsChosen' /\ SpanEndsFinalized' /\ OneRequestID'
  BY <1>1, <1>3, AboveTheChain
<1>5. \A i \in DOMAIN chain : Final(i) => Reports(i, Code(err))
  <2> SUFFICES ASSUME NEW i \in DOMAIN chain, Final(i)
               PROVE  Reports(i, Code(err))
    OBVIOUS
  <2>1. CASE chain[i] \in Normalizing
    <3>1. depth < i
      BY <1>1, ChainFacts DEF IInv
    <3> QED
      BY <1>1, <2>1, <3>1 DEF IInv, ReportsTheError
  <2>2. CASE chain[i] \notin Normalizing
    BY <2>2 DEF Reports, Normalizing
  <2> QED
    BY <2>1, <2>2
<1>6. ReportedIsSent'
  BY <1>1, <1>3, <1>5 DEF ReportedIsSent, Final, Outer, Reports
<1>7. ReturnedErrorNeverCrashes'
  BY <1>1, SMT DEF ReturnedErrorNeverCrashes
<1> QED
  BY <1>4, <1>6, <1>7 DEF IInv

\* Crash preserves the invariant: without a panic, the error is fresh.
LEMMA CrashStep == IInv /\ Crash => IInv'
<1> SUFFICES ASSUME IInv, Crash PROVE IInv'
  OBVIOUS
<1>1. /\ depth = 0 /\ phase' = "crashed"
      /\ phase = "panic" \/ (phase = "up" /\ err = "unprintable")
      /\ UNCHANGED <<chain, request, depth, header, err, frames, answer, panicked>>
  BY DEF Crash
<1>2. answer' \in Codes \cup {None}
  BY <1>1 DEF IInv, TypeOK
<1>3. /\ TypeOK' /\ FramesInStep' /\ ReportsTheError' /\ UnprintableIsFresh'
      /\ HeaderIsChosen' /\ SpanEndsFinalized' /\ OneRequestID'
  BY <1>1, <1>2, AboveTheChain
<1>4. ReportedIsSent'
  BY <1>1, SMT DEF ReportedIsSent
<1>5. ReturnedErrorNeverCrashes'
  <2> SUFFICES ASSUME ~panicked
               PROVE  \/ \A i \in DOMAIN chain : chain[i] \notin Normalizing
                      \/ \E t \in DOMAIN chain : chain[t] = "tracer" /\ Outer(t, Normalizing) = {}
    BY <1>1, Zenon DEF ReturnedErrorNeverCrashes, Outer
  <2>1. phase = "up" /\ err = "unprintable"
    BY <1>1 DEF IInv, UnprintableIsFresh
  <2>2. DOMAIN chain = 1 .. Len(chain) /\ Len(chain) \in Nat
    BY ChainFacts DEF IInv
  <2>3. PICK t \in 1 .. Len(chain) + 1 :
              /\ t <= Len(chain) => chain[t] = "tracer"
              /\ \A i \in 1 .. t - 1 : chain[i] \notin Normalizing
    BY <1>1, <2>1 DEF IInv, UnprintableIsFresh
  <2>4. CASE t = Len(chain) + 1
    BY <2>2, <2>3, <2>4
  <2>5. CASE t <= Len(chain)
    BY <2>2, <2>3, <2>5 DEF Outer
  <2> QED
    BY <2>2, <2>3, <2>4, <2>5
<1> QED
  BY <1>3, <1>4, <1>5 DEF IInv

\* Every step preserves the invariant.
LEMMA NextIInv == IInv /\ [Next]_vars => IInv'
<1> SUFFICES ASSUME IInv, [Next]_vars PROVE IInv'
  OBVIOUS
<1>1. CASE UNCHANGED vars
  BY <1>1 DEF vars, IInv, TypeOK, FramesInStep, ReportsTheError, UnprintableIsFresh,
              HeaderIsChosen, ReportedIsSent, SpanEndsFinalized, ReturnedErrorNeverCrashes,
              OneRequestID, Honours, Rewritten, Has, Brought, Final, Reports, Outer
<1>2. CASE EnterPassive \/ EnterMetrics \/ EnterLogging \/ EnterTracer
  BY <1>2, EnterPassiveStep, EnterPlainStep, EnterTracerStep
<1>3. CASE \E collects \in BOOLEAN : EnterTelemetry(collects)
  BY <1>3, EnterTelemetryStep
<1>4. CASE (\E e \in Errors : HandlerReturns(e)) \/ HandlerPanics
  BY <1>4, HandlerStep
<1>5. CASE LeavePassive \/ LeaveMetrics \/ LeaveLogging \/ LeaveTelemetry \/ LeaveEnd
  BY <1>5, LeavePassiveStep, LeavePlainStep, LeaveTelemetryStep, LeaveEndStep
<1>6. CASE (\E e \in Errors : LeaveTracer(e)) \/ AppPanics
  BY <1>6, LeaveTracerStep, AppPanicsStep
<1>7. CASE UnwindPassive \/ UnwindTelemetry \/ Recover
  BY <1>7, UnwindPassiveStep, UnwindTelemetryStep, RecoverStep
<1>8. CASE Send \/ Crash
  BY <1>8, SendStep, CrashStep
<1> QED
  BY <1>1, <1>2, <1>3, <1>4, <1>5, <1>6, <1>7, <1>8 DEF Next

\* In every reachable state of every chain the frames, the error and the ids
\* are in step.
THEOREM PipelineInvariant == Spec => []IInv
  BY InitIInv, NextIInv, PTL DEF Spec

\* The code on the span and on the duration is the one the client is sent.
THEOREM ReportsTheAnswer == Spec => []ReportedIsSent
<1>1. IInv => ReportedIsSent
  BY DEF IInv
<1> QED
  BY <1>1, PipelineInvariant, PTL

\* A span ends once it has its code, and it does end.
THEOREM EndsFinalized == Spec => []SpanEndsFinalized
<1>1. IInv => SpanEndsFinalized
  BY DEF IInv
<1> QED
  BY <1>1, PipelineInvariant, PTL

\* An error that passed an interceptor of this package crashes nothing.
THEOREM NeverCrashes == Spec => []ReturnedErrorNeverCrashes
<1>1. IInv => ReturnedErrorNeverCrashes
  BY DEF IInv
<1> QED
  BY <1>1, PipelineInvariant, PTL

\* One request id per call.
THEOREM OneID == Spec => []OneRequestID
<1>1. IInv => OneRequestID
  BY DEF IInv
<1> QED
  BY <1>1, PipelineInvariant, PTL
=============================================================================
