------------------------ MODULE PanicRecoveryProofs ------------------------
(***************************************************************************)
(* Proofs about PanicRecovery, with the failed assertions of Assertions or *)
(* without, for any number of goroutines and any wiring.                   *)
(*                                                                         *)
(* First what sinks may know.  Whatever loggers, recorders and guards do   *)
(* to a stack, its bottom frame stays the goroutine's own, and turns from  *)
(* callback to recovery with the panic.  So what a sink is told, it is     *)
(* told by a recovery that reads the switch after the panic.               *)
(*                                                                         *)
(* Then what sinks are told, and what a process dies of.  A report inside  *)
(* a report is either a reportLoggerPanic below a logger that failed or a  *)
(* log.Print that was redirected, and the stdlib's output lock lets a      *)
(* goroutine print once at a time: where nothing but the logger fails,     *)
(* nests are five frames deep at most.  A panic on its way up meets a      *)
(* frame that recovers, and a recovery has told the sinks that come before *)
(* the place where it stands.                                              *)
(***************************************************************************)
EXTENDS Assertions, SequenceTheorems, FiniteSetTheorems, TLAPS

\* What one step of goroutine g does to the stacks and to the panic.
Moves(g) ==
  /\ \E s : /\ GoodStack(s)
            /\ stack' = [stack EXCEPT ![g] = s]
            /\ \/ /\ s = <<>> \/ Base(s) = Base(stack[g])
                  /\ UNCHANGED <<panicked, relaxed>>
               \/ /\ Base(stack[g]) = "callback" /\ Base(s) = "recovery"
                  /\ panicked' = [panicked EXCEPT ![g] = TRUE]
                  /\ relaxed' = [relaxed EXCEPT ![g] = ~production]
  /\ outMu' \in Goroutines \cup {None}
  /\ process' \in {"up", "policy", "unrecovered", "overflow"}

ControlType ==
  /\ stack \in [Goroutines -> Seq(Frames)]
  /\ panicked \in [Goroutines -> BOOLEAN] /\ relaxed \in [Goroutines -> BOOLEAN]
  /\ outMu \in Goroutines \cup {None}
  /\ process \in {"up", "policy", "unrecovered", "overflow"}

-----------------------------------------------------------------------------
(* Frames and stacks                                                       *)

\* Every frame is a record of its kind and of where it is.
LEMMA FrameFields ==
  ASSUME NEW kind, NEW at
  PROVE  Frame(kind, at).kind = kind /\ Frame(kind, at).at = at
BY DEF Frame

\* The frames the code has, by name.
LEMMA KnownFrames ==
  /\ \A at \in {"log", "work"} : Frame("callback", at) \in Frames
  /\ \A at \in {"log", "metric", "span", "error", "policy"} : Frame("recovery", at) \in Frames
  /\ \A at \in {"stack", "log", "stackLog", "count", "span", "return"} :
       Frame("assert", at) \in Frames
  /\ \A at \in {"count", "span", "fallback", "return"} : Frame("guard", at) \in Frames
  /\ \A at \in {"write", "written"} : Frame("print", at) \in Frames
BY DEF Frames

\* A goroutine that ended has a good stack.
LEMMA EmptyStack == GoodStack(<<>>)
<1>1. <<>> \in Seq(Frames) /\ Len(<<>>) = 0  OBVIOUS
<1> QED  BY <1>1 DEF GoodStack

\* A goroutine's stack when a frame is on top: at the bottom there is its own.
LEMMA TopFacts ==
  ASSUME NEW g \in Goroutines, GoodStack(stack[g]), Depth(g) > 0
  PROVE  /\ Depth(g) \in Nat /\ Depth(g) >= 1 /\ Len(stack[g]) = Depth(g)
         /\ stack[g] \in Seq(Frames) /\ Top(g) \in Frames
         /\ stack[g] # <<>> /\ Base(stack[g]) = stack[g][1].kind
         /\ Base(stack[g]) \in {"callback", "recovery"}
         /\ Top(g).kind \in {"callback", "recovery"} <=> Depth(g) = 1
<1>1. stack[g] \in Seq(Frames)  BY DEF GoodStack
<1>2. Depth(g) \in Nat /\ Depth(g) >= 1 /\ Len(stack[g]) = Depth(g)  BY <1>1 DEF Depth
<1>3. Depth(g) \in 1..Len(stack[g]) /\ 1 \in 1..Len(stack[g])  BY <1>2
<1>4. Top(g) \in Frames  BY <1>1, <1>3, ElementOfSeq DEF Top
<1>5. stack[g] # <<>>  BY <1>2
<1>6. stack[g][1].kind \in {"callback", "recovery"}  BY <1>3 DEF GoodStack
<1>7. Top(g).kind \in {"callback", "recovery"} <=> Depth(g) = 1  BY <1>3 DEF GoodStack, Top
<1> QED  BY <1>1, <1>2, <1>4, <1>5, <1>6, <1>7 DEF Base

\* The innermost frame goes on, those below it stay.
LEMMA MovedFrames ==
  ASSUME NEW g \in Goroutines, GoodStack(stack[g]), Depth(g) > 0,
         NEW kind, NEW from, NEW at, Top(g) = Frame(kind, from), Frame(kind, at) \in Frames
  PROVE  /\ Moved(g, at) \in Seq(Frames) /\ Len(Moved(g, at)) = Depth(g)
         /\ \A i \in 1..Depth(g) :
              Moved(g, at)[i] = IF i = Depth(g) THEN Frame(kind, at) ELSE stack[g][i]
<1>1. /\ Depth(g) \in Nat /\ Depth(g) >= 1 /\ Len(stack[g]) = Depth(g)
      /\ stack[g] \in Seq(Frames)
  BY TopFacts
<1>2. [Top(g) EXCEPT !.at = at] = Frame(kind, at)  BY DEF Frame
<1>3. Moved(g, at) = [stack[g] EXCEPT ![Depth(g)] = Frame(kind, at)]
  BY <1>2 DEF Moved, Top
<1> QED  BY <1>1, <1>3

\* It goes on within its own kind.
LEMMA MovedStack ==
  ASSUME NEW g \in Goroutines, GoodStack(stack[g]), Depth(g) > 0,
         NEW kind, NEW from, NEW at, Top(g) = Frame(kind, from), Frame(kind, at) \in Frames
  PROVE  /\ GoodStack(Moved(g, at)) /\ Base(Moved(g, at)) = Base(stack[g])
         /\ Len(Moved(g, at)) = Depth(g)
<1>1. /\ Depth(g) \in Nat /\ Depth(g) >= 1 /\ Len(stack[g]) = Depth(g)
      /\ stack[g] \in Seq(Frames) /\ Base(stack[g]) = stack[g][1].kind
  BY TopFacts
<1>4. /\ Moved(g, at) \in Seq(Frames) /\ Len(Moved(g, at)) = Depth(g)
      /\ \A i \in 1..Depth(g) : Moved(g, at)[i] = IF i = Depth(g) THEN Frame(kind, at) ELSE stack[g][i]
  BY MovedFrames
<1>5. stack[g][Depth(g)].kind = kind /\ Frame(kind, at).kind = kind  BY FrameFields DEF Top
<1>6. \A i \in 1..Depth(g) : Moved(g, at)[i].kind = stack[g][i].kind  BY <1>4, <1>5
<1>7. GoodStack(Moved(g, at))  BY <1>1, <1>4, <1>6 DEF GoodStack
<1>8. Moved(g, at) # <<>>  BY <1>1, <1>4
<1>9. Base(Moved(g, at)) = stack[g][1].kind  BY <1>1, <1>6, <1>8 DEF Base
<1> QED  BY <1>1, <1>4, <1>7, <1>9

\* Frames are dropped from the top.
LEMMA CutStack ==
  ASSUME NEW g \in Goroutines, GoodStack(stack[g]), NEW n \in 1..Len(stack[g])
  PROVE  LET s == SubSeq(stack[g], 1, n - 1) IN
         GoodStack(s) /\ (s = <<>> \/ Base(s) = Base(stack[g]))
<1> DEFINE s == SubSeq(stack[g], 1, n - 1)
<1>1. stack[g] \in Seq(Frames) /\ Len(stack[g]) \in Nat /\ n \in Nat /\ n >= 1  BY DEF GoodStack
<1>2. \A i \in 1..(n - 1) : stack[g][i] \in Frames /\ i \in 1..Len(stack[g])
  BY <1>1, ElementOfSeq
<1>3. /\ s \in Seq(Frames) /\ Len(s) = IF 1 <= n - 1 THEN n - 1 - 1 + 1 ELSE 0
      /\ \A i \in 1..(n - 1 - 1 + 1) : s[i] = stack[g][1 + i - 1]
  BY <1>1, <1>2, SubSeqProperties
<1> HIDE DEF s
<1>4. Len(s) = n - 1 /\ \A i \in 1..(n - 1) : s[i] = stack[g][i]  BY <1>1, <1>3
<1>5. GoodStack(s)  BY <1>2, <1>3, <1>4 DEF GoodStack
<1>6. s = <<>> \/ Base(s) = Base(stack[g])
  <2>1. CASE s = <<>>  BY <2>1
  <2>2. CASE s # <<>>
    <3>1. n - 1 >= 1  BY <1>1, <1>3, <1>4, <2>2, EmptySeq
    <3>2. stack[g] # <<>> /\ s[1] = stack[g][1]  BY <1>1, <1>4, <3>1
    <3> QED  BY <2>2, <3>2 DEF Base
  <2> QED  BY <2>1, <2>2
<1> QED  BY <1>5, <1>6 DEF s

\* A report starts on top of a goroutine's own frame.
LEMMA PushedStack ==
  ASSUME NEW s, GoodStack(s), s # <<>>, NEW f \in Frames, f.kind \in {"assert", "guard", "print"}
  PROVE  GoodStack(Append(s, f)) /\ Base(Append(s, f)) = Base(s)
<1>1. s \in Seq(Frames) /\ Len(s) \in Nat /\ Len(s) >= 1  BY DEF GoodStack
<1>2. /\ Append(s, f) \in Seq(Frames) /\ Len(Append(s, f)) = Len(s) + 1
      /\ Append(s, f)[Len(s) + 1] = f /\ \A i \in 1..Len(s) : Append(s, f)[i] = s[i]
  BY <1>1
<1>3. GoodStack(Append(s, f))  BY <1>1, <1>2 DEF GoodStack
<1>4. Append(s, f) # <<>> /\ Append(s, f)[1] = s[1]  BY <1>1, <1>2
<1> QED  BY <1>3, <1>4 DEF Base

-----------------------------------------------------------------------------
(* Every step of a goroutine moves like this                               *)

\* The shapes a step leaves a stack in, and no panic of the callback.
LEMMA Settles ==
  ASSUME NEW g \in Goroutines, ControlType, NEW s, GoodStack(s), s = <<>> \/ Base(s) = Base(stack[g]),
         stack' = [stack EXCEPT ![g] = s], UNCHANGED <<panicked, relaxed>>,
         outMu' \in Goroutines \cup {None},
         process' \in {"up", "policy", "unrecovered", "overflow"}
  PROVE  Moves(g)
BY Zenon DEF Moves

\* A step that leaves the stack alone.
LEMMA Stays ==
  ASSUME NEW g \in Goroutines, ControlType, GoodStack(stack[g]), UNCHANGED <<stack, panicked, relaxed>>,
         outMu' \in Goroutines \cup {None},
         process' \in {"up", "policy", "unrecovered", "overflow"}
  PROVE  Moves(g)
<1>1. stack' = [stack EXCEPT ![g] = stack[g]]  BY DEF ControlType
<1> QED  BY <1>1, Settles

\* A panic unwinds to a guard, to the callback's recovery, or ends the process.
LEMMA PanicsMoves ==
  ASSUME NEW g \in Goroutines, ControlType, GoodStack(stack[g]), Depth(g) > 0, Panics(g)
  PROVE  Moves(g)
<1>1. CASE Catchers(g) # {}
  <2>1. PICK i \in Catchers(g) :
          /\ stack' = [stack EXCEPT ![g] = SubSeq(stack[g], 1, i - 1)]
          /\ outMu' = IF outMu = g /\ ~\E j \in 1..(i - 1) : stack[g][j].kind = "print"
                      THEN None ELSE outMu
          /\ UNCHANGED <<panicked, relaxed, process>>
    BY <1>1 DEF Panics, Becomes
  <2>2. i \in 1..Len(stack[g])  BY DEF Catchers, Depth
  <2>3. outMu' \in Goroutines \cup {None} /\ process' \in {"up", "policy", "unrecovered", "overflow"}
    BY <2>1 DEF ControlType
  <2> QED  BY <2>1, <2>2, <2>3, CutStack, Settles
<1>2. CASE Catchers(g) = {} /\ stack[g][1].kind = "callback"
  <2>1. /\ stack' = [stack EXCEPT ![g] = <<Frame("recovery", "log")>>]
        /\ panicked' = [panicked EXCEPT ![g] = TRUE]
        /\ relaxed' = [relaxed EXCEPT ![g] = ~production]
        /\ UNCHANGED <<outMu, process>>
    BY <1>2 DEF Panics, Becomes
  <2>2. Frame("recovery", "log") \in Frames /\ Frame("recovery", "log").kind = "recovery"
    BY KnownFrames, FrameFields
  <2> DEFINE f == Frame("recovery", "log")
          s == <<f>>
  <2> HIDE DEF f
  <2>3. s \in Seq(Frames) /\ Len(s) = 1 /\ s[1] = f /\ s # <<>>  BY <2>2 DEF f
  <2> HIDE DEF s
  <2>4. f.kind = "recovery"  BY <2>2 DEF f
  <2>5. GoodStack(s) /\ Base(s) = "recovery"  BY <2>3, <2>4 DEF GoodStack, Base
  <2>6. Base(stack[g]) = "callback"  BY <1>2, TopFacts
  <2>7. stack' = [stack EXCEPT ![g] = s]  BY <2>1 DEF s, f
  <2>8. outMu' \in Goroutines \cup {None} /\ process' \in {"up", "policy", "unrecovered", "overflow"}
    BY <2>1 DEF ControlType
  <2> QED  BY <2>1, <2>5, <2>6, <2>7, <2>8, Zenon DEF Moves
<1>3. CASE Catchers(g) = {} /\ stack[g][1].kind # "callback"
  <2>1. process' = "unrecovered" /\ UNCHANGED <<outMu, stack, panicked, relaxed>>
    BY <1>3 DEF Panics
  <2>2. outMu' \in Goroutines \cup {None}  BY <2>1 DEF ControlType
  <2> QED  BY <2>1, <2>2, Stays
<1> QED  BY <1>1, <1>2, <1>3

\* A new frame, or no room for it.
LEMMA PushedMoves ==
  ASSUME NEW g \in Goroutines, ControlType, GoodStack(stack[g]),
         NEW s, GoodStack(s), s # <<>>, Base(s) = Base(stack[g]),
         NEW f \in Frames, f.kind \in {"assert", "guard", "print"}, Pushed(g, s, f),
         UNCHANGED <<panicked, relaxed>>, outMu' \in Goroutines \cup {None}
  PROVE  Moves(g)
<1>1. CASE Len(s) < MaxStack
  <2>1. stack' = [stack EXCEPT ![g] = Append(s, f)] /\ process' = process
    BY <1>1 DEF Pushed, Becomes
  <2>2. GoodStack(Append(s, f)) /\ Base(Append(s, f)) = Base(stack[g])  BY PushedStack
  <2>3. process' \in {"up", "policy", "unrecovered", "overflow"}  BY <2>1 DEF ControlType
  <2> QED  BY <2>1, <2>2, <2>3, Settles
<1>2. CASE ~(Len(s) < MaxStack)
  <2>1. stack' = stack /\ process' = "overflow"  BY <1>2 DEF Pushed
  <2> QED  BY <2>1, Stays
<1> QED  BY <1>1, <1>2

\* A call of a logger, whichever it is.
LEMMA CallLoggerMoves ==
  ASSUME NEW g \in Goroutines, ControlType, GoodStack(stack[g]), Depth(g) > 0,
         NEW s, GoodStack(s), s # <<>>, Base(s) = Base(stack[g]),
         NEW logger, CallLogger(g, logger, s)
  PROVE  Moves(g)
<1>1. CASE Becomes(g, s) /\ UNCHANGED <<outMu, panicked, relaxed, guarded, process>>
  BY <1>1, Settles DEF Becomes, ControlType
<1>2. CASE Panics(g)  BY <1>2, PanicsMoves
<1>3. CASE Pushed(g, s, Frame("guard", "count")) /\ UNCHANGED <<outMu, panicked, relaxed>>
  <2>1. Frame("guard", "count") \in Frames /\ Frame("guard", "count").kind = "guard"
    BY KnownFrames, FrameFields
  <2>2. outMu' \in Goroutines \cup {None}  BY <1>3 DEF ControlType
  <2> QED  BY <1>3, <2>1, <2>2, PushedMoves
<1> QED  BY <1>1, <1>2, <1>3 DEF CallLogger, GuardRecovers

\* A panic that is counted, whatever the recorder does.
LEMMA RecordPanicMetricMoves ==
  ASSUME NEW g \in Goroutines, ControlType, GoodStack(stack[g]), Depth(g) > 0,
         NEW s, GoodStack(s), s # <<>>, Base(s) = Base(stack[g]),
         RecordPanicMetric(g, s)
  PROVE  Moves(g)
<1>1. CASE Becomes(g, s) /\ UNCHANGED <<outMu, panicked, relaxed, guarded, process>>
  BY <1>1, Settles DEF Becomes, ControlType
<1>2. CASE CallLogger(g, setup.metricsLogger, s)  BY <1>2, CallLoggerMoves
<1>3. CASE Panics(g)  BY <1>3, PanicsMoves
<1> QED  BY <1>1, <1>2, <1>3 DEF RecordPanicMetric

-----------------------------------------------------------------------------
(* What a move keeps                                                       *)

\* The panic and the switch, seen by every goroutine across a move of g.
LEMMA MovesControl ==
  ASSUME IInv, NEW g \in Goroutines, Moves(g)
  PROVE  /\ ControlType' /\ StackInv'
         /\ \A h \in Goroutines :
              \/ panicked'[h] = panicked[h] /\ relaxed'[h] = relaxed[h]
              \/ /\ h = g /\ Base(stack[g]) = "callback"
                 /\ panicked'[g] = TRUE /\ relaxed'[g] = ~production
<1>0. ControlType  BY DEF IInv, TypeOK, ControlType
<1>1. PICK s : /\ GoodStack(s)
               /\ stack' = [stack EXCEPT ![g] = s]
               /\ \/ /\ s = <<>> \/ Base(s) = Base(stack[g])
                     /\ UNCHANGED <<panicked, relaxed>>
                  \/ /\ Base(stack[g]) = "callback" /\ Base(s) = "recovery"
                     /\ panicked' = [panicked EXCEPT ![g] = TRUE]
                     /\ relaxed' = [relaxed EXCEPT ![g] = ~production]
  BY DEF Moves
<1>2. /\ stack'[g] = s /\ \A h \in Goroutines : h # g => stack'[h] = stack[h]
  BY <1>0, <1>1 DEF ControlType
<1>3. ControlType'
  <2>1. stack' \in [Goroutines -> Seq(Frames)]  BY <1>0, <1>1 DEF ControlType, GoodStack
  <2>2. panicked' \in [Goroutines -> BOOLEAN] /\ relaxed' \in [Goroutines -> BOOLEAN]
    BY <1>0, <1>1 DEF ControlType, IInv, TypeOK
  <2>3. /\ outMu' \in Goroutines \cup {None}
        /\ process' \in {"up", "policy", "unrecovered", "overflow"}
    BY DEF Moves
  <2> QED  BY <2>1, <2>2, <2>3 DEF ControlType
<1>4. ASSUME NEW h \in Goroutines
      PROVE  \/ panicked'[h] = panicked[h] /\ relaxed'[h] = relaxed[h]
             \/ /\ h = g /\ Base(stack[g]) = "callback"
                /\ panicked'[g] = TRUE /\ relaxed'[g] = ~production
  <2>1. CASE UNCHANGED <<panicked, relaxed>>  BY <2>1
  <2>2. CASE /\ Base(stack[g]) = "callback"
             /\ panicked' = [panicked EXCEPT ![g] = TRUE]
             /\ relaxed' = [relaxed EXCEPT ![g] = ~production]
    <3>1. CASE h = g  BY <2>2, <3>1, <1>0 DEF ControlType
    <3>2. CASE h # g  BY <2>2, <3>2, <1>0 DEF ControlType
    <3> QED  BY <3>1, <3>2
  <2> QED  BY <1>1, <2>1, <2>2
<1>5. StackInv'
  <2> SUFFICES ASSUME NEW h \in Goroutines
               PROVE  /\ GoodStack(stack'[h])
                      /\ Base(stack'[h]) = "callback" => ~panicked'[h]
                      /\ Base(stack'[h]) = "recovery" => panicked'[h]
    BY DEF StackInv, GoodStack, Base
  <2>1. CASE h # g  BY <2>1, <1>2, <1>4 DEF IInv, StackInv
  <2>2. CASE h = g /\ UNCHANGED <<panicked, relaxed>> /\ (s = <<>> \/ Base(s) = Base(stack[g]))
    <3>1. Base(<<>>) = "none"  BY DEF Base
    <3> QED  BY <2>2, <3>1, <1>1, <1>2 DEF IInv, StackInv
  <2>3. CASE h = g /\ Base(s) = "recovery" /\ panicked' = [panicked EXCEPT ![g] = TRUE]
    <3>1. panicked'[g] = TRUE  BY <2>3, <1>0 DEF ControlType
    <3> QED  BY <2>3, <3>1, <1>1, <1>2
  <2> QED  BY <1>1, <2>1, <2>2, <2>3
<1> QED  BY <1>3, <1>4, <1>5

SinkType == [{"log", "span", "error"} -> {None, "redacted", "full"}]

\* A step that tells no sink anything keeps the invariant.
LEMMA SilentStep ==
  ASSUME IInv, NEW g \in Goroutines, Moves(g), UNCHANGED <<globals, sinks>>,
         guarded' \in [Goroutines -> [panics : Nat, traced : Nat]]
  PROVE  IInv'
<1>1. TypeOK'  BY MovesControl DEF IInv, TypeOK, ControlType, globals
<1>2. StackInv'  BY MovesControl
<1>3. RedactionInv' /\ RedactionHolds'
  <2> SUFFICES ASSUME NEW h \in Goroutines
               PROVE  /\ ~panicked'[h] => sinks'[h] = NoReport
                      /\ panicked'[h] /\ ~relaxed'[h] => production'
                      /\ panicked'[h] /\ ~relaxed'[h] => "full" \notin {sinks'[h].log, sinks'[h].error}
    BY DEF RedactionInv, RedactionHolds, NoReport
  <2>1. UNCHANGED <<production, sinks>>  BY DEF globals
  <2>2. CASE panicked'[h] = panicked[h] /\ relaxed'[h] = relaxed[h]
    BY <2>1, <2>2 DEF IInv, RedactionInv, RedactionHolds
  <2>3. CASE /\ h = g /\ Base(stack[g]) = "callback"
             /\ panicked'[g] = TRUE /\ relaxed'[g] = ~production
    <3>1. sinks[g] = NoReport  BY <2>3 DEF IInv, StackInv, RedactionInv
    <3>2. "full" \notin {sinks[g].log, sinks[g].error}  BY <3>1 DEF NoReport, None
    <3> QED  BY <2>1, <2>3, <3>2
  <2> QED  BY <2>2, <2>3, MovesControl
<1> QED  BY <1>1, <1>2, <1>3 DEF IInv

\* A step of a recovery that tells its sinks no more than the switch allows.
LEMMA ReportingStep ==
  ASSUME IInv, NEW g \in Goroutines, Moves(g), UNCHANGED globals,
         Base(stack[g]) = "recovery",
         NEW r \in SinkType, sinks' = [sinks EXCEPT ![g] = r],
         production => \/ "full" \notin {r.log, r.error}
                       \/ "full" \in {sinks[g].log, sinks[g].error},
         guarded' \in [Goroutines -> [panics : Nat, traced : Nat]]
  PROVE  IInv'
<1>0. /\ sinks \in [Goroutines -> SinkType] /\ production' = production
  BY DEF IInv, TypeOK, SinkType, globals
<1>1. TypeOK'
  <2>1. sinks' \in [Goroutines -> SinkType]  BY <1>0
  <2> QED  BY <2>1, MovesControl DEF IInv, TypeOK, ControlType, SinkType, globals
<1>2. StackInv'  BY MovesControl
<1>3. \A h \in Goroutines : panicked'[h] = panicked[h] /\ relaxed'[h] = relaxed[h]
  BY MovesControl
<1>4. panicked[g]  BY DEF IInv, StackInv
<1>5. RedactionInv' /\ RedactionHolds'
  <2> SUFFICES ASSUME NEW h \in Goroutines
               PROVE  /\ ~panicked'[h] => sinks'[h] = NoReport
                      /\ panicked'[h] /\ ~relaxed'[h] => production'
                      /\ panicked'[h] /\ ~relaxed'[h] => "full" \notin {sinks'[h].log, sinks'[h].error}
    BY DEF RedactionInv, RedactionHolds, NoReport
  <2>1. CASE h # g
    <3>1. sinks'[h] = sinks[h]  BY <2>1, <1>0
    <3> QED  BY <3>1, <1>0, <1>3 DEF IInv, RedactionInv, RedactionHolds
  <2>2. CASE h = g
    <3>1. sinks'[g] = r  BY <1>0
    <3>2. ~relaxed[g] => production /\ "full" \notin {sinks[g].log, sinks[g].error}
      BY <1>4 DEF IInv, RedactionInv, RedactionHolds
    <3> QED  BY <2>2, <3>1, <3>2, <1>0, <1>3, <1>4
  <2> QED  BY <2>1, <2>2
<1> QED  BY <1>1, <1>2, <1>5 DEF IInv

-----------------------------------------------------------------------------
(* The actions                                                             *)

\* Where a step finds the goroutine that takes it.
LEMMA AtFacts ==
  ASSUME IInv, NEW g \in Goroutines, NEW kind, NEW at, At(g, kind, at)
  PROVE  /\ ControlType /\ GoodStack(stack[g]) /\ Depth(g) > 0
         /\ Top(g) = Frame(kind, at) /\ Len(stack[g]) = Depth(g) /\ Depth(g) \in 1..Len(stack[g])
         /\ kind = "recovery" => Base(stack[g]) = "recovery"
         /\ guarded \in [Goroutines -> [panics : Nat, traced : Nat]]
         /\ sinks \in [Goroutines -> SinkType]
<1>1. GoodStack(stack[g]) /\ Depth(g) > 0 /\ Top(g) = Frame(kind, at)
  BY DEF IInv, StackInv, At
<1>2. ControlType  BY DEF IInv, TypeOK, ControlType
<1>3. Depth(g) \in Nat /\ Depth(g) >= 1 /\ Len(stack[g]) = Depth(g)  BY <1>1, TopFacts
<1>4. kind = "recovery" => Base(stack[g]) = "recovery"
  <2> SUFFICES ASSUME kind = "recovery" PROVE Base(stack[g]) = "recovery"  OBVIOUS
  <2>1. Top(g).kind = "recovery"  BY <1>1, FrameFields
  <2>2. Depth(g) = 1 /\ Base(stack[g]) = stack[g][1].kind  BY <1>1, <2>1, TopFacts
  <2> QED  BY <2>1, <2>2 DEF Top
<1> QED  BY <1>1, <1>2, <1>3, <1>4 DEF IInv, TypeOK, SinkType

\* A logger adds one recovered panic at most.
LEMMA CallLoggerGuards ==
  ASSUME NEW g \in Goroutines, guarded \in [Goroutines -> [panics : Nat, traced : Nat]],
         NEW s, NEW logger, CallLogger(g, logger, s) \/ RecordPanicMetric(g, s)
  PROVE  guarded' \in [Goroutines -> [panics : Nat, traced : Nat]]
<1>1. guarded' = guarded \/ guarded' = [guarded EXCEPT ![g].panics = @ + 1]
  BY DEF CallLogger, GuardRecovers, RecordPanicMetric
<1> QED  BY <1>1

\* The innermost frame goes on, and nothing else happens to the stacks.
LEMMA GoesOn ==
  ASSUME IInv, NEW g \in Goroutines, NEW kind, NEW from, NEW at,
         At(g, kind, from), Frame(kind, at) \in Frames, Becomes(g, Moved(g, at)),
         UNCHANGED <<outMu, panicked, relaxed, process>>
  PROVE  Moves(g)
<1>1. /\ ControlType /\ GoodStack(stack[g]) /\ Depth(g) > 0 /\ Top(g) = Frame(kind, from)
  BY AtFacts
<1>2. GoodStack(Moved(g, at)) /\ Base(Moved(g, at)) = Base(stack[g])  BY <1>1, MovedStack
<1>3. outMu' \in Goroutines \cup {None} /\ process' \in {"up", "policy", "unrecovered", "overflow"}
  BY <1>1 DEF ControlType
<1> QED  BY <1>1, <1>2, <1>3, Settles DEF Becomes

\* It returns to the frame below it.
LEMMA GoesBack ==
  ASSUME IInv, NEW g \in Goroutines, NEW kind, NEW from,
         At(g, kind, from), Becomes(g, Returned(g)),
         UNCHANGED <<panicked, relaxed, process>>, outMu' \in {outMu, None}
  PROVE  Moves(g)
<1>1. ControlType /\ GoodStack(stack[g]) /\ Depth(g) \in 1..Len(stack[g])  BY AtFacts
<1>2. GoodStack(Returned(g)) /\ (Returned(g) = <<>> \/ Base(Returned(g)) = Base(stack[g]))
  BY <1>1, CutStack DEF Returned
<1>3. outMu' \in Goroutines \cup {None} /\ process' \in {"up", "policy", "unrecovered", "overflow"}
  BY <1>1 DEF ControlType
<1> QED  BY <1>1, <1>2, <1>3, Settles DEF Becomes

\* It calls a logger, or counts a panic, before it goes on.
LEMMA CallsOut ==
  ASSUME IInv, NEW g \in Goroutines, NEW kind, NEW from, NEW at, NEW logger,
         At(g, kind, from), Frame(kind, at) \in Frames,
         CallLogger(g, logger, Moved(g, at)) \/ RecordPanicMetric(g, Moved(g, at))
  PROVE  Moves(g) /\ guarded' \in [Goroutines -> [panics : Nat, traced : Nat]]
<1>1. /\ ControlType /\ GoodStack(stack[g]) /\ Depth(g) > 0 /\ Top(g) = Frame(kind, from)
      /\ guarded \in [Goroutines -> [panics : Nat, traced : Nat]]
  BY AtFacts
<1>2. /\ GoodStack(Moved(g, at)) /\ Base(Moved(g, at)) = Base(stack[g])
      /\ Len(Moved(g, at)) = Depth(g)
  BY <1>1, MovedStack
<1>3. Moved(g, at) # <<>>  BY <1>1, <1>2
<1>4. Moves(g)  BY <1>1, <1>2, <1>3, CallLoggerMoves, RecordPanicMetricMoves
<1>5. guarded' \in [Goroutines -> [panics : Nat, traced : Nat]]  BY <1>1, CallLoggerGuards
<1> QED  BY <1>4, <1>5

\* The callback of a SafeGo goroutine.
LEMMA CallbackInv ==
  ASSUME IInv, NEW g \in Goroutines, Callback(g)
  PROVE  IInv'
<1>1. CASE CallbackLogs(g)
  <2>1. Frame("callback", "work") \in Frames  BY KnownFrames
  <2> QED  BY <1>1, <2>1, CallsOut, SilentStep DEF CallbackLogs
<1>2. CASE CallbackReturns(g)
  <2>1. ControlType /\ guarded \in [Goroutines -> [panics : Nat, traced : Nat]]
    BY <1>2, AtFacts DEF CallbackReturns
  <2>2. /\ stack' = [stack EXCEPT ![g] = <<>>] /\ UNCHANGED <<globals, sinks, guarded>>
        /\ UNCHANGED <<outMu, panicked, relaxed, process>>
    BY <1>2 DEF CallbackReturns, Becomes
  <2>3. /\ outMu' \in Goroutines \cup {None}
        /\ process' \in {"up", "policy", "unrecovered", "overflow"}
    BY <2>1, <2>2 DEF ControlType
  <2>4. Moves(g)  BY <2>1, <2>2, <2>3, EmptyStack, Settles
  <2> QED  BY <2>1, <2>2, <2>4, SilentStep
<1>3. CASE CallbackPanics(g)
  <2>1. /\ ControlType /\ GoodStack(stack[g]) /\ Depth(g) > 0
        /\ guarded \in [Goroutines -> [panics : Nat, traced : Nat]]
    BY <1>3, AtFacts DEF CallbackPanics
  <2>2. Moves(g)  BY <1>3, <2>1, PanicsMoves DEF CallbackPanics
  <2> QED  BY <1>3, <2>1, <2>2, SilentStep DEF CallbackPanics
<1> QED  BY <1>1, <1>2, <1>3 DEF Callback

\* The recovery reads the switch at each sink: what it tells is redacted
\* whenever production mode is on at that moment.
LEMMA RecoveryInv ==
  ASSUME IInv, NEW g \in Goroutines, Recovery(g)
  PROVE  IInv'
<1> DEFINE Fits(r) == /\ r \in SinkType
                      /\ production => \/ "full" \notin {r.log, r.error}
                                       \/ "full" \in {sinks[g].log, sinks[g].error}
<1>1. CASE LogPanic(g)
  <2>1. /\ Frame("recovery", "metric") \in Frames /\ NextReport("log") = "metric"
    BY KnownFrames DEF NextReport
  <2>2. Moves(g) /\ guarded' \in [Goroutines -> [panics : Nat, traced : Nat]]
    BY <1>1, <2>1, CallsOut DEF LogPanic
  <2>3. Base(stack[g]) = "recovery" /\ sinks \in [Goroutines -> SinkType]
    BY <1>1, AtFacts DEF LogPanic
  <2> DEFINE r == [sinks[g] EXCEPT !.log = IF setup.logger = "nil" THEN None ELSE Detail]
  <2>4. Fits(r)  BY <2>3 DEF SinkType, Detail, None
  <2>5. sinks' = [sinks EXCEPT ![g] = r] /\ UNCHANGED globals  BY <1>1 DEF LogPanic
  <2> HIDE DEF r
  <2> QED  BY <2>2, <2>3, <2>4, <2>5, ReportingStep
<1>2. CASE RecordMetric(g)
  <2>1. /\ Frame("recovery", "span") \in Frames /\ NextReport("metric") = "span"
    BY KnownFrames DEF NextReport
  <2>2. Moves(g) /\ guarded' \in [Goroutines -> [panics : Nat, traced : Nat]]
    BY <1>2, <2>1, CallsOut DEF RecordMetric
  <2> QED  BY <1>2, <2>2, SilentStep DEF RecordMetric
<1>3. CASE RecordSpan(g)
  <2>1. /\ Frame("recovery", "error") \in Frames /\ NextReport("span") = "error"
    BY KnownFrames DEF NextReport
  <2>2. Moves(g)  BY <1>3, <2>1, GoesOn DEF RecordSpan
  <2>3. /\ Base(stack[g]) = "recovery" /\ sinks \in [Goroutines -> SinkType]
        /\ guarded \in [Goroutines -> [panics : Nat, traced : Nat]]
    BY <1>3, AtFacts DEF RecordSpan
  <2> DEFINE r == [sinks[g] EXCEPT !.span = "full"]
  <2>4. Fits(r)  BY <2>3 DEF SinkType
  <2>5. sinks' = [sinks EXCEPT ![g] = r] /\ UNCHANGED <<globals, guarded>>
    BY <1>3 DEF RecordSpan, globals
  <2> HIDE DEF r
  <2> QED  BY <2>2, <2>3, <2>4, <2>5, ReportingStep
<1>4. CASE ReportError(g)
  <2>1. /\ Frame("recovery", "policy") \in Frames /\ NextReport("error") = "policy"
    BY KnownFrames DEF NextReport
  <2>2. Moves(g)  BY <1>4, <2>1, GoesOn DEF ReportError, CaptureException
  <2>3. /\ Base(stack[g]) = "recovery" /\ sinks \in [Goroutines -> SinkType]
        /\ guarded \in [Goroutines -> [panics : Nat, traced : Nat]]
    BY <1>4, AtFacts DEF ReportError
  <2> DEFINE r == [sinks[g] EXCEPT !.error = IF setup.reporter = "none" THEN None ELSE Detail]
  <2>4. Fits(r)  BY <2>3 DEF SinkType, Detail, None
  <2>5. sinks' = [sinks EXCEPT ![g] = r] /\ UNCHANGED <<globals, guarded>>
    BY <1>4 DEF ReportError
  <2> HIDE DEF r
  <2> QED  BY <2>2, <2>3, <2>4, <2>5, ReportingStep
<1>5. CASE ApplyPolicy(g)
  <2>1. /\ ControlType /\ GoodStack(stack[g])
        /\ guarded \in [Goroutines -> [panics : Nat, traced : Nat]]
    BY <1>5, AtFacts DEF ApplyPolicy
  <2>2. /\ outMu' \in Goroutines \cup {None} /\ UNCHANGED <<panicked, relaxed>>
        /\ process' \in {"up", "policy", "unrecovered", "overflow"}
    BY <1>5, <2>1 DEF ApplyPolicy, ControlType
  <2>3. CASE UNCHANGED stack  BY <2>1, <2>2, <2>3, <1>5, Stays, SilentStep DEF ApplyPolicy
  <2>4. CASE stack' = [stack EXCEPT ![g] = <<>>]
    <3>1. Moves(g)  BY <2>1, <2>2, <2>4, EmptyStack, Settles
    <3> QED  BY <3>1, <2>1, <1>5, SilentStep DEF ApplyPolicy
  <2> QED  BY <1>5, <2>3, <2>4 DEF ApplyPolicy, Becomes, KeepRunning
<1> QED  BY <1>1, <1>2, <1>3, <1>4, <1>5 DEF Recovery

\* Reports of logger panics work above the goroutine's own frame.
LEMMA GuardInv ==
  ASSUME IInv, NEW g \in Goroutines, Guard(g)
  PROVE  IInv'
<1>1. CASE GuardCounts(g)
  <2>1. /\ Frame("guard", "span") \in Frames /\ NextStep("count") = "span"
    BY KnownFrames DEF NextStep
  <2>2. guarded \in [Goroutines -> [panics : Nat, traced : Nat]]
    BY <1>1, AtFacts DEF GuardCounts
  <2>3. CASE RecordPanicMetric(g, Moved(g, NextStep("count")))
    BY <1>1, <2>1, <2>3, CallsOut, SilentStep DEF GuardCounts
  <2>4. CASE /\ Becomes(g, Moved(g, NextStep("count")))
             /\ UNCHANGED <<outMu, panicked, relaxed, guarded, process>>
    BY <1>1, <2>1, <2>2, <2>4, GoesOn, SilentStep DEF GuardCounts
  <2> QED  BY <1>1, <2>3, <2>4 DEF GuardCounts
<1>2. CASE GuardTraces(g)
  <2>1. /\ Frame("guard", "fallback") \in Frames /\ NextStep("span") = "fallback"
    BY KnownFrames DEF NextStep
  <2>2. guarded \in [Goroutines -> [panics : Nat, traced : Nat]]
    BY <1>2, AtFacts DEF GuardTraces
  <2>3. guarded' \in [Goroutines -> [panics : Nat, traced : Nat]]
    BY <1>2, <2>2 DEF GuardTraces
  <2> QED  BY <1>2, <2>1, <2>3, GoesOn, SilentStep DEF GuardTraces
<1>3. CASE GuardFallsBack(g)
  <2>1. /\ ControlType /\ GoodStack(stack[g]) /\ Depth(g) > 0 /\ Top(g) = Frame("guard", "fallback")
        /\ guarded' \in [Goroutines -> [panics : Nat, traced : Nat]]
        /\ UNCHANGED <<globals, sinks>>
    BY <1>3, AtFacts DEF GuardFallsBack
  <2>2. CASE Becomes(g, Returned(g)) /\ UNCHANGED <<outMu, panicked, relaxed, process>>
    BY <1>3, <2>1, <2>2, GoesBack, SilentStep DEF GuardFallsBack
  <2>3. CASE Panics(g)  BY <2>1, <2>3, PanicsMoves, SilentStep
  <2>4. CASE /\ outMu' = g /\ UNCHANGED <<panicked, relaxed>>
             /\ Pushed(g, Moved(g, "return"), Frame("print", "write"))
    <3>1. /\ Frame("guard", "return") \in Frames
          /\ Frame("print", "write") \in Frames /\ Frame("print", "write").kind = "print"
      BY KnownFrames, FrameFields
    <3>2. /\ GoodStack(Moved(g, "return")) /\ Base(Moved(g, "return")) = Base(stack[g])
          /\ Len(Moved(g, "return")) = Depth(g)
      BY <2>1, <3>1, MovedStack
    <3>3. Moved(g, "return") # <<>>  BY <2>1, <3>2
    <3>4. Moves(g)  BY <2>1, <2>4, <3>1, <3>2, <3>3, PushedMoves
    <3> QED  BY <2>1, <3>4, SilentStep
  <2> QED  BY <1>3, <2>2, <2>3, <2>4 DEF GuardFallsBack
<1>4. CASE GuardReturns(g)
  <2>1. guarded \in [Goroutines -> [panics : Nat, traced : Nat]]
    BY <1>4, AtFacts DEF GuardReturns
  <2> QED  BY <1>4, <2>1, GoesBack, SilentStep DEF GuardReturns
<1>5. CASE PrintWrites(g)
  <2>1. Frame("print", "written") \in Frames  BY KnownFrames
  <2> QED  BY <1>5, <2>1, CallsOut, SilentStep DEF PrintWrites
<1>6. CASE PrintReturns(g)
  <2>1. guarded \in [Goroutines -> [panics : Nat, traced : Nat]]
    BY <1>6, AtFacts DEF PrintReturns
  <2> QED  BY <1>6, <2>1, GoesBack, SilentStep DEF PrintReturns
<1> QED  BY <1>1, <1>2, <1>3, <1>4, <1>5, <1>6 DEF Guard

\* Turning production mode off relaxes every panic there has been.
LEMMA ApplicationInv ==
  ASSUME IInv, Application
  PROVE  IInv'
<1>1. CASE SetProductionMode
  <2>1. /\ production' \in BOOLEAN
        /\ relaxed' = [g \in Goroutines |-> relaxed[g] \/ (panicked[g] /\ ~production')]
        /\ UNCHANGED <<setup, instance, counter, outMu, stack, panicked, sinks, guarded, process>>
    BY <1>1 DEF SetProductionMode
  <2>2. \A g \in Goroutines : relaxed'[g] <=> relaxed[g] \/ (panicked[g] /\ ~production')
    BY <2>1
  <2>3. relaxed' \in [Goroutines -> BOOLEAN]  BY <2>1
  <2>4. TypeOK'  BY <2>1, <2>3 DEF IInv, TypeOK
  <2>5. StackInv'  BY <2>1 DEF IInv, StackInv, GoodStack, Base
  <2>6. RedactionInv' /\ RedactionHolds'  BY <2>1, <2>2 DEF IInv, RedactionInv, RedactionHolds, NoReport
  <2> QED  BY <2>4, <2>5, <2>6 DEF IInv
<1>2. CASE InitPanicMetrics \/ ResetPanicMetrics
  <2>1. /\ instance' \in BOOLEAN /\ counter' \in BOOLEAN
        /\ UNCHANGED <<setup, production, outMu, stack, panicked, relaxed, sinks, guarded, process>>
    BY <1>2 DEF InitPanicMetrics, ResetPanicMetrics, IInv, TypeOK
  <2>2. TypeOK'  BY <2>1 DEF IInv, TypeOK
  <2>3. StackInv'  BY <2>1 DEF IInv, StackInv, GoodStack, Base
  <2>4. RedactionInv' /\ RedactionHolds'  BY <2>1 DEF IInv, RedactionInv, RedactionHolds, NoReport
  <2> QED  BY <2>2, <2>3, <2>4 DEF IInv
<1> QED  BY <1>1, <1>2 DEF Application

-----------------------------------------------------------------------------
\* Every goroutine starts in its callback, and no sink knows anything.
LEMMA InitInv == Init => IInv
<1> SUFFICES ASSUME Init PROVE IInv  OBVIOUS
<1> DEFINE f == Frame("callback", "log")
          s == <<f>>
<1>1. f \in Frames /\ f.kind = "callback"  BY KnownFrames, FrameFields
<1>2. \A g \in Goroutines : stack[g] = s  BY DEF Init
<1>3. stack = [g \in Goroutines |-> s]  BY DEF Init
<1> HIDE DEF f
<1>4. s \in Seq(Frames) /\ Len(s) = 1 /\ s[1] = f /\ s # <<>>  BY <1>1
<1> HIDE DEF s
<1>5. GoodStack(s) /\ Base(s) = "callback"  BY <1>1, <1>4 DEF GoodStack, Base
<1>6. /\ panicked = [g \in Goroutines |-> FALSE] /\ relaxed = [g \in Goroutines |-> FALSE]
      /\ sinks = [g \in Goroutines |-> NoReport]
      /\ guarded = [g \in Goroutines |-> [panics |-> 0, traced |-> 0]]
      /\ production = FALSE /\ instance = FALSE /\ counter = FALSE
      /\ outMu = None /\ process = "up" /\ setup \in Setups
  BY DEF Init
<1>7. TypeOK
  <2>1. stack \in [Goroutines -> Seq(Frames)]  BY <1>3, <1>4
  <2>2. panicked \in [Goroutines -> BOOLEAN] /\ relaxed \in [Goroutines -> BOOLEAN]  BY <1>6
  <2>3. production \in BOOLEAN /\ instance \in BOOLEAN /\ counter \in BOOLEAN  BY <1>6
  <2>4. sinks \in [Goroutines -> [{"log", "span", "error"} -> {None, "redacted", "full"}]]
    BY <1>6 DEF NoReport
  <2>5. guarded \in [Goroutines -> [panics : Nat, traced : Nat]]  BY <1>6
  <2> QED  BY <2>1, <2>2, <2>3, <2>4, <2>5, <1>6 DEF TypeOK
<1>8. StackInv  BY <1>2, <1>5, <1>6 DEF StackInv
<1>9. RedactionInv /\ RedactionHolds  BY <1>6 DEF RedactionInv, RedactionHolds
<1> QED  BY <1>7, <1>8, <1>9 DEF IInv

\* A failed assertion works above its callback, and is no report of a panic.
LEMMA AssertionInv ==
  ASSUME IInv, NEW g \in Goroutines, Assertion(g)
  PROVE  IInv'
<1>1. CASE Asserts(g)
  <2>1. /\ ControlType /\ GoodStack(stack[g]) /\ Depth(g) > 0
        /\ guarded \in [Goroutines -> [panics : Nat, traced : Nat]]
    BY <1>1, AtFacts DEF Asserts
  <2>2. /\ Frame("assert", "stack") \in Frames /\ Frame("assert", "stack").kind = "assert"
    BY KnownFrames, FrameFields
  <2>3. stack[g] # <<>>  BY <2>1, TopFacts
  <2>4. /\ Pushed(g, stack[g], Frame("assert", "stack")) /\ UNCHANGED <<panicked, relaxed>>
        /\ outMu' \in Goroutines \cup {None} /\ UNCHANGED <<globals, sinks, guarded>>
    BY <1>1, <2>1 DEF Asserts, ControlType
  <2>5. Moves(g)  BY <2>1, <2>2, <2>3, <2>4, PushedMoves
  <2> QED  BY <2>1, <2>4, <2>5, SilentStep
<1>2. CASE DecideStack(g)
  <2>1. Frame("assert", "log") \in Frames  BY KnownFrames
  <2>2. guarded \in [Goroutines -> [panics : Nat, traced : Nat]]
    BY <1>2, AtFacts DEF DecideStack
  <2> QED  BY <1>2, <2>1, <2>2, GoesOn, SilentStep DEF DecideStack
<1>3. CASE LogFailure(g)
  <2>1. Frame("assert", "stackLog") \in Frames  BY KnownFrames
  <2> QED  BY <1>3, <2>1, CallsOut, SilentStep DEF LogFailure
<1>4. CASE LogStack(g)
  <2>1. Frame("assert", "count") \in Frames  BY KnownFrames
  <2>2. guarded \in [Goroutines -> [panics : Nat, traced : Nat]]
    BY <1>4, AtFacts DEF LogStack
  <2>3. CASE CallLogger(g, asserter.logger, Moved(g, "count"))
    BY <1>4, <2>1, <2>3, CallsOut, SilentStep DEF LogStack
  <2>4. CASE /\ Becomes(g, Moved(g, "count"))
             /\ UNCHANGED <<outMu, panicked, relaxed, guarded, process>>
    BY <1>4, <2>1, <2>2, <2>4, GoesOn, SilentStep DEF LogStack
  <2> QED  BY <1>4, <2>3, <2>4 DEF LogStack
<1>5. CASE CountFailure(g)
  <2>1. Frame("assert", "span") \in Frames  BY KnownFrames
  <2>2. /\ ControlType /\ GoodStack(stack[g]) /\ Depth(g) > 0
        /\ guarded' \in [Goroutines -> [panics : Nat, traced : Nat]]
        /\ UNCHANGED <<globals, sinks>>
    BY <1>5, AtFacts DEF CountFailure
  <2>3. CASE Panics(g)  BY <2>2, <2>3, PanicsMoves, SilentStep
  <2>4. CASE /\ Becomes(g, Moved(g, "span"))
             /\ UNCHANGED <<outMu, panicked, relaxed, process>>
    BY <1>5, <2>1, <2>2, <2>4, GoesOn, SilentStep DEF CountFailure
  <2> QED  BY <1>5, <2>3, <2>4 DEF CountFailure
<1>6. CASE TraceFailure(g)
  <2>1. Frame("assert", "return") \in Frames  BY KnownFrames
  <2>2. guarded \in [Goroutines -> [panics : Nat, traced : Nat]]
    BY <1>6, AtFacts DEF TraceFailure
  <2> QED  BY <1>6, <2>1, <2>2, GoesOn, SilentStep DEF TraceFailure
<1>7. CASE ReturnFailure(g)
  <2>1. /\ ControlType /\ guarded \in [Goroutines -> [panics : Nat, traced : Nat]]
        /\ UNCHANGED <<globals, outMu, panicked, relaxed, sinks, guarded, process>>
    BY <1>7, AtFacts DEF ReturnFailure
  <2>2. CASE Becomes(g, Returned(g))
    BY <1>7, <2>1, <2>2, GoesBack, SilentStep DEF ReturnFailure
  <2>3. CASE Becomes(g, <<>>)
    <3>1. /\ outMu' \in Goroutines \cup {None}
          /\ process' \in {"up", "policy", "unrecovered", "overflow"}
      BY <2>1 DEF ControlType
    <3>2. Moves(g)  BY <2>1, <2>3, <3>1, EmptyStack, Settles DEF Becomes
    <3> QED  BY <2>1, <3>2, SilentStep
  <2> QED  BY <1>7, <2>2, <2>3 DEF ReturnFailure
<1> QED  BY <1>1, <1>2, <1>3, <1>4, <1>5, <1>6, <1>7 DEF Assertion

\* The invariant of the goroutines and of the switches alone.
LEMMA NextInv ==
  ASSUME IInv, [Next]_vars
  PROVE  IInv'
<1>1. CASE Application  BY <1>1, ApplicationInv
<1>2. ASSUME NEW g \in Goroutines, Goroutine(g) PROVE IInv'
  BY <1>2, CallbackInv, RecoveryInv, GuardInv DEF Goroutine
<1>3. CASE UNCHANGED vars
  <2>1. TypeOK'  BY <1>3 DEF vars, globals, IInv, TypeOK
  <2>2. StackInv'  BY <1>3 DEF vars, IInv, StackInv, GoodStack, Base
  <2>3. RedactionInv' /\ RedactionHolds'
    BY <1>3 DEF vars, globals, IInv, RedactionInv, RedactionHolds, NoReport
  <2> QED  BY <2>1, <2>2, <2>3 DEF IInv
<1> QED  BY <1>1, <1>2, <1>3 DEF Next

\* Types, the shape of the stacks and what sinks may know, whatever the loggers,
\* recorders, reporters and switches do.
THEOREM InductiveInvariant == Spec => []IInv
<1>1. Init => IInv  BY InitInv
<1>2. IInv /\ [Next]_vars => IInv'  BY NextInv
<1> QED  BY <1>1, <1>2, PTL DEF Spec

\* A step of a process whose callbacks assert.
LEMMA AssertNextInv ==
  ASSUME IInv, [AssertNext]_processVars
  PROVE  IInv'
<1>1. CASE Application  BY <1>1, ApplicationInv
<1>2. ASSUME NEW g \in Goroutines, AssertingGoroutine(g) PROVE IInv'
  <2>1. CASE Assertion(g)  BY <2>1, AssertionInv
  <2>2. CASE Goroutine(g)  BY <2>2, NextInv DEF Next
  <2> QED  BY <1>2, <2>1, <2>2 DEF AssertingGoroutine
<1>3. CASE UNCHANGED vars  BY <1>3, NextInv
<1> QED  BY <1>1, <1>2, <1>3 DEF AssertNext, processVars

\* The same when callbacks assert what does not hold.
THEOREM AssertingInvariant == AssertSafe => []IInv
<1>1. AssertInit => IInv  BY InitInv DEF AssertInit
<1>2. IInv /\ [AssertNext]_processVars => IInv'  BY AssertNextInv
<1> QED  BY <1>1, <1>2, PTL DEF AssertSafe

\* isProductionMode is asked again by the log line and by the error reporter, and
\* the switch may be turned in between: while it is on from the panic onwards,
\* neither of them gets the details.
THEOREM NoDetailsInProduction == AssertSafe => []RedactionHolds
<1>1. IInv => RedactionHolds  BY DEF IInv
<1> QED  BY <1>1, AssertingInvariant, PTL

-----------------------------------------------------------------------------
(* What reports tell.  Where a goroutine's frames may stand:               *)

Kinds(g, kind) == {i \in 1..Depth(g) : stack[g][i].kind = kind}

\* A failed assertion is reported right above the callback that made it.
FrameInv(g) == \A i \in Kinds(g, "assert") : i = 2 /\ stack[g][1] = Frame("callback", "work")

\* Counting a panic neither panics nor fails into a logger that may.
Calm == \/ setup.recorder = "sound"
        \/ setup.recorder = "failing" /\ setup.metricsLogger \in {"nil", "sound"}

\* Then a report runs inside another only by way of the stdlib logger, whose
\* output lock lets one line at a time: five frames are the most.
Roomy == MaxStack >= 5
NestInv(g) == Calm =>
  /\ \A i \in Kinds(g, "print") : i <= 4 /\ outMu = g /\ \A j \in Kinds(g, "print") : i = j
  /\ \A i \in Kinds(g, "guard") : i <= 3 \/ \E j \in Kinds(g, "print") : j < i

\* Only the innermost report can be before the span it goes to.
Pending(f) == f.kind = "guard" /\ f.at \in {"count", "span"}
TraceInv(g) == Roomy /\ setup.recorder = "sound" =>
  /\ \A i \in 1..(Depth(g) - 1) : ~Pending(stack[g][i])
  /\ guarded[g].panics = guarded[g].traced + (IF Depth(g) > 0 /\ Pending(Top(g)) THEN 1 ELSE 0)

\* A recovery has told the sinks that are behind it.
SinkInv(g) == Base(stack[g]) = "recovery" =>
  /\ stack[g][1].at # "log" /\ setup.logger # "nil" => sinks[g].log # None
  /\ stack[g][1].at \in {"error", "policy"} => sinks[g].span = "full"
  /\ stack[g][1].at = "policy" /\ setup.reporter # "none" => sinks[g].error # None

\* And so has the report of a failed assertion.
Told(g, at) ==
  /\ failed[g].logs = (IF at \in {"stack", "log"} THEN 0 ELSE 1)
  /\ failed[g].stackLogs = (IF at \notin {"stack", "log", "stackLog"}
                               /\ failed[g].taken /\ asserter.logger # "nil" THEN 1 ELSE 0)
  /\ failed[g].counts = (IF at \in {"span", "return"} /\ asserter.recorder = "sound" THEN 1 ELSE 0)
  /\ failed[g].events = (IF at = "return" THEN 1 ELSE 0)
  /\ failed[g].stackEvents = (IF at = "return" /\ failed[g].taken THEN 1 ELSE 0)

\* Whose frame is on the stack from the call to the return, or to the panic of
\* what is unguarded.
Unguarded == asserter.logger = "bare" \/ asserter.recorder = "panicking"
FailureInv(g) ==
  /\ failed[g].at = "no" => failed[g] = NotFailed /\ Kinds(g, "assert") = {}
  /\ failed[g].at = "returned" => Told(g, "return") /\ Kinds(g, "assert") = {}
  /\ process = "up" => \A i \in Kinds(g, "assert") : Told(g, stack[g][i].at)
  /\ process = "up" /\ failed[g].at = "called" /\ ~Unguarded => Kinds(g, "assert") # {}

FailedType == [at : {"no", "called", "returned"}, taken : BOOLEAN, logs : Nat, stackLogs : Nat,
               counts : Nat, events : Nat, stackEvents : Nat]

TellInv ==
  /\ IInv /\ failed \in [Goroutines -> FailedType]
  /\ \A g \in Goroutines :
       FrameInv(g) /\ NestInv(g) /\ TraceInv(g) /\ SinkInv(g) /\ FailureInv(g)
  /\ PolicyCrashIsReported /\ (Roomy => KeepRunningSurvives)

-----------------------------------------------------------------------------
(* The ways a step leaves the frames of its goroutine                      *)

Under(g, n)  == \A i \in 1..n : stack'[g][i] = stack[g][i]
Apart(g)     == \A h \in Goroutines : h # g => stack'[h] = stack[h]

Goes(g, kind, at) ==
  /\ Len(stack'[g]) = Depth(g) /\ Under(g, Depth(g) - 1) /\ Apart(g)
  /\ stack'[g][Depth(g)] = Frame(kind, at)
Calls(g, kind, at, f) ==
  /\ Len(stack'[g]) = Depth(g) + 1 /\ Under(g, Depth(g) - 1) /\ Apart(g)
  /\ stack'[g][Depth(g)] = Frame(kind, at) /\ stack'[g][Depth(g) + 1] = f
Drops(g, n)  == n <= Depth(g) /\ Len(stack'[g]) = n /\ Under(g, n) /\ Apart(g)

\* The innermost frame goes on; a report of a logger panic counts, then traces.
StepsOn(g, kind, from) ==
  /\ UNCHANGED <<outMu, process>>
  /\ \/ kind # "guard" /\ UNCHANGED guarded /\ \E at : Goes(g, kind, at)
     \/ kind = "guard" /\ from = "count" /\ UNCHANGED guarded /\ Goes(g, kind, "span")
     \/ /\ kind = "guard" /\ from = "span" /\ Goes(g, kind, "fallback")
        /\ guarded' = [guarded EXCEPT ![g].traced = @ + 1]

\* It called a logger whose guard had to recover a panic.
Raises(g, kind) ==
  /\ kind # "guard" \/ ~Calm
  /\ guarded' = [guarded EXCEPT ![g].panics = @ + 1] /\ UNCHANGED <<outMu, process>>
  /\ \E at : Calls(g, kind, at, Frame("guard", "count"))

\* Its fallback line goes into an adapted logger.
Prints(g, kind, from) ==
  /\ kind = "guard" /\ from = "fallback" /\ outMu = None /\ outMu' = g
  /\ UNCHANGED <<guarded, process>> /\ Calls(g, kind, "return", Frame("print", "write"))

\* It is over: a report is, a line is, and the panic of the fallback line with it.
Leaves(g, kind, from) ==
  /\ UNCHANGED <<guarded, process>> /\ Drops(g, Depth(g) - 1)
  /\ \/ /\ kind = "guard" /\ (from \in {"fallback", "return"} \/ ~Calm)
        /\ \/ outMu' = outMu
           \/ outMu = g /\ outMu' = None /\ \A i \in 1..(Depth(g) - 1) : stack[g][i].kind # "print"
     \/ kind = "print" /\ outMu' = None
     \/ kind = "assert" /\ outMu' = outMu

\* The goroutine ends.
Ends(g, kind) ==
  /\ kind \in {"callback", "recovery", "assert"} /\ Drops(g, 0) /\ UNCHANGED <<outMu, guarded, process>>

\* The callback panics: its recovery is all there is.
Turned(g) == Len(stack'[g]) = 1 /\ stack'[g][1] = Frame("recovery", "log") /\ Apart(g)
Unwinds(g, kind) ==
  kind \in {"callback", "assert"} /\ Turned(g) /\ UNCHANGED <<outMu, guarded, process>>

\* The process dies: of the policy, of a panic in the recovery, of the stack's bound.
Dies(g, kind, from) ==
  /\ UNCHANGED stack
  /\ \/ /\ process' = "overflow" /\ ~(Depth(g) < MaxStack)
        /\ \/ kind # "guard" /\ outMu' = outMu
           \/ kind = "guard" /\ from = "fallback" /\ outMu = None /\ outMu' = g
           \/ ~Calm /\ outMu' = outMu
        /\ guarded' \in {guarded, [guarded EXCEPT ![g].panics = @ + 1]}
     \/ /\ process' = "unrecovered" /\ UNCHANGED <<outMu, guarded>>
        /\ kind = "recovery" /\ (setup.logger = "bare" \/ ~Calm)
     \/ /\ process' = "policy" /\ UNCHANGED <<outMu, guarded>>
        /\ kind = "recovery" /\ from = "policy" /\ setup.policy[g] = "CrashProcess"

Steps(g, kind, from) ==
  \/ StepsOn(g, kind, from) \/ Raises(g, kind) \/ Prints(g, kind, from)
  \/ Leaves(g, kind, from) \/ Ends(g, kind) \/ Unwinds(g, kind) \/ Dies(g, kind, from)

\* Where a step finds its goroutine, frame by frame.
LEMMA Stands ==
  ASSUME IInv, NEW g \in Goroutines, FrameInv(g), NEW kind, NEW from, At(g, kind, from)
  PROVE  /\ Depth(g) \in Nat /\ Depth(g) >= 1 /\ Len(stack[g]) = Depth(g) /\ process = "up"
         /\ stack[g][Depth(g)] = Frame(kind, from)
         /\ stack[g][Depth(g)].kind = kind /\ stack[g][Depth(g)].at = from
         /\ \A i \in 1..Depth(g) : stack[g][i].kind \in {"callback", "recovery"} <=> i = 1
         /\ Base(stack[g]) = stack[g][1].kind
         /\ kind \in {"callback", "recovery"} <=> Depth(g) = 1
         /\ kind = "assert" => Depth(g) = 2 /\ stack[g][1] = Frame("callback", "work")
<1>1. /\ GoodStack(stack[g]) /\ Depth(g) > 0 /\ Top(g) = Frame(kind, from)
      /\ Depth(g) \in 1..Len(stack[g])
  BY AtFacts
<1>2. /\ Depth(g) \in Nat /\ Depth(g) >= 1 /\ Len(stack[g]) = Depth(g)
      /\ Base(stack[g]) = stack[g][1].kind
  BY <1>1, TopFacts
<1>3. /\ stack[g][Depth(g)] = Frame(kind, from)
      /\ stack[g][Depth(g)].kind = kind /\ stack[g][Depth(g)].at = from
  BY <1>1, FrameFields DEF Top
<1>4. \A i \in 1..Depth(g) : stack[g][i].kind \in {"callback", "recovery"} <=> i = 1
  BY <1>1, <1>2 DEF GoodStack
<1>5. kind \in {"callback", "recovery"} <=> Depth(g) = 1  BY <1>2, <1>3, <1>4
<1>6. kind = "assert" => Depth(g) = 2 /\ stack[g][1] = Frame("callback", "work")
  BY <1>2, <1>3 DEF FrameInv, Kinds
<1>7. process = "up"  BY DEF At
<1> QED  BY <1>2, <1>3, <1>4, <1>5, <1>6, <1>7

\* Replacing one goroutine's stack.
LEMMA BecomesShape ==
  ASSUME ControlType, NEW g \in Goroutines, NEW s, Becomes(g, s)
  PROVE  stack'[g] = s /\ Apart(g)
BY DEF ControlType, Becomes, Apart

\* The innermost frame goes on.
LEMMA GoesShape ==
  ASSUME IInv, NEW g \in Goroutines, NEW kind, NEW from, NEW at, At(g, kind, from),
         Frame(kind, at) \in Frames, Becomes(g, Moved(g, at))
  PROVE  Goes(g, kind, at)
<1>1. /\ ControlType /\ GoodStack(stack[g]) /\ Depth(g) > 0 /\ Top(g) = Frame(kind, from)
  BY AtFacts
<1>2. /\ Len(Moved(g, at)) = Depth(g)
      /\ \A i \in 1..Depth(g) :
           Moved(g, at)[i] = IF i = Depth(g) THEN Frame(kind, at) ELSE stack[g][i]
  BY <1>1, MovedFrames
<1>3. stack'[g] = Moved(g, at) /\ Apart(g)  BY <1>1, BecomesShape
<1>4. Depth(g) \in Nat /\ Depth(g) >= 1  BY <1>1, TopFacts
<1> QED  BY <1>2, <1>3, <1>4 DEF Goes, Under

\* It goes on and has a new frame above it, if there is room.
LEMMA CallsShape ==
  ASSUME IInv, NEW g \in Goroutines, NEW kind, NEW from, NEW at, At(g, kind, from),
         Frame(kind, at) \in Frames, NEW f \in Frames, Pushed(g, Moved(g, at), f)
  PROVE  \/ Calls(g, kind, at, f) /\ UNCHANGED process
         \/ process' = "overflow" /\ UNCHANGED stack /\ ~(Depth(g) < MaxStack)
<1>1. /\ ControlType /\ GoodStack(stack[g]) /\ Depth(g) > 0 /\ Top(g) = Frame(kind, from)
  BY AtFacts
<1>2. /\ Moved(g, at) \in Seq(Frames) /\ Len(Moved(g, at)) = Depth(g)
      /\ \A i \in 1..Depth(g) :
           Moved(g, at)[i] = IF i = Depth(g) THEN Frame(kind, at) ELSE stack[g][i]
  BY <1>1, MovedFrames
<1>3. Depth(g) \in Nat /\ Depth(g) >= 1  BY <1>1, TopFacts
<1>4. CASE Len(Moved(g, at)) < MaxStack
  <2>1. stack'[g] = Append(Moved(g, at), f) /\ Apart(g) /\ UNCHANGED process
    BY <1>1, <1>4, BecomesShape DEF Pushed
  <2> DEFINE m == Moved(g, at)
  <2>2. m \in Seq(Frames) /\ Len(m) = Depth(g)  BY <1>2
  <2> HIDE DEF m
  <2>3. /\ Len(Append(m, f)) = Depth(g) + 1 /\ Append(m, f)[Depth(g) + 1] = f
        /\ \A i \in 1..Depth(g) : Append(m, f)[i] = m[i]
    BY <2>2
  <2>4. Calls(g, kind, at, f)  BY <1>2, <1>3, <2>1, <2>3 DEF Calls, Under, m
  <2> QED  BY <2>1, <2>4
<1>5. CASE ~(Len(Moved(g, at)) < MaxStack)  BY <1>2, <1>5 DEF Pushed
<1> QED  BY <1>4, <1>5

\* Frames are dropped.
LEMMA DropsShape ==
  ASSUME IInv, NEW g \in Goroutines, NEW kind, NEW from, At(g, kind, from),
         NEW n \in 1..Depth(g), Becomes(g, SubSeq(stack[g], 1, n - 1))
  PROVE  Drops(g, n - 1)
<1>1. ControlType /\ GoodStack(stack[g]) /\ Depth(g) > 0  BY AtFacts
<1>2. stack[g] \in Seq(Frames) /\ Len(stack[g]) = Depth(g) /\ Depth(g) \in Nat  BY <1>1, TopFacts
<1>3. \A i \in 1..(n - 1) : stack[g][i] \in Frames  BY <1>2, ElementOfSeq
<1> DEFINE s == SubSeq(stack[g], 1, n - 1)
<1>4. /\ Len(s) = IF 1 <= n - 1 THEN n - 1 - 1 + 1 ELSE 0
      /\ \A i \in 1..(n - 1 - 1 + 1) : s[i] = stack[g][1 + i - 1]
  BY <1>2, <1>3, SubSeqProperties
<1>5. stack'[g] = s /\ Apart(g)  BY <1>1, BecomesShape
<1> HIDE DEF s
<1>6. Len(s) = n - 1 /\ \A i \in 1..(n - 1) : s[i] = stack[g][i]  BY <1>2, <1>4
<1> QED  BY <1>2, <1>5, <1>6 DEF Drops, Under

\* All of them are.
LEMMA EmptyShape ==
  ASSUME ControlType, NEW g \in Goroutines, GoodStack(stack[g]), Becomes(g, <<>>)
  PROVE  Drops(g, 0)
<1>1. stack'[g] = <<>> /\ Apart(g)  BY BecomesShape
<1>2. Depth(g) \in Nat  BY DEF GoodStack, Depth
<1> QED  BY <1>1, <1>2 DEF Drops, Under

\* Where a panic ends: a report's own guard is the innermost one there is.
LEMMA PanicsShape ==
  ASSUME IInv, NEW g \in Goroutines, FrameInv(g), NEW kind, NEW from, At(g, kind, from), Panics(g)
  PROVE  /\ kind = "guard" =>
              /\ Drops(g, Depth(g) - 1) /\ UNCHANGED process
              /\ \/ outMu' = outMu
                 \/ /\ outMu = g /\ outMu' = None
                    /\ \A i \in 1..(Depth(g) - 1) : stack[g][i].kind # "print"
         /\ kind \in {"callback", "assert"} => Turned(g) /\ UNCHANGED <<outMu, process>>
         /\ kind = "recovery" => process' = "unrecovered" /\ UNCHANGED <<outMu, stack>>
<1>1. /\ ControlType /\ Depth(g) \in Nat /\ Depth(g) >= 1 /\ Len(stack[g]) = Depth(g)
      /\ stack[g][Depth(g)].kind = kind
      /\ kind \in {"callback", "recovery"} <=> Depth(g) = 1
      /\ kind = "assert" => Depth(g) = 2 /\ stack[g][1] = Frame("callback", "work")
  BY Stands, AtFacts
<1>2. CASE kind = "guard"
  <2>1. Depth(g) \in Catchers(g) /\ \A i \in Catchers(g) : i <= Depth(g)
    BY <1>1, <1>2 DEF Catchers
  <2>2. PICK i \in Catchers(g) :
          /\ \A j \in Catchers(g) : j <= i
          /\ Becomes(g, SubSeq(stack[g], 1, i - 1))
          /\ outMu' = IF outMu = g /\ ~\E j \in 1..(i - 1) : stack[g][j].kind = "print"
                      THEN None ELSE outMu
          /\ UNCHANGED process
    BY <2>1 DEF Panics
  <2>3. i = Depth(g)  BY <1>1, <2>1, <2>2 DEF Catchers
  <2>4. Drops(g, Depth(g) - 1)  BY <1>1, <2>2, <2>3, DropsShape
  <2> QED  BY <1>2, <2>2, <2>3, <2>4
<1>3. CASE kind \in {"callback", "assert"}
  <2>1. stack[g][1].kind = "callback"  BY <1>1, <1>3, FrameFields
  <2>2. Catchers(g) = {}  BY <1>1, <1>3, <2>1 DEF Catchers
  <2>3. Becomes(g, <<Frame("recovery", "log")>>) /\ UNCHANGED <<outMu, process>>
    BY <2>1, <2>2 DEF Panics
  <2>4. stack'[g] = <<Frame("recovery", "log")>> /\ Apart(g)  BY <1>1, <2>3, BecomesShape
  <2> QED  BY <1>3, <2>3, <2>4 DEF Turned
<1>4. CASE kind = "recovery"
  <2>1. Catchers(g) = {} /\ stack[g][1].kind # "callback"  BY <1>1, <1>4 DEF Catchers
  <2> QED  BY <1>4, <2>1 DEF Panics
<1> QED  BY <1>2, <1>3, <1>4

\* What a call of a logger comes to.
LEMMA LoggerShape ==
  ASSUME IInv, NEW g \in Goroutines, NEW kind, NEW from, NEW at, At(g, kind, from),
         Frame(kind, at) \in Frames, NEW logger, CallLogger(g, logger, Moved(g, at))
  PROVE  \/ Goes(g, kind, at) /\ UNCHANGED <<outMu, process, guarded>>
         \/ logger = "bare" /\ Panics(g) /\ UNCHANGED guarded
         \/ /\ logger = "adapted" /\ UNCHANGED outMu
            /\ guarded' = [guarded EXCEPT ![g].panics = @ + 1]
            /\ \/ Calls(g, kind, at, Frame("guard", "count")) /\ UNCHANGED process
               \/ process' = "overflow" /\ UNCHANGED stack /\ ~(Depth(g) < MaxStack)
<1>1. CASE Becomes(g, Moved(g, at)) /\ UNCHANGED <<outMu, process, guarded>>
  BY <1>1, GoesShape
<1>2. CASE logger = "bare" /\ Panics(g) /\ UNCHANGED guarded  BY <1>2
<1>3. CASE logger = "adapted" /\ GuardRecovers(g, Moved(g, at))
  <2>1. Frame("guard", "count") \in Frames  BY KnownFrames
  <2>2. /\ guarded' = [guarded EXCEPT ![g].panics = @ + 1] /\ UNCHANGED outMu
        /\ Pushed(g, Moved(g, at), Frame("guard", "count"))
    BY <1>3 DEF GuardRecovers
  <2> QED  BY <1>3, <2>1, <2>2, CallsShape
<1> QED  BY <1>1, <1>2, <1>3 DEF CallLogger

\* What counting a panic comes to: while it is calm, to the next step.
LEMMA MetricShape ==
  ASSUME IInv, NEW g \in Goroutines, NEW kind, NEW from, NEW at, At(g, kind, from),
         Frame(kind, at) \in Frames, RecordPanicMetric(g, Moved(g, at))
  PROVE  \/ Goes(g, kind, at) /\ UNCHANGED <<outMu, process, guarded>>
         \/ ~Calm /\ Panics(g) /\ UNCHANGED guarded
         \/ /\ ~Calm /\ UNCHANGED outMu
            /\ guarded' = [guarded EXCEPT ![g].panics = @ + 1]
            /\ \/ Calls(g, kind, at, Frame("guard", "count")) /\ UNCHANGED process
               \/ process' = "overflow" /\ UNCHANGED stack /\ ~(Depth(g) < MaxStack)
<1>1. CASE Becomes(g, Moved(g, at)) /\ UNCHANGED <<outMu, process, guarded>>
  BY <1>1, GoesShape
<1>2. CASE setup.recorder = "failing" /\ CallLogger(g, setup.metricsLogger, Moved(g, at))
  <2>1. setup.metricsLogger \in {"bare", "adapted"} => ~Calm  BY <1>2 DEF Calm
  <2> QED  BY <1>2, <2>1, LoggerShape
<1>3. CASE setup.recorder = "panicking" /\ Panics(g) /\ UNCHANGED guarded
  <2>1. ~Calm  BY <1>3 DEF Calm
  <2> QED  BY <1>3, <2>1
<1> QED  BY <1>1, <1>2, <1>3 DEF RecordPanicMetric

\* The callback logs, ends or panics.
LEMMA CallbackSteps ==
  ASSUME IInv, NEW g \in Goroutines, FrameInv(g), Callback(g)
  PROVE  \E from : At(g, "callback", from) /\ Steps(g, "callback", from)
<1>1. CASE CallbackLogs(g)
  <2>1. At(g, "callback", "log") /\ Frame("callback", "work") \in Frames
    BY <1>1, KnownFrames DEF CallbackLogs
  <2>2. CallLogger(g, setup.logger, Moved(g, "work"))  BY <1>1 DEF CallbackLogs
  <2>3. CASE Goes(g, "callback", "work") /\ UNCHANGED <<outMu, process, guarded>>
    BY <2>1, <2>3 DEF Steps, StepsOn
  <2>4. CASE Panics(g) /\ UNCHANGED guarded
    BY <2>1, <2>4, PanicsShape DEF Steps, Unwinds
  <2>5. CASE /\ UNCHANGED outMu /\ guarded' = [guarded EXCEPT ![g].panics = @ + 1]
             /\ Calls(g, "callback", "work", Frame("guard", "count")) /\ UNCHANGED process
    BY <2>1, <2>5 DEF Steps, Raises
  <2>6. CASE /\ UNCHANGED outMu /\ guarded' = [guarded EXCEPT ![g].panics = @ + 1]
             /\ process' = "overflow" /\ UNCHANGED stack /\ ~(Depth(g) < MaxStack)
    BY <2>1, <2>6 DEF Steps, Dies
  <2> QED  BY <2>1, <2>2, <2>3, <2>4, <2>5, <2>6, LoggerShape
<1>2. CASE CallbackReturns(g)
  <2>1. At(g, "callback", "work") /\ Becomes(g, <<>>) /\ UNCHANGED <<outMu, guarded, process>>
    BY <1>2 DEF CallbackReturns
  <2>2. ControlType /\ GoodStack(stack[g])  BY <2>1, AtFacts
  <2>3. Drops(g, 0)  BY <2>1, <2>2, EmptyShape
  <2> QED  BY <2>1, <2>3 DEF Steps, Ends
<1>3. CASE CallbackPanics(g)
  BY <1>3, PanicsShape DEF CallbackPanics, Steps, Unwinds
<1> QED  BY <1>1, <1>2, <1>3 DEF Callback

\* The recovery reports the panic, and applies the policy.
LEMMA RecoverySteps ==
  ASSUME IInv, NEW g \in Goroutines, FrameInv(g), Recovery(g)
  PROVE  \E from : At(g, "recovery", from) /\ Steps(g, "recovery", from)
<1>1. CASE LogPanic(g)
  <2>1. /\ At(g, "recovery", "log") /\ Frame("recovery", "metric") \in Frames
        /\ CallLogger(g, setup.logger, Moved(g, "metric"))
    BY <1>1, KnownFrames DEF LogPanic, NextReport
  <2>3. CASE Goes(g, "recovery", "metric") /\ UNCHANGED <<outMu, process, guarded>>
    BY <2>1, <2>3 DEF Steps, StepsOn
  <2>4. CASE setup.logger = "bare" /\ Panics(g) /\ UNCHANGED guarded
    BY <2>1, <2>4, PanicsShape DEF Steps, Dies
  <2>5. CASE /\ UNCHANGED outMu /\ guarded' = [guarded EXCEPT ![g].panics = @ + 1]
             /\ Calls(g, "recovery", "metric", Frame("guard", "count")) /\ UNCHANGED process
    BY <2>1, <2>5 DEF Steps, Raises
  <2>6. CASE /\ UNCHANGED outMu /\ guarded' = [guarded EXCEPT ![g].panics = @ + 1]
             /\ process' = "overflow" /\ UNCHANGED stack /\ ~(Depth(g) < MaxStack)
    BY <2>1, <2>6 DEF Steps, Dies
  <2> QED  BY <2>1, <2>3, <2>4, <2>5, <2>6, LoggerShape
<1>2. CASE RecordMetric(g)
  <2>1. /\ At(g, "recovery", "metric") /\ Frame("recovery", "span") \in Frames
        /\ RecordPanicMetric(g, Moved(g, "span"))
    BY <1>2, KnownFrames DEF RecordMetric, NextReport
  <2>3. CASE Goes(g, "recovery", "span") /\ UNCHANGED <<outMu, process, guarded>>
    BY <2>1, <2>3 DEF Steps, StepsOn
  <2>4. CASE ~Calm /\ Panics(g) /\ UNCHANGED guarded
    BY <2>1, <2>4, PanicsShape DEF Steps, Dies
  <2>5. CASE /\ UNCHANGED outMu /\ guarded' = [guarded EXCEPT ![g].panics = @ + 1]
             /\ Calls(g, "recovery", "span", Frame("guard", "count")) /\ UNCHANGED process
    BY <2>1, <2>5 DEF Steps, Raises
  <2>6. CASE /\ UNCHANGED outMu /\ guarded' = [guarded EXCEPT ![g].panics = @ + 1]
             /\ process' = "overflow" /\ UNCHANGED stack /\ ~(Depth(g) < MaxStack)
    BY <2>1, <2>6 DEF Steps, Dies
  <2> QED  BY <2>1, <2>3, <2>4, <2>5, <2>6, MetricShape
<1>3. CASE RecordSpan(g)
  <2>1. /\ At(g, "recovery", "span") /\ Frame("recovery", "error") \in Frames
        /\ Becomes(g, Moved(g, "error")) /\ UNCHANGED <<outMu, process, guarded>>
    BY <1>3, KnownFrames DEF RecordSpan, NextReport
  <2> QED  BY <2>1, GoesShape DEF Steps, StepsOn
<1>4. CASE ReportError(g)
  <2>1. /\ At(g, "recovery", "error") /\ Frame("recovery", "policy") \in Frames
        /\ Becomes(g, Moved(g, "policy")) /\ UNCHANGED <<outMu, process, guarded>>
    BY <1>4, KnownFrames DEF ReportError, CaptureException, NextReport
  <2> QED  BY <2>1, GoesShape DEF Steps, StepsOn
<1>5. CASE ApplyPolicy(g)
  <2>1. /\ At(g, "recovery", "policy") /\ UNCHANGED <<outMu, guarded>>
        /\ \/ setup.policy[g] = "CrashProcess" /\ process' = "policy" /\ UNCHANGED stack
           \/ Becomes(g, <<>>) /\ UNCHANGED process
    BY <1>5 DEF ApplyPolicy, KeepRunning
  <2>2. ControlType /\ GoodStack(stack[g])  BY <2>1, AtFacts
  <2> QED  BY <2>1, <2>2, EmptyShape DEF Steps, Ends, Dies
<1> QED  BY <1>1, <1>2, <1>3, <1>4, <1>5 DEF Recovery

\* A guard reports a logger's panic, a line goes where the stdlib logger writes.
LEMMA GuardSteps ==
  ASSUME IInv, NEW g \in Goroutines, FrameInv(g), Guard(g)
  PROVE  \E kind \in {"guard", "print"} : \E from : At(g, kind, from) /\ Steps(g, kind, from)
<1>1. CASE GuardCounts(g)
  <2>1. /\ At(g, "guard", "count") /\ Frame("guard", "span") \in Frames
        /\ \/ /\ Becomes(g, Moved(g, "span"))
              /\ UNCHANGED <<outMu, process, guarded>>
           \/ RecordPanicMetric(g, Moved(g, "span"))
    BY <1>1, KnownFrames DEF GuardCounts, NextStep
  <2>2. CASE Goes(g, "guard", "span") /\ UNCHANGED <<outMu, process, guarded>>
    BY <2>1, <2>2 DEF Steps, StepsOn
  <2>3. CASE ~Calm /\ Panics(g) /\ UNCHANGED guarded
    BY <2>1, <2>3, PanicsShape DEF Steps, Leaves
  <2>4. CASE /\ ~Calm /\ UNCHANGED outMu /\ guarded' = [guarded EXCEPT ![g].panics = @ + 1]
             /\ Calls(g, "guard", "span", Frame("guard", "count")) /\ UNCHANGED process
    BY <2>1, <2>4 DEF Steps, Raises
  <2>5. CASE /\ ~Calm /\ UNCHANGED outMu /\ guarded' = [guarded EXCEPT ![g].panics = @ + 1]
             /\ process' = "overflow" /\ UNCHANGED stack /\ ~(Depth(g) < MaxStack)
    BY <2>1, <2>5 DEF Steps, Dies
  <2> QED  BY <2>1, <2>2, <2>3, <2>4, <2>5, GoesShape, MetricShape
<1>2. CASE GuardTraces(g)
  <2>1. /\ At(g, "guard", "span") /\ Frame("guard", "fallback") \in Frames
        /\ Becomes(g, Moved(g, "fallback")) /\ UNCHANGED <<outMu, process>>
        /\ guarded' = [guarded EXCEPT ![g].traced = @ + 1]
    BY <1>2, KnownFrames DEF GuardTraces, NextStep
  <2> QED  BY <2>1, GoesShape DEF Steps, StepsOn
<1>3. CASE GuardFallsBack(g)
  <2>1. At(g, "guard", "fallback") /\ UNCHANGED guarded /\ outMu = None
    BY <1>3 DEF GuardFallsBack
  <2>2. Depth(g) \in 1..Depth(g)  BY <2>1, Stands
  <2>3. CASE Becomes(g, Returned(g)) /\ UNCHANGED <<outMu, process>>
    BY <2>1, <2>2, <2>3, DropsShape DEF Returned, Steps, Leaves
  <2>4. CASE Panics(g)  BY <2>1, <2>4, PanicsShape DEF Steps, Leaves
  <2>5. CASE outMu' = g /\ Pushed(g, Moved(g, "return"), Frame("print", "write"))
    <3>1. Frame("guard", "return") \in Frames /\ Frame("print", "write") \in Frames
      BY KnownFrames
    <3>2. \/ Calls(g, "guard", "return", Frame("print", "write")) /\ UNCHANGED process
          \/ process' = "overflow" /\ UNCHANGED stack /\ ~(Depth(g) < MaxStack)
      BY <2>1, <2>5, <3>1, CallsShape
    <3> QED  BY <2>1, <2>5, <3>2 DEF Steps, Prints, Dies
  <2> QED  BY <1>3, <2>3, <2>4, <2>5 DEF GuardFallsBack
<1>4. CASE GuardReturns(g)
  <2>1. At(g, "guard", "return") /\ Becomes(g, Returned(g)) /\ UNCHANGED <<outMu, process, guarded>>
    BY <1>4 DEF GuardReturns
  <2>2. Depth(g) \in 1..Depth(g)  BY <2>1, Stands
  <2> QED  BY <2>1, <2>2, DropsShape DEF Returned, Steps, Leaves
<1>5. CASE PrintWrites(g)
  <2>1. /\ At(g, "print", "write") /\ Frame("print", "written") \in Frames
        /\ CallLogger(g, "adapted", Moved(g, "written"))
    BY <1>5, KnownFrames DEF PrintWrites
  <2>3. CASE Goes(g, "print", "written") /\ UNCHANGED <<outMu, process, guarded>>
    BY <2>1, <2>3 DEF Steps, StepsOn
  <2>5. CASE /\ UNCHANGED outMu /\ guarded' = [guarded EXCEPT ![g].panics = @ + 1]
             /\ Calls(g, "print", "written", Frame("guard", "count")) /\ UNCHANGED process
    BY <2>1, <2>5 DEF Steps, Raises
  <2>6. CASE /\ UNCHANGED outMu /\ guarded' = [guarded EXCEPT ![g].panics = @ + 1]
             /\ process' = "overflow" /\ UNCHANGED stack /\ ~(Depth(g) < MaxStack)
    BY <2>1, <2>6 DEF Steps, Dies
  <2> QED  BY <2>1, <2>3, <2>5, <2>6, LoggerShape
<1>6. CASE PrintReturns(g)
  <2>1. /\ At(g, "print", "written") /\ Becomes(g, Returned(g)) /\ UNCHANGED <<process, guarded>>
        /\ outMu' = None
    BY <1>6 DEF PrintReturns
  <2>2. Depth(g) \in 1..Depth(g)  BY <2>1, Stands
  <2> QED  BY <2>1, <2>2, DropsShape DEF Returned, Steps, Leaves
<1> QED  BY <1>1, <1>2, <1>3, <1>4, <1>5, <1>6 DEF Guard

-----------------------------------------------------------------------------
(* What these steps keep                                                   *)

\* Which frames there are after each shape of a step.
LEMMA KindsAfter ==
  ASSUME NEW g \in Goroutines, Depth(g) \in Nat, Depth(g) >= 1,
         NEW kind, stack[g][Depth(g)].kind = kind
  PROVE  /\ \A at : Goes(g, kind, at) => \A k : Kinds(g, k)' = Kinds(g, k)
         /\ \A at, f : Calls(g, kind, at, f) =>
              \A k : /\ f.kind = k => Kinds(g, k)' = Kinds(g, k) \cup {Depth(g) + 1}
                     /\ f.kind # k => Kinds(g, k)' = Kinds(g, k)
         /\ Drops(g, Depth(g) - 1) => \A k : Kinds(g, k)' = Kinds(g, k) \ {Depth(g)}
         /\ Drops(g, 0) => \A k : Kinds(g, k)' = {}
         /\ Turned(g) => \A k : Kinds(g, k)' = IF k = "recovery" THEN {1} ELSE {}
         /\ UNCHANGED stack => \A k : Kinds(g, k)' = Kinds(g, k)
<1>1. \A k, i : i \in Kinds(g, k)' <=> i \in 1..Len(stack'[g]) /\ stack'[g][i].kind = k
  BY DEF Kinds, Depth
<1>2. \A k, i : i \in Kinds(g, k) <=> i \in 1..Depth(g) /\ stack[g][i].kind = k
  BY DEF Kinds
<1>3. ASSUME NEW at, Goes(g, kind, at), NEW k
      PROVE  Kinds(g, k)' = Kinds(g, k)
  <2>1. \A i : i \in 1..Depth(g) => stack'[g][i].kind = stack[g][i].kind
    BY <1>3, FrameFields DEF Goes, Under
  <2>2. Len(stack'[g]) = Depth(g)  BY <1>3 DEF Goes
  <2>3. \A i : i \in Kinds(g, k)' <=> i \in Kinds(g, k)  BY <1>1, <1>2, <2>1, <2>2
  <2> QED  BY <2>3
<1>4. ASSUME NEW at, NEW f, Calls(g, kind, at, f), NEW k
      PROVE  /\ f.kind = k => Kinds(g, k)' = Kinds(g, k) \cup {Depth(g) + 1}
             /\ f.kind # k => Kinds(g, k)' = Kinds(g, k)
  <2>1. \A i : i \in 1..Depth(g) => stack'[g][i].kind = stack[g][i].kind
    BY <1>4, FrameFields DEF Calls, Under
  <2>2. Len(stack'[g]) = Depth(g) + 1 /\ stack'[g][Depth(g) + 1].kind = f.kind
    BY <1>4 DEF Calls
  <2>3. \A i : i \in Kinds(g, k)'
                 <=> i \in Kinds(g, k) \/ (i = Depth(g) + 1 /\ f.kind = k)
    <3> SUFFICES ASSUME NEW i
                 PROVE  i \in Kinds(g, k)'
                          <=> i \in Kinds(g, k) \/ (i = Depth(g) + 1 /\ f.kind = k)
      OBVIOUS
    <3>1. i \in 1..Len(stack'[g]) <=> i \in 1..Depth(g) \/ i = Depth(g) + 1  BY <2>2
    <3>2. Depth(g) + 1 \notin 1..Depth(g)  OBVIOUS
    <3>3. CASE i \in 1..Depth(g)
      <4>1. stack'[g][i].kind = stack[g][i].kind  BY <2>1, <3>3
      <4> QED  BY <1>1, <1>2, <3>1, <3>2, <3>3, <4>1
    <3>4. CASE i = Depth(g) + 1  BY <1>1, <1>2, <2>2, <3>1, <3>2, <3>4
    <3>5. CASE i \notin 1..Depth(g) /\ i # Depth(g) + 1  BY <1>1, <1>2, <3>1, <3>5
    <3> QED  BY <3>3, <3>4, <3>5
  <2> QED  BY <2>3
<1>5. ASSUME Drops(g, Depth(g) - 1), NEW k
      PROVE  Kinds(g, k)' = Kinds(g, k) \ {Depth(g)}
  <2>1. \A i : i \in 1..(Depth(g) - 1) => stack'[g][i] = stack[g][i]
    BY <1>5 DEF Drops, Under
  <2>2. Len(stack'[g]) = Depth(g) - 1  BY <1>5 DEF Drops
  <2>3. \A i : i \in Kinds(g, k)' <=> i \in Kinds(g, k) /\ i # Depth(g)
    BY <1>1, <1>2, <2>1, <2>2
  <2> QED  BY <2>3
<1>6. ASSUME Drops(g, 0), NEW k PROVE Kinds(g, k)' = {}  BY <1>1, <1>6 DEF Drops
<1>7. ASSUME Turned(g), NEW k PROVE Kinds(g, k)' = IF k = "recovery" THEN {1} ELSE {}
  <2>1. Len(stack'[g]) = 1 /\ stack'[g][1].kind = "recovery"
    BY <1>7, FrameFields DEF Turned
  <2>2. \A i : i \in Kinds(g, k)' <=> i = 1 /\ k = "recovery"  BY <1>1, <2>1
  <2> QED  BY <2>2
<1>8. ASSUME UNCHANGED stack, NEW k PROVE Kinds(g, k)' = Kinds(g, k)
  BY <1>8 DEF Kinds, Depth
<1> QED  BY <1>3, <1>4, <1>5, <1>6, <1>7, <1>8

\* Reports of panics leave the frame of a failed assertion, and what is below it.
LEMMA AssertKept ==
  ASSUME IInv, NEW g \in Goroutines, FrameInv(g),
         NEW kind \in {"callback", "recovery", "guard", "print"}, NEW from,
         At(g, kind, from), Steps(g, kind, from)
  PROVE  /\ Kinds(g, "assert")' = Kinds(g, "assert")
         /\ \A i \in Kinds(g, "assert") :
              stack'[g][i] = stack[g][i] /\ stack'[g][1] = stack[g][1]
<1>1. /\ Depth(g) \in Nat /\ Depth(g) >= 1
      /\ kind \in {"callback", "recovery"} <=> Depth(g) = 1
      /\ stack[g][Depth(g)].kind = kind
      /\ \A i \in 1..Depth(g) : stack[g][i].kind \in {"callback", "recovery"} <=> i = 1
  BY Stands
<1>2. \A i \in Kinds(g, "assert") : i \in 1..(Depth(g) - 1) /\ 1 \in 1..(Depth(g) - 1)
  BY <1>1 DEF Kinds, FrameInv
<1>3. ASSUME NEW at, Goes(g, kind, at)
      PROVE  /\ Kinds(g, "assert")' = Kinds(g, "assert")
             /\ \A i \in 1..(Depth(g) - 1) : stack'[g][i] = stack[g][i]
  BY <1>1, <1>3, KindsAfter DEF Goes, Under
<1>4. ASSUME NEW at, NEW f, Calls(g, kind, at, f), f.kind # "assert"
      PROVE  /\ Kinds(g, "assert")' = Kinds(g, "assert")
             /\ \A i \in 1..(Depth(g) - 1) : stack'[g][i] = stack[g][i]
  <2>1. Kinds(g, "assert")' = Kinds(g, "assert")  BY <1>1, <1>4, KindsAfter
  <2> QED  BY <2>1, <1>4 DEF Calls, Under
<1>5. ASSUME Drops(g, Depth(g) - 1)
      PROVE  /\ Kinds(g, "assert")' = Kinds(g, "assert")
             /\ \A i \in 1..(Depth(g) - 1) : stack'[g][i] = stack[g][i]
  <2>1. Kinds(g, "assert")' = Kinds(g, "assert") \ {Depth(g)}  BY <1>1, <1>5, KindsAfter
  <2>2. Depth(g) \notin Kinds(g, "assert")  BY <1>1 DEF Kinds
  <2> QED  BY <1>5, <2>1, <2>2 DEF Drops, Under
<1>6. CASE Depth(g) = 1 /\ (Drops(g, 0) \/ Turned(g))
  <2>1. Kinds(g, "assert") = {}  BY <1>2, <1>6
  <2>2. Kinds(g, "assert")' = {}  BY <1>1, <1>6, KindsAfter
  <2> QED  BY <2>1, <2>2
<1>7. CASE UNCHANGED stack  BY <1>1, <1>7, KindsAfter
<1>8. Frame("guard", "count").kind # "assert" /\ Frame("print", "write").kind # "assert"
  BY FrameFields
<1>9. CASE StepsOn(g, kind, from)  BY <1>2, <1>3, <1>9 DEF StepsOn
<1>10. CASE Raises(g, kind)  BY <1>2, <1>4, <1>8, <1>10 DEF Raises
<1>11. CASE Prints(g, kind, from)  BY <1>2, <1>4, <1>8, <1>11 DEF Prints
<1>12. CASE Leaves(g, kind, from)  BY <1>2, <1>5, <1>12 DEF Leaves
<1>13. CASE Ends(g, kind)  BY <1>1, <1>6, <1>13 DEF Ends
<1>14. CASE Unwinds(g, kind)  BY <1>1, <1>6, <1>14 DEF Unwinds
<1>15. CASE Dies(g, kind, from)  BY <1>7, <1>15 DEF Dies
<1> QED  BY <1>9, <1>10, <1>11, <1>12, <1>13, <1>14, <1>15 DEF Steps

\* So it stays right above its callback.
LEMMA FrameKept ==
  ASSUME IInv, NEW g \in Goroutines, FrameInv(g),
         NEW kind \in {"callback", "recovery", "guard", "print"}, NEW from,
         At(g, kind, from), Steps(g, kind, from)
  PROVE  FrameInv(g)'
<1>1. /\ Kinds(g, "assert")' = Kinds(g, "assert")
      /\ \A i \in Kinds(g, "assert") : stack'[g][1] = stack[g][1]
  BY AssertKept
<1>2. \A i \in Kinds(g, "assert")' : i = 2 /\ stack'[g][1] = Frame("callback", "work")
  BY <1>1 DEF FrameInv
<1> QED  BY <1>2 DEF FrameInv, Frame

\* One line at a time goes through the stdlib logger, from reports at the bottom.
LEMMA NestKept ==
  ASSUME IInv, NEW g \in Goroutines, FrameInv(g), NestInv(g), UNCHANGED setup,
         NEW kind \in {"callback", "recovery", "assert", "guard", "print"}, NEW from,
         At(g, kind, from), Steps(g, kind, from)
  PROVE  NestInv(g)'
<1> SUFFICES ASSUME Calm
             PROVE  /\ \A i \in Kinds(g, "print")' :
                         i <= 4 /\ outMu' = g /\ \A j \in Kinds(g, "print")' : i = j
                    /\ \A i \in Kinds(g, "guard")' : i <= 3 \/ \E j \in Kinds(g, "print")' : j < i
  BY DEF NestInv, Calm
<1>1. /\ Depth(g) \in Nat /\ Depth(g) >= 1
      /\ kind \in {"callback", "recovery"} <=> Depth(g) = 1
      /\ kind = "assert" => Depth(g) = 2
      /\ stack[g][Depth(g)].kind = kind
  BY Stands
<1>2. /\ \A i \in Kinds(g, "print") :
           i <= 4 /\ outMu = g /\ \A j \in Kinds(g, "print") : i = j
      /\ \A i \in Kinds(g, "guard") : i <= 3 \/ \E j \in Kinds(g, "print") : j < i
  BY DEF NestInv
<1>3. CASE StepsOn(g, kind, from)
  <2>1. PICK at : Goes(g, kind, at)  BY <1>3 DEF StepsOn
  <2>2. /\ Kinds(g, "print")' = Kinds(g, "print") /\ Kinds(g, "guard")' = Kinds(g, "guard")
    BY <1>1, <2>1, KindsAfter
  <2> QED  BY <1>2, <1>3, <2>2 DEF StepsOn
<1>4. CASE Raises(g, kind)
  <2>1. PICK at : Calls(g, kind, at, Frame("guard", "count"))  BY <1>4 DEF Raises
  <2> DEFINE f == Frame("guard", "count")
  <2>5. Calls(g, kind, at, f) /\ f.kind = "guard"  BY <2>1, FrameFields
  <2> HIDE DEF f
  <2>2. /\ Kinds(g, "print")' = Kinds(g, "print")
        /\ Kinds(g, "guard")' = Kinds(g, "guard") \cup {Depth(g) + 1}
    BY <1>1, <2>5, KindsAfter
  <2>3. Depth(g) + 1 <= 3 \/ \E j \in Kinds(g, "print") : j < Depth(g) + 1
    BY <1>1, <1>4 DEF Raises, Kinds
  <2> QED  BY <1>2, <1>4, <2>2, <2>3 DEF Raises
<1>5. CASE Prints(g, kind, from)
  <2>1. /\ Calls(g, kind, "return", Frame("print", "write")) /\ kind = "guard"
        /\ outMu = None /\ outMu' = g
    BY <1>5 DEF Prints
  <2> DEFINE f == Frame("print", "write")
  <2>5. Calls(g, kind, "return", f) /\ f.kind = "print"  BY <2>1, FrameFields
  <2> HIDE DEF f
  <2>2. /\ Kinds(g, "print")' = Kinds(g, "print") \cup {Depth(g) + 1}
        /\ Kinds(g, "guard")' = Kinds(g, "guard")
    BY <1>1, <2>5, KindsAfter
  <2>3. Kinds(g, "print") = {}  BY <1>2, <2>1, NoneAssumption
  <2>4. Depth(g) <= 3  BY <1>1, <1>2, <2>1, <2>3 DEF Kinds
  <2> QED  BY <1>1, <1>2, <2>1, <2>2, <2>3, <2>4
<1>6. CASE Leaves(g, kind, from)
  <2>1. /\ Kinds(g, "print")' = Kinds(g, "print") \ {Depth(g)}
        /\ Kinds(g, "guard")' = Kinds(g, "guard") \ {Depth(g)}
    BY <1>1, <1>6, KindsAfter DEF Leaves
  <2>2. CASE kind = "guard"
    <3>1. Depth(g) \notin Kinds(g, "print")  BY <1>1, <2>2 DEF Kinds
    <3>2. outMu' = outMu \/ Kinds(g, "print") = {}
      BY <1>1, <1>6, <2>2, <3>1 DEF Leaves, Kinds
    <3> QED  BY <1>2, <2>1, <3>1, <3>2
  <2>3. CASE kind = "print"
    <3>1. Kinds(g, "print") = {Depth(g)}  BY <1>1, <1>2, <2>3 DEF Kinds
    <3>2. \A i \in Kinds(g, "guard") : i \in Nat /\ i <= Depth(g)  BY <1>1 DEF Kinds
    <3>3. \A i \in Kinds(g, "guard") : i <= 3  BY <1>1, <1>2, <3>1, <3>2
    <3>4. Kinds(g, "print")' = {}  BY <2>1, <3>1
    <3> QED  BY <2>1, <3>3, <3>4
  <2>4. CASE kind = "assert"
    <3>1. Depth(g) \notin Kinds(g, "print")  BY <1>1, <2>4 DEF Kinds
    <3> QED  BY <1>2, <1>6, <2>1, <2>4, <3>1 DEF Leaves
  <2> QED  BY <1>6, <2>2, <2>3, <2>4 DEF Leaves
<1>7. CASE Ends(g, kind) \/ Unwinds(g, kind)
  <2>1. Kinds(g, "print")' = {} /\ Kinds(g, "guard")' = {}
    BY <1>1, <1>7, KindsAfter DEF Ends, Unwinds
  <2> QED  BY <2>1
<1>8. CASE Dies(g, kind, from)
  <2>1. /\ Kinds(g, "print")' = Kinds(g, "print") /\ Kinds(g, "guard")' = Kinds(g, "guard")
    BY <1>1, <1>8, KindsAfter DEF Dies
  <2>2. outMu' = outMu \/ outMu' = g  BY <1>8 DEF Dies
  <2> QED  BY <1>2, <2>1, <2>2
<1> QED  BY <1>3, <1>4, <1>5, <1>6, <1>7, <1>8 DEF Steps

\* Five frames are room enough for all there is to report.
LEMMA RoomForAll ==
  ASSUME IInv, NEW g \in Goroutines, FrameInv(g), NestInv(g), Calm, Roomy,
         NEW kind \in {"callback", "recovery", "assert", "guard", "print"}, NEW from,
         At(g, kind, from), Dies(g, kind, from)
  PROVE  process' # "overflow"
<1> SUFFICES ASSUME process' = "overflow" PROVE FALSE  OBVIOUS
<1>1. /\ Depth(g) \in Nat /\ Depth(g) >= 1
      /\ kind \in {"callback", "recovery"} <=> Depth(g) = 1
      /\ kind = "assert" => Depth(g) = 2
      /\ stack[g][Depth(g)].kind = kind
  BY Stands
<1>2. ~(Depth(g) < MaxStack) /\ (kind = "guard" => outMu = None)  BY DEF Dies
<1>3. Depth(g) >= 5  BY <1>1, <1>2, PanicAssumption DEF Roomy
<1>4. CASE kind = "print"  BY <1>1, <1>3, <1>4 DEF NestInv, Kinds
<1>5. CASE kind = "guard"
  <2>1. Kinds(g, "print") = {}  BY <1>2, <1>5, NoneAssumption DEF NestInv
  <2> QED  BY <1>1, <1>3, <1>5, <2>1 DEF NestInv, Kinds
<1> QED  BY <1>1, <1>3, <1>4, <1>5

\* What is recovered goes on the span, and only the innermost report has yet to.
LEMMA TraceKept ==
  ASSUME IInv, NEW g \in Goroutines, FrameInv(g), NestInv(g), TraceInv(g), UNCHANGED setup,
         NEW kind \in {"callback", "recovery", "assert", "guard", "print"}, NEW from,
         At(g, kind, from), Steps(g, kind, from)
  PROVE  TraceInv(g)'
<1> DEFINE Owed(d, s) == IF d > 0 /\ Pending(s[d]) THEN 1 ELSE 0
<1> SUFFICES ASSUME Roomy, setup.recorder = "sound"
             PROVE  /\ \A i \in 1..(Len(stack'[g]) - 1) : ~Pending(stack'[g][i])
                    /\ guarded'[g].panics = guarded'[g].traced + Owed(Len(stack'[g]), stack'[g])
  BY DEF TraceInv, Pending, Top, Depth, Roomy
<1>1. /\ Depth(g) \in Nat /\ Depth(g) >= 1
      /\ kind \in {"callback", "recovery"} <=> Depth(g) = 1
      /\ kind = "assert" => Depth(g) = 2
      /\ stack[g][Depth(g)].kind = kind /\ stack[g][Depth(g)].at = from
      /\ \A i \in 1..Depth(g) : stack[g][i].kind \in {"callback", "recovery"} <=> i = 1
  BY Stands
<1>2. /\ \A i \in 1..(Depth(g) - 1) : ~Pending(stack[g][i])
      /\ guarded[g].panics = guarded[g].traced + Owed(Depth(g), stack[g])
  BY DEF TraceInv, Top
<1>3. Owed(Depth(g), stack[g]) = IF kind = "guard" /\ from \in {"count", "span"} THEN 1 ELSE 0
  BY <1>1 DEF Pending
<1>4. Calm  BY DEF Calm
<1>5. /\ guarded \in [Goroutines -> [panics : Nat, traced : Nat]]
      /\ guarded[g].panics \in Nat /\ guarded[g].traced \in Nat
  BY DEF IInv, TypeOK
<1>6. CASE StepsOn(g, kind, from)
  <2>1. ASSUME NEW at, Goes(g, kind, at)
        PROVE  /\ \A i \in 1..(Len(stack'[g]) - 1) : ~Pending(stack'[g][i])
               /\ Owed(Len(stack'[g]), stack'[g])
                    = IF kind = "guard" /\ at \in {"count", "span"} THEN 1 ELSE 0
    BY <1>1, <1>2, <2>1, FrameFields DEF Goes, Under, Pending
  <2>2. CASE kind # "guard"  BY <1>2, <1>3, <1>6, <2>1, <2>2 DEF StepsOn
  <2>3. CASE kind = "guard" /\ from = "count"  BY <1>2, <1>3, <1>6, <2>1, <2>3 DEF StepsOn
  <2>4. CASE kind = "guard" /\ from = "span"
    <3>1. guarded' = [guarded EXCEPT ![g].traced = @ + 1] /\ Goes(g, kind, "fallback")
      BY <1>6, <2>4 DEF StepsOn
    <3>2. guarded'[g].traced = guarded[g].traced + 1 /\ guarded'[g].panics = guarded[g].panics
      BY <1>5, <3>1
    <3> QED  BY <1>2, <1>3, <1>5, <2>1, <2>4, <3>1, <3>2
  <2> QED  BY <1>6, <2>2, <2>3, <2>4 DEF StepsOn
<1>7. CASE Raises(g, kind)
  <2>1. PICK at : Calls(g, kind, at, Frame("guard", "count"))  BY <1>7 DEF Raises
  <2>2. kind # "guard" /\ guarded' = [guarded EXCEPT ![g].panics = @ + 1]
    BY <1>4, <1>7 DEF Raises
  <2>3. guarded'[g].panics = guarded[g].panics + 1 /\ guarded'[g].traced = guarded[g].traced
    BY <1>5, <2>2
  <2>4. /\ \A i \in 1..(Len(stack'[g]) - 1) : ~Pending(stack'[g][i])
        /\ Owed(Len(stack'[g]), stack'[g]) = 1
    <3>1. /\ Len(stack'[g]) = Depth(g) + 1
          /\ stack'[g][Depth(g) + 1] = Frame("guard", "count")
          /\ stack'[g][Depth(g)] = Frame(kind, at)
          /\ \A i \in 1..(Depth(g) - 1) : stack'[g][i] = stack[g][i]
      BY <2>1 DEF Calls, Under
    <3>2. ~Pending(Frame(kind, at)) /\ Pending(Frame("guard", "count"))
      BY <2>2, FrameFields DEF Pending
    <3>3. ASSUME NEW i \in 1..Depth(g) PROVE ~Pending(stack'[g][i])
      <4>1. CASE i = Depth(g)  BY <3>1, <3>2, <4>1
      <4>2. CASE i # Depth(g)
        <5>1. i \in 1..(Depth(g) - 1)  BY <1>1, <4>2
        <5>2. stack'[g][i] = stack[g][i] /\ ~Pending(stack[g][i])  BY <1>2, <3>1, <5>1
        <5> QED  BY <5>2
      <4> QED  BY <4>1, <4>2
    <3>4. Len(stack'[g]) - 1 = Depth(g) /\ Len(stack'[g]) > 0  BY <1>1, <3>1
    <3>5. Owed(Len(stack'[g]), stack'[g]) = 1  BY <3>1, <3>2, <3>4
    <3> HIDE DEF Owed
    <3> QED  BY <3>3, <3>4, <3>5
  <2> QED  BY <1>2, <1>3, <1>5, <2>2, <2>3, <2>4
<1>8. CASE Prints(g, kind, from)
  <2>1. /\ \A i \in 1..(Len(stack'[g]) - 1) : ~Pending(stack'[g][i])
        /\ Owed(Len(stack'[g]), stack'[g]) = 0
    <3>1. /\ Len(stack'[g]) = Depth(g) + 1 /\ stack'[g][Depth(g) + 1] = Frame("print", "write")
          /\ stack'[g][Depth(g)] = Frame("guard", "return")
          /\ \A i \in 1..(Depth(g) - 1) : stack'[g][i] = stack[g][i]
      BY <1>8 DEF Prints, Calls, Under
    <3>2. ~Pending(Frame("print", "write")) /\ ~Pending(Frame("guard", "return"))
      BY FrameFields DEF Pending
    <3>3. ASSUME NEW i \in 1..Depth(g) PROVE ~Pending(stack'[g][i])
      <4>1. CASE i = Depth(g)  BY <3>1, <3>2, <4>1
      <4>2. CASE i # Depth(g)
        <5>1. i \in 1..(Depth(g) - 1)  BY <1>1, <4>2
        <5>2. stack'[g][i] = stack[g][i] /\ ~Pending(stack[g][i])  BY <1>2, <3>1, <5>1
        <5> QED  BY <5>2
      <4> QED  BY <4>1, <4>2
    <3> QED  BY <1>1, <3>1, <3>2, <3>3
  <2> QED  BY <1>2, <1>3, <1>5, <1>8, <2>1 DEF Prints
<1>9. CASE Leaves(g, kind, from)
  <2>1. /\ \A i \in 1..(Len(stack'[g]) - 1) : ~Pending(stack'[g][i])
        /\ Owed(Len(stack'[g]), stack'[g]) = 0
    <3>1. /\ Len(stack'[g]) = Depth(g) - 1
          /\ \A i \in 1..(Depth(g) - 1) : stack'[g][i] = stack[g][i]
      BY <1>9 DEF Leaves, Drops, Under
    <3>2. \A i \in 1..(Depth(g) - 1) : ~Pending(stack'[g][i])  BY <1>2, <3>1
    <3>3. Depth(g) - 1 > 0 => ~Pending(stack'[g][Depth(g) - 1])  BY <1>1, <3>2
    <3> QED  BY <1>1, <3>1, <3>2, <3>3
  <2>2. ~(kind = "guard" /\ from \in {"count", "span"}) /\ UNCHANGED guarded
    BY <1>4, <1>9 DEF Leaves
  <2> QED  BY <1>2, <1>3, <1>5, <2>1, <2>2
<1>10. CASE Ends(g, kind) \/ Unwinds(g, kind)
  <2>1. /\ \A i \in 1..(Len(stack'[g]) - 1) : ~Pending(stack'[g][i])
        /\ Owed(Len(stack'[g]), stack'[g]) = 0
    BY <1>10, FrameFields DEF Ends, Unwinds, Drops, Turned, Pending
  <2>2. kind # "guard" /\ UNCHANGED guarded  BY <1>10 DEF Ends, Unwinds
  <2> QED  BY <1>2, <1>3, <1>5, <2>1, <2>2
<1>11. CASE Dies(g, kind, from)
  <2>1. UNCHANGED <<stack, guarded>>  BY <1>4, <1>11, RoomForAll DEF Dies
  <2> QED  BY <1>2, <2>1 DEF Depth
<1> QED  BY <1>6, <1>7, <1>8, <1>9, <1>10, <1>11 DEF Steps

\* A recovery below what happens knows what it knew.
LEMMA SinkBelow ==
  ASSUME IInv, IInv', NEW g \in Goroutines, SinkInv(g), UNCHANGED <<setup, sinks>>,
         \/ stack'[g][1] = stack[g][1] /\ Base(stack[g]) = stack[g][1].kind
         \/ stack'[g][1].kind = "callback" \/ Len(stack'[g]) = 0
         \/ stack'[g][1] = Frame("recovery", "log")
  PROVE  SinkInv(g)'
<1> SUFFICES ASSUME Base(stack'[g]) = "recovery"
             PROVE  /\ stack'[g][1].at # "log" /\ setup.logger # "nil" => sinks[g].log # None
                    /\ stack'[g][1].at \in {"error", "policy"} => sinks[g].span = "full"
                    /\ stack'[g][1].at = "policy" /\ setup.reporter # "none" => sinks[g].error # None
  BY DEF SinkInv, Base
<1>1. stack'[g] # <<>> /\ stack'[g][1].kind = "recovery"  BY DEF Base
<1>2. stack'[g] \in Seq(Frames)  BY DEF IInv, TypeOK
<1>3. Len(stack'[g]) # 0  BY <1>1, <1>2, EmptySeq
<1>4. CASE stack'[g][1] = Frame("recovery", "log")
  <2>1. stack'[g][1].at = "log"  BY <1>4, FrameFields
  <2> QED  BY <2>1
<1>5. CASE stack'[g][1] = stack[g][1] /\ Base(stack[g]) = stack[g][1].kind
  BY <1>1, <1>5 DEF SinkInv
<1> QED  BY <1>1, <1>3, <1>4, <1>5

\* Reports and callbacks tell the sinks of a panic nothing.
LEMMA SinkKept ==
  ASSUME IInv, IInv', NEW g \in Goroutines, FrameInv(g), SinkInv(g), UNCHANGED <<setup, sinks>>,
         NEW kind \in {"callback", "assert", "guard", "print"}, NEW from,
         At(g, kind, from), Steps(g, kind, from)
  PROVE  SinkInv(g)'
<1>1. /\ Depth(g) \in Nat /\ Depth(g) >= 1
      /\ kind \in {"callback", "recovery"} <=> Depth(g) = 1
      /\ Base(stack[g]) = stack[g][1].kind
  BY Stands
<1>2. Frame(kind, from).kind = kind /\ \A at : Frame(kind, at).kind = kind  BY FrameFields
<1>3. kind # "callback" => 1 \in 1..(Depth(g) - 1)  BY <1>1
<1>4. ASSUME NEW at, Goes(g, kind, at) \/ \E f : Calls(g, kind, at, f)
      PROVE  stack'[g][1] = stack[g][1] \/ stack'[g][1].kind = "callback"
  BY <1>1, <1>2, <1>3, <1>4 DEF Goes, Calls, Under
<1>5. ASSUME Drops(g, Depth(g) - 1), kind # "callback" PROVE stack'[g][1] = stack[g][1]
  BY <1>3, <1>5 DEF Drops, Under
<1>6. CASE StepsOn(g, kind, from)  BY <1>1, <1>4, <1>6, SinkBelow DEF StepsOn
<1>7. CASE Raises(g, kind)  BY <1>1, <1>4, <1>7, SinkBelow DEF Raises
<1>8. CASE Prints(g, kind, from)  BY <1>1, <1>4, <1>8, SinkBelow DEF Prints
<1>9. CASE Leaves(g, kind, from)  BY <1>1, <1>5, <1>9, SinkBelow DEF Leaves
<1>10. CASE Ends(g, kind)  BY <1>10, SinkBelow DEF Ends, Drops
<1>11. CASE Unwinds(g, kind)  BY <1>11, SinkBelow DEF Unwinds, Turned
<1>12. CASE Dies(g, kind, from)  BY <1>1, <1>12, SinkBelow DEF Dies
<1> QED  BY <1>6, <1>7, <1>8, <1>9, <1>10, <1>11, <1>12 DEF Steps

\* A recovery tells a sink before it goes on to the next.
LEMMA SinkTold ==
  ASSUME IInv, IInv', NEW g \in Goroutines, FrameInv(g), SinkInv(g), Recovery(g)
  PROVE  SinkInv(g)'
<1> DEFINE Lands(at) == stack'[g][1] = Frame("recovery", at) \/ UNCHANGED stack
<1>0. UNCHANGED setup
  BY DEF Recovery, LogPanic, RecordMetric, RecordSpan, ReportError, ApplyPolicy, globals
<1>1. sinks \in [Goroutines -> SinkType]  BY DEF IInv, TypeOK, SinkType
<1>2. ASSUME NEW from, At(g, "recovery", from)
      PROVE  /\ Depth(g) = 1 /\ Base(stack[g]) = "recovery" /\ stack[g][1].at = from
             /\ stack[g][1].kind = "recovery"
  BY <1>2, Stands
<1>3. ASSUME NEW from, At(g, "recovery", from), NEW at,
             Goes(g, "recovery", at) \/ \E f : Calls(g, "recovery", at, f)
      PROVE  stack'[g][1] = Frame("recovery", at)
  BY <1>2, <1>3 DEF Goes, Calls
<1>4. ASSUME NEW at, stack'[g][1] = Frame("recovery", at)
      PROVE  stack'[g][1].at = at
  BY <1>4, FrameFields
<1>5. CASE LogPanic(g)
  <2>1. /\ At(g, "recovery", "log") /\ Frame("recovery", "metric") \in Frames
        /\ CallLogger(g, setup.logger, Moved(g, "metric"))
        /\ sinks' = [sinks EXCEPT ![g].log = IF setup.logger = "nil" THEN None ELSE Detail]
    BY <1>5, KnownFrames DEF LogPanic, NextReport
  <2>2. Lands("metric")
    BY <2>1, <1>3, LoggerShape, PanicsShape
  <2>3. setup.logger # "nil" => sinks'[g].log # None
    BY <1>1, <2>1 DEF Detail, None, SinkType
  <2>4. stack'[g][1].at \in {"log", "metric"}  BY <1>2, <1>4, <2>1, <2>2
  <2> QED  BY <1>0, <2>3, <2>4 DEF SinkInv
<1>6. CASE RecordMetric(g)
  <2>1. /\ At(g, "recovery", "metric") /\ Frame("recovery", "span") \in Frames
        /\ RecordPanicMetric(g, Moved(g, "span")) /\ UNCHANGED sinks
    BY <1>6, KnownFrames DEF RecordMetric, NextReport
  <2>2. Lands("span")  BY <2>1, <1>3, MetricShape, PanicsShape
  <2>3. setup.logger # "nil" => sinks[g].log # None  BY <1>2, <2>1 DEF SinkInv
  <2>4. stack'[g][1].at \in {"metric", "span"}  BY <1>2, <1>4, <2>1, <2>2
  <2> QED  BY <1>0, <2>1, <2>3, <2>4 DEF SinkInv
<1>7. CASE RecordSpan(g)
  <2>1. /\ At(g, "recovery", "span") /\ Frame("recovery", "error") \in Frames
        /\ Becomes(g, Moved(g, "error"))
        /\ sinks' = [sinks EXCEPT ![g].span = "full"]
    BY <1>7, KnownFrames DEF RecordSpan, NextReport
  <2>2. Lands("error")  BY <2>1, <1>3, GoesShape
  <2>3. setup.logger # "nil" => sinks[g].log # None  BY <1>2, <2>1 DEF SinkInv
  <2>4. sinks'[g].span = "full" /\ sinks'[g].log = sinks[g].log  BY <1>1, <2>1 DEF SinkType
  <2>5. stack'[g][1].at \in {"span", "error"}  BY <1>2, <1>4, <2>1, <2>2
  <2> QED  BY <1>0, <2>3, <2>4, <2>5 DEF SinkInv
<1>8. CASE ReportError(g)
  <2>1. /\ At(g, "recovery", "error") /\ Frame("recovery", "policy") \in Frames
        /\ Becomes(g, Moved(g, "policy"))
        /\ sinks' = [sinks EXCEPT ![g].error = IF setup.reporter = "none" THEN None ELSE Detail]
    BY <1>8, KnownFrames DEF ReportError, CaptureException, NextReport
  <2>2. (setup.logger # "nil" => sinks[g].log # None) /\ sinks[g].span = "full"
    BY <1>2, <2>1 DEF SinkInv
  <2>3. /\ sinks'[g].span = sinks[g].span /\ sinks'[g].log = sinks[g].log
        /\ setup.reporter # "none" => sinks'[g].error # None
    BY <1>1, <2>1 DEF SinkType, Detail, None
  <2> QED  BY <1>0, <2>2, <2>3 DEF SinkInv
<1>9. CASE ApplyPolicy(g)
  <2>1. /\ At(g, "recovery", "policy") /\ UNCHANGED sinks
        /\ UNCHANGED stack \/ Becomes(g, <<>>)
    BY <1>9 DEF ApplyPolicy, KeepRunning
  <2>2. ControlType /\ GoodStack(stack[g])  BY <2>1, AtFacts
  <2>3. UNCHANGED stack \/ Len(stack'[g]) = 0  BY <2>1, <2>2, EmptyShape DEF Drops
  <2> QED  BY <1>0, <1>2, <2>1, <2>3, SinkBelow
<1> QED  BY <1>5, <1>6, <1>7, <1>8, <1>9 DEF Recovery

\* Reports of panics leave a failed assertion as it is.
LEMMA FailureKept ==
  ASSUME IInv, NEW g \in Goroutines, FrameInv(g), FailureInv(g), UNCHANGED assertVars,
         NEW kind \in {"callback", "recovery", "guard", "print"}, NEW from,
         At(g, kind, from), Steps(g, kind, from)
  PROVE  FailureInv(g)'
<1>1. /\ Kinds(g, "assert")' = Kinds(g, "assert")
      /\ \A i \in Kinds(g, "assert") : stack'[g][i] = stack[g][i]
  BY AssertKept
<1>2. process = "up"  BY DEF At
<1>3. UNCHANGED <<asserter, failed>>  BY DEF assertVars
<1>4. \A at : Told(g, at)' <=> Told(g, at)  BY <1>3 DEF Told
<1>5. \A i \in Kinds(g, "assert")' : Told(g, stack[g][i].at)'
  BY <1>1, <1>2, <1>3 DEF FailureInv, Told
<1>6. Unguarded' <=> Unguarded  BY <1>3 DEF Unguarded
<1> QED  BY <1>1, <1>2, <1>3, <1>4, <1>5, <1>6 DEF FailureInv, NotFailed

\* What a goroutine does leaves the others' frames and sinks alone; and the output
\* lock, while another holds it.
LEMMA OthersKept ==
  ASSUME IInv, NEW g \in Goroutines, NEW h \in Goroutines, h # g, process = "up",
         FrameInv(h) /\ NestInv(h) /\ TraceInv(h) /\ SinkInv(h) /\ FailureInv(h),
         stack'[h] = stack[h], sinks'[h] = sinks[h], guarded'[h] = guarded[h],
         failed'[h] = failed[h], UNCHANGED <<setup, asserter>>,
         Calm => outMu' = outMu \/ outMu \in {g, None}
  PROVE  (FrameInv(h) /\ NestInv(h) /\ TraceInv(h) /\ SinkInv(h) /\ FailureInv(h))'
<1>1. \A k : Kinds(h, k)' = Kinds(h, k)  BY DEF Kinds, Depth
<1>2. FrameInv(h)'  BY <1>1 DEF FrameInv, Frame
<1>3. NestInv(h)'
  <2> SUFFICES ASSUME Calm
               PROVE  /\ \A i \in Kinds(h, "print") :
                           i <= 4 /\ outMu' = h /\ \A j \in Kinds(h, "print") : i = j
                      /\ \A i \in Kinds(h, "guard") : i <= 3 \/ \E j \in Kinds(h, "print") : j < i
    BY <1>1 DEF NestInv, Calm
  <2> QED  BY NoneAssumption DEF NestInv
<1>4. TraceInv(h)'
  <2>1. Depth(h)' = Depth(h) /\ Top(h)' = Top(h)  BY DEF Depth, Top
  <2> QED  BY <2>1 DEF TraceInv, Pending, Roomy
<1>5. SinkInv(h)'  BY DEF SinkInv, Base
<1>6. FailureInv(h)'
  <2>1. \A at : Told(h, at)' <=> Told(h, at)  BY DEF Told
  <2>2. \A i \in Kinds(h, "assert") : Told(h, stack[h][i].at)'  BY DEF FailureInv, Told
  <2>3. Unguarded' <=> Unguarded  BY DEF Unguarded
  <2> QED  BY <1>1, <2>1, <2>2, <2>3 DEF FailureInv, NotFailed
<1> QED  BY <1>2, <1>3, <1>4, <1>5, <1>6

\* How a step may leave the process.
Survives(g) ==
  \/ process' = "up"
  \/ process' = "overflow" /\ ~(Roomy /\ Calm)
  \/ process' = "unrecovered" /\ (setup.logger = "bare" \/ ~Calm)
  \/ /\ process' = "policy" /\ setup.policy[g] = "CrashProcess" /\ UNCHANGED stack
     /\ Base(stack[g]) = "recovery" /\ stack[g][1].at = "policy"

\* A step that keeps what is its goroutine's keeps it all.
LEMMA StepTells ==
  ASSUME TellInv, IInv', NEW g \in Goroutines, process = "up",
         (FrameInv(g) /\ NestInv(g) /\ TraceInv(g) /\ SinkInv(g) /\ FailureInv(g))',
         Apart(g), UNCHANGED <<setup, asserter>>, Survives(g),
         \A h \in Goroutines : h # g =>
           sinks'[h] = sinks[h] /\ guarded'[h] = guarded[h] /\ failed'[h] = failed[h],
         Calm => outMu' = outMu \/ outMu \in {g, None},
         failed' \in [Goroutines -> FailedType]
  PROVE  TellInv'
<1>1. ASSUME NEW h \in Goroutines
      PROVE  (FrameInv(h) /\ NestInv(h) /\ TraceInv(h) /\ SinkInv(h) /\ FailureInv(h))'
  <2>1. CASE h = g  BY <2>1
  <2>2. CASE h # g
    <3>1. IInv /\ FrameInv(h) /\ NestInv(h) /\ TraceInv(h) /\ SinkInv(h) /\ FailureInv(h)
      BY DEF TellInv
    <3>2. /\ stack'[h] = stack[h] /\ sinks'[h] = sinks[h]
          /\ guarded'[h] = guarded[h] /\ failed'[h] = failed[h]
      BY <2>2 DEF Apart
    <3> QED  BY <2>2, <3>1, <3>2, OthersKept
  <2> QED  BY <2>1, <2>2
<1>2. PolicyCrashIsReported'
  <2> SUFFICES ASSUME process' = "policy"
               PROVE  /\ setup'.policy[g] = "CrashProcess" /\ panicked'[g] /\ sinks'[g].span = "full"
                      /\ setup'.logger # "nil" => sinks'[g].log # None
                      /\ setup'.reporter # "none" => sinks'[g].error # None
    BY DEF PolicyCrashIsReported, None
  <2>1. /\ setup.policy[g] = "CrashProcess"
        /\ Base(stack[g]) = "recovery" /\ stack[g][1].at = "policy" /\ UNCHANGED stack
    BY DEF Survives
  <2>2. panicked'[g]  BY <2>1 DEF IInv, StackInv, Base
  <2>3. /\ sinks'[g].span = "full"
        /\ setup'.logger # "nil" => sinks'[g].log # None
        /\ setup'.reporter # "none" => sinks'[g].error # None
    BY <2>1 DEF SinkInv, Base, None
  <2> QED  BY <2>1, <2>2, <2>3
<1>3. Roomy => KeepRunningSurvives'
  BY DEF Survives, KeepRunningSurvives, Calm
<1>4. Roomy' <=> Roomy  BY DEF Roomy
<1> QED  BY <1>1, <1>2, <1>3, <1>4 DEF TellInv, FailedType

\* What a step within the known ways leaves of the rest.
LEMMA StepSides ==
  ASSUME IInv, NEW g \in Goroutines, FrameInv(g), NestInv(g),
         NEW kind \in {"callback", "recovery", "assert", "guard", "print"}, NEW from,
         At(g, kind, from), Steps(g, kind, from)
  PROVE  /\ Apart(g) /\ Survives(g)
         /\ \A h \in Goroutines : h # g => guarded'[h] = guarded[h]
         /\ Calm => outMu' = outMu \/ outMu \in {g, None}
<1>1. /\ process = "up" /\ Depth(g) \in Nat /\ Depth(g) >= 1
      /\ stack[g][Depth(g)].kind = kind /\ stack[g][Depth(g)].at = from
      /\ kind \in {"callback", "recovery"} <=> Depth(g) = 1
      /\ Base(stack[g]) = stack[g][1].kind
  BY Stands
<1>2. Apart(g)
  BY DEF Steps, StepsOn, Raises, Prints, Leaves, Ends, Unwinds, Turned, Dies, Goes, Calls,
         Drops, Apart
<1>3. \/ guarded' = guarded \/ guarded' = [guarded EXCEPT ![g].panics = @ + 1]
      \/ guarded' = [guarded EXCEPT ![g].traced = @ + 1]
  BY DEF Steps, StepsOn, Raises, Prints, Leaves, Ends, Unwinds, Dies
<1>4. \A h \in Goroutines : h # g => guarded'[h] = guarded[h]
  BY <1>3 DEF IInv, TypeOK
<1>5. Calm => outMu' = outMu \/ outMu \in {g, None}
  <2>1. CASE Leaves(g, kind, from)
    <3>1. kind = "print" => Depth(g) \in Kinds(g, "print")  BY <1>1 DEF Kinds
    <3> QED  BY <2>1, <3>1 DEF Leaves, NestInv
  <2> QED  BY <2>1 DEF Steps, StepsOn, Raises, Prints, Ends, Unwinds, Dies
<1>6. Survives(g)
  <2>1. CASE Dies(g, kind, from)
    <3>1. process' = "overflow" => ~(Roomy /\ Calm)  BY <2>1, RoomForAll
    <3> QED  BY <1>1, <2>1, <3>1 DEF Dies, Survives
  <2> QED  BY <1>1, <2>1 DEF Steps, StepsOn, Raises, Prints, Leaves, Ends, Unwinds, Survives
<1> QED  BY <1>2, <1>4, <1>5, <1>6

\* The steps of a panic and of its reports.
LEMMA GoroutineTells ==
  ASSUME TellInv, IInv', NEW g \in Goroutines, Goroutine(g), UNCHANGED assertVars
  PROVE  TellInv'
<1>0. /\ IInv /\ FrameInv(g) /\ NestInv(g) /\ TraceInv(g) /\ SinkInv(g) /\ FailureInv(g)
      /\ failed \in [Goroutines -> FailedType] /\ UNCHANGED <<asserter, failed>>
  BY DEF TellInv, assertVars
<1>1. UNCHANGED setup
  BY DEF Goroutine, Callback, CallbackLogs, CallbackReturns, CallbackPanics, Recovery, LogPanic,
         RecordMetric, RecordSpan, ReportError, ApplyPolicy, Guard, GuardCounts, GuardTraces,
         GuardFallsBack, GuardReturns, PrintWrites, PrintReturns, globals
<1>2. ASSUME NEW kind \in {"callback", "recovery", "guard", "print"}, NEW from,
             At(g, kind, from), Steps(g, kind, from), SinkInv(g)',
             \A h \in Goroutines : h # g => sinks'[h] = sinks[h]
      PROVE  TellInv'
  <2>1. (FrameInv(g) /\ NestInv(g) /\ TraceInv(g) /\ FailureInv(g))'
    BY <1>0, <1>1, <1>2, FrameKept, NestKept, TraceKept, FailureKept
  <2>2. /\ Apart(g) /\ Survives(g) /\ process = "up"
        /\ \A h \in Goroutines : h # g => guarded'[h] = guarded[h]
        /\ Calm => outMu' = outMu \/ outMu \in {g, None}
    BY <1>0, <1>2, StepSides DEF At
  <2>3. \A h \in Goroutines : h # g =>
          sinks'[h] = sinks[h] /\ guarded'[h] = guarded[h] /\ failed'[h] = failed[h]
    BY <1>0, <1>2, <2>2
  <2>4. failed' \in [Goroutines -> FailedType]  BY <1>0
  <2> QED  BY <1>0, <1>1, <1>2, <2>1, <2>2, <2>3, <2>4, StepTells
<1>3. CASE Recovery(g)
  <2>1. PICK from : At(g, "recovery", from) /\ Steps(g, "recovery", from)
    BY <1>0, <1>3, RecoverySteps
  <2>2. \A h \in Goroutines : h # g => sinks'[h] = sinks[h]
    BY <1>0, <1>3
    DEF Recovery, LogPanic, RecordMetric, RecordSpan, ReportError, ApplyPolicy, IInv, TypeOK
  <2>3. SinkInv(g)'  BY <1>0, <1>3, SinkTold
  <2> QED  BY <1>2, <2>1, <2>2, <2>3
<1>4. CASE Callback(g) \/ Guard(g)
  <2>1. PICK kind \in {"callback", "guard", "print"} :
          \E from : At(g, kind, from) /\ Steps(g, kind, from)
    BY <1>0, <1>4, CallbackSteps, GuardSteps
  <2>2. PICK from : At(g, kind, from) /\ Steps(g, kind, from)  BY <2>1
  <2>3. UNCHANGED sinks
    BY <1>4 DEF Callback, CallbackLogs, CallbackReturns, CallbackPanics, Guard, GuardCounts,
                GuardTraces, GuardFallsBack, GuardReturns, PrintWrites, PrintReturns
  <2>4. SinkInv(g)'  BY <1>0, <1>1, <2>2, <2>3, SinkKept
  <2> QED  BY <1>2, <2>2, <2>3, <2>4
<1> QED  BY <1>3, <1>4 DEF Goroutine

-----------------------------------------------------------------------------
(* The report of a failed assertion                                        *)

\* Its frame, wherever the report goes on to.
LEMMA AssertStands ==
  ASSUME IInv, NEW g \in Goroutines, FrameInv(g), NEW from, At(g, "assert", from)
  PROVE  /\ Kinds(g, "assert") = {2} /\ stack[g][2] = Frame("assert", from)
         /\ \A at : Goes(g, "assert", at) \/ Calls(g, "assert", at, Frame("guard", "count")) =>
              /\ Kinds(g, "assert")' = {2} /\ stack'[g][2] = Frame("assert", at)
              /\ stack'[g][1] = stack[g][1]
         /\ Drops(g, 1) \/ Drops(g, 0) \/ Turned(g) => Kinds(g, "assert")' = {}
         /\ UNCHANGED stack => Kinds(g, "assert")' = {2}
<1>1. /\ Depth(g) = 2 /\ stack[g][2] = Frame("assert", from) /\ stack[g][2].kind = "assert"
  BY Stands
<1>2. Kinds(g, "assert") = {2}  BY <1>1 DEF Kinds, FrameInv
<1>3. Frame("guard", "count").kind # "assert"  BY FrameFields
<1>4. ASSUME NEW at, Goes(g, "assert", at)
      PROVE  /\ Kinds(g, "assert")' = {2} /\ stack'[g][2] = Frame("assert", at)
             /\ stack'[g][1] = stack[g][1]
  <2>1. Kinds(g, "assert")' = {2}  BY <1>1, <1>2, <1>4, KindsAfter
  <2> QED  BY <1>1, <1>4, <2>1 DEF Goes, Under
<1>5. ASSUME NEW at, Calls(g, "assert", at, Frame("guard", "count"))
      PROVE  /\ Kinds(g, "assert")' = {2} /\ stack'[g][2] = Frame("assert", at)
             /\ stack'[g][1] = stack[g][1]
  <2> DEFINE f == Frame("guard", "count")
  <2>1. Calls(g, "assert", at, f) /\ f.kind # "assert"  BY <1>3, <1>5
  <2> HIDE DEF f
  <2>2. Depth(g) \in Nat /\ Depth(g) >= 1 /\ stack[g][Depth(g)].kind = "assert"  BY <1>1
  <2>3. Kinds(g, "assert")' = Kinds(g, "assert")  BY <2>1, <2>2, KindsAfter
  <2> QED  BY <1>1, <1>2, <2>1, <2>3 DEF Calls, Under
<1>6. Drops(g, 1) \/ Drops(g, 0) \/ Turned(g) => Kinds(g, "assert")' = {}
  BY <1>1, <1>2, KindsAfter
<1>7. UNCHANGED stack => Kinds(g, "assert")' = {2}  BY <1>1, <1>2, KindsAfter
<1> QED  BY <1>1, <1>2, <1>4, <1>5, <1>6, <1>7

\* All of the invariant but what the sinks of the assertion were told.
LEMMA AssertTells ==
  ASSUME TellInv, IInv', NEW g \in Goroutines, NEW from, At(g, "assert", from),
         Steps(g, "assert", from), FailureInv(g)', UNCHANGED <<setup, sinks, asserter>>,
         NEW r \in FailedType, failed' = [failed EXCEPT ![g] = r]
  PROVE  TellInv'
<1>0. /\ IInv /\ FrameInv(g) /\ NestInv(g) /\ TraceInv(g) /\ SinkInv(g)
      /\ failed \in [Goroutines -> FailedType]
  BY DEF TellInv
<1>1. /\ Depth(g) = 2 /\ stack[g][1] = Frame("callback", "work")  BY <1>0, Stands
<1>2. FrameInv(g)'
  <2>1. ASSUME Kinds(g, "assert")' = {2}, stack'[g][1] = stack[g][1] PROVE FrameInv(g)'
    BY <1>1, <2>1 DEF FrameInv, Frame
  <2>2. ASSUME Kinds(g, "assert")' = {} PROVE FrameInv(g)'  BY <2>2 DEF FrameInv
  <2>3. CASE StepsOn(g, "assert", from) \/ Raises(g, "assert")
    BY <1>0, <2>1, <2>3, AssertStands DEF StepsOn, Raises
  <2>4. CASE Dies(g, "assert", from)  BY <1>0, <2>1, <2>4, AssertStands DEF Dies
  <2>5. CASE Leaves(g, "assert", from) \/ Ends(g, "assert") \/ Unwinds(g, "assert")
    BY <1>0, <1>1, <2>2, <2>5, AssertStands DEF Leaves, Ends, Unwinds
  <2> QED  BY <2>3, <2>4, <2>5 DEF Steps, Prints
<1>3. NestInv(g)' /\ TraceInv(g)'  BY <1>0, NestKept, TraceKept
<1>4. SinkInv(g)'  BY <1>0, SinkKept
<1>5. /\ Apart(g) /\ Survives(g) /\ process = "up"
      /\ \A h \in Goroutines : h # g => guarded'[h] = guarded[h]
      /\ Calm => outMu' = outMu \/ outMu \in {g, None}
  BY <1>0, StepSides DEF At
<1>6. failed' \in [Goroutines -> FailedType]  BY <1>0
<1>7. \A h \in Goroutines : h # g =>
        sinks'[h] = sinks[h] /\ guarded'[h] = guarded[h] /\ failed'[h] = failed[h]
  BY <1>0, <1>5
<1> QED  BY <1>2, <1>3, <1>4, <1>5, <1>6, <1>7, StepTells

\* The assertion that fails is the callback's first: nothing was told of it.
LEMMA AssertsTells ==
  ASSUME TellInv, IInv', NEW g \in Goroutines, Asserts(g)
  PROVE  TellInv'
<1>0. /\ IInv /\ FrameInv(g) /\ NestInv(g) /\ TraceInv(g) /\ SinkInv(g) /\ FailureInv(g)
      /\ failed \in [Goroutines -> FailedType]
  BY DEF TellInv
<1>1. /\ At(g, "callback", "work") /\ failed[g].at = "no"
      /\ Pushed(g, stack[g], Frame("assert", "stack"))
      /\ failed' = [failed EXCEPT ![g].at = "called"]
      /\ UNCHANGED <<setup, outMu, sinks, guarded, asserter>>
  BY DEF Asserts, globals
<1>2. /\ Depth(g) = 1 /\ Len(stack[g]) = 1 /\ process = "up"
      /\ stack[g][1] = Frame("callback", "work") /\ stack[g][1].kind = "callback"
  <2>1. /\ Depth(g) = 1 /\ Len(stack[g]) = Depth(g) /\ process = "up"
        /\ stack[g][Depth(g)] = Frame("callback", "work")
        /\ stack[g][Depth(g)].kind = "callback"
    BY <1>0, <1>1, Stands
  <2> QED  BY <2>1
<1>3. /\ failed' \in [Goroutines -> FailedType]
      /\ \A h \in Goroutines : h # g => failed'[h] = failed[h]
      /\ failed'[g] = [failed[g] EXCEPT !.at = "called"]
  BY <1>0, <1>1 DEF FailedType
<1>4. failed[g] = NotFailed  BY <1>0, <1>1 DEF FailureInv
<1>5. CASE Len(stack[g]) < MaxStack
  <2> DEFINE f == Frame("assert", "stack")
  <2>1. f \in Frames /\ f.kind = "assert" /\ f.at = "stack"  BY KnownFrames, FrameFields
  <2>2. stack'[g] = Append(stack[g], f) /\ Apart(g) /\ process' = "up"
    BY <1>0, <1>1, <1>2, <1>5, AtFacts, BecomesShape DEF Pushed
  <2> HIDE DEF f
  <2>3. stack[g] \in Seq(Frames)  BY <1>0 DEF IInv, TypeOK
  <2>4. Len(stack'[g]) = 2 /\ stack'[g][1] = stack[g][1] /\ stack'[g][2] = f
    BY <1>2, <2>1, <2>2, <2>3
  <2>5. \A k : Kinds(g, k)' = {i \in {1, 2} : stack'[g][i].kind = k}
    BY <2>4 DEF Kinds, Depth
  <2>6. Kinds(g, "assert")' = {2} /\ Kinds(g, "print")' = {} /\ Kinds(g, "guard")' = {}
    BY <1>2, <2>1, <2>4, <2>5
  <2>7. FrameInv(g)'  BY <1>2, <2>4, <2>6 DEF FrameInv, Frame
  <2>8. NestInv(g)'  BY <2>6 DEF NestInv
  <2>9. TraceInv(g)'
    <3> SUFFICES ASSUME Roomy, setup.recorder = "sound"
                 PROVE  /\ \A i \in 1..(Len(stack'[g]) - 1) : ~Pending(stack'[g][i])
                        /\ guarded[g].panics = guarded[g].traced
                             + (IF Len(stack'[g]) > 0 /\ Pending(stack'[g][Len(stack'[g])])
                                THEN 1 ELSE 0)
      BY <1>1 DEF TraceInv, Pending, Top, Depth, Roomy
    <3>1. ~Pending(stack[g][1]) /\ ~Pending(f)  BY <1>2, <2>1 DEF Pending
    <3>2. Top(g) = stack[g][1]  BY <1>2 DEF Top
    <3>3. guarded[g].panics = guarded[g].traced + 0
      BY <1>0, <1>2, <3>1, <3>2 DEF TraceInv
    <3>4. \A i \in 1..(Len(stack'[g]) - 1) : i = 1  BY <2>4
    <3> QED  BY <2>4, <3>1, <3>3, <3>4
  <2>10. SinkInv(g)'  BY <1>0, <1>1, <1>2, <2>4, SinkBelow
  <2>11. FailureInv(g)'
    <3>1. Told(g, "stack")'
      BY <1>3, <1>4 DEF Told, NotFailed, FailedType
    <3>2. failed'[g].at = "called"  BY <1>3, <1>4 DEF NotFailed
    <3>3. \A i \in Kinds(g, "assert")' : Told(g, stack[g][i].at)'
      BY <2>1, <2>4, <2>6, <3>1 DEF Told
    <3> QED  BY <2>6, <3>2, <3>3 DEF FailureInv
  <2> QED  BY <1>0, <1>1, <1>2, <1>3, <2>2, <2>7, <2>8, <2>9, <2>10, <2>11, StepTells DEF Survives
<1>6. CASE ~(Len(stack[g]) < MaxStack)
  <2>1. process' = "overflow" /\ UNCHANGED stack  BY <1>1, <1>6 DEF Pushed
  <2>2. ~Roomy  BY <1>2, <1>6, PanicAssumption DEF Roomy
  <2>3. \A k : Kinds(g, k)' = Kinds(g, k)  BY <1>2, <2>1, KindsAfter
  <2>4. FrameInv(g)' /\ NestInv(g)'
    BY <1>0, <1>1, <2>1, <2>3 DEF FrameInv, NestInv, Frame, Calm
  <2>5. TraceInv(g)'  BY <2>2 DEF TraceInv, Roomy
  <2>6. SinkInv(g)'  BY <1>0, <1>1, <2>1 DEF SinkInv, Base
  <2>7. FailureInv(g)'  BY <1>3, <1>4, <2>1 DEF FailureInv, NotFailed
  <2>8. Survives(g) /\ Apart(g)  BY <2>1, <2>2 DEF Survives, Apart
  <2> QED  BY <1>0, <1>1, <1>2, <1>3, <2>4, <2>5, <2>6, <2>7, <2>8, StepTells
<1> QED  BY <1>5, <1>6

\* Asserter.fail tells its sinks one after the other, once each, and returns.
LEMMA AssertionTells ==
  ASSUME TellInv, IInv', NEW g \in Goroutines, Assertion(g)
  PROVE  TellInv'
<1>0. /\ IInv /\ FrameInv(g) /\ FailureInv(g)
      /\ failed \in [Goroutines -> FailedType] /\ failed[g] \in FailedType
  BY DEF TellInv
<1> DEFINE f == failed[g]
<1>1. ASSUME NEW from, At(g, "assert", from)
      PROVE  /\ Kinds(g, "assert") = {2} /\ Told(g, from) /\ f.at = "called" /\ process = "up"
  <2>1. Kinds(g, "assert") = {2} /\ stack[g][2] = Frame("assert", from) /\ process = "up"
    BY <1>0, <1>1, AssertStands DEF At
  <2>2. stack[g][2].at = from  BY <2>1, FrameFields
  <2>3. Told(g, from)  BY <1>0, <2>1, <2>2 DEF FailureInv
  <2>4. f.at # "no" /\ f.at # "returned"  BY <1>0, <2>1 DEF FailureInv
  <2> QED  BY <1>0, <2>1, <2>3, <2>4 DEF FailedType
\* The invariant about the report, after it went on or was cut short.
<1>2. ASSUME NEW from, At(g, "assert", from), NEW at, failed'[g].at = "called", Told(g, at)',
             UNCHANGED asserter,
             \/ Goes(g, "assert", at) \/ Calls(g, "assert", at, Frame("guard", "count"))
             \/ process' # "up" /\ UNCHANGED stack
      PROVE  FailureInv(g)'
  <2>1. CASE Goes(g, "assert", at) \/ Calls(g, "assert", at, Frame("guard", "count"))
    <3>1. Kinds(g, "assert")' = {2} /\ stack'[g][2] = Frame("assert", at)
      BY <1>0, <1>2, <2>1, AssertStands
    <3>2. stack'[g][2].at = at  BY <3>1, FrameFields
    <3>3. \A i \in Kinds(g, "assert")' : Told(g, stack[g][i].at)'
      BY <1>2, <3>1, <3>2 DEF Told
    <3> QED  BY <1>2, <3>1, <3>3 DEF FailureInv
  <2>2. CASE process' # "up" /\ UNCHANGED stack  BY <1>2, <2>2 DEF FailureInv
  <2> QED  BY <1>2, <2>1, <2>2
<1>3. ASSUME NEW from, At(g, "assert", from), failed'[g].at = "called",
             UNCHANGED asserter, Unguarded, Turned(g)
      PROVE  FailureInv(g)'
  <2>1. Kinds(g, "assert")' = {}  BY <1>0, <1>3, AssertStands
  <2>2. Unguarded'  BY <1>3 DEF Unguarded
  <2> QED  BY <1>3, <2>1, <2>2 DEF FailureInv
<1>4. CASE Asserts(g)  BY <1>4, AssertsTells
<1>5. CASE DecideStack(g)
  <2>1. /\ At(g, "assert", "stack") /\ Frame("assert", "log") \in Frames
        /\ Becomes(g, Moved(g, "log"))
        /\ failed' = [failed EXCEPT ![g].taken = StackIncluded]
        /\ UNCHANGED <<setup, outMu, sinks, guarded, process, asserter>>
    BY <1>5, KnownFrames DEF DecideStack, globals
  <2> DEFINE r == [f EXCEPT !.taken = StackIncluded]
  <2>2. StackIncluded \in BOOLEAN  BY <1>0 DEF StackIncluded, IInv, TypeOK
  <2>3. r \in FailedType /\ failed' = [failed EXCEPT ![g] = r] /\ failed'[g] = r
    BY <1>0, <2>1, <2>2 DEF FailedType
  <2>4. Goes(g, "assert", "log")  BY <1>0, <2>1, GoesShape
  <2>5. Told(g, "log")' /\ failed'[g].at = "called"
    BY <1>0, <1>1, <2>1, <2>3 DEF Told, FailedType
  <2>6. FailureInv(g)'  BY <1>2, <2>1, <2>4, <2>5
  <2>7. Steps(g, "assert", "stack")  BY <2>1, <2>4 DEF Steps, StepsOn
  <2> HIDE DEF r
  <2> QED  BY <2>1, <2>3, <2>6, <2>7, AssertTells
<1>6. CASE LogFailure(g)
  <2>1. /\ At(g, "assert", "log") /\ Frame("assert", "stackLog") \in Frames
        /\ CallLogger(g, asserter.logger, Moved(g, "stackLog"))
        /\ failed' = [failed EXCEPT ![g].logs = @ + 1]
        /\ UNCHANGED <<setup, sinks, asserter>>
    BY <1>6, KnownFrames DEF LogFailure, globals
  <2> DEFINE r == [f EXCEPT !.logs = @ + 1]
  <2>2. r \in FailedType /\ failed' = [failed EXCEPT ![g] = r] /\ failed'[g] = r
    BY <1>0, <2>1 DEF FailedType
  <2>3. Told(g, "stackLog")' /\ failed'[g].at = "called"
    BY <1>0, <1>1, <2>1, <2>2 DEF Told, FailedType
  <2> HIDE DEF r
  <2>4. CASE Goes(g, "assert", "stackLog") /\ UNCHANGED <<outMu, process, guarded>>
    <3>1. Steps(g, "assert", "log")  BY <2>4 DEF Steps, StepsOn
    <3> QED  BY <1>2, <2>1, <2>2, <2>3, <2>4, <3>1, AssertTells
  <2>5. CASE asserter.logger = "bare" /\ Panics(g) /\ UNCHANGED guarded
    <3>1. Turned(g) /\ UNCHANGED <<outMu, process>>  BY <1>0, <2>1, <2>5, PanicsShape
    <3>2. Steps(g, "assert", "log")  BY <2>5, <3>1 DEF Steps, Unwinds
    <3>3. Unguarded  BY <2>5 DEF Unguarded
    <3> QED  BY <1>3, <2>1, <2>2, <2>3, <3>1, <3>2, <3>3, AssertTells
  <2>6. CASE /\ UNCHANGED outMu /\ guarded' = [guarded EXCEPT ![g].panics = @ + 1]
             /\ Calls(g, "assert", "stackLog", Frame("guard", "count")) /\ UNCHANGED process
    <3>1. Steps(g, "assert", "log")  BY <2>6 DEF Steps, Raises
    <3> QED  BY <1>2, <2>1, <2>2, <2>3, <2>6, <3>1, AssertTells
  <2>7. CASE /\ UNCHANGED outMu /\ guarded' = [guarded EXCEPT ![g].panics = @ + 1]
             /\ process' = "overflow" /\ UNCHANGED stack /\ ~(Depth(g) < MaxStack)
    <3>1. Steps(g, "assert", "log")  BY <2>7 DEF Steps, Dies
    <3> QED  BY <1>2, <2>1, <2>2, <2>3, <2>7, <3>1, AssertTells
  <2> QED  BY <1>0, <2>1, <2>4, <2>5, <2>6, <2>7, LoggerShape
<1>7. CASE LogStack(g)
  <2>1. /\ At(g, "assert", "stackLog") /\ Frame("assert", "count") \in Frames
        /\ UNCHANGED <<setup, sinks, asserter>>
    BY <1>7, KnownFrames DEF LogStack, globals
  <2>2. CASE /\ f.taken /\ asserter.logger # "nil"
             /\ failed' = [failed EXCEPT ![g].stackLogs = @ + 1]
             /\ CallLogger(g, asserter.logger, Moved(g, "count"))
    <3> DEFINE r == [f EXCEPT !.stackLogs = @ + 1]
    <3>2. r \in FailedType /\ failed' = [failed EXCEPT ![g] = r] /\ failed'[g] = r
      BY <1>0, <2>2 DEF FailedType
    <3>3. Told(g, "count")' /\ failed'[g].at = "called"
      BY <1>0, <1>1, <2>1, <2>2, <3>2 DEF Told, FailedType
    <3> HIDE DEF r
    <3>4. CASE Goes(g, "assert", "count") /\ UNCHANGED <<outMu, process, guarded>>
      <4>1. Steps(g, "assert", "stackLog")  BY <3>4 DEF Steps, StepsOn
      <4> QED  BY <1>2, <2>1, <3>2, <3>3, <3>4, <4>1, AssertTells
    <3>5. CASE asserter.logger = "bare" /\ Panics(g) /\ UNCHANGED guarded
      <4>1. Turned(g) /\ UNCHANGED <<outMu, process>>  BY <1>0, <2>1, <3>5, PanicsShape
      <4>2. Steps(g, "assert", "stackLog")  BY <3>5, <4>1 DEF Steps, Unwinds
      <4>3. Unguarded  BY <3>5 DEF Unguarded
      <4> QED  BY <1>3, <2>1, <3>2, <3>3, <4>1, <4>2, <4>3, AssertTells
    <3>6. CASE /\ UNCHANGED outMu /\ guarded' = [guarded EXCEPT ![g].panics = @ + 1]
               /\ Calls(g, "assert", "count", Frame("guard", "count")) /\ UNCHANGED process
      <4>1. Steps(g, "assert", "stackLog")  BY <3>6 DEF Steps, Raises
      <4> QED  BY <1>2, <2>1, <3>2, <3>3, <3>6, <4>1, AssertTells
    <3>7. CASE /\ UNCHANGED outMu /\ guarded' = [guarded EXCEPT ![g].panics = @ + 1]
               /\ process' = "overflow" /\ UNCHANGED stack /\ ~(Depth(g) < MaxStack)
      <4>1. Steps(g, "assert", "stackLog")  BY <3>7 DEF Steps, Dies
      <4> QED  BY <1>2, <2>1, <3>2, <3>3, <3>7, <4>1, AssertTells
    <3> QED  BY <1>0, <2>1, <2>2, <3>4, <3>5, <3>6, <3>7, LoggerShape
  <2>3. CASE /\ ~f.taken \/ asserter.logger = "nil"
             /\ Becomes(g, Moved(g, "count"))
             /\ UNCHANGED <<failed, outMu, guarded, process>>
    <3>1. f \in FailedType /\ failed' = [failed EXCEPT ![g] = f]  BY <1>0, <2>3
    <3>2. Told(g, "count")' /\ failed'[g].at = "called"
      BY <1>0, <1>1, <2>1, <2>3 DEF Told, FailedType
    <3>3. Goes(g, "assert", "count")  BY <1>0, <2>1, <2>3, GoesShape
    <3>4. FailureInv(g)'  BY <1>2, <2>1, <3>2, <3>3
    <3>5. Steps(g, "assert", "stackLog")  BY <2>3, <3>3 DEF Steps, StepsOn
    <3> QED  BY <2>1, <3>1, <3>4, <3>5, AssertTells
  <2> QED  BY <1>7, <2>2, <2>3 DEF LogStack
<1>8. CASE CountFailure(g)
  <2>1. /\ At(g, "assert", "count") /\ Frame("assert", "span") \in Frames
        /\ failed' = [failed EXCEPT ![g].counts = @ + (IF asserter.recorder = "sound" THEN 1 ELSE 0)]
        /\ UNCHANGED <<setup, sinks, guarded, asserter>>
        /\ \/ asserter.recorder = "panicking" /\ Panics(g)
           \/ Becomes(g, Moved(g, "span")) /\ UNCHANGED <<outMu, process>>
    BY <1>8, KnownFrames DEF CountFailure, globals
  <2> DEFINE r == [f EXCEPT !.counts = @ + (IF asserter.recorder = "sound" THEN 1 ELSE 0)]
  <2>2. r \in FailedType /\ failed' = [failed EXCEPT ![g] = r] /\ failed'[g] = r
    BY <1>0, <2>1 DEF FailedType
  <2>3. Told(g, "span")' /\ failed'[g].at = "called"
    BY <1>0, <1>1, <2>1, <2>2 DEF Told, FailedType
  <2> HIDE DEF r
  <2>4. CASE Becomes(g, Moved(g, "span")) /\ UNCHANGED <<outMu, process>>
    <3>1. Goes(g, "assert", "span")  BY <1>0, <2>1, <2>4, GoesShape
    <3>2. Steps(g, "assert", "count")  BY <2>1, <2>4, <3>1 DEF Steps, StepsOn
    <3> QED  BY <1>2, <2>1, <2>2, <2>3, <3>1, <3>2, AssertTells
  <2>5. CASE asserter.recorder = "panicking" /\ Panics(g)
    <3>1. Turned(g) /\ UNCHANGED <<outMu, process>>  BY <1>0, <2>1, <2>5, PanicsShape
    <3>2. Steps(g, "assert", "count")  BY <2>1, <3>1 DEF Steps, Unwinds
    <3>3. Unguarded  BY <2>5 DEF Unguarded
    <3> QED  BY <1>3, <2>1, <2>2, <2>3, <3>1, <3>2, <3>3, AssertTells
  <2> QED  BY <2>1, <2>4, <2>5
<1>9. CASE TraceFailure(g)
  <2>1. /\ At(g, "assert", "span") /\ Frame("assert", "return") \in Frames
        /\ failed' = [failed EXCEPT ![g].events = @ + 1,
                                    ![g].stackEvents = @ + (IF f.taken THEN 1 ELSE 0)]
        /\ Becomes(g, Moved(g, "return"))
        /\ UNCHANGED <<setup, outMu, sinks, guarded, process, asserter>>
    BY <1>9, KnownFrames DEF TraceFailure, Included, globals
  <2> DEFINE r == [f EXCEPT !.events = @ + 1, !.stackEvents = @ + (IF f.taken THEN 1 ELSE 0)]
  <2>7. r \in FailedType
    <3> DEFINE e == [f EXCEPT !.events = @ + 1]
               n == IF f.taken THEN 1 ELSE 0
    <3>1. e \in FailedType /\ n \in Nat  BY <1>0 DEF FailedType
    <3>2. r = [e EXCEPT !.stackEvents = @ + n]  OBVIOUS
    <3> HIDE DEF e, n, r
    <3> QED  BY <3>1, <3>2 DEF FailedType
  <2>8. failed' = [failed EXCEPT ![g] = r]
    <3> DEFINE m == [failed EXCEPT ![g].events = @ + 1]
    <3>1. m = [failed EXCEPT ![g] = [f EXCEPT !.events = @ + 1]]  OBVIOUS
    <3>2. m[g] = [f EXCEPT !.events = @ + 1]  BY <1>0, <3>1
    <3>3. m[g].stackEvents = f.stackEvents  BY <1>0, <3>2 DEF FailedType
    <3>4. failed' = [m EXCEPT ![g] = [m[g] EXCEPT !.stackEvents =
                                        f.stackEvents + (IF f.taken THEN 1 ELSE 0)]]
      BY <2>1, <3>3
    <3>5. failed' = [m EXCEPT ![g] = r]  BY <3>2, <3>4
    <3> QED  BY <1>0, <3>1, <3>5
  <2>2. r \in FailedType /\ failed' = [failed EXCEPT ![g] = r] /\ failed'[g] = r
    BY <1>0, <2>7, <2>8
  <2>3. Told(g, "return")' /\ failed'[g].at = "called"
    BY <1>0, <1>1, <2>1, <2>2 DEF Told, FailedType
  <2> HIDE DEF r
  <2>4. Goes(g, "assert", "return")  BY <1>0, <2>1, GoesShape
  <2>5. FailureInv(g)'  BY <1>2, <2>1, <2>3, <2>4
  <2>6. Steps(g, "assert", "span")  BY <2>1, <2>4 DEF Steps, StepsOn
  <2> QED  BY <2>1, <2>2, <2>5, <2>6, AssertTells
<1>10. CASE ReturnFailure(g)
  <2>1. /\ At(g, "assert", "return")
        /\ failed' = [failed EXCEPT ![g].at = "returned"]
        /\ Becomes(g, <<>>) \/ Becomes(g, Returned(g))
        /\ UNCHANGED <<setup, outMu, sinks, guarded, process, asserter>>
    BY <1>10 DEF ReturnFailure, globals
  <2> DEFINE r == [f EXCEPT !.at = "returned"]
  <2>2. r \in FailedType /\ failed' = [failed EXCEPT ![g] = r] /\ failed'[g] = r
    BY <1>0, <2>1 DEF FailedType
  <2>3. Told(g, "return")' /\ failed'[g].at = "returned"
    BY <1>0, <1>1, <2>1, <2>2 DEF Told, FailedType
  <2> HIDE DEF r
  <2>4. Depth(g) = 2 /\ ControlType /\ GoodStack(stack[g])
    BY <1>0, <2>1, Stands, AtFacts
  <2>5. Drops(g, 0) \/ Drops(g, 1)
    <3>1. CASE Becomes(g, <<>>)  BY <2>4, <3>1, EmptyShape
    <3>2. CASE Becomes(g, Returned(g))
      <4>1. 2 \in 1..Depth(g) /\ Becomes(g, SubSeq(stack[g], 1, 2 - 1))
        BY <2>4, <3>2 DEF Returned
      <4> QED  BY <1>0, <2>1, <4>1, DropsShape
    <3> QED  BY <2>1, <3>1, <3>2
  <2>6. Kinds(g, "assert")' = {}  BY <1>0, <2>1, <2>5, AssertStands
  <2>7. FailureInv(g)'  BY <2>3, <2>6 DEF FailureInv
  <2>8. Steps(g, "assert", "return")  BY <2>1, <2>4, <2>5 DEF Steps, Ends, Leaves
  <2> QED  BY <2>1, <2>2, <2>7, <2>8, AssertTells
<1> QED  BY <1>4, <1>5, <1>6, <1>7, <1>8, <1>9, <1>10 DEF Assertion

-----------------------------------------------------------------------------
(* The theorems about reports                                              *)

\* Every goroutine starts in its callback, which has asserted nothing.
LEMMA TellInit ==
  ASSUME AssertInit
  PROVE  TellInv
<1>1. Init /\ failed = [g \in Goroutines |-> NotFailed]  BY DEF AssertInit
<1>2. IInv  BY <1>1, InitInv
<1>3. NotFailed \in FailedType  BY DEF NotFailed, FailedType
<1>4. failed \in [Goroutines -> FailedType]  BY <1>1, <1>3
<1>5. process = "up"  BY <1>1 DEF Init
<1>6. ASSUME NEW g \in Goroutines
      PROVE  FrameInv(g) /\ NestInv(g) /\ TraceInv(g) /\ SinkInv(g) /\ FailureInv(g)
  <2> DEFINE f == Frame("callback", "log")
  <2>1. f.kind = "callback"  BY FrameFields
  <2>2. stack[g] = <<f>> /\ guarded[g] = [panics |-> 0, traced |-> 0]  BY <1>1 DEF Init
  <2> HIDE DEF f
  <2>3. Depth(g) = 1 /\ stack[g][1] = f /\ Top(g) = f  BY <2>2 DEF Depth, Top
  <2>4. \A i \in 1..Depth(g) : stack[g][i].kind = "callback"  BY <2>1, <2>3
  <2>5. \A k : k # "callback" => Kinds(g, k) = {}  BY <2>4 DEF Kinds
  <2>6. FrameInv(g) /\ NestInv(g)  BY <2>5 DEF FrameInv, NestInv
  <2>7. TraceInv(g)  BY <2>1, <2>2, <2>3 DEF TraceInv, Pending
  <2>8. SinkInv(g)
    <3>1. Base(stack[g]) # "recovery"  BY <2>1, <2>2, <2>3 DEF Base
    <3> QED  BY <3>1 DEF SinkInv
  <2>9. FailureInv(g)
    <3>1. failed[g] = NotFailed /\ NotFailed.at = "no"  BY <1>1 DEF NotFailed
    <3> QED  BY <2>5, <3>1 DEF FailureInv
  <2> QED  BY <2>6, <2>7, <2>8, <2>9
<1>7. PolicyCrashIsReported /\ KeepRunningSurvives
  BY <1>5 DEF PolicyCrashIsReported, KeepRunningSurvives
<1> QED  BY <1>2, <1>4, <1>6, <1>7 DEF TellInv

\* What leaves the goroutines and the output lock alone leaves what they tell.
LEMMA TellStays ==
  ASSUME TellInv, IInv',
         UNCHANGED <<setup, outMu, stack, sinks, guarded, process, assertVars>>,
         panicked' = panicked
  PROVE  TellInv'
<1>1. UNCHANGED <<asserter, failed>>  BY DEF assertVars
<1>2. ASSUME NEW g \in Goroutines
      PROVE  (FrameInv(g) /\ NestInv(g) /\ TraceInv(g) /\ SinkInv(g) /\ FailureInv(g))'
  <2>1. FrameInv(g) /\ NestInv(g) /\ TraceInv(g) /\ SinkInv(g) /\ FailureInv(g)
    BY DEF TellInv
  <2>2. \A k : Kinds(g, k)' = Kinds(g, k)  BY DEF Kinds, Depth
  <2>3. FrameInv(g)'  BY <2>1, <2>2 DEF FrameInv, Frame
  <2>4. NestInv(g)'  BY <2>1, <2>2 DEF NestInv, Calm
  <2>5. TraceInv(g)'  BY <2>1 DEF TraceInv, Pending, Roomy, Depth, Top
  <2>6. SinkInv(g)'  BY <2>1 DEF SinkInv, Base, None
  <2>7. FailureInv(g)'
    <3>1. Told(g, "return")' <=> Told(g, "return")  BY <1>1 DEF Told
    <3>2. process = "up" => \A i \in Kinds(g, "assert") : Told(g, stack[g][i].at)'
      BY <1>1, <2>1 DEF FailureInv, Told
    <3>3. Unguarded' <=> Unguarded  BY <1>1 DEF Unguarded
    <3> QED  BY <1>1, <2>1, <2>2, <3>1, <3>2, <3>3 DEF FailureInv, NotFailed
  <2> QED  BY <2>3, <2>4, <2>5, <2>6, <2>7
<1>3. PolicyCrashIsReported'  BY DEF TellInv, PolicyCrashIsReported, None
<1>4. Roomy' => KeepRunningSurvives'  BY DEF TellInv, KeepRunningSurvives, Roomy
<1> QED  BY <1>1, <1>2, <1>3, <1>4 DEF TellInv, FailedType

\* Where the frames stand, what is pending, and what every sink was told by whom:
\* for any wiring, any stack bound and any assertions.
THEOREM TellInvariant == AssertSafe => []TellInv
<1>1. AssertInit => TellInv  BY TellInit
<1>2. TellInv /\ [AssertNext]_processVars => TellInv'
  <2> SUFFICES ASSUME TellInv, [AssertNext]_processVars PROVE TellInv'  OBVIOUS
  <2>1. IInv'  BY AssertNextInv DEF TellInv
  <2>2. CASE Application /\ UNCHANGED assertVars
    BY <2>1, <2>2, TellStays
    DEF Application, SetProductionMode, InitPanicMetrics, ResetPanicMetrics
  <2>3. ASSUME NEW g \in Goroutines, AssertingGoroutine(g) PROVE TellInv'
    BY <2>1, <2>3, GoroutineTells, AssertionTells DEF AssertingGoroutine
  <2>4. CASE UNCHANGED processVars
    BY <2>1, <2>4, TellStays DEF processVars, vars, globals
  <2> QED  BY <2>2, <2>3, <2>4 DEF AssertNext
<1> QED  BY <1>1, <1>2, PTL DEF AssertSafe

\* ApplyPolicy is the last step of the recovery: by the time CrashProcess panics
\* anew, the log, the span and the error reporter there are were told.
THEOREM CrashIsReported == AssertSafe => []PolicyCrashIsReported
<1>1. TellInv => PolicyCrashIsReported  BY DEF TellInv
<1> QED  BY <1>1, TellInvariant, PTL

\* Reporting a panic under KeepRunning never brings the process down: no report
\* nests past the fifth frame, and each panic it meets is a guard's to recover.
THEOREM KeepsRunning ==
  ASSUME MaxStack >= 5
  PROVE  AssertSafe => []KeepRunningSurvives
<1>1. TellInv => KeepRunningSurvives  BY DEF TellInv, Roomy
<1> QED  BY <1>1, TellInvariant, PTL

\* reportLoggerPanic puts the panic on the span before it prints the line that may
\* panic or run another report: all but the innermost report are past that step.
THEOREM TraceSurvives ==
  ASSUME MaxStack >= 5
  PROVE  AssertSafe => []TraceSurvivesFallback
<1>1. TellInv => TraceSurvivesFallback
  <2> SUFFICES ASSUME TellInv, setup.recorder = "sound", NEW g \in Goroutines
               PROVE  guarded[g].panics = guarded[g].traced
                        + Cardinality({i \in 1..Depth(g) : stack[g][i].kind = "guard"
                                         /\ stack[g][i].at \in {"count", "span"}})
    BY DEF TraceSurvivesFallback
  <2> DEFINE P == {i \in 1..Depth(g) : stack[g][i].kind = "guard"
                                       /\ stack[g][i].at \in {"count", "span"}}
  <2>1. /\ \A i \in 1..(Depth(g) - 1) : ~Pending(stack[g][i])
        /\ guarded[g].panics
             = guarded[g].traced + (IF Depth(g) > 0 /\ Pending(stack[g][Depth(g)]) THEN 1 ELSE 0)
    BY DEF TellInv, TraceInv, Roomy, Top
  <2>2. Depth(g) \in Nat  BY DEF TellInv, IInv, StackInv, GoodStack, Depth
  <2>3. \A i : i \in P <=> i \in 1..Depth(g) /\ Pending(stack[g][i])  BY DEF Pending
  <2> HIDE DEF P
  <2>4. CASE Depth(g) > 0 /\ Pending(stack[g][Depth(g)])
    <3>1. P = {Depth(g)}
      <4>1. Depth(g) \in P  BY <2>2, <2>3, <2>4
      <4>2. \A i \in P : i = Depth(g)  BY <2>1, <2>2, <2>3
      <4> QED  BY <4>1, <4>2
    <3>2. Cardinality(P) = 1  BY <3>1, FS_Singleton
    <3> QED  BY <2>1, <2>4, <3>2 DEF P
  <2>5. CASE ~(Depth(g) > 0 /\ Pending(stack[g][Depth(g)]))
    <3>1. P = {}  BY <2>1, <2>2, <2>3, <2>5
    <3>2. Cardinality(P) = 0  BY <3>1, FS_EmptySet
    <3> QED  BY <2>1, <2>5, <3>2 DEF P
  <2> QED  BY <2>4, <2>5
<1> QED  BY <1>1, TellInvariant, PTL

\* Asserter.fail decides about the stack trace once, and log and span go by that:
\* what comes back to the callback has been told to each sink once.
THEOREM ToldAlike == AssertSafe => []AssertionToldAlike
<1>1. TellInv => AssertionToldAlike
  <2> SUFFICES ASSUME TellInv, NEW g \in Goroutines
               PROVE  /\ failed[g].at = "returned" =>
                           /\ failed[g].logs = 1 /\ failed[g].events = 1
                           /\ asserter.recorder = "sound" => failed[g].counts = 1
                           /\ asserter.logger # "nil" => failed[g].stackLogs = failed[g].stackEvents
                      /\ process = "up" /\ failed[g].at = "called"
                           /\ asserter.logger # "bare" /\ asserter.recorder # "panicking"
                         => \E i \in 1..Depth(g) : stack[g][i].kind = "assert"
    BY DEF AssertionToldAlike
  <2>1. FailureInv(g)  BY DEF TellInv
  <2>2. failed[g].at = "returned" => Told(g, "return")  BY <2>1 DEF FailureInv
  <2>3. process = "up" /\ failed[g].at = "called" /\ ~Unguarded
          => \E i \in 1..Depth(g) : stack[g][i].kind = "assert"
    BY <2>1 DEF FailureInv, Kinds
  <2> QED  BY <2>2, <2>3 DEF Told, Unguarded
<1> QED  BY <1>1, TellInvariant, PTL

=============================================================================
