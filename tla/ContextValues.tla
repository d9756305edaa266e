---------------------------- MODULE ContextValues ----------------------------
(***************************************************************************)
(* The values a request carries in its context, and the goroutines that    *)
(* derive contexts from one another at the same time.                      *)
(*                                                                         *)
(* A ContextValue is an object on the heap, its AttrBag a slice: a length  *)
(* over an array that may have room for more.  Whoever knows the address   *)
(* of one sees what is written there.  An address is the goroutine that    *)
(* allocates and how many contexts it has made.                            *)
(***************************************************************************)
EXTENDS Naturals, Sequences

CONSTANTS
  Goroutines,
  Updates,      \* the derivations considered
  Keys, Unset,
  MaxContexts,  \* bound: contexts of one request
  MaxSpare      \* bound: elements an append leaves room for

\* What an update may put into a bag.
Attributes == UNION {{u.attrs[n] : n \in 1..Len(u.attrs)} : u \in Updates}

\* A bag has one entry for a key, and what replaces it is to keep it so.
ASSUME ContextAssumption ==
  /\ MaxContexts \in Nat /\ MaxSpare \in Nat
  /\ \A u \in Updates : u.op \in {"header", "factory", "merge", "replace"}
                        /\ u.attrs \in Seq(Attributes)
  /\ \A u \in Updates : u.op = "replace" =>
       \A m, n \in 1..Len(u.attrs) : u.attrs[m].key = u.attrs[n].key => m = n

Address(g, n) == [by |-> g, n |-> n]
Ingress       == Address("ingress", 0)
Nil           == Address("nil", 0)
Addresses     == {Ingress, Nil} \cup {Address(g, n) : g \in Goroutines, n \in 1..MaxContexts}

VARIABLES
  objects,    \* the ContextValues: [header, factory, bag]
  arrays,     \* the arrays under the bags, element by element
  contexts,   \* the contexts made so far: the address of their ContextValue
  made,       \* how many of them each goroutine made
  deriving    \* what each goroutine is deriving

contextVars == <<objects, arrays, contexts, made, deriving>>

NilSlice == [array |-> Nil, len |-> 0]
Nothing  == [header |-> Unset, factory |-> Unset, bag |-> NilSlice]
Idle     == [at |-> "idle", attrs |-> <<>>]
Free     == [key |-> Unset, val |-> Unset]
Spare(n) == [m \in 1..n |-> Free]

\* The request's first context: without values, or with a bag that an append
\* has given room to spare.
ContextsInit ==
  /\ \E first \in {<<>>} \cup {<<[key |-> k, val |-> "ingress"]>> : k \in Keys},
        n \in 0..MaxSpare :
       /\ arrays = [a \in Addresses |-> IF a = Ingress /\ first # <<>> THEN first \o Spare(n) ELSE <<>>]
       /\ objects = [a \in Addresses |-> IF a = Ingress /\ first # <<>>
            THEN [Nothing EXCEPT !.bag = [array |-> Ingress, len |-> 1]] ELSE Nothing]
  /\ contexts = <<Ingress>>
  /\ made = [g \in Goroutines |-> 0]
  /\ deriving = [g \in Goroutines |-> Idle]

-----------------------------------------------------------------------------
(* Slices                                                                  *)

Elements(s)    == SubSeq(arrays[s.array], 1, s.len)
HasRoom(s)     == s.len < Len(arrays[s.array])
Position(s, k) == {n \in 1..s.len : arrays[s.array][n].key = k}

Put(s, n, attr) == arrays' = [arrays EXCEPT ![s.array][n] = attr]

\* Where goroutine g allocates.
Fresh(g) == Address(g, made[g] + 1)

\* Mutant: the slice is copied with the struct around it, and shares its array.
SameSlice(g, s) == s

\* make and copy; there is nothing to copy of an empty slice.
OwnSlice(g, s) == IF s.len = 0 THEN s ELSE [array |-> Fresh(g), len |-> s.len]

-----------------------------------------------------------------------------
(* Deriving a context                                                      *)

\* cloneContextValues: a copy of the struct, and of the array under its bag.
Clone(g, c, u) ==
  LET parent == objects[contexts[c]] IN
  /\ deriving[g] = Idle
  /\ Len(contexts) < MaxContexts
  /\ arrays' = [arrays EXCEPT ![Fresh(g)] = Elements(parent.bag)]
  /\ objects' = [objects EXCEPT ![Fresh(g)] = [parent EXCEPT !.bag = OwnSlice(g, @)]]
  /\ deriving' = [deriving EXCEPT ![g] =
       [at |-> u.op, attrs |-> u.attrs, to |-> u.to]]
  /\ UNCHANGED <<contexts, made>>

Written(g) == deriving' = [deriving EXCEPT ![g].at = "written", ![g].attrs = <<>>]

\* ContextWithHeaderID; that of a logger and of a tracer are the same.
SetHeader(g) ==
  /\ deriving[g].at = "header"
  /\ objects' = [objects EXCEPT ![Fresh(g)].header = deriving[g].to]
  /\ Written(g)
  /\ UNCHANGED <<arrays, contexts, made>>

\* ContextWithMetricFactory.
SetFactory(g) ==
  /\ deriving[g].at = "factory"
  /\ objects' = [objects EXCEPT ![Fresh(g)].factory = deriving[g].to]
  /\ Written(g)
  /\ UNCHANGED <<arrays, contexts, made>>

\* append: after the last element, in the same array if that has room.
AppendTo(g, s, attr) ==
  /\ IF HasRoom(s) THEN Put(s, s.len + 1, attr)
     ELSE \E n \in 0..MaxSpare :
       arrays' = [arrays EXCEPT ![Fresh(g)] = Append(Elements(s), attr) \o Spare(n)]
  /\ objects' = [objects EXCEPT ![Fresh(g)].bag =
       [array |-> IF HasRoom(s) THEN s.array ELSE Fresh(g), len |-> s.len + 1]]

\* mergeAttrBagLastWins, an attribute at a time: over the first entry of its
\* key, or appended.
Merge(g) ==
  LET bag  == objects[Fresh(g)].bag
      attr == Head(deriving[g].attrs) IN
  /\ deriving[g].at = "merge" /\ deriving[g].attrs # <<>>
  /\ \/ /\ \E n \in Position(bag, attr.key) :
             (\A m \in Position(bag, attr.key) : n <= m) /\ Put(bag, n, attr)
        /\ UNCHANGED objects
     \/ Position(bag, attr.key) = {} /\ AppendTo(g, bag, attr)
  /\ deriving' = [deriving EXCEPT ![g].attrs = Tail(@)]
  /\ UNCHANGED <<contexts, made>>

\* ReplaceAttributes: the caller's attributes, in an array of their own.
Replace(g) ==
  /\ deriving[g].at = "replace"
  /\ arrays' = [arrays EXCEPT ![Fresh(g)] = deriving[g].attrs]
  /\ objects' = [objects EXCEPT ![Fresh(g)].bag =
       IF deriving[g].attrs = <<>> THEN NilSlice
       ELSE [array |-> Fresh(g), len |-> Len(deriving[g].attrs)]]
  /\ Written(g)
  /\ UNCHANGED <<contexts, made>>

\* context.WithValue: from here on others hold it.
Publish(g) ==
  /\ deriving[g].at \in {"written", "merge"} /\ deriving[g].attrs = <<>>
  /\ Len(contexts) < MaxContexts
  /\ contexts' = Append(contexts, Fresh(g))
  /\ made' = [made EXCEPT ![g] = @ + 1]
  /\ deriving' = [deriving EXCEPT ![g] = Idle]
  /\ UNCHANGED <<objects, arrays>>

\* AttributesFromContext, by somebody who overwrites what it was given; the
\* copy is nobody else's, so this is one step.
TakeAttributes(g, c) ==
  LET taken == OwnSlice(g, objects[contexts[c]].bag) IN
  /\ deriving[g] = Idle /\ taken.len > 0
  /\ arrays' = IF taken.array = Fresh(g) THEN arrays
               ELSE [arrays EXCEPT ![taken.array][1] = Free]
  /\ UNCHANGED <<objects, contexts, made, deriving>>

WorkerStep(g) ==
  \/ SetHeader(g) \/ SetFactory(g) \/ Merge(g) \/ Replace(g) \/ Publish(g)
  \/ \E c \in 1..Len(contexts) :
       TakeAttributes(g, c) \/ \E u \in Updates : Clone(g, c, u)

ContextsNext == \E g \in Goroutines : WorkerStep(g)

-----------------------------------------------------------------------------
(* What contexts promise                                                   *)

\* The value of key k in a bag; two entries for it are no value.
Lookup(s, k) ==
  CASE Position(s, k) = {} -> Unset
    [] \E n \in Position(s, k) : Position(s, k) = {n} ->
         arrays[s.array][CHOOSE n \in Position(s, k) : TRUE].val
    [] OTHER -> "ambiguous"

Value(a) == [header |-> objects[a].header, factory |-> objects[a].factory,
             bag |-> [k \in Keys |-> Lookup(objects[a].bag, k)]]

Contexts == INSTANCE ImmutableContexts WITH
  values <- [c \in 1..Len(contexts) |-> Value(contexts[c])]

\* Contexts are values: whatever goroutines derive from one context at once, and
\* whatever they do with the attributes they were given, nobody's context changes,
\* and each says what its parent said but for what it was derived with, the last
\* attribute of a key winning over the others.
ContextsAreImmutable == Contexts!Spec
=============================================================================
