-------------------------- MODULE ImmutableContexts --------------------------
(***************************************************************************)
(* What a context promises to those who hold it: a value that nobody can   *)
(* change any more.  Deriving adds a value to the ones there are, equal to *)
(* its parent but for what it was derived with.                            *)
(***************************************************************************)
EXTENDS Naturals, Sequences

CONSTANTS Updates,   \* what a context can be derived with
          Keys, Unset,
          MaxContexts

VARIABLE values      \* the value of each context, in the order they were made

\* The last value that attrs give to key k, if they give one.
LastOf(attrs, k, otherwise) ==
  IF \E n \in 1..Len(attrs) : attrs[n].key = k
  THEN attrs[CHOOSE n \in 1..Len(attrs) :
         attrs[n].key = k /\ \A m \in n + 1..Len(attrs) : attrs[m].key # k].val
  ELSE otherwise

Updated(v, u) ==
  CASE u.op = "header"  -> [v EXCEPT !.header = u.to]
    [] u.op = "factory" -> [v EXCEPT !.factory = u.to]
    [] u.op = "merge"   -> [v EXCEPT !.bag = [k \in Keys |-> LastOf(u.attrs, k, v.bag[k])]]
    [] u.op = "replace" -> [v EXCEPT !.bag = [k \in Keys |-> LastOf(u.attrs, k, Unset)]]

\* The one context an ingress hands to the goroutines of a request.
Init == Len(values) = 1

Derive ==
  /\ Len(values) < MaxContexts
  /\ \E p \in 1..Len(values), u \in Updates : values' = Append(values, Updated(values[p], u))

Spec == Init /\ [][Derive]_values
=============================================================================
