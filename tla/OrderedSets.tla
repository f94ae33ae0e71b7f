----------------------------- MODULE OrderedSets -----------------------------
(***************************************************************************)
(* Numbers in their order, and the entries of a list at some of its        *)
(* positions: what a loop over a menu or a list meets, in the order it     *)
(* meets it.                                                               *)
(***************************************************************************)
EXTENDS Integers, Sequences, FiniteSets

\* the members of S, a finite set of integers, smallest first
InOrder(S) ==
  CHOOSE f \in [1 .. Cardinality(S) -> S] : \A i, j \in DOMAIN f : i < j => f[i] < f[j]

\* the entries of a list at the positions in At
Entered(list, At) == LET at == InOrder(At) IN [k \in DOMAIN at |-> list[at[k]]]
=============================================================================
