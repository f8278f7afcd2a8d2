------------------------------ MODULE Filtering ------------------------------
(***************************************************************************)
(* What filter makes of an array in the code of the pages: the elements    *)
(* that are kept, in the order in which they stood.  The places of these   *)
(* are a set; the n-th of them is the one of which n are not after it.     *)
(***************************************************************************)
EXTENDS Naturals, Sequences, FiniteSets

\* How many of the places are not after the i-th.
Rank(i, places) == Cardinality({j \in places : j <= i})

\* What a list has at some of its places, in its order.
Filtered(entries, places) ==
  [n \in 1..Cardinality(places) |-> entries[CHOOSE i \in places : Rank(i, places) = n]]

=============================================================================
