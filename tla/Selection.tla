------------------------------ MODULE Selection ------------------------------
(***************************************************************************)
(* What a reader of a log sees who looks at some of its places only: the   *)
(* entries at these places, in their order.  The library's SelectSeq says  *)
(* the same by recursion; this says it by counting.                        *)
(***************************************************************************)
EXTENDS Integers, Sequences, FiniteSets

\* The n-th of a set of numbers, from the least.
Nth(places, n) == CHOOSE i \in places : Cardinality({j \in places : j <= i}) = n

InOrder(seq, places) == [n \in 1..Cardinality(places) |-> seq[Nth(places, n)]]

=============================================================================
