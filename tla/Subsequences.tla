---------------------------- MODULE Subsequences ----------------------------
(* The lines of a hunk of one kind, the providers of a list that are       *)
(* available: what stands at some positions of a sequence, in its order.   *)
EXTENDS Integers, FiniteSets

\* The elements of s at the positions I.
Subsequence(s, I) ==
    LET Rank(i) == Cardinality({j \in I : j <= i})
    IN  [n \in 1 .. Cardinality(I) |-> s[CHOOSE i \in I : Rank(i) = n]]
=============================================================================
