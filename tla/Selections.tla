----------------------------- MODULE Selections -----------------------------
(***************************************************************************)
(* The elements of a sequence at chosen positions, in order: what the      *)
(* loops of the code that skip or drop elements leave.  A position is      *)
(* found by its rank, so that facts about selections can be proved.        *)
(***************************************************************************)
EXTENDS Integers, Sequences, FiniteSets

\* How many of the positions are not behind p.
Rank(P, p) == Cardinality({q \in P : q <= p})

\* The k-th of the positions.
Nth(P, k) == CHOOSE p \in P : Rank(P, p) = k

Select(s, P) == [k \in 1 .. Cardinality(P) |-> s[Nth(P, k)]]

\* The elements that pass a test.
Keep(s, Test(_)) == Select(s, {k \in DOMAIN s : Test(s[k])})

=============================================================================
