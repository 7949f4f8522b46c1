----------------------------- MODULE Positions ------------------------------
(***************************************************************************)
(* Parts of a sequence, by their positions: what a list comprehension with *)
(* a condition returns.                                                    *)
(***************************************************************************)
EXTENDS Naturals, Sequences, FiniteSets, SequencesExt

\* Sequences of whatever they hold.
IsSequence(s) == s \in Seq(ToSet(s))

\* The i-th of a set of positions, and the elements of a sequence at the positions.
Nth(at, i) == CHOOSE k \in at : Cardinality({j \in at : j =< k}) = i

Pick(rows, at) == [i \in 1..Cardinality(at) |-> rows[Nth(at, i)]]

=============================================================================
