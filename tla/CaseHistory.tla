---------------------------- MODULE CaseHistory ----------------------------
(***************************************************************************)
(* What the case store promises, with no versions, callers or tables: each *)
(* case has one linear history of states.  It starts at OPEN, grows only   *)
(* by walks along declared edges that are appended whole, and stops at a   *)
(* terminal state.                                                         *)
(***************************************************************************)
EXTENDS Sequences, Integers

CONSTANTS
    Cases,   \* case ids
    First,   \* the state every history starts at
    Edges    \* the set of pairs <<s, t>> where t may follow s

VARIABLE history

Init == history = [c \in Cases |-> <<>>]

Open(c) ==
    /\ history[c] = <<>>
    /\ history' = [history EXCEPT ![c] = <<First>>]

\* A history is extended: `new` has `old` as a proper prefix, and each state
\* added follows the one before it along an edge.
Extends(new, old) ==
    /\ old # <<>>
    /\ Len(new) > Len(old)
    /\ \A i \in 1..Len(old) : new[i] = old[i]
    /\ \A i \in (Len(old) + 1)..Len(new) : <<new[i - 1], new[i]>> \in Edges

Extend(c) ==
    /\ Extends(history'[c], history[c])
    /\ history' = [history EXCEPT ![c] = history'[c]]

Next == \E c \in Cases : Open(c) \/ Extend(c)

Spec == Init /\ [][Next]_history

=============================================================================
