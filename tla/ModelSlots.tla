------------------------------ MODULE ModelSlots ------------------------------
(* What capacity promises: a saved model carries at most its number of        *)
(* sessions, except those that came onto it beside the count: an operator     *)
(* forced or switched them, or they came back after their end.  These are not *)
(* counted here; that they keep others out is the allocator's choice.         *)
EXTENDS Naturals, FiniteSets

CONSTANTS Sessions, Models, Cap

VARIABLES regular, extra    \* per model, the sessions that occupy it

slots == <<regular, extra>>

Without(s, f) == [m \in Models |-> f[m] \ {s}]
With(s, m, f) == [f EXCEPT ![m] = @ \cup {s}]

Empty == [m \in Models |-> {}]

\* A session takes a slot there is.
Take(s, m) ==
    /\ \A n \in Models : s \notin regular[n] \cup extra[n]
    /\ Cardinality(regular[m]) < Cap
    /\ regular' = With(s, m, regular)
    /\ UNCHANGED extra

\* A session is put on a model, whatever it did before.
Put(s, m) ==
    /\ regular' = Without(s, regular)
    /\ extra' = With(s, m, Without(s, extra))

Free(s) ==
    /\ regular' = Without(s, regular)
    /\ extra' = Without(s, extra)

Next ==
    \E s \in Sessions : Free(s) \/ \E m \in Models : Take(s, m) \/ Put(s, m)

Spec == regular = Empty /\ extra = Empty /\ [][Next]_slots

=============================================================================
