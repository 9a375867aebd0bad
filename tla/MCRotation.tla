----------------------------- MODULE MCRotation -----------------------------
(* A roster with a day window, an overnight window of two-day shifts, or no  *)
(* window at all.                                                            *)
EXTENDS Rotation, TLC

Windows == {[start |-> 1, end |-> 2, length |-> 1],
            [start |-> 2, end |-> 1, length |-> 2],
            [start |-> 1, end |-> 1, length |-> 1]}

Evening == {<<8, 10>>, <<7, 9>>}

Sym == Permutations(Users)

=============================================================================
