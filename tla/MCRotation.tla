---------------------------- MODULE MCRotation ----------------------------
EXTENDS KeyRotation

Pl(old, new, start, cutover, end) ==
    [subject |-> "s", old |-> old, new |-> new,
     overlap_start |-> start, cutover_at |-> cutover, overlap_end |-> end]

\* Two rotations in a row, k1 to k2 to k3, as operators are told to serialize
\* them, and one that competes with the first.
MCPlans == {Pl("k1", "k2", 1, 1, 2), Pl("k2", "k3", 3, 4, 5), Pl("k1", "k4", 2, 3, 3)}

=============================================================================
