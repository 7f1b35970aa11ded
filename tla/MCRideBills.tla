---------------------------- MODULE MCRideBills ----------------------------
(* Small instances of RideBills. *)
EXTENDS RideBills, TLC

CONSTANTS u1, u2, b1, b2, m1, m2, r1, p1, p2, p3

\* One route named in both directions, and another that shares an end.
TripsBothWays == {[from |-> p1, to |-> p2, ride |-> r1],
                  [from |-> p2, to |-> p1, ride |-> NoRoute],
                  [from |-> p1, to |-> p3, ride |-> NoRoute]}

OneTrip == {[from |-> p1, to |-> p2, ride |-> r1]}

\* Every execution belongs to the same student.
OneStudent == [x \in Bookers \cup Markers |-> u1]

\* b2 books for u2, everything else is u1's.
TwoStudents == [x \in Bookers \cup Markers |-> IF x = b2 THEN u2 ELSE u1]

Interchangeable == Permutations(Bookers)

InterchangeableMarkers == Permutations(Markers)
=============================================================================
