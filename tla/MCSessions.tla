----------------------------- MODULE MCSessions -----------------------------
(* Small instances of Sessions. *)
EXTENDS Sessions, TLC

CONSTANTS u1, s1, s2, l1, l2, c1, c2

AdminFirst == [u \in Users |-> "Admin"]

Interchangeable == Permutations(Sids) \cup Permutations(Closers)
=============================================================================
