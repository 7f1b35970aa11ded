-------------------------- MODULE MCRegisterClient --------------------------
(* Small instances of RegisterClient. *)
EXTENDS RegisterClient, TLC

CONSTANTS e1, e2, c1, c2

OwnNames == [e \in Emails |-> e]

Interchangeable == Permutations(Calls)
=============================================================================
