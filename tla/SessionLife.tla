---------------------------- MODULE SessionLife ----------------------------
(***************************************************************************)
(* What a login session promises its user: it is issued once, and once it  *)
(* has ended, by a logout, a revocation or its 24 hours, no request can    *)
(* ever use it again.                                                      *)
(***************************************************************************)
CONSTANT Sids

VARIABLE life

Init == life = [s \in Sids |-> "unissued"]

Issue(s) ==
    /\ life[s] = "unissued"
    /\ life' = [life EXCEPT ![s] = "live"]

\* Several sessions may reach their end at the same instant.
End(S) ==
    /\ \A s \in S : life[s] = "live"
    /\ life' = [s \in Sids |-> IF s \in S THEN "ended" ELSE life[s]]

Next ==
    \/ \E s \in Sids : Issue(s)
    \/ \E S \in SUBSET Sids : End(S)

Spec == Init /\ [][Next]_life
=============================================================================
