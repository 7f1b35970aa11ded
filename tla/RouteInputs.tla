----------------------------- MODULE RouteInputs -----------------------------
(***************************************************************************)
(* The constants of RideRoutesPage, and what is assumed of them: ids and   *)
(* names are ordered, and the admin finds a table that the handlers and    *)
(* the constraints of ride_locations have built.                           *)
(***************************************************************************)
EXTENDS Integers, FiniteSets

CONSTANTS
    Stops,       \* the names of the stops: positive numbers, ordered like the names
    Ids,         \* ids of routes: a SERIAL column
    Fares,
    RouteTables, \* the tables of routes the admin may find
    Searches,    \* the stops the admin searches for
    PageSizes,
    RouteActs,   \* bound on what the admin does on the page
    MaxCalls     \* bound on the requests in flight

NoStop == 0
New == 0         \* the id of a form that creates

ASSUME RoutesInputs ==
    /\ Stops \subseteq Nat \ {NoStop}
    /\ Ids \subseteq Nat \ {New} /\ IsFiniteSet(Ids)
    /\ Searches \subseteq Stops
    /\ 0 \in Fares
    /\ PageSizes \subseteq Nat \ {0} /\ 10 \in PageSizes
    /\ RouteActs \in Nat /\ MaxCalls \in Nat

Route == [from : Stops, to : Stops, fare : Fares]
TableOf(T) == UNION {[D -> T] : D \in SUBSET Ids}

\* The stops of a row are in order, and the pair is UNIQUE.
ASSUME RoutesFound ==
    \A t \in RouteTables :
        /\ t \in TableOf(Route)
        /\ \A r \in DOMAIN t : t[r].from < t[r].to
        /\ \A q, r \in DOMAIN t : t[q].from = t[r].from /\ t[q].to = t[r].to => q = r
=============================================================================
