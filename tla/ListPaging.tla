----------------------------- MODULE ListPaging -----------------------------
(***************************************************************************)
(* The paging that the admin pages' tables share: every page computes the  *)
(* number of pages from the rows it lists, resets the current page when a  *)
(* filter changes, clamps it when rows disappear, and offers a button for  *)
(* each item of getPaginationItems.                                        *)
(***************************************************************************)
EXTENDS Integers, Sequences

Ellipsis == 0

\* Mutant of TotalPages: an empty list has no page.
PagesOf(rows, pageSize) == (rows + pageSize - 1) \div pageSize

\* Math.max(1, Math.ceil(rows / pageSize))
TotalPages(rows, pageSize) == IF rows = 0 THEN 1 ELSE (rows + pageSize - 1) \div pageSize

\* Mutant of Clamp: the effect on totalPages is forgotten.
KeepPage(p, totalPages) == p

Clamp(p, totalPages) == IF p < totalPages THEN p ELSE totalPages

getPaginationItems(cp, tp) ==
    IF tp <= 5 THEN [i \in 1 .. tp |-> i]
    ELSE IF cp <= 3 THEN <<1, 2, 3, Ellipsis, tp>>
    ELSE IF cp >= tp - 2 THEN <<1, Ellipsis, tp - 2, tp - 1, tp>>
    ELSE <<1, Ellipsis, cp - 1, cp, cp + 1, Ellipsis, tp>>

\* The rows of a table of n rows that page cp shows, by position: slice.
ShownRows(n, cp, pageSize) == {i \in 1 .. n : (cp - 1) * pageSize < i /\ i <= cp * pageSize}

\* What the row of buttons is for: the first page, the last one and the current one
\* are offered, no other than existing pages are, and they are in increasing order.
OffersPages(cp, tp) ==
    LET items == getPaginationItems(cp, tp)
        pages == {items[i] : i \in DOMAIN items} \ {Ellipsis}
    IN  /\ {1, cp, tp} \subseteq pages
        /\ pages \subseteq 1 .. tp
        /\ \A i, j \in DOMAIN items : i < j /\ items[i] # Ellipsis /\ items[j] # Ellipsis => items[i] < items[j]
=============================================================================
