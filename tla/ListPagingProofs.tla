-------------------------- MODULE ListPagingProofs --------------------------
(***************************************************************************)
(* What the paging of the tables does for every number of rows and pages.  *)
(***************************************************************************)
EXTENDS ListPaging, FiniteSetTheorems, TLAPS

\* Mathematics of the rounded-up quotient.
LEMMA CeilingBounds ==
    ASSUME NEW n \in Nat \ {0}, NEW ps \in Nat \ {0}
    PROVE  LET tp == TotalPages(n, ps) IN
           /\ tp \in Nat \ {0}
           /\ (tp - 1) * ps < n
           /\ n <= tp * ps
<1> DEFINE m == n + ps - 1
           tp == m \div ps
<1>1. m \in Nat /\ m >= ps
  OBVIOUS
<1>2. tp \in Int /\ m % ps \in 0 .. ps - 1 /\ m = ps * tp + (m % ps)
  BY <1>1
<1>3. ps * tp > m - ps
  BY <1>1, <1>2
<1>4. tp >= 1
  <2>1. SUFFICES ASSUME tp <= 0 PROVE FALSE
    BY <1>2
  <2>2. ps * tp <= 0
    BY <2>1, <1>2
  <2>3. m < ps
    BY <2>2, <1>2
  <2> QED BY <2>3, <1>1
<1>5. tp * ps = ps * tp /\ (tp - 1) * ps = ps * tp - ps
  BY <1>2
<1>6. (tp - 1) * ps < n /\ n <= tp * ps
  BY <1>1, <1>2, <1>3, <1>5
<1>7. TotalPages(n, ps) = tp
  BY DEF TotalPages
<1> QED BY <1>2, <1>4, <1>6, <1>7

\* The clamped page of a table that has rows shows some, whatever page it was on and
\* however many rows have gone.
THEOREM ClampShowsRows ==
    ASSUME NEW n \in Nat \ {0}, NEW ps \in Nat \ {0}, NEW p \in Nat \ {0}
    PROVE  LET cp == Clamp(p, TotalPages(n, ps)) IN
           /\ cp \in 1 .. TotalPages(n, ps)
           /\ ShownRows(n, cp, ps) # {}
<1> DEFINE tp == TotalPages(n, ps)
           cp == Clamp(p, tp)
           i == (cp - 1) * ps + 1
<1>1. tp \in Nat \ {0} /\ (tp - 1) * ps < n
  BY CeilingBounds
<1>2. cp \in 1 .. tp
  BY <1>1 DEF Clamp
<1> HIDE DEF tp, cp
<1>3. (cp - 1) * ps \in Nat /\ (cp - 1) * ps <= (tp - 1) * ps
  <2>1. PICK d \in Nat : tp - 1 = (cp - 1) + d
    <3>1. tp - cp \in Nat /\ tp - 1 = (cp - 1) + (tp - cp)
      BY <1>1, <1>2
    <3> QED BY <3>1
  <2>2. (tp - 1) * ps = (cp - 1) * ps + d * ps
    BY <2>1, <1>2
  <2>3. d * ps \in Nat /\ (cp - 1) * ps \in Nat
    BY <1>2, <2>1
  <2>4. (tp - 1) * ps \in Nat
    BY <1>1
  <2> QED BY <2>2, <2>3, <2>4
<1>4. cp * ps = (cp - 1) * ps + ps
  BY <1>2
<1>5. i \in 1 .. n /\ (cp - 1) * ps < i /\ i <= cp * ps
  <2>1. (tp - 1) * ps \in Nat
    BY <1>1
  <2> QED BY <1>1, <1>3, <1>4, <2>1
<1>6. i \in ShownRows(n, cp, ps)
  BY <1>5 DEF ShownRows
<1> QED BY <1>2, <1>6 DEF tp, cp

LEMMA TotalPagesType ==
    ASSUME NEW n \in Nat, NEW ps \in Nat \ {0}
    PROVE  TotalPages(n, ps) \in Nat \ {0}
<1>1. CASE n = 0
  BY <1>1 DEF TotalPages
<1>2. CASE n # 0
  BY <1>2, CeilingBounds
<1> QED BY <1>1, <1>2

\* A clamped page exists.
LEMMA ClampedPage ==
    ASSUME NEW n \in Nat, NEW ps \in Nat \ {0}, NEW p \in Nat \ {0}
    PROVE  Clamp(p, TotalPages(n, ps)) \in 1 .. TotalPages(n, ps)
<1>1. TotalPages(n, ps) \in Nat \ {0}
  BY TotalPagesType
<1> QED BY <1>1 DEF Clamp

\* In a finite set of numbers, listed from the greatest, every place is somebody's.
LEMMA EveryRankIsTaken ==
    ASSUME NEW S \in SUBSET Nat, IsFiniteSet(S), NEW i \in 1 .. Cardinality(S)
    PROVE  \E s \in S : Cardinality({q \in S : q >= s}) = i
<1> DEFINE Above(s) == {q \in S : q >= s}
           rank == [s \in S |-> Cardinality(Above(s))]
           n == Cardinality(S)
<1>1. n \in Nat
  BY FS_CardinalityType
<1>2. ASSUME NEW s \in S
      PROVE  IsFiniteSet(Above(s)) /\ Cardinality(Above(s)) \in 1 .. n
  <2>1. IsFiniteSet(Above(s)) /\ Cardinality(Above(s)) <= n
    BY FS_Subset
  <2>2. s \in Above(s)
    OBVIOUS
  <2>3. Cardinality(Above(s)) \in Nat /\ Cardinality(Above(s)) # 0
    BY <2>1, <2>2, FS_CardinalityType, FS_EmptySet
  <2> QED BY <1>1, <2>1, <2>3
<1>3. ASSUME NEW s \in S, NEW t \in S, s < t
      PROVE  Cardinality(Above(s)) # Cardinality(Above(t))
  <2>0. s \in Nat /\ t \in Nat
    OBVIOUS
  <2>1. Above(t) \subseteq Above(s) /\ s \in Above(s) /\ s \notin Above(t)
    <3>1. \A q \in S : q >= t => q >= s
      BY <1>3, <2>0
    <3>2. s >= s /\ ~(s >= t)
      BY <1>3, <2>0
    <3>3. \A q : q \in Above(t) <=> q \in S /\ q >= t
      OBVIOUS
    <3>4. \A q : q \in Above(s) <=> q \in S /\ q >= s
      OBVIOUS
    <3> HIDE DEF Above, rank, n
    <3> QED BY <3>1, <3>2, <3>3, <3>4
  <2>2. Above(t) \in SUBSET Above(s) /\ Above(s) # Above(t)
    BY <2>1
  <2>3. IsFiniteSet(Above(s))
    BY <1>2
  <2> HIDE DEF Above
  <2> QED BY <2>2, <2>3, FS_Subset
<1>4. \A s, t \in S : s # t => Cardinality(Above(s)) # Cardinality(Above(t))
  <2>1. \A s, t \in S : s # t => s < t \/ t < s
    OBVIOUS
  <2> QED BY <1>3, <2>1
<1> HIDE DEF Above
<1>5. rank \in Injection(S, 1 .. n)
  <2>1. rank \in [S -> 1 .. n]
    BY <1>2
  <2>2. \A s, t \in S : rank[s] = rank[t] => s = t
    BY <1>4
  <2> QED BY <2>1, <2>2 DEF Injection, IsInjective
<1>6. IsFiniteSet(1 .. n) /\ Cardinality(1 .. n) = n
  <2>1. IsFiniteSet(1 .. n) /\ Cardinality(1 .. n) = IF 1 > n THEN 0 ELSE n - 1 + 1
    BY <1>1, FS_Interval
  <2> QED BY <1>1, <2>1
<1>7. rank \in Surjection(S, 1 .. n)
  BY <1>5, <1>6, FS_Injection
<1>8. \E s \in S : rank[s] = i
  BY <1>7 DEF Surjection
<1> QED BY <1>8 DEF Above

\* A list that has rows shows some on every page that exists.
LEMMA ExistingPageShowsRows ==
    ASSUME NEW S \in SUBSET Nat, IsFiniteSet(S), S # {},
           NEW ps \in Nat \ {0}, NEW cp \in 1 .. TotalPages(Cardinality(S), ps)
    PROVE  {s \in S : Cardinality({q \in S : q >= s}) \in ShownRows(Cardinality(S), cp, ps)} # {}
<1> DEFINE n == Cardinality(S)
<1>1. n \in Nat \ {0}
  BY FS_CardinalityType, FS_EmptySet
<1>2. TotalPages(n, ps) \in Nat \ {0}
  BY <1>1, TotalPagesType
<1>3. cp \in Nat \ {0} /\ Clamp(cp, TotalPages(n, ps)) = cp
  BY <1>2 DEF Clamp
<1>4. ShownRows(n, cp, ps) # {}
  <2>1. ShownRows(n, Clamp(cp, TotalPages(n, ps)), ps) # {}
    BY <1>1, <1>3, ClampShowsRows
  <2> QED BY <1>3, <2>1
<1>5. PICK i \in ShownRows(n, cp, ps) : TRUE
  BY <1>4
<1>6. i \in 1 .. n
  BY <1>5 DEF ShownRows
<1>7. PICK s \in S : Cardinality({q \in S : q >= s}) = i
  BY <1>6, EveryRankIsTaken
<1> QED BY <1>5, <1>7

\* For every number of pages and every current page, the row of buttons offers the first
\* page, the last one and the current one, only pages that exist, and in order.
THEOREM ItemsOfferPages ==
    ASSUME NEW tp \in Nat \ {0}, NEW cp \in 1 .. tp
    PROVE  OffersPages(cp, tp)
<1> DEFINE items == getPaginationItems(cp, tp)
           pages == {items[i] : i \in DOMAIN items} \ {Ellipsis}
<1>1. CASE tp <= 5
  <2>1. items = [i \in 1 .. tp |-> i]
    BY <1>1 DEF getPaginationItems
  <2> QED BY <2>1 DEF OffersPages, Ellipsis
<1>2. CASE tp > 5 /\ cp <= 3
  <2>1. items = <<1, 2, 3, 0, tp>>
    BY <1>2 DEF getPaginationItems, Ellipsis
  <2>2. DOMAIN items = 1 .. 5 /\ items[1] = 1 /\ items[2] = 2 /\ items[3] = 3 /\ items[4] = 0 /\ items[5] = tp
    BY <2>1
  <2> HIDE DEF items
  <2>3. {1, cp, tp} \subseteq pages
    BY <2>2, <1>2 DEF Ellipsis
  <2>4. pages \subseteq 1 .. tp
    BY <2>2, <1>2 DEF Ellipsis
  <2>5. \A i, j \in DOMAIN items : i < j /\ items[i] # Ellipsis /\ items[j] # Ellipsis => items[i] < items[j]
    BY <2>2, <1>2 DEF Ellipsis
  <2> QED BY <2>3, <2>4, <2>5 DEF OffersPages, items
<1>3. CASE tp > 5 /\ cp > 3 /\ cp >= tp - 2
  <2>1. items = <<1, 0, tp - 2, tp - 1, tp>>
    BY <1>3 DEF getPaginationItems, Ellipsis
  <2>2. DOMAIN items = 1 .. 5 /\ items[1] = 1 /\ items[2] = 0 /\ items[3] = tp - 2 /\ items[4] = tp - 1 /\ items[5] = tp
    BY <2>1
  <2> HIDE DEF items
  <2>3. {1, cp, tp} \subseteq pages
    BY <2>2, <1>3 DEF Ellipsis
  <2>4. pages \subseteq 1 .. tp
    BY <2>2, <1>3 DEF Ellipsis
  <2>5. \A i, j \in DOMAIN items : i < j /\ items[i] # Ellipsis /\ items[j] # Ellipsis => items[i] < items[j]
    BY <2>2, <1>3 DEF Ellipsis
  <2> QED BY <2>3, <2>4, <2>5 DEF OffersPages, items
<1>4. CASE tp > 5 /\ cp > 3 /\ cp < tp - 2
  <2>1. items = <<1, 0, cp - 1, cp, cp + 1, 0, tp>>
    BY <1>4 DEF getPaginationItems, Ellipsis
  <2>2. /\ DOMAIN items = 1 .. 7 /\ items[1] = 1 /\ items[2] = 0 /\ items[3] = cp - 1 /\ items[4] = cp
        /\ items[5] = cp + 1 /\ items[6] = 0 /\ items[7] = tp
    BY <2>1
  <2> HIDE DEF items
  <2>3. {1, cp, tp} \subseteq pages
    BY <2>2, <1>4 DEF Ellipsis
  <2>4. pages \subseteq 1 .. tp
    BY <2>2, <1>4 DEF Ellipsis
  <2>5. \A i, j \in DOMAIN items : i < j /\ items[i] # Ellipsis /\ items[j] # Ellipsis => items[i] < items[j]
    BY <2>2, <1>4 DEF Ellipsis
  <2> QED BY <2>3, <2>4, <2>5 DEF OffersPages, items
<1> QED BY <1>1, <1>2, <1>3, <1>4
=============================================================================
