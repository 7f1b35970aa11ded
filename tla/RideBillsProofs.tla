-------------------------- MODULE RideBillsProofs --------------------------
(***************************************************************************)
(* Theorems about RideBills, for every value of its constants.             *)
(***************************************************************************)
EXTENDS RideBills, TLAPS, FiniteSetTheorems

----------------------------------------------------------------------------
(* Calendar days. *)

LEMMA DayIsNat == ASSUME NEW t \in Nat PROVE DayOf(t) \in Nat
  BY BoundsAssumption DEF DayOf

LEMMA DayMonotone ==
    ASSUME NEW s \in Nat, NEW t \in Nat, s <= t
    PROVE  DayOf(s) <= DayOf(t)
  BY BoundsAssumption DEF DayOf

LEMMA LpadIsNat == ASSUME NEW n \in Nat PROVE Lpad(n) \in Nat
  BY BoundsAssumption DEF Lpad

----------------------------------------------------------------------------
(* Sets of stored bills are finite. *)

LEMMA BillsFinite ==
    ASSUME TypeOK, NEW S \in SUBSET DOMAIN bills
    PROVE  IsFiniteSet(S) /\ Cardinality(S) \in Nat
<1>1. IsFiniteSet(Ids)
  BY FS_Interval, BoundsAssumption DEF Ids
<1>2. S \subseteq Ids
  BY DEF TypeOK
<1>3. IsFiniteSet(S)
  BY <1>1, <1>2, FS_Subset
<1> QED
  BY <1>3, FS_CardinalityType

----------------------------------------------------------------------------
(* Type correctness. *)

LEMMA InitTypeOK == Init => TypeOK
  BY InputsAssumption, BoundsAssumption
     DEF Init, TypeOK, Booking, IdleBooking, Marking, IdleMarking, Statuses

LEMMA IdleTypes == IdleBooking \in Booking /\ IdleMarking \in Marking
  BY BoundsAssumption DEF Booking, IdleBooking, Marking, IdleMarking, Statuses

\* The status writes keep the table's type.
LEMMA SetStatusType ==
    ASSUME TypeOK, NEW i \in DOMAIN bills, NEW s \in Statuses
    PROVE  /\ DOMAIN SetStatus(i, s) = DOMAIN bills
           /\ SetStatus(i, s) \in [DOMAIN bills -> Bill]
<1>1. bills[i] \in Bill
  BY DEF TypeOK
<1>2. WithStatus(i, s) \in Bill
  <2> DEFINE flag == bills[i].revived \/ (~Live(i) /\ s # "cancelled")
  <2>1. flag \in BOOLEAN
    OBVIOUS
  <2>2. WithStatus(i, s) = [bills[i] EXCEPT !.status = s, !.revived = flag]
    BY DEF WithStatus
  <2> HIDE DEF flag
  <2> QED
    BY <1>1, <2>1, <2>2 DEF Bill
<1> QED
  BY <1>2 DEF TypeOK, SetStatus

LEMMA BookingRecord ==
    ASSUME NEW r \in Booking, NEW flag \in BOOLEAN
    PROVE  /\ [r EXCEPT !.overlapped = flag] \in Booking
           /\ [r EXCEPT !.raced = flag] \in Booking
  BY DEF Booking

LEMMA MarkingRecord ==
    ASSUME NEW r \in Marking, NEW flag \in BOOLEAN
    PROVE  [r EXCEPT !.overtaken = flag] \in Marking
  BY DEF Marking

LEMMA OvertakeType ==
    ASSUME TypeOK, NEW m \in Markers, NEW i
    PROVE  /\ Overtake(m, i) \in Marking
           /\ Overtake(m, i).pc = mark[m].pc
           /\ Overtake(m, i).id = mark[m].id
           /\ Overtake(m, i).read = mark[m].read
           /\ Overtake(m, i).to = mark[m].to
<1> DEFINE flag == mark[m].overtaken \/ (mark[m].pc = "write" /\ mark[m].id = i)
<1>1. flag \in BOOLEAN
  OBVIOUS
<1>2. mark[m] \in Marking
  BY DEF TypeOK
<1>3. Overtake(m, i) = [mark[m] EXCEPT !.overtaken = flag]
  BY DEF Overtake
<1> HIDE DEF flag
<1> QED
  BY <1>1, <1>2, <1>3, MarkingRecord DEF Marking

----------------------------------------------------------------------------
(* The base invariant: types, and the identity of the rows in flight. *)

Base == TypeOK /\ InFlight /\ Stored

LEMMA InitBase == Init => Base
  BY InitTypeOK DEF Init, Base, InFlight, Stored, Inserting, IdleBooking

\* Steps of a booking that touch neither the table nor the sequence, and leave
\* every execution where it was but b, which does not enter its INSERT.
LEMMA QuietBookingStep ==
    ASSUME Base, NEW b \in Bookers, NEW r \in Booking,
           book' = [book EXCEPT ![b] = r],
           r.pc # "idle" => r.trip \in Trips,
           r.pc \in {"number", "store"} =>
               Inserting(b) /\ r.id = book[b].id /\ r.created = book[b].created,
           UNCHANGED <<now, users, routes, bills, nextId, mark, thinned>>
    PROVE  Base'
<1>1. TypeOK'
  BY DEF Base, TypeOK
<1>2. \A c \in Bookers : /\ c = b => book'[c] = r
                         /\ c # b => book'[c] = book[c]
  BY DEF Base, TypeOK
<1>3. InFlight'
  BY <1>2 DEF Base, InFlight, Inserting
<1> QED
  BY <1>1, <1>3 DEF Base, Stored

LEMMA StartInsertBase ==
    ASSUME Base, NEW b \in Bookers, StartInsert(b)
    PROVE  Base'
<1>1. /\ nextId \in 1 .. MaxBillId
      /\ nextId' = nextId + 1
      /\ nextId' \in 1 .. MaxBillId + 1
  <2>1. nextId <= MaxBillId /\ nextId' = nextId + 1
    BY DEF StartInsert
  <2> QED
    BY <2>1, BoundsAssumption DEF Base, TypeOK
<1> DEFINE others == {c \in Bookers \ {b} : Inserting(c)}
           busy == (others # {})
           mine == [book[b] EXCEPT !.pc = "number", !.id = nextId,
                                   !.created = now, !.overlapped = busy]
           met(c) == book[c].overlapped \/ c \in others
           theirs(c) == [book[c] EXCEPT !.overlapped = met(c)]
<1>2. book' = [c \in Bookers |-> IF c = b THEN mine ELSE theirs(c)]
  BY DEF StartInsert
<1>3. busy \in BOOLEAN /\ \A c \in Bookers : met(c) \in BOOLEAN
  OBVIOUS
<1>4. \A c \in Bookers : book[c] \in Booking
  BY DEF Base, TypeOK
<1>5. /\ mine \in Booking
      /\ mine.pc = "number" /\ mine.id = nextId /\ mine.created = now
      /\ mine.trip = book[b].trip
  <2>1. /\ nextId \in 0 .. MaxBillId
        /\ now \in 0 .. MaxTime
        /\ book[b] \in Booking
    BY <1>1, <1>4, BoundsAssumption DEF Base, TypeOK
  <2> HIDE DEF busy
  <2> QED
    BY <1>3, <2>1 DEF Booking
<1>6. ASSUME NEW c \in Bookers
      PROVE  /\ theirs(c) \in Booking
             /\ theirs(c).pc = book[c].pc /\ theirs(c).id = book[c].id
             /\ theirs(c).created = book[c].created /\ theirs(c).trip = book[c].trip
  <2> DEFINE flag == met(c)
  <2>1. theirs(c) = [book[c] EXCEPT !.overlapped = flag] /\ flag \in BOOLEAN
    BY <1>3
  <2> HIDE DEF flag
  <2> QED
    BY <1>4, <2>1, BookingRecord DEF Booking
<1> HIDE DEF mine, theirs
<1>7. book' \in [Bookers -> Booking]
  BY <1>2, <1>5, <1>6
<1>8. /\ book'[b] = mine
      /\ \A c \in Bookers \ {b} : book'[c] = theirs(c)
  BY <1>2
<1>9. UNCHANGED <<now, users, routes, bills, mark, thinned>> /\ book[b].pc = "insert"
  BY DEF StartInsert
<1>10. TypeOK'
  BY <1>1, <1>7, <1>9 DEF Base, TypeOK
<1>11. InFlight'
  <2> SUFFICES ASSUME NEW c \in Bookers
               PROVE  /\ book'[c].pc # "idle" => book'[c].trip \in Trips
                      /\ Inserting(c)' =>
                           /\ book'[c].id \in 1 .. nextId' - 1
                           /\ book'[c].id \notin DOMAIN bills'
                           /\ book'[c].created <= now'
                           /\ \A d \in Bookers \ {c} :
                                 Inserting(d)' => book'[d].id # book'[c].id
    BY DEF InFlight
  <2>1. nextId \notin DOMAIN bills
    BY <1>1 DEF Base, Stored, TypeOK, Ids
  <2>2. \A d \in Bookers \ {b} : Inserting(d)' <=> Inserting(d)
    BY <1>6, <1>8 DEF Inserting
  <2>3. now \in Nat /\ now <= now
    BY BoundsAssumption DEF Base, TypeOK
  <2>4. CASE c = b
    BY <1>1, <1>5, <1>6, <1>8, <1>9, <2>1, <2>2, <2>3, <2>4 DEF Base, InFlight
  <2>5. CASE c # b
    BY <1>1, <1>5, <1>6, <1>8, <1>9, <2>2, <2>5 DEF Base, InFlight
  <2> QED
    BY <2>4, <2>5
<1>12. Stored'
  BY <1>1, <1>9 DEF Base, Stored, TypeOK, Ids
<1> QED
  BY <1>10, <1>11, <1>12 DEF Base

\* The row a booking stores has the table's type.
LEMMA NewBillType ==
    ASSUME Base, NEW b \in Bookers, book[b].pc = "store"
    PROVE  NewBill(b) \in Bill
<1>1. book[b] \in Booking /\ book[b].trip \in Trip /\ OwnerOf[b] \in Users
  BY InputsAssumption DEF Base, TypeOK, InFlight
<1> QED
  BY <1>1 DEF NewBill, Bill, Booking, Trip, Statuses

\* What storing a booking changes.
Stores(b) ==
    /\ book[b].pc = "store"
    /\ book[b].id \in Ids \ DOMAIN bills
    /\ DOMAIN bills' = DOMAIN bills \cup {book[b].id}
    /\ bills' \in [DOMAIN bills' -> Bill]
    /\ bills'[book[b].id] = NewBill(b)
    /\ \A i \in DOMAIN bills : bills'[i] = bills[i]
    /\ book' \in [Bookers -> Booking]
    /\ book'[b] = IdleBooking
    /\ \A c \in Bookers \ {b} :
          /\ book'[c].pc = book[c].pc
          /\ book'[c].trip = book[c].trip
          /\ book'[c].id = book[c].id
          /\ book'[c].created = book[c].created
          /\ book'[c].num = book[c].num
          /\ book'[c].overlapped = book[c].overlapped
          /\ book[c].raced => book'[c].raced
          /\ (OwnerOf[c] = OwnerOf[b] /\ book[c].pc # "idle") => book'[c].raced
    /\ UNCHANGED <<now, users, routes, nextId, mark, thinned>>

LEMMA StoreBookingShape ==
    ASSUME Base, NEW b \in Bookers, StoreBooking(b)
    PROVE  Stores(b)
<1> DEFINE met(c) == book[c].raced \/ (OwnerOf[c] = OwnerOf[b] /\ book[c].pc # "idle")
           theirs(c) == [book[c] EXCEPT !.raced = met(c)]
<1>1. book[b].pc = "store" /\ book[b].id \in Ids \ DOMAIN bills
  BY BoundsAssumption DEF StoreBooking, Base, InFlight, Inserting, TypeOK, Ids
<1>2. bills' = [i \in DOMAIN bills \cup {book[b].id} |->
                  IF i = book[b].id THEN NewBill(b) ELSE bills[i]]
  BY DEF StoreBooking
<1>3. book' = [c \in Bookers |-> IF c = b THEN IdleBooking ELSE theirs(c)]
  BY DEF StoreBooking
<1>4. ASSUME NEW c \in Bookers
      PROVE  /\ theirs(c) \in Booking
             /\ theirs(c) = [book[c] EXCEPT !.raced = theirs(c).raced]
             /\ theirs(c).raced = met(c)
  <2> DEFINE flag == met(c)
  <2>1. theirs(c) = [book[c] EXCEPT !.raced = flag] /\ flag \in BOOLEAN
    OBVIOUS
  <2>2. book[c] \in Booking
    BY DEF Base, TypeOK
  <2> HIDE DEF flag
  <2>3. theirs(c).raced = flag
    BY <2>1, <2>2 DEF Booking
  <2>4. theirs(c) \in Booking
    BY <2>1, <2>2, BookingRecord
  <2> QED
    BY <2>1, <2>3, <2>4 DEF flag
<1> HIDE DEF theirs
<1>5. book' \in [Bookers -> Booking] /\ book'[b] = IdleBooking
  BY <1>3, <1>4, IdleTypes
<1>6. ASSUME NEW c \in Bookers \ {b}
      PROVE  /\ book'[c] = theirs(c)
             /\ book[c] \in Booking
             /\ book'[c].raced = met(c)
  BY <1>3, <1>4 DEF Base, TypeOK
<1>7. ASSUME NEW c \in Bookers \ {b}
      PROVE  /\ book'[c].pc = book[c].pc
             /\ book'[c].trip = book[c].trip
             /\ book'[c].id = book[c].id
             /\ book'[c].created = book[c].created
             /\ book'[c].num = book[c].num
             /\ book'[c].overlapped = book[c].overlapped
  BY <1>4, <1>6 DEF Booking
<1>8. /\ DOMAIN bills' = DOMAIN bills \cup {book[b].id}
      /\ bills' \in [DOMAIN bills' -> Bill]
      /\ bills'[book[b].id] = NewBill(b)
      /\ \A i \in DOMAIN bills : bills'[i] = bills[i]
  BY <1>1, <1>2, NewBillType DEF Base, TypeOK
<1>9. UNCHANGED <<now, users, routes, nextId, mark, thinned>>
  BY DEF StoreBooking
<1> QED
  BY <1>1, <1>5, <1>6, <1>7, <1>8, <1>9 DEF Stores

LEMMA StoreBookingBase ==
    ASSUME Base, NEW b \in Bookers, StoreBooking(b)
    PROVE  Base'
<1>1. Stores(b)
  BY StoreBookingShape
<1> USE DEF Stores
<1>2. TypeOK'
  BY <1>1 DEF Base, TypeOK
<1>3. \A c \in Bookers \ {b} : Inserting(c)' <=> Inserting(c)
  BY <1>1 DEF Inserting
<1>4. ~Inserting(b)' /\ book'[b].pc = "idle"
  BY <1>1 DEF Inserting, IdleBooking
<1>5. \A c \in Bookers \ {b} : Inserting(c) => book[c].id # book[b].id
  BY <1>1 DEF Base, InFlight, Inserting
<1>6. InFlight'
  BY <1>1, <1>3, <1>4, <1>5 DEF Base, InFlight
<1>7. Stored'
  <2>1. NewBill(b).created = book[b].created
    BY DEF NewBill
  <2>2. book[b].created <= now /\ book[b].id < nextId
    BY <1>1 DEF Base, InFlight, Inserting, TypeOK
  <2> QED
    BY <1>1, <2>1, <2>2 DEF Base, Stored
<1> QED
  BY <1>2, <1>6, <1>7 DEF Base

LEMMA BookingBase ==
    ASSUME Base, NEW b \in Bookers, BookingStep(b)
    PROVE  Base'
<1> USE DEF Base
<1>0. book[b] \in Booking
  BY DEF TypeOK
<1>1. ASSUME NEW trip \in Trips, BeginBooking(b, trip) PROVE Base'
  <2> DEFINE r == [book[b] EXCEPT !.pc = "route", !.trip = trip]
  <2>1. r \in Booking /\ r.pc = "route" /\ r.trip = trip
    BY <1>0, InputsAssumption DEF Booking
  <2>2. book' = [book EXCEPT ![b] = r]
    BY <1>1, <1>0 DEF BeginBooking, TypeOK, Booking
  <2> HIDE DEF r
  <2> QED
    BY <1>1, <2>1, <2>2, QuietBookingStep DEF BeginBooking
<1>2. ASSUME RefuseBooking(b), UNCHANGED <<now, users, routes, bills, nextId, mark, thinned>>
      PROVE  Base'
  BY <1>2, IdleTypes, QuietBookingStep DEF RefuseBooking, IdleBooking
<1>3. ASSUME NEW pc \in {"any", "insert"}, book[b].pc # "idle",
             book' = [book EXCEPT ![b].pc = pc],
             UNCHANGED <<now, users, routes, bills, nextId, mark, thinned>>
      PROVE  Base'
  <2> DEFINE r == [book[b] EXCEPT !.pc = pc]
  <2>1. r \in Booking /\ r.pc = pc /\ r.trip = book[b].trip
    BY <1>0, <1>3 DEF Booking
  <2>2. book' = [book EXCEPT ![b] = r]
    BY <1>3
  <2>3. r.trip \in Trips
    BY <1>3, <2>1 DEF InFlight
  <2> HIDE DEF r
  <2> QED
    BY <1>3, <2>1, <2>2, <2>3, QuietBookingStep
<1>4. CASE CheckRouteCooldown(b)
  BY <1>2, <1>3, <1>4 DEF CheckRouteCooldown
<1>5. CASE CheckAnyCooldown(b)
  BY <1>2, <1>3, <1>5 DEF CheckAnyCooldown
<1>6. CASE GenerateRideNumber(b)
  <2> DEFINE day == DayOf(book[b].created)
             seq == Cardinality(EarlierThatDay(book[b].id, day)) + 1
             r == [book[b] EXCEPT !.pc = "store", !.num = <<day, Lpad(seq)>>]
  <2>1. day \in Nat
    BY <1>0, DayIsNat, BoundsAssumption DEF Booking
  <2>2. seq \in Nat
    BY BillsFinite DEF EarlierThatDay
  <2>3. <<day, Lpad(seq)>> \in Nat \X Nat
    BY <2>1, <2>2, LpadIsNat
  <2>4. book' = [book EXCEPT ![b].pc = "store", ![b].num = <<day, Lpad(seq)>>]
    BY <1>6 DEF GenerateRideNumber
  <2> HIDE DEF day, seq
  <2>5. /\ r \in Booking /\ r.pc = "store" /\ r.trip = book[b].trip
        /\ r.id = book[b].id /\ r.created = book[b].created
    BY <1>0, <2>3 DEF Booking
  <2>6. book' = [book EXCEPT ![b] = r]
    BY <1>0, <2>4 DEF TypeOK
  <2>7. Inserting(b) /\ r.trip \in Trips
    BY <1>6, <2>5 DEF GenerateRideNumber, Inserting, InFlight
  <2> HIDE DEF r
  <2> QED
    BY <1>6, <2>5, <2>6, <2>7, QuietBookingStep DEF GenerateRideNumber
<1>7. CASE StartInsert(b)
  BY <1>7, StartInsertBase
<1>8. CASE StoreBooking(b)
  BY <1>8, StoreBookingBase
<1>9. CASE RefuseRow(b)
  BY <1>2, <1>9 DEF RefuseRow
<1>10. CASE AbortBooking(b)
  BY <1>2, <1>10 DEF AbortBooking
<1> QED
  BY <1>1, <1>4, <1>5, <1>6, <1>7, <1>8, <1>9, <1>10 DEF BookingStep

\* Rows may go, and what a row holds of its booking stays; no row joins those
\* that were live ever since they were booked.
OnlyLoses ==
    /\ DOMAIN bills' \subseteq DOMAIN bills
    /\ bills' \in [DOMAIN bills' -> Bill]
    /\ \A i \in DOMAIN bills' :
          /\ bills'[i].user = bills[i].user
          /\ bills'[i].from = bills[i].from
          /\ bills'[i].to = bills[i].to
          /\ bills'[i].created = bills[i].created
          /\ bills'[i].num = bills[i].num
          /\ bills'[i].raced = bills[i].raced
          /\ (bills'[i].status # "cancelled" /\ ~bills'[i].revived) =>
                (bills[i].status # "cancelled" /\ ~bills[i].revived)

LEMMA SetStatusOnlyLoses ==
    ASSUME TypeOK, NEW i \in DOMAIN bills, NEW s \in Statuses, bills' = SetStatus(i, s)
    PROVE  OnlyLoses /\ DOMAIN bills' = DOMAIN bills
<1>1. DOMAIN bills' = DOMAIN bills /\ bills' \in [DOMAIN bills -> Bill]
  BY SetStatusType
<1>2. \A j \in DOMAIN bills : bills'[j] = IF j = i THEN WithStatus(i, s) ELSE bills[j]
  BY DEF SetStatus, TypeOK
<1>3. /\ WithStatus(i, s).user = bills[i].user
      /\ WithStatus(i, s).from = bills[i].from
      /\ WithStatus(i, s).to = bills[i].to
      /\ WithStatus(i, s).created = bills[i].created
      /\ WithStatus(i, s).num = bills[i].num
      /\ WithStatus(i, s).raced = bills[i].raced
      /\ WithStatus(i, s).status = s
  BY DEF WithStatus, TypeOK, Bill
<1>4. (s # "cancelled" /\ ~WithStatus(i, s).revived) =>
         (bills[i].status # "cancelled" /\ ~bills[i].revived)
  BY DEF WithStatus, Live, TypeOK, Bill
<1> QED
  BY <1>1, <1>2, <1>3, <1>4 DEF OnlyLoses

LEMMA RemoveBillsOnlyLoses ==
    ASSUME TypeOK, NEW gone \in SUBSET DOMAIN bills, RemoveBills(gone)
    PROVE  /\ OnlyLoses
           /\ DOMAIN bills' = DOMAIN bills \ gone
           /\ \A i \in DOMAIN bills' : bills'[i] = bills[i]
           /\ thinned' \subseteq Days
<1>1. bills' = [i \in DOMAIN bills \ gone |-> bills[i]]
  BY DEF RemoveBills
<1>2. \A i \in DOMAIN bills : bills[i].created \in 0 .. MaxTime
  BY DEF TypeOK, Bill
<1>3. thinned' \subseteq Days
  BY <1>2 DEF RemoveBills, TypeOK, Days
<1> QED
  BY <1>1, <1>3 DEF OnlyLoses, TypeOK

LEMMA MarkingStepShape ==
    ASSUME TypeOK, NEW m \in Markers, MarkingStep(m)
    PROVE  /\ OnlyLoses
           /\ mark' \in [Markers -> Marking]
           /\ UNCHANGED <<now, users, routes, nextId, book, thinned>>
<1>0. UNCHANGED bills => OnlyLoses
  BY DEF OnlyLoses, TypeOK
<1>1. ASSUME NEW i \in DOMAIN bills, NEW t \in {"arrived", "completed"}, ReadMyBill(m, i, t)
      PROVE  mark' \in [Markers -> Marking]
  <2>1. i \in 0 .. MaxBillId /\ bills[i].status \in Statuses
    BY BoundsAssumption DEF TypeOK, Ids, Bill
  <2> QED
    BY <1>1, <2>1 DEF ReadMyBill, TypeOK, Marking
<1>2. CASE WriteMyBill(m)
  <2>1. mark' \in [Markers -> Marking]
    BY <1>2, OvertakeType, IdleTypes DEF WriteMyBill, TypeOK
  <2>2. mark[m].to \in Statuses
    BY DEF TypeOK, Marking, Statuses
  <2> QED
    BY <1>2, <2>1, <2>2, SetStatusOnlyLoses DEF WriteMyBill
<1>3. CASE AbortMarking(m)
  BY <1>0, <1>3, IdleTypes DEF AbortMarking, TypeOK
<1> QED
  BY <1>0, <1>1, <1>2, <1>3 DEF MarkingStep, ReadMyBill

LEMMA AdminStepShape ==
    ASSUME TypeOK, AdminStep
    PROVE  /\ OnlyLoses
           /\ mark' \in [Markers -> Marking]
           /\ users' \subseteq users /\ routes' \subseteq routes
           /\ thinned' \subseteq Days
           /\ UNCHANGED <<now, nextId, book>>
<1> USE DEF TypeOK
<1>1. ASSUME NEW i \in DOMAIN bills, NEW s \in AdminStatuses, UpdateRideBill(i, s)
      PROVE  /\ OnlyLoses
             /\ mark' \in [Markers -> Marking]
  BY <1>1, InputsAssumption, OvertakeType, SetStatusOnlyLoses DEF UpdateRideBill
<1>2. ASSUME NEW i \in DOMAIN bills, DeleteRideBill(i)
      PROVE  OnlyLoses /\ thinned' \subseteq Days
  BY <1>2, RemoveBillsOnlyLoses DEF DeleteRideBill
<1>3. ASSUME NEW u \in users, DeleteUser(u)
      PROVE  OnlyLoses /\ thinned' \subseteq Days
  BY <1>3, RemoveBillsOnlyLoses DEF DeleteUser
<1>4. ASSUME NEW r \in routes, DeleteRideLocation(r)
      PROVE  OnlyLoses
  <2>1. \A i \in DOMAIN bills : [bills[i] EXCEPT !.ride = NoRoute] \in Bill
    BY DEF Bill
  <2> QED
    BY <1>4, <2>1 DEF DeleteRideLocation, OnlyLoses, Bill
<1> QED
  BY <1>1, <1>2, <1>3, <1>4
     DEF AdminStep, UpdateRideBill, DeleteRideBill, DeleteUser, DeleteRideLocation

LEMMA BaseStep == Base /\ [Next]_vars => Base'
<1> SUFFICES ASSUME Base, [Next]_vars PROVE Base'
  OBVIOUS
<1>1. ASSUME NEW b \in Bookers, BookingStep(b) PROVE Base'
  BY <1>1, BookingBase
<1>2. ASSUME OnlyLoses, mark' \in [Markers -> Marking], users' \subseteq users,
             routes' \subseteq routes, thinned' \subseteq Days,
             UNCHANGED <<now, nextId, book>>
      PROVE  Base'
  <2>1. TypeOK'
    BY <1>2 DEF Base, TypeOK, OnlyLoses
  <2>2. InFlight'
    BY <1>2 DEF Base, InFlight, Inserting, OnlyLoses
  <2>3. Stored'
    BY <1>2 DEF Base, Stored, OnlyLoses
  <2> QED
    BY <2>1, <2>2, <2>3 DEF Base
<1>3. ASSUME NEW m \in Markers, MarkingStep(m) PROVE Base'
  BY <1>2, <1>3, MarkingStepShape DEF Base, TypeOK
<1>4. CASE AdminStep
  BY <1>2, <1>4, AdminStepShape DEF Base
<1>5. CASE Tick
  <2>1. now' \in 0 .. MaxTime /\ now <= now'
    BY <1>5, BoundsAssumption DEF Tick, Base, TypeOK
  <2>2. TypeOK'
    BY <1>5, <2>1 DEF Tick, Base, TypeOK
  <2>3. InFlight'
    BY <1>5, <2>1 DEF Tick, Base, InFlight, Inserting, TypeOK, Booking
  <2>4. Stored'
    BY <1>5, <2>1 DEF Tick, Base, Stored, TypeOK, Bill
  <2> QED
    BY <2>2, <2>3, <2>4 DEF Base
<1>6. CASE UNCHANGED vars
  BY <1>6 DEF vars, Base, TypeOK, InFlight, Inserting, Stored
<1> QED
  BY <1>1, <1>3, <1>4, <1>5, <1>6 DEF Next

\* Every state of every run of the handlers is well typed, and each booking in
\* flight holds an id nobody else holds or has stored.
THEOREM BaseInvariance == Spec => []Base
<1>1. Spec => Init /\ [][Next]_vars
  BY DEF Spec
<1> QED
  BY <1>1, InitBase, BaseStep, PTL

\* The declared types of the table and of the handlers' locals are kept.
THEOREM TypeCorrect == Spec => []TypeOK
<1>1. Base => TypeOK
  BY DEF Base
<1> QED
  BY <1>1, BaseInvariance, PTL

----------------------------------------------------------------------------
(* The booking restrictions. *)

\* Execution c goes on with the booking it had, checked at the same instant.
Continues(c) ==
    /\ book[c].pc # "idle"
    /\ book'[c].trip = book[c].trip
    /\ book'[c].raced = book[c].raced
    /\ At(c)' = At(c)

\* A booking step that stores nothing: what each execution holds afterwards.
LEMMA BookingShape ==
    ASSUME Base, Base', NEW b \in Bookers, BookingStep(b), ~StoreBooking(b)
    PROVE  /\ UNCHANGED <<now, users, routes, bills, mark>>
           /\ \A c \in Bookers :
                 \/ book'[c].pc = "idle"
                 \/ /\ Continues(c)
                    /\ \/ book'[c].pc = book[c].pc
                       \/ CheckRouteCooldown(c) /\ book'[c].pc = "any"
                       \/ CheckAnyCooldown(c) /\ book'[c].pc = "insert"
                       \/ book[c].pc \in {"insert", "number", "store"}
                 \/ /\ c = b
                    /\ \E trip \in Trips : BeginBooking(b, trip)
                    /\ book'[c].pc = "route" /\ ~Inserting(c)'
<1> USE DEF Base, TypeOK, Inserting, At, Continues
<1>0. \A c \in Bookers : book[c] \in Booking
  OBVIOUS
<1>1. ASSUME NEW trip \in Trips, BeginBooking(b, trip)
      PROVE  book'[b].pc = "route" /\ \A c \in Bookers \ {b} : book'[c] = book[c]
  BY <1>0, <1>1 DEF BeginBooking, Booking
<1>2. ASSUME RefuseBooking(b)
      PROVE  book'[b].pc = "idle" /\ \A c \in Bookers \ {b} : book'[c] = book[c]
  BY <1>2 DEF RefuseBooking, IdleBooking
<1>3. ASSUME NEW pc \in {"any", "insert"}, book' = [book EXCEPT ![b].pc = pc]
      PROVE  /\ book'[b].pc = pc
             /\ book'[b].trip = book[b].trip
             /\ book'[b].raced = book[b].raced
             /\ \A c \in Bookers \ {b} : book'[c] = book[c]
  BY <1>0, <1>3 DEF Booking
<1>4. CASE CheckRouteCooldown(b)
  BY <1>2, <1>3, <1>4 DEF CheckRouteCooldown
<1>5. CASE CheckAnyCooldown(b)
  BY <1>2, <1>3, <1>5 DEF CheckAnyCooldown
<1>6. CASE StartInsert(b)
  <2> DEFINE others == {c \in Bookers \ {b} : Inserting(c)}
             busy == (others # {})
             met(c) == book[c].overlapped \/ c \in others
  <2>1. book' = [c \in Bookers |->
                   IF c = b
                     THEN [book[b] EXCEPT !.pc = "number", !.id = nextId,
                                          !.created = now, !.overlapped = busy]
                     ELSE [book[c] EXCEPT !.overlapped = met(c)]]
    BY <1>6 DEF StartInsert
  <2>2. /\ book'[b].pc = "number"
        /\ book'[b].created = now
        /\ book'[b].trip = book[b].trip
        /\ book'[b].raced = book[b].raced
    <3> HIDE DEF busy
    <3>1. book'[b] = [book[b] EXCEPT !.pc = "number", !.id = nextId,
                                     !.created = now, !.overlapped = busy]
      BY <2>1
    <3> QED
      BY <1>0, <3>1 DEF Booking
  <2>3. ASSUME NEW c \in Bookers \ {b}
        PROVE  /\ book'[c].pc = book[c].pc
               /\ book'[c].trip = book[c].trip
               /\ book'[c].created = book[c].created
               /\ book'[c].raced = book[c].raced
    <3> DEFINE flag == met(c)
    <3>1. book'[c] = [book[c] EXCEPT !.overlapped = flag]
      BY <2>1
    <3> HIDE DEF flag
    <3> QED
      BY <1>0, <3>1 DEF Booking
  <2>4. /\ book[b].pc = "insert"
        /\ UNCHANGED <<now, users, routes, bills, mark>>
    BY <1>6 DEF StartInsert
  <2>5. Continues(b)
    BY <2>2, <2>4
  <2>6. \A c \in Bookers \ {b} :
           book'[c].pc = book[c].pc /\ (book'[c].pc = "idle" \/ Continues(c))
    BY <2>3, <2>4
  <2> QED
    BY <2>4, <2>5, <2>6
<1>7. CASE GenerateRideNumber(b)
  <2> DEFINE num == <<DayOf(book[b].created),
                      Lpad(Cardinality(EarlierThatDay(book[b].id, DayOf(book[b].created))) + 1)>>
  <2>1. book' = [book EXCEPT ![b].pc = "store", ![b].num = num] /\ book[b].pc = "number"
    BY <1>7 DEF GenerateRideNumber
  <2> HIDE DEF num
  <2>2. /\ book'[b].pc = "store"
        /\ book'[b].created = book[b].created
        /\ book'[b].trip = book[b].trip
        /\ book'[b].raced = book[b].raced
        /\ \A c \in Bookers \ {b} : book'[c] = book[c]
    BY <1>0, <2>1 DEF Booking
  <2> QED
    BY <1>7, <2>1, <2>2 DEF GenerateRideNumber
<1>8. CASE RefuseRow(b) \/ AbortBooking(b)
  BY <1>2, <1>8 DEF RefuseRow, AbortBooking
<1> QED
  BY <1>1, <1>4, <1>5, <1>6, <1>7, <1>8 DEF BookingStep, BeginBooking

LEMMA UnracedFinite ==
    ASSUME TypeOK, NEW u, NEW day
    PROVE  IsFiniteSet(Unraced(u, day)) /\ Cardinality(Unraced(u, day)) \in Nat
  BY BillsFinite DEF Unraced, Kept, LiveBillsOf

LEMMA UnracedShrinks ==
    ASSUME TypeOK, OnlyLoses, NEW u, NEW day
    PROVE  /\ Cardinality(Unraced(u, day)') \in Nat
           /\ Cardinality(Unraced(u, day)') <= Cardinality(Unraced(u, day))
<1>1. Unraced(u, day)' \subseteq Unraced(u, day)
  BY DEF OnlyLoses, Unraced, Kept, LiveBillsOf, Live
<1> QED
  BY <1>1, UnracedFinite, FS_Subset, FS_CardinalityType

LimitInv == RoomForUnraced /\ UnracedDailyLimit

LEMMA InitLimit == Init => LimitInv
<1> SUFFICES ASSUME Init PROVE LimitInv
  OBVIOUS
<1>1. \A u, day : Unraced(u, day) = {}
  BY DEF Init, Unraced, Kept, LiveBillsOf
<1>2. Cardinality({}) = 0
  BY FS_EmptySet
<1>3. UnracedDailyLimit
  BY <1>1, <1>2, BoundsAssumption DEF UnracedDailyLimit
<1>4. RoomForUnraced
  BY DEF Init, RoomForUnraced, IdleBooking
<1> QED
  BY <1>3, <1>4 DEF LimitInv

\* A day that has not begun holds no bill.
LEMMA FutureDayHasNoBill ==
    ASSUME Base, NEW t \in Nat, DayOf(t) # DayOf(now), now <= t, NEW i \in DOMAIN bills
    PROVE  DayOf(bills[i].created) # DayOf(t)
<1>1. bills[i].created \in Nat /\ now \in Nat /\ bills[i].created <= now
  BY BoundsAssumption DEF Base, Stored, TypeOK, Bill
<1>2. DayOf(bills[i].created) <= DayOf(now) /\ DayOf(now) <= DayOf(t)
  BY <1>1, DayMonotone
<1> QED
  BY <1>1, <1>2, DayIsNat

LEMMA FutureDayEmpty ==
    ASSUME Base, NEW u, NEW t \in Nat, DayOf(t) # DayOf(now), now <= t
    PROVE  Kept(u, DayOf(t)) = {} /\ Cardinality(Unraced(u, DayOf(t))) = 0
<1>1. Kept(u, DayOf(t)) = {}
  BY FutureDayHasNoBill DEF Kept, LiveBillsOf
<1>2. Unraced(u, DayOf(t)) = {}
  BY <1>1 DEF Unraced
<1> QED
  BY <1>1, <1>2, FS_EmptySet

LEMMA StoreBookingLimit ==
    ASSUME Base, Base', LimitInv, NEW b \in Bookers, Stores(b)
    PROVE  LimitInv'
<1> DEFINE owner == OwnerOf[b]
<1>a. PICK id : id = book[b].id
  OBVIOUS
<1>b. PICK day : day = DayOf(book[b].created)
  OBVIOUS
<1>1. /\ NewBill(b).user = owner
      /\ NewBill(b).created = book[b].created
      /\ NewBill(b).raced = book[b].raced
  BY DEF NewBill
<1>2. ASSUME NEW u, NEW d, u # owner \/ d # day \/ book[b].raced
      PROVE  Unraced(u, d)' \subseteq Unraced(u, d)
  BY <1>1, <1>2, <1>b DEF Stores, Unraced, Kept, LiveBillsOf, Live
<1>3. Unraced(owner, day)' \subseteq Unraced(owner, day) \cup {id}
  BY <1>1, <1>a DEF Stores, Unraced, Kept, LiveBillsOf, Live
<1>4. ASSUME NEW u, NEW d, u # owner \/ d # day \/ book[b].raced
      PROVE  /\ Cardinality(Unraced(u, d)') \in Nat
             /\ Cardinality(Unraced(u, d)) \in Nat
             /\ Cardinality(Unraced(u, d)') <= Cardinality(Unraced(u, d))
  <2>1. Unraced(u, d)' \subseteq Unraced(u, d)
    BY <1>2, <1>4
  <2> QED
    BY <2>1, UnracedFinite, FS_Subset, FS_CardinalityType DEF Base
<1>5. ~book[b].raced => Cardinality(Unraced(owner, day)') <= MaxDailyRides
  <2>1. IsFiniteSet(Unraced(owner, day) \cup {id})
        /\ Cardinality(Unraced(owner, day) \cup {id}) <= Cardinality(Unraced(owner, day)) + 1
    BY UnracedFinite, FS_AddElement DEF Base
  <2>2. Cardinality(Unraced(owner, day)') <= Cardinality(Unraced(owner, day) \cup {id})
    BY <1>3, <2>1, FS_Subset
  <2>3. ~book[b].raced => Cardinality(Unraced(owner, day)) < MaxDailyRides
    BY <1>b DEF LimitInv, RoomForUnraced, Stores, At, Inserting
  <2>4. Cardinality(Unraced(owner, day)) \in Nat /\ Cardinality(Unraced(owner, day)') \in Nat
        /\ Cardinality(Unraced(owner, day) \cup {id}) \in Nat
    BY <1>3, <2>1, UnracedFinite, FS_Subset, FS_CardinalityType DEF Base
  <2> QED
    BY <2>1, <2>2, <2>3, <2>4, BoundsAssumption
<1>6. UnracedDailyLimit'
  <2> SUFFICES ASSUME NEW u \in Users, NEW d \in Days
               PROVE  Cardinality(Unraced(u, d)') <= MaxDailyRides
    BY DEF UnracedDailyLimit
  <2>1. CASE u # owner \/ d # day \/ book[b].raced
    <3>1. Cardinality(Unraced(u, d)) <= MaxDailyRides
      BY DEF LimitInv, UnracedDailyLimit
    <3> QED
      BY <1>4, <2>1, <3>1, BoundsAssumption
  <2>2. CASE ~(u # owner \/ d # day \/ book[b].raced)
    BY <1>5, <2>2
  <2> QED
    BY <2>1, <2>2
<1>7. RoomForUnraced'
  <2> SUFFICES ASSUME NEW c \in Bookers, book'[c].pc # "idle", ~book'[c].raced
               PROVE  (Cardinality(Unraced(OwnerOf[c], DayOf(At(c)))) < MaxDailyRides)'
    BY DEF RoomForUnraced
  <2>1. c # b /\ book[c].pc # "idle" /\ ~book[c].raced /\ OwnerOf[c] # owner
    BY DEF Stores, IdleBooking
  <2>2. At(c)' = At(c)
    BY <2>1 DEF Stores, At, Inserting
  <2>3. PICK d : d = DayOf(At(c))
    OBVIOUS
  <2>4. DayOf(At(c))' = d
    BY <2>2, <2>3 DEF DayOf
  <2>5. Cardinality(Unraced(OwnerOf[c], d)) < MaxDailyRides
    BY <2>1, <2>3 DEF LimitInv, RoomForUnraced
  <2>6. /\ Cardinality(Unraced(OwnerOf[c], d)) \in Nat
        /\ Cardinality(Unraced(OwnerOf[c], d)') \in Nat
        /\ Cardinality(Unraced(OwnerOf[c], d)') <= Cardinality(Unraced(OwnerOf[c], d))
    BY <1>4, <2>1
  <2>7. Cardinality(Unraced(OwnerOf[c], d)') < MaxDailyRides
    BY <2>5, <2>6, BoundsAssumption
  <2>8. Unraced(OwnerOf[c], DayOf(At(c)))' = Unraced(OwnerOf[c], d)'
    BY <2>4 DEF Unraced, Kept
  <2> QED
    BY <2>7, <2>8
<1> QED
  BY <1>6, <1>7 DEF LimitInv

\* A booking that goes on where nothing joins the bills that count still has room.
LEMMA RoomKept ==
    ASSUME Base, RoomForUnraced, NEW c \in Bookers, Continues(c), OnlyLoses, ~book'[c].raced
    PROVE  (Cardinality(Unraced(OwnerOf[c], DayOf(At(c)))) < MaxDailyRides)'
<1>1. PICK d : d = DayOf(At(c))
  OBVIOUS
<1>2. DayOf(At(c))' = d
  BY <1>1 DEF Continues, DayOf
<1>3. Cardinality(Unraced(OwnerOf[c], d)) < MaxDailyRides
  BY <1>1 DEF RoomForUnraced, Continues
<1>4. /\ Cardinality(Unraced(OwnerOf[c], d)) \in Nat
      /\ Cardinality(Unraced(OwnerOf[c], d)') \in Nat
      /\ Cardinality(Unraced(OwnerOf[c], d)') <= Cardinality(Unraced(OwnerOf[c], d))
  BY UnracedFinite, UnracedShrinks DEF Base
<1>5. Cardinality(Unraced(OwnerOf[c], d)') < MaxDailyRides
  BY <1>3, <1>4, BoundsAssumption
<1>6. Unraced(OwnerOf[c], DayOf(At(c)))' = Unraced(OwnerOf[c], d)'
  BY <1>2 DEF Unraced, Kept
<1> QED
  BY <1>5, <1>6

\* The first check finds room for the booking it lets pass.
LEMMA BeginBookingRoom ==
    ASSUME Base, Base', NEW b \in Bookers, NEW trip \in Trips, BeginBooking(b, trip),
           UNCHANGED <<now, bills>>, ~Inserting(b)'
    PROVE  (Cardinality(Unraced(OwnerOf[b], DayOf(At(b)))) < MaxDailyRides)'
<1>1. PICK d : d = DayOf(now)
  OBVIOUS
<1>2. Unraced(OwnerOf[b], d) \subseteq BillsOfToday(OwnerOf[b])
  BY <1>1 DEF Unraced, Kept, BillsOfToday
<1>3. /\ IsFiniteSet(BillsOfToday(OwnerOf[b]))
      /\ Cardinality(BillsOfToday(OwnerOf[b])) \in Nat
  BY BillsFinite DEF Base, BillsOfToday, LiveBillsOf
<1>4. Cardinality(Unraced(OwnerOf[b], d)) <= Cardinality(BillsOfToday(OwnerOf[b]))
  BY <1>2, <1>3, FS_Subset
<1>5. ~(Cardinality(BillsOfToday(OwnerOf[b])) >= MaxDailyRides)
  BY DEF BeginBooking, DailyLimitReached
<1>6. Cardinality(Unraced(OwnerOf[b], d)) < MaxDailyRides
  BY <1>3, <1>4, <1>5, UnracedFinite, BoundsAssumption DEF Base
<1>7. DayOf(At(b))' = d
  BY <1>1 DEF At, DayOf
<1>8. Unraced(OwnerOf[b], DayOf(At(b)))' = Unraced(OwnerOf[b], d)
  BY <1>7 DEF Unraced, Kept, LiveBillsOf, Live
<1> QED
  BY <1>6, <1>8

\* Midnight: the day that begins holds no bill yet.
LEMMA TickLimit ==
    ASSUME Base, Base', LimitInv, Tick
    PROVE  LimitInv'
<1>1. UNCHANGED <<bills, book>> /\ now' = now + 1 /\ now \in Nat
  BY BoundsAssumption DEF Tick, Base, TypeOK
<1>2. \A u, d : Unraced(u, d)' = Unraced(u, d)
  BY <1>1 DEF Unraced, Kept, LiveBillsOf, Live
<1>3. UnracedDailyLimit'
  BY <1>2 DEF LimitInv, UnracedDailyLimit
<1>4. ASSUME NEW c \in Bookers, book'[c].pc # "idle", ~book'[c].raced
      PROVE  (Cardinality(Unraced(OwnerOf[c], DayOf(At(c)))) < MaxDailyRides)'
  <2>1. PICK t : t = At(c)'
    OBVIOUS
  <2>2. Unraced(OwnerOf[c], DayOf(At(c)))' = Unraced(OwnerOf[c], DayOf(t))
    BY <1>1, <2>1 DEF Unraced, Kept, LiveBillsOf, Live, DayOf
  <2>3. Cardinality(Unraced(OwnerOf[c], DayOf(At(c)))) < MaxDailyRides
    BY <1>1, <1>4 DEF LimitInv, RoomForUnraced
  <2>4. CASE Inserting(c)
    BY <1>1, <2>1, <2>2, <2>3, <2>4 DEF At, Inserting
  <2>5. CASE ~Inserting(c) /\ DayOf(t) = DayOf(now)
    <3>1. At(c) = now
      BY <2>5 DEF At
    <3> QED
      BY <2>2, <2>3, <2>5, <3>1
  <2>6. CASE ~Inserting(c) /\ DayOf(t) # DayOf(now)
    <3>1. t = now + 1
      BY <1>1, <2>1, <2>6 DEF At, Inserting
    <3>2. Cardinality(Unraced(OwnerOf[c], DayOf(t))) = 0
      BY <1>1, <2>6, <3>1, FutureDayEmpty
    <3> QED
      BY <2>2, <3>2, BoundsAssumption
  <2> QED
    BY <2>4, <2>5, <2>6
<1> QED
  BY <1>3, <1>4 DEF LimitInv, RoomForUnraced

LEMMA LimitStep == Base /\ Base' /\ LimitInv /\ [Next]_vars => LimitInv'
<1> SUFFICES ASSUME Base, Base', LimitInv, [Next]_vars PROVE LimitInv'
  OBVIOUS
<1>1. ASSUME OnlyLoses PROVE UnracedDailyLimit'
  <2> SUFFICES ASSUME NEW u \in Users, NEW d \in Days
               PROVE  Cardinality(Unraced(u, d)') <= MaxDailyRides
    BY DEF UnracedDailyLimit
  <2>1. Cardinality(Unraced(u, d)) <= MaxDailyRides
    BY DEF LimitInv, UnracedDailyLimit
  <2> QED
    BY <1>1, <2>1, UnracedFinite, UnracedShrinks, BoundsAssumption DEF Base
<1>2. ASSUME OnlyLoses, UNCHANGED <<now, book>> PROVE LimitInv'
  <2>1. ASSUME NEW c \in Bookers, book'[c].pc # "idle", ~book'[c].raced
        PROVE  Continues(c)
    BY <1>2, <2>1 DEF Continues, At, Inserting
  <2>2. RoomForUnraced'
    BY <1>2, <2>1, RoomKept DEF LimitInv, RoomForUnraced
  <2> QED
    BY <1>1, <1>2, <2>2 DEF LimitInv
<1>3. ASSUME NEW b \in Bookers, BookingStep(b), ~StoreBooking(b) PROVE LimitInv'
  <2>1. /\ UNCHANGED <<now, bills>>
        /\ \A c \in Bookers :
              \/ book'[c].pc = "idle"
              \/ Continues(c)
              \/ /\ c = b
                 /\ \E trip \in Trips : BeginBooking(b, trip)
                 /\ ~Inserting(c)'
    BY <1>3, BookingShape
  <2>2. OnlyLoses
    BY <2>1 DEF OnlyLoses, Base, TypeOK
  <2>3. RoomForUnraced'
    BY <2>1, <2>2, RoomKept, BeginBookingRoom DEF LimitInv, RoomForUnraced
  <2> QED
    BY <1>1, <2>2, <2>3 DEF LimitInv
<1>4. ASSUME NEW b \in Bookers, StoreBooking(b) PROVE LimitInv'
  <2>1. Stores(b)
    BY <1>4, StoreBookingShape
  <2> QED
    BY <2>1, StoreBookingLimit
<1>5. ASSUME NEW m \in Markers, MarkingStep(m) PROVE LimitInv'
  BY <1>2, <1>5, MarkingStepShape DEF Base
<1>6. CASE AdminStep
  BY <1>2, <1>6, AdminStepShape DEF Base
<1>7. CASE UNCHANGED vars
  <2>1. OnlyLoses
    BY <1>7 DEF vars, OnlyLoses, Base, TypeOK
  <2> QED
    BY <1>2, <1>7, <2>1 DEF vars
<1> QED
  BY <1>3, <1>4, <1>5, <1>6, <1>7, TickLimit DEF Next

\* RESTRICTION 1 of CreateRideBill holds for the bookings that raced with no
\* other, for any number of concurrent executions, users, routes and admins.
THEOREM UnracedLimitCorrect == Spec => []UnracedDailyLimit
<1>1. Spec => Init /\ [][Next]_vars
  BY DEF Spec
<1>2. LimitInv => UnracedDailyLimit
  BY DEF LimitInv
<1> QED
  BY <1>1, <1>2, InitLimit, LimitStep, BaseInvariance, PTL

----------------------------------------------------------------------------
(* The cooldowns. *)

GapInv == GapForUnraced /\ UnracedCooldowns

\* The bills the cooldowns are promised between.
Steady(u) == {i \in LiveBillsOf(u) : ~bills[i].revived}

\* What GapForUnraced says of booking c and bill i.
KeepsGap(c, i) ==
    /\ book[c].pc \in {"any", "insert", "number", "store"} =>
          (SameRoute(i, book[c].trip) => At(c) - bills[i].created >= RouteCooldown)
    /\ book[c].pc \in {"insert", "number", "store"} =>
          At(c) - bills[i].created >= AnyCooldown

LEMMA GapDefinition ==
    GapForUnraced <=>
        \A c \in Bookers : ~book[c].raced => \A i \in Steady(OwnerOf[c]) : KeepsGap(c, i)
  BY DEF GapForUnraced, Steady, KeepsGap

LEMMA SteadyOnlyLoses ==
    ASSUME OnlyLoses, NEW u
    PROVE  /\ Steady(u)' \subseteq Steady(u)
           /\ \A i \in Steady(u)' :
                 /\ bills'[i].from = bills[i].from
                 /\ bills'[i].to = bills[i].to
                 /\ bills'[i].created = bills[i].created
                 /\ bills'[i].raced = bills[i].raced
  BY DEF OnlyLoses, Steady, LiveBillsOf, Live

LEMMA InitGap == Init => GapInv
  BY DEF Init, GapInv, GapForUnraced, UnracedCooldowns, LiveBillsOf

LEMMA CooldownsOnlyLoses ==
    ASSUME UnracedCooldowns, OnlyLoses
    PROVE  UnracedCooldowns'
<1> SUFFICES ASSUME NEW u \in Users,
                    NEW i \in Steady(u)', NEW j \in Steady(u)', i # j,
                    ~bills'[i].raced, ~bills'[j].raced
             PROVE  /\ Apart(i, j, AnyCooldown)'
                    /\ SameRoute(i, bills[j])' => Apart(i, j, RouteCooldown)'
  BY DEF UnracedCooldowns, Steady
<1>1. /\ i \in Steady(u) /\ j \in Steady(u)
      /\ bills'[i].from = bills[i].from /\ bills'[i].to = bills[i].to
      /\ bills'[j].from = bills[j].from /\ bills'[j].to = bills[j].to
      /\ bills'[i].created = bills[i].created /\ bills'[j].created = bills[j].created
      /\ ~bills[i].raced /\ ~bills[j].raced
  BY SteadyOnlyLoses
<1>2. /\ Apart(i, j, AnyCooldown)
      /\ SameRoute(i, bills[j]) => Apart(i, j, RouteCooldown)
  BY <1>1 DEF UnracedCooldowns, Steady
<1> QED
  BY <1>1, <1>2 DEF Apart, SameRoute

LEMMA GapKept ==
    ASSUME Base, GapForUnraced, NEW c \in Bookers, Continues(c), OnlyLoses,
           book'[c].pc = book[c].pc \/ book[c].pc \in {"insert", "number", "store"},
           ~book'[c].raced, NEW i \in Steady(OwnerOf[c])'
    PROVE  KeepsGap(c, i)'
<1>1. /\ i \in Steady(OwnerOf[c])
      /\ bills'[i].from = bills[i].from /\ bills'[i].to = bills[i].to
      /\ bills'[i].created = bills[i].created
  BY SteadyOnlyLoses
<1>2. KeepsGap(c, i)
  BY <1>1, GapDefinition DEF Continues
<1> QED
  BY <1>1, <1>2 DEF KeepsGap, Continues, SameRoute

LEMMA StoreBookingGap ==
    ASSUME Base, Base', GapInv, NEW b \in Bookers, Stores(b)
    PROVE  GapInv'
<1>a. PICK id : id = book[b].id
  OBVIOUS
<1>1. /\ NewBill(b).user = OwnerOf[b]
      /\ NewBill(b).from = book[b].trip.from
      /\ NewBill(b).to = book[b].trip.to
      /\ NewBill(b).created = book[b].created
      /\ NewBill(b).raced = book[b].raced
  BY DEF NewBill
<1>2. ASSUME NEW u, NEW i \in Steady(u)', i # id
      PROVE  i \in Steady(u) /\ bills'[i] = bills[i]
  BY <1>2, <1>a DEF Stores, Steady, LiveBillsOf, Live
<1>3. ASSUME NEW u, id \in Steady(u)'
      PROVE  u = OwnerOf[b] /\ bills'[id] = NewBill(b)
  BY <1>3, <1>1, <1>a DEF Stores, Steady, LiveBillsOf, Live
<1>4. ASSUME NEW i \in Steady(OwnerOf[b]), ~book[b].raced
      PROVE  /\ book[b].created - bills[i].created >= AnyCooldown
             /\ SameRoute(i, book[b].trip) =>
                   book[b].created - bills[i].created >= RouteCooldown
  BY <1>4, GapDefinition DEF GapInv, KeepsGap, Stores, At, Inserting
<1>5. ASSUME NEW u \in Users, NEW i \in Steady(u)', NEW j \in Steady(u)', i # j,
             ~bills'[i].raced, ~bills'[j].raced
      PROVE  /\ Apart(i, j, AnyCooldown)'
             /\ SameRoute(i, bills[j])' => Apart(i, j, RouteCooldown)'
  <2>1. CASE i # id /\ j # id
    <3>1. /\ i \in Steady(u) /\ bills'[i] = bills[i]
          /\ j \in Steady(u) /\ bills'[j] = bills[j]
      BY <1>2, <2>1
    <3>2. /\ Apart(i, j, AnyCooldown)
          /\ SameRoute(i, bills[j]) => Apart(i, j, RouteCooldown)
      BY <1>5, <3>1 DEF GapInv, UnracedCooldowns, Steady
    <3> QED
      BY <3>1, <3>2 DEF Apart, SameRoute
  <2>2. CASE i = id
    <3>1. /\ u = OwnerOf[b] /\ bills'[i] = NewBill(b)
          /\ j \in Steady(u) /\ bills'[j] = bills[j]
      BY <1>2, <1>3, <1>5, <2>2
    <3>2. /\ book[b].created - bills[j].created >= AnyCooldown
          /\ SameRoute(j, book[b].trip) =>
                book[b].created - bills[j].created >= RouteCooldown
      BY <1>1, <1>4, <1>5, <3>1
    <3> QED
      BY <1>1, <3>1, <3>2 DEF Apart, SameRoute
  <2>3. CASE j = id
    <3>1. /\ u = OwnerOf[b] /\ bills'[j] = NewBill(b)
          /\ i \in Steady(u) /\ bills'[i] = bills[i]
      BY <1>2, <1>3, <1>5, <2>3
    <3>2. /\ book[b].created - bills[i].created >= AnyCooldown
          /\ SameRoute(i, book[b].trip) =>
                book[b].created - bills[i].created >= RouteCooldown
      BY <1>1, <1>4, <1>5, <3>1
    <3> QED
      BY <1>1, <3>1, <3>2 DEF Apart, SameRoute
  <2> QED
    BY <2>1, <2>2, <2>3
<1>6. UnracedCooldowns'
  BY <1>5 DEF UnracedCooldowns, Steady
<1>7. ASSUME NEW c \in Bookers, ~book'[c].raced, NEW i \in Steady(OwnerOf[c])'
      PROVE  KeepsGap(c, i)'
  <2>1. CASE c = b \/ book'[c].pc = "idle"
    BY <2>1 DEF Stores, KeepsGap, IdleBooking
  <2>2. CASE c # b /\ book'[c].pc # "idle"
    <3>1. /\ OwnerOf[c] # OwnerOf[b] /\ ~book[c].raced
          /\ book'[c].pc = book[c].pc /\ book'[c].trip = book[c].trip
          /\ At(c)' = At(c)
      BY <1>7, <2>2 DEF Stores, At, Inserting
    <3>2. i \in Steady(OwnerOf[c]) /\ bills'[i] = bills[i]
      BY <1>2, <1>3, <3>1
    <3>3. KeepsGap(c, i)
      BY <3>1, <3>2, GapDefinition DEF GapInv
    <3> QED
      BY <3>1, <3>2, <3>3 DEF KeepsGap, SameRoute
  <2> QED
    BY <2>1, <2>2
<1>8. GapForUnraced'
  BY <1>7 DEF GapForUnraced, Steady, KeepsGap
<1> QED
  BY <1>6, <1>8 DEF GapInv

LEMMA TickGap ==
    ASSUME Base, GapInv, Tick
    PROVE  GapInv'
<1>1. UNCHANGED <<bills, book>> /\ now' = now + 1 /\ now \in Nat
  BY BoundsAssumption DEF Tick, Base, TypeOK
<1>2. UnracedCooldowns'
  BY <1>1 DEF GapInv, UnracedCooldowns, LiveBillsOf, Live, SameRoute, Apart
<1>3. ASSUME NEW c \in Bookers, ~book'[c].raced, NEW i \in Steady(OwnerOf[c])'
      PROVE  KeepsGap(c, i)'
  <2>1. i \in Steady(OwnerOf[c]) /\ KeepsGap(c, i)
    BY <1>1, <1>3, GapDefinition DEF GapInv, Steady, LiveBillsOf, Live
  <2>2. At(c) \in Nat /\ At(c)' \in Nat /\ At(c)' >= At(c)
    BY <1>1, BoundsAssumption DEF At, Inserting, Base, TypeOK, Booking
  <2>3. bills[i].created \in Nat
    BY <2>1, BoundsAssumption DEF Steady, LiveBillsOf, Base, TypeOK, Bill
  <2> QED
    BY <1>1, <2>1, <2>2, <2>3, BoundsAssumption DEF KeepsGap, SameRoute
<1>4. GapForUnraced'
  BY <1>3 DEF GapForUnraced, Steady, KeepsGap
<1> QED
  BY <1>2, <1>4 DEF GapInv

LEMMA GapStep == Base /\ Base' /\ GapInv /\ [Next]_vars => GapInv'
<1> SUFFICES ASSUME Base, Base', GapInv, [Next]_vars PROVE GapInv'
  OBVIOUS
<1>1. ASSUME OnlyLoses, UNCHANGED <<now, book>> PROVE GapInv'
  <2>1. ASSUME NEW c \in Bookers, ~book'[c].raced, NEW i \in Steady(OwnerOf[c])'
        PROVE  KeepsGap(c, i)'
    <3>1. CASE book[c].pc = "idle"
      BY <1>1, <3>1 DEF KeepsGap
    <3>2. CASE book[c].pc # "idle"
      <4>1. Continues(c)
        BY <1>1, <3>2 DEF Continues, At, Inserting
      <4> QED
        BY <1>1, <2>1, <4>1, GapKept DEF GapInv
    <3> QED
      BY <3>1, <3>2
  <2>2. GapForUnraced'
    BY <2>1 DEF GapForUnraced, Steady, KeepsGap
  <2> QED
    BY <1>1, <2>2, CooldownsOnlyLoses DEF GapInv
<1>2. ASSUME NEW b \in Bookers, BookingStep(b), ~StoreBooking(b) PROVE GapInv'
  <2>1. /\ UNCHANGED <<now, bills>>
        /\ \A c \in Bookers :
              \/ book'[c].pc \in {"idle", "route"}
              \/ /\ Continues(c)
                 /\ \/ book'[c].pc = book[c].pc
                    \/ CheckRouteCooldown(c) /\ book'[c].pc = "any"
                    \/ CheckAnyCooldown(c) /\ book'[c].pc = "insert"
                    \/ book[c].pc \in {"insert", "number", "store"}
    BY <1>2, BookingShape
  <2>2. OnlyLoses
    BY <2>1 DEF OnlyLoses, Base, TypeOK
  <2>3. ASSUME NEW c \in Bookers, ~book'[c].raced, NEW i \in Steady(OwnerOf[c])'
        PROVE  KeepsGap(c, i)'
    <3>1. i \in Steady(OwnerOf[c]) /\ bills'[i] = bills[i]
      BY <2>1, <2>3 DEF Steady, LiveBillsOf, Live
    <3>2. CASE book'[c].pc \in {"idle", "route"}
      BY <3>2 DEF KeepsGap
    <3>3. CASE /\ Continues(c)
               /\ book'[c].pc = book[c].pc \/ book[c].pc \in {"insert", "number", "store"}
      BY <2>2, <2>3, <3>3, GapKept DEF GapInv
    <3>4. CASE Continues(c) /\ CheckRouteCooldown(c) /\ book'[c].pc = "any"
      <4>1. ~RouteCoolingDown(OwnerOf[c], book[c].trip) /\ book[c].pc = "route"
        BY <3>4 DEF CheckRouteCooldown, RefuseBooking, IdleBooking, Base, TypeOK
      <4>2. At(c) = now
        BY <4>1 DEF At, Inserting
      <4>3. now \in Nat /\ bills[i].created \in Nat
        BY <3>1, BoundsAssumption DEF Steady, LiveBillsOf, Base, TypeOK, Bill
      <4>4. SameRoute(i, book[c].trip) => now - bills[i].created >= RouteCooldown
        BY <3>1, <4>1, <4>3, BoundsAssumption DEF RouteCoolingDown, Steady
      <4> QED
        BY <3>1, <3>4, <4>2, <4>4 DEF KeepsGap, Continues, SameRoute
    <3>5. CASE Continues(c) /\ CheckAnyCooldown(c) /\ book'[c].pc = "insert"
      <4>1. ~CoolingDown(OwnerOf[c]) /\ book[c].pc = "any"
        BY <3>5 DEF CheckAnyCooldown, RefuseBooking, IdleBooking, Base, TypeOK
      <4>2. At(c) = now
        BY <4>1 DEF At, Inserting
      <4>3. now \in Nat /\ bills[i].created \in Nat
        BY <3>1, BoundsAssumption DEF Steady, LiveBillsOf, Base, TypeOK, Bill
      <4>4. now - bills[i].created >= AnyCooldown
        BY <3>1, <4>1, <4>3, BoundsAssumption DEF CoolingDown, Steady
      <4>5. SameRoute(i, book[c].trip) => now - bills[i].created >= RouteCooldown
        BY <2>3, <3>1, <3>5, <4>1, <4>2, GapDefinition DEF GapInv, KeepsGap, Continues
      <4> QED
        BY <3>1, <3>5, <4>2, <4>4, <4>5 DEF KeepsGap, Continues, SameRoute
    <3> QED
      BY <2>1, <3>2, <3>3, <3>4, <3>5
  <2>4. GapForUnraced'
    BY <2>3 DEF GapForUnraced, Steady, KeepsGap
  <2> QED
    BY <2>2, <2>4, CooldownsOnlyLoses DEF GapInv
<1>3. ASSUME NEW b \in Bookers, StoreBooking(b) PROVE GapInv'
  <2>1. Stores(b)
    BY <1>3, StoreBookingShape
  <2> QED
    BY <2>1, StoreBookingGap
<1>4. ASSUME NEW m \in Markers, MarkingStep(m) PROVE GapInv'
  BY <1>1, <1>4, MarkingStepShape DEF Base
<1>5. CASE AdminStep
  BY <1>1, <1>5, AdminStepShape DEF Base
<1>6. CASE UNCHANGED vars
  <2>1. OnlyLoses
    BY <1>6 DEF vars, OnlyLoses, Base, TypeOK
  <2> QED
    BY <1>1, <1>6, <2>1 DEF vars
<1> QED
  BY <1>2, <1>3, <1>4, <1>5, <1>6, TickGap DEF Next

\* RESTRICTIONS 2 and 3 of CreateRideBill hold between the bookings that raced
\* with no other, in either direction of a route and across any other handler.
THEOREM UnracedCooldownsCorrect == Spec => []UnracedCooldowns
<1>1. Spec => Init /\ [][Next]_vars
  BY DEF Spec
<1>2. GapInv => UnracedCooldowns
  BY DEF GapInv
<1> QED
  BY <1>1, <1>2, InitGap, GapStep, BaseInvariance, PTL

----------------------------------------------------------------------------
(* References and the ride lifecycle. *)

\* A bill is stored under a living user and an existing route, and every
\* deletion takes the references to its row with it.
LEMMA ReferencesStep ==
    Base /\ Base' /\ ReferencesResolve /\ [Next]_vars => ReferencesResolve'
<1> SUFFICES ASSUME Base, Base', ReferencesResolve, [Next]_vars PROVE ReferencesResolve'
  OBVIOUS
<1>1. ASSUME UNCHANGED <<users, routes, bills>> PROVE ReferencesResolve'
  BY <1>1 DEF ReferencesResolve
<1>2. ASSUME NEW b \in Bookers, StoreBooking(b) PROVE ReferencesResolve'
  <2>1. Stores(b)
    BY <1>2, StoreBookingShape
  <2>2. OwnerOf[b] \in users /\ book[b].trip.ride \in routes \cup {NoRoute}
    BY <1>2 DEF StoreBooking, Accepted
  <2>3. NewBill(b).user = OwnerOf[b] /\ NewBill(b).ride = book[b].trip.ride
    BY DEF NewBill
  <2> QED
    BY <2>1, <2>2, <2>3 DEF Stores, ReferencesResolve
<1>3. ASSUME NEW b \in Bookers, BookingStep(b), ~StoreBooking(b) PROVE ReferencesResolve'
  BY <1>1, <1>3, BookingShape
<1>4. ASSUME NEW i \in DOMAIN bills, NEW s \in Statuses, bills' = SetStatus(i, s),
             UNCHANGED <<users, routes>>
      PROVE  ReferencesResolve'
  <2>1. WithStatus(i, s).user = bills[i].user /\ WithStatus(i, s).ride = bills[i].ride
    BY DEF WithStatus, Base, TypeOK, Bill
  <2> QED
    BY <1>4, <2>1 DEF SetStatus, ReferencesResolve
<1>5. ASSUME NEW m \in Markers, MarkingStep(m) PROVE ReferencesResolve'
  <2>1. mark[m].to \in Statuses
    BY DEF Base, TypeOK, Marking, Statuses
  <2> QED
    BY <1>1, <1>4, <1>5, <2>1 DEF MarkingStep, ReadMyBill, WriteMyBill, AbortMarking
<1>6. ASSUME NEW gone \in SUBSET DOMAIN bills, RemoveBills(gone), UNCHANGED routes,
             \A i \in DOMAIN bills \ gone : bills[i].user \in users'
      PROVE  ReferencesResolve'
  BY <1>6 DEF RemoveBills, ReferencesResolve
<1>7. CASE AdminStep
  <2>1. ASSUME NEW i \in DOMAIN bills, NEW s \in AdminStatuses, UpdateRideBill(i, s)
        PROVE  ReferencesResolve'
    BY <1>4, <2>1, InputsAssumption DEF UpdateRideBill
  <2>2. ASSUME NEW i \in DOMAIN bills, DeleteRideBill(i) PROVE ReferencesResolve'
    BY <1>6, <2>2 DEF DeleteRideBill, ReferencesResolve
  <2>3. ASSUME NEW u \in users, DeleteUser(u) PROVE ReferencesResolve'
    BY <1>6, <2>3 DEF DeleteUser, ReferencesResolve
  <2>4. ASSUME NEW r \in routes, DeleteRideLocation(r) PROVE ReferencesResolve'
    BY <2>4 DEF DeleteRideLocation, ReferencesResolve, Base, TypeOK, Bill
  <2> QED
    BY <1>7, <2>1, <2>2, <2>3, <2>4 DEF AdminStep
<1>8. CASE Tick \/ UNCHANGED vars
  BY <1>1, <1>8 DEF Tick, vars
<1> QED
  BY <1>2, <1>3, <1>5, <1>7, <1>8 DEF Next

\* ON DELETE CASCADE on the user and ON DELETE SET NULL on the route leave no
\* dangling reference, whatever a booking in flight had read.
THEOREM ReferencesCorrect == Spec => []ReferencesResolve
<1>1. Spec => Init /\ [][Next]_vars
  BY DEF Spec
<1>2. Init => ReferencesResolve
  BY DEF Init, ReferencesResolve
<1> QED
  BY <1>1, <1>2, ReferencesStep, BaseInvariance, PTL

\* A booking step gives no execution an id but the next of the sequence.
LEMMA BookingIds ==
    ASSUME Base, NEW b \in Bookers, BookingStep(b)
    PROVE  /\ mark' = mark /\ nextId' \in {nextId, nextId + 1}
           /\ \A c \in Bookers :
                 Inserting(c)' => book'[c].id = nextId \/ (Inserting(c) /\ book'[c].id = book[c].id)
<1> USE DEF Base, TypeOK, Inserting
<1>0. \A c \in Bookers : book[c] \in Booking
  OBVIOUS
<1>1. ASSUME NEW trip \in Trips, BeginBooking(b, trip)
      PROVE  book'[b].pc = "route" /\ \A c \in Bookers \ {b} : book'[c] = book[c]
  BY <1>0, <1>1 DEF BeginBooking, Booking
<1>2. ASSUME RefuseBooking(b)
      PROVE  book'[b].pc = "idle" /\ \A c \in Bookers \ {b} : book'[c] = book[c]
  BY <1>2 DEF RefuseBooking, IdleBooking
<1>3. ASSUME NEW pc \in {"any", "insert"}, book' = [book EXCEPT ![b].pc = pc]
      PROVE  book'[b].pc = pc /\ \A c \in Bookers \ {b} : book'[c] = book[c]
  BY <1>0, <1>3 DEF Booking
<1>4. CASE CheckRouteCooldown(b)
  BY <1>2, <1>3, <1>4 DEF CheckRouteCooldown
<1>5. CASE CheckAnyCooldown(b)
  BY <1>2, <1>3, <1>5 DEF CheckAnyCooldown
<1>6. CASE StartInsert(b)
  <2> DEFINE others == {c \in Bookers \ {b} : Inserting(c)}
             busy == (others # {})
             met(c) == book[c].overlapped \/ c \in others
             mine == [book[b] EXCEPT !.pc = "number", !.id = nextId, !.created = now,
                                     !.overlapped = busy]
             theirs(c) == [book[c] EXCEPT !.overlapped = met(c)]
  <2>1. book' = [c \in Bookers |-> IF c = b THEN mine ELSE theirs(c)]
    BY <1>6 DEF StartInsert
  <2>2. mine.id = nextId
    <3> HIDE DEF busy
    <3> QED
      BY <1>0 DEF Booking
  <2>3. ASSUME NEW c \in Bookers
        PROVE  theirs(c).pc = book[c].pc /\ theirs(c).id = book[c].id
    <3> DEFINE flag == met(c)
    <3>1. theirs(c) = [book[c] EXCEPT !.overlapped = flag]
      OBVIOUS
    <3> HIDE DEF flag
    <3> QED
      BY <1>0, <3>1 DEF Booking
  <2> HIDE DEF mine, theirs
  <2>4. ASSUME NEW c \in Bookers, Inserting(c)'
        PROVE  book'[c].id = nextId \/ (Inserting(c) /\ book'[c].id = book[c].id)
    BY <2>1, <2>2, <2>3, <2>4
  <2> QED
    BY <1>6, <2>4 DEF StartInsert
<1>7. CASE GenerateRideNumber(b)
  <2> DEFINE num == <<DayOf(book[b].created),
                      Lpad(Cardinality(EarlierThatDay(book[b].id, DayOf(book[b].created))) + 1)>>
  <2>1. book' = [book EXCEPT ![b].pc = "store", ![b].num = num] /\ book[b].pc = "number"
    BY <1>7 DEF GenerateRideNumber
  <2> HIDE DEF num
  <2>2. book'[b].id = book[b].id /\ \A c \in Bookers \ {b} : book'[c] = book[c]
    BY <1>0, <2>1 DEF Booking
  <2> QED
    BY <1>7, <2>1, <2>2 DEF GenerateRideNumber
<1>8. CASE StoreBooking(b)
  <2>1. Stores(b)
    BY <1>8, StoreBookingShape
  <2> QED
    BY <2>1 DEF Stores, IdleBooking
<1>9. CASE RefuseRow(b) \/ AbortBooking(b)
  BY <1>2, <1>9 DEF RefuseRow, AbortBooking
<1> QED
  BY <1>1, <1>2, <1>4, <1>5, <1>6, <1>7, <1>8, <1>9
     DEF BookingStep, BeginBooking, CheckRouteCooldown, CheckAnyCooldown, RefuseRow, AbortBooking,
         GenerateRideNumber

LEMMA BookingPending ==
    ASSUME Base, Base', PendingWrites, NEW b \in Bookers, BookingStep(b)
    PROVE  PendingWrites'
<1>1. /\ mark' = mark /\ nextId' \in {nextId, nextId + 1}
      /\ \A c \in Bookers :
            Inserting(c)' => book'[c].id = nextId \/ (Inserting(c) /\ book'[c].id = book[c].id)
  BY BookingIds
<1>2. nextId \in Nat
  BY BoundsAssumption DEF Base, TypeOK
<1>3. ASSUME NEW m \in Markers, mark[m].pc = "write", mark[m].id \in DOMAIN bills'
      PROVE  mark[m].id \in DOMAIN bills /\ bills'[mark[m].id] = bills[mark[m].id]
  <2>1. CASE StoreBooking(b)
    <3>1. Stores(b)
      BY <2>1, StoreBookingShape
    <3>2. mark[m].id # book[b].id
      BY <1>3, <3>1 DEF PendingWrites, Stores, Inserting
    <3> QED
      BY <1>3, <3>1, <3>2 DEF Stores
  <2>2. CASE ~StoreBooking(b)
    <3>1. bills' = bills
      BY <2>2, BookingShape
    <3> QED
      BY <1>3, <3>1
  <2> QED
    BY <2>1, <2>2
<1> QED
  BY <1>1, <1>2, <1>3 DEF PendingWrites

\* Rows that go, and rows that keep their status, disturb no pending write.
LEMMA TablePending ==
    ASSUME Base, PendingWrites, UNCHANGED <<nextId, book, mark>>,
           DOMAIN bills' \subseteq DOMAIN bills,
           \A i \in DOMAIN bills' : bills'[i].status = bills[i].status
    PROVE  PendingWrites'
  BY DEF PendingWrites, Inserting

\* A status write changes the status of its row and no other row.
LEMMA SetStatusRows ==
    ASSUME Base, NEW i \in DOMAIN bills, NEW s \in Statuses, bills' = SetStatus(i, s)
    PROVE  /\ DOMAIN bills' = DOMAIN bills
           /\ bills'[i].status = s
           /\ \A j \in DOMAIN bills \ {i} : bills'[j] = bills[j]
<1>1. WithStatus(i, s).status = s
  BY DEF WithStatus, Base, TypeOK, Bill
<1> QED
  BY <1>1 DEF SetStatus, Base, TypeOK

LEMMA OvertakeFields ==
    ASSUME TypeOK, NEW m \in Markers, NEW i
    PROVE  /\ Overtake(m, i).pc = mark[m].pc
           /\ Overtake(m, i).id = mark[m].id
           /\ Overtake(m, i).read = mark[m].read
           /\ Overtake(m, i).to = mark[m].to
           /\ ~Overtake(m, i).overtaken =>
                 ~mark[m].overtaken /\ (mark[m].pc = "write" => mark[m].id # i)
<1> DEFINE flag == mark[m].overtaken \/ (mark[m].pc = "write" /\ mark[m].id = i)
<1>1. Overtake(m, i) = [mark[m] EXCEPT !.overtaken = flag]
  BY DEF Overtake
<1>2. mark[m] \in Marking
  BY DEF TypeOK
<1>3. flag => (mark[m].overtaken \/ (mark[m].pc = "write" /\ mark[m].id = i))
  OBVIOUS
<1>4. ~flag => ~mark[m].overtaken /\ (mark[m].pc = "write" => mark[m].id # i)
  OBVIOUS
<1> HIDE DEF flag
<1>5. /\ Overtake(m, i).pc = mark[m].pc
      /\ Overtake(m, i).id = mark[m].id
      /\ Overtake(m, i).read = mark[m].read
      /\ Overtake(m, i).to = mark[m].to
      /\ Overtake(m, i).overtaken = flag
  BY <1>1, <1>2 DEF Marking
<1> QED
  BY <1>4, <1>5

\* An admin's write overtakes every pending write to the same bill.
LEMMA UpdatePending ==
    ASSUME Base, PendingWrites, NEW i \in DOMAIN bills, NEW s \in Statuses, UpdateRideBill(i, s)
    PROVE  PendingWrites'
<1>1. /\ DOMAIN bills' = DOMAIN bills
      /\ \A j \in DOMAIN bills \ {i} : bills'[j] = bills[j]
  BY SetStatusRows DEF UpdateRideBill
<1>2. \A m \in Markers : mark'[m] = Overtake(m, i)
  BY DEF UpdateRideBill
<1>3. UNCHANGED <<nextId, book>>
  BY DEF UpdateRideBill
<1>4. ASSUME NEW m \in Markers, mark'[m].pc = "write"
      PROVE  /\ mark'[m].id \in 1 .. nextId' - 1
             /\ \A b \in Bookers : Inserting(b)' => book'[b].id # mark'[m].id
             /\ ValidTransition(mark'[m].read, mark'[m].to)
             /\ (~mark'[m].overtaken /\ mark'[m].id \in DOMAIN bills') =>
                   bills'[mark'[m].id].status \in {mark'[m].read, mark'[m].to}
  <2>1. /\ mark[m].pc = "write" /\ mark'[m].id = mark[m].id
        /\ mark'[m].read = mark[m].read /\ mark'[m].to = mark[m].to
        /\ ~mark'[m].overtaken => ~mark[m].overtaken /\ mark[m].id # i
    BY <1>2, <1>4, OvertakeFields DEF Base
  <2> QED
    BY <1>1, <1>3, <2>1 DEF PendingWrites, Inserting
<1> QED
  BY <1>4 DEF PendingWrites

LEMMA ReadPending ==
    ASSUME Base, PendingWrites, NEW m \in Markers, NEW i \in DOMAIN bills,
           NEW t \in {"arrived", "completed"}, ReadMyBill(m, i, t)
    PROVE  PendingWrites'
<1>1. /\ i \in 1 .. nextId - 1
      /\ \A b \in Bookers : Inserting(b) => book[b].id # i
  BY BoundsAssumption DEF Base, TypeOK, Stored, InFlight, Ids
<1>2. ValidTransition(bills[i].status, t)
  BY DEF ReadMyBill
<1>3. UNCHANGED <<bills, nextId, book>>
  BY DEF ReadMyBill
<1>4. mark' = [mark EXCEPT ![m] = [pc |-> "write", id |-> i, read |-> bills[i].status,
                                   to |-> t, overtaken |-> FALSE]]
  BY DEF ReadMyBill
<1>5. /\ mark'[m].id = i /\ mark'[m].read = bills[i].status /\ mark'[m].to = t
      /\ \A n \in Markers \ {m} : mark'[n] = mark[n]
  BY <1>4 DEF Base, TypeOK
<1> QED
  BY <1>1, <1>2, <1>3, <1>5 DEF PendingWrites, Inserting

\* Two pending writes to one bill that nothing overtook make the same change.
LEMMA SameTarget ==
    ASSUME NEW s, NEW r1, NEW t1, NEW r2, NEW t2,
           ValidTransition(r1, t1), ValidTransition(r2, t2),
           s \in {r1, t1}, s \in {r2, t2}
    PROVE  t1 = t2
  BY DEF ValidTransition, NextStatus

LEMMA WritePending ==
    ASSUME Base, PendingWrites, NEW n \in Markers, WriteMyBill(n)
    PROVE  PendingWrites'
<1>1. /\ mark[n].pc = "write" /\ mark[n].id \in DOMAIN bills /\ mark[n].to \in Statuses
      /\ UNCHANGED <<nextId, book>>
  BY DEF WriteMyBill, Base, TypeOK, Marking, Statuses
<1>2. /\ DOMAIN bills' = DOMAIN bills
      /\ bills'[mark[n].id].status = mark[n].to
      /\ \A j \in DOMAIN bills \ {mark[n].id} : bills'[j] = bills[j]
  BY <1>1, SetStatusRows DEF WriteMyBill
<1>3. \A m \in Markers :
         mark'[m] = IF m = n THEN IdleMarking
                    ELSE IF mark[n].overtaken THEN Overtake(m, mark[n].id) ELSE mark[m]
  BY DEF WriteMyBill
<1>4. ASSUME NEW m \in Markers, mark'[m].pc = "write"
      PROVE  /\ mark'[m].id \in 1 .. nextId' - 1
             /\ \A b \in Bookers : Inserting(b)' => book'[b].id # mark'[m].id
             /\ ValidTransition(mark'[m].read, mark'[m].to)
             /\ (~mark'[m].overtaken /\ mark'[m].id \in DOMAIN bills') =>
                   bills'[mark'[m].id].status \in {mark'[m].read, mark'[m].to}
  <2>1. m # n
    BY <1>3, <1>4 DEF IdleMarking
  <2>2. /\ mark[m].pc = "write" /\ mark'[m].id = mark[m].id
        /\ mark'[m].read = mark[m].read /\ mark'[m].to = mark[m].to
        /\ ~mark'[m].overtaken =>
              ~mark[m].overtaken /\ (mark[m].id = mark[n].id => ~mark[n].overtaken)
    BY <1>3, <1>4, <2>1, OvertakeFields DEF Base
  <2>3. /\ mark[m].id \in 1 .. nextId - 1
        /\ \A b \in Bookers : Inserting(b) => book[b].id # mark[m].id
        /\ ValidTransition(mark[m].read, mark[m].to)
        /\ (~mark[m].overtaken /\ mark[m].id \in DOMAIN bills) =>
              bills[mark[m].id].status \in {mark[m].read, mark[m].to}
    BY <2>2 DEF PendingWrites
  <2>4. ASSUME ~mark'[m].overtaken, mark[m].id = mark[n].id
        PROVE  mark[n].to = mark[m].to
    <3>1. /\ ValidTransition(mark[n].read, mark[n].to)
          /\ bills[mark[n].id].status \in {mark[n].read, mark[n].to}
      BY <1>1, <2>2, <2>4 DEF PendingWrites
    <3>2. bills[mark[n].id].status \in {mark[m].read, mark[m].to}
      BY <1>1, <2>2, <2>3, <2>4
    <3> QED
      BY <2>3, <3>1, <3>2, SameTarget
  <2> QED
    BY <1>1, <1>2, <2>2, <2>3, <2>4 DEF Inserting
<1> QED
  BY <1>4 DEF PendingWrites

LEMMA PendingStep == Base /\ Base' /\ PendingWrites /\ [Next]_vars => PendingWrites'
<1> SUFFICES ASSUME Base, Base', PendingWrites, [Next]_vars PROVE PendingWrites'
  OBVIOUS
<1>1. ASSUME NEW b \in Bookers, BookingStep(b) PROVE PendingWrites'
  BY <1>1, BookingPending
<1>2. ASSUME NEW m \in Markers, MarkingStep(m) PROVE PendingWrites'
  <2>1. CASE AbortMarking(m)
    BY <2>1 DEF AbortMarking, PendingWrites, Inserting, IdleMarking, Base, TypeOK
  <2> QED
    BY <1>2, <2>1, ReadPending, WritePending DEF MarkingStep
<1>3. ASSUME NEW gone \in SUBSET DOMAIN bills, RemoveBills(gone), UNCHANGED <<nextId, book, mark>>
      PROVE  PendingWrites'
  BY <1>3, TablePending DEF RemoveBills
<1>4. ASSUME NEW r \in routes, DeleteRideLocation(r) PROVE PendingWrites'
  BY <1>4, TablePending DEF DeleteRideLocation, Base, TypeOK, Bill
<1>5. CASE AdminStep
  <2>1. ASSUME NEW i \in DOMAIN bills, NEW s \in AdminStatuses, UpdateRideBill(i, s)
        PROVE  PendingWrites'
    BY <2>1, InputsAssumption, UpdatePending
  <2> QED
    BY <1>3, <1>4, <1>5, <2>1 DEF AdminStep, DeleteRideBill, DeleteUser
<1>6. CASE Tick \/ UNCHANGED vars
  BY <1>6, TablePending DEF Tick, vars
<1> QED
  BY <1>1, <1>2, <1>5, <1>6 DEF Next

\* A student's status change follows the lifecycle whatever the interleaving,
\* unless an admin's write overtook it.
THEOREM LifecycleCorrect == Spec => StudentStepsFollowLifecycle
<1>1. Spec => Init /\ [][Next]_vars
  BY DEF Spec
<1>2. Init => PendingWrites
  BY DEF Init, PendingWrites, IdleMarking
<1>3. PendingWrites /\ [Next]_vars =>
        [\A m \in Markers :
            (WriteMyBill(m) /\ ~mark[m].overtaken) =>
                LET s == bills[mark[m].id].status
                IN  s = mark[m].to \/ ValidTransition(s, mark[m].to)]_vars
  BY DEF PendingWrites, WriteMyBill
<1> QED
  BY <1>1, <1>2, <1>3, PendingStep, BaseInvariance, PTL DEF StudentStepsFollowLifecycle

----------------------------------------------------------------------------
(* How far concurrent bookings can go past the daily limit. *)

LEMMA KeptFinite ==
    ASSUME TypeOK, NEW u, NEW day
    PROVE  IsFiniteSet(Kept(u, day)) /\ Cardinality(Kept(u, day)) \in Nat
  BY BillsFinite DEF Kept, LiveBillsOf

LEMMA ExecutionsFinite ==
    ASSUME NEW S \in SUBSET Bookers
    PROVE  IsFiniteSet(S) /\ Cardinality(S) \in Nat
  BY InputsAssumption, FS_Subset, FS_CardinalityType

ExecutionsOf(u) == {b \in Bookers : OwnerOf[b] = u}

\* RoomForAdmitted of one user and one day.
RoomOn(u, day) ==
    Cardinality(Kept(u, day)) + Cardinality(Admitted(u, day)) <=
        MaxDailyRides + Cardinality(ExecutionsOf(u)) - 1

LEMMA RoomDefinition == RoomForAdmitted <=> \A u \in Users, day \in Days : RoomOn(u, day)
  BY DEF RoomForAdmitted, RoomOn, ExecutionsOf

LEMMA RoomShrinks ==
    ASSUME Base, Base', NEW u, NEW day, RoomOn(u, day),
           Kept(u, day)' \subseteq Kept(u, day), Admitted(u, day)' \subseteq Admitted(u, day)
    PROVE  RoomOn(u, day)'
<1>1. /\ Cardinality(Kept(u, day)) \in Nat /\ Cardinality(Kept(u, day)') \in Nat
      /\ Cardinality(Kept(u, day)') <= Cardinality(Kept(u, day))
  BY KeptFinite, FS_Subset, FS_CardinalityType DEF Base
<1>2. Admitted(u, day) \subseteq Bookers
  BY DEF Admitted
<1>3. /\ Cardinality(Admitted(u, day)) \in Nat /\ Cardinality(Admitted(u, day)') \in Nat
      /\ Cardinality(Admitted(u, day)') <= Cardinality(Admitted(u, day))
  BY <1>2, ExecutionsFinite, FS_Subset, FS_CardinalityType
<1>4. Cardinality(ExecutionsOf(u)) \in Nat
  BY ExecutionsFinite DEF ExecutionsOf
<1> QED
  BY <1>1, <1>3, <1>4, BoundsAssumption DEF RoomOn, ExecutionsOf

\* Below the limit before the others are counted.
LEMMA RoomWhenBelow ==
    ASSUME Base, NEW u, NEW day, Kept(u, day)' = Kept(u, day),
           Cardinality(Kept(u, day)) <= MaxDailyRides - 1
    PROVE  RoomOn(u, day)'
<1>1. Cardinality(Kept(u, day)) \in Nat
  BY KeptFinite DEF Base
<1>2. Admitted(u, day)' \subseteq ExecutionsOf(u) /\ ExecutionsOf(u) \subseteq Bookers
  BY DEF Admitted, ExecutionsOf
<1>3. /\ Cardinality(ExecutionsOf(u)) \in Nat /\ Cardinality(Admitted(u, day)') \in Nat
      /\ Cardinality(Admitted(u, day)') <= Cardinality(ExecutionsOf(u))
  BY <1>2, ExecutionsFinite, FS_Subset, FS_CardinalityType
<1> QED
  BY <1>1, <1>3, BoundsAssumption DEF RoomOn, ExecutionsOf

LEMMA InitRoom == Init => RoomForAdmitted
<1> SUFFICES ASSUME Init, NEW u \in Users, NEW day \in Days PROVE RoomOn(u, day)
  BY RoomDefinition
<1>1. Kept(u, day) = {} /\ Admitted(u, day) = {}
  BY DEF Init, Kept, LiveBillsOf, Admitted, IdleBooking
<1>2. Cardinality({}) = 0
  BY FS_EmptySet
<1>3. Cardinality(ExecutionsOf(u)) \in Nat
  BY ExecutionsFinite DEF ExecutionsOf
<1> QED
  BY <1>1, <1>2, <1>3, BoundsAssumption DEF RoomOn

\* A booking is admitted below the limit; what stores nothing admits nobody else.
LEMMA BookingRoom ==
    ASSUME Base, Base', RoomForAdmitted, NEW b \in Bookers, BookingStep(b), ~StoreBooking(b)
    PROVE  RoomForAdmitted'
<1> SUFFICES ASSUME NEW u \in Users, NEW day \in Days PROVE RoomOn(u, day)'
  BY RoomDefinition DEF RoomForAdmitted, RoomOn, ExecutionsOf
<1>1. /\ UNCHANGED <<now, bills>>
      /\ \A c \in Bookers :
            \/ book'[c].pc = "idle"
            \/ Continues(c)
            \/ c = b /\ (\E trip \in Trips : BeginBooking(b, trip)) /\ ~Inserting(c)'
  BY BookingShape
<1>2. Kept(u, day)' = Kept(u, day)
  BY <1>1 DEF Kept, LiveBillsOf, Live, DayOf
<1>3. ASSUME NEW trip \in Trips, BeginBooking(b, trip), u = OwnerOf[b], day = DayOf(now)
      PROVE  RoomOn(u, day)'
  <2>1. Kept(u, day) \subseteq BillsOfToday(u)
    BY <1>3 DEF Kept, BillsOfToday
  <2>2. IsFiniteSet(BillsOfToday(u)) /\ Cardinality(BillsOfToday(u)) \in Nat
    BY BillsFinite DEF Base, BillsOfToday, LiveBillsOf
  <2>3. ~(Cardinality(BillsOfToday(u)) >= MaxDailyRides)
    BY <1>3 DEF BeginBooking, DailyLimitReached
  <2>4. Cardinality(Kept(u, day)) \in Nat /\ Cardinality(Kept(u, day)) <= Cardinality(BillsOfToday(u))
    BY <2>1, <2>2, FS_Subset, FS_CardinalityType
  <2>5. Cardinality(Kept(u, day)) <= MaxDailyRides - 1
    BY <2>2, <2>3, <2>4, BoundsAssumption
  <2> QED
    BY <1>2, <2>5, RoomWhenBelow
<1>4. CASE ~(u = OwnerOf[b] /\ day = DayOf(now) /\ \E trip \in Trips : BeginBooking(b, trip))
  <2>1. ASSUME NEW c \in Bookers, OwnerOf[c] = u, book'[c].pc # "idle", DayOf(At(c))' = day
        PROVE  c \in Admitted(u, day)
    <3>1. CASE Continues(c)
      <4>1. DayOf(At(c)) = day
        BY <2>1, <3>1 DEF Continues, DayOf
      <4> QED
        BY <2>1, <3>1, <4>1 DEF Continues, Admitted
    <3>2. CASE c = b /\ (\E trip \in Trips : BeginBooking(b, trip)) /\ ~Inserting(c)'
      <4>1. DayOf(now) = day
        BY <1>1, <2>1, <3>2 DEF At, DayOf
      <4> QED
        BY <1>4, <2>1, <3>2, <4>1
    <3> QED
      BY <1>1, <2>1, <3>1, <3>2
  <2>2. Admitted(u, day)' \subseteq Admitted(u, day)
    BY <2>1 DEF Admitted
  <2>3. RoomOn(u, day)
    BY RoomDefinition
  <2> QED
    BY <1>2, <2>2, <2>3, RoomShrinks
<1> QED
  BY <1>3, <1>4

\* What is stored was admitted, and is admitted no more.
LEMMA StoreBookingRoom ==
    ASSUME Base, Base', RoomForAdmitted, NEW b \in Bookers, Stores(b)
    PROVE  RoomForAdmitted'
<1> SUFFICES ASSUME NEW u \in Users, NEW day \in Days PROVE RoomOn(u, day)'
  BY RoomDefinition DEF RoomForAdmitted, RoomOn, ExecutionsOf
<1>a. PICK id : id = book[b].id
  OBVIOUS
<1>1. NewBill(b).user = OwnerOf[b] /\ NewBill(b).created = book[b].created
  BY DEF NewBill
<1>2. Admitted(u, day)' \subseteq Admitted(u, day) \ {b}
  <2>1. ASSUME NEW c \in Bookers, book'[c].pc # "idle", DayOf(At(c))' = day
        PROVE  c # b /\ book[c].pc # "idle" /\ DayOf(At(c)) = day
    <3>1. c # b /\ book[c].pc # "idle"
      BY <2>1 DEF Stores, IdleBooking
    <3>2. At(c)' = At(c)
      BY <3>1 DEF Stores, At, Inserting
    <3> QED
      BY <2>1, <3>1, <3>2 DEF DayOf
  <2> QED
    BY <2>1 DEF Admitted
<1>3. RoomOn(u, day)
  BY RoomDefinition
<1>4. CASE ~(u = OwnerOf[b] /\ day = DayOf(book[b].created))
  <2>1. Kept(u, day)' \subseteq Kept(u, day)
    BY <1>1, <1>4 DEF Stores, Kept, LiveBillsOf, Live, DayOf
  <2> QED
    BY <1>2, <1>3, <2>1, RoomShrinks
<1>5. CASE u = OwnerOf[b] /\ day = DayOf(book[b].created)
  <2>1. Kept(u, day)' \subseteq Kept(u, day) \cup {id}
    BY <1>a DEF Stores, Kept, LiveBillsOf, Live, DayOf
  <2>2. /\ IsFiniteSet(Kept(u, day) \cup {id}) /\ Cardinality(Kept(u, day)) \in Nat
        /\ Cardinality(Kept(u, day) \cup {id}) <= Cardinality(Kept(u, day)) + 1
        /\ Cardinality(Kept(u, day) \cup {id}) \in Nat
    <3>1. IsFiniteSet(Kept(u, day)) /\ Cardinality(Kept(u, day)) \in Nat
      BY KeptFinite DEF Base
    <3>2. /\ IsFiniteSet(Kept(u, day) \cup {id})
          /\ \/ Cardinality(Kept(u, day) \cup {id}) = Cardinality(Kept(u, day))
             \/ Cardinality(Kept(u, day) \cup {id}) = Cardinality(Kept(u, day)) + 1
      BY <3>1, FS_AddElement
    <3> QED
      BY <3>1, <3>2
  <2>3. /\ Cardinality(Kept(u, day)') \in Nat
        /\ Cardinality(Kept(u, day)') <= Cardinality(Kept(u, day)) + 1
    BY <2>1, <2>2, FS_Subset, FS_CardinalityType
  <2>4. b \in Admitted(u, day)
    BY <1>5 DEF Admitted, Stores, At, Inserting
  <2>5. Admitted(u, day) \subseteq Bookers
    BY DEF Admitted
  <2>6. IsFiniteSet(Admitted(u, day)) /\ Cardinality(Admitted(u, day)) \in Nat
    BY <2>5, ExecutionsFinite
  <2>7. /\ IsFiniteSet(Admitted(u, day) \ {b})
        /\ Cardinality(Admitted(u, day) \ {b}) = Cardinality(Admitted(u, day)) - 1
    BY <2>4, <2>6, FS_RemoveElement
  <2>8. /\ Cardinality(Admitted(u, day)') \in Nat
        /\ Cardinality(Admitted(u, day)') <= Cardinality(Admitted(u, day)) - 1
    BY <1>2, <2>7, FS_Subset, FS_CardinalityType
  <2>9. Cardinality(ExecutionsOf(u)) \in Nat
    BY ExecutionsFinite DEF ExecutionsOf
  <2> QED
    BY <1>3, <2>2, <2>3, <2>6, <2>8, <2>9, BoundsAssumption DEF RoomOn, ExecutionsOf
<1> QED
  BY <1>4, <1>5

\* Midnight: those that have not begun their INSERT are admitted to an empty day.
LEMMA TickRoom ==
    ASSUME Base, Base', RoomForAdmitted, Tick
    PROVE  RoomForAdmitted'
<1> SUFFICES ASSUME NEW u \in Users, NEW day \in Days PROVE RoomOn(u, day)'
  BY RoomDefinition DEF RoomForAdmitted, RoomOn, ExecutionsOf
<1>1. UNCHANGED <<bills, book>> /\ now' = now + 1 /\ now \in Nat
  BY BoundsAssumption DEF Tick, Base, TypeOK
<1>2. Kept(u, day)' = Kept(u, day)
  BY <1>1 DEF Kept, LiveBillsOf, Live, DayOf
<1>3. CASE DayOf(now + 1) = day /\ DayOf(now) # day
  <2>1. Kept(u, day) = {}
    BY <1>1, <1>3, FutureDayEmpty
  <2> QED
    BY <1>2, <2>1, FS_EmptySet, RoomWhenBelow, BoundsAssumption
<1>4. CASE ~(DayOf(now + 1) = day /\ DayOf(now) # day)
  <2>1. ASSUME NEW c \in Bookers, DayOf(At(c))' = day PROVE DayOf(At(c)) = day
    <3>1. CASE Inserting(c)
      BY <1>1, <2>1, <3>1 DEF At, Inserting, DayOf
    <3>2. CASE ~Inserting(c)
      <4>1. DayOf(now + 1) = day
        BY <1>1, <2>1, <3>2 DEF At, Inserting, DayOf
      <4> QED
        BY <1>4, <3>2, <4>1 DEF At
    <3> QED
      BY <3>1, <3>2
  <2>2. Admitted(u, day)' \subseteq Admitted(u, day)
    BY <1>1, <2>1 DEF Admitted
  <2>3. RoomOn(u, day)
    BY RoomDefinition
  <2> QED
    BY <1>2, <2>2, <2>3, RoomShrinks
<1> QED
  BY <1>3, <1>4

LEMMA RoomStep == Base /\ Base' /\ RoomForAdmitted /\ [Next]_vars => RoomForAdmitted'
<1> SUFFICES ASSUME Base, Base', RoomForAdmitted, [Next]_vars PROVE RoomForAdmitted'
  OBVIOUS
<1>1. ASSUME OnlyLoses, UNCHANGED <<now, book>> PROVE RoomForAdmitted'
  <2> SUFFICES ASSUME NEW u \in Users, NEW day \in Days PROVE RoomOn(u, day)'
    BY RoomDefinition DEF RoomForAdmitted, RoomOn, ExecutionsOf
  <2>1. Kept(u, day)' \subseteq Kept(u, day)
    BY <1>1 DEF OnlyLoses, Kept, LiveBillsOf, Live, DayOf
  <2>2. Admitted(u, day)' \subseteq Admitted(u, day)
    BY <1>1 DEF Admitted, At, Inserting, DayOf
  <2>3. RoomOn(u, day)
    BY RoomDefinition
  <2> QED
    BY <2>1, <2>2, <2>3, RoomShrinks
<1>2. ASSUME NEW b \in Bookers, BookingStep(b) PROVE RoomForAdmitted'
  BY <1>2, BookingRoom, StoreBookingRoom, StoreBookingShape
<1>3. ASSUME NEW m \in Markers, MarkingStep(m) PROVE RoomForAdmitted'
  BY <1>1, <1>3, MarkingStepShape DEF Base
<1>4. CASE AdminStep
  BY <1>1, <1>4, AdminStepShape DEF Base
<1>5. CASE UNCHANGED vars
  <2>1. OnlyLoses
    BY <1>5 DEF vars, OnlyLoses, Base, TypeOK
  <2> QED
    BY <1>1, <1>5, <2>1 DEF vars
<1> QED
  BY <1>2, <1>3, <1>4, <1>5, TickRoom DEF Next

\* Concurrent bookings exceed the daily limit of CreateRideBill by no more than the number
\* of the user's other requests, for any limit, day, and number of executions.
THEOREM OvershootBounded == Spec => []DailyOvershootBound
<1>1. Spec => Init /\ [][Next]_vars
  BY DEF Spec
<1>2. Base /\ RoomForAdmitted => DailyOvershootBound
  <2> SUFFICES ASSUME Base, RoomForAdmitted, NEW u \in Users, NEW day \in Days
               PROVE  Cardinality(Kept(u, day)) <= MaxDailyRides + Cardinality(ExecutionsOf(u)) - 1
    BY DEF DailyOvershootBound, ExecutionsOf
  <2>1. RoomOn(u, day)
    BY RoomDefinition
  <2>2. Admitted(u, day) \subseteq Bookers /\ ExecutionsOf(u) \subseteq Bookers
    BY DEF Admitted, ExecutionsOf
  <2>3. Cardinality(Admitted(u, day)) \in Nat /\ Cardinality(ExecutionsOf(u)) \in Nat
    BY <2>2, ExecutionsFinite
  <2>4. Cardinality(Kept(u, day)) \in Nat
    BY KeptFinite DEF Base
  <2> QED
    BY <2>1, <2>3, <2>4, BoundsAssumption DEF RoomOn
<1> QED
  BY <1>1, <1>2, InitRoom, RoomStep, BaseInvariance, PTL

----------------------------------------------------------------------------
(* The numbers of a day. *)

LEMMA OfDayFinite ==
    ASSUME TypeOK, NEW day
    PROVE  IsFiniteSet(OfDay(day)) /\ Cardinality(OfDay(day)) \in Nat
  BY BillsFinite DEF OfDay

NumberInv == NumbersOfDays /\ QuietInserts /\ DayNumbersConsecutive

LEMMA InitNumbers == Init => NumberInv
<1> SUFFICES ASSUME Init PROVE NumberInv
  OBVIOUS
<1>1. NumbersOfDays /\ QuietInserts
  BY DEF Init, NumbersOfDays, QuietInserts, IdleBooking, Inserting
<1>2. ASSUME NEW day PROVE OfDay(day) = {} /\ Cardinality(OfDay(day)) = 0
  <2>1. OfDay(day) = {}
    BY DEF Init, OfDay
  <2> QED
    BY <2>1, FS_EmptySet
<1>3. ASSUME NEW day
      PROVE  {bills[i].num : i \in OfDay(day)} = {day} \X (1 .. Cardinality(OfDay(day)))
  <2>1. {bills[i].num : i \in OfDay(day)} = {}
    BY <1>2
  <2>2. 1 .. 0 = {}
    OBVIOUS
  <2> QED
    BY <1>2, <2>1, <2>2
<1> QED
  BY <1>1, <1>3 DEF NumberInv, DayNumbersConsecutive

\* Steps that insert nothing: rows that go leave their day thinned.
Thins ==
    /\ OnlyLoses
    /\ thinned \subseteq thinned'
    /\ \A i \in DOMAIN bills \ DOMAIN bills' : DayOf(bills[i].created) \in thinned'

LEMMA AdminThins ==
    ASSUME TypeOK, AdminStep
    PROVE  Thins
<1> USE DEF TypeOK
<1>0. OnlyLoses
  BY AdminStepShape
<1>1. ASSUME NEW i \in DOMAIN bills, NEW s \in AdminStatuses, UpdateRideBill(i, s)
      PROVE  DOMAIN bills' = DOMAIN bills /\ thinned' = thinned
  BY <1>1, InputsAssumption, SetStatusOnlyLoses DEF UpdateRideBill
<1>2. ASSUME NEW gone \in SUBSET DOMAIN bills, RemoveBills(gone)
      PROVE  Thins
  <2>1. DOMAIN bills' = DOMAIN bills \ gone
    BY <1>2 DEF RemoveBills
  <2> QED
    BY <1>0, <1>2, <2>1 DEF RemoveBills, Thins
<1>3. ASSUME NEW r \in routes, DeleteRideLocation(r)
      PROVE  DOMAIN bills' = DOMAIN bills /\ thinned' = thinned
  BY <1>3 DEF DeleteRideLocation
<1>4. ASSUME NEW i \in DOMAIN bills, DeleteRideBill(i) PROVE Thins
  BY <1>2, <1>4 DEF DeleteRideBill
<1>5. ASSUME NEW u \in users, DeleteUser(u) PROVE Thins
  <2>1. RemoveBills({i \in DOMAIN bills : bills[i].user = u})
    BY <1>5 DEF DeleteUser
  <2> QED
    BY <1>2, <2>1
<1> QED
  BY <1>0, <1>1, <1>3, <1>4, <1>5 DEF AdminStep, Thins

LEMMA MarkingThins ==
    ASSUME TypeOK, NEW m \in Markers, MarkingStep(m)
    PROVE  Thins
<1>1. OnlyLoses /\ thinned' = thinned
  BY MarkingStepShape
<1>2. DOMAIN bills' = DOMAIN bills
  <2>1. CASE WriteMyBill(m)
    <3>1. mark[m].to \in Statuses
      BY DEF TypeOK, Marking, Statuses
    <3> QED
      BY <2>1, <3>1, SetStatusOnlyLoses DEF WriteMyBill
  <2> QED
    BY <2>1 DEF MarkingStep, ReadMyBill, AbortMarking
<1> QED
  BY <1>1, <1>2 DEF Thins

\* A day from which nothing was deleted keeps its rows and numbers.
LEMMA ThinsKeepsDays ==
    ASSUME Thins, NEW day, day \notin thinned'
    PROVE  /\ day \notin thinned
           /\ OfDay(day)' = OfDay(day)
           /\ \A i \in OfDay(day) : bills'[i].num = bills[i].num
<1>1. \A i \in DOMAIN bills : DayOf(bills[i].created) = day => i \in DOMAIN bills'
  BY DEF Thins
<1>2. \A i \in DOMAIN bills' : i \in DOMAIN bills /\ bills'[i].created = bills[i].created
  BY DEF Thins, OnlyLoses
<1>3. OfDay(day)' = OfDay(day)
  BY <1>1, <1>2 DEF OfDay, DayOf
<1>4. \A i \in OfDay(day) : bills'[i].num = bills[i].num
  BY <1>1 DEF OfDay, Thins, OnlyLoses
<1> QED
  BY <1>3, <1>4 DEF Thins

\* Executions that stay where they are, or leave their INSERT.
Goes(c) == book'[c] = book[c] \/ ~Inserting(c)'

\* NumbersOfDays and QuietInserts of execution c, whose INSERT is dated to a day.
Numbered(c, day) ==
    /\ book[c].num[1] = day
    /\ day \notin thinned =>
          \E k \in 1 .. Cardinality(OfDay(day)) + 1 : book[c].num[2] = Lpad(k)

Quiet(c, day) ==
    /\ \A d \in Bookers \ {c} : ~Inserting(d)
    /\ \A i \in DOMAIN bills : i < book[c].id
    /\ (book[c].pc = "store" /\ day \notin thinned) =>
          book[c].num[2] = Lpad(Cardinality(OfDay(day)) + 1)

ByDay ==
    /\ \A i \in DOMAIN bills : bills[i].num[1] = DayOf(bills[i].created)
    /\ \A c \in Bookers, day \in Nat :
          DayOf(book[c].created) = day =>
              /\ book[c].pc = "store" => Numbered(c, day)
              /\ (Inserting(c) /\ ~book[c].overlapped) => Quiet(c, day)

LEMMA ByDayMeans == Base => (NumbersOfDays /\ QuietInserts <=> ByDay)
<1> SUFFICES ASSUME Base PROVE NumbersOfDays /\ QuietInserts <=> ByDay
  OBVIOUS
<1>1. \A c \in Bookers : DayOf(book[c].created) \in Nat
  BY DayIsNat, BoundsAssumption DEF Base, TypeOK, Booking
<1>2. NumbersOfDays /\ QuietInserts => ByDay
  BY DEF NumbersOfDays, QuietInserts, ByDay, Numbered, Quiet
<1>3. ByDay => NumbersOfDays /\ QuietInserts
  BY <1>1 DEF NumbersOfDays, QuietInserts, ByDay, Numbered, Quiet
<1> QED
  BY <1>2, <1>3

LEMMA ByDayMeansNext == Base' => (NumbersOfDays' /\ QuietInserts' <=> ByDay')
  BY ByDayMeans, PTL

LEMMA ThinsNumbers ==
    ASSUME Base, Base', ByDay, DayNumbersConsecutive, Thins, \A c \in Bookers : Goes(c)
    PROVE  ByDay' /\ DayNumbersConsecutive'
<1>1. \A i \in DOMAIN bills' : bills'[i].num[1] = DayOf(bills'[i].created)
  BY DEF ByDay, Thins, OnlyLoses
<1>2. ASSUME NEW c \in Bookers, Inserting(c)'
      PROVE  book'[c] = book[c] /\ Inserting(c)
  BY <1>2 DEF Goes, Inserting
<1>3. ASSUME NEW c \in Bookers, NEW day \in Nat, Inserting(c)', DayOf(book[c].created) = day
      PROVE  /\ book'[c].pc = "store" => Numbered(c, day)'
             /\ ~book'[c].overlapped => Quiet(c, day)'
  <2>1. book'[c] = book[c] /\ Inserting(c)
    BY <1>2, <1>3
  <2>2. day \notin thinned' => day \notin thinned /\ OfDay(day)' = OfDay(day)
    BY ThinsKeepsDays
  <2>3. ASSUME book'[c].pc = "store" PROVE Numbered(c, day)'
    <3>1. Numbered(c, day)
      BY <1>3, <2>1, <2>3 DEF ByDay
    <3> QED
      BY <2>1, <2>2, <3>1 DEF Numbered
  <2>4. ASSUME ~book'[c].overlapped PROVE Quiet(c, day)'
    <3>1. Quiet(c, day)
      BY <1>3, <2>1, <2>4 DEF ByDay
    <3>2. \A d \in Bookers \ {c} : ~Inserting(d)'
      BY <1>2, <3>1 DEF Quiet
    <3>3. \A i \in DOMAIN bills' : i < book'[c].id
      BY <2>1, <3>1 DEF Quiet, Thins, OnlyLoses
    <3>4. book[c].pc = "store" /\ day \notin thinned' =>
             book[c].num[2] = Lpad(Cardinality(OfDay(day)') + 1)
      BY <2>2, <3>1 DEF Quiet
    <3> QED
      BY <2>1, <3>2, <3>3, <3>4 DEF Quiet, Lpad
  <2> QED
    BY <2>3, <2>4
<1>4. ByDay'
  <2>1. ASSUME NEW c \in Bookers, NEW day \in Nat, DayOf(book'[c].created) = day
        PROVE  /\ book'[c].pc = "store" => Numbered(c, day)'
               /\ (Inserting(c)' /\ ~book'[c].overlapped) => Quiet(c, day)'
    <3>1. book'[c].pc = "store" => Inserting(c)'
      BY DEF Inserting
    <3>2. Inserting(c)' => DayOf(book[c].created) = day
      BY <1>2, <2>1
    <3> QED
      BY <1>3, <3>1, <3>2
  <2> QED
    BY <1>1, <2>1 DEF ByDay, DayOf
<1>5. ASSUME NEW day \in Days \ thinned', Cardinality(OfDay(day)') < SeqCap
      PROVE  {bills'[i].num : i \in OfDay(day)'} = {day} \X (1 .. Cardinality(OfDay(day)'))
  <2>1. day \notin thinned /\ OfDay(day)' = OfDay(day)
    BY ThinsKeepsDays
  <2>2. \A i \in OfDay(day) : bills'[i].num = bills[i].num
    BY ThinsKeepsDays
  <2>3. {bills[i].num : i \in OfDay(day)} = {day} \X (1 .. Cardinality(OfDay(day)))
    BY <1>5, <2>1 DEF DayNumbersConsecutive
  <2> QED
    BY <2>1, <2>2, <2>3
<1>6. DayNumbersConsecutive'
  BY <1>5 DEF DayNumbersConsecutive
<1> QED
  BY <1>4, <1>6

\* The steps of a booking that neither begin nor number nor store an INSERT.
LEMMA OtherBookingSteps ==
    ASSUME Base, NEW b \in Bookers, BookingStep(b),
           ~StartInsert(b), ~GenerateRideNumber(b), ~StoreBooking(b)
    PROVE  Thins /\ \A c \in Bookers : Goes(c)
<1>1. UNCHANGED <<bills, thinned>> => Thins
  BY DEF Thins, OnlyLoses, Base, TypeOK
<1>2. ASSUME NEW pc \in {"route", "any", "insert", "idle"}, NEW r \in Booking,
             book' = [book EXCEPT ![b] = r], r.pc = pc
      PROVE  \A c \in Bookers : Goes(c)
  BY <1>2 DEF Goes, Inserting, Base, TypeOK
<1>3. book[b] \in Booking
  BY DEF Base, TypeOK
<1>4. ASSUME NEW trip \in Trips, BeginBooking(b, trip) PROVE \A c \in Bookers : Goes(c)
  <2> DEFINE r == [book[b] EXCEPT !.pc = "route", !.trip = trip]
  <2>1. r \in Booking /\ r.pc = "route"
    BY <1>3, InputsAssumption DEF Booking
  <2>2. book' = [book EXCEPT ![b] = r]
    BY <1>3, <1>4 DEF BeginBooking, Base, TypeOK, Booking
  <2> HIDE DEF r
  <2> QED
    BY <1>2, <2>1, <2>2
<1>5. ASSUME RefuseBooking(b) PROVE \A c \in Bookers : Goes(c)
  BY <1>2, <1>5, IdleTypes DEF RefuseBooking, IdleBooking
<1>6. ASSUME NEW pc \in {"any", "insert"}, book' = [book EXCEPT ![b].pc = pc]
      PROVE  \A c \in Bookers : Goes(c)
  <2> DEFINE r == [book[b] EXCEPT !.pc = pc]
  <2>1. r \in Booking /\ r.pc = pc /\ book' = [book EXCEPT ![b] = r]
    BY <1>3, <1>6 DEF Booking
  <2> HIDE DEF r
  <2> QED
    BY <1>2, <2>1
<1> QED
  BY <1>1, <1>4, <1>5, <1>6
     DEF BookingStep, BeginBooking, CheckRouteCooldown, CheckAnyCooldown, RefuseRow, AbortBooking

LEMMA SameDays ==
    ASSUME DayNumbersConsecutive, UNCHANGED <<bills, thinned>>
    PROVE  DayNumbersConsecutive'
  BY DEF DayNumbersConsecutive, OfDay, DayOf

\* An INSERT begins with the highest id, and overlaps all that are under way.
LEMMA StartInsertNumbers ==
    ASSUME Base, Base', ByDay, DayNumbersConsecutive, NEW b \in Bookers, StartInsert(b)
    PROVE  ByDay' /\ DayNumbersConsecutive'
<1> DEFINE others == {c \in Bookers \ {b} : Inserting(c)}
           busy == (others # {})
           met(c) == book[c].overlapped \/ c \in others
<1>1. /\ UNCHANGED <<bills, thinned>> /\ book[b].pc = "insert"
      /\ book' = [c \in Bookers |->
                   IF c = b
                     THEN [book[b] EXCEPT !.pc = "number", !.id = nextId,
                                          !.created = now, !.overlapped = busy]
                     ELSE [book[c] EXCEPT !.overlapped = met(c)]]
  BY DEF StartInsert
<1>2. \A c \in Bookers : book[c] \in Booking
  BY DEF Base, TypeOK
<1>3. book'[b].pc = "number" /\ book'[b].id = nextId /\ book'[b].overlapped = busy
  <2> HIDE DEF busy
  <2>1. book'[b] = [book[b] EXCEPT !.pc = "number", !.id = nextId,
                                   !.created = now, !.overlapped = busy]
    BY <1>1
  <2> QED
    BY <1>2, <2>1 DEF Booking
<1>4. ASSUME NEW c \in Bookers \ {b}
      PROVE  /\ book'[c].pc = book[c].pc /\ book'[c].id = book[c].id /\ book'[c].num = book[c].num
             /\ book'[c].created = book[c].created /\ book'[c].overlapped = met(c)
  <2> DEFINE flag == met(c)
  <2>1. book'[c] = [book[c] EXCEPT !.overlapped = flag]
    BY <1>1
  <2> HIDE DEF flag
  <2>2. /\ book'[c].pc = book[c].pc /\ book'[c].id = book[c].id /\ book'[c].num = book[c].num
        /\ book'[c].created = book[c].created /\ book'[c].overlapped = flag
    BY <1>2, <2>1 DEF Booking
  <2> QED
    BY <2>2 DEF flag
<1> HIDE DEF met
<1>5. \A day : OfDay(day)' = OfDay(day)
  BY <1>1 DEF OfDay, DayOf
<1>6. DayNumbersConsecutive'
  BY <1>1, SameDays
<1>7. ASSUME NEW c \in Bookers, NEW day \in Nat, DayOf(book'[c].created) = day, book'[c].pc = "store"
      PROVE  Numbered(c, day)'
  <2>1. c # b
    BY <1>3, <1>7
  <2>2. Numbered(c, day)
    BY <1>4, <1>7, <2>1 DEF ByDay
  <2> QED
    BY <1>1, <1>4, <1>5, <2>1, <2>2 DEF Numbered
<1>8. ASSUME NEW c \in Bookers, NEW day \in Nat, Inserting(c)', ~book'[c].overlapped
      PROVE  Quiet(c, day)'
  <2>1. c = b
    <3> SUFFICES ASSUME c # b PROVE FALSE
      OBVIOUS
    <3>1. Inserting(c)
      BY <1>4, <1>8 DEF Inserting
    <3> QED
      BY <1>4, <1>8, <3>1 DEF met
  <2>2. \A d \in Bookers \ {b} : ~Inserting(d)'
    BY <1>3, <1>4, <1>8, <2>1 DEF Inserting
  <2>3. \A i \in DOMAIN bills' : i < book'[b].id
    BY <1>1, <1>3 DEF Base, Stored
  <2> QED
    BY <1>3, <2>1, <2>2, <2>3 DEF Quiet
<1>9. \A i \in DOMAIN bills' : bills'[i].num[1] = DayOf(bills'[i].created)
  BY <1>1 DEF ByDay
<1> QED
  BY <1>6, <1>7, <1>8, <1>9 DEF ByDay, DayOf

\* The trigger counts the rows it sees: at most those of the day, and all of them if no
\* higher id was stored first.
LEMMA GenerateNumbers ==
    ASSUME Base, Base', ByDay, DayNumbersConsecutive, NEW b \in Bookers, GenerateRideNumber(b)
    PROVE  ByDay' /\ DayNumbersConsecutive'
<1>a. PICK today : today = DayOf(book[b].created)
  OBVIOUS
<1>b. PICK seq : seq = Cardinality(EarlierThatDay(book[b].id, today)) + 1
  OBVIOUS
<1>1. /\ UNCHANGED <<bills, thinned>> /\ book[b].pc = "number"
      /\ book' = [book EXCEPT ![b].pc = "store", ![b].num = <<today, Lpad(seq)>>]
  BY <1>a, <1>b DEF GenerateRideNumber
<1>2. \A c \in Bookers : book[c] \in Booking
  BY DEF Base, TypeOK
<1>3. /\ book'[b].pc = "store" /\ book'[b].num = <<today, Lpad(seq)>> /\ book'[b].id = book[b].id
      /\ book'[b].created = book[b].created /\ book'[b].overlapped = book[b].overlapped
      /\ \A c \in Bookers \ {b} : book'[c] = book[c]
  BY <1>1, <1>2 DEF Base, TypeOK, Booking
<1>4. \A c \in Bookers : Inserting(c)' <=> Inserting(c)
  BY <1>1, <1>3 DEF Inserting
<1>5. \A day : OfDay(day)' = OfDay(day)
  BY <1>1 DEF OfDay, DayOf
<1>6. DayNumbersConsecutive'
  BY <1>1, SameDays
<1>7. seq \in 1 .. Cardinality(OfDay(today)) + 1
  <2>1. EarlierThatDay(book[b].id, today) \subseteq OfDay(today)
    BY DEF EarlierThatDay, OfDay
  <2>2. IsFiniteSet(OfDay(today)) /\ Cardinality(OfDay(today)) \in Nat
    BY OfDayFinite DEF Base
  <2>3. /\ Cardinality(EarlierThatDay(book[b].id, today)) \in Nat
        /\ Cardinality(EarlierThatDay(book[b].id, today)) <= Cardinality(OfDay(today))
    BY <2>1, <2>2, FS_Subset, FS_CardinalityType
  <2> QED
    BY <1>b, <2>2, <2>3
<1>8. ASSUME NEW c \in Bookers, NEW day \in Nat, DayOf(book'[c].created) = day
      PROVE  /\ book'[c].pc = "store" => Numbered(c, day)'
             /\ (Inserting(c)' /\ ~book'[c].overlapped) => Quiet(c, day)'
  <2>0. DayOf(book[c].created) = day
    BY <1>3, <1>8
  <2>1. (Inserting(c)' /\ ~book'[c].overlapped) => Quiet(c, day)
    BY <1>3, <1>4, <2>0 DEF ByDay
  <2>2. CASE c # b
    <3>1. book'[c].pc = "store" => Numbered(c, day)
      BY <1>3, <2>0, <2>2 DEF ByDay
    <3>2. book'[c].pc = "store" => Numbered(c, day)'
      BY <1>1, <1>3, <1>5, <2>2, <3>1 DEF Numbered
    <3>3. Quiet(c, day) => Quiet(c, day)'
      BY <1>1, <1>3, <1>4, <1>5, <2>2 DEF Quiet, Lpad
    <3> QED
      BY <2>1, <3>2, <3>3
  <2>3. CASE c = b
    <3>1. day = today
      BY <1>a, <2>0, <2>3
    <3>2. Numbered(b, today)'
      <4>1. book'[b].num[1] = today /\ book'[b].num[2] = Lpad(seq)
        BY <1>3
      <4> QED
        BY <1>5, <1>7, <4>1 DEF Numbered
    <3>3. ASSUME Quiet(b, today) PROVE Quiet(b, today)'
      <4>1. EarlierThatDay(book[b].id, today) = OfDay(today)
        BY <3>3 DEF Quiet, EarlierThatDay, OfDay
      <4>2. book'[b].num[2] = Lpad(Cardinality(OfDay(today)') + 1)
        BY <1>b, <1>3, <1>5, <4>1
      <4> QED
        BY <1>1, <1>3, <1>4, <3>3, <4>2 DEF Quiet, Lpad
    <3> QED
      BY <2>1, <2>3, <3>1, <3>2, <3>3
  <2> QED
    BY <2>2, <2>3
<1>9. \A i \in DOMAIN bills' : bills'[i].num[1] = DayOf(bills'[i].created)
  BY <1>1 DEF ByDay
<1> QED
  BY <1>6, <1>8, <1>9 DEF ByDay, DayOf

\* A booking is stored under the next number of its day, or its number is taken.
LEMMA StoreNumbers ==
    ASSUME Base, Base', ByDay, DayNumbersConsecutive, NEW b \in Bookers, Stores(b),
           ~NumberTaken(book[b].num)
    PROVE  ByDay' /\ DayNumbersConsecutive'
<1>a. PICK id : id = book[b].id
  OBVIOUS
<1>b. PICK today : today = DayOf(book[b].created)
  OBVIOUS
<1>0. today \in Nat
  BY <1>b, DayIsNat, BoundsAssumption DEF Base, TypeOK, Booking
<1>1. /\ id \in Ids \ DOMAIN bills
      /\ DOMAIN bills' = DOMAIN bills \cup {id}
      /\ bills'[id].num = book[b].num /\ bills'[id].created = book[b].created
      /\ \A i \in DOMAIN bills : bills'[i] = bills[i]
      /\ thinned' = thinned
  BY <1>a DEF Stores, NewBill
<1>2. Numbered(b, today)
  BY <1>0, <1>b DEF Stores, ByDay
<1>3. \A i \in DOMAIN bills' : bills'[i].num[1] = DayOf(bills'[i].created)
  BY <1>1, <1>2, <1>b DEF ByDay, Numbered
<1>4. OfDay(today)' = OfDay(today) \cup {id} /\ id \notin OfDay(today)
  BY <1>1, <1>b DEF OfDay, DayOf
<1>5. \A day : day # today => OfDay(day)' = OfDay(day)
  BY <1>1, <1>b DEF OfDay, DayOf
<1>6. /\ Cardinality(OfDay(today)) \in Nat
      /\ Cardinality(OfDay(today)') = Cardinality(OfDay(today)) + 1
  BY <1>4, OfDayFinite, FS_AddElement DEF Base
<1>7. \A day : /\ Cardinality(OfDay(day)) \in Nat /\ Cardinality(OfDay(day)') \in Nat
               /\ Cardinality(OfDay(day)) <= Cardinality(OfDay(day)')
  <2> TAKE day
  <2>1. Cardinality(OfDay(day)) \in Nat
    BY OfDayFinite DEF Base
  <2> QED
    BY <1>5, <1>6, <2>1
<1>8. ASSUME NEW c \in Bookers, NEW day \in Nat, DayOf(book'[c].created) = day
      PROVE  /\ book'[c].pc = "store" => Numbered(c, day)'
             /\ (Inserting(c)' /\ ~book'[c].overlapped) => Quiet(c, day)'
  <2>1. ~Inserting(b)' /\ Inserting(b) /\ book'[b].pc # "store"
    BY DEF Stores, Inserting, IdleBooking
  <2>2. CASE c = b
    BY <2>1, <2>2
  <2>3. CASE c # b
    <3>1. /\ book'[c].pc = book[c].pc /\ book'[c].num = book[c].num
          /\ book'[c].created = book[c].created /\ book'[c].overlapped = book[c].overlapped
      BY <2>3 DEF Stores
    <3>2. book'[c].pc = "store" => Numbered(c, day)
      BY <1>8, <3>1 DEF ByDay
    <3>3. book'[c].pc = "store" => Numbered(c, day)'
      BY <1>1, <1>7, <3>1, <3>2 DEF Numbered
    <3>4. ~(Inserting(c) /\ ~book[c].overlapped)
      <4> SUFFICES ASSUME Inserting(c), ~book[c].overlapped PROVE FALSE
        OBVIOUS
      <4>1. Quiet(c, day)
        BY <1>8, <3>1 DEF ByDay
      <4> QED
        BY <2>1, <2>3, <4>1 DEF Quiet
    <3> QED
      BY <3>1, <3>3, <3>4 DEF Inserting
  <2> QED
    BY <2>2, <2>3
<1>9. ASSUME NEW day \in Days \ thinned', Cardinality(OfDay(day)') < SeqCap
      PROVE  {bills'[i].num : i \in OfDay(day)'} = {day} \X (1 .. Cardinality(OfDay(day)'))
  <2>a. PICK n : n = Cardinality(OfDay(day))
    OBVIOUS
  <2>b. n \in Nat /\ n < SeqCap
    BY <1>7, <1>9, <2>a, BoundsAssumption
  <2>1. {bills[i].num : i \in OfDay(day)} = {day} \X (1 .. n)
    BY <1>1, <1>9, <2>a, <2>b DEF DayNumbersConsecutive
  <2>2. \A i \in OfDay(day) : bills'[i].num = bills[i].num
    BY <1>1 DEF OfDay
  <2>3. CASE day # today
    BY <1>5, <2>1, <2>2, <2>3, <2>a
  <2>4. CASE day = today
    <3>1. PICK k \in 1 .. n + 1 : book[b].num[2] = Lpad(k)
      BY <1>1, <1>2, <1>9, <2>4, <2>a DEF Numbered
    <3>2. Lpad(k) = k
      BY <1>6, <1>9, <2>4, <2>a, <2>b, BoundsAssumption DEF Lpad
    <3>3. book[b].num = <<day, k>>
      <4>1. book[b].num \in Nat \X Nat
        BY DEF Base, TypeOK, Booking
      <4> QED
        BY <1>2, <2>4, <3>1, <3>2, <4>1 DEF Numbered
    <3>4. k = n + 1
      <4> SUFFICES ASSUME k # n + 1 PROVE FALSE
        OBVIOUS
      <4>1. <<day, k>> \in {day} \X (1 .. n)
        BY <2>b
      <4>2. PICK i \in OfDay(day) : bills[i].num = <<day, k>>
        BY <2>1, <4>1
      <4> QED
        BY <3>3, <4>2 DEF NumberTaken, OfDay
    <3>5. {bills'[i].num : i \in OfDay(day)'} = {bills[i].num : i \in OfDay(day)} \cup {<<day, n + 1>>}
      BY <1>1, <1>4, <2>2, <2>4, <3>3, <3>4
    <3>6. {day} \X (1 .. n + 1) = ({day} \X (1 .. n)) \cup {<<day, n + 1>>}
      BY <2>b
    <3> QED
      BY <1>6, <2>1, <2>4, <2>a, <3>5, <3>6
  <2> QED
    BY <2>3, <2>4
<1>10. DayNumbersConsecutive'
  BY <1>9 DEF DayNumbersConsecutive
<1> QED
  BY <1>3, <1>8, <1>10 DEF ByDay, DayOf

LEMMA NumberStep == Base /\ Base' /\ NumberInv /\ [Next]_vars => NumberInv'
<1> SUFFICES ASSUME Base, Base', NumberInv, [Next]_vars
             PROVE  ByDay' /\ DayNumbersConsecutive'
  BY ByDayMeansNext DEF NumberInv
<1>0. ByDay /\ DayNumbersConsecutive
  BY ByDayMeans DEF NumberInv
<1>1. ASSUME NEW b \in Bookers, BookingStep(b) PROVE ByDay' /\ DayNumbersConsecutive'
  <2>1. ASSUME StoreBooking(b) PROVE ByDay' /\ DayNumbersConsecutive'
    <3>1. Stores(b) /\ ~NumberTaken(book[b].num)
      BY <2>1, StoreBookingShape DEF StoreBooking, Accepted
    <3> QED
      BY <1>0, <3>1, StoreNumbers
  <2>2. ASSUME ~StartInsert(b), ~GenerateRideNumber(b), ~StoreBooking(b)
        PROVE  ByDay' /\ DayNumbersConsecutive'
    BY <1>0, <1>1, <2>2, OtherBookingSteps, ThinsNumbers
  <2> QED
    BY <1>0, <2>1, <2>2, StartInsertNumbers, GenerateNumbers
<1>2. ASSUME Thins, UNCHANGED book PROVE ByDay' /\ DayNumbersConsecutive'
  <2>1. \A c \in Bookers : Goes(c)
    BY <1>2 DEF Goes
  <2> QED
    BY <1>0, <1>2, <2>1, ThinsNumbers
<1>3. ASSUME NEW m \in Markers, MarkingStep(m) PROVE ByDay' /\ DayNumbersConsecutive'
  BY <1>2, <1>3, MarkingThins, MarkingStepShape DEF Base
<1>4. CASE AdminStep
  BY <1>2, <1>4, AdminThins, AdminStepShape DEF Base
<1>5. CASE Tick \/ UNCHANGED vars
  <2>1. UNCHANGED <<bills, thinned, book>>
    BY <1>5 DEF Tick, vars
  <2>2. Thins
    BY <2>1 DEF Thins, OnlyLoses, Base, TypeOK
  <2> QED
    BY <1>2, <2>1, <2>2
<1> QED
  BY <1>1, <1>3, <1>4, <1>5 DEF Next

LEMMA NumbersInvariance == Spec => [](Base /\ NumberInv)
<1>1. Spec => Init /\ [][Next]_vars
  BY DEF Spec
<1> QED
  BY <1>1, InitNumbers, NumberStep, BaseInvariance, PTL

\* The trigger generate_ride_number and UNIQUE(ride_number) together number the bills of a
\* day 1, 2, 3, ... in the order they are stored, unless one was deleted or they outgrow the
\* three digits, for any number of concurrent bookings and whatever ids they took.
THEOREM NumbersConsecutive == Spec => []DayNumbersConsecutive
<1>1. Base /\ NumberInv => DayNumbersConsecutive
  BY DEF NumberInv
<1> QED
  BY <1>1, NumbersInvariance, PTL

\* An INSERT that overlapped no other gets a free number from generate_ride_number, unless a
\* bill of the day was deleted or the count outgrew the three digits.
THEOREM QuietInsertNumbered == Spec => []QuietInsertGetsNumber
<1>1. Base /\ NumberInv => QuietInsertGetsNumber
  <2> SUFFICES ASSUME Base, NumberInv, NEW b \in Bookers, NEW day,
                      day = DayOf(book[b].created), book[b].pc = "store", ~book[b].overlapped,
                      day \notin thinned, Cardinality(OfDay(day)) + 1 < SeqCap,
                      NEW i \in DOMAIN bills, bills[i].num = book[b].num
               PROVE  FALSE
    BY DEF QuietInsertGetsNumber, NumberTaken
  <2>1. book[b] \in Booking
    BY DEF Base, TypeOK
  <2>2. day \in Days /\ day \in Nat
    BY <2>1, DayIsNat, BoundsAssumption DEF Days, Booking
  <2>3. ByDay
    BY ByDayMeans DEF NumberInv
  <2>a. PICK n : n = Cardinality(OfDay(day))
    OBVIOUS
  <2>4. n \in Nat
    BY <2>a, OfDayFinite DEF Base
  <2>5. Numbered(b, day) /\ Quiet(b, day)
    BY <2>2, <2>3 DEF ByDay, Inserting
  <2>6. book[b].num[1] = day /\ book[b].num[2] = n + 1
    <3>1. Lpad(n + 1) = n + 1
      BY <2>a DEF Lpad
    <3> QED
      BY <2>5, <2>a, <3>1 DEF Numbered, Quiet
  <2>7. i \in OfDay(day)
    BY <2>3, <2>6 DEF ByDay, OfDay
  <2>8. bills[i].num \in {day} \X (1 .. n)
    <3>1. Cardinality(OfDay(day)) < SeqCap
      BY <2>4, <2>a, BoundsAssumption
    <3> QED
      BY <2>2, <2>7, <2>a, <3>1 DEF NumberInv, DayNumbersConsecutive
  <2>9. bills[i].num[2] \in 1 .. n
    BY <2>8
  <2> QED
    BY <2>4, <2>6, <2>9
<1> QED
  BY <1>1, NumbersInvariance, PTL

=============================================================================
