----------------------------- MODULE RideBills -----------------------------
(***************************************************************************)
(* The ride_bills table and the handlers that write it.                    *)
(*                                                                         *)
(* A booking (CreateRideBill) is not one transaction: three queries check  *)
(* the booking restrictions and a fourth statement inserts the row, whose  *)
(* BEFORE INSERT trigger counts the day's bills to number it.  A student's *)
(* status change (UpdateMyRideBill) reads the bill in one query and writes *)
(* it in another.  Handlers of the same and of different users run         *)
(* concurrently, so each query is an action of its own.                    *)
(*                                                                         *)
(* The admin's writes (UpdateRideBill, DeleteRideBill) also query twice,   *)
(* but the first query only decides between two error replies: each is one *)
(* action.                                                                 *)
(***************************************************************************)
EXTENDS Integers, FiniteSets

CONSTANTS
    Users,          \* ids of users who have a session when the model starts
    Places,         \* location names
    Routes,         \* ids of ride_locations rows that exist at the start
    NoRoute,        \* the bill's ride_id is NULL
    Trips,          \* the bodies a booking request may carry
    NoTrip,         \* what an idle booking handler holds
    Bookers,        \* concurrent executions of CreateRideBill
    Markers,        \* concurrent executions of UpdateMyRideBill
    OwnerOf,        \* the session user of each execution
    AdminStatuses,  \* the statuses the admins set
    MaxDailyRides,  \* 6 in the code
    AnyCooldown,    \* 30 minutes, in ticks
    RouteCooldown,  \* 1 hour, in ticks
    DayLength,      \* ticks of a calendar day
    SeqCap,         \* 10^3: the first count that does not fit the padded number
    MaxBillId,      \* bound on the id sequence
    MaxTime         \* bound on the clock

Statuses == {"requested", "arrived", "in_progress", "completed", "cancelled"}

Trip == [from : Places, to : Places, ride : Routes \cup {NoRoute}]

ASSUME InputsAssumption ==
    /\ Trips \subseteq Trip
    /\ NoTrip \notin Trip
    /\ NoRoute \notin Routes
    /\ IsFiniteSet(Bookers)
    /\ OwnerOf \in [Bookers \cup Markers -> Users]
    /\ AdminStatuses \subseteq Statuses

ASSUME BoundsAssumption ==
    /\ MaxDailyRides \in Nat \ {0}
    /\ AnyCooldown \in Nat
    /\ RouteCooldown \in Nat
    /\ DayLength \in Nat \ {0}
    /\ SeqCap \in Nat \ {0}
    /\ MaxBillId \in Nat
    /\ MaxTime \in Nat

VARIABLES
    now,        \* the clock, shared by the server and the database
    users,      \* ids in the users table
    routes,     \* ids in the ride_locations table
    bills,      \* the ride_bills table: a function from the stored ids
    nextId,     \* next value of the SERIAL sequence of ride_bills.id
    book,       \* the state of each CreateRideBill execution
    mark,       \* the state of each UpdateMyRideBill execution
    thinned     \* days from which a bill was deleted (history)

vars == <<now, users, routes, bills, nextId, book, mark, thinned>>

Ids == 1 .. MaxBillId
DayOf(t) == t \div DayLength
Days == {DayOf(t) : t \in 0 .. MaxTime}

\* raced and revived are history: a booking is raced when another bill of the
\* same user was stored while it was between its first check and its INSERT;
\* a bill is revived when it was cancelled and no longer is.
Bill == [user    : Users,
         from    : Places,
         to      : Places,
         ride    : Routes \cup {NoRoute},
         status  : Statuses,
         created : 0 .. MaxTime,
         num     : Nat \X Nat,
         raced   : BOOLEAN,
         revived : BOOLEAN]

Booking == [pc         : {"idle", "route", "any", "insert", "number", "store"},
            trip       : Trips \cup {NoTrip},
            id         : 0 .. MaxBillId,
            created    : 0 .. MaxTime,
            num        : Nat \X Nat,
            raced      : BOOLEAN,
            overlapped : BOOLEAN]

Marking == [pc        : {"idle", "write"},
            id        : 0 .. MaxBillId,
            read      : Statuses,
            to        : {"arrived", "completed"},
            overtaken : BOOLEAN]

IdleBooking == [pc |-> "idle", trip |-> NoTrip, id |-> 0, created |-> 0,
                num |-> <<0, 0>>, raced |-> FALSE, overlapped |-> FALSE]

IdleMarking == [pc |-> "idle", id |-> 0, read |-> "requested",
                to |-> "arrived", overtaken |-> FALSE]

TypeOK ==
    /\ now \in 0 .. MaxTime
    /\ users \subseteq Users
    /\ routes \subseteq Routes
    /\ DOMAIN bills \subseteq Ids
    /\ bills \in [DOMAIN bills -> Bill]
    /\ nextId \in 1 .. MaxBillId + 1
    /\ book \in [Bookers -> Booking]
    /\ mark \in [Markers -> Marking]
    /\ thinned \subseteq Days

Init ==
    /\ now = 0
    /\ users = Users
    /\ routes = Routes
    /\ bills = [i \in {} |-> {}]
    /\ nextId = 1
    /\ book = [b \in Bookers |-> IdleBooking]
    /\ mark = [m \in Markers |-> IdleMarking]
    /\ thinned = {}

----------------------------------------------------------------------------
(* What the restriction queries of CreateRideBill select. *)

Live(i) == bills[i].status # "cancelled"

LiveBillsOf(u) == {i \in DOMAIN bills : bills[i].user = u /\ Live(i)}

\* Mutant: only the rides that wait for a driver are counted.
RequestedToday(u) ==
    {i \in LiveBillsOf(u) : /\ DayOf(bills[i].created) = DayOf(now)
                            /\ bills[i].status = "requested"}

BillsOfToday(u) == {i \in LiveBillsOf(u) : DayOf(bills[i].created) = DayOf(now)}

\* Routes are bidirectional: A to B is the route B to A.
SameRoute(i, trip) == {bills[i].from, bills[i].to} = {trip.from, trip.to}

\* Mutant: the limit is compared with >.
DailyLimitPassed(u) == Cardinality(BillsOfToday(u)) > MaxDailyRides

DailyLimitReached(u) == Cardinality(BillsOfToday(u)) >= MaxDailyRides

\* Mutant: the return trip is another route.
OneWayCoolingDown(u, trip) ==
    \E i \in LiveBillsOf(u) :
        /\ bills[i].from = trip.from /\ bills[i].to = trip.to
        /\ now - bills[i].created < RouteCooldown

RouteCoolingDown(u, trip) ==
    \E i \in LiveBillsOf(u) :
        SameRoute(i, trip) /\ now - bills[i].created < RouteCooldown

CoolingDown(u) ==
    \E i \in LiveBillsOf(u) : now - bills[i].created < AnyCooldown

----------------------------------------------------------------------------
(* CreateRideBill, query by query. *)

RefuseBooking(b) == book' = [book EXCEPT ![b] = IdleBooking]

\* RESTRICTION 1.  A booking over the daily limit ends here with a 429.
BeginBooking(b, trip) ==
    /\ book[b].pc = "idle"
    /\ ~DailyLimitReached(OwnerOf[b])
    /\ book' = [book EXCEPT ![b].pc = "route", ![b].trip = trip]
    /\ UNCHANGED <<now, users, routes, bills, nextId, mark, thinned>>

\* RESTRICTION 2.
CheckRouteCooldown(b) ==
    /\ book[b].pc = "route"
    /\ IF RouteCoolingDown(OwnerOf[b], book[b].trip)
         THEN RefuseBooking(b)
         ELSE book' = [book EXCEPT ![b].pc = "any"]
    /\ UNCHANGED <<now, users, routes, bills, nextId, mark, thinned>>

\* RESTRICTION 3.
CheckAnyCooldown(b) ==
    /\ book[b].pc = "any"
    /\ IF CoolingDown(OwnerOf[b])
         THEN RefuseBooking(b)
         ELSE book' = [book EXCEPT ![b].pc = "insert"]
    /\ UNCHANGED <<now, users, routes, bills, nextId, mark, thinned>>

Inserting(b) == book[b].pc \in {"number", "store"}

\* The INSERT statement begins: NOW() and the sequence are read.
StartInsert(b) ==
    /\ book[b].pc = "insert"
    /\ nextId <= MaxBillId
    /\ nextId' = nextId + 1
    /\ LET others == {c \in Bookers \ {b} : Inserting(c)}
       IN  book' = [c \in Bookers |->
                     IF c = b
                       THEN [book[b] EXCEPT !.pc = "number", !.id = nextId,
                                            !.created = now,
                                            !.overlapped = (others # {})]
                       ELSE [book[c] EXCEPT !.overlapped = (@ \/ c \in others)]]
    /\ UNCHANGED <<now, users, routes, bills, mark, thinned>>

\* LPAD keeps the leftmost digits of a count that is too long.
Lpad(n) == IF n < SeqCap THEN n ELSE n \div 10

\* Mutant: the count is not restricted to the day.
Earlier(id, day) == {i \in DOMAIN bills : i < id}

\* Mutant: cancelled rides are not counted.
EarlierLiveThatDay(id, day) ==
    {i \in DOMAIN bills : DayOf(bills[i].created) = day /\ i < id /\ Live(i)}

EarlierThatDay(id, day) ==
    {i \in DOMAIN bills : DayOf(bills[i].created) = day /\ i < id}

\* The trigger generate_ride_number sees the rows committed so far.
GenerateRideNumber(b) ==
    /\ book[b].pc = "number"
    /\ LET day == DayOf(book[b].created)
           seq == Cardinality(EarlierThatDay(book[b].id, day)) + 1
       IN  book' = [book EXCEPT ![b].pc = "store", ![b].num = <<day, Lpad(seq)>>]
    /\ UNCHANGED <<now, users, routes, bills, nextId, mark, thinned>>

NumberTaken(num) == \E i \in DOMAIN bills : bills[i].num = num

\* Mutant: the status the bills had before migration 023.
NewPendingBill(b) ==
    [user    |-> OwnerOf[b],
     from    |-> book[b].trip.from,
     to      |-> book[b].trip.to,
     ride    |-> book[b].trip.ride,
     status  |-> "pending",
     created |-> book[b].created,
     num     |-> book[b].num,
     raced   |-> book[b].raced,
     revived |-> FALSE]

NewBill(b) ==
    [user    |-> OwnerOf[b],
     from    |-> book[b].trip.from,
     to      |-> book[b].trip.to,
     ride    |-> book[b].trip.ride,
     status  |-> "requested",
     created |-> book[b].created,
     num     |-> book[b].num,
     raced   |-> book[b].raced,
     revived |-> FALSE]

\* Mutant: no foreign key on the route.
AcceptedOnAnyRoute(b) == OwnerOf[b] \in users /\ ~NumberTaken(book[b].num)

Accepted(b) ==
    /\ OwnerOf[b] \in users
    /\ book[b].trip.ride \in routes \cup {NoRoute}
    /\ ~NumberTaken(book[b].num)

\* The foreign keys and the UNIQUE(ride_number) index accept the row.
StoreBooking(b) ==
    /\ book[b].pc = "store"
    /\ Accepted(b)
    /\ bills' = [i \in DOMAIN bills \cup {book[b].id} |->
                   IF i = book[b].id THEN NewBill(b) ELSE bills[i]]
    /\ book' = [c \in Bookers |->
                  IF c = b THEN IdleBooking
                  ELSE [book[c] EXCEPT
                          !.raced = (@ \/ (/\ OwnerOf[c] = OwnerOf[b]
                                           /\ book[c].pc # "idle"))]]
    /\ UNCHANGED <<now, users, routes, nextId, mark, thinned>>

\* ... or one of them refuses it; the id stays consumed and the reply is 500.
RefuseRow(b) ==
    /\ book[b].pc = "store"
    /\ ~Accepted(b)
    /\ RefuseBooking(b)
    /\ UNCHANGED <<now, users, routes, bills, nextId, mark, thinned>>

\* A query fails or the 5 s context ends: the handler answers 500.
AbortBooking(b) ==
    /\ book[b].pc # "idle"
    /\ RefuseBooking(b)
    /\ UNCHANGED <<now, users, routes, bills, nextId, mark, thinned>>

----------------------------------------------------------------------------
(* UpdateMyRideBill: one query reads the bill, another writes it. *)

NextStatus == [s \in {"requested", "in_progress"} |->
                 IF s = "requested" THEN "arrived" ELSE "completed"]

ValidTransition(s, t) == s \in DOMAIN NextStatus /\ NextStatus[s] = t

\* Mutant: the transition is not validated.
ReadMyBillInAnyStatus(m, i, t) ==
    /\ mark[m].pc = "idle"
    /\ i \in DOMAIN bills
    /\ bills[i].user = OwnerOf[m]
    /\ mark' = [mark EXCEPT ![m] = [pc |-> "write", id |-> i,
                                    read |-> bills[i].status, to |-> t,
                                    overtaken |-> FALSE]]
    /\ UNCHANGED <<now, users, routes, bills, nextId, book, thinned>>

ReadMyBill(m, i, t) ==
    /\ mark[m].pc = "idle"
    /\ i \in DOMAIN bills
    /\ bills[i].user = OwnerOf[m]
    /\ ValidTransition(bills[i].status, t)
    /\ mark' = [mark EXCEPT ![m] = [pc |-> "write", id |-> i,
                                    read |-> bills[i].status, to |-> t,
                                    overtaken |-> FALSE]]
    /\ UNCHANGED <<now, users, routes, bills, nextId, book, thinned>>

WithStatus(i, s) ==
    [bills[i] EXCEPT !.status = s, !.revived = (@ \/ (~Live(i) /\ s # "cancelled"))]

SetStatus(i, s) == [bills EXCEPT ![i] = WithStatus(i, s)]

\* History: the bill was written in between, by an admin or by an execution
\* that was itself overtaken.
Overtake(m, i) ==
    [mark[m] EXCEPT !.overtaken = (@ \/ (mark[m].pc = "write" /\ mark[m].id = i))]

\* The UPDATE is keyed by id and user_id only: the status read is not checked again.
WriteMyBill(m) ==
    /\ mark[m].pc = "write"
    /\ mark[m].id \in DOMAIN bills
    /\ bills' = SetStatus(mark[m].id, mark[m].to)
    /\ mark' = [n \in Markers |->
                  IF n = m THEN IdleMarking
                  ELSE IF mark[m].overtaken THEN Overtake(n, mark[m].id) ELSE mark[n]]
    /\ UNCHANGED <<now, users, routes, nextId, book, thinned>>

\* The bill is gone, a query fails or the context ends.
AbortMarking(m) ==
    /\ mark[m].pc = "write"
    /\ mark' = [mark EXCEPT ![m] = IdleMarking]
    /\ UNCHANGED <<now, users, routes, bills, nextId, book, thinned>>

----------------------------------------------------------------------------
(* The admin's writes, and the cascades of the tables bills refer to. *)

\* UpdateRideBill: any status may follow any other.
UpdateRideBill(i, s) ==
    /\ i \in DOMAIN bills
    /\ bills' = SetStatus(i, s)
    /\ mark' = [m \in Markers |-> Overtake(m, i)]
    /\ UNCHANGED <<now, users, routes, nextId, book, thinned>>

RemoveBills(gone) ==
    /\ bills' = [i \in DOMAIN bills \ gone |-> bills[i]]
    /\ thinned' = thinned \cup {DayOf(bills[i].created) : i \in gone}

DeleteRideBill(i) ==
    /\ i \in DOMAIN bills
    /\ RemoveBills({i})
    /\ UNCHANGED <<now, users, routes, nextId, book, mark>>

\* DELETE FROM users: ride_bills.user_id is ON DELETE CASCADE.
DeleteUser(u) ==
    /\ u \in users
    /\ users' = users \ {u}
    /\ RemoveBills({i \in DOMAIN bills : bills[i].user = u})
    /\ UNCHANGED <<now, routes, nextId, book, mark>>

\* DELETE FROM ride_locations: ride_bills.ride_id is ON DELETE SET NULL.
DeleteRideLocation(r) ==
    /\ r \in routes
    /\ routes' = routes \ {r}
    /\ bills' = [i \in DOMAIN bills |->
                   IF bills[i].ride = r THEN [bills[i] EXCEPT !.ride = NoRoute]
                                        ELSE bills[i]]
    /\ UNCHANGED <<now, users, nextId, book, mark, thinned>>

Tick ==
    /\ now < MaxTime
    /\ now' = now + 1
    /\ UNCHANGED <<users, routes, bills, nextId, book, mark, thinned>>

----------------------------------------------------------------------------

BookingStep(b) ==
    \/ \E trip \in Trips : BeginBooking(b, trip)
    \/ CheckRouteCooldown(b)
    \/ CheckAnyCooldown(b)
    \/ StartInsert(b)
    \/ GenerateRideNumber(b)
    \/ StoreBooking(b)
    \/ RefuseRow(b)
    \/ AbortBooking(b)

MarkingStep(m) ==
    \/ \E i \in DOMAIN bills, t \in {"arrived", "completed"} : ReadMyBill(m, i, t)
    \/ WriteMyBill(m)
    \/ AbortMarking(m)

AdminStep ==
    \/ \E i \in DOMAIN bills, s \in AdminStatuses : UpdateRideBill(i, s)
    \/ \E i \in DOMAIN bills : DeleteRideBill(i)
    \/ \E u \in users : DeleteUser(u)
    \/ \E r \in routes : DeleteRideLocation(r)

Next ==
    \/ \E b \in Bookers : BookingStep(b)
    \/ \E m \in Markers : MarkingStep(m)
    \/ AdminStep
    \/ Tick

Spec == Init /\ [][Next]_vars
----------------------------------------------------------------------------
(* Properties. *)

\* Bills of one user on one day that count against the limit and were live
\* ever since they were booked.
Kept(u, day) == {i \in LiveBillsOf(u) : DayOf(bills[i].created) = day /\ ~bills[i].revived}

Unraced(u, day) == {i \in Kept(u, day) : ~bills[i].raced}

\* The daily limit of CreateRideBill (RESTRICTION 1) holds for the bookings
\* that did not race with another booking of the same user, across midnight,
\* cancellations and admin edits: only a concurrent booking or an admin who
\* un-cancels a bill takes a user past it.
UnracedDailyLimit ==
    \A u \in Users, day \in Days : Cardinality(Unraced(u, day)) <= MaxDailyRides

\* Concurrent bookings can exceed the daily limit by no more than the number
\* of the other requests the user has in flight.
DailyOvershootBound ==
    \A u \in Users, day \in Days :
        Cardinality(Kept(u, day)) <=
            MaxDailyRides + Cardinality({b \in Bookers : OwnerOf[b] = u}) - 1

Apart(i, j, gap) ==
    bills[i].created - bills[j].created >= gap \/ bills[j].created - bills[i].created >= gap

\* RESTRICTIONS 2 and 3 of CreateRideBill: two bills of a user that stayed live
\* are a cooldown apart (the longer one on the same route, in either direction)
\* unless their requests raced.
UnracedCooldowns ==
    \A u \in Users : \A i, j \in LiveBillsOf(u) :
        (i # j /\ ~bills[i].revived /\ ~bills[j].revived)
          => \/ bills[i].raced \/ bills[j].raced
             \/ /\ Apart(i, j, AnyCooldown)
                /\ SameRoute(i, bills[j]) => Apart(i, j, RouteCooldown)

OfDay(day) == {i \in DOMAIN bills : DayOf(bills[i].created) = day}

\* The trigger's numbers on a day nothing was deleted from are 1, 2, 3, ... with
\* no gap, whatever order the concurrent inserts took their ids and committed in,
\* as long as the count fits the three digits.
DayNumbersConsecutive ==
    \A day \in Days \ thinned :
        Cardinality(OfDay(day)) < SeqCap =>
            {bills[i].num : i \in OfDay(day)} = {day} \X (1 .. Cardinality(OfDay(day)))

\* An INSERT that overlapped no other gets a free ride_number, unless a bill of
\* that day was deleted or the count outgrew the three digits.
QuietInsertGetsNumber ==
    \A b \in Bookers :
        LET day == DayOf(book[b].created)
        IN  (/\ book[b].pc = "store"
             /\ ~book[b].overlapped
             /\ day \notin thinned
             /\ Cardinality(OfDay(day)) + 1 < SeqCap)
              => ~NumberTaken(book[b].num)

\* No bill outlives its user or names a deleted route, whatever the booking
\* read before the deletion.
ReferencesResolve ==
    \A i \in DOMAIN bills :
        bills[i].user \in users /\ bills[i].ride \in routes \cup {NoRoute}

\* UpdateMyRideBill moves a bill along requested -> arrived or in_progress ->
\* completed (or leaves it where another request of the student put it), unless
\* an admin wrote the bill between its read and its write, or another request
\* did that an admin's write had overtaken in the same way.
StudentStepsFollowLifecycle ==
    [][\A m \in Markers :
          (WriteMyBill(m) /\ ~mark[m].overtaken) =>
              LET s == bills[mark[m].id].status
              IN  s = mark[m].to \/ ValidTransition(s, mark[m].to)]_vars

----------------------------------------------------------------------------
(* What the repository says of the code, and the runs refute. *)

\* "Check daily ride limit (max 6 rides per day)" (ride_bills.go): the live bills
\* of a user and a day never exceed the limit.
DailyLimitHolds ==
    \A u \in Users, day \in Days :
        Cardinality({i \in LiveBillsOf(u) : DayOf(bills[i].created) = day}) <= MaxDailyRides

\* "Enforce valid transitions: requested -> arrived, in_progress -> completed"
\* (ride_bills.go): every write of UpdateMyRideBill is such a transition.
StudentTransitionsValid ==
    [][\A m \in Markers :
          WriteMyBill(m) => ValidTransition(bills[mark[m].id].status, mark[m].to)]_vars

\* "Create trigger to automatically generate ride_number on insert" (migration
\* 012): an INSERT that no other overlaps gets a number it can be stored under.
InsertGetsNumber ==
    \A b \in Bookers :
        (book[b].pc = "store" /\ ~book[b].overlapped) => ~NumberTaken(book[b].num)

----------------------------------------------------------------------------
(* The inductive invariants behind these properties (RideBillsProofs). *)

\* What a booking in flight holds: an id of its own, allocated and not stored.
InFlight ==
    \A b \in Bookers :
        /\ book[b].pc # "idle" => book[b].trip \in Trips
        /\ Inserting(b) => /\ book[b].id \in 1 .. nextId - 1
                           /\ book[b].id \notin DOMAIN bills
                           /\ book[b].created <= now
                           /\ \A c \in Bookers \ {b} :
                                 Inserting(c) => book[c].id # book[b].id

Stored == \A i \in DOMAIN bills : i < nextId /\ bills[i].created <= now

\* The instant whose day, and whose cooldowns, booking b is checked against.
At(b) == IF Inserting(b) THEN book[b].created ELSE now

\* A booking past its first check that raced with no other still has room.
RoomForUnraced ==
    \A b \in Bookers :
        (book[b].pc # "idle" /\ ~book[b].raced) =>
            Cardinality(Unraced(OwnerOf[b], DayOf(At(b)))) < MaxDailyRides

\* A booking past a cooldown check that raced with no other is a cooldown away
\* from every bill that stayed live.
GapForUnraced ==
    \A b \in Bookers : \A i \in LiveBillsOf(OwnerOf[b]) :
        (~book[b].raced /\ ~bills[i].revived) =>
            /\ book[b].pc \in {"any", "insert", "number", "store"} =>
                  (SameRoute(i, book[b].trip) => At(b) - bills[i].created >= RouteCooldown)
            /\ book[b].pc \in {"insert", "number", "store"} =>
                  At(b) - bills[i].created >= AnyCooldown

\* A pending status write that nothing overtook: the bill is where the write
\* read it, or where another write from the same status put it.
PendingWrites ==
    \A m \in Markers :
        mark[m].pc = "write" =>
            /\ mark[m].id \in 1 .. nextId - 1
            /\ \A b \in Bookers : Inserting(b) => book[b].id # mark[m].id
            /\ ValidTransition(mark[m].read, mark[m].to)
            /\ (~mark[m].overtaken /\ mark[m].id \in DOMAIN bills) =>
                  bills[mark[m].id].status \in {mark[m].read, mark[m].to}

\* The executions of user u that have passed the first check for a day.
Admitted(u, day) ==
    {b \in Bookers : OwnerOf[b] = u /\ book[b].pc # "idle" /\ DayOf(At(b)) = day}

\* What the bills of a day can still grow to: each execution stores at most one of those
\* that it was admitted for, and was admitted below the limit.
RoomForAdmitted ==
    \A u \in Users, day \in Days :
        Cardinality(Kept(u, day)) + Cardinality(Admitted(u, day)) <=
            MaxDailyRides + Cardinality({b \in Bookers : OwnerOf[b] = u}) - 1

\* Numbers bear the day of their bill. The one that the trigger has given continues the
\* count of the day at most by one, if no bill of the day was deleted meanwhile.
NumbersOfDays ==
    /\ \A i \in DOMAIN bills : bills[i].num[1] = DayOf(bills[i].created)
    /\ \A b \in Bookers :
          LET day == DayOf(book[b].created)
          IN  book[b].pc = "store" =>
                  /\ book[b].num[1] = day
                  /\ day \notin thinned =>
                        \E k \in 1 .. Cardinality(OfDay(day)) + 1 : book[b].num[2] = Lpad(k)

\* An INSERT that overlaps no other has the highest id, and counts the bills that are there
\* when it is stored.
QuietInserts ==
    \A b \in Bookers :
        LET day == DayOf(book[b].created)
        IN  (Inserting(b) /\ ~book[b].overlapped) =>
                /\ \A c \in Bookers \ {b} : ~Inserting(c)
                /\ \A i \in DOMAIN bills : i < book[b].id
                /\ (book[b].pc = "store" /\ day \notin thinned) =>
                      book[b].num[2] = Lpad(Cardinality(OfDay(day)) + 1)
=============================================================================
