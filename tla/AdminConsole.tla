----------------------------- MODULE AdminConsole -----------------------------
(***************************************************************************)
(* The admin client as a whole, for the pages that have a module: one page *)
(* is mounted at a time, the sidebar mounts another. A page that is left   *)
(* loses its state. The model leaves a page only when nothing is in        *)
(* flight: what an abandoned request does is not followed.                 *)
(***************************************************************************)
EXTENDS RouteInputs

CONSTANTS
    MaxActs,                                                \* as RouteActs, for the other pages
    Emails, MyRole, UserStatuses, UserTables,               \* UsersPage
    Drivers, BillStatuses, Customs, Days, MonthStart, YearStart, BillTables, \* RideBillsPage
    Reasons, StudentTables                                  \* RegistrationsPage

VARIABLES
    mounted,   \* the page that the router shows
    table,     \* the table that it lists
    page,      \* the state of its component
    calls,     \* its requests in flight
    past       \* its history

vars == <<mounted, table, page, calls, past>>

\* Three of the pages are taken with the theorems about them.
Routes == INSTANCE RideRoutesProofs
Users == INSTANCE UsersProofs WITH Tables <- UserTables, Statuses <- UserStatuses
Bills == INSTANCE RideBillsPage WITH Tables <- BillTables, Statuses <- BillStatuses
Regs == INSTANCE RegistrationsProofs WITH Tables <- StudentTables

ASSUME ConsoleInputs == Users!UsersInputs /\ Bills!BillsInputs /\ Regs!RegistrationsInputs

Init ==
    \/ mounted = "ride-location" /\ Routes!Init
    \/ mounted = "users" /\ Users!Init
    \/ mounted = "ride-bill" /\ Bills!Init
    \/ mounted = "registrations" /\ Regs!Init

RouteStep == mounted = "ride-location" /\ Routes!Next /\ UNCHANGED mounted
UserStep == mounted = "users" /\ Users!Next /\ UNCHANGED mounted
BillStep == mounted = "ride-bill" /\ Bills!Next /\ UNCHANGED mounted
RegistrationStep == mounted = "registrations" /\ Regs!Next /\ UNCHANGED mounted

\* A link of the sidebar: page p is mounted anew, over whatever is stored by then.
Mount(p, tables, state, fetches) ==
    /\ mounted # p /\ mounted' = p
    /\ table' \in tables
    /\ page' = state /\ calls' = fetches

Navigate ==
    /\ calls = {}
    /\ \/ /\ Mount("ride-location", RouteTables, Routes!Mounted, Routes!MountCalls)
          /\ past' = Routes!NoPast(table')
       \/ /\ Mount("users", UserTables, Users!Mounted, Users!MountCalls)
          /\ past' = Users!NoPast(table')
       \/ /\ Mount("ride-bill", BillTables, Bills!Mounted, Bills!MountCalls)
          /\ past' = Bills!NoPast(table')
       \/ /\ Mount("registrations", StudentTables, Regs!Mounted, Regs!MountCalls)
          /\ past' = Regs!NoPast(table')

Next == RouteStep \/ UserStep \/ BillStep \/ RegistrationStep \/ Navigate

Spec == Init /\ [][Next]_vars
-----------------------------------------------------------------------------
(* Properties: those of the page that is mounted. *)

On(p, P) == mounted = p => P

TypeOK ==
    /\ mounted \in {"ride-location", "users", "ride-bill", "registrations"}
    /\ On("ride-location", Routes!TypeOK) /\ On("users", Users!TypeOK)
    /\ On("ride-bill", Bills!TypeOK) /\ On("registrations", Regs!TypeOK)

\* Whatever the admin does, a list that has rows shows some: no answer, deletion or filter
\* leaves a page on a number that is past the last one.
PagesShowRows ==
    /\ On("ride-location", Routes!PageShowsRoutes) /\ On("users", Users!PageShowsUsers)
    /\ On("ride-bill", Bills!PageShowsBills) /\ On("registrations", Regs!PageShowsRegistrations)

\* At rest the ride routes are what the server has for the term in the box, unless an
\* answer was old, for another term or lost, or another admin wrote meanwhile.
RoutesAreCurrent == On("ride-location", Routes!RoutesAreCurrent)

\* A form of a ride route is closed unstored only if it overlapped with another save.
RouteFormLostOnlyToOverlap == On("ride-location", Routes!FormLostOnlyToOverlap)

\* A pair of stops has one row, and so one fare, in either direction.
OneFarePerPair == On("ride-location", Routes!OneFarePerPair)

\* At rest the users are what the server has, unless an answer was old or lost, or another
\* admin wrote meanwhile.
UsersAreCurrent == On("users", Users!UsersAreCurrent)

\* A form of a user is closed unstored only if it overlapped with another save.
UserFormLostOnlyToOverlap == On("users", Users!FormLostOnlyToOverlap)

\* The form of a user holds what was entered, unless it was entered during an upload.
FormKeepsEdits == On("users", Users!FormKeepsEdits)

\* A user the page has stored has all that the role needs, unless he is a draft.
CompleteUnlessDraft == On("users", Users!CompleteUnlessDraft)

\* A SuperAdmin is not deleted and keeps his role and status, unless he became one between
\* the check and the write of a request.
SuperAdminsKept ==
    [][mounted = "users" /\ mounted' = "users" =>
           \A r \in DOMAIN table :
               table[r].role = "SuperAdmin" /\ ~past.raced =>
                   /\ r \in DOMAIN table'
                   /\ table'[r].role = "SuperAdmin" /\ table'[r].status = table[r].status]_vars

\* At rest the ride bills are what the server has for the filters, unless an answer was
\* old, for other filters or lost, or others wrote meanwhile.
BillsAreCurrent == On("ride-bill", Bills!BillsAreCurrent)

\* At rest a reason box that the admin has left alone shows the reason that is stored.
ReasonShownIsStored == On("ride-bill", Bills!ReasonShownIsStored)

\* A typed reason is lost unsent only when it was typed while a request was in flight or a
\* search was about to start.
TypedReasonLostOnlyToOverlap == On("ride-bill", Bills!TypedReasonLostOnlyToOverlap)

\* What the page says of an empty list: "No ride bills yet. They appear when students
\* book rides." It also says so of a list that a filter has emptied.
EmptyMeansNoBills == On("ride-bill", Bills!EmptyMeansNoBills)

\* Except while a review is under way, the registrations are what the server has, once they
\* are fetched, and unless an answer was old or lost or others wrote meanwhile.
RegistrationsAreCurrent == On("registrations", Regs!RegistrationsAreCurrent)

\* "Registration approved successfully." is shown only of a student who is approved, unless
\* another admin has deleted that student or decided otherwise since.
BannerIsTrue == On("registrations", Regs!BannerIsTrue)

\* The answer of a review closes the form it was sent from and no other.
ReviewFormLostOnlyToOverlap == On("registrations", Regs!FormLostOnlyToOverlap)

\* The view shows the account and the review of one student, as they were at one moment,
\* unless he was reviewed or deleted between the row and the account.
ViewIsOfOneMoment == On("registrations", Regs!ViewIsOfOneMoment)
=============================================================================
