# The OAE platform in TLA+

The platform lets students with disabilities at IIT Delhi register and book
rides, drivers see their rides, and admins run both.  A Go server (Fiber) keeps
its data in Postgres and Redis; a React client serves the admins, another the
registration.  The server holds no lock and no state between requests: every
handler is a sequence of single SQL statements and Redis commands, each with its
own transaction, under one context of 5 seconds.  What can go wrong is therefore
what happens *between* two of those calls, and that is what these modules model:
one action per call that reads or writes shared state, and any interleaving of
executions, failing calls, expiring keys, deleted rows and stopped servers.

The clients are the larger half of the code, and their difficulty is the same
one seen from the other side: a handler of a React component awaits answers while
the page stays alive.  It then goes on with the variables of the render it was
started from, over a state that other answers and the user have changed.  The
clients' modules have one action per click or keystroke that changes state, one
per call of the server's handler, and one per arriving answer; the answers arrive
in any order, late, or not at all.

## Inventory

| Component | State | Operations | Hard behaviour | What makes it correct |
|---|---|---|---|---|
| Ride bills (`handlers/ride_bills.go`, migrations 004, 012, 019, 023) | table `ride_bills`, its id sequence | book (3 checks, INSERT with trigger), student's and admin's status changes, delete | checks and INSERT are separate statements; the number is a count of visible rows; midnight; a status read and written in two statements; cascades | limits hold up to races and those are bounded; numbers are unique and consecutive; student steps follow the lifecycle; references resolve |
| Sessions (`auth/auth.go`, `handlers/auth.go`, `middleware/auth.go`, `cache/session.go`, `database/sessions.go`, migrations 008, 010) | Redis keys `session:<id>`, table `sessions` | log in, log out, revoke one or all, list, authenticate | two stores without a transaction, dropped errors, crash between two deletions, role cached in the key | a signed-out session is dead; a listed one is alive; none comes back; stale authority ends |
| One-time passwords (`cache/otp.go`, `cache/driver_otp.go`, `database/otp.go`, handlers) | Redis keys, table `otp_codes` | send, verify (get, compare, delete) for password change, registration, driver login | not atomic; two purposes share a key; mail and SMS may fail after the key is replaced | an OTP is accepted once, before its expiry, for its own purpose |
| Student registration (`handlers/public_register.go`) | rows of `users` with `approval_status` | register, check e-mail, poll status, review | uniqueness checked early and enforced late; unconditional review | a student logs in only when approved; decisions are not lost |
| User administration (`handlers/users.go`) | `users` | create, update, delete | guards use a role read in an earlier statement | a SuperAdmin is never demoted, deactivated or deleted |
| Ride locations (`handlers/rides.go`, migration 003) | `ride_locations` | create, update, delete | bidirectional normalisation, duplicate check apart from the write | one row per unordered pair |
| Driver rides (`handlers/driver_rides.go`) | none | one query | none | |
| Preferences (`handlers/preferences.go`, `database/preferences.go`) | `user_preferences` | get (creates defaults), update | read, merge, write back; errors reset to defaults | an update of one field keeps the others |
| Schedules (`handlers/schedules.go`) | `schedules` | create, update, delete | none across statements | |
| Files (`handlers/files.go`) | S3 bucket, upload directory | upload with fallback, serve, delete | the fallback writes where the reader does not look | what an upload's URL names can be fetched |
| Admin client, pages (`admin_client/src/pages/admin/`) | list, filters, dialogs, form of each page; requests in flight | search, filter, page, edit, save, delete, review; fetch after each change | answers that arrive late or in another order; handlers with the state of an old render; two dialogs' saves at a time; other admins | a list at rest is what the server has; what was typed is sent or kept; a banner is true |
| Admin client, session (`hooks/auth/`, `services/api/http.ts`) | stored user and token | sign-in state, 401 interceptor | a token that ended elsewhere | the shown user is signed in |
| Register client (`register_client/src/App.tsx`) | the wizard's form, step, OTP, flags | edit, scan, next, previous, submit, verify, resend | late scans and e-mail checks, Enter on the OTP step, an OTP consumed before the data is stored | the stored student is the validated one, with the proven address; "complete" means stored |
| Start-up, tools, e-mail, deployment | | | run by hand or external | |
| Courses, enrollments | their tables do not exist and no route leads to them | | | |

Interactions: every authenticated handler goes through `middleware/auth.go`,
which reads the Redis key and puts user and role in the request; deleting a user
cascades to `sessions`, `ride_bills` and `user_preferences` but not to Redis;
deleting a route sets `ride_bills.ride_id` to NULL; a booking reads the fare of
its route; registration and review write the accounts that logins read; the
register client drives OTP, upload and registration in that order.

## Modules

| Module | What it is |
|---|---|
| `RideBills` | the bookings, status changes and admin writes on `ride_bills` |
| `MCRideBills` | trips and owners for its instances |
| `RideBillsProofs` | theorems about `RideBills` |
| `Sessions` | logins, sign-outs and account changes on Redis and `sessions` |
| `SessionLife` | what a session promises: issued once, ended once, never back |
| `MCSessions` | the roles for its instances |
| `SessionsProofs` | theorems about `Sessions`, and that it implements `SessionLife` |
| `RegisterClient` | the registration wizard in one tab, with the OTP and registration handlers it calls |
| `MCRegisterClient` | user names and the symmetry for its instance |
| `RegisterClientProofs` | theorems about `RegisterClient` |
| `ListPaging` | pages, clamping and the row of page buttons, shared by the admin pages |
| `ListPagingProofs` | theorems about `ListPaging` |
| `RouteInputs` | the constants of `RideRoutesPage` and what is assumed of them |
| `RideRoutesPage` | the page of routes and the handlers of `ride_locations` |
| `RideRoutesProofs` | theorems about `RideRoutesPage` |
| `UsersPage` | the page of users, its form in steps, and the handlers of users |
| `UsersProofs` | theorems about `UsersPage` |
| `RideBillsPage` | the page of ride bills: filters, calendar, status and reason boxes, and `UpdateRideBill` as the page uses it |
| `RegistrationsPage` | the page of student registrations and the handlers of the review |
| `RegistrationsProofs` | theorems about `RegistrationsPage` |
| `AdminConsole` | the four pages behind the sidebar: one is mounted at a time |
| `AdminConsoleProofs` | theorems about `AdminConsole` and, for their use there, `RideBillsPage` |
| `MCAdminConsole` | the tables that its instances start from |

### RideBills

`bills` is the table, `nextId` the SERIAL sequence, `now` the clock that server
and database share; `book[b]` is one execution of `CreateRideBill` and `mark[m]`
one of `UpdateMyRideBill`, each with the local variables that survive from one
query to the next.  `OwnerOf` fixes the session's user of each execution: several
executions of one user are several tabs, devices or retries of that user.

| Code | Actions |
|---|---|
| RESTRICTION 1, 2, 3 of `CreateRideBill` | `BeginBooking`, `CheckRouteCooldown`, `CheckAnyCooldown` |
| its INSERT | `StartInsert` (NOW() and the sequence), `GenerateRideNumber` (the BEFORE INSERT trigger, which sees the rows committed so far), `StoreBooking` or `RefuseRow` (foreign keys, UNIQUE) |
| any failing query or the 5 s context | `AbortBooking`, `AbortMarking` |
| `UpdateMyRideBill` | `ReadMyBill`, `WriteMyBill` |
| `UpdateRideBill`, `DeleteRideBill`, `DeleteUser`, `DeleteRideLocation` | one action each: their first query only chooses between two error replies |

An answer that changes nothing (400, 403, 404, 429 at the first check) is a step
that is not taken.  The created time of a bill is the instant its INSERT began,
which is what NOW() returns.  Ride numbers are pairs of a day and a count; `Lpad`
keeps what `LPAD(n, 3, '0')` does to a count of four digits.  The fare, the driver
and the reason are left out, and so is the fare's query, whose error is ignored.
The statuses an admin sends without a change of status (driver or reason only)
are `UpdateRideBill` with the present status.

`raced` and `revived` in a bill, `overlapped` and `raced` in a booking,
`overtaken` in a status change and `thinned` are history variables: the
properties need them to say *when* the promise may fail.

### Sessions

`redis` and `rows` are the two stores, `account` the users table, `held` the
session ids that some client was told.  A login reads the account (`BeginLogin`,
`BeginDriverLogin`), sets the key (`CreateSession`, which includes the comparison
of role and client that `Login` makes only afterwards) and inserts the row
(`StoreSession`, or `SkipRow` when that fails).  A sign-out starts
(`BeginLogout`, `BeginRevoke`, `BeginRevokeAll`), lists (`ListSessions`), marks
(`MarkLoggedOut`, `FailToMark`) and deletes key by key (`DeleteKey`,
`FailToDelete`).  The request is authenticated by a bearer token or the cookie,
and the two may name different sessions: `auth` and `keep`.  `UpdateUser` and
`DeleteUser` touch the account and, by cascade, the rows, never Redis.  `Crash`
ends every execution where it is.  An error reply of Redis or Postgres to a
command that took effect is the same as its success, for nothing depends on the
reply; only a login whose SET took effect and was answered with an error is not
modelled: it leaves a key whose id nobody was told, as `CreateSession` does for a
client of the wrong role.

The key's TTL starts when Redis sets it, the row's `expires_at` is computed
directly afterwards; the model gives both the same tick.  A `last_active` update
changes nothing a property speaks of.  `missed`, `lost`, `unmarked` and `changed`
are history variables.

### RegisterClient

`formData` has the two addresses, the terms and, for the fields of steps 2, 3 and
4, whether each group is valid (`ready`): no property tells two valid names apart.
`call[c]` is one execution of `handleSubmit`, `handleVerifyOtp` or
`handleResendOtp`, with the form of the render it was started from and the server
statement it is at; `checks` are the e-mail checks whose timer or request is
pending, `scanning` the scans in flight.  `otpKey`, `inbox` and `users` are Redis,
the mailbox and the table.

| Code | Actions |
|---|---|
| the fields of a step | `EditEmail`, `EditConfirmEmail`, `EditProfile`, `EditInstitution`, `EditDisability`, `AcceptTerms`, `TypeOtp` |
| the effect on `formData.email` | `EmailBecomes` (part of whatever changes the address), `EmailCheckAnswers` |
| `handleScanPdf`, `handleScanStudentId` | `StartPdfScan`, `StartStudentScan`, and their answers |
| `handleNext`, `handlePrevious` | one action each |
| `handleSubmit`, `handleVerifyOtp`, `handleResendOtp` | the click, the server's statements (`StoreOtp`, `MailOtp`, `CompareOtp`, `ConsumeOtp`, `persistRegistration`), and the rest of the handler (`SubmitEnds`, `VerifyEnds`, `ResendEnds`) |
| the network | `RequestFails`, `LoseAnswer`; the OTP's TTL is `ExpireOtp` |

Three things the buttons do not prevent are in the model because the properties
turn on them: the scans' answers set the form on whatever step the wizard is by
then; "Previous" stays enabled while the OTP is being sent; and the OTP step is a
form whose only field submits it again on Enter.  `drifted`, `lost` and `resent`
are the history variables that say when a promise may fail.

### The admin pages and AdminConsole

Each page's module has the same four variables: `table`, the table it lists, kept
by the server; `page`, the component's state; `calls`, the requests in flight with
what their handlers keep; `past`, history.  An action of the admin is enabled when
the screen offers what it clicks on: no dialog covers it, the list is not empty
where an empty list hides the toolbar, and so on.  `Rendered` is what the effects
after a render do (reset the page, clamp it).  A request moves from `"server"` to
`"back"` by the action of the server's handler, which computes the answer then;
handlers with a check and a later write stop at `"checked"` in between.  An answer
that was read before a later change is marked `old`.  Other admins write at any
time (`OtherAdminWrites`, `OthersWrite`).

| Page | Admin | Server | Answers |
|---|---|---|---|
| `RideRoutesPage` | search, form, delete with a dialog | list, create, update, delete; check, then write; the pair is UNIQUE | `FetchAnswers`, `SaveAnswers` (closes the form, fetches), `DeleteAnswers` (removes the row, fetches nothing) |
| `UsersPage` | search, filters, status pop-up, delete, the form in steps with uploads | list, create, update, delete; check of the role, then write | those, `StatusAnswers` and `UploadAnswers` (writes back the form of the render that began the upload) |
| `RideBillsPage` | search, three filters, calendar, status and reason boxes, Enter and blur | list with filters, update | `FetchAnswers` (also fills the reason boxes), `UpdateAnswers` |
| `RegistrationsPage` | search, filter, view, review | list, one user, review | `FetchAnswers`, `ViewAnswers`, `ReviewAnswers` (fetches, then shows the banner and closes the form) |

`AdminConsole` instantiates the four pages, three of them with the theorems about
them, over one set of these variables and
adds `mounted`, the page the router shows.  A link of the sidebar mounts another
page afresh; the table it finds is any of the instance's tables, for the pages
work on different columns and rows and time has passed.  The model leaves a page
only when nothing is in flight: React drops what an abandoned request sets, and
what its server handler still writes is a write of "others" on the page's next
visit.  `calls` is a set, so two equal requests in flight are one, and a request that
merges with an equal one answers once.

Data is abstracted to what a property compares: a user's texts and files are the
set of those that are filled; a fare, a reason, a day is one of a few values; names
are numbers, and a search finds one row.  An e-mail and a user name stand for each
other.  The expiry date of a review is given or not.

## Runs

| Run | Checks | Instance |
|---|---|---|
| `bookings` | `UnracedDailyLimit`, `DailyOvershootBound`, `UnracedCooldowns`, `DayNumbersConsecutive`, `ReferencesResolve` | one student with two concurrent bookings, three bills, a day of three ticks and a midnight; a route in both directions and one that shares an end; deletions of bills, user and route |
| `lifecycle` | `TypeOK`, `QuietInsertGetsNumber`, `UnracedDailyLimit`, `StudentStepsFollowLifecycle` | two students, two concurrent status changes, admins that set every status |
| `sign_out` | `TypeOK`, `SignedOutIsUnusable`, `ListedIsUsable`, `SessionsNeverReturn` | one user, two sessions, one login and two sign-outs at a time, expiry, failures, crashes, account deletion |
| `accounts` | `StaleAuthorityEnds`, `SignOutTakesEffect` | one session of an admin who is demoted, deactivated or deleted; one login, two sign-outs |
| `registration` | `TypeOK`, `VerdictIsCurrent`, `StoredAsValidated`, `CompleteMeansStored`, `StoredIsShown`, `ButtonsMatchCalls` | two addresses, of which another account may take one; two handlers at a time, two OTPs, six edits and scans |
| `console` | `TypeOK`, `PagesShowRows`, and for routes `RoutesAreCurrent`, `RouteFormLostOnlyToOverlap`, `OneFarePerPair`, for users `UsersAreCurrent`, `UserFormLostOnlyToOverlap`, `FormKeepsEdits`, `CompleteUnlessDraft`, `SuperAdminsKept`, for bills `BillsAreCurrent`, `ReasonShownIsStored`, `TypedReasonLostOnlyToOverlap`, for registrations `RegistrationsAreCurrent`, `BannerIsTrue`, `ReviewFormLostOnlyToOverlap`, `ViewIsOfOneMoment` | the four pages, tables of up to two rows, two requests in flight, three actions on a page (four on routes) |

Six more runs are expected to fail; each refutes what a comment or a message of
the code says of it.

| Run | Statement refuted | How |
|---|---|---|
| `daily_limit` | "max 6 rides per day" (`ride_bills.go:402`) | two requests count before either inserts |
| `ride_number` | "automatically generate ride_number on insert" (migration 012) | after a deletion the count repeats a number in use, and UNIQUE refuses the booking |
| `transitions` | "Enforce valid transitions" (`ride_bills.go:1011`) | an admin's write lands between the read and the UPDATE, which does not repeat the condition |
| `revoke_all` | "Delete from Redis (all except current)" (`auth.go:754`) | a login stores its row after the SELECT and before the UPDATE: marked, unlisted, alive |
| `revoke_current` | "cannot revoke current session" (`auth.go:680`) | the guard reads the cookie while a bearer token authenticates |
| `empty_bills` | "No ride bills yet. They appear when students book rides." (`RideBill.tsx:505`) | a status filter empties the server's answer, and an empty list hides the filters |

The passing properties say what is true instead: the limit and the cooldowns
among bookings that did not race, and a bound on the overshoot; numbers without
gaps on days from which nothing was deleted; the lifecycle unless an admin wrote
in between; and, for sessions, a complete list of the ways in which a signed-out
session can go on working.

For the clients they say, page by page, which overlaps do harm and that nothing
else does.  A list at rest is what the server has unless the answer that arrived
last was old, for another filter, or lost: those answers do make a list wrong until
the next fetch, and the properties say only that nothing else does.  On the page of
registrations "at rest" is more than elsewhere: a list that is sure is right whatever
is in flight, except while a review is under way.  A form is closed unstored, or a
typed reason lost, only when it was last worked on while another request was in
flight; an overlap before that, from which nothing was lost, excuses nothing.  The
banner of a review is true unless another admin deleted that student or decided
otherwise, for neither the review nor its answer depends on what the row was.  A
view shows an account beside the decision in the row that was clicked: the two are
of one moment unless the row was unsure or the student was reviewed in between.
Whether an account is *active* follows from no decision: accounts that an admin
created, or that are older than the reviews, are approved whatever their status, and
approved ones are deactivated; the tables of the run have such students.  A
form of a user holds what was entered unless something was entered during an
upload, whose answer writes back what the form held when it began.  The server's
guards of a SuperAdmin hold unless someone becomes one between the check and the
write.  An account that the wizard stores has the address whose OTP was accepted
and valid fields unless a scan or an edit changed them after the wizard had passed
them; "complete" is shown only of a stored account, and a stored one is shown as
complete unless the answer was lost or the OTP step was submitted again.

### Bounds

`MaxTime`, `MaxBillId`, `MaxDailyRides`, the cooldowns, `DayLength`, `TTL` and
`RequestTimeout` are small in the runs and arbitrary in the theorems.  The
limit is 1 or 3 instead of 6: a race needs the count to be one below the limit,
and how many earlier rides stand behind it does not matter.  Two bookings are
enough for every race between checks and INSERT; three bills allow a deletion in
the middle.  The day is three ticks and the route cooldown two, so that a
booking can pass every check, wait over midnight and be stored.  A sign-out and
another one, with a login between, exhaust the pairs of steps that touch the
same key; two sessions let `RevokeAllSessions` delete one key, fail on it or stop
before the next.  `SeqCap` is 1000, as in the code, and beyond the runs: the two
properties about numbers name it as a condition.

On a page, an action of the admin or of others counts against `MaxActs` (on the
routes, `RouteActs`), a server step or an answer does not. Every overlap a property
speaks of is two requests and one or two actions: open a form, submit it, open
another before the answer; type while a fetch is out; upload, edit, answer. Steps of
a form and closing a dialog are free, so that a form in five steps can be completed.
`MaxCalls` 2 lets two requests pass each other; a third one would only repeat a
pair. `RouteActs` is 4, with which a save passes the check and another admin stores
the same pair before it writes (edit a route, a stop, submit; the other admin's
write): without the UNIQUE index the run ends in two fares for one pair. Two rows
and page sizes of 1 and 10 give a last page that can vanish; the theorems of
`ListPagingProofs` are about any number. In the wizard two handlers are all that the
buttons and Enter let overlap in a new way, and two OTPs make one stale.

Permutations of executions and of session ids are a symmetry in the runs that
check no liveness.  `sign_out`, `accounts`, `revoke_all` and `revoke_current` do
not check deadlock: when every account is deleted and the clock is at its bound
there is nothing left to do.
The runs of the clients check it: something can always be clicked.

### Fairness

`SignOutTakesEffect` assumes weak fairness of what each sign-out does after its
request was let in, and nothing else: the Go scheduler runs every goroutine, and
each query returns or fails when its context ends.  No fairness is assumed of
logins, of users or of the clock, so the property does not lean on the key's
expiry.  That a failing query is always possible is what the property's exception
(`missed`, `lost`) allows for.  The clients' modules state no fairness and no
liveness: a student or an admin may close the tab at any time.

## Theorems

All are proved by TLAPS for every value of the constants that satisfies the named
assumptions, and every safety property of the runs has one.  The assumptions
(`InputsAssumption`, `BoundsAssumption`, `SessionInputs`, `RoutesInputs`,
`RoutesFound`, `ConsoleInputs` and those it is made of) state types; that limits,
days and TTL are positive; that executions are finitely many, and so are the ids
of a page; that 10 rows is one of the page sizes, for pages begin with it; and what
holds of the tables that a page finds: the stops of a route are in order and its pair
is unique, bills with higher ids are not of an earlier day.  Of the students that the
page of registrations finds nothing is assumed but their types.

`RideBillsProofs`: `TypeCorrect`, `BaseInvariance`, `UnracedLimitCorrect`,
`UnracedCooldownsCorrect`, `ReferencesCorrect`, `LifecycleCorrect`,
`OvershootBounded`, `NumbersConsecutive`, `QuietInsertNumbered`.  A bill in the
table says nothing about the booking that is about to be stored next to it, so
none of these properties is inductive alone.  The strengthening is in
`RideBills`: `InFlight` and `Stored` (an execution owns an allocated id that is
not stored; nothing is dated in the future), `RoomForUnraced` (a booking past its
first check that raced with nobody still has room on its day), `GapForUnraced`
(the same for the cooldowns, from the check that established it on) and
`PendingWrites` (a status change that nobody overtook finds the status it read).
`RoomForUnraced` is stated for the day of `At(b)`, the created time once the
INSERT has begun and the present before: that is the argument for midnight.  A
booking may be checked on one day and stored on the next, and it is then among
bookings of the next day that must themselves have been checked or have raced
with it.

The overshoot is bounded by counting those bookings too: `RoomForAdmitted` says
that the bills of a day *and* the executions that were admitted to it stay within
the limit plus all executions of the user but one.  Whoever is admitted found the
bills below the limit; storing a bill only moves it from one count to the other;
and midnight admits every waiting execution to a day that has no bills.  The
numbers rest on `NumbersOfDays` and `QuietInserts`.  The trigger counts at most
the bills of the day, so its number is at most the next one; being free in the
UNIQUE index, it is the next one, whatever ids the concurrent inserts took.  An
INSERT that overlaps no other has the highest id, so the trigger counts all of
the day's bills, and nobody else stores one before it does.

`SessionsProofs`: `SessionsTypeCorrect`, `CoreInvariance`, `ListingCorrect`,
`SignedOutCorrect`, `StaleAuthorityCorrect`, `SessionsImplementLife`.  The
invariant `Core` joins `Recording` (until a login has inserted its row nobody
knows the id, so its key is untouched), `Closing` (a sign-out deletes only keys
whose row it marked or failed to mark) and `RowsMatchKeys` (row and key expire
together, and a row without key was signed out).  `AuthorityInv` adds that a
login in flight read its account before the change and that no key outlives
`TTL`.  The refinement maps every action to an `Issue`, an `End` of the sessions
that stop being usable (several at once when the clock ticks) or a stutter.

`ListPagingProofs`: `ClampShowsRows` and `ItemsOfferPages`, for every number of
rows, page and page size.  The first is why `PagesShowRows` holds on all four
pages: whatever changes a list ends in a clamp.

Each page has its own invariant, which `AdminConsoleProofs` then carries through
the router.  They share three arguments.  The current page exists: every render
clamps it.  A list is current (`Current`, `BillsCurrent`): an answer that is not
`old` holds the table as the server has it now, so the list agrees with the table
unless it is unsure or a request in flight will replace it.  A form closes only by
its own save (`OpenFormIsSaved`, `SavesMatch`, `ReviewFlow`): when the form was last
used with no save in flight, every save in flight now was sent from it, as it is.

`RideRoutesProofs`: `RoutesTyped`, `OneFare`, `RoutesPageShowsRows`,
`RouteFormLostToOverlap`, `RoutesCurrent`.  `OneFarePerPair` is not inductive: its
strengthening `CanonicalRows` adds that each row's stops are in order, so that the
UNIQUE pair of columns covers both directions.  The check that a save makes first
is not needed for it, and may be stale.  The page of routes fetches nothing after a
deletion, it removes the row from what it shows; its list is therefore current *up
to the deletions whose answers are out* (`ListAccountedFor`), which needs that an id
is not given out again (`IdsGoneForGood`).

`UsersProofs` (its results are listed under the console).  `FormKept`: as long as
what was entered is known, at most one upload is in flight and it will write back
what the form holds now with its own field filled.  `IdsKnown`, `DraftsKnown` and
`SuperAdminsKnown` say what a handler still knows when it writes: the user it
checked is not another one with the same id; an update of a draft has seen the
role he still has, unless he has become a SuperAdmin; and whoever checked one who
is a SuperAdmin now saw it, unless that changed in between (`raced`).

`RegistrationsProofs` (likewise).  `ReviewFlow`: from the click that sends a review
to the end of the fetch that follows it, one review is under way, its form is open,
and it is the one sent last.  `DecisionsKept` adds that what was answered is stored
until others touch that very student (`overruled`), so that the banner, which is
shown only a fetch later, is true.  `Current` says of this page that a sure list is
right or about to be replaced by the fetch of the review.  `ViewsTold` carries a view
through: it is opened from a row that is right if the list is sure, every write that
changes the student's review marks it (`mixed`), and what its answer says is what the
view shows.

`AdminConsoleProofs`: `ConsoleTyped`, `PagesShow`; `RoutesCurrent`,
`RouteFormsKept`, `OneFare`; `UsersCurrent`, `UserFormsKept`, `EditsKept`,
`UsersComplete`, `SuperAdminsStay`; `BillsCurrentAlways`, `ReasonsShown`,
`ReasonsKept`; `RegistrationsCurrent`, `BannerTrue`, `ReviewFormsKept`,
`ViewsAreOfOneMoment`.  All follow from `ConsoleInvariant`: the invariant of the page that is
mounted holds.  A step of a page keeps it by that page's theorems; a link mounts a
page over a table that the page could have found first, in its initial state.  The
module also has the proofs about the page of ride bills.  There `BillsCurrent`
includes the reason boxes that the admin has left alone, for the effect that fills
them runs with every new list; and `TextKept` says why typed text survives: as long
as it was typed with nothing in flight and no search about to start (`InPeace`), its
box has the focus, and whatever takes the focus away sends it.

`RegisterClientProofs`: `WizardTyped` and all five properties of the wizard, for any
number of handlers at a time.
`CompleteIsTrue`, `StoredBecomesShown` and `HandlersExclude` rest on `WizardInv`:
`isSubmitting` is a lock that only Enter on the OTP step passes by, each handler
calls endpoints of its own, nothing but a submit leads to the OTP step and nothing
leads away from it, and the success of a registration is stored before it is
answered and stays on its way until it is shown or lost.  Without the second
handler of Enter that alone makes the two sides agree; with it only the half that
"complete" is true remains.  `VerdictStaysCurrent` adds that a check that was not
cancelled is about the address in the form.  `StoresWhatItValidated` rests on
`DriftInv`: a step that was passed is valid or recorded in `drifted`, and so is a
change of the address from the submit that mails the OTP to the row it ends in.

Only model-checked: `SignOutTakesEffect`, for liveness under fairness is out of
the prover's reach.

## Plan

1. `OTP` for password changes and drivers, which share keys with the
   registration's; an abstract one-shot token that each flow implements or not.
2. The admin client's stored session with `Sessions`: the 401 interceptor against
   revocation and expiry, and Settings, which lists and revokes sessions.
3. `Preferences` (merge and reset), `Files` (fallback, serving, deletion) and the
   images that the clients load from them.
4. An abstract numbering of a day's bills and an abstract list that a page mirrors,
   with the modules here shown to implement them.

## Not modelled

Analytics, Dashboard and Settings of the admin client: the first two fetch and
compute figures and change nothing, and their arithmetic on dates and sums is out
of proportion to a model; Settings changes passwords and preferences, which no
module has yet.  On the modelled pages: the printed and exported lists, the drivers
that are fetched for the names on bills, the recap's figures, what a field's
message says.  The clients' stored token and the redirect after a 401.  Preferences,
Schedules and Files.

Read-only handlers (statistics, history, driver rides, `Me`), formatting,
logging, cookies' attributes, password hashing, device and location detection;
delivery by SMTP, Twilio and S3; start-up, migrations as a process, command-line
tools and deployment; `courses.go` and `enrollments.go`, which are dead;
`RefreshSession`, `CleanupExpiredSessions`, `DeleteUserSessionsExcept` and
`WithTransaction`, which nothing calls.
