---------------------------- MODULE RideBillsPage ----------------------------
(***************************************************************************)
(* The admin client's page of ride bills: the filters that the server      *)
(* applies, the filters of the browser, and the boxes in which a bill's    *)
(* status and reason are changed.                                          *)
(*                                                                         *)
(* A new status filter or search term starts a new fetch and cancels none. *)
(* Every answer replaces the bills and, by an effect, what the reason      *)
(* boxes hold. A handler fetches with the filters of its own render.       *)
(***************************************************************************)
EXTENDS Integers, FiniteSets, ListPaging

CONSTANTS
    Ids,        \* ids of bills: a SERIAL column
    Drivers,
    Statuses,   \* of the bill statuses, those that the model uses
    Customs,    \* the reasons that are typed
    Days,       \* days, by number; the calendar offers them
    MonthStart, YearStart,
    Tables,     \* the tables of bills the admin may find
    Searches,   \* the bills whose numbers the admin searches for
    PageSizes,
    MaxActs,    \* bound on what the admin and the others do
    MaxCalls    \* bound on the requests in flight

NoBill == 0     \* also the empty search
NoDriver == 0   \* also the driver filter "All drivers"
NoDay == -1
All == "all"
Presets == {"route-change", "system-error"}
NoReason == ""
Custom == "__custom__"
BillReasons == Presets \cup Customs \cup {NoReason}

Bill == [status : Statuses, driver : Drivers \cup {NoDriver}, reason : BillReasons, day : Days]
IsTable(t) == \E D \in SUBSET Ids : t \in [D -> Bill]

Today == CHOOSE d \in Days : \A e \in Days : e <= d

\* Assumed by the modules that use this one.
BillsInputs ==
    /\ Ids \subseteq Nat \ {NoBill} /\ IsFiniteSet(Ids) /\ Searches \subseteq Ids
    /\ Drivers \subseteq Nat \ {NoDriver}
    /\ Statuses \subseteq {"requested", "arrived", "in_progress", "completed", "cancelled"}
    /\ "requested" \in Statuses
    /\ Customs \cap (Presets \cup {NoReason, Custom}) = {}
    /\ Days \subseteq Nat /\ IsFiniteSet(Days) /\ Days # {} /\ MonthStart \in Nat /\ YearStart \in Nat
    /\ PageSizes \subseteq Nat \ {0} /\ 10 \in PageSizes /\ MaxActs \in Nat /\ MaxCalls \in Nat
    /\ \A t \in Tables : IsTable(t) /\ \A a, b \in DOMAIN t : a < b => t[a].day <= t[b].day

VARIABLES
    table,     \* ride_bills: a bill for each id in its domain
    page,      \* the state of the component
    calls,     \* the requests in flight, with what their handlers keep
    past       \* history: see Past

vars == <<table, page, calls, past>>

TimeRanges == {"all", "day", "week", "month", "year"}

\* The calendar: what it has drafted counts only while it is shown.
Hidden == [kind |-> "hidden"]
CalendarDraft == [kind : {"drafts"}, start : Days \cup {NoDay}, end : Days \cup {NoDay}]

\* The state but the bills. focus: the bill whose reason is being typed, in the DOM.
Page ==
    [initialFetchDone : BOOLEAN, error : BOOLEAN,
     searchTerm : Ids \cup {NoBill}, debouncedSearch : Ids \cup {NoBill},
     filterStatus : Statuses \cup {All}, driverFilter : Drivers \cup {NoDriver},
     timeRange : TimeRanges \cup {"custom"}, customDateFrom : Days, customDateTo : Days,
     calendarSheet : {Hidden} \cup CalendarDraft,
     reasonSelections : [Ids -> Presets \cup {NoReason, Custom}], reasonInputs : [Ids -> BillReasons],
     focus : Ids \cup {NoBill}, pageSize : PageSizes, currentPage : Nat \ {0}]

\* status, term: the filters the request carries, or its handler will fetch with.
\* old: the table changed after the answer was read.
IsFetch(k) ==
    /\ DOMAIN k = {"op", "status", "term", "at", "ok", "rows", "old"}
    /\ k.op = "fetch" /\ k.status \in Statuses \cup {All} /\ k.term \in Ids \cup {NoBill}
    /\ k.at \in {"server", "back"} /\ k.ok \in BOOLEAN /\ IsTable(k.rows) /\ k.old \in BOOLEAN
Update ==
    [op : {"status", "preset", "text"}, status : Statuses \cup {All}, term : Ids \cup {NoBill},
     at : {"server", "checked", "back"}, ok : BOOLEAN, id : Ids, value : Statuses \cup BillReasons]

\* acts: what the admin and the others have done so far. unsure: the list may differ
\* from the table (an answer was old, for other filters or lost, or others wrote).
\* local: the bills whose reason box the admin has used since the last answer.
\* unsent: the bill whose typed reason has not been sent. overlap: when a reason was last
\* typed, a request was in flight or a search was about to start. lostText: since then, an
\* answer has replaced a reason that was not sent.
Past ==
    [acts : 0 .. MaxActs, unsure : BOOLEAN, local : SUBSET Ids, unsent : Ids \cup {NoBill}, overlap : BOOLEAN,
     lostText : BOOLEAN]

TypeOK ==
    /\ IsTable(table) /\ IsTable(page.bills)
    /\ [f \in DOMAIN page \ {"bills"} |-> page[f]] \in Page
    /\ \A k \in calls : IsFetch(k) \/ k \in Update
    /\ past \in Past

fetchBills(status, term) ==
    [op |-> "fetch", status |-> status, term |-> term, at |-> "server", ok |-> FALSE, rows |-> <<>>, old |-> FALSE]

\* The page as it is mounted.
Mounted ==
    [bills |-> <<>>, initialFetchDone |-> FALSE, error |-> FALSE, searchTerm |-> NoBill, debouncedSearch |-> NoBill,
     filterStatus |-> All, driverFilter |-> NoDriver, timeRange |-> "all", customDateFrom |-> Today,
     customDateTo |-> Today, calendarSheet |-> Hidden,
     reasonSelections |-> [b \in Ids |-> NoReason], reasonInputs |-> [b \in Ids |-> NoReason], focus |-> NoBill,
     pageSize |-> 10, currentPage |-> 1]
MountCalls == {fetchBills(All, NoBill)}
NoPast(t) ==
    [acts |-> 0, unsure |-> FALSE, local |-> {}, unsent |-> NoBill, overlap |-> FALSE, lostText |-> FALSE]

Init ==
    /\ table \in Tables
    /\ page = Mounted
    /\ calls = MountCalls
    /\ past = NoPast(table)

-----------------------------------------------------------------------------
(* Rendering. *)

\* Monday starts a week; day 0 is a Sunday.
startOfThisWeek(now) ==
    LET dow == now % 7
    IN  now + (IF dow = 0 THEN -6 ELSE 1 - dow)

InRange(p, day) ==
    CASE p.timeRange = "all" -> TRUE
      [] p.timeRange = "day" -> day >= Today
      [] p.timeRange = "week" -> day >= startOfThisWeek(Today)
      [] p.timeRange = "month" -> day >= MonthStart
      [] p.timeRange = "year" -> day >= YearStart
      [] p.timeRange = "custom" -> p.customDateFrom <= day /\ day <= p.customDateTo

filteredBills(p) ==
    {b \in DOMAIN p.bills : p.driverFilter \in {NoDriver, p.bills[b].driver} /\ InRange(p, p.bills[b].day)}

\* The effects of a render: the page resets on reset, and is clamped.
Rendered(p, reset) ==
    [p EXCEPT !.currentPage = Clamp(IF reset THEN 1 ELSE @, TotalPages(Cardinality(filteredBills(p)), p.pageSize))]

\* The newest bill is listed first.
paginatedBills(p) ==
    {b \in filteredBills(p) :
        Cardinality({q \in filteredBills(p) : q >= b})
            \in ShownRows(Cardinality(filteredBills(p)), p.currentPage, p.pageSize)}

\* The drivers of the listed bills.
drivers == {page.bills[b].driver : b \in DOMAIN page.bills} \ {NoDriver}

listEmpty == page.initialFetchDone /\ ~page.error /\ DOMAIN page.bills = {}
listIdle == page.initialFetchDone /\ DOMAIN page.bills # {}

\* A click elsewhere closes the calendar first, and takes the focus from a reason.
Uncovered == page.calendarSheet = Hidden /\ page.focus = NoBill

Act == past.acts < MaxActs /\ past' = [past EXCEPT !.acts = @ + 1]
Room == Cardinality(calls) < MaxCalls

Selection(reason) == IF reason \in Customs THEN Custom ELSE reason
Input(reason) == IF reason \in Customs THEN reason ELSE NoReason

WithReasons(p) ==
    [p EXCEPT
        !.reasonSelections = [b \in Ids |-> IF b \in DOMAIN p.bills THEN Selection(p.bills[b].reason) ELSE NoReason],
        !.reasonInputs = [b \in Ids |-> IF b \in DOMAIN p.bills THEN Input(p.bills[b].reason) ELSE NoReason]]

\* Mutant of ReasonsOf: the effect runs once only.
ReasonsOnce(p) == IF p.initialFetchDone THEN p ELSE WithReasons(p)

\* The effect of new bills: every reason box shows the reason of its bill.
ReasonsOf(p) == WithReasons(p)

\* A box for typing that is no longer shown has no focus, and no blur event.
KeepFocus(p) ==
    [p EXCEPT !.focus = IF @ \in paginatedBills(p) /\ p.reasonSelections[@] = Custom THEN @ ELSE NoBill]

-----------------------------------------------------------------------------
(* The filters. *)

Search ==
    /\ listIdle /\ Uncovered /\ Act
    /\ \E term \in Searches \cup {NoBill} :
           term # page.searchTerm /\ page' = [page EXCEPT !.searchTerm = term]
    /\ UNCHANGED <<table, calls>>

\* Mutant of RefetchOn: the effect does not depend on the filters.
RefetchNever(status, term) == {}

\* fetchBills is a new function for new filters, and the effect calls it.
RefetchOn(status, term) ==
    IF status = page.filterStatus /\ term = page.debouncedSearch THEN {} ELSE {fetchBills(status, term)}

\* The page with p's filters, and the fetch that they start.
Refilter(p) ==
    LET fetches == RefetchOn(p.filterStatus, p.debouncedSearch)
    IN  /\ fetches # {} => Room
        /\ calls' = calls \cup fetches
        /\ page' = Rendered([p EXCEPT !.error = IF fetches = {} THEN @ ELSE FALSE], TRUE)

\* The timer of the last change of the term fires.
Debounce ==
    /\ page.searchTerm # page.debouncedSearch
    /\ Refilter([page EXCEPT !.debouncedSearch = page.searchTerm])
    /\ UNCHANGED <<table, past>>

FilterByDriver ==
    /\ listIdle /\ Uncovered /\ Act
    /\ \E d \in drivers \cup {NoDriver} :
           d # page.driverFilter /\ Refilter([page EXCEPT !.driverFilter = d])
    /\ UNCHANGED table

FilterByStatus ==
    /\ listIdle /\ Uncovered /\ Act
    /\ \E s \in Statuses \cup {All} :
           s # page.filterStatus /\ Refilter([page EXCEPT !.filterStatus = s])
    /\ UNCHANGED table

ChooseTimeRange ==
    /\ listIdle /\ Uncovered /\ Act
    /\ \E r \in TimeRanges : r # page.timeRange /\ Refilter([page EXCEPT !.timeRange = r])
    /\ UNCHANGED table

\* The drafts start from the range that is in force, or from today.
OpenCalendar ==
    /\ listIdle /\ Uncovered /\ Act
    /\ page' = [page EXCEPT !.calendarSheet =
           IF page.timeRange = "custom"
           THEN [kind |-> "drafts", start |-> page.customDateFrom, end |-> page.customDateTo]
           ELSE [kind |-> "drafts", start |-> Today, end |-> Today]]
    /\ UNCHANGED <<table, calls>>

drafts == page.calendarSheet

\* Each box offers the days that the other allows, and can be emptied.
PickStart ==
    /\ drafts # Hidden
    /\ \E d \in Days \cup {NoDay} :
           /\ d <= (IF drafts.end = NoDay THEN Today ELSE drafts.end)
           /\ d # drafts.start /\ page' = [page EXCEPT !.calendarSheet.start = d]
    /\ UNCHANGED <<table, calls, past>>

PickEnd ==
    /\ drafts # Hidden
    /\ \E d \in Days \cup {NoDay} :
           /\ d # NoDay => d >= drafts.start
           /\ d # drafts.end /\ page' = [page EXCEPT !.calendarSheet.end = d]
    /\ UNCHANGED <<table, calls, past>>

ApplyRange ==
    /\ drafts # Hidden
    /\ NoDay \notin {drafts.start, drafts.end} /\ drafts.start <= drafts.end
    /\ Refilter([page EXCEPT !.customDateFrom = drafts.start, !.customDateTo = drafts.end,
                             !.timeRange = "custom", !.calendarSheet = Hidden])
    /\ UNCHANGED <<table, past>>

\* The cross, "Cancel", the button of the calendar, or a click outside.
CloseCalendar ==
    /\ drafts # Hidden
    /\ page' = [page EXCEPT !.calendarSheet = Hidden]
    /\ UNCHANGED <<table, calls, past>>

ClearFilters ==
    /\ listIdle /\ filteredBills(page) = {} /\ Uncovered /\ Act
    /\ Refilter([page EXCEPT !.searchTerm = NoBill, !.debouncedSearch = NoBill, !.driverFilter = NoDriver,
                             !.timeRange = "all", !.customDateFrom = Today, !.customDateTo = Today,
                             !.filterStatus = All])
    /\ UNCHANGED table

ChangePage ==
    /\ listIdle /\ filteredBills(page) # {} /\ Uncovered /\ Act
    /\ \/ \E cp \in 1 .. TotalPages(Cardinality(filteredBills(page)), page.pageSize) :
              cp # page.currentPage /\ page' = [page EXCEPT !.currentPage = cp]
       \/ \E n \in PageSizes :
              n # page.pageSize /\ page' = Rendered([page EXCEPT !.pageSize = n], TRUE)
    /\ UNCHANGED <<table, calls>>

\* "Try again": on the error screen, on the empty screen, on the banner.
Retry ==
    /\ listEmpty \/ (page.initialFetchDone /\ page.error)
    /\ Uncovered /\ Act /\ Room
    /\ page' = [page EXCEPT !.error = FALSE]
    /\ calls' = calls \cup {fetchBills(page.filterStatus, page.debouncedSearch)}
    /\ UNCHANGED table

DismissError ==
    /\ page.error /\ DOMAIN page.bills # {} /\ Uncovered /\ Act
    /\ page' = [page EXCEPT !.error = FALSE]
    /\ UNCHANGED <<table, calls>>

-----------------------------------------------------------------------------
(* The boxes of a bill. Nothing disables them while an update is in flight. *)

updateRideBill(op, b, value) ==
    [op |-> op, status |-> page.filterStatus, term |-> page.debouncedSearch, at |-> "server", ok |-> FALSE,
     id |-> b, value |-> value]

handleStatusUpdate(b) ==
    /\ b \in paginatedBills(page) /\ Uncovered /\ Act /\ Room
    /\ \E newStatus \in Statuses \ {page.bills[b].status} :
           calls' = calls \cup {updateRideBill("status", b, newStatus)}
    /\ UNCHANGED <<table, page>>

\* "Reason..." and "Custom..." are not sent.
handleReasonChange(b) ==
    /\ b \in paginatedBills(page) /\ Uncovered /\ past.acts < MaxActs
    /\ \E newReason \in (Presets \cup {NoReason, Custom}) \ {page.reasonSelections[b]} :
           IF newReason \in Presets
           THEN /\ Room
                /\ calls' = calls \cup {updateRideBill("preset", b, newReason)}
                /\ past' = [past EXCEPT !.acts = @ + 1]
                /\ UNCHANGED page
           ELSE /\ page' = [page EXCEPT !.reasonSelections[b] = newReason]
                /\ past' = [past EXCEPT !.acts = @ + 1, !.local = @ \cup {b}]
                /\ UNCHANGED calls
    /\ UNCHANGED table

FocusReason(b) ==
    /\ b \in paginatedBills(page) /\ Uncovered /\ Act
    /\ page.reasonSelections[b] = Custom
    /\ page' = [page EXCEPT !.focus = b]
    /\ UNCHANGED <<table, calls>>

TypeReason ==
    /\ page.focus # NoBill
    /\ \E text \in (Customs \cup {NoReason}) \ {page.reasonInputs[page.focus]} :
           /\ page' = [page EXCEPT !.reasonInputs[page.focus] = text]
           /\ past' = [past EXCEPT !.local = @ \cup {page.focus}, !.unsent = IF text = NoReason THEN NoBill ELSE page.focus,
                                   !.overlap = calls # {} \/ page.searchTerm # page.debouncedSearch, !.lostText = FALSE]
    /\ UNCHANGED <<table, calls>>

\* Mutant of SendReason: leaving the box does not save.
DropReason(n) == UNCHANGED <<calls, past>>

\* The text is sent as it is, changed or not; an empty one is not.
\* n: 1 when it counts against the bound.
SendReason(n) ==
    LET text == page.reasonInputs[page.focus]
    IN  IF text = NoReason THEN UNCHANGED <<calls, past>>
        ELSE /\ Room
             /\ calls' = calls \cup {updateRideBill("text", page.focus, text)}
             /\ past' = [past EXCEPT !.acts = @ + n, !.unsent = NoBill]

\* handleReasonInputBlur, called by the blur event ...
BlurReason ==
    /\ page.focus # NoBill
    /\ SendReason(0)
    /\ page' = [page EXCEPT !.focus = NoBill]
    /\ UNCHANGED table

\* ... and by Enter, which leaves the focus.
EnterReason ==
    /\ page.focus # NoBill /\ past.acts < MaxActs
    /\ SendReason(1)
    /\ UNCHANGED <<table, page>>

-----------------------------------------------------------------------------
(* The server. *)

Matching(rows, status, term) ==
    [b \in {b \in DOMAIN rows : status \in {All, rows[b].status} /\ term \in {NoBill, b}} |-> rows[b]]

\* Answers read before a change of the table are old.
Aged(cs) == {IF k.op = "fetch" /\ k.at = "back" THEN [k EXCEPT !.old = TRUE] ELSE k : k \in cs}

Moves(k, j) == calls' = (calls \ {k}) \cup {j}
Refuse(k) == Moves(k, [k EXCEPT !.at = "back"]) /\ UNCHANGED <<table, page, past>>

GetRideBills(k) ==
    /\ k \in calls /\ k.op = "fetch" /\ k.at = "server"
    /\ Moves(k, [k EXCEPT !.at = "back", !.ok = TRUE, !.rows = Matching(table, k.status, k.term)])
    /\ UNCHANGED <<table, page, past>>

\* UpdateRideBill looks for the bill first, ...
CheckBill(k) ==
    /\ k \in calls /\ k.op # "fetch" /\ k.at = "server"
    /\ IF k.id \notin DOMAIN table THEN Refuse(k)
       ELSE Moves(k, [k EXCEPT !.at = "checked"]) /\ UNCHANGED <<table, page, past>>

\* ... and sets its status or its reason later, whatever they are by then.
UpdateRideBill(k) ==
    /\ k \in calls /\ k.op # "fetch" /\ k.at = "checked"
    /\ IF k.id \notin DOMAIN table THEN Refuse(k)
       ELSE /\ table' = IF k.op = "status" THEN [table EXCEPT ![k.id].status = k.value]
                        ELSE [table EXCEPT ![k.id].reason = k.value]
            /\ calls' = Aged(calls \ {k}) \cup {[k EXCEPT !.at = "back", !.ok = TRUE]}
            /\ UNCHANGED <<page, past>>

\* A query fails, or the answer is lost on its way back.
RequestFails(k) ==
    /\ k \in calls /\ ~(k.at = "back" /\ ~k.ok)
    /\ Moves(k, [k EXCEPT !.at = "back", !.ok = FALSE])
    /\ past' = [past EXCEPT !.unsure = @ \/ (k.op # "fetch" /\ k.at = "back")]
    /\ UNCHANGED <<table, page>>

\* A student books, a driver moves a ride on, another admin gives a reason or deletes.
OthersWrite ==
    /\ past.acts < MaxActs
    /\ past' = [past EXCEPT !.acts = @ + 1, !.unsure = TRUE]
    /\ \/ \E b \in Ids :
              /\ \A q \in DOMAIN table : q < b
              /\ table' = [q \in DOMAIN table \cup {b} |-> IF q \in DOMAIN table THEN table[q]
                           ELSE [status |-> "requested", driver |-> NoDriver, reason |-> NoReason, day |-> Today]]
       \/ \E b \in DOMAIN table : \E s \in Statuses \ {table[b].status}, d \in Drivers :
              table' = [table EXCEPT ![b].status = s, ![b].driver = d]
       \/ \E b \in DOMAIN table : \E text \in Customs \ {table[b].reason} : table' = [table EXCEPT ![b].reason = text]
       \/ \E b \in DOMAIN table : table' = [q \in DOMAIN table \ {b} |-> table[q]]
    /\ calls' = Aged(calls)
    /\ UNCHANGED page

-----------------------------------------------------------------------------
(* The answers. *)

\* The boxes of p no longer hold the reason that has not been sent.
Loses(p) == past.unsent # NoBill /\ p.reasonInputs[past.unsent] # page.reasonInputs[past.unsent]

\* The list is replaced by the answer, whatever it answers.
FetchAnswers(k) ==
    /\ k \in calls /\ k.op = "fetch" /\ k.at = "back"
    /\ calls' = calls \ {k}
    /\ IF k.ok
       THEN LET p == [ReasonsOf([page EXCEPT !.bills = k.rows]) EXCEPT !.initialFetchDone = TRUE]
            IN  /\ page' = KeepFocus(Rendered(p, FALSE))
                /\ past' = [past EXCEPT
                       !.unsure = k.old \/ k.status # page.filterStatus \/ k.term # page.debouncedSearch,
                       !.local = {},
                       !.unsent = NoBill,
                       !.lostText = @ \/ Loses(p)]
       ELSE /\ page' = [page EXCEPT !.error = TRUE, !.initialFetchDone = TRUE]
            /\ past' = [past EXCEPT !.unsure = TRUE]
    /\ UNCHANGED table

UpdateAnswers(k) ==
    /\ k \in calls /\ k.op # "fetch" /\ k.at = "back"
    /\ IF k.ok
       THEN LET p == IF k.op # "preset" THEN page
                     ELSE [page EXCEPT !.reasonSelections[k.id] = k.value, !.reasonInputs[k.id] = NoReason]
            IN  /\ page' = KeepFocus([p EXCEPT !.error = FALSE])
                /\ calls' = (calls \ {k}) \cup {fetchBills(k.status, k.term)}
                /\ past' = [past EXCEPT !.lostText = @ \/ Loses(p),
                                        !.unsent = IF @ = page'.focus THEN @ ELSE NoBill]
       ELSE calls' = calls \ {k} /\ UNCHANGED <<page, past>>
    /\ UNCHANGED table

-----------------------------------------------------------------------------
Next ==
    \/ Search \/ Debounce \/ FilterByDriver \/ FilterByStatus \/ ChooseTimeRange
    \/ OpenCalendar \/ PickStart \/ PickEnd \/ ApplyRange \/ CloseCalendar \/ ClearFilters
    \/ ChangePage \/ Retry \/ DismissError
    \/ \E b \in Ids : handleStatusUpdate(b) \/ handleReasonChange(b) \/ FocusReason(b)
    \/ TypeReason \/ BlurReason \/ EnterReason
    \/ OthersWrite
    \/ \E k \in calls :
           \/ GetRideBills(k) \/ CheckBill(k) \/ UpdateRideBill(k) \/ RequestFails(k)
           \/ FetchAnswers(k) \/ UpdateAnswers(k)

Spec == Init /\ [][Next]_vars
-----------------------------------------------------------------------------
(* Properties. *)

AtRest == calls = {} /\ page.searchTerm = page.debouncedSearch /\ ~past.unsure

\* At rest the list is what the server has for the filters, unless an answer was old,
\* for other filters or lost, or others wrote meanwhile.
BillsAreCurrent == AtRest => page.bills = Matching(table, page.filterStatus, page.debouncedSearch)

\* At rest a reason box that the admin has left alone shows the reason that is stored.
ReasonShownIsStored ==
    AtRest => \A b \in (DOMAIN page.bills \cap DOMAIN table) \ past.local :
                  IF table[b].reason \in Customs
                  THEN page.reasonSelections[b] = Custom /\ page.reasonInputs[b] = table[b].reason
                  ELSE page.reasonSelections[b] = table[b].reason

\* A typed reason is lost without having been sent only when it was last typed while a
\* request was in flight or a search was about to start.
TypedReasonLostOnlyToOverlap == past.lostText => past.overlap

\* A list that has rows shows some.
PageShowsBills == filteredBills(page) # {} => paginatedBills(page) # {}

\* What the page says of an empty list: "No ride bills yet. They appear when students
\* book rides." It also says so of a list that a filter has emptied.
EmptyMeansNoBills == AtRest /\ listEmpty => DOMAIN table = {}
=============================================================================
