------------------------- MODULE AdminConsoleProofs -------------------------
(***************************************************************************)
(* The admin client, for all values of its constants: what holds of each   *)
(* page on its own holds of the page that is mounted, whatever pages were  *)
(* mounted before and whatever they left in the database. The page of ride *)
(* bills is proved about here, the others in modules of their own.         *)
(***************************************************************************)
EXTENDS AdminConsole, ListPagingProofs, TLAPS

-----------------------------------------------------------------------------
(* The page of ride bills. What is proved of paging holds of its paging: *)

LEMMA BillsPaging ==
    /\ \A S : Bills!Cardinality(S) = Cardinality(S) /\ (Bills!IsFiniteSet(S) <=> IsFiniteSet(S))
    /\ \A n, ps : Bills!TotalPages(n, ps) = TotalPages(n, ps)
    /\ \A p, tp : Bills!Clamp(p, tp) = Clamp(p, tp)
    /\ \A n, cp, ps : Bills!ShownRows(n, cp, ps) = ShownRows(n, cp, ps)
<1>1. \A S : Bills!Cardinality(S) = Cardinality(S)
  BY DEF Bills!Cardinality, Cardinality
<1>2. \A S : Bills!IsFiniteSet(S) <=> IsFiniteSet(S)
  BY DEF Bills!IsFiniteSet, IsFiniteSet
<1>3. \A n, ps : Bills!TotalPages(n, ps) = TotalPages(n, ps)
  BY DEF Bills!TotalPages, TotalPages
<1>4. \A p, tp : Bills!Clamp(p, tp) = Clamp(p, tp)
  BY DEF Bills!Clamp, Clamp
<1>5. \A n, cp, ps : Bills!ShownRows(n, cp, ps) = ShownRows(n, cp, ps)
  BY DEF Bills!ShownRows, ShownRows
<1> QED BY <1>1, <1>2, <1>3, <1>4, <1>5

(* Its types. What an update sends, it may store. *)

BillRows == UNION {[D -> Bills!Bill] : D \in SUBSET Ids}

BillsFullPage ==
    [bills : BillRows, initialFetchDone : BOOLEAN, error : BOOLEAN,
     searchTerm : Ids \cup {Bills!NoBill}, debouncedSearch : Ids \cup {Bills!NoBill},
     filterStatus : BillStatuses \cup {Bills!All}, driverFilter : Drivers \cup {Bills!NoDriver},
     timeRange : Bills!TimeRanges \cup {"custom"}, customDateFrom : Days, customDateTo : Days,
     calendarSheet : {Bills!Hidden} \cup Bills!CalendarDraft,
     reasonSelections : [Ids -> Bills!Presets \cup {Bills!NoReason, Bills!Custom}], reasonInputs : [Ids -> Bills!BillReasons],
     focus : Ids \cup {Bills!NoBill}, pageSize : PageSizes, currentPage : Nat \ {0}]

BillsFetch ==
    [op : {"fetch"}, status : BillStatuses \cup {Bills!All}, term : Ids \cup {Bills!NoBill}, at : {"server", "back"},
     ok : BOOLEAN, rows : BillRows, old : BOOLEAN]

UpdateIsSound(k) ==
    /\ k.op = "status" => k.value \in BillStatuses
    /\ k.op = "preset" => k.value \in Bills!Presets
    /\ k.op = "text" => k.value \in Bills!BillReasons
SoundUpdate == {k \in Bills!Update : UpdateIsSound(k)}

BillsCalls == BillsFetch \cup SoundUpdate

BillsTyped == table \in BillRows /\ page \in BillsFullPage /\ calls \subseteq BillsCalls /\ past \in Bills!Past

LEMMA BillsTypedMeans == BillsTyped => Bills!TypeOK
<1> SUFFICES ASSUME BillsTyped PROVE Bills!TypeOK
  OBVIOUS
<1>1. \A t \in BillRows : Bills!IsTable(t)
  BY DEF BillRows, Bills!IsTable
<1>2. Bills!IsTable(table) /\ Bills!IsTable(page.bills)
  BY <1>1 DEF BillsTyped, BillsFullPage
<1>3. [f \in DOMAIN page \ {"bills"} |-> page[f]] \in Bills!Page
  BY DEF BillsTyped, BillsFullPage, Bills!Page
<1>4. \A k \in BillsFetch : Bills!IsFetch(k)
  BY <1>1 DEF BillsFetch, Bills!IsFetch
<1> QED BY <1>2, <1>3, <1>4 DEF BillsTyped, Bills!TypeOK, BillsCalls, SoundUpdate

LEMMA TodayIsADay == Bills!BillsInputs => Bills!Today \in Days
<1> SUFFICES ASSUME Bills!BillsInputs PROVE Bills!Today \in Days
  OBVIOUS
<1>1. Days \in SUBSET Nat /\ IsFiniteSet(Days) /\ Days # {}
  BY BillsPaging DEF Bills!BillsInputs
<1>2. Cardinality(Days) \in Nat \ {0}
  BY <1>1, FS_CardinalityType, FS_EmptySet
<1>3. PICK d \in Days : Cardinality({e \in Days : e >= d}) = 1
  BY <1>1, <1>2, EveryRankIsTaken
<1>4. \A e \in Days : e <= d
  <2>1. IsFiniteSet({e \in Days : e >= d})
    BY <1>1, FS_Subset
  <2>2. PICK x : {e \in Days : e >= d} = {x}
    BY <1>3, <2>1, FS_Singleton
  <2>3. \A e \in Days : e >= d => e = x
    BY <2>2
  <2> QED BY <1>1, <1>3, <2>3
<1> QED BY <1>3, <1>4 DEF Bills!Today

LEMMA BillsInputTypes ==
    ASSUME Bills!BillsInputs
    PROVE  /\ Ids \subseteq Nat \ {Bills!NoBill} /\ IsFiniteSet(Ids) /\ Searches \subseteq Ids
           /\ PageSizes \subseteq Nat \ {0} /\ 10 \in PageSizes /\ MaxActs \in Nat
           /\ "requested" \in BillStatuses /\ Days \subseteq Nat /\ Bills!Today \in Days
           /\ Customs \cap (Bills!Presets \cup {Bills!NoReason, Bills!Custom}) = {}
           /\ \A t \in BillTables : t \in BillRows
  BY TodayIsADay, BillsPaging DEF Bills!BillsInputs, Bills!IsTable, BillRows

LEMMA BillRowType ==
    ASSUME NEW t \in BillRows
    PROVE  DOMAIN t \subseteq Ids /\ \A b \in DOMAIN t : t[b] \in Bills!Bill
  BY DEF BillRows

LEMMA BillCallKinds ==
    ASSUME NEW k \in BillsCalls
    PROVE  /\ k.op = "fetch" => k \in BillsFetch
           /\ k.op # "fetch" => k \in SoundUpdate /\ k.id \in Ids
           /\ k.op \in {"fetch", "status", "preset", "text"}
           /\ k.status \in BillStatuses \cup {Bills!All} /\ k.term \in Ids \cup {Bills!NoBill} /\ k.ok \in BOOLEAN
  BY DEF BillsCalls, BillsFetch, SoundUpdate, Bills!Update

-----------------------------------------------------------------------------
(* The list, its place in it, and the boxes. *)

\* What the filters of the browser see.
SameBillList(p, q) ==
    /\ p.bills = q.bills /\ p.driverFilter = q.driverFilter /\ p.timeRange = q.timeRange
    /\ p.customDateFrom = q.customDateFrom /\ p.customDateTo = q.customDateTo
    /\ p.pageSize = q.pageSize /\ p.currentPage = q.currentPage

\* The bills, and what is typed about them.
SameBoxes(p, q) ==
    p.bills = q.bills /\ p.reasonSelections = q.reasonSelections /\ p.reasonInputs = q.reasonInputs

\* The filters that a fetch takes along.
SameFilters(p, q) == p.filterStatus = q.filterStatus /\ p.debouncedSearch = q.debouncedSearch

BillsOnAPage(p) == p.currentPage \in 1 .. Bills!TotalPages(Bills!Cardinality(Bills!filteredBills(p)), p.pageSize)

LEMMA SameFilteredBills ==
    ASSUME NEW p, NEW q, p.bills = q.bills, p.driverFilter = q.driverFilter, p.timeRange = q.timeRange,
           p.customDateFrom = q.customDateFrom, p.customDateTo = q.customDateTo
    PROVE  Bills!filteredBills(p) = Bills!filteredBills(q)
<1>1. \A d : Bills!InRange(p, d) = Bills!InRange(q, d)
  BY DEF Bills!InRange
<1> QED BY <1>1 DEF Bills!filteredBills

LEMMA SameBillListOnAPage ==
    ASSUME NEW p, NEW q, BillsOnAPage(q), SameBillList(p, q)
    PROVE  BillsOnAPage(p)
<1>1. Bills!filteredBills(p) = Bills!filteredBills(q)
  BY SameFilteredBills DEF SameBillList
<1> QED BY <1>1 DEF SameBillList, BillsOnAPage

LEMMA BillListSize ==
    ASSUME Bills!BillsInputs, NEW p \in BillsFullPage
    PROVE  /\ Bills!filteredBills(p) \in SUBSET Nat /\ IsFiniteSet(Bills!filteredBills(p))
           /\ Bills!Cardinality(Bills!filteredBills(p)) \in Nat
           /\ p.pageSize \in Nat \ {0} /\ p.currentPage \in Nat \ {0}
           /\ Bills!TotalPages(Bills!Cardinality(Bills!filteredBills(p)), p.pageSize) \in Nat \ {0}
<1>1. p.bills \in BillRows /\ p.pageSize \in PageSizes /\ p.currentPage \in Nat \ {0}
  BY DEF BillsFullPage
<1>2. Bills!filteredBills(p) \subseteq Ids
  BY <1>1, BillRowType DEF Bills!filteredBills
<1>3. IsFiniteSet(Bills!filteredBills(p)) /\ Bills!Cardinality(Bills!filteredBills(p)) \in Nat
  BY <1>2, BillsInputTypes, BillsPaging, FS_Subset, FS_CardinalityType
<1>4. Bills!filteredBills(p) \in SUBSET Nat /\ p.pageSize \in Nat \ {0}
  BY <1>1, <1>2, BillsInputTypes
<1> QED BY <1>1, <1>3, <1>4, BillsPaging, TotalPagesType

LEMMA BillsRenderedIs ==
    ASSUME Bills!BillsInputs, NEW p \in BillsFullPage, NEW reset \in BOOLEAN
    PROVE  LET q == Bills!Rendered(p, reset) IN
           /\ q \in BillsFullPage /\ BillsOnAPage(q) /\ SameBoxes(q, p) /\ SameFilters(q, p)
           /\ q.searchTerm = p.searchTerm /\ q.focus = p.focus
<1> DEFINE tp == Bills!TotalPages(Bills!Cardinality(Bills!filteredBills(p)), p.pageSize)
           cp == IF reset THEN 1 ELSE p.currentPage
           q == Bills!Rendered(p, reset)
<1>1. cp \in Nat \ {0}
  BY BillListSize
<1>2. tp \in Nat \ {0} /\ Bills!Clamp(cp, tp) \in 1 .. tp
  BY <1>1, BillListSize, BillsPaging, ClampedPage
<1>3. q = [p EXCEPT !.currentPage = Bills!Clamp(cp, tp)]
  BY DEF Bills!Rendered
<1> HIDE DEF cp, q
<1>4. /\ q \in BillsFullPage /\ SameBoxes(q, p) /\ SameFilters(q, p)
      /\ q.searchTerm = p.searchTerm /\ q.focus = p.focus
  <2>1. Bills!Clamp(cp, tp) \in Nat \ {0}
    BY <1>2
  <2> HIDE DEF tp
  <2> QED BY <1>3, <2>1 DEF BillsFullPage, SameBoxes, SameFilters
<1>5. /\ q.bills = p.bills /\ q.driverFilter = p.driverFilter /\ q.timeRange = p.timeRange
      /\ q.customDateFrom = p.customDateFrom /\ q.customDateTo = p.customDateTo
      /\ q.pageSize = p.pageSize /\ q.currentPage = Bills!Clamp(cp, tp)
  BY <1>3 DEF BillsFullPage
<1>6. Bills!filteredBills(q) = Bills!filteredBills(p)
  BY <1>5, SameFilteredBills
<1> QED BY <1>2, <1>4, <1>5, <1>6 DEF BillsOnAPage, q

LEMMA BillsOnAPageShowsRows ==
    ASSUME Bills!BillsInputs, BillsTyped, BillsOnAPage(page)
    PROVE  Bills!PageShowsBills
<1>1. page \in BillsFullPage
  BY DEF BillsTyped
<1> DEFINE S == Bills!filteredBills(page)
           cp == page.currentPage
           ps == page.pageSize
<1>2. S \in SUBSET Nat /\ IsFiniteSet(S) /\ ps \in Nat \ {0} /\ cp \in 1 .. TotalPages(Cardinality(S), ps)
  BY <1>1, BillListSize, BillsPaging DEF BillsOnAPage
<1>3. Bills!paginatedBills(page) = {b \in S : Cardinality({q \in S : q >= b}) \in ShownRows(Cardinality(S), cp, ps)}
  BY BillsPaging DEF Bills!paginatedBills
<1> HIDE DEF S, cp, ps
<1>4. S # {} => Bills!paginatedBills(page) # {}
  BY <1>2, <1>3, ExistingPageShowsRows
<1> QED BY <1>4 DEF Bills!PageShowsBills, S

LEMMA KeepFocusIs ==
    ASSUME NEW p \in BillsFullPage
    PROVE  LET q == Bills!KeepFocus(p) IN
           /\ q \in BillsFullPage /\ SameBoxes(q, p) /\ SameFilters(q, p) /\ SameBillList(q, p)
           /\ q.searchTerm = p.searchTerm
 <1> DEFINE f == IF p.focus \in Bills!paginatedBills(p) /\ p.reasonSelections[p.focus] = Bills!Custom
                 THEN p.focus ELSE Bills!NoBill
           q == Bills!KeepFocus(p)
<1>1. f \in Ids \cup {Bills!NoBill}
  BY DEF BillsFullPage
<1>2. q = [p EXCEPT !.focus = f]
  BY DEF Bills!KeepFocus
<1> HIDE DEF f, q
<1>3. /\ q \in BillsFullPage /\ SameBoxes(q, p) /\ SameFilters(q, p) /\ SameBillList(q, p)
      /\ q.searchTerm = p.searchTerm
  BY <1>1, <1>2 DEF BillsFullPage, SameBoxes, SameFilters, SameBillList
<1> QED BY <1>3 DEF q

-----------------------------------------------------------------------------
(* What the actions of the admin do. *)

BillsSamePast ==
    /\ past'.unsure = past.unsure /\ past'.local = past.local /\ past'.unsent = past.unsent
    /\ past'.overlap = past.overlap /\ past'.lostText = past.lostText

LEMMA BillsActIs ==
    ASSUME Bills!BillsInputs, past \in Bills!Past, Bills!Act \/ UNCHANGED past
    PROVE  past' \in Bills!Past /\ BillsSamePast
<1>1. CASE UNCHANGED past
  BY <1>1 DEF BillsSamePast
<1>2. CASE Bills!Act
  <2>1. past' = [past EXCEPT !.acts = past.acts + 1] /\ past.acts + 1 \in 0 .. MaxActs
    BY <1>2, BillsInputTypes DEF Bills!Act, Bills!Past
  <2>2. \A a \in 0 .. MaxActs : past' = [past EXCEPT !.acts = a] => past' \in Bills!Past /\ BillsSamePast
    BY DEF Bills!Past, BillsSamePast
  <2> QED BY <2>1, <2>2
<1> QED BY <1>1, <1>2

\* The same bills, boxes and filters, and the same focus.
SameScreen(p, q) == SameBoxes(p, q) /\ SameFilters(p, q) /\ p.focus = q.focus

\* The search box, the calendar, the pagination, the banner.
BillsToolbar ==
     Bills!Search \/ Bills!OpenCalendar \/ Bills!PickStart \/ Bills!PickEnd \/ Bills!CloseCalendar
     \/ Bills!ChangePage \/ Bills!DismissError

LEMMA BillsToolbarIs ==
    ASSUME Bills!BillsInputs, BillsTyped, BillsOnAPage(page), BillsToolbar
    PROVE  /\ BillsTyped' /\ BillsOnAPage(page') /\ UNCHANGED <<table, calls>>
           /\ SameScreen(page', page) /\ BillsSamePast
           /\ page.focus = Bills!NoBill \/ page'.searchTerm = page.searchTerm
<1>0. page \in BillsFullPage /\ past \in Bills!Past
  BY DEF BillsTyped
<1> DEFINE Goal == /\ page' \in BillsFullPage /\ BillsOnAPage(page') /\ SameScreen(page', page)
                   /\ page.focus = Bills!NoBill \/ page'.searchTerm = page.searchTerm
<1>1. ASSUME page' \in BillsFullPage, SameScreen(page', page), SameBillList(page', page),
             page.focus = Bills!NoBill \/ page'.searchTerm = page.searchTerm
      PROVE  Goal
  BY <1>1, SameBillListOnAPage
<1>2. ASSUME Bills!Search PROVE Goal
  <2>1. PICK term \in Ids \cup {Bills!NoBill} : page' = [page EXCEPT !.searchTerm = term]
    BY <1>2, BillsInputTypes DEF Bills!Search
  <2>2. page' \in BillsFullPage /\ SameScreen(page', page) /\ SameBillList(page', page)
    BY <1>0, <2>1 DEF BillsFullPage, SameScreen, SameBoxes, SameFilters, SameBillList
  <2>3. page.focus = Bills!NoBill
    BY <1>2 DEF Bills!Search, Bills!Uncovered
  <2> QED BY <1>1, <2>2, <2>3
<1>3. ASSUME Bills!OpenCalendar \/ Bills!PickStart \/ Bills!PickEnd \/ Bills!CloseCalendar PROVE Goal
  <2>1. PICK c \in {Bills!Hidden} \cup Bills!CalendarDraft : page' = [page EXCEPT !.calendarSheet = c]
    <3>1. CASE Bills!OpenCalendar
      <4> DEFINE c == IF page.timeRange = "custom"
                      THEN [kind |-> "drafts", start |-> page.customDateFrom, end |-> page.customDateTo]
                      ELSE [kind |-> "drafts", start |-> Bills!Today, end |-> Bills!Today]
      <4>1. c \in Bills!CalendarDraft
        BY <1>0, BillsInputTypes DEF BillsFullPage, Bills!CalendarDraft
      <4>2. page' = [page EXCEPT !.calendarSheet = c]
        BY <3>1 DEF Bills!OpenCalendar
      <4> QED BY <4>1, <4>2
    <3>2. ASSUME page.calendarSheet # Bills!Hidden, NEW d \in Days \cup {Bills!NoDay},
                 \/ page' = [page EXCEPT !.calendarSheet.start = d]
                 \/ page' = [page EXCEPT !.calendarSheet.end = d]
          PROVE  \E c \in Bills!CalendarDraft : page' = [page EXCEPT !.calendarSheet = c]
      <4> DEFINE c == page.calendarSheet
                 s == [c EXCEPT !.start = d]
                 e == [c EXCEPT !.end = d]
      <4>1. c \in Bills!CalendarDraft
        BY <1>0, <3>2 DEF BillsFullPage
      <4>2. s \in Bills!CalendarDraft /\ e \in Bills!CalendarDraft
        BY <4>1 DEF Bills!CalendarDraft
      <4>3. page' = [page EXCEPT !.calendarSheet = s] \/ page' = [page EXCEPT !.calendarSheet = e]
        BY <3>2
      <4> HIDE DEF s, e
      <4> QED BY <4>2, <4>3
    <3>3. CASE Bills!PickStart \/ Bills!PickEnd
      BY <3>2, <3>3 DEF Bills!PickStart, Bills!PickEnd, Bills!drafts
    <3>4. CASE Bills!CloseCalendar
      BY <3>4 DEF Bills!CloseCalendar
    <3> QED BY <1>3, <3>1, <3>3, <3>4
  <2>2. /\ page' \in BillsFullPage /\ SameScreen(page', page) /\ SameBillList(page', page)
        /\ page'.searchTerm = page.searchTerm
    BY <1>0, <2>1 DEF BillsFullPage, SameScreen, SameBoxes, SameFilters, SameBillList
  <2> QED BY <1>1, <2>2
<1>4. ASSUME Bills!ChangePage PROVE Goal
  <2>1. ASSUME NEW cp \in 1 .. Bills!TotalPages(Bills!Cardinality(Bills!filteredBills(page)), page.pageSize),
               page' = [page EXCEPT !.currentPage = cp]
        PROVE  Goal
    <3>1. cp \in Nat \ {0}
      BY <1>0, BillListSize
    <3>2. /\ page' \in BillsFullPage /\ SameScreen(page', page) /\ page'.currentPage = cp
          /\ page'.searchTerm = page.searchTerm
      BY <1>0, <2>1, <3>1 DEF BillsFullPage, SameScreen, SameBoxes, SameFilters
    <3>3. /\ page'.bills = page.bills /\ page'.driverFilter = page.driverFilter /\ page'.timeRange = page.timeRange
          /\ page'.customDateFrom = page.customDateFrom /\ page'.customDateTo = page.customDateTo
          /\ page'.pageSize = page.pageSize
      BY <1>0, <2>1 DEF BillsFullPage
    <3>4. Bills!filteredBills(page') = Bills!filteredBills(page)
      BY <3>3, SameFilteredBills
    <3> QED BY <3>2, <3>3, <3>4 DEF BillsOnAPage
  <2>2. ASSUME NEW n \in PageSizes, page' = Bills!Rendered([page EXCEPT !.pageSize = n], TRUE)
        PROVE  Goal
    <3> DEFINE p == [page EXCEPT !.pageSize = n]
    <3>1. p \in BillsFullPage /\ SameScreen(p, page) /\ p.searchTerm = page.searchTerm
      BY <1>0 DEF BillsFullPage, SameScreen, SameBoxes, SameFilters
    <3> HIDE DEF p
    <3>2. /\ page' \in BillsFullPage /\ BillsOnAPage(page') /\ SameScreen(page', p)
          /\ page'.searchTerm = p.searchTerm
      BY <2>2, <3>1, BillsRenderedIs DEF SameScreen, p
    <3> QED BY <3>1, <3>2 DEF SameScreen, SameBoxes, SameFilters
  <2> QED BY <1>4, <2>1, <2>2 DEF Bills!ChangePage
<1>5. ASSUME Bills!DismissError PROVE Goal
  <2>1. /\ page' \in BillsFullPage /\ SameScreen(page', page) /\ SameBillList(page', page)
        /\ page'.searchTerm = page.searchTerm
    BY <1>0, <1>5 DEF Bills!DismissError, BillsFullPage, SameScreen, SameBoxes, SameFilters, SameBillList
  <2> QED BY <1>1, <2>1
<1>6. Goal
  BY <1>2, <1>3, <1>4, <1>5 DEF BillsToolbar
<1>7. UNCHANGED <<table, calls>> /\ (Bills!Act \/ UNCHANGED past)
   BY DEF BillsToolbar, Bills!Search, Bills!OpenCalendar, Bills!PickStart, Bills!PickEnd, Bills!CloseCalendar,
          Bills!ChangePage, Bills!DismissError
<1>8. past' \in Bills!Past /\ BillsSamePast
  BY <1>0, <1>7, BillsActIs
<1> QED BY <1>6, <1>7, <1>8 DEF BillsTyped

LEMMA FetchBillsType ==
    ASSUME NEW s \in BillStatuses \cup {Bills!All}, NEW term \in Ids \cup {Bills!NoBill}
    PROVE  LET f == Bills!fetchBills(s, term) IN
           f \in BillsFetch /\ f.op = "fetch" /\ f.at = "server" /\ f.status = s /\ f.term = term
<1>1. <<>> \in BillRows
  <2>1. <<>> \in [{} -> Bills!Bill]
    OBVIOUS
  <2> QED BY <2>1 DEF BillRows
<1> QED BY <1>1 DEF Bills!fetchBills, BillsFetch

\* The filters, and "Try again": a fetch starts, unless the server's filters are the same.
BillsFilters ==
     Bills!Debounce \/ Bills!FilterByDriver \/ Bills!FilterByStatus \/ Bills!ChooseTimeRange \/ Bills!ApplyRange
     \/ Bills!ClearFilters \/ Bills!Retry

Starts(k) == k \in BillsCalls /\ k.at = "server" /\ calls' = calls \cup {k}

LEMMA RefilterIs ==
    ASSUME Bills!BillsInputs, page \in BillsFullPage, NEW p \in BillsFullPage, Bills!Refilter(p),
           SameBoxes(p, page), p.focus = page.focus
    PROVE  /\ page' \in BillsFullPage /\ BillsOnAPage(page') /\ SameBoxes(page', page)
           /\ page'.focus = page.focus /\ page'.searchTerm = p.searchTerm
           /\ \/ calls' = calls /\ SameFilters(page', page)
              \/ \E k \in BillsFetch : k.op = "fetch" /\ Starts(k) /\ ~SameFilters(p, page)
<1> DEFINE fetches == Bills!RefetchOn(p.filterStatus, p.debouncedSearch)
           e == IF fetches = {} THEN p.error ELSE FALSE
           q == [p EXCEPT !.error = e]
<1>1. e \in BOOLEAN
  BY DEF BillsFullPage
<1>2. calls' = calls \cup fetches /\ page' = Bills!Rendered(q, TRUE)
  BY DEF Bills!Refilter
<1> HIDE DEF e, fetches
<1>3. /\ q \in BillsFullPage /\ SameBoxes(q, p) /\ SameFilters(q, p) /\ q.focus = p.focus
      /\ q.searchTerm = p.searchTerm
  BY <1>1 DEF BillsFullPage, SameBoxes, SameFilters
<1> HIDE DEF q
<1>4. /\ page' \in BillsFullPage /\ BillsOnAPage(page') /\ SameBoxes(page', q) /\ SameFilters(page', q)
      /\ page'.focus = q.focus /\ page'.searchTerm = q.searchTerm
  BY <1>2, <1>3, BillsRenderedIs
<1>5. SameBoxes(page', page) /\ SameFilters(page', p) /\ page'.focus = page.focus /\ page'.searchTerm = p.searchTerm
  BY <1>3, <1>4 DEF SameBoxes, SameFilters
<1>6. CASE SameFilters(p, page)
  <2>1. fetches = {}
    BY <1>6 DEF SameFilters, fetches, Bills!RefetchOn
  <2>2. SameFilters(page', page)
    BY <1>5, <1>6 DEF SameFilters
  <2> QED BY <1>2, <1>4, <1>5, <2>1, <2>2
<1>7. CASE ~SameFilters(p, page)
  <2> DEFINE k == Bills!fetchBills(p.filterStatus, p.debouncedSearch)
  <2>1. fetches = {k}
    BY <1>7 DEF SameFilters, fetches, Bills!RefetchOn
  <2>2. k \in BillsFetch /\ k.op = "fetch" /\ k.at = "server"
    BY FetchBillsType DEF BillsFullPage
  <2> HIDE DEF k
  <2>3. Starts(k)
    BY <1>2, <2>1, <2>2 DEF Starts, BillsCalls
  <2> QED BY <1>4, <1>5, <1>7, <2>2, <2>3
<1> QED BY <1>6, <1>7

LEMMA BillsFiltersAre ==
    ASSUME Bills!BillsInputs, BillsTyped, BillsOnAPage(page), BillsFilters
    PROVE  /\ BillsTyped' /\ BillsOnAPage(page') /\ UNCHANGED table
           /\ SameBoxes(page', page) /\ BillsSamePast
           /\ \/ calls' = calls /\ SameFilters(page', page)
              \/ \E k \in BillsFetch : k.op = "fetch" /\ Starts(k)
           /\ \/ page.focus = Bills!NoBill \/ page.searchTerm # page.debouncedSearch
              \/ /\ calls' = calls /\ page'.focus = page.focus
                 /\ SameFilters(page', page) /\ page'.searchTerm = page.searchTerm
<1>0. page \in BillsFullPage /\ past \in Bills!Past /\ calls \subseteq BillsCalls
  BY DEF BillsTyped
<1> DEFINE Goal ==
        /\ page' \in BillsFullPage /\ BillsOnAPage(page') /\ SameBoxes(page', page)
        /\ \/ calls' = calls /\ SameFilters(page', page)
           \/ \E k \in BillsFetch : k.op = "fetch" /\ Starts(k)
        /\ \/ page.focus = Bills!NoBill \/ page.searchTerm # page.debouncedSearch
           \/ /\ calls' = calls /\ page'.focus = page.focus
              /\ SameFilters(page', page) /\ page'.searchTerm = page.searchTerm
<1>1. ASSUME NEW p \in BillsFullPage, Bills!Refilter(p), SameBoxes(p, page), p.focus = page.focus,
             page.focus = Bills!NoBill \/ page.searchTerm # page.debouncedSearch
      PROVE  Goal
  BY <1>0, <1>1, RefilterIs
<1>2. ASSUME Bills!Debounce PROVE Goal
  <2> DEFINE p == [page EXCEPT !.debouncedSearch = page.searchTerm]
  <2>1. p \in BillsFullPage /\ SameBoxes(p, page) /\ p.focus = page.focus
    BY <1>0 DEF BillsFullPage, SameBoxes
  <2>2. Bills!Refilter(p) /\ page.searchTerm # page.debouncedSearch
    BY <1>2 DEF Bills!Debounce
  <2> HIDE DEF p
  <2> QED BY <1>1, <2>1, <2>2
<1>3. ASSUME Bills!FilterByDriver PROVE Goal
  <2>1. PICK d \in Drivers \cup {Bills!NoDriver} : Bills!Refilter([page EXCEPT !.driverFilter = d])
    <3>1. Bills!drivers \subseteq Drivers \cup {Bills!NoDriver}
      <4>1. page.bills \in BillRows
        BY <1>0 DEF BillsFullPage
      <4>2. \A b \in DOMAIN page.bills : page.bills[b] \in Bills!Bill
        BY <4>1, BillRowType
      <4> QED BY <4>2 DEF Bills!drivers, Bills!Bill
    <3> QED BY <1>3, <3>1 DEF Bills!FilterByDriver
  <2> DEFINE p == [page EXCEPT !.driverFilter = d]
  <2>2. p \in BillsFullPage /\ SameBoxes(p, page) /\ p.focus = page.focus
    BY <1>0 DEF BillsFullPage, SameBoxes
  <2>3. page.focus = Bills!NoBill /\ Bills!Refilter(p)
    BY <1>3, <2>1 DEF Bills!FilterByDriver, Bills!Uncovered
  <2> HIDE DEF p
  <2> QED BY <1>1, <2>2, <2>3
<1>4. ASSUME Bills!FilterByStatus PROVE Goal
  <2>1. PICK s \in BillStatuses \cup {Bills!All} : Bills!Refilter([page EXCEPT !.filterStatus = s])
    BY <1>4 DEF Bills!FilterByStatus
  <2> DEFINE p == [page EXCEPT !.filterStatus = s]
  <2>2. p \in BillsFullPage /\ SameBoxes(p, page) /\ p.focus = page.focus
    BY <1>0 DEF BillsFullPage, SameBoxes
  <2>3. page.focus = Bills!NoBill /\ Bills!Refilter(p)
    BY <1>4, <2>1 DEF Bills!FilterByStatus, Bills!Uncovered
  <2> HIDE DEF p
  <2> QED BY <1>1, <2>2, <2>3
<1>5. ASSUME Bills!ChooseTimeRange PROVE Goal
  <2>1. PICK r \in Bills!TimeRanges : Bills!Refilter([page EXCEPT !.timeRange = r])
    BY <1>5 DEF Bills!ChooseTimeRange
  <2> DEFINE p == [page EXCEPT !.timeRange = r]
  <2>2. p \in BillsFullPage /\ SameBoxes(p, page) /\ p.focus = page.focus
    BY <1>0 DEF BillsFullPage, SameBoxes
  <2>3. page.focus = Bills!NoBill /\ Bills!Refilter(p)
    BY <1>5, <2>1 DEF Bills!ChooseTimeRange, Bills!Uncovered
  <2> HIDE DEF p
  <2> QED BY <1>1, <2>2, <2>3
<1>6. ASSUME Bills!ApplyRange PROVE Goal
  <2> DEFINE from == page.calendarSheet.start
             to == page.calendarSheet.end
             p == [page EXCEPT !.customDateFrom = from, !.customDateTo = to,
                               !.timeRange = "custom", !.calendarSheet = Bills!Hidden]
  <2>1. page.calendarSheet \in Bills!CalendarDraft /\ from # Bills!NoDay /\ to # Bills!NoDay
    BY <1>0, <1>6 DEF Bills!ApplyRange, Bills!drafts, BillsFullPage
  <2>2. from \in Days /\ to \in Days
    BY <2>1 DEF Bills!CalendarDraft
  <2>3. Bills!Refilter(p)
    BY <1>6 DEF Bills!ApplyRange, Bills!drafts
  <2> HIDE DEF from, to
  <2>4. /\ p \in BillsFullPage /\ SameBoxes(p, page) /\ SameFilters(p, page) /\ p.focus = page.focus
        /\ p.searchTerm = page.searchTerm
    <3>1. p \in BillsFullPage
      BY <1>0, <2>2 DEF BillsFullPage
    <3>2. SameBoxes(p, page) /\ SameFilters(p, page) /\ p.focus = page.focus /\ p.searchTerm = page.searchTerm
      BY <1>0 DEF BillsFullPage, SameBoxes, SameFilters
    <3> QED BY <3>1, <3>2
  <2> HIDE DEF p
  <2> QED BY <1>0, <2>3, <2>4, RefilterIs
<1>7. ASSUME Bills!ClearFilters PROVE Goal
  <2> DEFINE p == [page EXCEPT !.searchTerm = Bills!NoBill, !.debouncedSearch = Bills!NoBill, !.driverFilter = Bills!NoDriver,
                               !.timeRange = "all", !.customDateFrom = Bills!Today, !.customDateTo = Bills!Today,
                               !.filterStatus = Bills!All]
  <2>1. p \in BillsFullPage /\ SameBoxes(p, page) /\ p.focus = page.focus
    BY <1>0, BillsInputTypes DEF BillsFullPage, SameBoxes, Bills!TimeRanges
  <2>2. page.focus = Bills!NoBill /\ Bills!Refilter(p)
    BY <1>7 DEF Bills!ClearFilters, Bills!Uncovered
  <2> HIDE DEF p
  <2> QED BY <1>1, <2>1, <2>2
<1>8. ASSUME Bills!Retry PROVE Goal
  <2> DEFINE k == Bills!fetchBills(page.filterStatus, page.debouncedSearch)
  <2>1. page' = [page EXCEPT !.error = FALSE] /\ calls' = calls \cup {k} /\ page.focus = Bills!NoBill
    BY <1>8 DEF Bills!Retry, Bills!Uncovered
  <2>2. page' \in BillsFullPage /\ SameBoxes(page', page) /\ SameBillList(page', page)
    BY <1>0, <2>1 DEF BillsFullPage, SameBoxes, SameBillList
  <2>3. k \in BillsFetch /\ k.op = "fetch" /\ k.at = "server"
    BY <1>0, FetchBillsType DEF BillsFullPage
  <2> HIDE DEF k
  <2>4. Starts(k)
    BY <2>1, <2>3 DEF Starts, BillsCalls
  <2> QED BY <2>1, <2>2, <2>3, <2>4, SameBillListOnAPage
<1>9. Goal
  BY <1>2, <1>3, <1>4, <1>5, <1>6, <1>7, <1>8 DEF BillsFilters
<1>10. UNCHANGED table /\ (Bills!Act \/ UNCHANGED past)
   BY DEF BillsFilters, Bills!Debounce, Bills!FilterByDriver, Bills!FilterByStatus, Bills!ChooseTimeRange,
          Bills!ApplyRange, Bills!ClearFilters, Bills!Retry
<1>11. past' \in Bills!Past /\ BillsSamePast
  BY <1>0, <1>10, BillsActIs
<1>12. calls' \subseteq BillsCalls
  BY <1>0, <1>9 DEF Starts
<1> QED BY <1>0, <1>9, <1>10, <1>11, <1>12 DEF BillsTyped

\* The boxes of a bill: an update starts, or a box is set aside.
LEMMA UpdateStarts ==
    ASSUME BillsTyped, NEW op \in {"status", "preset", "text"}, NEW b \in Ids, NEW value,
           op = "status" => value \in BillStatuses, op = "preset" => value \in Bills!Presets,
           op = "text" => value \in Bills!BillReasons
    PROVE  LET k == Bills!updateRideBill(op, b, value) IN
           k \in SoundUpdate /\ k.op = op /\ k.op # "fetch" /\ k.at = "server" /\ ~k.ok
<1> DEFINE k == Bills!updateRideBill(op, b, value)
<1>1. page.filterStatus \in BillStatuses \cup {Bills!All} /\ page.debouncedSearch \in Ids \cup {Bills!NoBill}
  BY DEF BillsTyped, BillsFullPage
<1>2. value \in BillStatuses \cup Bills!BillReasons
  BY DEF Bills!BillReasons
<1>3. k \in Bills!Update
  BY <1>1, <1>2 DEF Bills!updateRideBill, Bills!Update
<1>4. UpdateIsSound(k)
  BY DEF Bills!updateRideBill, UpdateIsSound
<1>5. k.op = op /\ k.op # "fetch" /\ k.at = "server" /\ ~k.ok
  BY DEF Bills!updateRideBill
<1> QED BY <1>3, <1>4, <1>5 DEF SoundUpdate

LEMMA ListedBills ==
    ASSUME page \in BillsFullPage, NEW b \in Bills!paginatedBills(page)
    PROVE  b \in Ids /\ b \in DOMAIN page.bills
<1>1. page.bills \in BillRows
  BY DEF BillsFullPage
<1> QED BY <1>1, BillRowType DEF Bills!paginatedBills, Bills!filteredBills

LEMMA BillBoxesAre ==
    ASSUME Bills!BillsInputs, BillsTyped, BillsOnAPage(page), NEW b \in Ids,
           Bills!handleStatusUpdate(b) \/ Bills!handleReasonChange(b) \/ Bills!FocusReason(b)
    PROVE  /\ BillsTyped' /\ BillsOnAPage(page') /\ UNCHANGED table /\ page.focus = Bills!NoBill
           /\ page'.bills = page.bills /\ SameFilters(page', page)
           /\ page'.reasonInputs = page.reasonInputs
           /\ calls' = calls \/ \E k \in SoundUpdate : Starts(k)
           /\ past'.unsure = past.unsure /\ past'.unsent = past.unsent /\ past'.overlap = past.overlap
           /\ past'.lostText = past.lostText /\ past.local \subseteq past'.local
           /\ \A q \in Ids \ past'.local : page'.reasonSelections[q] = page.reasonSelections[q]
<1>0. page \in BillsFullPage /\ past \in Bills!Past /\ calls \subseteq BillsCalls
  BY DEF BillsTyped
<1> DEFINE Goal ==
        /\ page' \in BillsFullPage /\ BillsOnAPage(page') /\ past' \in Bills!Past
        /\ UNCHANGED table /\ page.focus = Bills!NoBill
        /\ page'.bills = page.bills /\ SameFilters(page', page) /\ page'.reasonInputs = page.reasonInputs
        /\ calls' = calls \/ \E k \in SoundUpdate : Starts(k)
        /\ past'.unsure = past.unsure /\ past'.unsent = past.unsent /\ past'.overlap = past.overlap
        /\ past'.lostText = past.lostText /\ past.local \subseteq past'.local
        /\ \A q \in Ids \ past'.local : page'.reasonSelections[q] = page.reasonSelections[q]
<1>1. ASSUME UNCHANGED <<table, page>>, page.focus = Bills!NoBill, past' \in Bills!Past, BillsSamePast,
             NEW k \in SoundUpdate, k.at = "server", calls' = calls \cup {k}
      PROVE  Goal
  <2>1. Starts(k)
    BY <1>1 DEF Starts, BillsCalls
  <2>2. SameFilters(page', page) /\ BillsOnAPage(page') /\ page' \in BillsFullPage
    BY <1>0, <1>1 DEF SameFilters
  <2> QED BY <1>1, <2>1, <2>2 DEF BillsSamePast
<1>2. ASSUME Bills!handleStatusUpdate(b) PROVE Goal
  <2>1. PICK s \in BillStatuses : calls' = calls \cup {Bills!updateRideBill("status", b, s)}
    BY <1>2 DEF Bills!handleStatusUpdate
  <2> DEFINE k == Bills!updateRideBill("status", b, s)
  <2>2. k \in SoundUpdate /\ k.at = "server"
    BY UpdateStarts
  <2>3. UNCHANGED <<table, page>> /\ page.focus = Bills!NoBill /\ past' \in Bills!Past /\ BillsSamePast
    BY <1>0, <1>2, BillsActIs DEF Bills!handleStatusUpdate, Bills!Uncovered
  <2> HIDE DEF k
  <2> QED BY <1>1, <2>1, <2>2, <2>3 DEF k
<1>3. ASSUME Bills!handleReasonChange(b) PROVE Goal
  <2>1. PICK r \in Bills!Presets \cup {Bills!NoReason, Bills!Custom} :
            IF r \in Bills!Presets
            THEN /\ calls' = calls \cup {Bills!updateRideBill("preset", b, r)}
                 /\ past' = [past EXCEPT !.acts = @ + 1] /\ UNCHANGED page
            ELSE /\ page' = [page EXCEPT !.reasonSelections[b] = r]
                 /\ past' = [past EXCEPT !.acts = @ + 1, !.local = @ \cup {b}] /\ UNCHANGED calls
    BY <1>3 DEF Bills!handleReasonChange
  <2>2. UNCHANGED table /\ page.focus = Bills!NoBill /\ past.acts < MaxActs
    BY <1>3 DEF Bills!handleReasonChange, Bills!Uncovered
  <2>3. CASE r \in Bills!Presets
    <3> DEFINE k == Bills!updateRideBill("preset", b, r)
    <3>1. k \in SoundUpdate /\ k.at = "server"
      BY <2>3, UpdateStarts
    <3>2. past' \in Bills!Past /\ BillsSamePast
      BY <1>0, <2>1, <2>2, <2>3, BillsActIs DEF Bills!Act
    <3>3. calls' = calls \cup {k} /\ UNCHANGED page
      BY <2>1, <2>3
    <3> HIDE DEF k
    <3> QED BY <1>1, <2>2, <3>1, <3>2, <3>3
  <2>4. CASE r \notin Bills!Presets
    <3> DEFINE sel == [page.reasonSelections EXCEPT ![b] = r]
               loc == past.local \cup {b}
    <3>1. page' = [page EXCEPT !.reasonSelections = sel] /\ sel \in [Ids -> Bills!Presets \cup {Bills!NoReason, Bills!Custom}]
          /\ \A q \in Ids \ {b} : sel[q] = page.reasonSelections[q]
      BY <1>0, <2>1, <2>4 DEF BillsFullPage
    <3>2. past.acts + 1 \in 0 .. MaxActs /\ loc \in SUBSET Ids /\ past.local \subseteq loc /\ b \in loc
          /\ past' = [past EXCEPT !.acts = past.acts + 1, !.local = loc]
      BY <1>0, <2>1, <2>2, <2>4, BillsInputTypes DEF Bills!Past
    <3> HIDE DEF sel, loc
    <3>3. /\ page' \in BillsFullPage /\ page'.bills = page.bills /\ SameFilters(page', page)
          /\ page'.reasonInputs = page.reasonInputs /\ page'.reasonSelections = sel
          /\ SameBillList(page', page)
      BY <1>0, <3>1 DEF BillsFullPage, SameFilters, SameBillList
    <3>4. \A a \in 0 .. MaxActs : past' = [past EXCEPT !.acts = a, !.local = loc] =>
              /\ past' \in Bills!Past /\ past'.local = loc
              /\ past'.unsure = past.unsure /\ past'.unsent = past.unsent /\ past'.overlap = past.overlap
              /\ past'.lostText = past.lostText
      BY <1>0, <3>2 DEF Bills!Past
    <3>5. /\ past' \in Bills!Past /\ past'.local = loc
          /\ past'.unsure = past.unsure /\ past'.unsent = past.unsent /\ past'.overlap = past.overlap
          /\ past'.lostText = past.lostText
      BY <3>2, <3>4
    <3>6. BillsOnAPage(page')
      BY <3>3, SameBillListOnAPage
    <3>7. calls' = calls
      BY <2>1, <2>4
    <3> QED BY <2>2, <3>1, <3>2, <3>3, <3>5, <3>6, <3>7
  <2> QED BY <2>3, <2>4
<1>4. ASSUME Bills!FocusReason(b) PROVE Goal
  <2>1. page' = [page EXCEPT !.focus = b] /\ UNCHANGED <<table, calls>> /\ page.focus = Bills!NoBill
    BY <1>4 DEF Bills!FocusReason, Bills!Uncovered
  <2>2. /\ page' \in BillsFullPage /\ page'.bills = page.bills /\ SameFilters(page', page)
        /\ page'.reasonInputs = page.reasonInputs /\ page'.reasonSelections = page.reasonSelections
        /\ SameBillList(page', page)
    BY <1>0, <2>1 DEF BillsFullPage, SameFilters, SameBillList
  <2>3. past' \in Bills!Past /\ BillsSamePast
    BY <1>0, <1>4, BillsActIs DEF Bills!FocusReason
  <2>4. BillsOnAPage(page')
    BY <2>2, SameBillListOnAPage
  <2> QED BY <2>1, <2>2, <2>3, <2>4 DEF BillsSamePast
<1>5. Goal
  BY <1>2, <1>3, <1>4
<1>6. calls' \subseteq BillsCalls
  BY <1>0, <1>5 DEF Starts
<1> HIDE DEF Goal
<1>7. BillsTyped'
  BY <1>0, <1>5, <1>6 DEF BillsTyped, Goal
<1> QED BY <1>5, <1>7 DEF Goal

LEMMA TypeReasonIs ==
    ASSUME Bills!BillsInputs, BillsTyped, BillsOnAPage(page), Bills!TypeReason
    PROVE  /\ BillsTyped' /\ BillsOnAPage(page') /\ UNCHANGED <<table, calls>>
           /\ page.focus \in Ids /\ page'.focus = page.focus /\ page'.searchTerm = page.searchTerm
           /\ page'.bills = page.bills /\ SameFilters(page', page)
           /\ page'.reasonSelections = page.reasonSelections
           /\ \A q \in Ids \ {page.focus} : page'.reasonInputs[q] = page.reasonInputs[q]
           /\ past'.unsent # Bills!NoBill => past'.unsent = page.focus /\ page'.reasonInputs[page.focus] # Bills!NoReason
           /\ past'.local = past.local \cup {page.focus}
           /\ past'.overlap = (calls # {} \/ page.searchTerm # page.debouncedSearch)
           /\ past'.unsure = past.unsure /\ ~past'.lostText
<1>0. page \in BillsFullPage /\ past \in Bills!Past
  BY DEF BillsTyped
<1>1. page.focus \in Ids
  BY <1>0 DEF Bills!TypeReason, BillsFullPage
<1>2. PICK text \in Customs \cup {Bills!NoReason} :
          /\ page' = [page EXCEPT !.reasonInputs[page.focus] = text]
          /\ past' = [past EXCEPT !.local = @ \cup {page.focus}, !.unsent = IF text = Bills!NoReason THEN Bills!NoBill ELSE page.focus,
                                  !.overlap = calls # {} \/ page.searchTerm # page.debouncedSearch, !.lostText = FALSE]
  BY DEF Bills!TypeReason
<1> DEFINE inputs == [page.reasonInputs EXCEPT ![page.focus] = text]
           loc == past.local \cup {page.focus}
           u == IF text = Bills!NoReason THEN Bills!NoBill ELSE page.focus
           o == calls # {} \/ page.searchTerm # page.debouncedSearch
<1>3. /\ page' = [page EXCEPT !.reasonInputs = inputs] /\ inputs \in [Ids -> Bills!BillReasons]
      /\ inputs[page.focus] = text /\ \A q \in Ids \ {page.focus} : inputs[q] = page.reasonInputs[q]
  BY <1>0, <1>1, <1>2 DEF BillsFullPage, Bills!BillReasons
<1>4. /\ past' = [past EXCEPT !.local = loc, !.unsent = u, !.overlap = o, !.lostText = FALSE]
      /\ loc \in SUBSET Ids /\ u \in Ids \cup {Bills!NoBill} /\ o \in BOOLEAN
  BY <1>0, <1>1, <1>2 DEF Bills!Past
<1>5. u # Bills!NoBill => u = page.focus /\ text # Bills!NoReason
  OBVIOUS
<1> HIDE DEF inputs, loc, u, o
<1>6. /\ page' \in BillsFullPage /\ page'.reasonInputs = inputs /\ page'.focus = page.focus
      /\ page'.searchTerm = page.searchTerm /\ page'.bills = page.bills /\ SameFilters(page', page)
      /\ page'.reasonSelections = page.reasonSelections /\ SameBillList(page', page)
  BY <1>0, <1>3 DEF BillsFullPage, SameFilters, SameBillList
<1>7. /\ past' \in Bills!Past /\ past'.local = loc /\ past'.unsent = u /\ past'.overlap = o
      /\ past'.unsure = past.unsure /\ ~past'.lostText
  BY <1>0, <1>4 DEF Bills!Past
<1>8. UNCHANGED <<table, calls>> /\ BillsOnAPage(page')
  BY <1>6, SameBillListOnAPage DEF Bills!TypeReason
<1>9. BillsTyped'
  BY <1>6, <1>7, <1>8 DEF BillsTyped
<1> QED BY <1>1, <1>3, <1>5, <1>6, <1>7, <1>8, <1>9 DEF loc, o

\* Leaving the box and Enter send what is typed, if anything is.
LEMMA SendsAre ==
    ASSUME Bills!BillsInputs, BillsTyped, BillsOnAPage(page), Bills!BlurReason \/ Bills!EnterReason
    PROVE  /\ BillsTyped' /\ BillsOnAPage(page') /\ UNCHANGED table
           /\ SameBoxes(page', page) /\ SameFilters(page', page)
           /\ past'.unsure = past.unsure /\ past'.local = past.local /\ past'.overlap = past.overlap
           /\ past'.lostText = past.lostText
           /\ \/ (\E k \in SoundUpdate : Starts(k)) /\ past'.unsent = Bills!NoBill
              \/ calls' = calls /\ past'.unsent = past.unsent /\ page.reasonInputs[page.focus] = Bills!NoReason
<1>0. page \in BillsFullPage /\ past \in Bills!Past /\ calls \subseteq BillsCalls /\ page.focus \in Ids
  BY DEF BillsTyped, Bills!BlurReason, Bills!EnterReason, BillsFullPage
<1>1. /\ page' \in BillsFullPage /\ BillsOnAPage(page') /\ SameBoxes(page', page) /\ SameFilters(page', page)
      /\ UNCHANGED table
  <2>1. CASE Bills!BlurReason
    <3>1. page' = [page EXCEPT !.focus = Bills!NoBill] /\ UNCHANGED table
      BY <2>1 DEF Bills!BlurReason
    <3>2. page' \in BillsFullPage /\ SameBoxes(page', page) /\ SameFilters(page', page) /\ SameBillList(page', page)
      BY <1>0, <3>1 DEF BillsFullPage, SameBoxes, SameFilters, SameBillList
    <3> QED BY <3>1, <3>2, SameBillListOnAPage
  <2>2. CASE Bills!EnterReason
    BY <1>0, <2>2 DEF Bills!EnterReason, SameBoxes, SameFilters
  <2> QED BY <2>1, <2>2
<1>2. PICK n \in {0, 1} : Bills!SendReason(n) /\ (n = 1 => past.acts < MaxActs)
  BY DEF Bills!BlurReason, Bills!EnterReason
<1>3. CASE page.reasonInputs[page.focus] = Bills!NoReason
  <2>1. UNCHANGED <<calls, past>>
    BY <1>2, <1>3 DEF Bills!SendReason
  <2>2. BillsTyped'
    BY <1>0, <1>1, <2>1 DEF BillsTyped
  <2> QED BY <1>1, <1>3, <2>1, <2>2
<1>4. CASE page.reasonInputs[page.focus] # Bills!NoReason
  <2> DEFINE text == page.reasonInputs[page.focus]
             k == Bills!updateRideBill("text", page.focus, text)
  <2>1. calls' = calls \cup {k} /\ past' = [past EXCEPT !.acts = past.acts + n, !.unsent = Bills!NoBill]
    BY <1>2, <1>4 DEF Bills!SendReason
  <2>2. past.acts + n \in 0 .. MaxActs
    BY <1>0, <1>2, BillsInputTypes DEF Bills!Past
  <2>3. \A a \in 0 .. MaxActs : past' = [past EXCEPT !.acts = a, !.unsent = Bills!NoBill] =>
            /\ past' \in Bills!Past /\ past'.unsent = Bills!NoBill
            /\ past'.unsure = past.unsure /\ past'.local = past.local /\ past'.overlap = past.overlap
            /\ past'.lostText = past.lostText
    BY <1>0 DEF Bills!Past
  <2>4. /\ past' \in Bills!Past /\ past'.unsent = Bills!NoBill
        /\ past'.unsure = past.unsure /\ past'.local = past.local /\ past'.overlap = past.overlap
        /\ past'.lostText = past.lostText
    BY <2>1, <2>2, <2>3
  <2>5. text \in Bills!BillReasons
    BY <1>0 DEF BillsFullPage
  <2>6. k \in SoundUpdate /\ k.at = "server"
    BY <1>0, <2>5, UpdateStarts
  <2> HIDE DEF k
  <2>7. Starts(k)
    BY <2>1, <2>6 DEF Starts, BillsCalls
  <2>8. BillsTyped'
    BY <1>0, <1>1, <2>4, <2>7 DEF BillsTyped, Starts
  <2> QED BY <1>1, <2>4, <2>6, <2>7, <2>8
<1> QED BY <1>3, <1>4

-----------------------------------------------------------------------------
(* What the server does to a request, and what its answer does. *)

BillsAgedOne(k) == IF k.op = "fetch" /\ k.at = "back" THEN [k EXCEPT !.old = TRUE] ELSE k

LEMMA BillsAgedIs ==
    ASSUME NEW cs \in SUBSET BillsCalls
    PROVE  /\ Bills!Aged(cs) \subseteq BillsCalls
           /\ \A c \in Bills!Aged(cs) : c.op = "fetch" /\ c.at = "back" => c.old
           /\ cs = {} => Bills!Aged(cs) = {}
<1>1. ASSUME NEW k \in BillsCalls
      PROVE  /\ BillsAgedOne(k) \in BillsCalls
             /\ BillsAgedOne(k).op = "fetch" /\ BillsAgedOne(k).at = "back" => BillsAgedOne(k).old
  <2>1. CASE k.op = "fetch" /\ k.at = "back"
    <3>1. k \in BillsFetch
      BY <2>1, BillCallKinds
    <3>2. BillsAgedOne(k) = [k EXCEPT !.old = TRUE]
      BY <2>1 DEF BillsAgedOne
    <3>3. BillsAgedOne(k) \in BillsFetch /\ BillsAgedOne(k).old
      BY <3>1, <3>2 DEF BillsFetch
    <3> QED BY <3>3 DEF BillsCalls
  <2>2. CASE ~(k.op = "fetch" /\ k.at = "back")
    <3>1. BillsAgedOne(k) = k
      BY <2>2 DEF BillsAgedOne
    <3> QED BY <2>2, <3>1
  <2> QED BY <2>1, <2>2
<1>2. \A c \in Bills!Aged(cs) : \E k \in cs : c = BillsAgedOne(k)
  BY DEF Bills!Aged, BillsAgedOne
<1>3. cs = {} => Bills!Aged(cs) = {}
  BY <1>2
<1> QED BY <1>1, <1>2, <1>3

LEMMA UpdateMoves ==
    ASSUME NEW k \in SoundUpdate, NEW at \in {"checked", "back"}, NEW ok \in BOOLEAN
    PROVE  LET i == [k EXCEPT !.at = at]
               j == [k EXCEPT !.at = at, !.ok = ok]
           IN  /\ i \in SoundUpdate /\ i.op = k.op /\ i.at = at /\ i.ok = k.ok
               /\ j \in SoundUpdate /\ j.op = k.op /\ j.at = at /\ j.ok = ok
  BY DEF SoundUpdate, Bills!Update, UpdateIsSound

Becomes(k, j) == j \in BillsCalls /\ j.op = k.op /\ calls' = (calls \ {k}) \cup {j}

LEMMA GetRideBillsIs ==
    ASSUME BillsTyped, NEW k \in calls, Bills!GetRideBills(k)
    PROVE  /\ BillsTyped' /\ UNCHANGED <<table, page, past>> /\ k.op = "fetch"
           /\ \E j \in BillsFetch : Becomes(k, j) /\ j.rows = Bills!Matching(table, j.status, j.term)
<1>0. k \in BillsFetch /\ k.op = "fetch" /\ table \in BillRows /\ calls \subseteq BillsCalls
  BY BillCallKinds DEF BillsTyped, Bills!GetRideBills
<1> DEFINE rows == Bills!Matching(table, k.status, k.term)
           j == [k EXCEPT !.at = "back", !.ok = TRUE, !.rows = rows]
<1>1. rows \in BillRows
  <2> DEFINE D == {b \in DOMAIN table : k.status \in {Bills!All, table[b].status} /\ k.term \in {Bills!NoBill, b}}
  <2>1. D \in SUBSET Ids /\ \A b \in D : table[b] \in Bills!Bill
    BY <1>0, BillRowType
  <2>2. rows = [b \in D |-> table[b]]
    BY DEF Bills!Matching
  <2> HIDE DEF D, rows
  <2>3. rows \in [D -> Bills!Bill]
    BY <2>1, <2>2
  <2> QED BY <2>1, <2>3 DEF BillRows
<1>2. calls' = (calls \ {k}) \cup {j} /\ UNCHANGED <<table, page, past>>
  BY DEF Bills!GetRideBills, Bills!Moves
<1> DEFINE r == rows
<1>3. r = Bills!Matching(table, k.status, k.term) /\ j = [k EXCEPT !.at = "back", !.ok = TRUE, !.rows = r]
  OBVIOUS
<1> HIDE DEF rows, r, j
<1>4. j \in BillsFetch /\ j.op = "fetch" /\ j.status = k.status /\ j.term = k.term /\ j.rows = r
  <2>1. r \in BillRows
    BY <1>1 DEF r
  <2> QED BY <1>0, <1>3, <2>1 DEF BillsFetch
<1>5. Becomes(k, j) /\ j.rows = Bills!Matching(table, j.status, j.term)
  BY <1>0, <1>2, <1>3, <1>4 DEF Becomes, BillsCalls
<1>6. BillsTyped'
  BY <1>0, <1>2, <1>5 DEF BillsTyped, Becomes
<1> QED BY <1>0, <1>2, <1>4, <1>5, <1>6

\* What is refused comes back as it left, without success.
LEMMA CheckBillIs ==
    ASSUME BillsTyped, NEW k \in calls, Bills!CheckBill(k)
    PROVE  /\ BillsTyped' /\ UNCHANGED <<table, page, past>> /\ k.op # "fetch" /\ k.at = "server"
           /\ \E j \in SoundUpdate : Becomes(k, j)
<1>0. k \in SoundUpdate /\ k.op # "fetch" /\ k.at = "server" /\ calls \subseteq BillsCalls
  BY BillCallKinds DEF BillsTyped, Bills!CheckBill
<1> DEFINE back == [k EXCEPT !.at = "back"]
           checked == [k EXCEPT !.at = "checked"]
<1>1. back \in SoundUpdate /\ checked \in SoundUpdate /\ back.op = k.op /\ checked.op = k.op
  BY <1>0, UpdateMoves
<1>2. /\ calls' = (calls \ {k}) \cup {back} \/ calls' = (calls \ {k}) \cup {checked}
      /\ UNCHANGED <<table, page, past>>
  BY DEF Bills!CheckBill, Bills!Refuse, Bills!Moves
<1> HIDE DEF back, checked
<1>3. \E j \in SoundUpdate : Becomes(k, j)
  BY <1>1, <1>2 DEF Becomes, BillsCalls
<1>4. BillsTyped'
  BY <1>0, <1>2, <1>3 DEF BillsTyped, Becomes
<1> QED BY <1>0, <1>2, <1>3, <1>4

LEMMA UpdateRideBillIs ==
    ASSUME BillsTyped, NEW k \in calls, Bills!UpdateRideBill(k)
    PROVE  /\ BillsTyped' /\ UNCHANGED <<page, past>> /\ k.op # "fetch" /\ k.at = "checked"
           /\ \E j \in SoundUpdate :
                  /\ j.op = k.op
                  /\ \/ Becomes(k, j) /\ UNCHANGED table
                     \/ calls' = Bills!Aged(calls \ {k}) \cup {j} /\ j.at = "back" /\ j.ok
<1>0. k \in SoundUpdate /\ k.op # "fetch" /\ k.at = "checked" /\ calls \subseteq BillsCalls /\ table \in BillRows
  BY BillCallKinds DEF BillsTyped, Bills!UpdateRideBill
<1> DEFINE i == [k EXCEPT !.at = "back"]
           j == [k EXCEPT !.at = "back", !.ok = TRUE]
<1>1. i \in SoundUpdate /\ i.op = k.op /\ j \in SoundUpdate /\ j.op = k.op /\ j.at = "back" /\ j.ok
  BY <1>0, UpdateMoves
<1>2. UNCHANGED <<page, past>>
  BY DEF Bills!UpdateRideBill, Bills!Refuse
<1>3. CASE k.id \notin DOMAIN table
  <2>1. calls' = (calls \ {k}) \cup {i} /\ UNCHANGED table
    BY <1>3 DEF Bills!UpdateRideBill, Bills!Refuse, Bills!Moves
  <2> HIDE DEF i, j
  <2>2. Becomes(k, i)
    BY <1>1, <2>1 DEF Becomes, BillsCalls
  <2>3. BillsTyped'
    BY <1>0, <1>2, <2>1, <2>2 DEF BillsTyped, Becomes
  <2> QED BY <1>0, <1>1, <1>2, <2>1, <2>2, <2>3
<1>4. CASE k.id \in DOMAIN table
  <2>1. /\ calls' = Bills!Aged(calls \ {k}) \cup {j}
        /\ table' = IF k.op = "status" THEN [table EXCEPT ![k.id].status = k.value]
                    ELSE [table EXCEPT ![k.id].reason = k.value]
    BY <1>4 DEF Bills!UpdateRideBill
  <2>2. table' \in BillRows
    <3>1. DOMAIN table \in SUBSET Ids /\ \A b \in DOMAIN table : table[b] \in Bills!Bill
      BY <1>0, BillRowType
    <3> DEFINE new == IF k.op = "status" THEN [table[k.id] EXCEPT !.status = k.value]
                      ELSE [table[k.id] EXCEPT !.reason = k.value]
    <3>2. new \in Bills!Bill
      <4>1. table[k.id] \in Bills!Bill
        BY <1>4, <3>1
      <4>2. CASE k.op = "status"
        <5>1. k.value \in BillStatuses
          BY <1>0, <4>2 DEF SoundUpdate, UpdateIsSound
        <5> QED BY <4>1, <4>2, <5>1 DEF Bills!Bill
      <4>3. CASE k.op # "status"
        <5>1. k.value \in Bills!BillReasons
          BY <1>0, <4>3 DEF SoundUpdate, UpdateIsSound, Bills!Update, Bills!BillReasons
        <5> QED BY <4>1, <4>3, <5>1 DEF Bills!Bill
      <4> QED BY <4>2, <4>3
    <3>3. table' = [table EXCEPT ![k.id] = new]
      BY <2>1
    <3> HIDE DEF new
    <3>4. table' \in [DOMAIN table -> Bills!Bill]
      BY <1>0, <3>1, <3>2, <3>3 DEF BillRows
    <3> QED BY <3>1, <3>4 DEF BillRows
  <2> HIDE DEF i, j
  <2>3. Bills!Aged(calls \ {k}) \subseteq BillsCalls
    BY <1>0, BillsAgedIs
  <2>4. BillsTyped'
    BY <1>0, <1>1, <1>2, <2>1, <2>2, <2>3 DEF BillsTyped, BillsCalls
  <2> QED BY <1>0, <1>1, <1>2, <2>1, <2>4
<1> QED BY <1>3, <1>4

LEMMA BillsFailIs ==
    ASSUME BillsTyped, NEW k \in calls, Bills!RequestFails(k)
    PROVE  /\ BillsTyped' /\ UNCHANGED <<table, page>>
           /\ \E j \in BillsCalls : Becomes(k, j) /\ ~j.ok
           /\ past'.unsure = (past.unsure \/ (k.op # "fetch" /\ k.at = "back"))
           /\ past'.local = past.local /\ past'.unsent = past.unsent /\ past'.overlap = past.overlap
           /\ past'.lostText = past.lostText
<1>0. k \in BillsCalls /\ past \in Bills!Past /\ calls \subseteq BillsCalls
  BY DEF BillsTyped
<1> DEFINE j == [k EXCEPT !.at = "back", !.ok = FALSE]
           b == past.unsure \/ (k.op # "fetch" /\ k.at = "back")
<1>1. j \in BillsCalls /\ j.op = k.op /\ ~j.ok
  <2>1. CASE k \in BillsFetch
    <3>1. j \in BillsFetch /\ j.op = k.op /\ ~j.ok
      BY <2>1 DEF BillsFetch
    <3> QED BY <3>1 DEF BillsCalls
  <2>2. CASE k \in SoundUpdate
    BY <2>2, UpdateMoves DEF BillsCalls
  <2> QED BY <1>0, <2>1, <2>2 DEF BillsCalls
<1>2. calls' = (calls \ {k}) \cup {j} /\ UNCHANGED <<table, page>>
  BY DEF Bills!RequestFails, Bills!Moves
<1>3. past' = [past EXCEPT !.unsure = b] /\ b \in BOOLEAN
  BY <1>0 DEF Bills!RequestFails, Bills!Past
<1> HIDE DEF j, b
<1>4. /\ past' \in Bills!Past /\ past'.unsure = b
      /\ past'.local = past.local /\ past'.unsent = past.unsent /\ past'.overlap = past.overlap
      /\ past'.lostText = past.lostText
  BY <1>0, <1>3 DEF Bills!Past
<1>5. Becomes(k, j)
  BY <1>1, <1>2 DEF Becomes
<1>6. BillsTyped'
  BY <1>0, <1>2, <1>4, <1>5 DEF BillsTyped, Becomes
<1> QED BY <1>1, <1>2, <1>4, <1>5, <1>6 DEF b

LEMMA BillsOthersAre ==
    ASSUME Bills!BillsInputs, BillsTyped, Bills!OthersWrite
    PROVE  /\ BillsTyped' /\ UNCHANGED page /\ calls' = Bills!Aged(calls) /\ past'.unsure
           /\ past'.local = past.local /\ past'.unsent = past.unsent /\ past'.overlap = past.overlap
           /\ past'.lostText = past.lostText
<1>0. table \in BillRows /\ calls \subseteq BillsCalls /\ past \in Bills!Past
  BY DEF BillsTyped
<1>1. /\ past' = [past EXCEPT !.acts = past.acts + 1, !.unsure = TRUE]
      /\ past.acts + 1 \in 0 .. MaxActs /\ UNCHANGED page /\ calls' = Bills!Aged(calls)
  <2>1. past.acts \in 0 .. MaxActs /\ MaxActs \in Nat
    BY <1>0, BillsInputTypes DEF Bills!Past
  <2>2. /\ past.acts < MaxActs /\ past' = [past EXCEPT !.acts = past.acts + 1, !.unsure = TRUE]
        /\ UNCHANGED page /\ calls' = Bills!Aged(calls)
    BY DEF Bills!OthersWrite
  <2> QED BY <2>1, <2>2
<1>2. \A a \in 0 .. MaxActs : past' = [past EXCEPT !.acts = a, !.unsure = TRUE] =>
          /\ past' \in Bills!Past /\ past'.unsure
          /\ past'.local = past.local /\ past'.unsent = past.unsent /\ past'.overlap = past.overlap
          /\ past'.lostText = past.lostText
  BY <1>0 DEF Bills!Past
<1>3. /\ past' \in Bills!Past /\ past'.unsure
      /\ past'.local = past.local /\ past'.unsent = past.unsent /\ past'.overlap = past.overlap
      /\ past'.lostText = past.lostText
  BY <1>1, <1>2
<1>4. DOMAIN table \in SUBSET Ids /\ table \in [DOMAIN table -> Bills!Bill] /\ \A b \in DOMAIN table : table[b] \in Bills!Bill
  BY <1>0, BillRowType DEF BillRows
<1>5. table' \in BillRows
  <2>1. ASSUME NEW b \in Ids,
               table' = [q \in DOMAIN table \cup {b} |-> IF q \in DOMAIN table THEN table[q]
                         ELSE [status |-> "requested", driver |-> Bills!NoDriver, reason |-> Bills!NoReason, day |-> Bills!Today]]
        PROVE  table' \in BillRows
    <3> DEFINE new == [status |-> "requested", driver |-> Bills!NoDriver, reason |-> Bills!NoReason, day |-> Bills!Today]
    <3>1. new \in Bills!Bill
      BY BillsInputTypes DEF Bills!Bill, Bills!BillReasons
    <3>2. table' = [q \in DOMAIN table \cup {b} |-> IF q \in DOMAIN table THEN table[q] ELSE new]
      BY <2>1
    <3> HIDE DEF new
    <3>3. table' \in [DOMAIN table \cup {b} -> Bills!Bill]
      BY <1>4, <3>1, <3>2
    <3> QED BY <1>4, <3>3 DEF BillRows
  <2>2. ASSUME NEW b \in DOMAIN table, NEW new \in Bills!Bill, table' = [table EXCEPT ![b] = new]
        PROVE  table' \in BillRows
    <3>1. table' \in [DOMAIN table -> Bills!Bill]
      BY <1>4, <2>2
    <3> QED BY <1>4, <3>1 DEF BillRows
  <2>3. ASSUME NEW b \in DOMAIN table, NEW s \in BillStatuses, NEW d \in Drivers,
               table' = [table EXCEPT ![b].status = s, ![b].driver = d]
        PROVE  table' \in BillRows
    <3> DEFINE new == [table[b] EXCEPT !.status = s, !.driver = d]
    <3>1. new \in Bills!Bill
      BY <1>4 DEF Bills!Bill
    <3>2. table' = [table EXCEPT ![b] = new]
      BY <1>4, <2>3 DEF Bills!Bill
    <3> HIDE DEF new
    <3> QED BY <2>2, <3>1, <3>2
  <2>4. ASSUME NEW b \in DOMAIN table, NEW text \in Customs, table' = [table EXCEPT ![b].reason = text]
        PROVE  table' \in BillRows
    <3> DEFINE new == [table[b] EXCEPT !.reason = text]
    <3>1. new \in Bills!Bill
      BY <1>4 DEF Bills!Bill, Bills!BillReasons
    <3>2. table' = [table EXCEPT ![b] = new]
      BY <2>4
    <3> HIDE DEF new
    <3> QED BY <2>2, <3>1, <3>2
  <2>5. ASSUME NEW b \in DOMAIN table, table' = [q \in DOMAIN table \ {b} |-> table[q]]
        PROVE  table' \in BillRows
    <3>1. table' \in [DOMAIN table \ {b} -> Bills!Bill] /\ DOMAIN table \ {b} \in SUBSET Ids
      BY <1>4, <2>5
    <3> QED BY <3>1 DEF BillRows
  <2> QED BY <2>1, <2>3, <2>4, <2>5 DEF Bills!OthersWrite
<1>6. Bills!Aged(calls) \subseteq BillsCalls
  BY <1>0, BillsAgedIs
<1>7. BillsTyped'
  BY <1>1, <1>3, <1>5, <1>6 DEF BillsTyped
<1> QED BY <1>1, <1>3, <1>7

\* A reason box shows what is listed as its bill's reason.
Shows(p, b) ==
    /\ p.reasonSelections[b] = Bills!Selection(p.bills[b].reason)
    /\ p.reasonInputs[b] = Bills!Input(p.bills[b].reason)

LEMMA WithReasonsIs ==
    ASSUME Bills!BillsInputs, NEW p \in BillsFullPage
    PROVE  LET q == Bills!ReasonsOf(p) IN
           /\ q \in BillsFullPage /\ q.bills = p.bills /\ SameFilters(q, p)
           /\ q.searchTerm = p.searchTerm /\ \A b \in DOMAIN p.bills : Shows(q, b)
<1> DEFINE sel == [b \in Ids |-> IF b \in DOMAIN p.bills THEN Bills!Selection(p.bills[b].reason) ELSE Bills!NoReason]
           inp == [b \in Ids |-> IF b \in DOMAIN p.bills THEN Bills!Input(p.bills[b].reason) ELSE Bills!NoReason]
           q == Bills!ReasonsOf(p)
<1>1. DOMAIN p.bills \subseteq Ids /\ \A b \in DOMAIN p.bills : p.bills[b] \in Bills!Bill
  <2>1. p.bills \in BillRows
    BY DEF BillsFullPage
  <2> QED BY <2>1, BillRowType
<1>2. \A r \in Bills!BillReasons : Bills!Selection(r) \in Bills!Presets \cup {Bills!NoReason, Bills!Custom}
                                      /\ Bills!Input(r) \in Bills!BillReasons
  BY DEF Bills!BillReasons, Bills!Selection, Bills!Input
<1>3. \A b \in DOMAIN p.bills : p.bills[b].reason \in Bills!BillReasons
  BY <1>1 DEF Bills!Bill
<1>4. sel \in [Ids -> Bills!Presets \cup {Bills!NoReason, Bills!Custom}] /\ inp \in [Ids -> Bills!BillReasons]
  BY <1>2, <1>3 DEF Bills!BillReasons
<1>5. \A b \in DOMAIN p.bills : sel[b] = Bills!Selection(p.bills[b].reason) /\ inp[b] = Bills!Input(p.bills[b].reason)
  BY <1>1
<1>6. q = [p EXCEPT !.reasonSelections = sel, !.reasonInputs = inp]
  BY DEF Bills!ReasonsOf, Bills!WithReasons
<1> HIDE DEF sel, inp, q
<1>7. /\ q \in BillsFullPage /\ q.bills = p.bills /\ SameFilters(q, p) /\ q.searchTerm = p.searchTerm
      /\ q.reasonSelections = sel /\ q.reasonInputs = inp
  BY <1>4, <1>6 DEF BillsFullPage, SameFilters
<1> QED BY <1>5, <1>7 DEF Shows, q

LEMMA BillsFetchAnswersIs ==
    ASSUME Bills!BillsInputs, BillsTyped, BillsOnAPage(page), NEW k \in calls, Bills!FetchAnswers(k)
    PROVE  /\ BillsTyped' /\ BillsOnAPage(page') /\ UNCHANGED table
           /\ k.op = "fetch" /\ k.at = "back" /\ calls' = calls \ {k} /\ SameFilters(page', page)
           /\ ~k.ok => past'.unsure
           /\ k.ok => /\ page'.bills = k.rows /\ \A b \in DOMAIN page'.bills : Shows(page', b)
                      /\ past'.unsure =
                             (k.old \/ k.status # page.filterStatus \/ k.term # page.debouncedSearch)
           /\ past'.unsent = past.unsent \/ past'.unsent = Bills!NoBill
           /\ past'.overlap = past.overlap
           /\ past'.lostText = past.lostText \/ past.unsent # Bills!NoBill
<1>0. /\ page \in BillsFullPage /\ past \in Bills!Past /\ k \in BillsFetch /\ calls \subseteq BillsCalls
      /\ k.op = "fetch" /\ k.at = "back" /\ calls' = calls \ {k} /\ UNCHANGED table
  BY BillCallKinds DEF BillsTyped, Bills!FetchAnswers
<1>1. CASE k.ok
  <2> DEFINE p == [page EXCEPT !.bills = k.rows]
             r == Bills!ReasonsOf(p)
             q == [r EXCEPT !.initialFetchDone = TRUE]
             s == Bills!Rendered(q, FALSE)
             l == past.lostText \/ Bills!Loses(q)
             u == k.old \/ k.status # page.filterStatus \/ k.term # page.debouncedSearch
  <2>1. page' = Bills!KeepFocus(s)
    BY <1>1 DEF Bills!FetchAnswers
  <2>2. past' = [past EXCEPT !.unsure = u, !.local = {}, !.unsent = Bills!NoBill, !.lostText = l]
    BY <1>1 DEF Bills!FetchAnswers
  <2>3. u \in BOOLEAN /\ l \in BOOLEAN /\ (l = past.lostText \/ past.unsent # Bills!NoBill)
    BY <1>0 DEF BillsFetch, Bills!Past, Bills!Loses
  <2> HIDE DEF l, u
  <2>4. p \in BillsFullPage /\ p.bills = k.rows /\ SameFilters(p, page)
    <3>1. k.rows \in BillRows
      BY <1>0 DEF BillsFetch
    <3> QED BY <1>0, <3>1 DEF BillsFullPage, SameFilters
  <2> HIDE DEF p
  <2>5. r \in BillsFullPage /\ r.bills = p.bills /\ SameFilters(r, p) /\ \A b \in DOMAIN p.bills : Shows(r, b)
    BY <2>4, WithReasonsIs
  <2> HIDE DEF r
  <2>6. q \in BillsFullPage /\ SameBoxes(q, r) /\ SameFilters(q, r)
    BY <2>5 DEF BillsFullPage, SameBoxes, SameFilters
  <2> HIDE DEF q
  <2>7. s \in BillsFullPage /\ BillsOnAPage(s) /\ SameBoxes(s, q) /\ SameFilters(s, q)
    BY <2>6, BillsRenderedIs
  <2> HIDE DEF s
  <2>8. page' \in BillsFullPage /\ SameBoxes(page', s) /\ SameFilters(page', s) /\ SameBillList(page', s)
    BY <2>1, <2>7, KeepFocusIs
  <2>9. BillsOnAPage(page')
    BY <2>7, <2>8, SameBillListOnAPage
  <2>10. SameBoxes(page', r) /\ SameFilters(page', page) /\ page'.bills = k.rows
    BY <2>4, <2>5, <2>6, <2>7, <2>8 DEF SameBoxes, SameFilters
  <2>11. \A b \in DOMAIN page'.bills : Shows(page', b)
    BY <2>4, <2>5, <2>10 DEF SameBoxes, Shows
  <2>12. /\ past' \in Bills!Past /\ past'.unsure = u /\ past'.unsent = Bills!NoBill /\ past'.lostText = l
         /\ past'.overlap = past.overlap
    BY <1>0, <2>2, <2>3 DEF Bills!Past
  <2>13. BillsTyped'
    BY <1>0, <2>8, <2>12 DEF BillsTyped
  <2> QED BY <1>0, <1>1, <2>3, <2>9, <2>10, <2>11, <2>12, <2>13 DEF u
<1>2. CASE ~k.ok
  <2>1. /\ page' = [page EXCEPT !.error = TRUE, !.initialFetchDone = TRUE]
        /\ past' = [past EXCEPT !.unsure = TRUE]
    BY <1>2 DEF Bills!FetchAnswers
  <2>2. page' \in BillsFullPage /\ SameFilters(page', page) /\ SameBillList(page', page)
    BY <1>0, <2>1 DEF BillsFullPage, SameFilters, SameBillList
  <2>3. /\ past' \in Bills!Past /\ past'.unsure /\ past'.unsent = past.unsent /\ past'.lostText = past.lostText
        /\ past'.overlap = past.overlap
    BY <1>0, <2>1 DEF Bills!Past
  <2>4. BillsTyped' /\ BillsOnAPage(page')
    BY <1>0, <2>2, <2>3, SameBillListOnAPage DEF BillsTyped
  <2> QED BY <1>0, <1>2, <2>2, <2>3, <2>4
<1> QED BY <1>1, <1>2

LEMMA SameErrorIs ==
    ASSUME NEW p \in BillsFullPage, NEW e \in BOOLEAN
    PROVE  LET q == [p EXCEPT !.error = e] IN q \in BillsFullPage /\ SameBillList(q, p)
  BY DEF BillsFullPage, SameBillList

LEMMA UpdateAnswersIs ==
    ASSUME Bills!BillsInputs, BillsTyped, BillsOnAPage(page), NEW k \in calls, Bills!UpdateAnswers(k)
    PROVE  /\ BillsTyped' /\ BillsOnAPage(page') /\ UNCHANGED table /\ k.op # "fetch"
           /\ \/ calls' = calls \ {k} /\ ~k.ok /\ UNCHANGED <<page, past>>
              \/ \E f \in BillsFetch : calls' = (calls \ {k}) \cup {f} /\ f.op = "fetch" /\ f.at = "server"
           /\ past'.unsent = past.unsent \/ past'.unsent = Bills!NoBill
           /\ past'.overlap = past.overlap
           /\ past'.lostText = past.lostText \/ past.unsent # Bills!NoBill
<1>0. /\ page \in BillsFullPage /\ past \in Bills!Past /\ k \in SoundUpdate /\ calls \subseteq BillsCalls
      /\ k.op # "fetch" /\ UNCHANGED table
  BY BillCallKinds DEF BillsTyped, Bills!UpdateAnswers
<1>1. CASE k.ok
  <2> DEFINE sel == [page.reasonSelections EXCEPT ![k.id] = k.value]
             inp == [page.reasonInputs EXCEPT ![k.id] = Bills!NoReason]
             p == IF k.op # "preset" THEN page
                  ELSE [page EXCEPT !.reasonSelections[k.id] = k.value, !.reasonInputs[k.id] = Bills!NoReason]
             q == [p EXCEPT !.error = FALSE]
             l == past.lostText \/ Bills!Loses(p)
             u == IF past.unsent = page'.focus THEN past.unsent ELSE Bills!NoBill
             f == Bills!fetchBills(k.status, k.term)
  <2>1. page' = Bills!KeepFocus(q) /\ calls' = (calls \ {k}) \cup {f}
    BY <1>1 DEF Bills!UpdateAnswers
  <2>2. past' = [past EXCEPT !.lostText = l, !.unsent = u]
    BY <1>1 DEF Bills!UpdateAnswers
  <2>3. /\ l \in BOOLEAN /\ (l = past.lostText \/ past.unsent # Bills!NoBill)
        /\ u \in Ids \cup {Bills!NoBill} /\ (u = past.unsent \/ u = Bills!NoBill)
    BY <1>0 DEF Bills!Past, Bills!Loses
  <2> HIDE DEF l, u
  <2>4. p \in BillsFullPage /\ SameBillList(p, page)
    <3>1. CASE k.op # "preset"
      BY <1>0, <3>1 DEF SameBillList
    <3>2. CASE k.op = "preset"
      <4>1. k.id \in Ids /\ k.value \in Bills!Presets
        BY <1>0, <3>2 DEF SoundUpdate, UpdateIsSound, Bills!Update
      <4>2. sel \in [Ids -> Bills!Presets \cup {Bills!NoReason, Bills!Custom}] /\ inp \in [Ids -> Bills!BillReasons]
        BY <1>0, <4>1 DEF BillsFullPage, Bills!BillReasons
      <4>3. p = [page EXCEPT !.reasonSelections = sel, !.reasonInputs = inp]
        BY <1>0, <3>2 DEF BillsFullPage
      <4> HIDE DEF sel, inp, p
      <4> QED BY <1>0, <4>2, <4>3 DEF BillsFullPage, SameBillList
    <3> QED BY <3>1, <3>2
  <2> HIDE DEF p
  <2>5. q \in BillsFullPage /\ SameBillList(q, p)
    BY <2>4, SameErrorIs
  <2> HIDE DEF q
  <2>6. page' \in BillsFullPage /\ SameBillList(page', q)
    BY <2>1, <2>5, KeepFocusIs
  <2>7. SameBillList(page', page)
    BY <2>4, <2>5, <2>6 DEF SameBillList
  <2>8. BillsOnAPage(page')
    BY <2>7, SameBillListOnAPage
  <2>9. f \in BillsFetch /\ f.op = "fetch" /\ f.at = "server"
    BY <1>0, FetchBillsType DEF SoundUpdate, Bills!Update
  <2> HIDE DEF f
  <2>10. past' \in Bills!Past /\ past'.lostText = l /\ past'.unsent = u /\ past'.overlap = past.overlap
    BY <1>0, <2>2, <2>3 DEF Bills!Past
  <2>11. BillsTyped'
    BY <1>0, <2>1, <2>6, <2>9, <2>10 DEF BillsTyped, BillsCalls
  <2> QED BY <1>0, <2>1, <2>3, <2>8, <2>9, <2>10, <2>11
<1>2. CASE ~k.ok
  <2>1. calls' = calls \ {k} /\ UNCHANGED <<page, past>>
    BY <1>2 DEF Bills!UpdateAnswers
  <2>2. BillsTyped' /\ BillsOnAPage(page')
    BY <1>0, <2>1 DEF BillsTyped
  <2> QED BY <1>0, <1>2, <2>1, <2>2
<1> QED BY <1>1, <1>2

LEMMA BillsTypedInit == Bills!BillsInputs /\ Bills!Init => BillsTyped /\ BillsOnAPage(page)
<1> SUFFICES ASSUME Bills!BillsInputs, Bills!Init PROVE BillsTyped /\ BillsOnAPage(page)
  OBVIOUS
<1>1. <<>> \in BillRows /\ DOMAIN <<>> = {}
  <2>1. <<>> \in [{} -> Bills!Bill]
    OBVIOUS
  <2> QED BY <2>1 DEF BillRows
<1>2. [b \in Ids |-> Bills!NoReason] \in [Ids -> Bills!Presets \cup {Bills!NoReason, Bills!Custom}]
      /\ [b \in Ids |-> Bills!NoReason] \in [Ids -> Bills!BillReasons]
  BY DEF Bills!BillReasons
<1> DEFINE none == [b \in Ids |-> Bills!NoReason]
<1>3. page = [bills |-> <<>>, initialFetchDone |-> FALSE, error |-> FALSE, searchTerm |-> Bills!NoBill,
              debouncedSearch |-> Bills!NoBill, filterStatus |-> Bills!All, driverFilter |-> Bills!NoDriver, timeRange |-> "all",
              customDateFrom |-> Bills!Today, customDateTo |-> Bills!Today, calendarSheet |-> Bills!Hidden,
              reasonSelections |-> none, reasonInputs |-> none, focus |-> Bills!NoBill, pageSize |-> 10, currentPage |-> 1]
  BY DEF Bills!Init, Bills!Mounted
<1> HIDE DEF none
<1>4. page \in BillsFullPage
  <2>1. none \in [Ids -> Bills!Presets \cup {Bills!NoReason, Bills!Custom}] /\ none \in [Ids -> Bills!BillReasons]
    BY <1>2 DEF none
  <2> QED BY <1>1, <1>3, <2>1, BillsInputTypes DEF BillsFullPage, Bills!TimeRanges
<1>5. calls \subseteq BillsCalls
  BY FetchBillsType DEF Bills!Init, Bills!MountCalls, BillsCalls
<1>6. past \in Bills!Past
  BY BillsInputTypes DEF Bills!Init, Bills!NoPast, Bills!Past
<1>7. table \in BillRows
  BY BillsInputTypes DEF Bills!Init
<1>8. BillsOnAPage(page)
  <2>1. Bills!filteredBills(page) = {}
    BY <1>1, <1>3 DEF Bills!filteredBills
  <2>2. Bills!Cardinality(Bills!filteredBills(page)) = 0
    BY <2>1, BillsPaging, FS_EmptySet
  <2>3. Bills!TotalPages(0, page.pageSize) = 1
    BY DEF Bills!TotalPages
  <2> QED BY <1>3, <2>2, <2>3 DEF BillsOnAPage
<1> QED BY <1>4, <1>5, <1>6, <1>7, <1>8 DEF BillsTyped

BillsAdminActs ==
    \/ BillsToolbar \/ BillsFilters \/ Bills!TypeReason \/ Bills!BlurReason \/ Bills!EnterReason
    \/ \E b \in Ids : Bills!handleStatusUpdate(b) \/ Bills!handleReasonChange(b) \/ Bills!FocusReason(b)

BillsServes(k) == Bills!GetRideBills(k) \/ Bills!CheckBill(k) \/ Bills!UpdateRideBill(k) \/ Bills!RequestFails(k)
BillsAnswers(k) == Bills!FetchAnswers(k) \/ Bills!UpdateAnswers(k)

LEMMA BillsNextIs ==
    ASSUME Bills!Next
    PROVE  BillsAdminActs \/ Bills!OthersWrite \/ \E k \in calls : BillsServes(k) \/ BillsAnswers(k)
 <1>1. CASE \/ Bills!Search \/ Bills!OpenCalendar \/ Bills!PickStart \/ Bills!PickEnd \/ Bills!CloseCalendar
            \/ Bills!ChangePage \/ Bills!DismissError
            \/ Bills!Debounce \/ Bills!FilterByDriver \/ Bills!FilterByStatus \/ Bills!ChooseTimeRange
            \/ Bills!ApplyRange \/ Bills!ClearFilters \/ Bills!Retry
           \/ Bills!TypeReason \/ Bills!BlurReason \/ Bills!EnterReason
           \/ \E b \in Ids : Bills!handleStatusUpdate(b) \/ Bills!handleReasonChange(b) \/ Bills!FocusReason(b)
  BY <1>1 DEF BillsAdminActs, BillsToolbar, BillsFilters
<1>2. CASE Bills!OthersWrite
  BY <1>2
<1>3. CASE \E k \in calls : \/ Bills!GetRideBills(k) \/ Bills!CheckBill(k) \/ Bills!UpdateRideBill(k) \/ Bills!RequestFails(k)
                            \/ Bills!FetchAnswers(k) \/ Bills!UpdateAnswers(k)
  BY <1>3 DEF BillsServes, BillsAnswers
<1> QED BY <1>1, <1>2, <1>3 DEF Bills!Next

LEMMA BillsTypedStep ==
    ASSUME Bills!BillsInputs, BillsTyped, BillsOnAPage(page), [Bills!Next]_Bills!vars
    PROVE  BillsTyped' /\ BillsOnAPage(page')
<1>1. CASE UNCHANGED Bills!vars
  BY <1>1 DEF Bills!vars, BillsTyped
<1>2. CASE BillsAdminActs
  BY <1>2, BillsToolbarIs, BillsFiltersAre, TypeReasonIs, SendsAre, BillBoxesAre DEF BillsAdminActs
<1>3. CASE Bills!OthersWrite
  BY <1>3, BillsOthersAre
<1>4. ASSUME NEW k \in calls, BillsServes(k)
      PROVE  BillsTyped' /\ BillsOnAPage(page')
  <2>1. BillsTyped' /\ UNCHANGED page
    BY <1>4, GetRideBillsIs, CheckBillIs, UpdateRideBillIs, BillsFailIs DEF BillsServes
  <2> QED BY <2>1
<1>5. ASSUME NEW k \in calls, BillsAnswers(k)
      PROVE  BillsTyped' /\ BillsOnAPage(page')
  BY <1>5, BillsFetchAnswersIs, UpdateAnswersIs DEF BillsAnswers
<1>6. ASSUME Bills!Next
      PROVE  BillsTyped' /\ BillsOnAPage(page')
  BY <1>2, <1>3, <1>4, <1>5, <1>6, BillsNextIs
<1> QED BY <1>1, <1>6

-----------------------------------------------------------------------------
(* The list, the boxes and the table. A request that will bring the list is *)
(* in flight, or the list is what the table has and the boxes show it, or   *)
(* the page cannot know.                                                    *)

\* A fetch, or an update that has succeeded: its handler will fetch.
Coming(k) == k.op = "fetch" \/ (k.at = "back" /\ k.ok)

\* An answer that is not old has what the server has for its filters.
Fresh(k, t) == k.op = "fetch" /\ k.at = "back" /\ k.ok /\ ~k.old => k.rows = Bills!Matching(t, k.status, k.term)

ListAgrees ==
    /\ page.bills = Bills!Matching(table, page.filterStatus, page.debouncedSearch)
    /\ \A b \in DOMAIN page.bills \ past.local : Shows(page, b)

BillsCurrent ==
    /\ \A k \in calls : Fresh(k, table)
    /\ past.unsure \/ (\E k \in calls : Coming(k)) \/ ListAgrees

LEMMA BillsCurrentInit == Bills!Init => BillsCurrent
<1> SUFFICES ASSUME Bills!Init PROVE BillsCurrent
  OBVIOUS
<1>1. calls = {Bills!fetchBills(Bills!All, Bills!NoBill)}
  BY DEF Bills!Init, Bills!MountCalls
<1> QED BY <1>1 DEF BillsCurrent, Coming, Fresh, Bills!fetchBills

\* The admin acts, and the same filters agree with the same list.
LEMMA CurrentActed ==
    ASSUME BillsTyped, BillsCurrent, UNCHANGED table, past.unsure => past'.unsure,
           \/ \E k : Starts(k) /\ k.op = "fetch"
           \/ /\ calls' = calls \/ \E k : Starts(k)
              /\ SameFilters(page', page) /\ page'.bills = page.bills /\ past.local \subseteq past'.local
              /\ \A b \in Ids \ past'.local : /\ page'.reasonSelections[b] = page.reasonSelections[b]
                                              /\ page'.reasonInputs[b] = page.reasonInputs[b]
    PROVE  BillsCurrent'
<1>1. /\ \A k \in calls' : k \in calls \/ k.at = "server"
      /\ calls \subseteq calls'
  BY DEF Starts
<1>2. \A k \in calls' : Fresh(k, table')
  BY <1>1 DEF BillsCurrent, Fresh
<1>3. CASE \E k \in calls' : Coming(k)
  BY <1>2, <1>3 DEF BillsCurrent
<1>4. CASE past.unsure
  BY <1>2, <1>4 DEF BillsCurrent
<1>5. CASE ~past.unsure /\ ~(\E k \in calls' : Coming(k))
  <2>1. ListAgrees
    BY <1>1, <1>5 DEF BillsCurrent
  <2>2. DOMAIN page.bills \subseteq Ids
    BY BillRowType DEF BillsTyped, BillsFullPage
  <2>3. /\ SameFilters(page', page) /\ page'.bills = page.bills /\ past.local \subseteq past'.local
        /\ \A b \in Ids \ past'.local : /\ page'.reasonSelections[b] = page.reasonSelections[b]
                                        /\ page'.reasonInputs[b] = page.reasonInputs[b]
    BY <1>5 DEF Starts, Coming
  <2>4. ListAgrees'
    BY <2>1, <2>2, <2>3 DEF ListAgrees, SameFilters, Shows
  <2> QED BY <1>2, <2>4 DEF BillsCurrent
<1> QED BY <1>3, <1>4, <1>5

LEMMA CurrentMoved ==
    ASSUME BillsCurrent, UNCHANGED <<table, page>>, past.unsure => past'.unsure, past'.local = past.local,
           NEW k \in calls, NEW j, Becomes(k, j), Fresh(j, table), Coming(k) => Coming(j) \/ past'.unsure
    PROVE  BillsCurrent'
<1>1. \A c \in calls' : Fresh(c, table')
  BY DEF BillsCurrent, Becomes
<1>2. (\E c \in calls : Coming(c)) => (\E c \in calls' : Coming(c)) \/ past'.unsure
  BY DEF Becomes
<1>3. ListAgrees => ListAgrees'
  BY DEF ListAgrees
<1> QED BY <1>1, <1>2, <1>3 DEF BillsCurrent

LEMMA CurrentServed ==
    ASSUME Bills!BillsInputs, BillsTyped, BillsCurrent, NEW k \in calls, BillsServes(k)
    PROVE  BillsCurrent'
<1>1. CASE Bills!GetRideBills(k)
  <2>1. UNCHANGED <<table, page, past>> /\ k.op = "fetch"
    BY <1>1, GetRideBillsIs
  <2>2. PICK j \in BillsFetch : Becomes(k, j) /\ j.rows = Bills!Matching(table, j.status, j.term)
    BY <1>1, GetRideBillsIs
  <2>3. Fresh(j, table) /\ Coming(j)
    BY <2>1, <2>2 DEF Fresh, Coming, Becomes
  <2> QED BY <2>1, <2>2, <2>3, CurrentMoved
<1>2. CASE Bills!CheckBill(k)
  <2>1. UNCHANGED <<table, page, past>> /\ k.op # "fetch" /\ k.at = "server"
    BY <1>2, CheckBillIs
  <2>2. PICK j \in SoundUpdate : Becomes(k, j)
    BY <1>2, CheckBillIs
  <2>3. Fresh(j, table) /\ ~Coming(k)
    BY <2>1, <2>2 DEF Fresh, Coming, Becomes
  <2> QED BY <2>1, <2>2, <2>3, CurrentMoved
<1>3. CASE Bills!UpdateRideBill(k)
  <2>1. UNCHANGED <<page, past>> /\ k.op # "fetch" /\ k.at = "checked"
    BY <1>3, UpdateRideBillIs
  <2>2. PICK j \in SoundUpdate :
            /\ j.op = k.op
            /\ \/ Becomes(k, j) /\ UNCHANGED table
               \/ calls' = Bills!Aged(calls \ {k}) \cup {j} /\ j.at = "back" /\ j.ok
    BY <1>3, UpdateRideBillIs
  <2>3. CASE Becomes(k, j) /\ UNCHANGED table
    <3>1. Fresh(j, table) /\ ~Coming(k)
      BY <2>1, <2>2 DEF Fresh, Coming
    <3> QED BY <2>1, <2>3, <3>1, CurrentMoved
  <2>4. CASE calls' = Bills!Aged(calls \ {k}) \cup {j} /\ j.at = "back" /\ j.ok
    <3>1. calls \ {k} \in SUBSET BillsCalls
      BY DEF BillsTyped
    <3>2. \A c \in calls' : Fresh(c, table')
      BY <2>1, <2>2, <2>4, <3>1, BillsAgedIs DEF Fresh
    <3>3. j \in calls' /\ Coming(j)
      BY <2>4 DEF Coming
    <3> QED BY <3>2, <3>3 DEF BillsCurrent
  <2> QED BY <2>2, <2>3, <2>4
<1>4. CASE Bills!RequestFails(k)
  <2>1. /\ UNCHANGED <<table, page>> /\ past'.local = past.local
        /\ past'.unsure = (past.unsure \/ (k.op # "fetch" /\ k.at = "back"))
    BY <1>4, BillsFailIs
  <2>2. PICK j \in BillsCalls : Becomes(k, j) /\ ~j.ok
    BY <1>4, BillsFailIs
  <2>3. Fresh(j, table) /\ (Coming(k) => Coming(j) \/ past'.unsure)
    BY <2>1, <2>2 DEF Fresh, Coming, Becomes
  <2>4. past.unsure => past'.unsure
    BY <2>1
  <2> QED BY <2>1, <2>2, <2>3, <2>4, CurrentMoved
<1> QED BY <1>1, <1>2, <1>3, <1>4 DEF BillsServes

LEMMA CurrentAnswered ==
    ASSUME Bills!BillsInputs, BillsTyped, BillsOnAPage(page), BillsCurrent, NEW k \in calls, BillsAnswers(k)
    PROVE  BillsCurrent'
<1>1. CASE Bills!FetchAnswers(k)
  <2>1. /\ UNCHANGED table /\ k.op = "fetch" /\ k.at = "back" /\ calls' = calls \ {k} /\ SameFilters(page', page)
        /\ ~k.ok => past'.unsure
        /\ k.ok => /\ page'.bills = k.rows /\ \A b \in DOMAIN page'.bills : Shows(page', b)
                   /\ past'.unsure = (k.old \/ k.status # page.filterStatus \/ k.term # page.debouncedSearch)
    BY <1>1, BillsFetchAnswersIs
  <2>2. \A c \in calls' : Fresh(c, table')
    BY <2>1 DEF BillsCurrent
  <2>3. CASE past'.unsure
    BY <2>2, <2>3 DEF BillsCurrent
  <2>4. CASE ~past'.unsure
    <3>1. k.ok /\ ~k.old /\ k.status = page.filterStatus /\ k.term = page.debouncedSearch
      BY <2>1, <2>4
    <3>2. k.rows = Bills!Matching(table, k.status, k.term)
      BY <2>1, <3>1 DEF BillsCurrent, Fresh
    <3>3. ListAgrees'
      BY <2>1, <3>1, <3>2 DEF ListAgrees, SameFilters
    <3> QED BY <2>2, <3>3 DEF BillsCurrent
  <2> QED BY <2>3, <2>4
<1>2. CASE Bills!UpdateAnswers(k)
  <2>1. /\ UNCHANGED table /\ k.op # "fetch"
        /\ \/ calls' = calls \ {k} /\ ~k.ok /\ UNCHANGED <<page, past>>
           \/ \E f \in BillsFetch : calls' = (calls \ {k}) \cup {f} /\ f.op = "fetch" /\ f.at = "server"
    BY <1>2, UpdateAnswersIs
  <2>2. CASE calls' = calls \ {k} /\ ~k.ok /\ UNCHANGED <<page, past>>
    <3>1. \A c \in calls' : Fresh(c, table')
      BY <2>1, <2>2 DEF BillsCurrent
    <3>2. (\E c \in calls : Coming(c)) => \E c \in calls' : Coming(c)
      BY <2>1, <2>2 DEF Coming
    <3>3. ListAgrees => ListAgrees'
      BY <2>1, <2>2 DEF ListAgrees
    <3> QED BY <2>2, <3>1, <3>2, <3>3 DEF BillsCurrent
  <2>3. ASSUME NEW f \in BillsFetch, calls' = (calls \ {k}) \cup {f}, f.op = "fetch", f.at = "server"
        PROVE  BillsCurrent'
    <3>1. \A c \in calls' : Fresh(c, table')
      BY <2>1, <2>3 DEF BillsCurrent, Fresh
    <3>2. f \in calls' /\ Coming(f)
      BY <2>3 DEF Coming
    <3> QED BY <3>1, <3>2 DEF BillsCurrent
  <2> QED BY <2>1, <2>2, <2>3
<1> QED BY <1>1, <1>2 DEF BillsAnswers

LEMMA BillsCurrentStep ==
    ASSUME Bills!BillsInputs, BillsTyped, BillsOnAPage(page), BillsCurrent, [Bills!Next]_Bills!vars
    PROVE  BillsCurrent'
<1>1. CASE UNCHANGED Bills!vars
  BY <1>1, CurrentActed DEF Bills!vars, SameFilters
<1>2. CASE BillsToolbar
  BY <1>2, BillsToolbarIs, CurrentActed DEF SameScreen, SameBoxes, BillsSamePast
<1>3. CASE BillsFilters
  BY <1>3, BillsFiltersAre, CurrentActed DEF SameBoxes, BillsSamePast
<1>4. CASE Bills!TypeReason
  BY <1>4, TypeReasonIs, CurrentActed
<1>5. CASE Bills!BlurReason \/ Bills!EnterReason
  BY <1>5, SendsAre, CurrentActed DEF SameBoxes
<1>6. ASSUME NEW b \in Ids, Bills!handleStatusUpdate(b) \/ Bills!handleReasonChange(b) \/ Bills!FocusReason(b)
      PROVE  BillsCurrent'
  BY <1>6, BillBoxesAre, CurrentActed
<1>7. CASE Bills!OthersWrite
  <2>1. calls' = Bills!Aged(calls) /\ past'.unsure /\ calls \in SUBSET BillsCalls
    BY <1>7, BillsOthersAre DEF BillsTyped
  <2> QED BY <2>1, BillsAgedIs DEF BillsCurrent, Fresh
<1>8. ASSUME NEW k \in calls, BillsServes(k) \/ BillsAnswers(k)
      PROVE  BillsCurrent'
  BY <1>8, CurrentServed, CurrentAnswered
<1>9. ASSUME Bills!Next
      PROVE  BillsCurrent'
  BY <1>2, <1>3, <1>4, <1>5, <1>6, <1>7, <1>8, <1>9, BillsNextIs DEF BillsAdminActs
<1> QED BY <1>1, <1>9

LEMMA BillsCurrentAtRest == Bills!BillsInputs /\ BillsTyped /\ BillsCurrent => Bills!BillsAreCurrent /\ Bills!ReasonShownIsStored
<1> SUFFICES ASSUME Bills!BillsInputs, BillsTyped, BillsCurrent, Bills!AtRest
             PROVE  /\ page.bills = Bills!Matching(table, page.filterStatus, page.debouncedSearch)
                    /\ \A b \in (DOMAIN page.bills \cap DOMAIN table) \ past.local :
                           IF table[b].reason \in Customs
                           THEN page.reasonSelections[b] = Bills!Custom /\ page.reasonInputs[b] = table[b].reason
                           ELSE page.reasonSelections[b] = table[b].reason
  BY DEF Bills!BillsAreCurrent, Bills!ReasonShownIsStored
<1>1. ListAgrees
  BY DEF Bills!AtRest, BillsCurrent
<1>2. ASSUME NEW b \in (DOMAIN page.bills \cap DOMAIN table) \ past.local
      PROVE  Shows(page, b) /\ page.bills[b] = table[b]
  BY <1>1 DEF ListAgrees, Bills!Matching
<1> QED BY <1>1, <1>2 DEF ListAgrees, Shows, Bills!Selection, Bills!Input

-----------------------------------------------------------------------------
(* What is typed. While a reason that was typed in peace is unsent, its box *)
(* has the focus, and nothing is under way that could take it away.         *)

InPeace ==
    /\ calls = {} /\ page.searchTerm = page.debouncedSearch
    /\ page.focus = past.unsent /\ page.reasonInputs[past.unsent] # Bills!NoReason

TextKept ==
    /\ past.lostText => past.overlap
    /\ past.unsent # Bills!NoBill /\ ~past.overlap => InPeace

LEMMA TextKeptInit == Bills!Init => TextKept
  BY DEF Bills!Init, Bills!NoPast, TextKept

LEMMA TextKeptStep ==
    ASSUME Bills!BillsInputs, BillsTyped, BillsOnAPage(page), TextKept, [Bills!Next]_Bills!vars
    PROVE  TextKept'
<1>1. ASSUME past'.lostText = past.lostText, past'.overlap = past.overlap,
             past'.unsent = past.unsent \/ past'.unsent = Bills!NoBill,
             past.unsent # Bills!NoBill /\ past'.unsent = past.unsent /\ ~past.overlap /\ InPeace => InPeace'
      PROVE  TextKept'
  BY <1>1 DEF TextKept
<1>2. CASE UNCHANGED Bills!vars
  BY <1>1, <1>2 DEF Bills!vars, InPeace
<1>3. CASE BillsToolbar
  <2>1. /\ UNCHANGED calls /\ SameScreen(page', page) /\ BillsSamePast
        /\ page.focus = Bills!NoBill \/ page'.searchTerm = page.searchTerm
    BY <1>3, BillsToolbarIs
  <2>2. past.unsent # Bills!NoBill /\ InPeace => InPeace'
    BY <2>1 DEF InPeace, SameScreen, SameBoxes, SameFilters, BillsSamePast
  <2> QED BY <1>1, <2>1, <2>2 DEF BillsSamePast
<1>4. CASE BillsFilters
  <2>1. /\ SameBoxes(page', page) /\ BillsSamePast
        /\ \/ page.focus = Bills!NoBill \/ page.searchTerm # page.debouncedSearch
           \/ /\ calls' = calls /\ page'.focus = page.focus
              /\ SameFilters(page', page) /\ page'.searchTerm = page.searchTerm
    BY <1>4, BillsFiltersAre
  <2>2. past.unsent # Bills!NoBill /\ InPeace => InPeace'
    BY <2>1 DEF InPeace, SameBoxes, SameFilters, BillsSamePast
  <2> QED BY <1>1, <2>1, <2>2 DEF BillsSamePast
<1>5. CASE Bills!TypeReason
  <2>1. /\ UNCHANGED calls /\ page'.focus = page.focus /\ page'.searchTerm = page.searchTerm
        /\ SameFilters(page', page)
        /\ past'.unsent # Bills!NoBill => past'.unsent = page.focus /\ page'.reasonInputs[page.focus] # Bills!NoReason
        /\ past'.overlap = (calls # {} \/ page.searchTerm # page.debouncedSearch)
        /\ ~past'.lostText
    BY <1>5, TypeReasonIs
  <2>2. past'.unsent # Bills!NoBill /\ ~past'.overlap => InPeace'
    BY <2>1 DEF InPeace, SameFilters
  <2>3. past'.lostText => past'.overlap
    BY <2>1 DEF TextKept
  <2> QED BY <2>2, <2>3 DEF TextKept
<1>6. CASE Bills!BlurReason \/ Bills!EnterReason
  <2>1. /\ past'.overlap = past.overlap /\ past'.lostText = past.lostText
        /\ \/ past'.unsent = Bills!NoBill
           \/ past'.unsent = past.unsent /\ page.reasonInputs[page.focus] = Bills!NoReason
    BY <1>6, SendsAre
  <2> QED BY <1>1, <2>1 DEF InPeace
<1>7. ASSUME NEW b \in Ids, Bills!handleStatusUpdate(b) \/ Bills!handleReasonChange(b) \/ Bills!FocusReason(b)
      PROVE  TextKept'
  <2>1. /\ past'.overlap = past.overlap /\ past'.lostText = past.lostText /\ past'.unsent = past.unsent
        /\ page.focus = Bills!NoBill
    BY <1>7, BillBoxesAre
  <2> QED BY <1>1, <2>1 DEF InPeace
<1>8. CASE Bills!OthersWrite
  <2>1. /\ past'.overlap = past.overlap /\ past'.lostText = past.lostText /\ past'.unsent = past.unsent
        /\ UNCHANGED page /\ calls' = Bills!Aged(calls)
    BY <1>8, BillsOthersAre
  <2>2. calls = {} => calls' = {}
    BY <2>1, BillsAgedIs DEF BillsTyped
  <2> QED BY <1>1, <2>1, <2>2 DEF InPeace
<1>9. ASSUME NEW k \in calls, BillsServes(k)
      PROVE  TextKept'
  <2>1. past'.overlap = past.overlap /\ past'.lostText = past.lostText /\ past'.unsent = past.unsent
    BY <1>9, GetRideBillsIs, CheckBillIs, UpdateRideBillIs, BillsFailIs DEF BillsServes
  <2> QED BY <1>1, <1>9, <2>1 DEF InPeace
<1>10. ASSUME NEW k \in calls, BillsAnswers(k)
       PROVE  TextKept'
  <2>1. /\ past'.unsent = past.unsent \/ past'.unsent = Bills!NoBill
        /\ past'.overlap = past.overlap
        /\ past'.lostText = past.lostText \/ past.unsent # Bills!NoBill
    BY <1>10, BillsFetchAnswersIs, UpdateAnswersIs DEF BillsAnswers
  <2>2. past.unsent # Bills!NoBill => past.overlap
    BY <1>10 DEF TextKept, InPeace
  <2> QED BY <2>1, <2>2 DEF TextKept
<1>11. ASSUME Bills!Next
       PROVE  TextKept'
  BY <1>3, <1>4, <1>5, <1>6, <1>7, <1>8, <1>9, <1>10, <1>11, BillsNextIs DEF BillsAdminActs
<1> QED BY <1>2, <1>11

-----------------------------------------------------------------------------
BillsInv == BillsTyped /\ BillsOnAPage(page) /\ BillsCurrent /\ TextKept

LEMMA BillsInvInit == Bills!BillsInputs /\ Bills!Init => BillsInv
  BY BillsTypedInit, BillsCurrentInit, TextKeptInit DEF BillsInv

LEMMA BillsInvStep == Bills!BillsInputs /\ BillsInv /\ [Bills!Next]_Bills!vars => BillsInv'
<1> SUFFICES ASSUME Bills!BillsInputs, BillsInv, [Bills!Next]_Bills!vars PROVE BillsInv'
  OBVIOUS
<1>1. BillsTyped' /\ BillsOnAPage(page')
  BY BillsTypedStep DEF BillsInv
<1>2. BillsCurrent'
  BY BillsCurrentStep DEF BillsInv
<1>3. TextKept'
  BY TextKeptStep DEF BillsInv
<1> QED BY <1>1, <1>2, <1>3 DEF BillsInv

LEMMA BillsInvMeans ==
    Bills!BillsInputs /\ BillsInv =>
        /\ Bills!TypeOK /\ Bills!PageShowsBills /\ Bills!BillsAreCurrent /\ Bills!ReasonShownIsStored /\ Bills!TypedReasonLostOnlyToOverlap
<1> SUFFICES ASSUME Bills!BillsInputs, BillsInv
             PROVE  /\ Bills!TypeOK /\ Bills!PageShowsBills /\ Bills!BillsAreCurrent /\ Bills!ReasonShownIsStored
                    /\ Bills!TypedReasonLostOnlyToOverlap
  OBVIOUS
<1>1. Bills!TypeOK /\ Bills!PageShowsBills
  BY BillsTypedMeans, BillsOnAPageShowsRows DEF BillsInv
<1>2. Bills!BillsAreCurrent /\ Bills!ReasonShownIsStored
  BY BillsCurrentAtRest DEF BillsInv
<1>3. Bills!TypedReasonLostOnlyToOverlap
  BY DEF BillsInv, TextKept, Bills!TypedReasonLostOnlyToOverlap
<1> QED BY <1>1, <1>2, <1>3

-----------------------------------------------------------------------------
(* The invariants of the pages, as the console takes them. *)

LEMMA RoutesMounted == Routes!Init => Routes!RoutesInv
  BY Routes!RoutesInvInit, RoutesInputs, RoutesFound
  DEF Routes!RoutesInvInit, RoutesInputs, RoutesFound, Routes!New, Routes!NoStop, Routes!IsFiniteSet,
      Routes!TableOf, Routes!Route, IsFiniteSet, Route, TableOf, New, NoStop

LEMMA RoutesStepped == Routes!RoutesInv /\ [Routes!Next]_Routes!vars => Routes!RoutesInv'
  BY Routes!RoutesInvStep, RoutesInputs, RoutesFound
  DEF Routes!RoutesInvStep, RoutesInputs, RoutesFound, Routes!New, Routes!NoStop, Routes!IsFiniteSet,
      Routes!TableOf, Routes!Route, IsFiniteSet, Route, TableOf, New, NoStop

LEMMA RoutesMean ==
    Routes!RoutesInv =>
        /\ Routes!TypeOK /\ Routes!OneFarePerPair /\ Routes!PageShowsRoutes
        /\ Routes!FormLostOnlyToOverlap /\ Routes!RoutesAreCurrent
  BY Routes!RoutesInvMeans, RoutesInputs, RoutesFound
  DEF Routes!RoutesInvMeans, RoutesInputs, RoutesFound, Routes!New, Routes!NoStop, Routes!IsFiniteSet,
      Routes!TableOf, Routes!Route, IsFiniteSet, Route, TableOf, New, NoStop

LEMMA UsersMounted == Users!Init => Users!UsersInv
  BY Users!UsersInvInit, ConsoleInputs DEF Users!UsersInvInit, ConsoleInputs

LEMMA UsersStepped ==
    Users!UsersInv /\ [Users!Next]_Users!vars => Users!UsersInv' /\ Users!SuperAdminsKeptByStep
  BY Users!UsersInvStep, Users!UsersInvSteps, ConsoleInputs
  DEF Users!UsersInvStep, Users!UsersInvSteps, ConsoleInputs

LEMMA UsersMean ==
    Users!UsersInv =>
        /\ Users!TypeOK /\ Users!PageShowsUsers /\ Users!UsersAreCurrent
        /\ Users!FormLostOnlyToOverlap /\ Users!FormKeepsEdits /\ Users!CompleteUnlessDraft
  BY Users!UsersInvMeans, ConsoleInputs DEF Users!UsersInvMeans, ConsoleInputs

LEMMA BillsMounted == Bills!Init => BillsInv
  BY BillsInvInit, ConsoleInputs DEF ConsoleInputs

LEMMA BillsStepped == BillsInv /\ [Bills!Next]_Bills!vars => BillsInv'
  BY BillsInvStep, ConsoleInputs DEF ConsoleInputs

LEMMA BillsMean ==
    BillsInv =>
        /\ Bills!TypeOK /\ Bills!PageShowsBills /\ Bills!BillsAreCurrent
        /\ Bills!ReasonShownIsStored /\ Bills!TypedReasonLostOnlyToOverlap
  BY BillsInvMeans, ConsoleInputs DEF ConsoleInputs

LEMMA RegistrationsMounted == Regs!Init => Regs!RegistrationsInv
  BY Regs!RegistrationsInvInit, ConsoleInputs DEF Regs!RegistrationsInvInit, ConsoleInputs

LEMMA RegistrationsStepped == Regs!RegistrationsInv /\ [Regs!Next]_Regs!vars => Regs!RegistrationsInv'
  BY Regs!RegistrationsInvStep, ConsoleInputs DEF Regs!RegistrationsInvStep, ConsoleInputs

LEMMA RegistrationsMean ==
    Regs!RegistrationsInv =>
        /\ Regs!TypeOK /\ Regs!PageShowsRegistrations /\ Regs!RegistrationsAreCurrent
        /\ Regs!BannerIsTrue /\ Regs!FormLostOnlyToOverlap /\ Regs!ViewIsOfOneMoment
  BY Regs!RegistrationsInvMeans, ConsoleInputs DEF Regs!RegistrationsInvMeans, ConsoleInputs

-----------------------------------------------------------------------------
(* The console. *)

ConsoleInv ==
    /\ On("ride-location", Routes!RoutesInv)
    /\ On("users", Users!UsersInv)
    /\ On("ride-bill", BillsInv)
    /\ On("registrations", Regs!RegistrationsInv)

LEMMA ConsoleInvInit == Init => ConsoleInv
  BY RoutesMounted, UsersMounted, BillsMounted, RegistrationsMounted DEF Init, ConsoleInv, On

\* A page that is mounted finds a table that it could have found first.
LEMMA NavigateKeeps == Navigate => ConsoleInv'
<1> SUFFICES ASSUME Navigate PROVE ConsoleInv'
  OBVIOUS
<1>1. CASE mounted' = "ride-location"
  <2>1. Routes!Init'
    BY <1>1 DEF Navigate, Mount, Routes!Init
  <2>2. Routes!RoutesInv'
    BY <2>1, RoutesMounted, PTL
  <2> QED BY <1>1, <2>2 DEF ConsoleInv, On
<1>2. CASE mounted' = "users"
  <2>1. Users!Init'
    BY <1>2 DEF Navigate, Mount, Users!Init
  <2>2. Users!UsersInv'
    BY <2>1, UsersMounted, PTL
  <2> QED BY <1>2, <2>2 DEF ConsoleInv, On
<1>3. CASE mounted' = "ride-bill"
  <2>1. Bills!Init'
    BY <1>3 DEF Navigate, Mount, Bills!Init
  <2>2. BillsInv'
    BY <2>1, BillsMounted, PTL
  <2> QED BY <1>3, <2>2 DEF ConsoleInv, On
<1>4. CASE mounted' = "registrations"
  <2>1. Regs!Init'
    BY <1>4 DEF Navigate, Mount, Regs!Init
  <2>2. Regs!RegistrationsInv'
    BY <2>1, RegistrationsMounted, PTL
  <2> QED BY <1>4, <2>2 DEF ConsoleInv, On
<1>5. CASE mounted' \notin {"ride-location", "users", "ride-bill", "registrations"}
  BY <1>5 DEF ConsoleInv, On
<1> QED BY <1>1, <1>2, <1>3, <1>4, <1>5

LEMMA ConsoleInvStep == ConsoleInv /\ [Next]_vars => ConsoleInv'
<1> SUFFICES ASSUME ConsoleInv, [Next]_vars PROVE ConsoleInv'
  OBVIOUS
<1>1. CASE Navigate
  BY <1>1, NavigateKeeps
<1>2. CASE RouteStep
  BY <1>2, RoutesStepped DEF RouteStep, ConsoleInv, On
<1>3. CASE UserStep
  BY <1>3, UsersStepped DEF UserStep, ConsoleInv, On
<1>4. CASE BillStep
  BY <1>4, BillsStepped DEF BillStep, ConsoleInv, On
<1>5. CASE RegistrationStep
  BY <1>5, RegistrationsStepped DEF RegistrationStep, ConsoleInv, On
<1>6. CASE UNCHANGED vars
  <2>1. UNCHANGED <<mounted, Routes!vars, Users!vars, Bills!vars, Regs!vars>>
    BY <1>6 DEF vars, Routes!vars, Users!vars, Bills!vars, Regs!vars
  <2> QED BY <2>1, RoutesStepped, UsersStepped, BillsStepped, RegistrationsStepped DEF ConsoleInv, On
<1> QED BY <1>1, <1>2, <1>3, <1>4, <1>5, <1>6 DEF Next

\* Whichever page is mounted, and whatever was mounted before it, its invariant holds.
THEOREM ConsoleInvariant == Spec => []ConsoleInv
  BY ConsoleInvInit, ConsoleInvStep, PTL DEF Spec

-----------------------------------------------------------------------------
(* What the invariant says of each page. *)

\* Types: of the pages, of their requests and of what they remember, for each router path.
THEOREM ConsoleTyped == Spec => []TypeOK
<1> DEFINE Routed == mounted \in {"ride-location", "users", "ride-bill", "registrations"}
<1>1. Init => Routed
  BY DEF Init
<1>2. Routed /\ [Next]_vars => Routed'
  BY DEF Next, RouteStep, UserStep, BillStep, RegistrationStep, Navigate, Mount, vars
<1>3. Routed /\ ConsoleInv => TypeOK
  BY RoutesMean, UsersMean, BillsMean, RegistrationsMean DEF ConsoleInv, On, TypeOK
<1> QED BY <1>1, <1>2, <1>3, ConsoleInvariant, PTL DEF Spec

\* A list that has rows shows some, on every page: each render clamps the current page to
\* the pages that the filtered rows leave, and a new filter goes back to the first.
THEOREM PagesShow == Spec => []PagesShowRows
<1>1. ConsoleInv => PagesShowRows
  BY RoutesMean, UsersMean, BillsMean, RegistrationsMean DEF ConsoleInv, On, PagesShowRows
<1> QED BY <1>1, ConsoleInvariant, PTL

\* At rest the ride routes are what the server has for the term in the box, unless an
\* answer was old, for another term or lost, or another admin wrote meanwhile: fetchRoutes
\* replaces the list by any answer, and each save keeps it up by hand.
THEOREM RoutesCurrent == Spec => []RoutesAreCurrent
<1>1. ConsoleInv => RoutesAreCurrent
  BY RoutesMean DEF ConsoleInv, On, RoutesAreCurrent
<1> QED BY <1>1, ConsoleInvariant, PTL

\* A form of a ride route that is closed unstored has overlapped with another save: the
\* handlers of the modal close it when the answer of their own save arrives.
THEOREM RouteFormsKept == Spec => []RouteFormLostOnlyToOverlap
<1>1. ConsoleInv => RouteFormLostOnlyToOverlap
  BY RoutesMean DEF ConsoleInv, On, RouteFormLostOnlyToOverlap
<1> QED BY <1>1, ConsoleInvariant, PTL

\* A pair of stops has one fare in either direction, though CreateRideLocation and
\* UpdateRideLocation look for the pair before they write: the names are put in order,
\* and the pair is UNIQUE.
THEOREM OneFare == Spec => []OneFarePerPair
<1>1. ConsoleInv => OneFarePerPair
  BY RoutesMean DEF ConsoleInv, On, OneFarePerPair
<1> QED BY <1>1, ConsoleInvariant, PTL

\* At rest the users are what the server has, unless an answer was old or lost, or another
\* admin wrote meanwhile: the answers to a save, a deletion and a change of status bring the
\* list anew, and no later fetch cancels an earlier one.
THEOREM UsersCurrent == Spec => []UsersAreCurrent
<1>1. ConsoleInv => UsersAreCurrent
  BY UsersMean DEF ConsoleInv, On, UsersAreCurrent
<1> QED BY <1>1, ConsoleInvariant, PTL

\* A form of a user that is closed unstored has overlapped with another save.
THEOREM UserFormsKept == Spec => []UserFormLostOnlyToOverlap
<1>1. ConsoleInv => UserFormLostOnlyToOverlap
  BY UsersMean DEF ConsoleInv, On, UserFormLostOnlyToOverlap
<1> QED BY <1>1, ConsoleInvariant, PTL

\* The form of a user holds what was entered, unless it was entered during an upload: the
\* answer of an upload sets the fields that the form had when the upload began.
THEOREM EditsKept == Spec => []FormKeepsEdits
<1>1. ConsoleInv => FormKeepsEdits
  BY UsersMean DEF ConsoleInv, On, FormKeepsEdits
<1> QED BY <1>1, ConsoleInvariant, PTL

\* A user the page has stored has all that the role needs, unless he is a draft: the steps
\* of the form are passed one by one, and UpdateUser merges what is sent into a role that
\* may be another one by then.
THEOREM UsersComplete == Spec => []CompleteUnlessDraft
<1>1. ConsoleInv => CompleteUnlessDraft
  BY UsersMean DEF ConsoleInv, On, CompleteUnlessDraft
<1> QED BY <1>1, ConsoleInvariant, PTL

\* At rest the ride bills are what the server has for the filters, unless an answer was old,
\* for other filters or lost, or others wrote meanwhile: fetchBills is called anew for new
\* filters, cancels nothing, and replaces the list by whatever answer comes.
THEOREM BillsCurrentAlways == Spec => []BillsAreCurrent
<1>1. ConsoleInv => BillsAreCurrent
  BY BillsMean DEF ConsoleInv, On, BillsAreCurrent
<1> QED BY <1>1, ConsoleInvariant, PTL

\* At rest a reason box that the admin has left alone shows the reason that is stored: the
\* effect on the bills fills the boxes again after every answer.
THEOREM ReasonsShown == Spec => []ReasonShownIsStored
<1>1. ConsoleInv => ReasonShownIsStored
  BY BillsMean DEF ConsoleInv, On, ReasonShownIsStored
<1> QED BY <1>1, ConsoleInvariant, PTL

\* A typed reason is lost unsent only when it was typed while a request was in flight or a
\* search was about to start: leaving the box, and Enter, send it.
THEOREM ReasonsKept == Spec => []TypedReasonLostOnlyToOverlap
<1>1. ConsoleInv => TypedReasonLostOnlyToOverlap
  BY BillsMean DEF ConsoleInv, On, TypedReasonLostOnlyToOverlap
<1> QED BY <1>1, ConsoleInvariant, PTL

\* Except while a review is under way, the registrations are what the server has, once they
\* are fetched, and unless an answer was old or lost or others wrote meanwhile: the handler
\* of a review waits for the fetch, and no other answer brings an older list for good.
THEOREM RegistrationsCurrent == Spec => []RegistrationsAreCurrent
<1>1. ConsoleInv => RegistrationsAreCurrent
  BY RegistrationsMean DEF ConsoleInv, On, RegistrationsAreCurrent
<1> QED BY <1>1, ConsoleInvariant, PTL

\* "Registration approved successfully." is shown only of a student who is approved, unless
\* another admin has deleted that student or decided otherwise since: the UPDATE does not
\* look at what the registration was, and the banner waits for the list, not for the student.
THEOREM BannerTrue == Spec => []BannerIsTrue
<1>1. ConsoleInv => BannerIsTrue
  BY RegistrationsMean DEF ConsoleInv, On, BannerIsTrue
<1> QED BY <1>1, ConsoleInvariant, PTL

\* The answer of a review closes the form it was sent from and no other.
THEOREM ReviewFormsKept == Spec => []ReviewFormLostOnlyToOverlap
<1>1. ConsoleInv => ReviewFormLostOnlyToOverlap
  BY RegistrationsMean DEF ConsoleInv, On, ReviewFormLostOnlyToOverlap
<1> QED BY <1>1, ConsoleInvariant, PTL

\* A view puts an account that was read just now beside the review of the row that was
\* clicked. They are of one student, and of one moment, unless the list was unsure at the
\* click, or he was reviewed or deleted before the account was read: several views may be in
\* flight, and every write meanwhile may age them.
THEOREM ViewsAreOfOneMoment == Spec => []ViewIsOfOneMoment
<1>1. ConsoleInv => ViewIsOfOneMoment
  BY RegistrationsMean DEF ConsoleInv, On, ViewIsOfOneMoment
<1> QED BY <1>1, ConsoleInvariant, PTL

\* A SuperAdmin is not deleted and keeps his role and status, unless he became one between
\* the check and the write of a request: UpdateUser and DeleteUser read the role first.
THEOREM SuperAdminsStay == Spec => SuperAdminsKept
<1> DEFINE Kept ==
        mounted = "users" /\ mounted' = "users" =>
            \A r \in DOMAIN table :
                table[r].role = "SuperAdmin" /\ ~past.raced =>
                    /\ r \in DOMAIN table'
                    /\ table'[r].role = "SuperAdmin" /\ table'[r].status = table[r].status
<1>1. ConsoleInv /\ Next => Kept
  <2> SUFFICES ASSUME ConsoleInv, Next, mounted = "users", mounted' = "users" PROVE Kept
    OBVIOUS
  <2>1. Users!Next /\ Users!UsersInv
    BY DEF Next, RouteStep, BillStep, RegistrationStep, UserStep, Navigate, Mount, ConsoleInv, On
  <2> QED BY <2>1, UsersStepped DEF Users!SuperAdminsKeptByStep
<1>2. ConsoleInv /\ [Next]_vars => [Kept]_vars
  BY <1>1
<1>3. Spec => [][Kept]_vars
  BY <1>2, ConsoleInvariant, PTL DEF Spec
<1> QED BY <1>3 DEF SuperAdminsKept
=============================================================================
