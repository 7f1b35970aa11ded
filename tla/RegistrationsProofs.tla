------------------------ MODULE RegistrationsProofs ------------------------
(***************************************************************************)
(* The page of student registrations, for all ids, reasons, tables and     *)
(* bounds. One review is under way at a time, from the click that sends it *)
(* to the end of the fetch that follows it, and its form stays open: that  *)
(* is why the banner speaks of the student whose decision was sent last.   *)
(***************************************************************************)
EXTENDS RegistrationsPage, ListPagingProofs, FiniteSetTheorems

-----------------------------------------------------------------------------
(* Types. The rows of a page and of a fetch are tables as well. *)

Rows == UNION {[D -> Student] : D \in SUBSET Ids}

FullPage ==
    [rows : Rows, loading : BOOLEAN, error : BOOLEAN, successBanner : Decisions \cup {None},
     searchTerm : Ids \cup {NoStudent}, debouncedSearch : Ids \cup {NoStudent}, statusFilter : Statuses \cup {All},
     viewUser : {Nothing} \cup [id : Ids, active : BOOLEAN], viewRow : {Nothing} \cup [id : Ids, status : Statuses],
     viewLoadingId : Ids \cup {NoStudent}, reviewModal : {Nothing} \cup Form, reviewSubmitting : BOOLEAN,
     pageSize : PageSizes, currentPage : Nat \ {0}]

Fetch ==
    [op : {"fetch"}, then : Decisions \cup {None}, at : {"server", "back"}, ok : BOOLEAN, rows : Rows, old : BOOLEAN]

Calls == Fetch \cup View \cup Review

Typed == table \in Rows /\ page \in FullPage /\ calls \subseteq Calls /\ past \in Past

LEMMA TypedMeans == Typed => TypeOK
<1> SUFFICES ASSUME Typed PROVE TypeOK
  OBVIOUS
<1>1. \A t \in Rows : IsTable(t)
  BY DEF Rows, IsTable
<1>2. IsTable(table) /\ IsTable(page.rows)
  BY <1>1 DEF Typed, FullPage
<1>3. [f \in DOMAIN page \ {"rows"} |-> page[f]] \in Page
  BY DEF Typed, FullPage, Page
<1>4. \A k \in Fetch : IsFetch(k)
  BY <1>1 DEF Fetch, IsFetch
<1> QED BY <1>2, <1>3, <1>4 DEF Typed, TypeOK, Calls

LEMMA InputTypes ==
    ASSUME RegistrationsInputs
    PROVE  /\ Ids \subseteq Nat \ {NoStudent} /\ IsFiniteSet(Ids) /\ Searches \subseteq Ids
           /\ PageSizes \subseteq Nat \ {0} /\ 10 \in PageSizes /\ MaxActs \in Nat
           /\ \A t \in Tables : t \in Rows
  BY DEF RegistrationsInputs, IsTable, Rows

LEMMA RowType ==
    ASSUME NEW t \in Rows
    PROVE  DOMAIN t \subseteq Ids /\ \A s \in DOMAIN t : t[s] \in Student
  BY DEF Rows

LEMMA CallKinds ==
    ASSUME NEW k \in Calls
    PROVE  /\ k.op = "fetch" => k \in Fetch
           /\ k.op = "view" => k \in View
           /\ k.op = "review" => k \in Review
           /\ k.op \in {"fetch", "view", "review"}
  BY DEF Calls, Fetch, View, Review

-----------------------------------------------------------------------------
(* The page that is shown. *)

\* What the rest of this module asks of the page.
Alike(p, q) ==
    /\ p.rows = q.rows /\ p.successBanner = q.successBanner
    /\ p.viewUser = q.viewUser /\ p.viewRow = q.viewRow
    /\ p.reviewModal = q.reviewModal /\ p.reviewSubmitting = q.reviewSubmitting

\* The list and its place in it.
SameList(p, q) ==
    /\ p.rows = q.rows /\ p.statusFilter = q.statusFilter /\ p.debouncedSearch = q.debouncedSearch
    /\ p.pageSize = q.pageSize /\ p.currentPage = q.currentPage

OnAPage(p) == p.currentPage \in 1 .. TotalPages(Cardinality(filteredRows(p)), p.pageSize)

LEMMA SameListOnAPage ==
    ASSUME NEW p, NEW q, OnAPage(q), SameList(p, q)
    PROVE  OnAPage(p)
<1>1. filteredRows(p) = filteredRows(q)
  BY DEF SameList, filteredRows
<1> QED BY <1>1 DEF SameList, OnAPage

LEMMA ListSize ==
    ASSUME RegistrationsInputs, NEW p \in FullPage
    PROVE  /\ filteredRows(p) \in SUBSET Nat /\ IsFiniteSet(filteredRows(p))
           /\ Cardinality(filteredRows(p)) \in Nat
           /\ p.pageSize \in Nat \ {0} /\ p.currentPage \in Nat \ {0}
<1>1. p.rows \in Rows /\ p.pageSize \in PageSizes /\ p.currentPage \in Nat \ {0}
  BY DEF FullPage
<1>2. filteredRows(p) \subseteq Ids
  BY <1>1, RowType DEF filteredRows
<1> QED BY <1>1, <1>2, InputTypes, FS_Subset, FS_CardinalityType

LEMMA RenderedIs ==
    ASSUME RegistrationsInputs, NEW p \in FullPage, NEW reset \in BOOLEAN
    PROVE  LET q == Rendered(p, reset) IN q \in FullPage /\ Alike(q, p) /\ OnAPage(q)
<1> DEFINE tp == TotalPages(Cardinality(filteredRows(p)), p.pageSize)
           cp == IF reset THEN 1 ELSE p.currentPage
           q == Rendered(p, reset)
<1>1. cp \in Nat \ {0}
  BY ListSize
<1>2. tp \in Nat \ {0} /\ Clamp(cp, tp) \in 1 .. tp
  BY <1>1, ListSize, TotalPagesType, ClampedPage
<1>3. q = [p EXCEPT !.currentPage = Clamp(cp, tp)]
  BY DEF Rendered
<1> HIDE DEF cp, q
<1>4. q \in FullPage /\ Alike(q, p)
  <2>1. Clamp(cp, tp) \in Nat \ {0}
    BY <1>2
  <2> HIDE DEF tp
  <2> QED BY <1>3, <2>1 DEF FullPage, Alike
<1>5. /\ q.rows = p.rows /\ q.statusFilter = p.statusFilter /\ q.debouncedSearch = p.debouncedSearch
      /\ q.pageSize = p.pageSize /\ q.currentPage = Clamp(cp, tp)
  BY <1>3 DEF FullPage
<1>6. filteredRows(q) = filteredRows(p)
  BY <1>5 DEF filteredRows
<1> QED BY <1>2, <1>4, <1>5, <1>6 DEF OnAPage, q

LEMMA OnAPageShowsRows ==
    ASSUME RegistrationsInputs, Typed, OnAPage(page)
    PROVE  PageShowsRegistrations
<1>1. page \in FullPage
  BY DEF Typed
<1> QED BY <1>1, ListSize, ExistingPageShowsRows DEF OnAPage, PageShowsRegistrations, paginatedRows

-----------------------------------------------------------------------------
(* What the actions of the admin do to the page. *)

SamePast ==
    /\ past'.unsure = past.unsure /\ past'.sent = past.sent /\ past'.overruled = past.overruled
    /\ past'.overlap = past.overlap /\ past'.lostForm = past.lostForm /\ past'.viewed = past.viewed

LEMMA ActIs ==
    ASSUME RegistrationsInputs, past \in Past, Act \/ UNCHANGED past
    PROVE  past' \in Past /\ SamePast
<1>1. CASE UNCHANGED past
  BY <1>1 DEF SamePast
<1>2. CASE Act
  <2>1. past' = [past EXCEPT !.acts = past.acts + 1] /\ past.acts + 1 \in 0 .. MaxActs
    BY <1>2, InputTypes DEF Act, Past
  <2>2. \A a \in 0 .. MaxActs : past' = [past EXCEPT !.acts = a] => past' \in Past /\ SamePast
    BY DEF Past, SamePast
  <2> QED BY <2>1, <2>2
<1> QED BY <1>1, <1>2

\* The toolbar, the banners, the pagination.
LEMMA ToolbarIs ==
    ASSUME RegistrationsInputs, Typed, OnAPage(page),
           Search \/ Debounce \/ FilterByStatus \/ ClearFilters \/ DismissError \/ ChangePage
    PROVE  /\ Typed' /\ OnAPage(page')
           /\ UNCHANGED <<table, calls>> /\ Alike(page', page) /\ SamePast
<1>0. page \in FullPage /\ past \in Past
  BY DEF Typed
<1>1. ASSUME NEW p \in FullPage, Alike(p, page), NEW reset \in BOOLEAN, page' = Rendered(p, reset)
      PROVE  page' \in FullPage /\ OnAPage(page') /\ Alike(page', page)
  BY <1>1, RenderedIs DEF Alike
<1>2. ASSUME page' \in FullPage, Alike(page', page), SameList(page', page)
      PROVE  page' \in FullPage /\ OnAPage(page') /\ Alike(page', page)
  BY <1>2, SameListOnAPage
<1>3. page' \in FullPage /\ OnAPage(page') /\ Alike(page', page)
  <2>1. CASE Search
    <3>1. PICK term \in Ids \cup {NoStudent} : page' = [page EXCEPT !.searchTerm = term]
      BY <2>1, InputTypes DEF Search
    <3>2. page' \in FullPage /\ Alike(page', page) /\ SameList(page', page)
      BY <1>0, <3>1 DEF FullPage, Alike, SameList
    <3> QED BY <1>2, <3>2
  <2>2. CASE Debounce
    <3> DEFINE p == [page EXCEPT !.debouncedSearch = page.searchTerm]
    <3>1. p \in FullPage /\ Alike(p, page)
      BY <1>0 DEF FullPage, Alike
    <3>2. page' = Rendered(p, TRUE)
      BY <2>2 DEF Debounce
    <3> QED BY <1>1, <3>1, <3>2
  <2>3. CASE FilterByStatus
    <3>1. PICK s \in Statuses \cup {All} : page' = Rendered([page EXCEPT !.statusFilter = s], TRUE)
      BY <2>3 DEF FilterByStatus
    <3> DEFINE p == [page EXCEPT !.statusFilter = s]
    <3>2. p \in FullPage /\ Alike(p, page)
      BY <1>0 DEF FullPage, Alike
    <3> QED BY <1>1, <3>1, <3>2
  <2>4. CASE ClearFilters
    <3> DEFINE p == [page EXCEPT !.searchTerm = NoStudent, !.debouncedSearch = NoStudent, !.statusFilter = All]
    <3>1. p \in FullPage /\ Alike(p, page)
      BY <1>0 DEF FullPage, Alike
    <3>2. page' = Rendered(p, TRUE)
      BY <2>4 DEF ClearFilters
    <3> QED BY <1>1, <3>1, <3>2
  <2>5. CASE DismissError
    <3>1. page' \in FullPage /\ Alike(page', page) /\ SameList(page', page)
      BY <1>0, <2>5 DEF DismissError, FullPage, Alike, SameList
    <3> QED BY <1>2, <3>1
  <2>6. CASE ChangePage
    <3>1. ASSUME NEW cp \in 1 .. TotalPages(Cardinality(filteredRows(page)), page.pageSize),
                 page' = [page EXCEPT !.currentPage = cp]
          PROVE  page' \in FullPage /\ OnAPage(page') /\ Alike(page', page)
      <4>1. cp \in Nat \ {0}
        BY <1>0, ListSize, TotalPagesType
      <4>2. page' \in FullPage /\ Alike(page', page) /\ page'.currentPage = cp
        BY <1>0, <3>1, <4>1 DEF FullPage, Alike
      <4>3. page'.rows = page.rows /\ page'.statusFilter = page.statusFilter
            /\ page'.debouncedSearch = page.debouncedSearch /\ page'.pageSize = page.pageSize
        BY <1>0, <3>1 DEF FullPage
      <4>4. filteredRows(page') = filteredRows(page)
        BY <4>3 DEF filteredRows
      <4> QED BY <4>2, <4>3, <4>4 DEF OnAPage
    <3>2. ASSUME NEW n \in PageSizes, page' = Rendered([page EXCEPT !.pageSize = n], TRUE)
          PROVE  page' \in FullPage /\ OnAPage(page') /\ Alike(page', page)
      <4> DEFINE p == [page EXCEPT !.pageSize = n]
      <4>1. p \in FullPage /\ Alike(p, page)
        BY <1>0 DEF FullPage, Alike
      <4> QED BY <1>1, <3>2, <4>1
    <3> QED BY <2>6, <3>1, <3>2 DEF ChangePage
  <2> QED BY <2>1, <2>2, <2>3, <2>4, <2>5, <2>6
<1>4. UNCHANGED <<table, calls>> /\ (Act \/ UNCHANGED past)
  BY DEF Search, Debounce, FilterByStatus, ClearFilters, DismissError, ChangePage
<1>5. past' \in Past /\ SamePast
  BY <1>0, <1>4, ActIs
<1> QED BY <1>3, <1>4, <1>5 DEF Typed

\* The rest of what the admin does leaves the list and its place alone.
LEMMA DialogsAreOnAPage ==
    ASSUME Typed, OnAPage(page),
           \/ HideBanner \/ Retry \/ closeView \/ FillReview \/ closeReviewModal \/ submitReview
           \/ \E s \in Ids : openView(s) \/ onActionSelect(s)
    PROVE  SameList(page', page) /\ OnAPage(page')
<1>0. page \in FullPage
  BY DEF Typed
<1>1. SameList(page', page)
  <2>1. CASE HideBanner \/ Retry \/ closeView \/ closeReviewModal
    <3>1. CASE HideBanner
      BY <1>0, <3>1 DEF HideBanner, SameList, FullPage
    <3>2. CASE Retry
      BY <1>0, <3>2 DEF Retry, Fetching, SameList, FullPage
    <3>3. CASE closeView
      BY <1>0, <3>3 DEF closeView, SameList, FullPage
    <3>4. CASE closeReviewModal
      BY <1>0, <3>4 DEF closeReviewModal, SameList, FullPage
    <3> QED BY <2>1, <3>1, <3>2, <3>3, <3>4
  <2>2. CASE FillReview
    BY <1>0, <2>2 DEF FillReview, SameList, FullPage
  <2>3. CASE submitReview
    BY <1>0, <2>3 DEF submitReview, SameList, FullPage
  <2>4. ASSUME NEW s \in Ids, openView(s) \/ onActionSelect(s)
        PROVE  SameList(page', page)
    <3>1. CASE openView(s)
      BY <1>0, <3>1 DEF openView, SameList, FullPage
    <3>2. CASE onActionSelect(s)
      <4> DEFINE opened(action) == openReviewModal(page, s, action)
      <4>1. \A action : SameList(opened(action), page)
        BY <1>0 DEF openReviewModal, SameList, FullPage
      <4>2. \E action : page' = opened(action)
        BY <3>2 DEF onActionSelect
      <4> HIDE DEF opened
      <4> QED BY <4>1, <4>2
    <3> QED BY <2>4, <3>1, <3>2
  <2> QED BY <2>1, <2>2, <2>3, <2>4
<1> QED BY <1>1, SameListOnAPage

\* What else the page holds, but the banners.
SameView(p, q) == p.viewUser = q.viewUser /\ p.viewRow = q.viewRow

SameDialogs(p, q) ==
    /\ p.rows = q.rows /\ p.viewUser = q.viewUser /\ p.viewRow = q.viewRow
    /\ p.reviewModal = q.reviewModal /\ p.reviewSubmitting = q.reviewSubmitting

LEMMA FetchType ==
    ASSUME NEW then \in Decisions \cup {None}
    PROVE  /\ fetchRows(then) \in Fetch /\ fetchRows(then).then = then
           /\ fetchRows(then).op = "fetch" /\ fetchRows(then).at = "server"
<1>1. <<>> \in Rows
  <2>1. <<>> \in [{} -> Student]
    OBVIOUS
  <2> QED BY <2>1 DEF Rows
<1> QED BY <1>1 DEF fetchRows, Fetch

LEMMA FetchingIs ==
    ASSUME NEW p \in FullPage
    PROVE  LET q == Fetching(p) IN
           q \in FullPage /\ SameDialogs(q, p) /\ SameList(q, p) /\ q.successBanner = None
<1> DEFINE q == [p EXCEPT !.loading = TRUE, !.error = FALSE, !.successBanner = None]
<1>1. q \in FullPage
  BY DEF FullPage
<1>2. SameDialogs(q, p)
  BY DEF FullPage, SameDialogs
<1>3. SameList(q, p) /\ q.successBanner = None
  BY DEF FullPage, SameList
<1> QED BY <1>1, <1>2, <1>3 DEF Fetching

LEMMA HideBannerIs ==
    ASSUME Typed, HideBanner
    PROVE  Typed' /\ SameDialogs(page', page) /\ page'.successBanner = None /\ UNCHANGED <<table, calls, past>>
  BY DEF Typed, HideBanner, FullPage, SameDialogs

LEMMA RetryIs ==
    ASSUME RegistrationsInputs, Typed, Retry
    PROVE  /\ Typed' /\ SameDialogs(page', page) /\ page'.successBanner = None
           /\ UNCHANGED table /\ calls' = calls \cup {fetchRows(None)} /\ SamePast
<1>1. page' = Fetching(page) /\ Act /\ UNCHANGED table /\ calls' = calls \cup {fetchRows(None)}
  BY DEF Retry
<1>2. page' \in FullPage /\ SameDialogs(page', page) /\ page'.successBanner = None
  BY <1>1, FetchingIs DEF Typed
<1>3. past' \in Past /\ SamePast
  BY <1>1, ActIs DEF Typed
<1> QED BY <1>1, <1>2, <1>3, FetchType DEF Typed, Calls

LEMMA openViewIs ==
    ASSUME RegistrationsInputs, Typed, NEW s \in Ids, openView(s)
    PROVE  /\ Typed' /\ Alike(page', page) /\ UNCHANGED table /\ SamePast /\ page.reviewModal = Nothing
           /\ \E k \in View : /\ calls' = calls \cup {k} /\ k.op = "view" /\ k.at = "server" /\ k.id = s
                              /\ s \in DOMAIN page.rows /\ k.status = page.rows[s].status
                              /\ k.mixed = past.unsure
<1>0. page \in FullPage /\ past \in Past /\ s \in DOMAIN page.rows /\ page.reviewModal = Nothing
  BY DEF Typed, openView, paginatedRows, filteredRows, Uncovered
<1>1. page' \in FullPage /\ Alike(page', page)
  BY <1>0 DEF openView, FullPage, Alike
<1>2. past' \in Past /\ SamePast
  BY <1>0, ActIs DEF openView
<1> DEFINE shown == page.rows[s].status
           k == [op |-> "view", at |-> "server", ok |-> FALSE, id |-> s, status |-> shown, active |-> FALSE,
                 reviewed |-> shown, mixed |-> past.unsure]
<1>3. calls' = calls \cup {k} /\ UNCHANGED table
  BY DEF openView
<1>4. shown \in Statuses
  <2>1. page.rows \in Rows
    BY <1>0 DEF FullPage
  <2>2. page.rows[s] \in Student
    BY <1>0, <2>1, RowType
  <2> QED BY <2>2 DEF Student
<1> HIDE DEF shown
<1>5. k \in View /\ k.op = "view" /\ k.at = "server" /\ k.id = s /\ k.status = shown /\ k.mixed = past.unsure
  BY <1>0, <1>4 DEF View, Past
<1> HIDE DEF k
<1>6. Typed'
  BY <1>1, <1>2, <1>3, <1>5 DEF Typed, Calls
<1> QED BY <1>0, <1>1, <1>2, <1>3, <1>5, <1>6 DEF shown

LEMMA closeViewIs ==
    ASSUME Typed, closeView
    PROVE  /\ Typed' /\ UNCHANGED <<table, calls>> /\ page'.viewUser = Nothing
           /\ page'.rows = page.rows /\ page'.successBanner = page.successBanner
           /\ page'.reviewModal = page.reviewModal /\ page'.reviewSubmitting = page.reviewSubmitting
           /\ past'.unsure = past.unsure /\ past'.sent = past.sent /\ past'.overruled = past.overruled
           /\ past'.overlap = past.overlap /\ past'.lostForm = past.lostForm
<1>1. /\ page' \in FullPage /\ UNCHANGED <<table, calls>> /\ page'.viewUser = Nothing
      /\ page'.rows = page.rows /\ page'.successBanner = page.successBanner
      /\ page'.reviewModal = page.reviewModal /\ page'.reviewSubmitting = page.reviewSubmitting
  BY DEF Typed, closeView, FullPage
<1>2. /\ past' \in Past
      /\ past'.unsure = past.unsure /\ past'.sent = past.sent /\ past'.overruled = past.overruled
      /\ past'.overlap = past.overlap /\ past'.lostForm = past.lostForm
  BY DEF Typed, closeView, Past
<1> QED BY <1>1, <1>2 DEF Typed

LEMMA closeReviewModalIs ==
    ASSUME Typed, closeReviewModal
    PROVE  /\ Typed' /\ UNCHANGED <<table, calls, past>> /\ ~page.reviewSubmitting /\ ~page'.reviewSubmitting
           /\ page'.rows = page.rows /\ page'.successBanner = page.successBanner /\ page'.reviewModal = Nothing
           /\ page'.viewUser = page.viewUser /\ page'.viewRow = page.viewRow
  BY DEF Typed, closeReviewModal, mayClose, FullPage

LEMMA onActionSelectIs ==
    ASSUME RegistrationsInputs, Typed, NEW s \in Ids, onActionSelect(s)
    PROVE  /\ Typed' /\ UNCHANGED <<table, calls>> /\ SamePast
           /\ page.reviewModal = Nothing /\ page'.reviewModal \in Form /\ page'.reviewModal.id = s
           /\ s \in DOMAIN page.rows /\ page'.successBanner = None
           /\ page'.rows = page.rows /\ page'.reviewSubmitting = page.reviewSubmitting
           /\ page'.viewUser = page.viewUser /\ page'.viewRow = page.viewRow
<1>0. page \in FullPage /\ s \in DOMAIN page.rows /\ page.reviewModal = Nothing
  BY DEF Typed, onActionSelect, paginatedRows, filteredRows, Uncovered
<1>1. PICK action \in Decisions : page' = openReviewModal(page, s, action)
  BY DEF onActionSelect
<1> DEFINE form == [kind |-> "review", id |-> s, action |-> action, reason |-> NoReason, expiry |-> FALSE]
<1>2. form \in Form /\ form.id = s
  BY DEF Form
<1>3. page' = [page EXCEPT !.error = FALSE, !.successBanner = None, !.reviewModal = form]
  BY <1>1 DEF openReviewModal
<1> HIDE DEF form
<1>4. page' \in FullPage
  <2> DEFINE shut == [page EXCEPT !.error = FALSE, !.successBanner = None]
  <2>0. page \in FullPage
    BY <1>0
  <2>1. shut \in FullPage
    BY <2>0 DEF FullPage
  <2>2. page' = [shut EXCEPT !.reviewModal = form]
    BY <2>0, <1>3 DEF FullPage
  <2> HIDE DEF shut
  <2> QED BY <1>2, <2>1, <2>2 DEF FullPage
<1>6. /\ page'.reviewModal = form /\ page'.successBanner = None
      /\ page'.rows = page.rows /\ page'.reviewSubmitting = page.reviewSubmitting
      /\ page'.viewUser = page.viewUser /\ page'.viewRow = page.viewRow
  BY <1>0, <1>3 DEF FullPage
<1>5. past' \in Past /\ SamePast /\ UNCHANGED <<table, calls>>
  BY ActIs DEF Typed, onActionSelect
<1> QED BY <1>0, <1>2, <1>4, <1>5, <1>6 DEF Typed

LEMMA FillReviewIs ==
    ASSUME Typed, FillReview
    PROVE  /\ Typed' /\ UNCHANGED <<table, calls>>
           /\ page.reviewModal \in Form /\ page'.reviewModal \in Form /\ page'.reviewModal.id = page.reviewModal.id
           /\ page'.rows = page.rows /\ page'.successBanner = page.successBanner
           /\ page'.reviewSubmitting = page.reviewSubmitting
           /\ page'.viewUser = page.viewUser /\ page'.viewRow = page.viewRow
           /\ past'.unsure = past.unsure /\ past'.sent = past.sent /\ past'.overruled = past.overruled
           /\ past'.lostForm = past.lostForm /\ past'.viewed = past.viewed
           /\ past'.overlap = (past.overlap \/ page.reviewSubmitting)
<1>0. page \in FullPage /\ past \in Past /\ page.reviewModal \in Form
  BY DEF Typed, FillReview, FormUncovered, FullPage
<1> DEFINE form == page.reviewModal
<1>1. PICK f \in Form : f.id = form.id /\ page' = [page EXCEPT !.reviewModal = f]
  <2>1. ASSUME NEW r \in Reasons \cup {NoReason}, page' = [page EXCEPT !.reviewModal.reason = r]
        PROVE  \E f \in Form : f.id = form.id /\ page' = [page EXCEPT !.reviewModal = f]
    <3> DEFINE f == [form EXCEPT !.reason = r]
    <3>1. f \in Form /\ f.id = form.id
      BY <1>0 DEF Form
    <3>2. page' = [page EXCEPT !.reviewModal = f]
      BY <2>1
    <3> QED BY <3>1, <3>2
  <2>2. ASSUME page' = [page EXCEPT !.reviewModal.expiry = ~@]
        PROVE  \E f \in Form : f.id = form.id /\ page' = [page EXCEPT !.reviewModal = f]
    <3> DEFINE f == [form EXCEPT !.expiry = ~form.expiry]
    <3>1. f \in Form /\ f.id = form.id
      BY <1>0 DEF Form
    <3>2. page' = [page EXCEPT !.reviewModal = f]
      BY <2>2
    <3> QED BY <3>1, <3>2
  <2> QED BY <2>1, <2>2 DEF FillReview
<1>2. /\ page' \in FullPage /\ page'.reviewModal = f
      /\ page'.rows = page.rows /\ page'.successBanner = page.successBanner
      /\ page'.reviewSubmitting = page.reviewSubmitting
      /\ page'.viewUser = page.viewUser /\ page'.viewRow = page.viewRow
  BY <1>0, <1>1 DEF FullPage
<1> DEFINE b == past.overlap \/ page.reviewSubmitting
<1>3. b \in BOOLEAN /\ past' = [past EXCEPT !.overlap = b]
  BY DEF FillReview
<1> HIDE DEF b
<1>4. /\ past' \in Past /\ past'.overlap = b
      /\ past'.unsure = past.unsure /\ past'.sent = past.sent /\ past'.overruled = past.overruled
      /\ past'.lostForm = past.lostForm /\ past'.viewed = past.viewed
  BY <1>0, <1>3 DEF Past
<1>5. UNCHANGED <<table, calls>>
  BY DEF FillReview
<1> QED BY <1>0, <1>1, <1>2, <1>4, <1>5 DEF Typed, b

\* A form that is not complete is not sent.
LEMMA submitReviewFails ==
    ASSUME Typed, submitReview, ~Complete(page.reviewModal)
    PROVE  Typed' /\ Alike(page', page) /\ UNCHANGED <<table, calls, past>>
<1>1. page' = [page EXCEPT !.error = TRUE] /\ UNCHANGED <<table, calls, past>>
  BY DEF submitReview
<1> QED BY <1>1 DEF Typed, FullPage, Alike

LEMMA submitReviewIs ==
    ASSUME RegistrationsInputs, Typed, submitReview, Complete(page.reviewModal)
    PROVE  /\ Typed' /\ UNCHANGED table /\ ~page.reviewSubmitting /\ page'.reviewSubmitting
           /\ page.reviewModal \in Form /\ SameView(page', page)
           /\ page'.rows = page.rows /\ page'.successBanner = page.successBanner /\ page'.reviewModal = page.reviewModal
           /\ \E k \in Review : calls' = calls \cup {k} /\ k.op = "review" /\ k.at = "server" /\ k.form = page.reviewModal
           /\ past'.unsure = past.unsure /\ past'.sent = page.reviewModal /\ past'.viewed = past.viewed
           /\ ~past'.overlap /\ ~past'.lostForm
           /\ past'.overruled = (page.reviewModal.id \notin DOMAIN table)
<1>0. page \in FullPage /\ past \in Past /\ page.reviewModal \in Form /\ ~page.reviewSubmitting
  BY DEF Typed, submitReview, FormUncovered, FullPage
<1>1. /\ page' \in FullPage /\ page'.reviewSubmitting /\ SameView(page', page)
      /\ page'.rows = page.rows /\ page'.successBanner = page.successBanner /\ page'.reviewModal = page.reviewModal
  <2>1. page' = [page EXCEPT !.error = FALSE, !.reviewSubmitting = TRUE]
    BY DEF submitReview
  <2> QED BY <1>0, <2>1 DEF FullPage, SameView
<1> DEFINE b == page.reviewModal.id \notin DOMAIN table
           form == page.reviewModal
           k == [op |-> "review", at |-> "server", ok |-> FALSE, form |-> form]
<1>2. /\ past' = [past EXCEPT !.acts = past.acts + 1, !.sent = form, !.overlap = FALSE, !.lostForm = FALSE,
                               !.overruled = b]
      /\ past.acts + 1 \in 0 .. MaxActs /\ b \in BOOLEAN /\ form \in Form
  BY <1>0, InputTypes DEF submitReview, Past
<1>3. calls' = calls \cup {k} /\ UNCHANGED table
  BY DEF submitReview
<1>4. k \in Review /\ k.op = "review" /\ k.at = "server" /\ k.form = form
  BY <1>0 DEF Review
<1> HIDE DEF b, form, k
<1>5. \A a \in 0 .. MaxActs :
          past' = [past EXCEPT !.acts = a, !.sent = form, !.overlap = FALSE, !.lostForm = FALSE, !.overruled = b] =>
              /\ past' \in Past
              /\ past'.unsure = past.unsure /\ past'.sent = form /\ past'.viewed = past.viewed
              /\ ~past'.overlap /\ ~past'.lostForm /\ past'.overruled = b
  BY <1>0, <1>2 DEF Past
<1>6. /\ past' \in Past
      /\ past'.unsure = past.unsure /\ past'.sent = form /\ past'.viewed = past.viewed
      /\ ~past'.overlap /\ ~past'.lostForm /\ past'.overruled = b
  BY <1>2, <1>5
<1>7. Typed'
  BY <1>1, <1>3, <1>4, <1>6 DEF Typed, Calls
<1>8. \E c \in Review : calls' = calls \cup {c} /\ c.op = "review" /\ c.at = "server" /\ c.form = form
  BY <1>3, <1>4
<1> QED BY <1>0, <1>1, <1>3, <1>6, <1>7, <1>8 DEF b, form

-----------------------------------------------------------------------------
(* What the server and the answers do to the requests. *)

LEMMA AgedOneIs ==
    ASSUME NEW k \in Calls, NEW t
    PROVE  LET a == AgedOne(k, t) IN
           /\ a \in Calls /\ a.op = k.op /\ a.at = k.at /\ a.ok = k.ok
           /\ k.op = "fetch" => a.then = k.then /\ a.rows = k.rows /\ (k.at = "back" => a.old)
           /\ k.op = "review" => a.form = k.form
           /\ k.op = "view" => /\ a.id = k.id /\ a.status = k.status /\ a.reviewed = k.reviewed
                               /\ (k.mixed => a.mixed)
                               /\ (k.at = "server" /\ ~a.mixed => ReviewIn(t, k.id) = ReviewIn(table, k.id))
<1> DEFINE a == AgedOne(k, t)
<1>1. CASE k.op = "fetch" /\ k.at = "back"
  <2>1. k \in Fetch
    BY <1>1, CallKinds
  <2>2. a = [k EXCEPT !.old = TRUE]
    BY <1>1 DEF AgedOne
  <2>3. a \in Fetch /\ a.op = k.op /\ a.at = k.at /\ a.ok = k.ok /\ a.then = k.then /\ a.rows = k.rows /\ a.old
    BY <2>1, <2>2 DEF Fetch
  <2> QED BY <1>1, <2>3 DEF Calls
<1>2. CASE k.op = "view" /\ k.at = "server" /\ ReviewIn(t, k.id) # ReviewIn(table, k.id)
  <2>1. k \in View
    BY <1>2, CallKinds
  <2>2. a = [k EXCEPT !.mixed = TRUE]
    BY <1>2 DEF AgedOne
  <2>3. /\ a \in View /\ a.op = k.op /\ a.at = k.at /\ a.ok = k.ok /\ a.id = k.id /\ a.status = k.status
        /\ a.reviewed = k.reviewed /\ a.mixed
    BY <2>1, <2>2 DEF View
  <2> QED BY <1>2, <2>3 DEF Calls
<1>3. CASE /\ ~(k.op = "fetch" /\ k.at = "back")
           /\ ~(k.op = "view" /\ k.at = "server" /\ ReviewIn(t, k.id) # ReviewIn(table, k.id))
  BY <1>3 DEF AgedOne
<1> QED BY <1>1, <1>2, <1>3

LEMMA AgedIs ==
    ASSUME NEW cs, NEW t
    PROVE  /\ \A c \in Aged(cs, t) : \E b \in cs : c = AgedOne(b, t)
           /\ \A b \in cs : AgedOne(b, t) \in Aged(cs, t)
  BY DEF Aged

\* What a request is after it has moved on.
LEMMA MovedOn ==
    ASSUME NEW k \in Calls, NEW ok \in BOOLEAN
    PROVE  LET j == [k EXCEPT !.at = "back", !.ok = ok]
               i == [k EXCEPT !.at = "back"]
           IN  /\ j \in Calls /\ j.op = k.op /\ j.at = "back" /\ j.ok = ok
               /\ i \in Calls /\ i.op = k.op /\ i.at = "back" /\ i.ok = k.ok
               /\ k.op = "fetch" => j.then = k.then /\ j.rows = k.rows /\ j.old = k.old
               /\ k.op = "review" => j.form = k.form /\ i.form = k.form
               /\ k.op = "view" => /\ j.id = k.id /\ j.status = k.status /\ j.active = k.active
                                   /\ i.id = k.id /\ i.status = k.status /\ i.active = k.active
<1>1. CASE k \in Fetch
  BY <1>1 DEF Fetch, Calls
<1>2. CASE k \in View
  BY <1>2 DEF View, Calls
<1>3. CASE k \in Review
  BY <1>3 DEF Review, Calls
<1> QED BY <1>1, <1>2, <1>3 DEF Calls

LEMMA ReadsIs ==
    ASSUME Typed, NEW k \in calls, GetStudentRegistrationRequests(k)
    PROVE  /\ Typed' /\ UNCHANGED <<table, page, past>> /\ k.op = "fetch"
           /\ \E j \in Fetch : /\ calls' = (calls \ {k}) \cup {j} /\ j.op = "fetch" /\ j.then = k.then
                               /\ j.rows = table
<1>0. k \in Fetch /\ table \in Rows
  BY CallKinds DEF Typed, GetStudentRegistrationRequests
<1> DEFINE j == [k EXCEPT !.at = "back", !.ok = TRUE, !.rows = table]
<1>1. j \in Fetch /\ j.op = "fetch" /\ j.then = k.then /\ j.rows = table
  BY <1>0 DEF Fetch
<1>2. calls' = (calls \ {k}) \cup {j} /\ UNCHANGED <<table, page, past>> /\ k.op = "fetch"
  BY DEF GetStudentRegistrationRequests, Moves
<1> HIDE DEF j
<1> QED BY <1>1, <1>2 DEF Typed, Calls

LEMMA GetUserIs ==
    ASSUME Typed, NEW k \in calls, GetUserByID(k)
    PROVE  /\ Typed' /\ UNCHANGED <<table, page, past>> /\ k \in View /\ k.op = "view" /\ k.at = "server"
           /\ \E j \in View : /\ calls' = (calls \ {k}) \cup {j} /\ j.op = "view" /\ j.at = "back"
                              /\ j.status = k.status /\ j.mixed = k.mixed
                              /\ k.id \in DOMAIN table => j.reviewed = table[k.id].status
<1>0. k \in View /\ k.op = "view" /\ k.at = "server"
  BY CallKinds DEF Typed, GetUserByID
<1> DEFINE i == [k EXCEPT !.at = "back"]
<1>1. i \in View /\ i.op = "view" /\ i.at = "back" /\ i.status = k.status /\ i.mixed = k.mixed
  BY <1>0 DEF View
<1>2. ASSUME NEW a \in BOOLEAN, NEW r \in Statuses
      PROVE  LET j == [k EXCEPT !.at = "back", !.ok = TRUE, !.active = a, !.reviewed = r] IN
             j \in View /\ j.op = "view" /\ j.at = "back" /\ j.status = k.status /\ j.mixed = k.mixed /\ j.reviewed = r
  BY <1>0 DEF View
<1>3. k.id \in DOMAIN table => table[k.id].active \in BOOLEAN /\ table[k.id].status \in Statuses
  <2>1. k.id \in DOMAIN table => table[k.id] \in Student
    BY RowType DEF Typed
  <2> QED BY <2>1 DEF Student
<1>4. \/ /\ k.id \in DOMAIN table
         /\ calls' = (calls \ {k}) \cup {[k EXCEPT !.at = "back", !.ok = TRUE, !.active = table[k.id].active,
                                                   !.reviewed = table[k.id].status]}
      \/ k.id \notin DOMAIN table /\ calls' = (calls \ {k}) \cup {i}
  BY DEF GetUserByID, Moves
<1>5. UNCHANGED <<table, page, past>>
  BY DEF GetUserByID
<1> HIDE DEF i
<1>6. \E j \in View : /\ calls' = (calls \ {k}) \cup {j} /\ j.op = "view" /\ j.at = "back"
                      /\ j.status = k.status /\ j.mixed = k.mixed
                      /\ k.id \in DOMAIN table => j.reviewed = table[k.id].status
  <2>1. CASE k.id \in DOMAIN table
    <3> DEFINE a == table[k.id].active
               r == table[k.id].status
               j == [k EXCEPT !.at = "back", !.ok = TRUE, !.active = a, !.reviewed = r]
    <3>1. a \in BOOLEAN /\ r \in Statuses /\ r = table[k.id].status
      BY <1>3, <2>1
    <3>2. calls' = (calls \ {k}) \cup {j}
      BY <1>4, <2>1
    <3> HIDE DEF a, r
    <3>3. /\ j \in View /\ j.op = "view" /\ j.at = "back" /\ j.status = k.status /\ j.mixed = k.mixed
          /\ j.reviewed = r
      BY <1>2, <3>1, ZenonT(40)
    <3> HIDE DEF j
    <3> QED BY <3>1, <3>2, <3>3
  <2>2. CASE k.id \notin DOMAIN table
    BY <1>1, <1>4, <2>2
  <2> QED BY <2>1, <2>2
<1> QED BY <1>0, <1>5, <1>6 DEF Typed, Calls

LEMMA FailsIs ==
    ASSUME Typed, NEW k \in calls, RequestFails(k)
    PROVE  /\ Typed' /\ UNCHANGED <<table, page>>
           /\ \E j \in Calls : /\ calls' = (calls \ {k}) \cup {j} /\ j.op = k.op /\ j.at = "back" /\ ~j.ok
                               /\ k.op = "fetch" => j.then = k.then /\ j.rows = k.rows
                               /\ k.op = "review" => j.form = k.form
                               /\ k.op = "view" => j.id = k.id
           /\ past'.sent = past.sent /\ past'.overruled = past.overruled /\ past'.overlap = past.overlap
           /\ past'.lostForm = past.lostForm /\ past'.viewed = past.viewed
           /\ past'.unsure = (past.unsure \/ (k.op = "review" /\ k.at = "back"))
<1>0. k \in Calls /\ past \in Past
  BY DEF Typed
<1> DEFINE j == [k EXCEPT !.at = "back", !.ok = FALSE]
           b == past.unsure \/ (k.op = "review" /\ k.at = "back")
<1>1. /\ j \in Calls /\ j.op = k.op /\ j.at = "back" /\ ~j.ok
      /\ k.op = "fetch" => j.then = k.then /\ j.rows = k.rows
      /\ k.op = "review" => j.form = k.form
      /\ k.op = "view" => j.id = k.id
  BY <1>0, MovedOn
<1>2. calls' = (calls \ {k}) \cup {j} /\ UNCHANGED <<table, page>>
  BY DEF RequestFails, Moves
<1>3. past' = [past EXCEPT !.unsure = b] /\ b \in BOOLEAN
  BY DEF RequestFails
<1> HIDE DEF j, b
<1>4. /\ past' \in Past /\ past'.unsure = b
      /\ past'.sent = past.sent /\ past'.overruled = past.overruled /\ past'.overlap = past.overlap
      /\ past'.lostForm = past.lostForm /\ past'.viewed = past.viewed
  BY <1>0, <1>3 DEF Past
<1> QED BY <1>1, <1>2, <1>4 DEF Typed, b

LEMMA ReviewIs ==
    ASSUME Typed, NEW k \in calls, ReviewStudentRegistration(k)
    PROVE  /\ Typed' /\ UNCHANGED <<page, past>> /\ k.op = "review" /\ k.at = "server" /\ k.form \in Form
           /\ \E j \in Review :
                  /\ j.op = "review" /\ j.at = "back" /\ j.form = k.form
                  /\ \/ calls' = (calls \ {k}) \cup {j} /\ UNCHANGED table /\ ~Complete(k.form)
                     \/ /\ calls' = Aged(calls \ {k}, table') \cup {j} /\ j.ok
                        /\ table' = [s \in DOMAIN table |-> IF s = k.form.id THEN Reviewed(k.form) ELSE table[s]]
<1>0. k \in Review /\ k.form \in Form /\ calls \subseteq Calls /\ table \in Rows
  BY CallKinds DEF Typed, ReviewStudentRegistration, Review
<1> DEFINE i == [k EXCEPT !.at = "back"]
           j == [k EXCEPT !.at = "back", !.ok = TRUE]
<1>1. i \in Review /\ i.op = "review" /\ i.at = "back" /\ i.form = k.form
  BY <1>0 DEF Review
<1>2. j \in Review /\ j.op = "review" /\ j.at = "back" /\ j.form = k.form /\ j.ok
  BY <1>0 DEF Review
<1>3. \/ calls' = (calls \ {k}) \cup {i} /\ UNCHANGED table /\ ~Complete(k.form)
      \/ /\ calls' = Aged(calls \ {k}, table') \cup {j}
         /\ table' = [s \in DOMAIN table |-> IF s = k.form.id THEN Reviewed(k.form) ELSE table[s]]
  BY DEF ReviewStudentRegistration, Moves
<1>4. UNCHANGED <<page, past>> /\ k.op = "review" /\ k.at = "server"
  BY DEF ReviewStudentRegistration
<1> HIDE DEF i, j
<1>5. table' \in Rows
  <2>1. Reviewed(k.form) \in Student
    BY <1>0 DEF Reviewed, Student, Form, Statuses
  <2>2. DOMAIN table \in SUBSET Ids /\ \A s \in DOMAIN table : table[s] \in Student
    BY <1>0, RowType
  <2>3. [s \in DOMAIN table |-> IF s = k.form.id THEN Reviewed(k.form) ELSE table[s]] \in [DOMAIN table -> Student]
    BY <2>1, <2>2
  <2> QED BY <1>0, <1>3, <2>2, <2>3 DEF Rows
<1>6. calls' \subseteq Calls
  <2>1. Aged(calls \ {k}, table') \subseteq Calls
    BY <1>0, AgedIs, AgedOneIs
  <2> QED BY <1>0, <1>1, <1>2, <1>3, <2>1 DEF Calls
<1>7. Typed'
  BY <1>4, <1>5, <1>6 DEF Typed
<1> QED BY <1>0, <1>1, <1>2, <1>3, <1>4, <1>7

LEMMA OthersIs ==
    ASSUME RegistrationsInputs, Typed, OthersWrite
    PROVE  /\ Typed' /\ UNCHANGED page /\ calls' = Aged(calls, table') /\ past'.unsure
           /\ past'.sent = past.sent /\ past'.overlap = past.overlap /\ past'.lostForm = past.lostForm
           /\ past'.viewed = past.viewed
           /\ past'.overruled = (past.overruled \/ (past.sent # Nothing
                                   /\ ReviewIn(table', past.sent.id) # ReviewIn(table, past.sent.id)))
<1>0. table \in Rows /\ calls \subseteq Calls /\ past \in Past
  BY DEF Typed
<1> DEFINE b == past.overruled \/ (past.sent # Nothing
                    /\ ReviewIn(table', past.sent.id) # ReviewIn(table, past.sent.id))
<1>1. /\ past' = [past EXCEPT !.acts = past.acts + 1, !.unsure = TRUE, !.overruled = b]
      /\ past.acts + 1 \in 0 .. MaxActs /\ b \in BOOLEAN /\ UNCHANGED page /\ calls' = Aged(calls, table')
  BY <1>0, InputTypes DEF OthersWrite, Past
<1> HIDE DEF b
<1>2. \A a \in 0 .. MaxActs : past' = [past EXCEPT !.acts = a, !.unsure = TRUE, !.overruled = b] =>
          /\ past' \in Past /\ past'.unsure /\ past'.overruled = b
          /\ past'.sent = past.sent /\ past'.overlap = past.overlap /\ past'.lostForm = past.lostForm
          /\ past'.viewed = past.viewed
  BY <1>0, <1>1 DEF Past
<1>3. /\ past' \in Past /\ past'.unsure /\ past'.overruled = b
      /\ past'.sent = past.sent /\ past'.overlap = past.overlap /\ past'.lostForm = past.lostForm
      /\ past'.viewed = past.viewed
  BY <1>1, <1>2
<1>4. calls' \subseteq Calls
  BY <1>0, <1>1, AgedIs, AgedOneIs
<1>5. table' \in Rows
  <2> DEFINE D == DOMAIN table
  <2>0. D \in SUBSET Ids /\ table \in [D -> Student]
    BY <1>0 DEF Rows
  <2>1. ASSUME NEW s \in Ids,
               table' = [q \in D \cup {s} |-> IF q \in D THEN table[q]
                         ELSE [status |-> "pending", reason |-> NoReason, active |-> FALSE]]
        PROVE  table' \in Rows
    <3>1. [status |-> "pending", reason |-> NoReason, active |-> FALSE] \in Student
      BY DEF Student, Statuses
    <3>2. table' \in [D \cup {s} -> Student] /\ D \cup {s} \in SUBSET Ids
      BY <2>0, <2>1, <3>1
    <3> QED BY <3>2 DEF Rows
  <2>2. ASSUME NEW s \in D, NEW action \in Decisions, NEW r \in Reasons,
               table' = [table EXCEPT ![s] = [status |-> action, reason |-> r, active |-> action = "approved"]]
        PROVE  table' \in Rows
    <3>1. [status |-> action, reason |-> r, active |-> action = "approved"] \in Student
      BY DEF Student, Statuses
    <3>2. table' \in [D -> Student]
      BY <2>0, <2>2, <3>1
    <3> QED BY <2>0, <3>2 DEF Rows
  <2>3. ASSUME NEW s \in D, table' = [table EXCEPT ![s].active = ~@]
        PROVE  table' \in Rows
    <3>1. [table[s] EXCEPT !.active = ~table[s].active] \in Student
      BY <2>0, <2>3 DEF Student
    <3>2. table' = [table EXCEPT ![s] = [table[s] EXCEPT !.active = ~table[s].active]]
      BY <2>3
    <3>3. table' \in [D -> Student]
      BY <2>0, <3>1, <3>2
    <3> QED BY <2>0, <3>3 DEF Rows
  <2>4. ASSUME NEW s \in D, table' = [q \in D \ {s} |-> table[q]]
        PROVE  table' \in Rows
    <3>1. table' \in [D \ {s} -> Student] /\ D \ {s} \in SUBSET Ids
      BY <2>0, <2>4
    <3> QED BY <3>1 DEF Rows
  <2> DEFINE Registered(s) ==
                 table' = [q \in D \cup {s} |-> IF q \in D THEN table[q]
                           ELSE [status |-> "pending", reason |-> NoReason, active |-> FALSE]]
             ReviewedAs(s, action, r) ==
                 table' = [table EXCEPT ![s] = [status |-> action, reason |-> r, active |-> action = "approved"]]
             Switched(s) == table' = [table EXCEPT ![s].active = ~@]
             Deleted(s) == table' = [q \in D \ {s} |-> table[q]]
  <2>5. \/ \E s \in Ids : Registered(s)
        \/ \E s \in D : \E action \in Decisions, r \in Reasons : ReviewedAs(s, action, r)
        \/ \E s \in D : Switched(s)
        \/ \E s \in D : Deleted(s)
    BY DEF OthersWrite
  <2>6. /\ \A s \in Ids : Registered(s) => table' \in Rows
        /\ \A s \in D : \A action \in Decisions, r \in Reasons : ReviewedAs(s, action, r) => table' \in Rows
        /\ \A s \in D : Switched(s) => table' \in Rows
        /\ \A s \in D : Deleted(s) => table' \in Rows
    <3>1. \A s \in Ids : Registered(s) => table' \in Rows
      BY <2>1
    <3>2. \A s \in D : \A action \in Decisions, r \in Reasons : ReviewedAs(s, action, r) => table' \in Rows
      BY <2>2
    <3>3. \A s \in D : Switched(s) => table' \in Rows
      BY <2>3
    <3>4. \A s \in D : Deleted(s) => table' \in Rows
      BY <2>4
    <3> QED BY <3>1, <3>2, <3>3, <3>4
  <2> HIDE DEF Registered, ReviewedAs, Switched, Deleted, D
  <2> QED BY <2>5, <2>6
<1> QED BY <1>1, <1>3, <1>4, <1>5 DEF Typed, b

LEMMA FetchAnswersIs ==
    ASSUME RegistrationsInputs, Typed, NEW k \in calls, FetchAnswers(k)
    PROVE  /\ Typed' /\ UNCHANGED table /\ OnAPage(page')
           /\ k \in Fetch /\ k.op = "fetch" /\ k.at = "back" /\ calls' = calls \ {k}
           /\ page'.rows = (IF k.ok THEN k.rows ELSE page.rows)
           /\ page'.viewUser = page.viewUser /\ page'.viewRow = page.viewRow
           /\ k.then = None => /\ page'.successBanner = page.successBanner
                               /\ page'.reviewModal = page.reviewModal
                               /\ page'.reviewSubmitting = page.reviewSubmitting
           /\ k.then # None => /\ page'.successBanner = k.then
                               /\ page'.reviewModal = Nothing
                               /\ ~page'.reviewSubmitting
           /\ past'.unsure = (IF k.ok THEN k.old ELSE TRUE)
           /\ past'.lostForm = (IF k.then = None THEN past.lostForm ELSE page.reviewModal # past.sent)
           /\ past'.sent = past.sent /\ past'.overruled = past.overruled
           /\ past'.overlap = past.overlap /\ past'.viewed = past.viewed
<1>0. page \in FullPage /\ past \in Past /\ k \in Fetch /\ k.op = "fetch" /\ k.at = "back"
  BY CallKinds DEF Typed, FetchAnswers
<1> DEFINE p == IF k.ok THEN [page EXCEPT !.rows = k.rows, !.loading = FALSE]
                ELSE [page EXCEPT !.error = TRUE, !.loading = FALSE]
           q == IF k.then = None THEN p ELSE Finished(p, k.then)
<1>1. /\ p \in FullPage /\ p.rows = (IF k.ok THEN k.rows ELSE page.rows)
      /\ p.viewUser = page.viewUser /\ p.viewRow = page.viewRow /\ p.successBanner = page.successBanner
      /\ p.reviewModal = page.reviewModal /\ p.reviewSubmitting = page.reviewSubmitting
  <2>1. CASE k.ok
    <3>1. k.rows \in Rows
      BY <1>0 DEF Fetch
    <3> QED BY <1>0, <2>1, <3>1 DEF FullPage
  <2>2. CASE ~k.ok
    BY <1>0, <2>2 DEF FullPage
  <2> QED BY <2>1, <2>2
<1>2. page' = Rendered(q, FALSE) /\ calls' = calls \ {k} /\ UNCHANGED table
  BY DEF FetchAnswers
<1> HIDE DEF p
<1>3. /\ q \in FullPage /\ q.rows = p.rows /\ q.viewUser = p.viewUser /\ q.viewRow = p.viewRow
      /\ k.then = None => /\ q.successBanner = page.successBanner
                          /\ q.reviewModal = page.reviewModal
                          /\ q.reviewSubmitting = page.reviewSubmitting
      /\ k.then # None => /\ q.successBanner = k.then /\ q.reviewModal = Nothing /\ ~q.reviewSubmitting
  <2>1. CASE k.then = None
    BY <1>1, <2>1
  <2>2. CASE k.then # None
    <3>1. k.then \in Decisions
      BY <1>0, <2>2 DEF Fetch
    <3>2. q = [p EXCEPT !.successBanner = k.then, !.reviewModal = Nothing, !.reviewSubmitting = FALSE]
      BY <2>2 DEF Finished
    <3> HIDE DEF q
    <3> QED BY <1>1, <2>2, <3>1, <3>2 DEF FullPage
  <2> QED BY <2>1, <2>2
<1> HIDE DEF q
<1>4. page' \in FullPage /\ Alike(page', q) /\ OnAPage(page')
  BY <1>2, <1>3, RenderedIs
<1> DEFINE u == IF k.ok THEN k.old ELSE TRUE
           b == IF k.then = None THEN past.lostForm ELSE page.reviewModal # past.sent
<1>5. u \in BOOLEAN /\ b \in BOOLEAN /\ past' = [past EXCEPT !.unsure = u, !.lostForm = b]
  BY <1>0 DEF FetchAnswers, Fetch, Past
<1> HIDE DEF u, b
<1>6. /\ past' \in Past /\ past'.unsure = u /\ past'.lostForm = b
      /\ past'.sent = past.sent /\ past'.overruled = past.overruled
      /\ past'.overlap = past.overlap /\ past'.viewed = past.viewed
  BY <1>0, <1>5 DEF Past
<1>7. Typed'
  BY <1>2, <1>4, <1>6 DEF Typed
<1>8. /\ page'.rows = (IF k.ok THEN k.rows ELSE page.rows)
      /\ page'.viewUser = page.viewUser /\ page'.viewRow = page.viewRow
      /\ page'.successBanner = q.successBanner /\ page'.reviewModal = q.reviewModal
      /\ page'.reviewSubmitting = q.reviewSubmitting
  BY <1>1, <1>3, <1>4 DEF Alike
<1> QED BY <1>0, <1>2, <1>3, <1>4, <1>6, <1>7, <1>8 DEF u, b

LEMMA ViewAnswersIs ==
    ASSUME Typed, NEW k \in calls, ViewAnswers(k)
    PROVE  /\ Typed' /\ UNCHANGED table /\ SameList(page', page)
           /\ k \in View /\ k.op = "view" /\ k.at = "back" /\ calls' = calls \ {k}
           /\ page'.rows = page.rows /\ page'.successBanner = page.successBanner
           /\ page'.reviewModal = page.reviewModal /\ page'.reviewSubmitting = page.reviewSubmitting
           /\ k.ok => page'.viewUser = [id |-> k.id, active |-> k.active] /\ page'.viewRow = [id |-> k.id, status |-> k.status]
           /\ k.ok => past'.viewed = k
           /\ ~k.ok => page'.viewUser = Nothing
           /\ past'.unsure = past.unsure /\ past'.sent = past.sent /\ past'.overruled = past.overruled
           /\ past'.overlap = past.overlap /\ past'.lostForm = past.lostForm
<1>0. page \in FullPage /\ k \in View /\ k.op = "view" /\ k.at = "back" /\ calls' = calls \ {k}
  BY CallKinds DEF Typed, ViewAnswers
<1> DEFINE user == [id |-> k.id, active |-> k.active]
           row == [id |-> k.id, status |-> k.status]
<1>1. user \in [id : Ids, active : BOOLEAN] /\ row \in [id : Ids, status : Statuses]
  BY <1>0 DEF View
<1> DEFINE v == IF k.ok THEN k ELSE Nothing
<1>2. /\ UNCHANGED table /\ past' \in Past /\ past'.viewed = v
      /\ past'.unsure = past.unsure /\ past'.sent = past.sent /\ past'.overruled = past.overruled
      /\ past'.overlap = past.overlap /\ past'.lostForm = past.lostForm
  <2>1. v \in {Nothing} \cup View /\ past' = [past EXCEPT !.viewed = v] /\ past \in Past /\ UNCHANGED table
    BY <1>0 DEF ViewAnswers, Typed
  <2> HIDE DEF v
  <2> QED BY <2>1 DEF Past
<1>3. CASE k.ok
  <2>1. page' = [page EXCEPT !.viewUser = user, !.viewLoadingId = NoStudent, !.viewRow = row]
    BY <1>3 DEF ViewAnswers, Viewed
  <2> HIDE DEF user, row
  <2>2. /\ page' \in FullPage /\ SameList(page', page)
        /\ page'.rows = page.rows /\ page'.successBanner = page.successBanner
        /\ page'.reviewModal = page.reviewModal /\ page'.reviewSubmitting = page.reviewSubmitting
        /\ page'.viewUser = user /\ page'.viewRow = row
    BY <1>0, <1>1, <2>1 DEF FullPage, SameList
  <2> QED BY <1>0, <1>2, <1>3, <2>2 DEF Typed, user, row
<1>4. CASE ~k.ok
  <2>1. page' = [page EXCEPT !.viewUser = Nothing, !.viewRow = Nothing, !.viewLoadingId = NoStudent, !.error = TRUE]
    BY <1>4 DEF ViewAnswers
  <2>2. /\ page' \in FullPage /\ SameList(page', page)
        /\ page'.rows = page.rows /\ page'.successBanner = page.successBanner
        /\ page'.reviewModal = page.reviewModal /\ page'.reviewSubmitting = page.reviewSubmitting
        /\ page'.viewUser = Nothing
    BY <1>0, <2>1 DEF FullPage, SameList
  <2> QED BY <1>0, <1>2, <1>4, <2>2 DEF Typed
<1> QED BY <1>3, <1>4

LEMMA ReviewAnswersIs ==
    ASSUME Typed, NEW k \in calls, ReviewAnswers(k)
    PROVE  /\ Typed' /\ UNCHANGED <<table, past>> /\ SameList(page', page)
           /\ k \in Review /\ k.op = "review" /\ k.at = "back" /\ SameView(page', page)
           /\ page'.rows = page.rows /\ page'.reviewModal = page.reviewModal
           /\ k.ok => /\ calls' = (calls \ {k}) \cup {fetchRows(k.form.action)} /\ k.form.action \in Decisions
                      /\ page'.successBanner = None /\ page'.reviewSubmitting = page.reviewSubmitting
           /\ ~k.ok => /\ calls' = calls \ {k}
                       /\ page'.successBanner = page.successBanner /\ ~page'.reviewSubmitting
<1>0. page \in FullPage /\ k \in Review /\ k.op = "review" /\ k.at = "back" /\ k.form.action \in Decisions
  <2>1. page \in FullPage /\ k \in Review /\ k.op = "review" /\ k.at = "back"
    BY CallKinds DEF Typed, ReviewAnswers
  <2> QED BY <2>1 DEF Review, Form
<1>1. UNCHANGED <<table, past>>
  BY DEF ReviewAnswers
<1>2. CASE k.ok
  <2>1. page' = Fetching(page) /\ calls' = (calls \ {k}) \cup {fetchRows(k.form.action)}
    BY <1>2 DEF ReviewAnswers, Stored, FetchAfter
  <2>2. page' \in FullPage /\ SameDialogs(page', page) /\ SameList(page', page) /\ page'.successBanner = None
    BY <1>0, <2>1, FetchingIs
  <2>3. calls' \subseteq Calls
    BY <1>0, <2>1, FetchType DEF Typed, Calls
  <2>4. Typed'
    BY <1>1, <2>2, <2>3 DEF Typed
  <2> QED BY <1>0, <1>1, <1>2, <2>1, <2>2, <2>4 DEF SameDialogs, SameView
<1>3. CASE ~k.ok
  <2>1. page' = [page EXCEPT !.error = TRUE, !.reviewSubmitting = FALSE] /\ calls' = calls \ {k}
    BY <1>3 DEF ReviewAnswers, Stored, FetchAfter
  <2>2. /\ page' \in FullPage /\ SameView(page', page) /\ SameList(page', page)
        /\ page'.rows = page.rows /\ page'.reviewModal = page.reviewModal
        /\ page'.successBanner = page.successBanner /\ ~page'.reviewSubmitting
    BY <1>0, <2>1 DEF FullPage, SameView, SameList
  <2> QED BY <1>0, <1>1, <1>3, <2>1, <2>2 DEF Typed
<1> QED BY <1>2, <1>3

-----------------------------------------------------------------------------
(* Every state is well typed, and its page exists. *)

LEMMA TypedInit == RegistrationsInputs /\ Init => Typed
<1> SUFFICES ASSUME RegistrationsInputs, Init PROVE Typed
  OBVIOUS
<1>1. table \in Rows /\ calls = {fetchRows(None)}
  BY InputTypes DEF Init, MountCalls
<1>2. <<>> \in Rows
  BY FetchType DEF fetchRows, Fetch
<1>3. page \in FullPage
  BY <1>2, InputTypes DEF Init, Mounted, FullPage
<1>4. past \in Past
  BY InputTypes DEF Init, NoPast, Past
<1> QED BY <1>1, <1>3, <1>4, FetchType DEF Typed, Calls

LEMMA OnAPageInit == RegistrationsInputs /\ Init => OnAPage(page)
<1> SUFFICES ASSUME RegistrationsInputs, Init PROVE OnAPage(page)
  OBVIOUS
<1>1. page \in FullPage /\ page.currentPage = 1
  BY TypedInit DEF Typed, Init, Mounted
<1>2. TotalPages(Cardinality(filteredRows(page)), page.pageSize) \in Nat \ {0}
  BY <1>1, ListSize, TotalPagesType
<1> QED BY <1>1, <1>2 DEF OnAPage

LEMMA TypedStep ==
    ASSUME RegistrationsInputs, Typed, OnAPage(page), [Next]_vars
    PROVE  Typed' /\ OnAPage(page')
<1>1. CASE UNCHANGED vars
  BY <1>1 DEF vars, Typed, OnAPage, filteredRows
<1>2. CASE Search \/ Debounce \/ FilterByStatus \/ ClearFilters \/ DismissError \/ ChangePage
  BY <1>2, ToolbarIs
<1>3. CASE HideBanner \/ Retry \/ closeView \/ closeReviewModal \/ FillReview
  BY <1>3, HideBannerIs, RetryIs, closeViewIs, closeReviewModalIs, FillReviewIs, DialogsAreOnAPage
<1>4. CASE submitReview
  BY <1>4, submitReviewFails, submitReviewIs, DialogsAreOnAPage
<1>5. ASSUME NEW s \in Ids, openView(s) \/ onActionSelect(s)
      PROVE  Typed' /\ OnAPage(page')
  BY <1>5, openViewIs, onActionSelectIs, DialogsAreOnAPage
<1>6. ASSUME UNCHANGED page
      PROVE  OnAPage(page')
  BY <1>6
<1>7. CASE OthersWrite
  BY <1>6, <1>7, OthersIs
<1>8. ASSUME NEW k \in calls,
             GetStudentRegistrationRequests(k) \/ GetUserByID(k) \/ ReviewStudentRegistration(k) \/ RequestFails(k)
      PROVE  Typed' /\ OnAPage(page')
  BY <1>6, <1>8, ReadsIs, GetUserIs, ReviewIs, FailsIs
<1>9. ASSUME NEW k \in calls, FetchAnswers(k) \/ ViewAnswers(k) \/ ReviewAnswers(k)
      PROVE  Typed' /\ OnAPage(page')
  BY <1>9, FetchAnswersIs, ViewAnswersIs, ReviewAnswersIs, SameListOnAPage
<1>10. CASE Next
  BY <1>10, <1>2, <1>3, <1>4, <1>5, <1>7, <1>8, <1>9 DEF Next
<1> QED BY <1>1, <1>10

-----------------------------------------------------------------------------
(* The list and the table. *)

\* A review was stored and its list is to come: its fetch is in flight, or its answer, whose
\* handler fetches.
Coming(k) == (k.op = "fetch" /\ k.then # None) \/ (k.op = "review" /\ k.at = "back" /\ k.ok)
ListWillChange == \E k \in calls : Coming(k)

\* An answer that is not old has what the server has.
FreshAnswers == \A k \in calls : k.op = "fetch" /\ k.at = "back" /\ k.ok /\ ~k.old => k.rows = table

Current == FreshAnswers /\ (~past.unsure /\ ~ListWillChange => page.rows = table)

Fresh(k, t) == k.op = "fetch" /\ k.at = "back" /\ k.ok /\ ~k.old => k.rows = t

LEMMA CurrentKept ==
    ASSUME Current, UNCHANGED table, page'.rows = page.rows, past.unsure => past'.unsure,
           calls \subseteq calls', \A k \in calls' : k \in calls \/ k.at = "server"
    PROVE  Current'
  BY DEF Current, FreshAnswers, ListWillChange, Coming

LEMMA CurrentMoved ==
    ASSUME Current, UNCHANGED <<table, page>>, past.unsure => past'.unsure, NEW k \in calls, NEW j,
           calls' = (calls \ {k}) \cup {j}, Fresh(j, table), Coming(k) => Coming(j) \/ past'.unsure
    PROVE  Current'
<1>1. FreshAnswers'
  BY DEF Current, FreshAnswers, Fresh
<1>2. ListWillChange => ListWillChange' \/ past'.unsure
  BY DEF ListWillChange, Coming
<1> QED BY <1>1, <1>2 DEF Current

LEMMA CurrentLeft ==
    ASSUME Current, UNCHANGED table, page'.rows = page.rows, past.unsure => past'.unsure, NEW k \in calls,
           calls' = calls \ {k}, ~Coming(k)
    PROVE  Current'
<1>1. FreshAnswers'
  BY DEF Current, FreshAnswers
<1>2. ListWillChange => ListWillChange'
  BY DEF ListWillChange, Coming
<1> QED BY <1>1, <1>2 DEF Current

LEMMA CurrentAged ==
    ASSUME NEW cs \in SUBSET Calls, NEW S, calls' = Aged(cs, table') \cup S, \A k \in S : k.op # "fetch",
           past'.unsure \/ ListWillChange'
    PROVE  Current'
<1>1. FreshAnswers'
  BY AgedIs, AgedOneIs DEF FreshAnswers
<1> QED BY <1>1 DEF Current

LEMMA CurrentStep ==
    ASSUME RegistrationsInputs, Typed, OnAPage(page), Current, [Next]_vars
    PROVE  Current'
<1>0. calls \subseteq Calls
  BY DEF Typed
<1>1. CASE UNCHANGED vars
  BY <1>1, CurrentKept DEF vars
<1>2. CASE Search \/ Debounce \/ FilterByStatus \/ ClearFilters \/ DismissError \/ ChangePage
  BY <1>2, ToolbarIs, CurrentKept DEF Alike, SamePast
<1>3. CASE HideBanner \/ closeView \/ closeReviewModal \/ FillReview
  BY <1>3, HideBannerIs, closeViewIs, closeReviewModalIs, FillReviewIs, CurrentKept DEF SameDialogs
<1>4. CASE Retry
  <2>1. /\ SameDialogs(page', page) /\ UNCHANGED table /\ calls' = calls \cup {fetchRows(None)} /\ SamePast
    BY <1>4, RetryIs
  <2>2. fetchRows(None).at = "server"
    BY FetchType
  <2> QED BY <2>1, <2>2, CurrentKept DEF SameDialogs, SamePast
<1>5. CASE submitReview
  <2>1. CASE Complete(page.reviewModal)
    <3>1. /\ UNCHANGED table /\ page'.rows = page.rows /\ past'.unsure = past.unsure
          /\ \E k \in Review : calls' = calls \cup {k} /\ k.at = "server"
      BY <1>5, <2>1, submitReviewIs
    <3> QED BY <3>1, CurrentKept
  <2>2. CASE ~Complete(page.reviewModal)
    BY <1>5, <2>2, submitReviewFails, CurrentKept DEF Alike
  <2> QED BY <2>1, <2>2
<1>6. ASSUME NEW s \in Ids, openView(s)
      PROVE  Current'
  <2>1. /\ UNCHANGED table /\ Alike(page', page) /\ past'.unsure = past.unsure
        /\ \E k \in View : calls' = calls \cup {k} /\ k.at = "server"
    BY <1>6, openViewIs DEF SamePast
  <2> QED BY <2>1, CurrentKept DEF Alike
<1>7. ASSUME NEW s \in Ids, onActionSelect(s)
      PROVE  Current'
  BY <1>7, onActionSelectIs, CurrentKept DEF SamePast
<1>8. CASE OthersWrite
  <2> DEFINE S == {}
  <2>1. calls' = Aged(calls, table') \cup S /\ past'.unsure /\ \A k \in S : k.op # "fetch"
    BY <1>8, OthersIs
  <2> HIDE DEF S
  <2> QED BY <1>0, <2>1, CurrentAged
<1>9. ASSUME NEW k \in calls, GetStudentRegistrationRequests(k)
      PROVE  Current'
  <2>1. PICK j \in Fetch : calls' = (calls \ {k}) \cup {j} /\ j.op = "fetch" /\ j.then = k.then /\ j.rows = table
    BY <1>9, ReadsIs
  <2>2. UNCHANGED <<table, page, past>> /\ k.op = "fetch"
    BY <1>9, ReadsIs
  <2>3. Fresh(j, table) /\ (Coming(k) => Coming(j))
    BY <2>1, <2>2 DEF Fresh, Coming
  <2> QED BY <2>1, <2>2, <2>3, CurrentMoved
<1>10. ASSUME NEW k \in calls, GetUserByID(k)
       PROVE  Current'
  <2>1. PICK j \in View : calls' = (calls \ {k}) \cup {j} /\ j.op = "view"
    BY <1>10, GetUserIs
  <2>2. UNCHANGED <<table, page, past>> /\ k.op = "view"
    BY <1>10, GetUserIs
  <2>3. Fresh(j, table) /\ ~Coming(k)
    BY <2>1, <2>2 DEF Fresh, Coming
  <2> QED BY <2>1, <2>2, <2>3, CurrentMoved
<1>11. ASSUME NEW k \in calls, ReviewStudentRegistration(k)
       PROVE  Current'
  <2>1. PICK j \in Review :
            /\ j.op = "review" /\ j.at = "back"
            /\ \/ calls' = (calls \ {k}) \cup {j} /\ UNCHANGED table
               \/ calls' = Aged(calls \ {k}, table') \cup {j} /\ j.ok
    BY <1>11, ReviewIs
  <2>2. UNCHANGED <<page, past>> /\ k.op = "review" /\ k.at = "server"
    BY <1>11, ReviewIs
  <2>3. Fresh(j, table) /\ ~Coming(k)
    BY <2>1, <2>2 DEF Fresh, Coming
  <2>4. CASE calls' = (calls \ {k}) \cup {j} /\ UNCHANGED table
    BY <2>2, <2>3, <2>4, CurrentMoved
  <2>5. CASE calls' = Aged(calls \ {k}, table') \cup {j} /\ j.ok
    <3>1. ListWillChange'
      BY <2>1, <2>5 DEF ListWillChange, Coming
    <3>2. calls \ {k} \in SUBSET Calls /\ \A c \in {j} : c.op # "fetch"
      BY <1>0, <2>1
    <3> QED BY <2>5, <3>1, <3>2, CurrentAged
  <2> QED BY <2>1, <2>4, <2>5
<1>12. ASSUME NEW k \in calls, RequestFails(k)
       PROVE  Current'
  <2>1. PICK j \in Calls : /\ calls' = (calls \ {k}) \cup {j} /\ j.op = k.op /\ ~j.ok
                           /\ k.op = "fetch" => j.then = k.then
    BY <1>12, FailsIs
  <2>2. UNCHANGED <<table, page>> /\ past'.unsure = (past.unsure \/ (k.op = "review" /\ k.at = "back"))
    BY <1>12, FailsIs
  <2>3. Fresh(j, table) /\ (Coming(k) => Coming(j) \/ past'.unsure)
    BY <2>1, <2>2 DEF Fresh, Coming
  <2> QED BY <2>1, <2>2, <2>3, CurrentMoved
<1>13. ASSUME NEW k \in calls, FetchAnswers(k)
       PROVE  Current'
  <2>1. /\ k.op = "fetch" /\ k.at = "back" /\ calls' = calls \ {k} /\ UNCHANGED table
        /\ page'.rows = (IF k.ok THEN k.rows ELSE page.rows)
        /\ past'.unsure = (IF k.ok THEN k.old ELSE TRUE)
    BY <1>13, FetchAnswersIs
  <2>2. FreshAnswers'
    BY <2>1 DEF Current, FreshAnswers
  <2>3. ~past'.unsure => page'.rows = table
    BY <2>1 DEF Current, FreshAnswers
  <2> QED BY <2>1, <2>2, <2>3 DEF Current
<1>14. ASSUME NEW k \in calls, ViewAnswers(k)
       PROVE  Current'
  <2>1. k.op = "view" /\ calls' = calls \ {k} /\ UNCHANGED table /\ page'.rows = page.rows /\ past'.unsure = past.unsure
    BY <1>14, ViewAnswersIs
  <2>2. ~Coming(k)
    BY <2>1 DEF Coming
  <2> QED BY <2>1, <2>2, CurrentLeft
<1>15. ASSUME NEW k \in calls, ReviewAnswers(k)
       PROVE  Current'
  <2>1. /\ k \in Review /\ k.op = "review" /\ k.at = "back" /\ UNCHANGED <<table, past>> /\ page'.rows = page.rows
        /\ k.ok => calls' = (calls \ {k}) \cup {fetchRows(k.form.action)} /\ k.form.action \in Decisions
        /\ ~k.ok => calls' = calls \ {k}
    BY <1>15, ReviewAnswersIs
  <2>2. CASE k.ok
    <3>1. /\ fetchRows(k.form.action).op = "fetch" /\ fetchRows(k.form.action).at = "server"
          /\ fetchRows(k.form.action).then # None
      BY <2>1, <2>2, FetchType DEF Decisions, None
    <3>2. ListWillChange'
      BY <2>1, <2>2, <3>1 DEF ListWillChange, Coming
    <3>3. FreshAnswers'
      BY <2>1, <2>2, <3>1 DEF Current, FreshAnswers
    <3> QED BY <3>2, <3>3 DEF Current
  <2>3. CASE ~k.ok
    <3>1. ~Coming(k)
      BY <2>1, <2>3 DEF Coming
    <3> QED BY <2>1, <2>3, <3>1, CurrentLeft
  <2> QED BY <2>2, <2>3
<1>16. CASE Next
  <2>1. CASE \E k \in calls :
                \/ GetStudentRegistrationRequests(k) \/ GetUserByID(k) \/ ReviewStudentRegistration(k) \/ RequestFails(k)
                \/ FetchAnswers(k) \/ ViewAnswers(k) \/ ReviewAnswers(k)
    BY <2>1, <1>9, <1>10, <1>11, <1>12, <1>13, <1>14, <1>15
  <2>2. CASE \E s \in Ids : openView(s) \/ onActionSelect(s)
    BY <2>2, <1>6, <1>7
  <2> QED BY <1>2, <1>3, <1>4, <1>5, <1>8, <1>16, <2>1, <2>2 DEF Next
<1> QED BY <1>1, <1>16

LEMMA CurrentInit == Init => Current
  BY DEF Init, MountCalls, NoPast, fetchRows, Current, FreshAnswers

LEMMA CurrentMeans == Current => RegistrationsAreCurrent
  BY DEF Current, ListWillChange, Coming, Waiting, RegistrationsAreCurrent

-----------------------------------------------------------------------------
(* One review at a time. *)

\* While submitReview waits, its form stays open and there is no banner.
OneAtATime ==
    /\ \A j, k \in calls : Waiting(j) /\ Waiting(k) => j = k
    /\ \A k \in calls : Waiting(k) => page.reviewSubmitting
    /\ page.reviewSubmitting => page.reviewModal # Nothing
    /\ page.reviewModal # Nothing => page.successBanner = None

\* It waits for the form that was sent last, which the server does not refuse; the form
\* that is open is that form, but for what was typed meanwhile.
SentLast ==
    /\ \A k \in calls : Waiting(k) => /\ past.sent \in Form
                                      /\ k.op = "review" => k.form = past.sent /\ Complete(k.form)
                                      /\ k.op = "fetch" => k.then = past.sent.action
                                      /\ ~past.overlap => page.reviewModal = past.sent
    /\ page.successBanner # None => past.sent \in Form
    /\ ~past.overlap => ~past.lostForm

\* c is what became of b.
Became(c, b) ==
    /\ c.op = b.op
    /\ c.op = "review" => c.form = b.form
    /\ c.op = "fetch" => c.then = b.then

ReviewFlow == OneAtATime /\ SentLast

\* Nothing happens to the review that is under way.
LEMMA FlowKept ==
    ASSUME ReviewFlow,
           page'.reviewModal = page.reviewModal, page'.reviewSubmitting = page.reviewSubmitting,
           page'.successBanner \in {page.successBanner, None},
           past'.sent = past.sent, past'.overlap = past.overlap, past'.lostForm = past.lostForm,
           \A c \in calls' : Waiting(c) => \E b \in calls : Waiting(b) /\ Became(c, b),
           \A c, d \in calls' : Waiting(c) /\ Waiting(d) => c = d
    PROVE  ReviewFlow'
<1>1. OneAtATime'
  BY DEF ReviewFlow, OneAtATime, Waiting
<1>2. \A c \in calls' : Waiting(c) => /\ past.sent \in Form
                                      /\ c.op = "review" => c.form = past.sent /\ Complete(c.form)
                                      /\ c.op = "fetch" => c.then = past.sent.action
                                      /\ ~past.overlap => page.reviewModal = past.sent
  BY DEF ReviewFlow, SentLast, Became
<1>3. SentLast'
  BY <1>2 DEF ReviewFlow, SentLast, Waiting
<1> QED BY <1>1, <1>3 DEF ReviewFlow

\* A request that nobody waits for is sent, or an answer that nobody waits for arrives.
LEMMA FlowBeside ==
    ASSUME ReviewFlow,
           page'.reviewModal = page.reviewModal, page'.reviewSubmitting = page.reviewSubmitting,
           page'.successBanner \in {page.successBanner, None},
           past'.sent = past.sent, past'.overlap = past.overlap, past'.lostForm = past.lostForm,
           \A c \in calls' : c \in calls \/ ~Waiting(c)
    PROVE  ReviewFlow'
<1>1. \A c \in calls' : Waiting(c) => \E b \in calls : Waiting(b) /\ Became(c, b)
  BY DEF Became
<1>2. \A c, d \in calls' : Waiting(c) /\ Waiting(d) => c = d
  BY DEF ReviewFlow, OneAtATime
<1> QED BY <1>1, <1>2, FlowKept

LEMMA FlowMoved ==
    ASSUME ReviewFlow, UNCHANGED page, NEW k \in calls, NEW j, calls \subseteq Calls, k.op = j.op, Became(j, k),
           calls' = (calls \ {k}) \cup {j} \/ calls' = Aged(calls \ {k}, table') \cup {j},
           past'.sent = past.sent, past'.overlap = past.overlap, past'.lostForm = past.lostForm
    PROVE  ReviewFlow'
<1>1. Waiting(j) => Waiting(k)
  BY DEF Waiting, Became
<1>2. \A c \in calls' : c = j \/ \E b \in calls \ {k} : c = b \/ c = AgedOne(b, table')
  BY AgedIs
<1>3. \A b \in calls : Became(AgedOne(b, table'), b) /\ (Waiting(AgedOne(b, table')) => Waiting(b))
  BY AgedOneIs DEF Became, Waiting
<1>4. \A c \in calls' : Waiting(c) => \E b \in calls : Waiting(b) /\ Became(c, b)
  BY <1>1, <1>2, <1>3 DEF Became
<1>5. ASSUME NEW c \in calls', NEW d \in calls', Waiting(c), Waiting(d)
      PROVE  c = d
  <2>1. CASE Waiting(j)
    <3>1. \A b \in calls \ {k} : ~Waiting(b)
      BY <1>1, <2>1 DEF ReviewFlow, OneAtATime
    <3> QED BY <1>2, <1>3, <1>5, <3>1
  <2>2. CASE ~Waiting(j) /\ calls' = (calls \ {k}) \cup {j}
    BY <1>5, <2>2 DEF ReviewFlow, OneAtATime
  <2>3. CASE ~Waiting(j) /\ calls' = Aged(calls \ {k}, table') \cup {j}
    <3>1. PICK a \in calls \ {k} : c = AgedOne(a, table')
      BY <1>5, <2>3, AgedIs
    <3>2. PICK b \in calls \ {k} : d = AgedOne(b, table')
      BY <1>5, <2>3, AgedIs
    <3>3. Waiting(a) /\ Waiting(b)
      BY <1>3, <1>5, <3>1, <3>2
    <3>4. a = b
      BY <3>3 DEF ReviewFlow, OneAtATime
    <3> QED BY <3>1, <3>2, <3>4
  <2> QED BY <2>1, <2>2, <2>3
<1> QED BY <1>4, <1>5, FlowKept

LEMMA FlowAged ==
    ASSUME ReviewFlow, UNCHANGED page, calls \subseteq Calls, calls' = Aged(calls, table'),
           past'.sent = past.sent, past'.overlap = past.overlap, past'.lostForm = past.lostForm
    PROVE  ReviewFlow'
<1>1. \A b \in calls : Became(AgedOne(b, table'), b) /\ (Waiting(AgedOne(b, table')) => Waiting(b))
  BY AgedOneIs DEF Became, Waiting
<1>2. \A c \in calls' : Waiting(c) => \E b \in calls : Waiting(b) /\ Became(c, b)
  BY <1>1, AgedIs
<1>3. ASSUME NEW c \in calls', NEW d \in calls', Waiting(c), Waiting(d)
      PROVE  c = d
  <2>1. PICK a \in calls : c = AgedOne(a, table')
    BY AgedIs
  <2>2. PICK b \in calls : d = AgedOne(b, table')
    BY AgedIs
  <2>3. a = b
    BY <1>1, <1>3, <2>1, <2>2 DEF ReviewFlow, OneAtATime
  <2> QED BY <2>1, <2>2, <2>3
<1> QED BY <1>2, <1>3, FlowKept

LEMMA FlowStep ==
    ASSUME RegistrationsInputs, Typed, OnAPage(page), ReviewFlow, [Next]_vars
    PROVE  ReviewFlow'
<1>0. calls \subseteq Calls /\ page \in FullPage /\ past \in Past
  BY DEF Typed
<1>1. CASE UNCHANGED vars
  BY <1>1, FlowBeside DEF vars
<1>2. CASE Search \/ Debounce \/ FilterByStatus \/ ClearFilters \/ DismissError \/ ChangePage
  BY <1>2, ToolbarIs, FlowBeside DEF Alike, SamePast
<1>3. CASE HideBanner \/ closeView
  BY <1>3, HideBannerIs, closeViewIs, FlowBeside DEF SameDialogs
<1>4. CASE Retry
  <2>1. /\ SameDialogs(page', page) /\ page'.successBanner = None
        /\ calls' = calls \cup {fetchRows(None)} /\ SamePast
    BY <1>4, RetryIs
  <2>2. ~Waiting(fetchRows(None))
    BY FetchType DEF Waiting
  <2> QED BY <2>1, <2>2, FlowBeside DEF SameDialogs, SamePast
<1>5. ASSUME NEW s \in Ids, openView(s)
      PROVE  ReviewFlow'
  <2>1. Alike(page', page) /\ SamePast
    BY <1>5, openViewIs
  <2>2. PICK k \in View : calls' = calls \cup {k} /\ k.op = "view"
    BY <1>5, openViewIs
  <2>3. ~Waiting(k)
    BY <2>2 DEF Waiting
  <2> QED BY <2>1, <2>2, <2>3, FlowBeside DEF Alike, SamePast

\* No form is open when one is opened.
<1>6. ASSUME NEW s \in Ids, onActionSelect(s)
      PROVE  ReviewFlow'
  <2>1. /\ UNCHANGED calls /\ SamePast /\ page.reviewModal = Nothing
        /\ page'.successBanner = None /\ page'.reviewSubmitting = page.reviewSubmitting
    BY <1>6, onActionSelectIs
  <2>2. ~page.reviewSubmitting /\ \A k \in calls : ~Waiting(k)
    BY <2>1 DEF ReviewFlow, OneAtATime
  <2>3. OneAtATime'
    BY <2>1, <2>2 DEF OneAtATime, Waiting
  <2>4. SentLast'
    BY <2>1, <2>2 DEF ReviewFlow, SentLast, Waiting, SamePast
  <2> QED BY <2>3, <2>4 DEF ReviewFlow
<1>7. CASE FillReview
  <2>1. /\ UNCHANGED calls /\ page.reviewModal \in Form /\ page'.reviewModal \in Form
        /\ page'.reviewSubmitting = page.reviewSubmitting /\ page'.successBanner = page.successBanner
        /\ past'.lostForm = past.lostForm /\ past'.sent = past.sent
        /\ past'.overlap = (past.overlap \/ page.reviewSubmitting)
    BY <1>7, FillReviewIs
  <2>2. page.reviewModal # Nothing /\ page'.reviewModal # Nothing
    BY <2>1 DEF Form, Nothing
  <2>3. OneAtATime'
    BY <2>1, <2>2 DEF ReviewFlow, OneAtATime, Waiting
  <2>4. SentLast'
    BY <2>1 DEF ReviewFlow, OneAtATime, SentLast, Waiting
  <2> QED BY <2>3, <2>4 DEF ReviewFlow
<1>8. CASE closeReviewModal
  <2>1. /\ UNCHANGED <<calls, past>> /\ ~page.reviewSubmitting /\ ~page'.reviewSubmitting
        /\ page'.reviewModal = Nothing /\ page'.successBanner = page.successBanner
    BY <1>8, closeReviewModalIs
  <2>2. \A k \in calls : ~Waiting(k)
    BY <2>1 DEF ReviewFlow, OneAtATime
  <2>3. OneAtATime'
    BY <2>1, <2>2 DEF OneAtATime, Waiting
  <2>4. SentLast'
    BY <2>1, <2>2 DEF ReviewFlow, SentLast, Waiting
  <2> QED BY <2>3, <2>4 DEF ReviewFlow
<1>9. CASE submitReview
  <2>1. CASE ~Complete(page.reviewModal)
    BY <1>9, <2>1, submitReviewFails, FlowBeside DEF Alike
  <2>2. CASE Complete(page.reviewModal)
    <3>1. /\ ~page.reviewSubmitting /\ page'.reviewSubmitting /\ page.reviewModal \in Form
          /\ page'.successBanner = page.successBanner /\ page'.reviewModal = page.reviewModal
          /\ ~past'.overlap /\ ~past'.lostForm /\ past'.sent = page.reviewModal
      BY <1>9, <2>2, submitReviewIs
    <3>2. PICK k \in Review : calls' = calls \cup {k} /\ k.op = "review" /\ k.form = page.reviewModal
      BY <1>9, <2>2, submitReviewIs
    <3>3. \A c \in calls : ~Waiting(c)
      BY <3>1 DEF ReviewFlow, OneAtATime
    <3>4. page.reviewModal # Nothing
      BY <3>1 DEF Form, Nothing
    <3>5. OneAtATime'
      BY <3>1, <3>2, <3>3, <3>4 DEF ReviewFlow, OneAtATime, Waiting
    <3>6. SentLast'
      BY <2>2, <3>1, <3>2, <3>3 DEF ReviewFlow, SentLast, Waiting
    <3> QED BY <3>5, <3>6 DEF ReviewFlow
  <2> QED BY <2>1, <2>2
<1>10. CASE OthersWrite
  BY <1>0, <1>10, OthersIs, FlowAged
<1>11. ASSUME NEW k \in calls, GetStudentRegistrationRequests(k)
       PROVE  ReviewFlow'
  <2>1. PICK j \in Fetch : calls' = (calls \ {k}) \cup {j} /\ j.op = "fetch" /\ j.then = k.then
    BY <1>11, ReadsIs
  <2>2. UNCHANGED <<page, past>> /\ k.op = "fetch"
    BY <1>11, ReadsIs
  <2> QED BY <1>0, <2>1, <2>2, FlowMoved DEF Became
<1>12. ASSUME NEW k \in calls, GetUserByID(k)
       PROVE  ReviewFlow'
  <2>1. PICK j \in View : calls' = (calls \ {k}) \cup {j} /\ j.op = "view"
    BY <1>12, GetUserIs
  <2>2. UNCHANGED <<page, past>> /\ k.op = "view"
    BY <1>12, GetUserIs
  <2> QED BY <1>0, <2>1, <2>2, FlowMoved DEF Became
<1>13. ASSUME NEW k \in calls, ReviewStudentRegistration(k)
       PROVE  ReviewFlow'
  <2>1. PICK j \in Review : /\ j.op = "review" /\ j.form = k.form
                            /\ calls' = (calls \ {k}) \cup {j} \/ calls' = Aged(calls \ {k}, table') \cup {j}
    BY <1>13, ReviewIs
  <2>2. UNCHANGED <<page, past>> /\ k.op = "review"
    BY <1>13, ReviewIs
  <2> QED BY <1>0, <2>1, <2>2, FlowMoved DEF Became
<1>14. ASSUME NEW k \in calls, RequestFails(k)
       PROVE  ReviewFlow'
  <2>1. PICK j \in Calls : /\ calls' = (calls \ {k}) \cup {j} /\ j.op = k.op
                           /\ k.op = "fetch" => j.then = k.then
                           /\ k.op = "review" => j.form = k.form
    BY <1>14, FailsIs
  <2>2. UNCHANGED page /\ past'.sent = past.sent /\ past'.overlap = past.overlap /\ past'.lostForm = past.lostForm
    BY <1>14, FailsIs
  <2> QED BY <1>0, <2>1, <2>2, FlowMoved DEF Became

\* The list arrives: whoever waited for it closes the form.
<1>15. ASSUME NEW k \in calls, FetchAnswers(k)
       PROVE  ReviewFlow'
  <2>1. /\ k \in Fetch /\ k.op = "fetch" /\ calls' = calls \ {k}
        /\ past'.lostForm = (IF k.then = None THEN past.lostForm ELSE page.reviewModal # past.sent)
        /\ past'.overlap = past.overlap /\ past'.sent = past.sent
    BY <1>15, FetchAnswersIs
  <2>2. CASE k.then = None
    <3>1. page'.successBanner = page.successBanner /\ page'.reviewModal = page.reviewModal
          /\ page'.reviewSubmitting = page.reviewSubmitting
      BY <1>15, <2>2, FetchAnswersIs
    <3>2. past'.lostForm = past.lostForm
      BY <2>1, <2>2
    <3> QED BY <2>1, <3>1, <3>2, FlowBeside
  <2>3. CASE k.then # None
    <3>1. page'.successBanner = k.then /\ page'.reviewModal = Nothing /\ ~page'.reviewSubmitting
      BY <1>15, <2>3, FetchAnswersIs
    <3>2. Waiting(k)
      BY <2>1, <2>3 DEF Waiting
    <3>3. \A c \in calls' : ~Waiting(c)
      BY <2>1, <3>2 DEF ReviewFlow, OneAtATime
    <3>4. past.sent \in Form /\ (~past.overlap => page.reviewModal = past.sent)
      BY <3>2 DEF ReviewFlow, SentLast
    <3>5. OneAtATime'
      BY <3>1, <3>3 DEF OneAtATime, Waiting
    <3>6. SentLast'
      BY <2>1, <2>3, <3>3, <3>4 DEF SentLast, Waiting
    <3> QED BY <3>5, <3>6 DEF ReviewFlow
  <2> QED BY <2>2, <2>3
<1>16. ASSUME NEW k \in calls, ViewAnswers(k)
       PROVE  ReviewFlow'
  BY <1>16, ViewAnswersIs, FlowBeside

\* The review is answered: the handler goes on to wait for the list, or gives up.
<1>17. ASSUME NEW k \in calls, ReviewAnswers(k)
       PROVE  ReviewFlow'
  <2>1. UNCHANGED past /\ k \in Review /\ k.op = "review" /\ page'.reviewModal = page.reviewModal
    BY <1>17, ReviewAnswersIs
  <2>2. Waiting(k)
    BY <2>1 DEF Waiting
  <2>3. \A c \in calls \ {k} : ~Waiting(c)
    BY <2>2 DEF ReviewFlow, OneAtATime
  <2>4. /\ page.reviewSubmitting /\ page.reviewModal # Nothing /\ page.successBanner = None
        /\ past.sent \in Form /\ k.form = past.sent
        /\ ~past.overlap => page.reviewModal = past.sent /\ ~past.lostForm
    BY <2>1, <2>2 DEF ReviewFlow, OneAtATime, SentLast
  <2>5. CASE k.ok
    <3>1. /\ calls' = (calls \ {k}) \cup {fetchRows(k.form.action)} /\ k.form.action \in Decisions
          /\ page'.successBanner = None /\ page'.reviewSubmitting = page.reviewSubmitting
      BY <1>17, <2>5, ReviewAnswersIs
    <3>2. fetchRows(k.form.action).op = "fetch" /\ fetchRows(k.form.action).then = k.form.action
      BY <3>1, FetchType
    <3>3. OneAtATime'
      BY <2>1, <2>3, <2>4, <3>1 DEF OneAtATime, Waiting
    <3>4. SentLast'
      BY <2>1, <2>3, <2>4, <3>1, <3>2 DEF SentLast, Waiting
    <3> QED BY <3>3, <3>4 DEF ReviewFlow
  <2>6. CASE ~k.ok
    <3>1. calls' = calls \ {k} /\ page'.successBanner = page.successBanner /\ ~page'.reviewSubmitting
      BY <1>17, <2>6, ReviewAnswersIs
    <3>2. OneAtATime'
      BY <2>3, <2>4, <3>1 DEF OneAtATime, Waiting
    <3>3. SentLast'
      BY <2>1, <2>3, <2>4, <3>1 DEF SentLast, Waiting
    <3> QED BY <3>2, <3>3 DEF ReviewFlow
  <2> QED BY <2>5, <2>6
<1>18. CASE Next
  <2>1. CASE \E k \in calls :
                \/ GetStudentRegistrationRequests(k) \/ GetUserByID(k) \/ ReviewStudentRegistration(k) \/ RequestFails(k)
                \/ FetchAnswers(k) \/ ViewAnswers(k) \/ ReviewAnswers(k)
    BY <2>1, <1>11, <1>12, <1>13, <1>14, <1>15, <1>16, <1>17
  <2>2. CASE \E s \in Ids : openView(s) \/ onActionSelect(s)
    BY <2>2, <1>5, <1>6
  <2> QED BY <1>2, <1>3, <1>4, <1>7, <1>8, <1>9, <1>10, <1>18, <2>1, <2>2 DEF Next
<1> QED BY <1>1, <1>18

LEMMA FlowInit == Init => ReviewFlow
<1> SUFFICES ASSUME Init PROVE ReviewFlow
  OBVIOUS
<1>1. ~Waiting(fetchRows(None))
  BY DEF Waiting, fetchRows
<1> QED BY <1>1 DEF Init, Mounted, MountCalls, NoPast, ReviewFlow, OneAtATime, SentLast

\* The decision that was sent last is stored.
Decided(decision) == ReviewIn(table, past.sent.id) = decision

\* What DecisionsKept says of a request.
CallKnown(k) ==
    /\ k.op = "fetch" /\ k.then # None => Decided(k.then)
    /\ k.op = "review" /\ k.at = "back" /\ k.ok => Decided(k.form.action)

\* Unless others overruled it, a decision whose review was answered, or is in the banner, is
\* stored.
DecisionsKept ==
    past.sent # Nothing /\ ~past.overruled =>
        /\ past.sent.id \in DOMAIN table
        /\ \A k \in calls : CallKnown(k)
        /\ page.successBanner # None => Decided(page.successBanner)

\* A step that decides nothing.
LEMMA DecisionsSame ==
    ASSUME DecisionsKept, UNCHANGED table, past'.sent = past.sent, past'.overruled = past.overruled,
           page'.successBanner \in {page.successBanner, None},
           past.sent # Nothing /\ ~past.overruled => \A c \in calls' : c \in calls \/ CallKnown(c)
    PROVE  DecisionsKept'
<1>1. SUFFICES ASSUME past.sent # Nothing, ~past.overruled PROVE DecisionsKept'
  BY DEF DecisionsKept
<1>2. \A c \in calls' : CallKnown(c)
  BY <1>1 DEF DecisionsKept
<1>3. page'.successBanner # None => Decided(page'.successBanner)
  BY <1>1 DEF DecisionsKept
<1>4. past.sent.id \in DOMAIN table
  BY <1>1 DEF DecisionsKept
<1> QED BY <1>2, <1>3, <1>4 DEF DecisionsKept, CallKnown, Decided, ReviewIn

LEMMA DecisionsAdmin ==
    ASSUME RegistrationsInputs, Typed, OnAPage(page), ReviewFlow, DecisionsKept,
           \/ Search \/ Debounce \/ FilterByStatus \/ ClearFilters \/ Retry \/ DismissError \/ HideBanner \/ ChangePage
           \/ closeView \/ FillReview \/ closeReviewModal \/ submitReview
           \/ \E s \in Ids : openView(s) \/ onActionSelect(s)
    PROVE  DecisionsKept'
<1>1. CASE Search \/ Debounce \/ FilterByStatus \/ ClearFilters \/ DismissError \/ ChangePage
  BY <1>1, ToolbarIs, DecisionsSame DEF Alike, SamePast
<1>2. CASE HideBanner \/ closeView \/ closeReviewModal \/ FillReview
  BY <1>2, HideBannerIs, closeViewIs, closeReviewModalIs, FillReviewIs, DecisionsSame DEF SameDialogs
<1>3. CASE Retry
  <2>1. /\ SameDialogs(page', page) /\ page'.successBanner = None
        /\ UNCHANGED table /\ calls' = calls \cup {fetchRows(None)} /\ SamePast
    BY <1>3, RetryIs
  <2>2. CallKnown(fetchRows(None))
    BY DEF CallKnown, fetchRows
  <2> QED BY <2>1, <2>2, DecisionsSame DEF SamePast
<1>4. ASSUME NEW s \in Ids, openView(s)
      PROVE  DecisionsKept'
  <2>1. Alike(page', page) /\ UNCHANGED table /\ SamePast
    BY <1>4, openViewIs
  <2>2. PICK k \in View : calls' = calls \cup {k} /\ k.op = "view"
    BY <1>4, openViewIs
  <2>3. CallKnown(k)
    BY <2>2 DEF CallKnown
  <2> QED BY <2>1, <2>2, <2>3, DecisionsSame DEF Alike, SamePast
<1>5. ASSUME NEW s \in Ids, onActionSelect(s)
      PROVE  DecisionsKept'
  BY <1>5, onActionSelectIs, DecisionsSame DEF SamePast

\* While a form is open there is no banner, and nothing is under way when one is sent.
<1>6. CASE submitReview
  <2>1. CASE ~Complete(page.reviewModal)
    BY <1>6, <2>1, submitReviewFails, DecisionsSame DEF Alike
  <2>2. CASE Complete(page.reviewModal)
    <3>1. /\ UNCHANGED table /\ ~page.reviewSubmitting /\ page.reviewModal \in Form
          /\ page'.successBanner = page.successBanner
          /\ past'.sent = page.reviewModal /\ past'.overruled = (page.reviewModal.id \notin DOMAIN table)
      BY <1>6, <2>2, submitReviewIs
    <3>2. PICK k \in Review : calls' = calls \cup {k} /\ k.op = "review" /\ k.at = "server"
      BY <1>6, <2>2, submitReviewIs
    <3>3. page.reviewModal # Nothing
      BY <3>1 DEF Form, Nothing
    <3>4. page.successBanner = None /\ \A c \in calls : ~Waiting(c)
      BY <3>1, <3>3 DEF ReviewFlow, OneAtATime
    <3>5. \A c \in calls' : /\ c.op = "fetch" => c.then = None
                            /\ ~(c.op = "review" /\ c.at = "back")
      BY <3>2, <3>4 DEF Waiting
    <3> QED BY <3>1, <3>4, <3>5 DEF DecisionsKept, CallKnown
  <2> QED BY <2>1, <2>2
<1> QED BY <1>1, <1>2, <1>3, <1>4, <1>5, <1>6

LEMMA DecisionsServer ==
    ASSUME RegistrationsInputs, Typed, ReviewFlow, DecisionsKept,
           \/ OthersWrite
           \/ \E k \in calls : \/ GetStudentRegistrationRequests(k) \/ GetUserByID(k)
                               \/ ReviewStudentRegistration(k) \/ RequestFails(k)
    PROVE  DecisionsKept'
<1>0. calls \subseteq Calls
  BY DEF Typed

\* Others may delete its student or decide otherwise: then they have overruled it.
<1>1. CASE OthersWrite
  <2>1. /\ UNCHANGED page /\ calls' = Aged(calls, table') /\ past'.sent = past.sent
        /\ past'.overruled = (past.overruled \/ (past.sent # Nothing
                                /\ ReviewIn(table', past.sent.id) # ReviewIn(table, past.sent.id)))
    BY <1>1, OthersIs
  <2>2. SUFFICES ASSUME past.sent # Nothing, ~past'.overruled PROVE DecisionsKept'
    BY <2>1 DEF DecisionsKept
  <2>3. ~past.overruled /\ ReviewIn(table', past.sent.id) = ReviewIn(table, past.sent.id)
    BY <2>1, <2>2
  <2>4. past.sent.id \in DOMAIN table /\ (page.successBanner # None => Decided(page.successBanner))
    BY <2>2, <2>3 DEF DecisionsKept
  <2>5. table[past.sent.id].status # None
    <3>1. table[past.sent.id] \in Student
      BY <2>4, RowType DEF Typed
    <3> QED BY <3>1 DEF Student, Statuses, Decisions, None
  <2>6. past.sent.id \in DOMAIN table'
    BY <2>3, <2>4, <2>5 DEF ReviewIn
  <2>7. ASSUME NEW c \in calls' PROVE CallKnown(c)
    <3>1. PICK b \in calls : c = AgedOne(b, table')
      BY <2>1, AgedIs
    <3>2. CallKnown(b)
      BY <2>2, <2>3 DEF DecisionsKept
    <3>3. /\ c.op = b.op /\ c.at = b.at /\ c.ok = b.ok
          /\ b.op = "fetch" => c.then = b.then
          /\ b.op = "review" => c.form = b.form
      BY <1>0, <3>1, AgedOneIs
    <3> QED BY <3>2, <3>3 DEF CallKnown
  <2> QED BY <2>1, <2>3, <2>4, <2>6, <2>7 DEF DecisionsKept, CallKnown, Decided
<1>2. ASSUME NEW k \in calls, GetStudentRegistrationRequests(k)
      PROVE  DecisionsKept'
  <2>1. PICK j \in Fetch : calls' = (calls \ {k}) \cup {j} /\ j.op = "fetch" /\ j.then = k.then
    BY <1>2, ReadsIs
  <2>2. UNCHANGED <<table, page, past>> /\ k.op = "fetch"
    BY <1>2, ReadsIs
  <2>3. past.sent # Nothing /\ ~past.overruled => CallKnown(j)
    BY <2>1, <2>2 DEF DecisionsKept, CallKnown
  <2> QED BY <2>1, <2>2, <2>3, DecisionsSame
<1>3. ASSUME NEW k \in calls, GetUserByID(k)
      PROVE  DecisionsKept'
  <2>1. PICK j \in View : calls' = (calls \ {k}) \cup {j} /\ j.op = "view"
    BY <1>3, GetUserIs
  <2>2. UNCHANGED <<table, page, past>>
    BY <1>3, GetUserIs
  <2>3. CallKnown(j)
    BY <2>1 DEF CallKnown
  <2> QED BY <2>1, <2>2, <2>3, DecisionsSame
<1>4. ASSUME NEW k \in calls, RequestFails(k)
      PROVE  DecisionsKept'
  <2>1. PICK j \in Calls : /\ calls' = (calls \ {k}) \cup {j} /\ j.op = k.op /\ ~j.ok
                           /\ k.op = "fetch" => j.then = k.then
    BY <1>4, FailsIs
  <2>2. UNCHANGED <<table, page>> /\ past'.sent = past.sent /\ past'.overruled = past.overruled
    BY <1>4, FailsIs
  <2>3. past.sent # Nothing /\ ~past.overruled => CallKnown(j)
    BY <2>1 DEF DecisionsKept, CallKnown
  <2> QED BY <2>1, <2>2, <2>3, DecisionsSame
<1>5. ASSUME NEW k \in calls, ReviewStudentRegistration(k)
      PROVE  DecisionsKept'
  <2>1. UNCHANGED <<page, past>> /\ k.op = "review" /\ k.form \in Form
    BY <1>5, ReviewIs
  <2>2. Waiting(k)
    BY <2>1 DEF Waiting
  <2>3. /\ \A c \in calls \ {k} : ~Waiting(c)
        /\ page.successBanner = None
        /\ past.sent \in Form /\ k.form = past.sent /\ Complete(k.form)
    BY <2>1, <2>2 DEF ReviewFlow, OneAtATime, SentLast
  <2>4. PICK j \in Review :
            /\ j.op = "review" /\ j.form = k.form /\ calls' = Aged(calls \ {k}, table') \cup {j}
            /\ table' = [s \in DOMAIN table |-> IF s = k.form.id THEN Reviewed(k.form) ELSE table[s]]
    BY <1>5, <2>3, ReviewIs
  <2>5. SUFFICES ASSUME past.sent # Nothing, ~past.overruled PROVE DecisionsKept'
    BY <2>1 DEF DecisionsKept
  <2>6. past.sent.id \in DOMAIN table /\ DOMAIN table' = DOMAIN table
    BY <2>4, <2>5 DEF DecisionsKept
  <2>7. ReviewIn(table', past.sent.id) = k.form.action
    BY <2>3, <2>4, <2>6 DEF Reviewed, ReviewIn
  <2>8. ASSUME NEW c \in calls'
        PROVE  (c.op = "fetch" => c.then = None) /\ (c.op = "review" => c.form = k.form)
    <3>1. CASE c = j
      BY <2>4, <3>1
    <3>2. CASE c # j
      <4>1. PICK b \in calls \ {k} : c = AgedOne(b, table')
        BY <2>4, <3>2, AgedIs
      <4>2. c.op = b.op /\ (b.op = "fetch" => c.then = b.then)
        BY <1>0, <4>1, AgedOneIs
      <4> QED BY <2>3, <4>2 DEF Waiting
    <3> QED BY <3>1, <3>2
  <2>9. \A c \in calls' : c.op = "review" => Decided(c.form.action)'
    BY <2>1, <2>7, <2>8 DEF Decided
  <2> QED BY <2>1, <2>3, <2>6, <2>8, <2>9 DEF DecisionsKept, CallKnown
<1> QED BY <1>1, <1>2, <1>3, <1>4, <1>5

LEMMA DecisionsAnswers ==
    ASSUME RegistrationsInputs, Typed, ReviewFlow, DecisionsKept,
           NEW k \in calls, FetchAnswers(k) \/ ViewAnswers(k) \/ ReviewAnswers(k)
    PROVE  DecisionsKept'
<1>1. CASE FetchAnswers(k)
  <2>1. /\ k.op = "fetch" /\ calls' = calls \ {k} /\ UNCHANGED table
        /\ past'.sent = past.sent /\ past'.overruled = past.overruled
        /\ k.then = None => page'.successBanner = page.successBanner
        /\ k.then # None => page'.successBanner = k.then
    BY <1>1, FetchAnswersIs
  <2>2. SUFFICES ASSUME past.sent # Nothing, ~past.overruled PROVE DecisionsKept'
    BY <2>1 DEF DecisionsKept
  <2>3. past.sent.id \in DOMAIN table /\ \A c \in calls : CallKnown(c)
    BY <2>2 DEF DecisionsKept
  <2>4. page'.successBanner # None => Decided(page'.successBanner)
    BY <2>1, <2>2, <2>3 DEF DecisionsKept, CallKnown
  <2> QED BY <2>1, <2>3, <2>4 DEF DecisionsKept, CallKnown, Decided, ReviewIn
<1>2. CASE ViewAnswers(k)
  <2>1. /\ UNCHANGED table /\ calls' = calls \ {k} /\ page'.successBanner = page.successBanner
        /\ past'.sent = past.sent /\ past'.overruled = past.overruled
    BY <1>2, ViewAnswersIs
  <2> QED BY <2>1, DecisionsSame
<1>3. CASE ReviewAnswers(k)
  <2>1. /\ UNCHANGED <<table, past>> /\ k.op = "review" /\ k.at = "back"
        /\ page'.successBanner \in {page.successBanner, None}
        /\ ~k.ok => calls' = calls \ {k}
        /\ k.ok => calls' = (calls \ {k}) \cup {fetchRows(k.form.action)}
    BY <1>3, ReviewAnswersIs
  <2>2. past.sent # Nothing /\ ~past.overruled /\ k.ok => CallKnown(fetchRows(k.form.action))
    <3>1. past.sent # Nothing /\ ~past.overruled /\ k.ok => Decided(k.form.action)
      BY <2>1 DEF DecisionsKept, CallKnown
    <3> QED BY <3>1 DEF CallKnown, fetchRows
  <2> QED BY <2>1, <2>2, DecisionsSame
<1> QED BY <1>1, <1>2, <1>3

LEMMA DecisionsStep ==
    ASSUME RegistrationsInputs, Typed, OnAPage(page), ReviewFlow, DecisionsKept, [Next]_vars
    PROVE  DecisionsKept'
<1>1. CASE UNCHANGED vars
  BY <1>1, DecisionsSame DEF vars
<1>2. CASE Next
  <2>1. CASE \E k \in calls : FetchAnswers(k) \/ ViewAnswers(k) \/ ReviewAnswers(k)
    BY <2>1, DecisionsAnswers
  <2>2. CASE ~\E k \in calls : FetchAnswers(k) \/ ViewAnswers(k) \/ ReviewAnswers(k)
    BY <1>2, <2>2, DecisionsAdmin, DecisionsServer DEF Next
  <2> QED BY <2>1, <2>2
<1> QED BY <1>1, <1>2

LEMMA DecisionsInit == Init => DecisionsKept
  BY DEF Init, NoPast, DecisionsKept

LEMMA BannerHolds == ReviewFlow /\ DecisionsKept => BannerIsTrue
<1> SUFFICES ASSUME ReviewFlow, DecisionsKept, page.successBanner # None, ~past.overruled
             PROVE  past.sent.id \in DOMAIN table /\ table[past.sent.id].status = page.successBanner
  BY DEF BannerIsTrue
<1>1. past.sent \in Form
  BY DEF ReviewFlow, SentLast
<1>2. past.sent # Nothing
  BY <1>1 DEF Form, Nothing
<1> QED BY <1>2 DEF DecisionsKept, Decided, ReviewIn

\* What a view that is not mixed has seen: until the account is read, the student's review
\* is the one of the row; then it is the one that he had.
ViewKnown(k, t) ==
    k.op = "view" /\ ~k.mixed =>
        /\ k.at = "server" => ReviewIn(t, k.id) = k.status
        /\ k.at = "back" /\ k.ok => k.reviewed = k.status

ViewsTold == ViewIsOfOneMoment /\ \A k \in calls : ViewKnown(k, table)

\* A step that neither writes nor answers a view.
LEMMA ViewsSame ==
    ASSUME ViewsTold, UNCHANGED table,
           (SameView(page', page) /\ past'.viewed = past.viewed) \/ page'.viewUser = Nothing,
           \A c \in calls' : c \in calls \/ ViewKnown(c, table)
    PROVE  ViewsTold'
<1>1. ViewIsOfOneMoment'
  BY DEF ViewsTold, ViewIsOfOneMoment, ViewShown, SameView
<1>2. \A c \in calls' : ViewKnown(c, table)
  BY DEF ViewsTold
<1> QED BY <1>1, <1>2 DEF ViewsTold

LEMMA ViewsAdmin ==
    ASSUME RegistrationsInputs, Typed, OnAPage(page), Current, ReviewFlow, ViewsTold,
           \/ Search \/ Debounce \/ FilterByStatus \/ ClearFilters \/ Retry \/ DismissError \/ HideBanner \/ ChangePage
           \/ closeView \/ FillReview \/ closeReviewModal \/ submitReview
           \/ \E s \in Ids : openView(s) \/ onActionSelect(s)
    PROVE  ViewsTold'
<1>1. CASE Search \/ Debounce \/ FilterByStatus \/ ClearFilters \/ DismissError \/ ChangePage
  BY <1>1, ToolbarIs, ViewsSame DEF Alike, SameView, SamePast
<1>2. CASE HideBanner \/ closeView \/ closeReviewModal \/ FillReview
  BY <1>2, HideBannerIs, closeViewIs, closeReviewModalIs, FillReviewIs, ViewsSame DEF SameDialogs, SameView
<1>3. CASE Retry
  <2>1. SameDialogs(page', page) /\ UNCHANGED table /\ calls' = calls \cup {fetchRows(None)} /\ SamePast
    BY <1>3, RetryIs
  <2>2. ViewKnown(fetchRows(None), table)
    BY FetchType DEF ViewKnown
  <2> QED BY <2>1, <2>2, ViewsSame DEF SameDialogs, SameView, SamePast
<1>4. ASSUME NEW s \in Ids, onActionSelect(s)
      PROVE  ViewsTold'
  BY <1>4, onActionSelectIs, ViewsSame DEF SameView, SamePast

\* No review is under way when a row can be clicked: a list that is sure is what the server
\* has.
<1>5. ASSUME NEW s \in Ids, openView(s)
      PROVE  ViewsTold'
  <2>1. Alike(page', page) /\ UNCHANGED table /\ SamePast /\ page.reviewModal = Nothing
    BY <1>5, openViewIs
  <2>2. PICK k \in View : /\ calls' = calls \cup {k} /\ k.at = "server" /\ k.id = s /\ s \in DOMAIN page.rows
                          /\ k.status = page.rows[s].status /\ k.mixed = past.unsure
    BY <1>5, openViewIs
  <2>3. \A c \in calls : ~Waiting(c)
    BY <2>1 DEF ReviewFlow, OneAtATime
  <2>4. ~past.unsure => page.rows = table
    BY <2>3, CurrentMeans DEF RegistrationsAreCurrent
  <2>5. ViewKnown(k, table)
    BY <2>2, <2>4 DEF ViewKnown, ReviewIn
  <2> QED BY <2>1, <2>2, <2>5, ViewsSame DEF Alike, SameView, SamePast
<1>6. CASE submitReview
  <2>1. CASE ~Complete(page.reviewModal)
    BY <1>6, <2>1, submitReviewFails, ViewsSame DEF Alike, SameView
  <2>2. CASE Complete(page.reviewModal)
    <3>1. UNCHANGED table /\ SameView(page', page) /\ past'.viewed = past.viewed
      BY <1>6, <2>2, submitReviewIs
    <3>2. PICK k \in Review : calls' = calls \cup {k} /\ k.op = "review"
      BY <1>6, <2>2, submitReviewIs
    <3>3. ViewKnown(k, table)
      BY <3>2 DEF ViewKnown
    <3> QED BY <3>1, <3>2, <3>3, ViewsSame
  <2> QED BY <2>1, <2>2
<1> QED BY <1>1, <1>2, <1>3, <1>4, <1>5, <1>6

\* A write leaves a view as it was, or mixed.
LEMMA ViewsAged ==
    ASSUME Typed, ViewsTold, UNCHANGED page, past'.viewed = past.viewed,
           NEW cs \in SUBSET calls, NEW S, calls' = Aged(cs, table') \cup S, \A k \in S : k.op # "view"
    PROVE  ViewsTold'
<1>1. ASSUME NEW c \in calls' PROVE ViewKnown(c, table')
  <2>1. CASE c \in S
    BY <2>1 DEF ViewKnown
  <2>2. CASE c \notin S
    <3>1. PICK b \in cs : c = AgedOne(b, table')
      BY <2>2, AgedIs
    <3>2. /\ c.op = b.op /\ c.at = b.at /\ c.ok = b.ok
          /\ b.op = "view" => /\ c.id = b.id /\ c.status = b.status /\ c.reviewed = b.reviewed
                              /\ (b.mixed => c.mixed)
                              /\ (b.at = "server" /\ ~c.mixed => ReviewIn(table', b.id) = ReviewIn(table, b.id))
      BY <3>1, AgedOneIs DEF Typed
    <3>3. ViewKnown(b, table)
      BY DEF ViewsTold
    <3> QED BY <3>2, <3>3 DEF ViewKnown
  <2> QED BY <2>1, <2>2
<1>2. ViewIsOfOneMoment'
  BY DEF ViewsTold, ViewIsOfOneMoment, ViewShown
<1> QED BY <1>1, <1>2 DEF ViewsTold

LEMMA ViewsServer ==
    ASSUME RegistrationsInputs, Typed, ViewsTold,
           \/ OthersWrite
           \/ \E k \in calls : \/ GetStudentRegistrationRequests(k) \/ GetUserByID(k)
                               \/ ReviewStudentRegistration(k) \/ RequestFails(k)
    PROVE  ViewsTold'
<1>1. CASE OthersWrite
  <2> DEFINE S == {}
  <2>1. UNCHANGED page /\ past'.viewed = past.viewed /\ calls' = Aged(calls, table') \cup S /\ \A k \in S : k.op # "view"
    BY <1>1, OthersIs
  <2> HIDE DEF S
  <2> QED BY <2>1, ViewsAged
<1>2. ASSUME NEW k \in calls, GetStudentRegistrationRequests(k)
      PROVE  ViewsTold'
  <2>1. PICK j \in Fetch : calls' = (calls \ {k}) \cup {j} /\ j.op = "fetch"
    BY <1>2, ReadsIs
  <2>2. UNCHANGED <<table, page, past>>
    BY <1>2, ReadsIs
  <2>3. ViewKnown(j, table)
    BY <2>1 DEF ViewKnown
  <2> QED BY <2>1, <2>2, <2>3, ViewsSame DEF SameView
<1>3. ASSUME NEW k \in calls, GetUserByID(k)
      PROVE  ViewsTold'
  <2>1. PICK j \in View : /\ calls' = (calls \ {k}) \cup {j} /\ j.op = "view" /\ j.at = "back"
                          /\ j.status = k.status /\ j.mixed = k.mixed
                          /\ k.id \in DOMAIN table => j.reviewed = table[k.id].status
    BY <1>3, GetUserIs
  <2>2. UNCHANGED <<table, page, past>> /\ k \in View /\ k.op = "view" /\ k.at = "server"
    BY <1>3, GetUserIs
  <2>3. ~k.mixed => ReviewIn(table, k.id) = k.status
    BY <2>2 DEF ViewsTold, ViewKnown
  <2>4. k.status # None
    BY <2>2 DEF View, Statuses, Decisions, None
  <2>5. ~k.mixed => k.id \in DOMAIN table /\ table[k.id].status = k.status
    BY <2>3, <2>4 DEF ReviewIn
  <2>6. ViewKnown(j, table)
    BY <2>1, <2>5 DEF ViewKnown
  <2> QED BY <2>1, <2>2, <2>6, ViewsSame DEF SameView
<1>4. ASSUME NEW k \in calls, RequestFails(k)
      PROVE  ViewsTold'
  <2>1. PICK j \in Calls : calls' = (calls \ {k}) \cup {j} /\ j.at = "back" /\ ~j.ok
    BY <1>4, FailsIs
  <2>2. UNCHANGED <<table, page>> /\ past'.viewed = past.viewed
    BY <1>4, FailsIs
  <2>3. ViewKnown(j, table)
    BY <2>1 DEF ViewKnown
  <2> QED BY <2>1, <2>2, <2>3, ViewsSame DEF SameView
<1>5. ASSUME NEW k \in calls, ReviewStudentRegistration(k)
      PROVE  ViewsTold'
  <2>1. UNCHANGED <<page, past>>
    BY <1>5, ReviewIs
  <2>2. PICK j \in Review :
            /\ j.op = "review"
            /\ \/ calls' = (calls \ {k}) \cup {j} /\ UNCHANGED table
               \/ calls' = Aged(calls \ {k}, table') \cup {j}
    BY <1>5, ReviewIs
  <2>3. CASE calls' = (calls \ {k}) \cup {j} /\ UNCHANGED table
    <3>1. ViewKnown(j, table)
      BY <2>2 DEF ViewKnown
    <3> QED BY <2>1, <2>3, <3>1, ViewsSame DEF SameView
  <2>4. CASE calls' = Aged(calls \ {k}, table') \cup {j}
    <3>1. calls \ {k} \in SUBSET calls /\ \A c \in {j} : c.op # "view"
      BY <2>2
    <3> QED BY <2>1, <2>4, <3>1, ViewsAged
  <2> QED BY <2>2, <2>3, <2>4
<1> QED BY <1>1, <1>2, <1>3, <1>4, <1>5

LEMMA ViewsAnswers ==
    ASSUME RegistrationsInputs, Typed, ViewsTold,
           NEW k \in calls, FetchAnswers(k) \/ ViewAnswers(k) \/ ReviewAnswers(k)
    PROVE  ViewsTold'
<1>1. CASE FetchAnswers(k)
  BY <1>1, FetchAnswersIs, ViewsSame DEF SameView
<1>2. CASE ReviewAnswers(k)
  <2>1. /\ UNCHANGED <<table, past>> /\ SameView(page', page)
        /\ ~k.ok => calls' = calls \ {k}
        /\ k.ok => calls' = (calls \ {k}) \cup {fetchRows(k.form.action)} /\ k.form.action \in Decisions
    BY <1>2, ReviewAnswersIs
  <2>2. k.ok => ViewKnown(fetchRows(k.form.action), table)
    BY <2>1, FetchType DEF ViewKnown
  <2> QED BY <2>1, <2>2, ViewsSame
<1>3. CASE ViewAnswers(k)
  <2>1. /\ UNCHANGED table /\ k.op = "view" /\ k.at = "back" /\ calls' = calls \ {k}
        /\ k.ok => /\ page'.viewUser = [id |-> k.id, active |-> k.active]
                   /\ page'.viewRow = [id |-> k.id, status |-> k.status]
                   /\ past'.viewed = k
        /\ ~k.ok => page'.viewUser = Nothing
    BY <1>3, ViewAnswersIs
  <2>2. CASE ~k.ok
    BY <2>1, <2>2, ViewsSame
  <2>3. CASE k.ok
    <3>1. /\ page'.viewUser.id = k.id /\ page'.viewRow = [id |-> k.id, status |-> k.status] /\ past'.viewed = k
      BY <2>1, <2>3
    <3>2. ~k.mixed => k.reviewed = k.status
      BY <2>1, <2>3 DEF ViewsTold, ViewKnown
    <3>3. ViewIsOfOneMoment'
      BY <3>1, <3>2 DEF ViewIsOfOneMoment
    <3>4. \A c \in calls' : ViewKnown(c, table)
      BY <2>1 DEF ViewsTold
    <3> QED BY <2>1, <3>3, <3>4 DEF ViewsTold
  <2> QED BY <2>2, <2>3
<1> QED BY <1>1, <1>2, <1>3

LEMMA ViewsStep ==
    ASSUME RegistrationsInputs, Typed, OnAPage(page), Current, ReviewFlow, ViewsTold, [Next]_vars
    PROVE  ViewsTold'
<1>1. CASE UNCHANGED vars
  BY <1>1, ViewsSame DEF vars, SameView
<1>2. CASE Next
  <2>1. CASE \E k \in calls : FetchAnswers(k) \/ ViewAnswers(k) \/ ReviewAnswers(k)
    BY <2>1, ViewsAnswers
  <2>2. CASE ~\E k \in calls : FetchAnswers(k) \/ ViewAnswers(k) \/ ReviewAnswers(k)
    BY <1>2, <2>2, ViewsAdmin, ViewsServer DEF Next
  <2> QED BY <2>1, <2>2
<1> QED BY <1>1, <1>2

LEMMA ViewsInit == Init => ViewsTold
  BY DEF Init, Mounted, MountCalls, fetchRows, ViewShown, ViewIsOfOneMoment, ViewKnown, ViewsTold

-----------------------------------------------------------------------------
(* All of it. *)

RegistrationsInv == Typed /\ OnAPage(page) /\ Current /\ ReviewFlow /\ DecisionsKept /\ ViewsTold

LEMMA RegistrationsInvInit == RegistrationsInputs /\ Init => RegistrationsInv
  BY TypedInit, OnAPageInit, CurrentInit, FlowInit, DecisionsInit, ViewsInit DEF RegistrationsInv

LEMMA RegistrationsInvStep == RegistrationsInputs /\ RegistrationsInv /\ [Next]_vars => RegistrationsInv'
<1> SUFFICES ASSUME RegistrationsInputs, RegistrationsInv, [Next]_vars PROVE RegistrationsInv'
  OBVIOUS
<1>1. Typed' /\ OnAPage(page')
  BY TypedStep DEF RegistrationsInv
<1>2. Current' /\ ReviewFlow'
  BY CurrentStep, FlowStep DEF RegistrationsInv
<1>3. DecisionsKept' /\ ViewsTold'
  BY DecisionsStep, ViewsStep DEF RegistrationsInv
<1> QED BY <1>1, <1>2, <1>3 DEF RegistrationsInv

LEMMA RegistrationsInvMeans ==
    RegistrationsInputs /\ RegistrationsInv =>
        /\ TypeOK /\ PageShowsRegistrations /\ RegistrationsAreCurrent
        /\ BannerIsTrue /\ FormLostOnlyToOverlap /\ ViewIsOfOneMoment
<1> SUFFICES ASSUME RegistrationsInputs, RegistrationsInv
             PROVE  /\ TypeOK /\ PageShowsRegistrations /\ RegistrationsAreCurrent
                    /\ BannerIsTrue /\ FormLostOnlyToOverlap /\ ViewIsOfOneMoment
  OBVIOUS
<1>1. TypeOK /\ PageShowsRegistrations
  BY TypedMeans, OnAPageShowsRows DEF RegistrationsInv
<1>2. RegistrationsAreCurrent /\ BannerIsTrue
  BY CurrentMeans, BannerHolds DEF RegistrationsInv
<1>3. FormLostOnlyToOverlap
  BY DEF RegistrationsInv, ReviewFlow, SentLast, FormLostOnlyToOverlap
<1>4. ViewIsOfOneMoment
  BY DEF RegistrationsInv, ViewsTold
<1> QED BY <1>1, <1>2, <1>3, <1>4
=============================================================================
