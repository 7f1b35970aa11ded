---------------------------- MODULE UsersProofs ----------------------------
(***************************************************************************)
(* The page of users, for all ids, e-mails, tables and bounds: what a form *)
(* holds while files are uploading, what a save in flight agrees with, and *)
(* what the handlers of updates and deletions still know when they write.  *)
(***************************************************************************)
EXTENDS UsersPage, ListPagingProofs, FiniteSetTheorems

-----------------------------------------------------------------------------
(* Types. They say of each form and of each request what the handlers that *)
(* build it make sure of.                                                  *)

Rows == UNION {[D -> User] : D \in SUBSET Ids}

\* A form is never past the last step of its role.
LastStep(f) == IF f.showStudentFields THEN 4 ELSE IF f.showDriverFields THEN 3 ELSE 2
StepForm == {f \in Form : f.currentStep <= LastStep(f)}

FullPage ==
    [users : Rows, initialFetchDone : BOOLEAN, error : BOOLEAN,
     searchTerm : Ids \cup {NoOne}, debouncedSearch : Ids \cup {NoOne},
     filterRole : Roles \cup {All}, filterStatus : Statuses \cup {All},
     modal : {Nothing} \cup StepForm, viewingUser : Ids \cup {NoOne}, statusChangeUser : Ids \cup {NoOne},
     pageSize : PageSizes, currentPage : Nat \ {0}]

Fetch == [op : {"fetch"}, at : {"server", "back"}, ok : BOOLEAN, rows : Rows, old : BOOLEAN]

\* Only an update is checked, and its handler has seen a role. What a form sends has a role,
\* and is complete unless it is a draft; a form that updates sends no draft.
SaveIsSound(k) ==
    /\ k.at = "checked" => k.op # "create" /\ k.seen # NoRole
    /\ k.op = "status" => k.sent.role = NoRole
    /\ k.op # "status" => k.sent.role # NoRole /\ (~k.draft => Carried(k.sent.role) \subseteq k.sent.filled)
    /\ k.op = "update" => ~k.draft /\ k.id # NoOne
SoundSave == {k \in Save : SaveIsSound(k)}

Calls == Fetch \cup SoundSave \cup Deletion \cup Upload

\* What an upload sets, it sets in the form it was started from.
Typed ==
    /\ table \in Rows /\ page \in FullPage /\ calls \subseteq Calls /\ past \in Past
    /\ form = Nothing => Uploads = {}

LEMMA TypedMeans == Typed => TypeOK
<1> SUFFICES ASSUME Typed PROVE TypeOK
  OBVIOUS
<1>1. \A t \in Rows : IsTable(t)
  BY DEF Rows, IsTable
<1>2. IsTable(table) /\ IsTable(page.users)
  BY <1>1 DEF Typed, FullPage
<1>3. [f \in DOMAIN page \ {"users"} |-> page[f]] \in Page
  BY DEF Typed, FullPage, Page, StepForm
<1>4. \A k \in Fetch : IsFetch(k)
  BY <1>1 DEF Fetch, IsFetch
<1> QED BY <1>2, <1>3, <1>4 DEF Typed, TypeOK, Calls, SoundSave

LEMMA InputTypes ==
    ASSUME UsersInputs
    PROVE  /\ Ids \subseteq Nat \ {NoOne} /\ IsFiniteSet(Ids) /\ Searches \subseteq Ids
           /\ PageSizes \subseteq Nat \ {0} /\ 10 \in PageSizes /\ MaxActs \in Nat
           /\ "active" \in Statuses
           /\ \A t \in Tables : t \in Rows
  BY DEF UsersInputs, IsTable, Rows

LEMMA RowType ==
    ASSUME NEW t \in Rows
    PROVE  DOMAIN t \subseteq Ids /\ \A r \in DOMAIN t : t[r] \in User
  BY DEF Rows

LEMMA CallKinds ==
    ASSUME NEW k \in Calls
    PROVE  /\ k.op = "fetch" => k \in Fetch
           /\ k.op \in {"create", "update", "status"} => k \in SoundSave /\ k \in Save /\ SaveIsSound(k)
           /\ k.op = "delete" => k \in Deletion
           /\ k.op = "upload" => k \in Upload
           /\ k.op \in {"fetch", "create", "update", "status", "delete", "upload"}
  BY DEF Calls, Fetch, SoundSave, Save, Deletion, Upload

-----------------------------------------------------------------------------
(* The page that is shown. *)

\* What the rest of this module asks of the page.
Alike(p, q) == p.users = q.users /\ p.modal = q.modal

\* The list and its place in it.
SameList(p, q) ==
    /\ p.users = q.users /\ p.debouncedSearch = q.debouncedSearch
    /\ p.filterRole = q.filterRole /\ p.filterStatus = q.filterStatus
    /\ p.pageSize = q.pageSize /\ p.currentPage = q.currentPage

OnAPage(p) == p.currentPage \in 1 .. TotalPages(Cardinality(filtered(p)), p.pageSize)

LEMMA SameListOnAPage ==
    ASSUME NEW p, NEW q, OnAPage(q), SameList(p, q)
    PROVE  OnAPage(p)
<1>1. filtered(p) = filtered(q)
  BY DEF SameList, filtered
<1> QED BY <1>1 DEF SameList, OnAPage

LEMMA ListSize ==
    ASSUME UsersInputs, NEW p \in FullPage
    PROVE  /\ filtered(p) \in SUBSET Nat /\ IsFiniteSet(filtered(p))
           /\ Cardinality(filtered(p)) \in Nat
           /\ p.pageSize \in Nat \ {0} /\ p.currentPage \in Nat \ {0}
<1>1. p.users \in Rows /\ p.pageSize \in PageSizes /\ p.currentPage \in Nat \ {0}
  BY DEF FullPage
<1>2. filtered(p) \subseteq Ids
  BY <1>1, RowType DEF filtered
<1> QED BY <1>1, <1>2, InputTypes, FS_Subset, FS_CardinalityType

LEMMA RenderedIs ==
    ASSUME UsersInputs, NEW p \in FullPage, NEW reset \in BOOLEAN
    PROVE  LET q == Rendered(p, reset) IN q \in FullPage /\ Alike(q, p) /\ OnAPage(q)
<1> DEFINE tp == TotalPages(Cardinality(filtered(p)), p.pageSize)
           cp == IF reset THEN 1 ELSE p.currentPage
           q == Rendered(p, reset)
<1>1. cp \in Nat \ {0}
  BY ListSize
<1>2. tp \in Nat \ {0} /\ Clamp(cp, tp) \in 1 .. tp
  BY <1>1, ListSize, TotalPagesType, ClampedPage
<1>3. q = [p EXCEPT !.currentPage = Clamp(cp, tp)]
  BY DEF Rendered
<1> HIDE DEF cp, q
<1>4. q \in FullPage /\ Alike(q, p)
  <2>1. Clamp(cp, tp) \in Nat \ {0}
    BY <1>2
  <2> HIDE DEF tp
  <2> QED BY <1>3, <2>1 DEF FullPage, Alike
<1>5. /\ q.users = p.users /\ q.debouncedSearch = p.debouncedSearch
      /\ q.filterRole = p.filterRole /\ q.filterStatus = p.filterStatus
      /\ q.pageSize = p.pageSize /\ q.currentPage = Clamp(cp, tp)
  BY <1>3 DEF FullPage
<1>6. filtered(q) = filtered(p)
  BY <1>5 DEF filtered
<1> QED BY <1>2, <1>4, <1>5, <1>6 DEF OnAPage, q

LEMMA OnAPageShowsRows ==
    ASSUME UsersInputs, Typed, OnAPage(page)
    PROVE  PageShowsUsers
<1>1. page \in FullPage
  BY DEF Typed
<1> QED BY <1>1, ListSize, ExistingPageShowsRows DEF OnAPage, PageShowsUsers, paginatedUsers

LEMMA ListedUser ==
    ASSUME Typed, NEW r \in paginatedUsers
    PROVE  r \in Ids /\ r \in DOMAIN page.users /\ page.users[r] \in User
<1>1. page.users \in Rows /\ r \in DOMAIN page.users
  BY DEF Typed, FullPage, paginatedUsers, filtered
<1> QED BY <1>1, RowType

-----------------------------------------------------------------------------
(* What the admin does outside the form. *)

SamePast ==
    /\ past'.used = past.used /\ past'.drafts = past.drafts /\ past'.unsure = past.unsure
    /\ past'.overlap = past.overlap /\ past'.lostForm = past.lostForm
    /\ past'.entered = past.entered /\ past'.raced = past.raced

LEMMA ActIs ==
    ASSUME UsersInputs, past \in Past, Act \/ UNCHANGED past
    PROVE  past' \in Past /\ SamePast
<1>1. CASE UNCHANGED past
  BY <1>1 DEF SamePast
<1>2. CASE Act
  <2>1. past' = [past EXCEPT !.acts = past.acts + 1] /\ past.acts + 1 \in 0 .. MaxActs
    BY <1>2, InputTypes DEF Act, Past
  <2>2. \A a \in 0 .. MaxActs : past' = [past EXCEPT !.acts = a] => past' \in Past /\ SamePast
    BY DEF Past, SamePast
  <2> QED BY <2>1, <2>2
<1> QED BY <1>1, <1>2

\* The toolbar, the banner, the pagination, the dialogs other than the form.
Toolbar ==
    \/ Search \/ Debounce \/ Filter \/ ClearFilters \/ ChangePage \/ DismissError
    \/ CloseView \/ CloseStatus \/ \E r \in DOMAIN page.users : View(r) \/ handleStatusClick(r)

LEMMA ToolbarIs ==
    ASSUME UsersInputs, Typed, OnAPage(page), Toolbar
    PROVE  /\ Typed' /\ OnAPage(page')
           /\ UNCHANGED <<table, calls>> /\ Alike(page', page) /\ SamePast
<1>0. page \in FullPage /\ past \in Past
  BY DEF Typed
<1>1. ASSUME NEW p \in FullPage, Alike(p, page), NEW reset \in BOOLEAN, page' = Rendered(p, reset)
      PROVE  page' \in FullPage /\ OnAPage(page') /\ Alike(page', page)
  BY <1>1, RenderedIs DEF Alike
<1>2. ASSUME page' \in FullPage, Alike(page', page), SameList(page', page)
      PROVE  page' \in FullPage /\ OnAPage(page') /\ Alike(page', page)
  BY <1>2, SameListOnAPage
<1>3. page' \in FullPage /\ OnAPage(page') /\ Alike(page', page)
  <2>1. CASE Search
    <3>1. PICK term \in Ids \cup {NoOne} : page' = [page EXCEPT !.searchTerm = term]
      BY <2>1, InputTypes DEF Search
    <3>2. page' \in FullPage /\ Alike(page', page) /\ SameList(page', page)
      BY <1>0, <3>1 DEF FullPage, Alike, SameList
    <3> QED BY <1>2, <3>2
  <2>2. CASE Debounce
    <3> DEFINE p == [page EXCEPT !.debouncedSearch = page.searchTerm]
    <3>1. p \in FullPage /\ Alike(p, page)
      BY <1>0 DEF FullPage, Alike
    <3>2. page' = Rendered(p, TRUE)
      BY <2>2 DEF Debounce
    <3> QED BY <1>1, <3>1, <3>2
  <2>3. CASE Filter
    <3>1. \/ \E f \in Roles \cup {All} : page' = Rendered([page EXCEPT !.filterRole = f], TRUE)
          \/ \E f \in Statuses \cup {All} : page' = Rendered([page EXCEPT !.filterStatus = f], TRUE)
      BY <2>3 DEF Filter, Roles
    <3>2. ASSUME NEW f \in Roles \cup {All}, page' = Rendered([page EXCEPT !.filterRole = f], TRUE)
          PROVE  page' \in FullPage /\ OnAPage(page') /\ Alike(page', page)
      <4> DEFINE p == [page EXCEPT !.filterRole = f]
      <4>1. p \in FullPage /\ Alike(p, page)
        BY <1>0 DEF FullPage, Alike
      <4> QED BY <1>1, <3>2, <4>1
    <3>3. ASSUME NEW f \in Statuses \cup {All}, page' = Rendered([page EXCEPT !.filterStatus = f], TRUE)
          PROVE  page' \in FullPage /\ OnAPage(page') /\ Alike(page', page)
      <4> DEFINE p == [page EXCEPT !.filterStatus = f]
      <4>1. p \in FullPage /\ Alike(p, page)
        BY <1>0 DEF FullPage, Alike
      <4> QED BY <1>1, <3>3, <4>1
    <3> QED BY <3>1, <3>2, <3>3
  <2>4. CASE ClearFilters
    <3> DEFINE p == [page EXCEPT !.searchTerm = NoOne, !.debouncedSearch = NoOne,
                                 !.filterRole = All, !.filterStatus = All]
    <3>1. p \in FullPage /\ Alike(p, page)
      BY <1>0 DEF FullPage, Alike
    <3>2. page' = Rendered(p, TRUE)
      BY <2>4 DEF ClearFilters
    <3> QED BY <1>1, <3>1, <3>2
  <2>5. CASE DismissError \/ CloseView \/ CloseStatus
    <3>1. page' \in FullPage /\ Alike(page', page) /\ SameList(page', page)
      <4>1. CASE DismissError
        BY <1>0, <4>1 DEF DismissError, FullPage, Alike, SameList
      <4>2. CASE CloseView
        BY <1>0, <4>2 DEF CloseView, FullPage, Alike, SameList
      <4>3. CASE CloseStatus
        BY <1>0, <4>3 DEF CloseStatus, FullPage, Alike, SameList
      <4> QED BY <2>5, <4>1, <4>2, <4>3
    <3> QED BY <1>2, <3>1
  <2>6. CASE \E r \in DOMAIN page.users : View(r) \/ handleStatusClick(r)
    <3>1. PICK r \in Ids : \/ page' = [page EXCEPT !.viewingUser = r]
                           \/ page' = [page EXCEPT !.statusChangeUser = r]
      BY <2>6, ListedUser DEF View, handleStatusClick
    <3>2. page' \in FullPage /\ Alike(page', page) /\ SameList(page', page)
      BY <1>0, <3>1 DEF FullPage, Alike, SameList
    <3> QED BY <1>2, <3>2
  <2>7. CASE ChangePage
    <3>1. ASSUME NEW cp \in 1 .. TotalPages(Cardinality(filtered(page)), page.pageSize),
                 page' = [page EXCEPT !.currentPage = cp]
          PROVE  page' \in FullPage /\ OnAPage(page') /\ Alike(page', page)
      <4>1. cp \in Nat \ {0}
        BY <1>0, ListSize, TotalPagesType
      <4>2. page' \in FullPage /\ Alike(page', page) /\ page'.currentPage = cp
        BY <1>0, <3>1, <4>1 DEF FullPage, Alike
      <4>3. /\ page'.users = page.users /\ page'.debouncedSearch = page.debouncedSearch
            /\ page'.filterRole = page.filterRole /\ page'.filterStatus = page.filterStatus
            /\ page'.pageSize = page.pageSize
        BY <1>0, <3>1 DEF FullPage
      <4>4. filtered(page') = filtered(page)
        BY <4>3 DEF filtered
      <4> QED BY <4>2, <4>3, <4>4 DEF OnAPage
    <3>2. ASSUME NEW n \in PageSizes, page' = Rendered([page EXCEPT !.pageSize = n], TRUE)
          PROVE  page' \in FullPage /\ OnAPage(page') /\ Alike(page', page)
      <4> DEFINE p == [page EXCEPT !.pageSize = n]
      <4>1. p \in FullPage /\ Alike(p, page)
        BY <1>0 DEF FullPage, Alike
      <4> QED BY <1>1, <3>2, <4>1
    <3> QED BY <2>7, <3>1, <3>2 DEF ChangePage
  <2> QED BY <2>1, <2>2, <2>3, <2>4, <2>5, <2>6, <2>7 DEF Toolbar
<1>4. UNCHANGED <<table, calls>> /\ (Act \/ UNCHANGED past)
  BY DEF Toolbar, Search, Debounce, Filter, ClearFilters, ChangePage, DismissError, CloseView, CloseStatus,
         View, handleStatusClick
<1>5. past' \in Past /\ SamePast
  BY <1>0, <1>4, ActIs
<1> QED BY <1>0, <1>3, <1>4, <1>5 DEF Typed, Alike, Uploads, form

LEMMA FetchType ==
    /\ fetchUsers \in Calls /\ fetchUsers.op = "fetch" /\ fetchUsers.at = "server"
<1>1. <<>> \in Rows
  <2>1. <<>> \in [{} -> User]
    OBVIOUS
  <2> QED BY <2>1 DEF Rows
<1> QED BY <1>1 DEF fetchUsers, Fetch, Calls

\* The requests that are not a form's.
LEMMA RequestIs ==
    ASSUME UsersInputs, Typed, OnAPage(page),
           Retry \/ ChooseStatus \/ \E r \in DOMAIN page.users : handleDelete(r)
    PROVE  /\ Typed' /\ OnAPage(page')
           /\ UNCHANGED table /\ Alike(page', page) /\ SamePast
           /\ \/ UNCHANGED calls
              \/ \E j \in Calls : /\ calls' = calls \cup {j}
                                  /\ j.op \in {"fetch", "status", "delete"} /\ j.at = "server"
<1>0. page \in FullPage /\ past \in Past /\ calls \subseteq Calls
  BY DEF Typed
<1>1. UNCHANGED table /\ past' \in Past /\ SamePast
  BY <1>0, ActIs DEF Retry, ChooseStatus, handleDelete
<1>2. page' \in FullPage /\ Alike(page', page) /\ SameList(page', page)
  <2>1. page' = page \/ page' = [page EXCEPT !.error = FALSE] \/ page' = [page EXCEPT !.statusChangeUser = NoOne]
    BY DEF Retry, ChooseStatus, handleStatusChange, handleDelete
  <2> QED BY <1>0, <2>1 DEF FullPage, Alike, SameList
<1>3. \/ UNCHANGED calls
      \/ \E j \in Calls : /\ calls' = calls \cup {j}
                          /\ j.op \in {"fetch", "status", "delete"} /\ j.at = "server"
  <2>1. CASE Retry
    BY <2>1, FetchType DEF Retry
  <2>2. ASSUME NEW r \in DOMAIN page.users, handleDelete(r)
        PROVE  \E j \in Calls : /\ calls' = calls \cup {j}
                                /\ j.op \in {"fetch", "status", "delete"} /\ j.at = "server"
    <3> DEFINE j == [op |-> "delete", at |-> "server", ok |-> FALSE, id |-> r]
    <3>1. j \in Deletion /\ j.op = "delete" /\ j.at = "server"
      BY <2>2, ListedUser DEF handleDelete, Deletion
    <3>2. calls' = calls \cup {j}
      BY <2>2 DEF handleDelete
    <3> HIDE DEF j
    <3> QED BY <3>1, <3>2 DEF Calls
  <2>3. CASE ChooseStatus
    <3> DEFINE r == page.statusChangeUser
    <3>1. r \in Ids
      BY <1>0, <2>3, RowType DEF ChooseStatus, FullPage
    <3>2. PICK s \in Statuses : handleStatusChange(r, s)
      BY <2>3 DEF ChooseStatus
    <3> DEFINE j == [op |-> "status", at |-> "server", ok |-> FALSE, id |-> r,
                     sent |-> [role |-> NoRole, status |-> s, email |-> NoEmail, filled |-> {}],
                     draft |-> FALSE, seen |-> NoRole]
    <3>3. j \in SoundSave /\ j.op = "status" /\ j.at = "server"
      BY <3>1 DEF SoundSave, SaveIsSound, Save, Sent
    <3>4. UNCHANGED calls \/ calls' = calls \cup {j}
      BY <3>2 DEF handleStatusChange
    <3> HIDE DEF j
    <3> QED BY <3>3, <3>4 DEF Calls
  <2> QED BY <2>1, <2>2, <2>3
<1>4. calls' \subseteq Calls /\ Uploads' = Uploads
  BY <1>0, <1>3 DEF Uploads
<1>5. OnAPage(page')
  BY <1>2, SameListOnAPage
<1> QED BY <1>0, <1>1, <1>2, <1>3, <1>4, <1>5 DEF Typed, Alike, form

-----------------------------------------------------------------------------
(* What the admin does with the form. *)

\* What a render shows is what the role of the form needs.
FlagsAgree(f) ==
    f.formData.role # NoRole =>
        /\ f.showStudentFields = (f.formData.role = "Student")
        /\ f.showDriverFields = (f.formData.role = "Driver")

\* The history after the admin has used the form, which then holds data e.
FormPast(e) ==
    /\ past' \in Past
    /\ past'.used = past.used /\ past'.drafts = past.drafts /\ past'.unsure = past.unsure
    /\ past'.overlap = Saving /\ ~past'.lostForm
    /\ past'.entered = e /\ past'.raced = past.raced

LEMMA ActOnFormIs ==
    ASSUME UsersInputs, Typed, NEW n \in {0, 1}, NEW e \in {Nothing} \cup FormData, ActOnForm(n, e)
    PROVE  FormPast(e)
<1> DEFINE b == Saving
<1>1. past \in Past /\ b \in BOOLEAN /\ past.acts + n \in 0 .. MaxActs
  BY InputTypes DEF Typed, Past, Saving, ActOnForm
<1>2. past' = [past EXCEPT !.acts = past.acts + n, !.overlap = b, !.lostForm = FALSE, !.entered = e]
  BY DEF ActOnForm
<1>3. b = Saving
  OBVIOUS
<1> HIDE DEF b
<1>4. \A a \in 0 .. MaxActs : past' = [past EXCEPT !.acts = a, !.overlap = b, !.lostForm = FALSE, !.entered = e] =>
          /\ past' \in Past
          /\ past'.used = past.used /\ past'.drafts = past.drafts /\ past'.unsure = past.unsure
          /\ past'.overlap = b /\ ~past'.lostForm
          /\ past'.entered = e /\ past'.raced = past.raced
  BY <1>1 DEF Past
<1> QED BY <1>1, <1>2, <1>3, <1>4 DEF FormPast

\* A change of the form alone leaves the list in its place.
LEMMA ModalIs ==
    ASSUME Typed, OnAPage(page), NEW f \in {Nothing} \cup StepForm, page' = [page EXCEPT !.modal = f]
    PROVE  page' \in FullPage /\ OnAPage(page') /\ page'.users = page.users /\ form' = f
<1>1. page' \in FullPage /\ SameList(page', page) /\ page'.modal = f
  BY DEF Typed, FullPage, SameList
<1> QED BY <1>1, SameListOnAPage DEF SameList, form

LEMMA FormType ==
    ASSUME Typed, form # Nothing
    PROVE  form \in StepForm /\ form \in Form /\ form.formData \in FormData /\ form = page.modal
  BY DEF Typed, FullPage, StepForm, Form, form

LEMMA NoFormAmongNothing == \A f \in Form : f # Nothing
  BY DEF Form, Nothing

LEMMA OpenFormIs ==
    ASSUME UsersInputs, Typed, OnAPage(page), AddUser \/ \E r \in DOMAIN page.users : handleEdit(r)
    PROVE  /\ Typed' /\ OnAPage(page') /\ UNCHANGED <<table, calls>> /\ page'.users = page.users
           /\ form = Nothing /\ Uploads = {} /\ form' \in StepForm /\ FormPast(form'.formData)
           /\ form'.uploadingFiles = {} /\ FlagsAgree(form')
<1>1. PICK r \in Ids \cup {NoOne}, d \in FormData :
          OpenForm(r, d) /\ (r = NoOne => d.role = NoRole) /\ (r # NoOne => d.role # NoRole)
  <2>1. CASE AddUser
    <3> DEFINE d == [role |-> NoRole, status |-> "active", email |-> NoEmail, filled |-> {}, agreeToTerms |-> FALSE]
    <3>1. d \in FormData /\ d.role = NoRole
      BY InputTypes DEF FormData
    <3>2. OpenForm(NoOne, d)
      BY <2>1 DEF AddUser
    <3> HIDE DEF d
    <3> QED BY <3>1, <3>2
  <2>2. ASSUME NEW r \in DOMAIN page.users, handleEdit(r)
        PROVE  \E d \in FormData : OpenForm(r, d) /\ d.role # NoRole /\ r \in Ids /\ r # NoOne
    <3> DEFINE u == page.users[r]
               d == [role |-> u.role, status |-> u.status, email |-> u.email, filled |-> u.filled,
                     agreeToTerms |-> FALSE]
    <3>1. u \in User /\ r \in Ids /\ r # NoOne
      BY <2>2, ListedUser, InputTypes DEF handleEdit
    <3>2. OpenForm(r, d)
      BY <2>2 DEF handleEdit
    <3> HIDE DEF u
    <3>3. d \in FormData /\ d.role # NoRole
      BY <3>1 DEF FormData, User, Roles, NoRole
    <3> HIDE DEF d
    <3> QED BY <3>1, <3>2, <3>3
  <2> QED BY <2>1, <2>2
<1>2. form = Nothing /\ Uploads = {} /\ UNCHANGED <<table, calls>>
  BY <1>1 DEF OpenForm, Uncovered, form, Typed
<1>3. FormPast(d)
  BY <1>1, ActOnFormIs DEF OpenForm
<1> DEFINE f == [kind |-> "form", id |-> r, lockSuperAdminFields |-> r # NoOne /\ d.role = "SuperAdmin", formData |-> d,
                 showStudentFields |-> r = NoOne \/ d.role = "Student", showDriverFields |-> d.role = "Driver",
                 currentStep |-> IF r = NoOne THEN 0 ELSE 1, uploadingFiles |-> {}]
<1>4. page' = [page EXCEPT !.modal = f]
  BY <1>1 DEF OpenForm
<1>5. f \in StepForm /\ f.formData = d /\ f.uploadingFiles = {}
  BY <1>1 DEF StepForm, Form, LastStep
<1>6. FlagsAgree(f)
  BY <1>1 DEF FlagsAgree
<1> HIDE DEF f
<1>7. page' \in FullPage /\ OnAPage(page') /\ page'.users = page.users /\ form' = f
  BY <1>4, <1>5, ModalIs
<1>8. form' # Nothing
  BY <1>5, <1>7, NoFormAmongNothing DEF StepForm
<1> QED BY <1>2, <1>3, <1>5, <1>6, <1>7, <1>8 DEF Typed, FormPast

LEMMA CloseIs ==
    ASSUME Typed, OnAPage(page), handleCloseModal
    PROVE  /\ Typed' /\ OnAPage(page') /\ UNCHANGED table /\ page'.users = page.users
           /\ form' = Nothing /\ calls' = calls \ Uploads
           /\ past'.used = past.used /\ past'.drafts = past.drafts /\ past'.unsure = past.unsure
           /\ past'.overlap = past.overlap /\ past'.lostForm = past.lostForm /\ past'.raced = past.raced
<1>1. page' \in FullPage /\ OnAPage(page') /\ page'.users = page.users /\ form' = Nothing
  BY ModalIs DEF handleCloseModal, WithoutForm
<1>2. /\ past' \in Past
      /\ past'.used = past.used /\ past'.drafts = past.drafts /\ past'.unsure = past.unsure
      /\ past'.overlap = past.overlap /\ past'.lostForm = past.lostForm /\ past'.raced = past.raced
  BY DEF Typed, Past, handleCloseModal
<1>3. calls' = calls \ Uploads /\ UNCHANGED table
  BY DEF handleCloseModal
<1> QED BY <1>1, <1>2, <1>3 DEF Typed, Uploads

Edits ==
    \/ handleRoleChange \/ EditProfile \/ SelectStatus \/ EditPhone \/ AgreeToTerms
    \/ EditInstitution \/ EditResidence \/ EditDriverProof \/ EditDisability \/ EditIdProof

\* What an edit makes of a form.
EditOf(f, g) ==
    /\ g \in StepForm /\ g.id = f.id /\ g.uploadingFiles = f.uploadingFiles
    /\ FlagsAgree(f) => FlagsAgree(g)

LEMMA DataIs ==
    ASSUME NEW f \in StepForm, NEW d \in FormData, d.role = f.formData.role
    PROVE  EditOf(f, [f EXCEPT !.formData = d])
  BY DEF EditOf, StepForm, Form, LastStep, FlagsAgree

LEMMA EditsAre ==
    ASSUME Typed, Edits
    PROVE  \E n \in {0, 1} : \E g : EditOf(form, g) /\ Edit(n, g)
<1>1. form # Nothing
  BY DEF Edits, handleRoleChange, EditProfile, SelectStatus, EditPhone, AgreeToTerms, EditInstitution,
         EditResidence, EditDriverProof, EditDisability, EditIdProof
<1>2. form \in StepForm /\ form.formData \in FormData
  BY <1>1, FormType
<1> DEFINE Goal == \E n \in {0, 1} : \E g : EditOf(form, g) /\ Edit(n, g)
<1> SUFFICES Goal
  OBVIOUS
<1>3. ASSUME NEW s \in SUBSET (Texts \cup Files), Edit(1, [form EXCEPT !.formData.filled = s])
      PROVE  Goal
  <2> DEFINE d == [form.formData EXCEPT !.filled = s]
  <2>1. d \in FormData /\ d.role = form.formData.role
    BY <1>2 DEF FormData
  <2>2. EditOf(form, [form EXCEPT !.formData = d])
    BY <1>2, <2>1, DataIs
  <2> QED BY <1>3, <2>2
<1>4. ASSUME NEW texts \in SUBSET Texts, Give(texts)
      PROVE  Goal
  <2> DEFINE s == form.formData.filled \cup texts
  <2>1. s \in SUBSET (Texts \cup Files)
    BY <1>2 DEF FormData
  <2>2. Edit(1, [form EXCEPT !.formData.filled = s])
    BY <1>4 DEF Give
  <2> HIDE DEF s
  <2> QED BY <1>3, <2>1, <2>2
<1>5. ASSUME NEW text, Erase(text)
      PROVE  Goal
  <2> DEFINE s == form.formData.filled \ {text}
  <2>1. s \in SUBSET (Texts \cup Files)
    BY <1>2 DEF FormData
  <2>2. Edit(1, [form EXCEPT !.formData.filled = s])
    BY <1>5 DEF Erase
  <2> HIDE DEF s
  <2> QED BY <1>3, <2>1, <2>2
<1>6. /\ {"name", "phone"} \in SUBSET Texts /\ {"phone"} \in SUBSET Texts /\ {"institution", "residence"} \in SUBSET Texts
      /\ {"residence"} \in SUBSET Texts /\ {"idProofType"} \in SUBSET Texts
      /\ {"disability", "idProofType"} \in SUBSET Texts
  BY DEF Texts
<1>7. CASE EditPhone \/ EditInstitution \/ EditResidence \/ EditDriverProof \/ EditDisability \/ EditIdProof
  <2> DEFINE Erased == \E text : Erase(text)
             Given == \E texts \in SUBSET Texts : Give(texts)
  <2>1. Erased => Goal
    <3> HIDE DEF Goal
    <3> QED BY <1>5
  <2>2. Given => Goal
    <3> HIDE DEF Goal
    <3> QED BY <1>4
  <2>3. Erased \/ Given
    <3>1. CASE EditPhone
      BY <1>6, <3>1 DEF EditPhone
    <3>2. CASE EditInstitution
      BY <1>6, <3>2 DEF EditInstitution
    <3>3. CASE EditResidence
      BY <1>6, <3>3 DEF EditResidence
    <3>4. CASE EditDriverProof
      BY <1>6, <3>4 DEF EditDriverProof
    <3>5. CASE EditDisability
      BY <1>6, <3>5 DEF EditDisability
    <3>6. CASE EditIdProof
      BY <1>6, <3>6 DEF EditIdProof
    <3> QED BY <1>7, <3>1, <3>2, <3>3, <3>4, <3>5, <3>6
  <2> HIDE DEF Goal, Erased, Given
  <2> QED BY <2>1, <2>2, <2>3
<1>8. CASE EditProfile
  <2> DEFINE Mailed(email) == Edit(1, withEmail([form EXCEPT !.formData.filled = @ \cup {"name", "phone"}], email))
  <2>1. ASSUME NEW email \in Emails, Mailed(email)
        PROVE  Goal
    <3> DEFINE d == [form.formData EXCEPT !.filled = form.formData.filled \cup {"name", "phone"}, !.email = email]
    <3>1. d \in FormData /\ d.role = form.formData.role
      BY <1>2 DEF FormData, Texts
    <3>2. EditOf(form, [form EXCEPT !.formData = d])
      BY <1>2, <3>1, DataIs
    <3>3. withEmail([form EXCEPT !.formData.filled = @ \cup {"name", "phone"}], email) = [form EXCEPT !.formData = d]
      BY <1>2 DEF withEmail, StepForm, Form, FormData
    <3> QED BY <2>1, <3>2, <3>3
  <2>2. Erase("name") => Goal
    <3> HIDE DEF Goal
    <3> QED BY <1>5
  <2>3. Give({"name", "phone"}) => Goal
    <3> HIDE DEF Goal
    <3> QED BY <1>4, <1>6
  <2>4. Erase("name") \/ Give({"name", "phone"}) \/ \E email \in Emails : Mailed(email)
    BY <1>8 DEF EditProfile
  <2> HIDE DEF Goal, Mailed
  <2> QED BY <2>1, <2>2, <2>3, <2>4
<1>9. CASE SelectStatus
  <2>1. PICK s \in Statuses : Edit(1, [form EXCEPT !.formData.status = s])
    BY <1>9 DEF SelectStatus
  <2> DEFINE d == [form.formData EXCEPT !.status = s]
  <2>2. d \in FormData /\ d.role = form.formData.role
    BY <1>2 DEF FormData
  <2>3. EditOf(form, [form EXCEPT !.formData = d])
    BY <1>2, <2>2, DataIs
  <2> QED BY <2>1, <2>3
<1>10. CASE AgreeToTerms
  <2> DEFINE d == [form.formData EXCEPT !.agreeToTerms = ~form.formData.agreeToTerms]
  <2>1. d \in FormData /\ d.role = form.formData.role
    BY <1>2 DEF FormData
  <2>2. EditOf(form, [form EXCEPT !.formData = d])
    BY <1>2, <2>1, DataIs
  <2>3. Edit(0, [form EXCEPT !.formData = d])
    BY <1>10 DEF AgreeToTerms
  <2> QED BY <2>2, <2>3
<1>11. CASE handleRoleChange
  <2>1. PICK role \in Roles : Edit(0, withRole(form, role)) /\ form.currentStep = 0
    BY <1>11 DEF handleRoleChange
  <2>2. EditOf(form, withRole(form, role))
    <3> DEFINE d == [form.formData EXCEPT !.role = role]
               student == role = "Student"
               driver == role = "Driver"
               g == [form EXCEPT !.formData = d, !.showStudentFields = student, !.showDriverFields = driver]
    <3>1. d \in FormData /\ d.role = role /\ student \in BOOLEAN /\ driver \in BOOLEAN
      BY <1>2 DEF FormData
    <3>2. withRole(form, role) = g
      BY DEF withRole
    <3>3. student = (role = "Student") /\ driver = (role = "Driver")
      OBVIOUS
    <3> HIDE DEF d, student, driver
    <3>4. g \in Form /\ g.currentStep = 0 /\ g.id = form.id /\ g.uploadingFiles = form.uploadingFiles
      BY <1>2, <2>1, <3>1 DEF StepForm, Form
    <3>5. g.formData = d /\ g.showStudentFields = student /\ g.showDriverFields = driver
      BY <1>2, <3>1 DEF StepForm, Form
    <3> HIDE DEF g
    <3> QED BY <3>1, <3>2, <3>3, <3>4, <3>5 DEF EditOf, StepForm, LastStep, FlagsAgree
  <2> QED BY <2>1, <2>2
<1> QED BY <1>7, <1>8, <1>9, <1>10, <1>11 DEF Edits

LEMMA EditsIs ==
    ASSUME UsersInputs, Typed, OnAPage(page), Edits
    PROVE  /\ Typed' /\ OnAPage(page') /\ UNCHANGED <<table, calls>> /\ page'.users = page.users
           /\ form \in StepForm /\ EditOf(form, form')
           /\ FormPast(IF past.entered = Nothing \/ Uploads # {} THEN Nothing ELSE form'.formData)
<1>1. form # Nothing /\ form \in StepForm
  BY FormType DEF Edits, handleRoleChange, EditProfile, SelectStatus, EditPhone, AgreeToTerms, EditInstitution,
         EditResidence, EditDriverProof, EditDisability, EditIdProof
<1>2. PICK n \in {0, 1} : \E f : EditOf(form, f) /\ Edit(n, f)
  BY EditsAre
<1> PICK g : EditOf(form, g) /\ Edit(n, g)
  BY <1>2
<1>3. g \in StepForm /\ g \in Form /\ g.formData \in FormData /\ g # Nothing
  BY NoFormAmongNothing DEF EditOf, StepForm, Form
<1>4. page' = [page EXCEPT !.modal = g] /\ UNCHANGED <<table, calls>>
  BY DEF Edit
<1>5. page' \in FullPage /\ OnAPage(page') /\ page'.users = page.users /\ form' = g
  BY <1>3, <1>4, ModalIs
<1> DEFINE e == IF past.entered = Nothing \/ Uploads # {} THEN Nothing ELSE g.formData
<1>6. e \in {Nothing} \cup FormData /\ ActOnForm(n, e)
  BY <1>3 DEF Edit
<1>7. FormPast(e)
  BY <1>6, ActOnFormIs
<1> QED BY <1>1, <1>3, <1>4, <1>5, <1>7 DEF Typed, FormPast

\* The same form, at another step or with another file.
LEMMA StepIs ==
    ASSUME Typed, OnAPage(page), handleNext \/ handlePrevious
    PROVE  /\ Typed' /\ OnAPage(page') /\ UNCHANGED <<table, calls, past>> /\ page'.users = page.users
           /\ form \in StepForm /\ EditOf(form, form') /\ form'.formData = form.formData
<1>1. form \in StepForm /\ form # Nothing
  BY FormType DEF handleNext, handlePrevious
<1>2. PICK n \in 0 .. LastStep(form) : page' = [page EXCEPT !.modal.currentStep = n]
  <2>1. CASE handleNext
    <3>1. ~finalStep /\ page' = [page EXCEPT !.modal.currentStep = form.currentStep + 1]
      BY <2>1 DEF handleNext, form
    <3>2. form.currentStep + 1 \in 0 .. LastStep(form)
      BY <1>1, <3>1 DEF StepForm, Form, LastStep, finalStep
    <3> QED BY <3>1, <3>2
  <2>2. CASE handlePrevious
    <3>1. form.currentStep > 0 /\ page' = [page EXCEPT !.modal.currentStep = form.currentStep - 1]
      BY <2>2 DEF handlePrevious, form
    <3>2. form.currentStep - 1 \in 0 .. LastStep(form)
      BY <1>1, <3>1 DEF StepForm, Form, LastStep
    <3> QED BY <3>1, <3>2
  <2> QED BY <2>1, <2>2
<1> DEFINE f == [form EXCEPT !.currentStep = n]
<1>3. f \in Form /\ f.formData = form.formData /\ f.id = form.id /\ f.uploadingFiles = form.uploadingFiles
      /\ f.currentStep = n /\ f.showStudentFields = form.showStudentFields
      /\ f.showDriverFields = form.showDriverFields
  <2>1. n \in 0 .. 4
    BY <1>2 DEF LastStep
  <2> QED BY <1>1, <2>1 DEF StepForm, Form
<1>4. page' = [page EXCEPT !.modal = f]
  BY <1>2 DEF form
<1> HIDE DEF f
<1>5. f \in StepForm /\ EditOf(form, f)
  BY <1>2, <1>3 DEF StepForm, LastStep, EditOf, FlagsAgree
<1>6. page' \in FullPage /\ OnAPage(page') /\ page'.users = page.users /\ form' = f
  BY <1>4, <1>5, ModalIs
<1>7. UNCHANGED <<table, calls, past>>
  BY DEF handleNext, handlePrevious
<1>8. form' # Nothing
  BY <1>3, <1>6, NoFormAmongNothing
<1> QED BY <1>1, <1>3, <1>5, <1>6, <1>7, <1>8 DEF Typed

LEMMA FileIs ==
    ASSUME UsersInputs, Typed, OnAPage(page), handleFileChange
    PROVE  /\ Typed' /\ OnAPage(page') /\ UNCHANGED table /\ page'.users = page.users
           /\ form \in StepForm /\ form' \in StepForm /\ form'.id = form.id /\ form'.formData = form.formData
           /\ FlagsAgree(form) => FlagsAgree(form')
           /\ \E k \in Upload :
                  /\ calls' = calls \cup {k} /\ k.op = "upload"
                  /\ k.data = form.formData /\ k.uploading = form.uploadingFiles
                  /\ form'.uploadingFiles = form.uploadingFiles \cup {k.field}
                  /\ FormPast(IF past.entered = Nothing \/ Uploads # {} THEN Nothing ELSE dataAfter(k))
<1>1. form \in StepForm /\ form \in Form /\ form # Nothing /\ form.formData \in FormData
  BY FormType DEF handleFileChange
<1> DEFINE entered(field) == IF past.entered = Nothing \/ Uploads # {} THEN Nothing
                             ELSE [form.formData EXCEPT !.filled = @ \cup {field}]
           upload(field) == [op |-> "upload", field |-> field, data |-> form.formData, uploading |-> form.uploadingFiles]
<1>2. PICK field \in Files :
          /\ ActOnForm(1, entered(field))
          /\ calls' = calls \cup {upload(field)}
          /\ page' = [page EXCEPT !.modal.uploadingFiles = form.uploadingFiles \cup {field}]
  <2>1. ProfileFiles \cup DriverFiles \cup StudentFiles \subseteq Files
    BY DEF ProfileFiles, DriverFiles, StudentFiles, Files
  <2> QED BY <2>1 DEF handleFileChange, form
<1> DEFINE k == upload(field)
           f == [form EXCEPT !.uploadingFiles = form.uploadingFiles \cup {field}]
<1>3. k \in Upload /\ k.op = "upload" /\ k.data = form.formData /\ k.uploading = form.uploadingFiles /\ k.field = field
  BY <1>1 DEF Upload, Form
<1>4. entered(field) = (IF past.entered = Nothing \/ Uploads # {} THEN Nothing ELSE dataAfter(k))
  BY <1>3 DEF dataAfter
<1>5. entered(field) \in {Nothing} \cup FormData
  BY <1>1 DEF FormData
<1>6. /\ f \in StepForm /\ f.id = form.id /\ f.formData = form.formData
      /\ f.uploadingFiles = form.uploadingFiles \cup {field}
      /\ f.showStudentFields = form.showStudentFields /\ f.showDriverFields = form.showDriverFields
  BY <1>1 DEF StepForm, Form, LastStep
<1>7. page' = [page EXCEPT !.modal = f] /\ calls' = calls \cup {k} /\ ActOnForm(1, entered(field))
  BY <1>2 DEF form
<1> HIDE DEF k, f, entered
<1>8. FormPast(entered(field))
  BY <1>5, <1>7, ActOnFormIs
<1>9. page' \in FullPage /\ OnAPage(page') /\ page'.users = page.users /\ form' = f
  BY <1>6, <1>7, ModalIs
<1>10. UNCHANGED table
  BY DEF handleFileChange
<1>11. form' # Nothing
  BY <1>6, <1>9, NoFormAmongNothing DEF StepForm
<1>12. Typed'
  BY <1>3, <1>7, <1>8, <1>9, <1>10, <1>11 DEF Typed, FormPast, Calls
<1>13. FlagsAgree(form) => FlagsAgree(f)
  BY <1>6 DEF FlagsAgree
<1>14. \E c \in Upload :
           /\ calls' = calls \cup {c} /\ c.op = "upload"
           /\ c.data = form.formData /\ c.uploading = form.uploadingFiles
           /\ f.uploadingFiles = form.uploadingFiles \cup {c.field}
           /\ FormPast(IF past.entered = Nothing \/ Uploads # {} THEN Nothing ELSE dataAfter(c))
  BY <1>3, <1>4, <1>6, <1>7, <1>8
<1> QED BY <1>1, <1>6, <1>9, <1>10, <1>12, <1>13, <1>14

LEMMA UploadIs ==
    ASSUME UsersInputs, Typed, OnAPage(page), NEW k \in calls, UploadAnswers(k)
    PROVE  /\ Typed' /\ OnAPage(page') /\ UNCHANGED table /\ page'.users = page.users
           /\ k \in Uploads /\ k \in Upload /\ calls' = calls \ {k} /\ Uploads' = Uploads \ {k}
           /\ form \in StepForm /\ form' \in StepForm /\ form'.id = form.id
           /\ form'.uploadingFiles = k.uploading \ {k.field}
           /\ form'.showStudentFields = form.showStudentFields /\ form'.showDriverFields = form.showDriverFields
           /\ past'.used = past.used /\ past'.drafts = past.drafts /\ past'.unsure = past.unsure
           /\ past'.raced = past.raced
           /\ \/ /\ form'.formData = dataAfter(k) /\ past'.overlap = Saving /\ ~past'.lostForm
                 /\ past'.entered = past.entered
              \/ /\ form'.formData = form.formData
                 /\ past'.overlap = past.overlap /\ past'.lostForm = past.lostForm
                 /\ past'.entered = IF past.entered = Nothing THEN Nothing ELSE form.formData
<1>1. k \in Uploads /\ k \in Upload /\ calls' = calls \ {k} /\ UNCHANGED table
  BY CallKinds DEF Typed, UploadAnswers, Uploads
<1>2. form \in StepForm /\ form \in Form /\ form.formData \in FormData
  BY <1>1, FormType DEF Typed
<1>3. past \in Past /\ Uploads' = Uploads \ {k}
  BY <1>1 DEF Typed, Uploads
<1> DEFINE up == k.uploading \ {k.field}
<1>4. dataAfter(k) \in FormData /\ up \in SUBSET Files
  BY <1>1 DEF dataAfter, Upload, FormData
<1> HIDE DEF up
<1>5. ASSUME NEW d \in FormData, page' = [page EXCEPT !.modal.formData = d, !.modal.uploadingFiles = up]
      PROVE  /\ page' \in FullPage /\ OnAPage(page') /\ page'.users = page.users /\ form' \in StepForm
             /\ form'.id = form.id /\ form'.uploadingFiles = up /\ form'.formData = d
             /\ form'.showStudentFields = form.showStudentFields /\ form'.showDriverFields = form.showDriverFields
  <2> DEFINE f == [form EXCEPT !.formData = d, !.uploadingFiles = up]
  <2>1. /\ f \in StepForm /\ f.id = form.id /\ f.formData = d /\ f.uploadingFiles = up
        /\ f.showStudentFields = form.showStudentFields /\ f.showDriverFields = form.showDriverFields
    BY <1>2, <1>4 DEF StepForm, Form, LastStep
  <2>2. page' = [page EXCEPT !.modal = f]
    <3>1. page \in FullPage
      BY DEF Typed
    <3> QED BY <1>5, <3>1 DEF form, FullPage
  <2> HIDE DEF f
  <2> QED BY <2>1, <2>2, ModalIs
<1>6. CASE /\ page' = [page EXCEPT !.modal.formData = dataAfter(k), !.modal.uploadingFiles = up]
           /\ past' = [past EXCEPT !.overlap = Saving, !.lostForm = FALSE]
  <2> DEFINE b == Saving
  <2>1. b \in BOOLEAN /\ past' = [past EXCEPT !.overlap = b, !.lostForm = FALSE] /\ b = Saving
    BY <1>3, <1>6 DEF Past, Saving
  <2> HIDE DEF b
  <2>2. /\ past' \in Past /\ past'.overlap = b /\ past'.entered = past.entered
        /\ past'.used = past.used /\ past'.drafts = past.drafts /\ past'.unsure = past.unsure
        /\ ~past'.lostForm /\ past'.raced = past.raced
    BY <1>3, <2>1 DEF Past
  <2>3. /\ page' \in FullPage /\ OnAPage(page') /\ page'.users = page.users /\ form' \in StepForm
        /\ form'.id = form.id /\ form'.uploadingFiles = up /\ form'.formData = dataAfter(k)
        /\ form'.showStudentFields = form.showStudentFields /\ form'.showDriverFields = form.showDriverFields
    BY <1>4, <1>5, <1>6
  <2>4. Typed'
    <3>1. form' # Nothing
      BY <2>3, NoFormAmongNothing DEF StepForm
    <3> QED BY <1>1, <2>2, <2>3, <3>1 DEF Typed
  <2> QED BY <1>1, <1>2, <1>3, <2>1, <2>2, <2>3, <2>4 DEF up
<1>7. CASE /\ page' = [page EXCEPT !.modal.uploadingFiles = up]
           /\ past' = [past EXCEPT !.entered = IF @ = Nothing THEN @ ELSE form.formData]
  <2> DEFINE e == IF past.entered = Nothing THEN Nothing ELSE form.formData
  <2>1. e \in {Nothing} \cup FormData /\ past' = [past EXCEPT !.entered = e]
    BY <1>2, <1>7
  <2> HIDE DEF e
  <2>2. /\ past' \in Past /\ past'.overlap = past.overlap /\ past'.entered = e
        /\ past'.used = past.used /\ past'.drafts = past.drafts /\ past'.unsure = past.unsure
        /\ past'.lostForm = past.lostForm /\ past'.raced = past.raced
    BY <1>3, <2>1 DEF Past
  <2>3. page' = [page EXCEPT !.modal.formData = form.formData, !.modal.uploadingFiles = up]
    <3>1. page \in FullPage /\ page.modal \in Form
      BY <1>2 DEF Typed, form
    <3> QED BY <1>7, <3>1 DEF form, FullPage, Form
  <2>4. /\ page' \in FullPage /\ OnAPage(page') /\ page'.users = page.users /\ form' \in StepForm
        /\ form'.id = form.id /\ form'.uploadingFiles = up /\ form'.formData = form.formData
        /\ form'.showStudentFields = form.showStudentFields /\ form'.showDriverFields = form.showDriverFields
    BY <1>2, <1>5, <2>3
  <2>5. Typed'
    <3>1. form' # Nothing
      BY <2>4, NoFormAmongNothing DEF StepForm
    <3> QED BY <1>1, <2>2, <2>4, <3>1 DEF Typed
  <2> QED BY <1>1, <1>2, <1>3, <2>1, <2>2, <2>4, <2>5 DEF up, e
<1> QED BY <1>6, <1>7 DEF UploadAnswers, up

LEMMA SentIs ==
    ASSUME NEW d \in FormData
    PROVE  /\ buildUserData(d) \in Sent /\ buildUserData(d).role = d.role
           /\ Carried(d.role) \subseteq d.filled => Carried(d.role) \subseteq buildUserData(d).filled
  BY DEF FormData, Sent, buildUserData

LEMMA SubmitIs ==
    ASSUME UsersInputs, Typed, OnAPage(page), handleSubmit \/ handleSaveDraft
    PROVE  /\ Typed' /\ OnAPage(page') /\ UNCHANGED <<table, page>>
           /\ form \in StepForm /\ FormPast(past.entered)
           /\ \E k \in SoundSave :
                  /\ calls' = calls \cup {k} /\ k.op \in {"create", "update"} /\ k.at = "server"
                  /\ k.id = form.id /\ k.sent = buildUserData(form.formData)
<1>1. form # Nothing /\ form \in StepForm /\ form \in Form /\ form.formData \in FormData
  BY FormType DEF handleSubmit, handleSaveDraft
<1>2. PICK draft \in BOOLEAN :
          /\ Submits(draft) /\ form.formData.role # NoRole
          /\ draft => form.id = NoOne
          /\ ~draft => Carried(form.formData.role) \subseteq form.formData.filled
  BY DEF handleSubmit, handleSaveDraft, isComplete
<1> DEFINE k == [op |-> IF form.id = NoOne THEN "create" ELSE "update", at |-> "server", ok |-> FALSE, id |-> form.id,
                 sent |-> buildUserData(form.formData), draft |-> draft, seen |-> NoRole]
<1>3. k \in Save /\ SaveIsSound(k)
  <2>1. buildUserData(form.formData) \in Sent /\ form.id \in Ids \cup {NoOne}
    BY <1>1, SentIs DEF Form
  <2>2. k \in Save
    BY <2>1 DEF Save
  <2> QED BY <1>1, <1>2, <2>2, SentIs DEF SaveIsSound
<1>4. k.op \in {"create", "update"} /\ k.at = "server" /\ k.id = form.id /\ k.sent = buildUserData(form.formData)
  OBVIOUS
<1>5. calls' = calls \cup {k} /\ UNCHANGED <<table, page>> /\ ActOnForm(1, past.entered)
  BY <1>2 DEF Submits
<1> HIDE DEF k
<1>6. FormPast(past.entered)
  <2>1. past.entered \in {Nothing} \cup FormData
    BY DEF Typed, Past
  <2> QED BY <1>5, <2>1, ActOnFormIs
<1>7. k \in SoundSave
  BY <1>3 DEF SoundSave
<1>8. Typed' /\ OnAPage(page')
  <2>1. form' = form
    BY <1>5 DEF form
  <2> QED BY <1>1, <1>5, <1>6, <1>7, <2>1 DEF Typed, FormPast, Calls
<1> QED BY <1>1, <1>4, <1>5, <1>6, <1>7, <1>8

-----------------------------------------------------------------------------
(* What the server does to the requests. *)

AgedOne(k) == IF k.op = "fetch" /\ k.at = "back" THEN [k EXCEPT !.old = TRUE] ELSE k

LEMMA AgedOneIs ==
    ASSUME NEW k \in Calls
    PROVE  /\ AgedOne(k) \in Calls /\ AgedOne(k).op = k.op
           /\ k.op # "fetch" => AgedOne(k) = k
           /\ k.op = "fetch" /\ k.at = "back" => AgedOne(k).old
<1>1. CASE k.op = "fetch" /\ k.at = "back"
  <2>1. k \in Fetch
    BY <1>1, CallKinds
  <2>2. AgedOne(k) = [k EXCEPT !.old = TRUE]
    BY <1>1 DEF AgedOne
  <2>3. AgedOne(k) \in Fetch /\ AgedOne(k).op = k.op /\ AgedOne(k).old
    BY <2>1, <2>2 DEF Fetch
  <2> QED BY <1>1, <2>3 DEF Calls
<1>2. CASE ~(k.op = "fetch" /\ k.at = "back")
  BY <1>2 DEF AgedOne
<1> QED BY <1>1, <1>2

LEMMA AgedIs ==
    ASSUME NEW cs
    PROVE  /\ \A c \in Aged(cs) : \E b \in cs : c = AgedOne(b)
           /\ \A b \in cs : AgedOne(b) \in Aged(cs)
  BY DEF Aged, AgedOne

\* What ageing does to the requests together.
LEMMA AgedCalls ==
    ASSUME NEW cs \in SUBSET Calls
    PROVE  /\ Aged(cs) \subseteq Calls
           /\ \A c \in Aged(cs) : c.op # "fetch" => c \in cs
           /\ \A c \in cs : c.op # "fetch" => c \in Aged(cs)
           /\ \A c \in Aged(cs) : c.op = "fetch" /\ c.at = "back" => c.old
           /\ (\E c \in cs : c.op = "fetch") => (\E c \in Aged(cs) : c.op = "fetch")
<1>1. Aged(cs) \subseteq Calls /\ \A c \in Aged(cs) : c.op # "fetch" => c \in cs
  BY AgedIs, AgedOneIs
<1>2. \A c \in cs : c.op # "fetch" => c \in Aged(cs)
  BY AgedIs, AgedOneIs
<1>3. ASSUME NEW c \in Aged(cs), c.op = "fetch", c.at = "back"
      PROVE  c.old
  <2>1. PICK b \in cs : c = AgedOne(b)
    BY AgedIs
  <2>2. b \in Calls /\ b.op = "fetch"
    BY <1>3, <2>1, AgedOneIs
  <2>3. b.at = "back" \/ c = b
    BY <2>1 DEF AgedOne
  <2> QED BY <1>3, <2>1, <2>2, <2>3, AgedOneIs
<1>4. ASSUME NEW c \in cs, c.op = "fetch"
      PROVE  \E d \in Aged(cs) : d.op = "fetch"
  BY <1>4, AgedIs, AgedOneIs
<1> QED BY <1>1, <1>2, <1>3, <1>4

\* A request k has moved on to j; when the table has changed, the answers are older.
Served(k, j) == calls' = (calls \ {k}) \cup {j} \/ calls' = Aged(calls \ {k}) \cup {j}

LEMMA ServedIs ==
    ASSUME Typed, NEW k \in calls, NEW j \in Calls, j.op = k.op, k.op # "upload", Served(k, j), UNCHANGED page
    PROVE  /\ calls' \subseteq Calls /\ form' = form /\ Uploads' = Uploads
           /\ \A c \in calls' : c.op # "fetch" => c = j \/ c \in calls
<1>1. calls \ {k} \subseteq Calls /\ calls \subseteq Calls
  BY DEF Typed
<1>2. CASE calls' = (calls \ {k}) \cup {j}
  BY <1>1, <1>2 DEF Uploads, form
<1>3. CASE calls' = Aged(calls \ {k}) \cup {j}
  <2>1. calls' \subseteq Calls /\ \A c \in calls' : c.op # "fetch" => c = j \/ c \in calls
    BY <1>1, <1>3, AgedCalls
  <2>2. \A c : c.op = "upload" => (c \in Aged(calls \ {k}) <=> c \in calls \ {k})
    BY <1>1, AgedCalls
  <2>3. Uploads' = Uploads
    BY <1>3, <2>2 DEF Uploads
  <2> QED BY <2>1, <2>3 DEF form
<1> QED BY <1>2, <1>3 DEF Served

\* A request on its way back is what it was.
LEMMA MovedOn ==
    ASSUME NEW k \in Calls, k.op # "upload", NEW ok \in BOOLEAN
    PROVE  LET j == [k EXCEPT !.at = "back", !.ok = ok]
               i == [k EXCEPT !.at = "back"]
           IN  /\ j \in Calls /\ j.op = k.op /\ j.at = "back" /\ j.ok = ok
               /\ i \in Calls /\ i.op = k.op /\ i.at = "back" /\ i.ok = k.ok
               /\ k.op \in {"create", "update", "status"} =>
                      j.id = k.id /\ j.sent = k.sent /\ i.id = k.id /\ i.sent = k.sent
<1>1. CASE k \in Fetch
  BY <1>1 DEF Fetch, Calls
<1>2. CASE k \in SoundSave
  BY <1>2 DEF SoundSave, SaveIsSound, Save, Calls
<1>3. CASE k \in Deletion
  BY <1>3 DEF Deletion, Calls
<1>4. k \notin Upload
  BY DEF Upload
<1> QED BY <1>1, <1>2, <1>3, <1>4 DEF Calls

\* A handler that refuses changes nothing.
Refused(k, j) == calls' = (calls \ {k}) \cup {j} /\ j.at = "back" /\ UNCHANGED <<table, page, past>>

LEMMA RefuseIs ==
    ASSUME Typed, NEW k \in calls, k.op # "upload", Refuse(k)
    PROVE  \E j \in Calls : /\ Refused(k, j) /\ j.op = k.op
                            /\ k.op \in {"create", "update", "status"} => j.id = k.id /\ j.sent = k.sent
<1> DEFINE j == [k EXCEPT !.at = "back"]
<1>1. k \in Calls
  BY DEF Typed
<1>2. /\ j \in Calls /\ j.op = k.op /\ j.at = "back"
      /\ k.op \in {"create", "update", "status"} => j.id = k.id /\ j.sent = k.sent
  BY <1>1, MovedOn
<1>3. Refused(k, j)
  BY <1>2 DEF Refuse, Moves, Refused
<1> HIDE DEF j
<1> QED BY <1>2, <1>3

LEMMA TypedServed ==
    ASSUME Typed, NEW k \in calls, NEW j \in Calls, j.op = k.op, k.op # "upload", Served(k, j),
           UNCHANGED page, table' \in Rows, past' \in Past
    PROVE  Typed'
  BY ServedIs DEF Typed

LEMMA ReadIs ==
    ASSUME Typed, NEW k \in calls, GetUsers(k)
    PROVE  /\ Typed' /\ UNCHANGED <<table, page, past>> /\ k.op = "fetch"
           /\ \E j \in Calls : calls' = (calls \ {k}) \cup {j} /\ j.op = "fetch" /\ j.rows = table
<1>0. k \in Fetch /\ table \in Rows
  BY CallKinds DEF Typed, GetUsers
<1> DEFINE j == [k EXCEPT !.at = "back", !.ok = TRUE, !.rows = table]
<1>1. j \in Fetch /\ j \in Calls /\ j.op = "fetch" /\ j.rows = table
  BY <1>0 DEF Fetch, Calls
<1>2. calls' = (calls \ {k}) \cup {j} /\ UNCHANGED <<table, page, past>> /\ k.op = "fetch"
  BY DEF GetUsers, Moves
<1> HIDE DEF j
<1>3. Typed'
  BY <1>1, <1>2, TypedServed DEF Typed, Served
<1> QED BY <1>1, <1>2, <1>3

LEMMA FailsIs ==
    ASSUME Typed, NEW k \in calls, RequestFails(k)
    PROVE  /\ Typed' /\ UNCHANGED <<table, page>> /\ k.op # "upload" /\ (k.at = "back" => k.ok)
           /\ \E j \in Calls : /\ calls' = (calls \ {k}) \cup {j} /\ j.op = k.op /\ j.at = "back" /\ ~j.ok
                               /\ k.op \in {"create", "update", "status"} => j.id = k.id /\ j.sent = k.sent
           /\ past'.used = past.used /\ past'.drafts = past.drafts /\ past'.overlap = past.overlap
           /\ past'.lostForm = past.lostForm /\ past'.entered = past.entered /\ past'.raced = past.raced
           /\ past'.unsure = (past.unsure \/ (k.op # "fetch" /\ k.at = "back"))
<1>0. k \in Calls /\ k.op # "upload" /\ past \in Past
  BY DEF Typed, RequestFails, Uploads
<1> DEFINE j == [k EXCEPT !.at = "back", !.ok = FALSE]
           b == past.unsure \/ (k.op # "fetch" /\ k.at = "back")
<1>1. /\ j \in Calls /\ j.op = k.op /\ j.at = "back" /\ ~j.ok
      /\ k.op \in {"create", "update", "status"} => j.id = k.id /\ j.sent = k.sent
  BY <1>0, MovedOn
<1>2. /\ calls' = (calls \ {k}) \cup {j} /\ UNCHANGED <<table, page>> /\ (k.at = "back" => k.ok)
      /\ past' = [past EXCEPT !.unsure = b]
  BY DEF RequestFails, Moves
<1>3. b \in BOOLEAN /\ b = (past.unsure \/ (k.op # "fetch" /\ k.at = "back"))
  BY <1>0 DEF Past
<1> HIDE DEF j, b
<1>4. /\ past' \in Past
      /\ past'.used = past.used /\ past'.drafts = past.drafts /\ past'.overlap = past.overlap
      /\ past'.lostForm = past.lostForm /\ past'.entered = past.entered /\ past'.raced = past.raced
      /\ past'.unsure = b
  BY <1>0, <1>2, <1>3 DEF Past
<1>5. Typed'
  BY <1>0, <1>1, <1>2, <1>4, TypedServed DEF Typed, Served
<1> QED BY <1>0, <1>1, <1>2, <1>3, <1>4, <1>5

\* The history after a write of the handlers: what the list shows and what the form holds
\* are not touched.
WritePast ==
    /\ past' \in Past /\ past'.unsure = past.unsure /\ past'.overlap = past.overlap
    /\ past'.lostForm = past.lostForm /\ past'.entered = past.entered

\* A row is written and its request is on its way back.
Written(k, j) == calls' = Aged(calls \ {k}) \cup {j} /\ j.at = "back" /\ j.ok /\ UNCHANGED page /\ WritePast

CreatesRow(k, r) ==
    /\ \A q \in past.used : q < r
    /\ table' = [q \in DOMAIN table \cup {r} |-> IF q = r THEN k.sent ELSE table[q]]
    /\ past'.used = past.used \cup {r} /\ past'.raced = past.raced
    /\ past'.drafts = IF k.draft THEN past.drafts \cup {r} ELSE past.drafts

LEMMA CreateIs ==
    ASSUME Typed, NEW k \in calls, CreateUser(k)
    PROVE  /\ Typed' /\ k \in SoundSave /\ k.op = "create" /\ k.at = "server"
           /\ \E j \in Calls : /\ j.op = k.op /\ j.id = k.id /\ j.sent = k.sent
                               /\ Refused(k, j) \/ (Written(k, j) /\ \E r \in Ids : CreatesRow(k, r))
<1>0. k \in Calls /\ k \in SoundSave /\ k \in Save /\ SaveIsSound(k) /\ k.op = "create" /\ k.at = "server"
  BY CallKinds DEF Typed, CreateUser
<1>1. CASE Refuse(k)
  <2>1. PICK j \in Calls : Refused(k, j) /\ j.op = k.op /\ j.id = k.id /\ j.sent = k.sent
    BY <1>0, <1>1, RefuseIs
  <2>2. Typed'
    BY <1>0, <2>1, TypedServed DEF Typed, Served, Refused
  <2> QED BY <1>0, <2>1, <2>2
<1>2. CASE ~Refuse(k)
  <2> DEFINE j == [k EXCEPT !.at = "back", !.ok = TRUE]
  <2>1. j \in Calls /\ j.op = k.op /\ j.at = "back" /\ j.ok /\ j.id = k.id /\ j.sent = k.sent
    BY <1>0, MovedOn
  <2>2. PICK r \in Ids :
            /\ \A q \in past.used : q < r
            /\ table' = [q \in DOMAIN table \cup {r} |-> IF q = r THEN k.sent ELSE table[q]]
            /\ past' = [past EXCEPT !.used = @ \cup {r}, !.drafts = IF k.draft THEN @ \cup {r} ELSE @]
            /\ calls' = Aged(calls \ {k}) \cup {j}
            /\ UNCHANGED page
    BY <1>2 DEF CreateUser, MovesAndAges
  <2> HIDE DEF j
  <2>3. past \in Past /\ table \in Rows
    BY DEF Typed
  <2>4. /\ WritePast /\ past'.used = past.used \cup {r} /\ past'.raced = past.raced
        /\ past'.drafts = IF k.draft THEN past.drafts \cup {r} ELSE past.drafts
    <3> DEFINE u == past.used \cup {r}
               d == IF k.draft THEN past.drafts \cup {r} ELSE past.drafts
    <3>1. u \in SUBSET Ids /\ d \in SUBSET Ids /\ past' = [past EXCEPT !.used = u, !.drafts = d]
      BY <2>2, <2>3 DEF Past
    <3> HIDE DEF u, d
    <3>2. /\ WritePast /\ past'.used = u /\ past'.raced = past.raced /\ past'.drafts = d
      BY <2>3, <3>1 DEF Past, WritePast
    <3> QED BY <3>2 DEF u, d
  <2>5. table' \in Rows
    <3>1. k.sent \in User
      BY <1>0 DEF Save, Sent, SaveIsSound, User
    <3>2. DOMAIN table \subseteq Ids /\ \A q \in DOMAIN table : table[q] \in User
      BY <2>3, RowType
    <3>3. table' \in [DOMAIN table \cup {r} -> User]
      BY <2>2, <3>1, <3>2
    <3> QED BY <3>2, <3>3 DEF Rows
  <2>6. Typed'
    BY <1>0, <2>1, <2>2, <2>4, <2>5, TypedServed DEF Served, WritePast
  <2>7. Written(k, j) /\ CreatesRow(k, r)
    BY <2>1, <2>2, <2>4 DEF Written, CreatesRow
  <2> QED BY <1>0, <2>1, <2>6, <2>7
<1> QED BY <1>1, <1>2

LEMMA CheckUpdateIs ==
    ASSUME Typed, NEW k \in calls, CheckUpdate(k)
    PROVE  /\ Typed' /\ UNCHANGED <<table, page, past>> /\ k.op \in {"update", "status"}
           /\ \E j \in Calls : /\ calls' = (calls \ {k}) \cup {j} /\ j.op = k.op /\ j.id = k.id /\ j.sent = k.sent
                               /\ \/ j.at = "back"
                                  \/ j.at = "checked" /\ k.id \in DOMAIN table /\ j.seen = table[k.id].role
<1>0. k \in Calls /\ k \in SoundSave /\ k \in Save /\ SaveIsSound(k) /\ k.op \in {"update", "status"}
  BY CallKinds DEF Typed, CheckUpdate
<1>1. CASE Refuse(k)
  <2>1. PICK j \in Calls : Refused(k, j) /\ j.op = k.op /\ j.id = k.id /\ j.sent = k.sent
    BY <1>0, <1>1, RefuseIs
  <2>2. Typed'
    BY <1>0, <2>1, TypedServed DEF Typed, Served, Refused
  <2> QED BY <1>0, <2>1, <2>2 DEF Refused
<1>2. CASE ~Refuse(k)
  <2> DEFINE seen == table[k.id].role
             j == [k EXCEPT !.at = "checked", !.seen = seen]
  <2>1. k.id \in DOMAIN table /\ calls' = (calls \ {k}) \cup {j} /\ UNCHANGED <<table, page, past>>
    BY <1>2 DEF CheckUpdate, Moves
  <2>2. seen \in Roles
    <3>1. table[k.id] \in User
      BY <2>1, RowType DEF Typed
    <3> QED BY <3>1 DEF User
  <2>3. j \in SoundSave /\ j.op = k.op /\ j.id = k.id /\ j.sent = k.sent /\ j.at = "checked" /\ j.seen = seen
    <3> HIDE DEF seen
    <3>1. seen # NoRole
      BY <2>2 DEF Roles, NoRole
    <3> QED BY <1>0, <2>2, <3>1 DEF SoundSave, SaveIsSound, Save
  <2>4. seen = table[k.id].role
    OBVIOUS
  <2> HIDE DEF j, seen
  <2>5. Typed'
    BY <1>0, <2>1, <2>3, TypedServed DEF Typed, Served, Calls
  <2> QED BY <1>0, <2>1, <2>3, <2>4, <2>5 DEF Calls
<1> QED BY <1>1, <1>2

LEMMA CheckDeleteIs ==
    ASSUME Typed, NEW k \in calls, CheckDelete(k)
    PROVE  /\ Typed' /\ UNCHANGED <<table, page, past>> /\ k.op = "delete"
           /\ \E j \in Calls : /\ calls' = (calls \ {k}) \cup {j} /\ j.op = k.op
                               /\ \/ j.at = "back"
                                  \/ /\ j.at = "checked" /\ j.id \in DOMAIN table
                                     /\ table[j.id].role # "SuperAdmin"
<1>0. k \in Calls /\ k \in Deletion /\ k.op = "delete"
  BY CallKinds DEF Typed, CheckDelete
<1>1. CASE Refuse(k)
  <2>1. PICK j \in Calls : Refused(k, j) /\ j.op = k.op
    BY <1>0, <1>1, RefuseIs
  <2>2. Typed'
    BY <1>0, <2>1, TypedServed DEF Typed, Served, Refused
  <2> QED BY <1>0, <2>1, <2>2 DEF Refused
<1>2. CASE ~Refuse(k)
  <2> DEFINE j == [k EXCEPT !.at = "checked"]
  <2>1. /\ k.id \in DOMAIN table /\ table[k.id].role # "SuperAdmin"
        /\ calls' = (calls \ {k}) \cup {j} /\ UNCHANGED <<table, page, past>>
    BY <1>2 DEF CheckDelete, mayDelete, Moves
  <2>2. j \in Deletion /\ j.op = k.op /\ j.id = k.id /\ j.at = "checked"
    BY <1>0 DEF Deletion
  <2> HIDE DEF j
  <2>3. Typed'
    BY <1>0, <2>1, <2>2, TypedServed DEF Typed, Served, Calls
  <2> QED BY <1>0, <2>1, <2>2, <2>3 DEF Calls
<1> QED BY <1>1, <1>2

UpdatesRow(k) ==
    /\ k.id \in DOMAIN table /\ mayUpdate(k.sent, k.seen, table[k.id])
    /\ table' = [table EXCEPT ![k.id] = Updated(k.sent, k.seen, table[k.id])]
    /\ past'.used = past.used
    /\ past'.drafts = IF k.op = "update" THEN past.drafts \ {k.id} ELSE past.drafts
    /\ past'.raced = (past.raced \/ (table'[k.id].role = "SuperAdmin" /\ table[k.id].role # "SuperAdmin"
                                        /\ checkedOn(k.id, calls \ {k})))

LEMMA UpdateIs ==
    ASSUME Typed, NEW k \in calls, UpdateUser(k)
    PROVE  /\ Typed' /\ k \in SoundSave /\ k.op \in {"update", "status"} /\ k.at = "checked"
           /\ \E j \in Calls : /\ j.op = k.op /\ j.id = k.id /\ j.sent = k.sent
                               /\ Refused(k, j) \/ (Written(k, j) /\ UpdatesRow(k))
<1>0. k \in Calls /\ k \in SoundSave /\ k \in Save /\ SaveIsSound(k) /\ k.op \in {"update", "status"} /\ k.at = "checked"
  BY CallKinds DEF Typed, UpdateUser
<1>1. CASE Refuse(k)
  <2>1. PICK j \in Calls : Refused(k, j) /\ j.op = k.op /\ j.id = k.id /\ j.sent = k.sent
    BY <1>0, <1>1, RefuseIs
  <2>2. Typed'
    BY <1>0, <2>1, TypedServed DEF Typed, Served, Refused
  <2> QED BY <1>0, <2>1, <2>2
<1>2. CASE ~Refuse(k)
  <2> DEFINE j == [k EXCEPT !.at = "back", !.ok = TRUE]
             d == IF k.op = "update" THEN past.drafts \ {k.id} ELSE past.drafts
             b == past.raced \/ (table'[k.id].role = "SuperAdmin" /\ table[k.id].role # "SuperAdmin"
                                    /\ checkedOn(k.id, calls \ {k}))
  <2>1. j \in Calls /\ j.op = k.op /\ j.at = "back" /\ j.ok /\ j.id = k.id /\ j.sent = k.sent
    BY <1>0, MovedOn
  <2>2. /\ k.id \in DOMAIN table /\ mayUpdate(k.sent, k.seen, table[k.id])
        /\ table' = [table EXCEPT ![k.id] = Updated(k.sent, k.seen, table[k.id])]
        /\ past' = [past EXCEPT !.drafts = d, !.raced = b]
        /\ calls' = Aged(calls \ {k}) \cup {j}
        /\ UNCHANGED page
    BY <1>2 DEF UpdateUser, MovesAndAges
  <2>3. past \in Past /\ table \in Rows
    BY DEF Typed
  <2>4. d \in SUBSET Ids /\ b \in BOOLEAN
    BY <2>3 DEF Past
  <2>5. /\ d = IF k.op = "update" THEN past.drafts \ {k.id} ELSE past.drafts
        /\ b = (past.raced \/ (table'[k.id].role = "SuperAdmin" /\ table[k.id].role # "SuperAdmin"
                                    /\ checkedOn(k.id, calls \ {k})))
    OBVIOUS
  <2> HIDE DEF j, d, b
  <2>6. WritePast /\ past'.used = past.used /\ past'.raced = b /\ past'.drafts = d
    BY <2>2, <2>3, <2>4 DEF Past, WritePast
  <2>7. table' \in Rows
    <3> DEFINE u == Updated(k.sent, k.seen, table[k.id])
    <3>1. k.sent \in Sent /\ table[k.id] \in User
      BY <1>0, <2>2, <2>3, RowType DEF Save
    <3>2. u \in User
      BY <3>1 DEF Sent, Updated, User
    <3> HIDE DEF u
    <3>3. DOMAIN table \subseteq Ids /\ table \in [DOMAIN table -> User]
      BY <2>3 DEF Rows
    <3>4. table' \in [DOMAIN table -> User]
      BY <2>2, <3>2, <3>3 DEF u
    <3> QED BY <3>3, <3>4 DEF Rows
  <2>8. Typed'
    BY <1>0, <2>1, <2>2, <2>6, <2>7, TypedServed DEF Served, WritePast
  <2>9. Written(k, j) /\ UpdatesRow(k)
    BY <2>1, <2>2, <2>5, <2>6 DEF Written, UpdatesRow
  <2> QED BY <1>0, <2>1, <2>8, <2>9
<1> QED BY <1>1, <1>2

DeletesRow(k) ==
    /\ k.id \in DOMAIN table /\ table' = [q \in DOMAIN table \ {k.id} |-> table[q]] /\ UNCHANGED past

LEMMA DeleteIs ==
    ASSUME Typed, NEW k \in calls, DeleteUser(k)
    PROVE  /\ Typed' /\ k.op = "delete" /\ k.at = "checked"
           /\ \E j \in Calls : /\ j.op = k.op
                               /\ Refused(k, j) \/ (Written(k, j) /\ DeletesRow(k))
<1>0. k \in Calls /\ k \in Deletion /\ k.op = "delete" /\ k.at = "checked"
  BY CallKinds DEF Typed, DeleteUser
<1>1. CASE Refuse(k)
  <2>1. PICK j \in Calls : Refused(k, j) /\ j.op = k.op
    BY <1>0, <1>1, RefuseIs
  <2>2. Typed'
    BY <1>0, <2>1, TypedServed DEF Typed, Served, Refused
  <2> QED BY <1>0, <2>1, <2>2
<1>2. CASE ~Refuse(k)
  <2> DEFINE j == [k EXCEPT !.at = "back", !.ok = TRUE]
  <2>1. j \in Calls /\ j.op = k.op /\ j.at = "back" /\ j.ok
    BY <1>0, MovedOn
  <2>2. /\ k.id \in DOMAIN table /\ table' = [q \in DOMAIN table \ {k.id} |-> table[q]]
        /\ calls' = Aged(calls \ {k}) \cup {j} /\ UNCHANGED <<page, past>>
    BY <1>2 DEF DeleteUser, MovesAndAges
  <2> HIDE DEF j
  <2>3. past \in Past /\ table \in Rows
    BY DEF Typed
  <2>4. table' \in Rows
    <3>1. DOMAIN table \subseteq Ids /\ \A q \in DOMAIN table : table[q] \in User
      BY <2>3, RowType
    <3>2. table' \in [DOMAIN table \ {k.id} -> User]
      BY <2>2, <3>1
    <3> QED BY <3>1, <3>2 DEF Rows
  <2>5. Typed'
    BY <1>0, <2>1, <2>2, <2>3, <2>4, TypedServed DEF Served
  <2>6. Written(k, j) /\ DeletesRow(k)
    BY <2>1, <2>2, <2>3 DEF Written, DeletesRow, WritePast
  <2> QED BY <1>0, <2>1, <2>5, <2>6
<1> QED BY <1>1, <1>2

LEMMA OtherIs ==
    ASSUME UsersInputs, Typed, OtherAdminWrites
    PROVE  /\ Typed' /\ UNCHANGED page /\ calls' = Aged(calls)
           /\ past'.unsure /\ past'.used = past.used /\ past'.drafts = past.drafts /\ past'.overlap = past.overlap
           /\ past'.lostForm = past.lostForm /\ past'.entered = past.entered
           /\ \E r \in DOMAIN table :
                  /\ table[r].role # "SuperAdmin"
                  /\ \/ /\ table' = [q \in DOMAIN table \ {r} |-> table[q]]
                        /\ past'.raced = past.raced
                     \/ /\ table' = [table EXCEPT ![r].role = "SuperAdmin"]
                        /\ past'.raced = (past.raced \/ checkedOn(r, calls))
<1>0. past \in Past /\ table \in Rows /\ calls \subseteq Calls /\ UNCHANGED page /\ calls' = Aged(calls)
  BY DEF Typed, OtherAdminWrites
<1>1. past.acts + 1 \in 0 .. MaxActs
  BY <1>0, InputTypes DEF OtherAdminWrites, Past
<1>2. DOMAIN table \subseteq Ids /\ \A q \in DOMAIN table : table[q] \in User
  BY <1>0, RowType
<1>3. calls' \subseteq Calls /\ Uploads' = Uploads
  <2>1. calls' \subseteq Calls
    BY <1>0, AgedCalls
  <2>2. \A c : c.op = "upload" => (c \in Aged(calls) <=> c \in calls)
    BY <1>0, AgedCalls
  <2> QED BY <1>0, <2>1, <2>2 DEF Uploads
<1>4. PICK r \in DOMAIN table :
          /\ table[r].role # "SuperAdmin"
          /\ \/ /\ table' = [q \in DOMAIN table \ {r} |-> table[q]]
                /\ past' = [past EXCEPT !.acts = past.acts + 1, !.unsure = TRUE]
             \/ /\ table' = [table EXCEPT ![r].role = "SuperAdmin"]
                /\ past' = [past EXCEPT !.acts = past.acts + 1, !.unsure = TRUE,
                                        !.raced = past.raced \/ checkedOn(r, calls)]
  BY DEF OtherAdminWrites
<1> DEFINE Rest == /\ past' \in Past /\ past'.unsure /\ past'.used = past.used /\ past'.drafts = past.drafts
                   /\ past'.overlap = past.overlap /\ past'.lostForm = past.lostForm /\ past'.entered = past.entered
<1>5. ASSUME NEW b \in BOOLEAN
      PROVE  \A a \in 0 .. MaxActs : past' = [past EXCEPT !.acts = a, !.unsure = TRUE, !.raced = b] =>
                 Rest /\ past'.raced = b
  BY <1>0 DEF Past
<1>6. CASE /\ table' = [q \in DOMAIN table \ {r} |-> table[q]]
           /\ past' = [past EXCEPT !.acts = past.acts + 1, !.unsure = TRUE]
  <2>1. past.raced \in BOOLEAN /\ past' = [past EXCEPT !.acts = past.acts + 1, !.unsure = TRUE, !.raced = past.raced]
    BY <1>0, <1>6 DEF Past
  <2>2. Rest /\ past'.raced = past.raced
    BY <1>1, <1>5, <2>1
  <2>3. table' \in [DOMAIN table \ {r} -> User]
    BY <1>2, <1>6
  <2>4. table' \in Rows
    BY <1>2, <2>3 DEF Rows
  <2> QED BY <1>0, <1>3, <1>4, <1>6, <2>2, <2>4 DEF Typed, form
<1>7. CASE /\ table' = [table EXCEPT ![r].role = "SuperAdmin"]
           /\ past' = [past EXCEPT !.acts = past.acts + 1, !.unsure = TRUE,
                                   !.raced = past.raced \/ checkedOn(r, calls)]
  <2> DEFINE b == past.raced \/ checkedOn(r, calls)
  <2>1. b \in BOOLEAN /\ past' = [past EXCEPT !.acts = past.acts + 1, !.unsure = TRUE, !.raced = b]
    BY <1>0, <1>7 DEF Past, checkedOn
  <2>2. b = (past.raced \/ checkedOn(r, calls))
    OBVIOUS
  <2> HIDE DEF b
  <2>3. Rest /\ past'.raced = b
    BY <1>1, <1>5, <2>1
  <2>4. table' \in Rows
    <3> DEFINE u == [table[r] EXCEPT !.role = "SuperAdmin"]
    <3>1. u \in User
      BY <1>2 DEF User, Roles
    <3>2. table' = [table EXCEPT ![r] = u]
      BY <1>7
    <3>3. table \in [DOMAIN table -> User]
      BY <1>0 DEF Rows
    <3> HIDE DEF u
    <3>4. table' \in [DOMAIN table -> User]
      BY <3>1, <3>2, <3>3
    <3> QED BY <1>2, <3>4 DEF Rows
  <2>5. Typed'
    BY <1>0, <1>3, <2>3, <2>4 DEF Typed, form
  <2>6. past'.raced = (past.raced \/ checkedOn(r, calls))
    BY <2>2, <2>3
  <2> QED BY <1>0, <1>4, <1>7, <2>3, <2>5, <2>6
<1> QED BY <1>4, <1>6, <1>7

-----------------------------------------------------------------------------
(* What the answers do. *)

LEMMA FetchAnswersIs ==
    ASSUME UsersInputs, Typed, OnAPage(page), NEW k \in calls, FetchAnswers(k)
    PROVE  /\ Typed' /\ OnAPage(page') /\ UNCHANGED table /\ calls' = calls \ {k} /\ Uploads' = Uploads
           /\ form' = form /\ k.op = "fetch" /\ k.at = "back"
           /\ k.ok => page'.users = k.rows /\ past'.unsure = k.old
           /\ ~k.ok => page'.users = page.users /\ past'.unsure
           /\ past'.used = past.used /\ past'.drafts = past.drafts /\ past'.overlap = past.overlap
           /\ past'.lostForm = past.lostForm /\ past'.entered = past.entered /\ past'.raced = past.raced
<1>0. /\ k \in Fetch /\ page \in FullPage /\ past \in Past /\ k.op = "fetch" /\ k.at = "back"
      /\ calls' = calls \ {k} /\ UNCHANGED table
  BY CallKinds DEF Typed, FetchAnswers
<1> DEFINE Rest == /\ past' \in Past
                   /\ past'.used = past.used /\ past'.drafts = past.drafts /\ past'.overlap = past.overlap
                   /\ past'.lostForm = past.lostForm /\ past'.entered = past.entered /\ past'.raced = past.raced
<1>1. ASSUME NEW b \in BOOLEAN, past' = [past EXCEPT !.unsure = b]
      PROVE  Rest /\ past'.unsure = b
  BY <1>0, <1>1 DEF Past
<1>2. Uploads' = Uploads
  BY <1>0 DEF Uploads
<1>3. CASE k.ok
  <2> DEFINE p == [page EXCEPT !.users = k.rows, !.initialFetchDone = TRUE]
  <2>1. page' = Rendered(p, FALSE) /\ past' = [past EXCEPT !.unsure = k.old]
    BY <1>3 DEF FetchAnswers
  <2>2. p \in FullPage /\ p.users = k.rows /\ p.modal = page.modal
    BY <1>0 DEF FullPage, Fetch
  <2> HIDE DEF p
  <2>3. page' \in FullPage /\ OnAPage(page') /\ page'.users = k.rows /\ form' = form
    BY <2>1, <2>2, RenderedIs DEF Alike, form
  <2>4. Rest /\ past'.unsure = k.old
    BY <1>0, <1>1, <2>1 DEF Fetch
  <2> QED BY <1>0, <1>2, <1>3, <2>3, <2>4 DEF Typed
<1>4. CASE ~k.ok
  <2>1. page' = [page EXCEPT !.error = TRUE, !.initialFetchDone = TRUE] /\ past' = [past EXCEPT !.unsure = TRUE]
    BY <1>4 DEF FetchAnswers
  <2>2. page' \in FullPage /\ SameList(page', page) /\ Alike(page', page)
    BY <1>0, <2>1 DEF FullPage, SameList, Alike
  <2>3. OnAPage(page') /\ page'.users = page.users /\ form' = form
    BY <2>2, SameListOnAPage DEF Alike, form
  <2>4. Rest /\ past'.unsure
    BY <1>1, <2>1
  <2> QED BY <1>0, <1>2, <1>4, <2>2, <2>3, <2>4 DEF Typed
<1> QED BY <1>3, <1>4

\* A save that is stored closes the form that is open.
LEMMA SaveAnswersIs ==
    ASSUME Typed, OnAPage(page), NEW k \in calls, SaveAnswers(k)
    PROVE  /\ Typed' /\ OnAPage(page') /\ UNCHANGED table /\ page'.users = page.users
           /\ k.op \in {"create", "update"} /\ k.at = "back"
           /\ ~k.ok => calls' = calls \ {k} /\ form' = form /\ SamePast
           /\ k.ok => /\ calls' = (calls \ ({k} \cup Uploads)) \cup {fetchUsers} /\ form' = Nothing
                      /\ past'.entered = Nothing
                      /\ past'.lostForm = (past.lostForm \/ (form # Nothing /\
                             ~(k.id = form.id /\ k.sent = buildUserData(form.formData))))
           /\ past'.used = past.used /\ past'.drafts = past.drafts /\ past'.unsure = past.unsure
           /\ past'.overlap = past.overlap /\ past'.raced = past.raced
<1>0. page \in FullPage /\ past \in Past /\ k.op \in {"create", "update"} /\ k.at = "back" /\ UNCHANGED table
  BY DEF Typed, SaveAnswers
<1> DEFINE e == IF ClosesForm(k) THEN Nothing ELSE past.entered
           b == past.lostForm \/ (ClosesForm(k) /\ form # Nothing
                     /\ ~(k.ok /\ k.id = form.id /\ k.sent = buildUserData(form.formData)))
<1>1. b \in BOOLEAN /\ e \in {Nothing} \cup FormData /\ past' = [past EXCEPT !.entered = e, !.lostForm = b]
  BY <1>0 DEF SaveAnswers, Past
<1>2. /\ k.ok => e = Nothing /\ b = (past.lostForm \/ (form # Nothing /\
                             ~(k.id = form.id /\ k.sent = buildUserData(form.formData))))
      /\ ~k.ok => e = past.entered /\ b = past.lostForm
  BY <1>0 DEF ClosesForm, Past
<1> HIDE DEF e, b
<1>3. /\ past' \in Past /\ past'.entered = e /\ past'.lostForm = b
      /\ past'.used = past.used /\ past'.drafts = past.drafts /\ past'.unsure = past.unsure
      /\ past'.overlap = past.overlap /\ past'.raced = past.raced
  BY <1>0, <1>1 DEF Past
<1>4. CASE k.ok
  <2>1. /\ page' = [WithoutForm(page) EXCEPT !.error = FALSE]
        /\ calls' = (calls \ ({k} \cup Uploads)) \cup {fetchUsers}
    BY <1>4 DEF SaveAnswers, ClosesForm
  <2>2. page' \in FullPage /\ SameList(page', page) /\ page'.modal = Nothing
    BY <1>0, <2>1 DEF WithoutForm, FullPage, SameList
  <2>3. OnAPage(page') /\ page'.users = page.users /\ form' = Nothing
    BY <2>2, SameListOnAPage DEF SameList, form
  <2>4. Uploads' = {} /\ calls' \subseteq Calls
    BY <2>1, FetchType DEF Uploads, Typed
  <2> QED BY <1>0, <1>2, <1>3, <1>4, <2>1, <2>2, <2>3, <2>4 DEF Typed
<1>5. CASE ~k.ok
  <2>1. page' = [page EXCEPT !.error = page.error] /\ calls' = calls \ {k}
    BY <1>5 DEF SaveAnswers, ClosesForm
  <2>2. page' = page
    BY <1>0, <2>1 DEF FullPage
  <2>3. Uploads' = Uploads /\ form' = form /\ SamePast
    BY <1>0, <1>2, <1>3, <1>5, <2>1, <2>2 DEF Uploads, form, SamePast
  <2> QED BY <1>0, <1>3, <1>5, <2>1, <2>2, <2>3 DEF Typed
<1> QED BY <1>4, <1>5

LEMMA OtherAnswersIs ==
    ASSUME Typed, OnAPage(page), NEW k \in calls, StatusAnswers(k) \/ DeleteAnswers(k)
    PROVE  /\ Typed' /\ OnAPage(page') /\ UNCHANGED <<table, past>> /\ Alike(page', page) /\ Uploads' = Uploads
           /\ k.op \in {"status", "delete"} /\ k.at = "back"
           /\ ~k.ok => calls' = calls \ {k}
           /\ k.ok => calls' = (calls \ {k}) \cup {fetchUsers}
<1>0. page \in FullPage /\ k.op \in {"status", "delete"} /\ k.at = "back" /\ UNCHANGED <<table, past>>
  BY DEF Typed, StatusAnswers, DeleteAnswers
<1>1. /\ ~k.ok => calls' = calls \ {k}
      /\ k.ok => calls' = (calls \ {k}) \cup {fetchUsers}
  BY DEF StatusAnswers, DeleteAnswers, RefetchAfter
<1>2. \/ page' = page
      \/ page' = [page EXCEPT !.statusChangeUser = NoOne, !.error = FALSE]
      \/ page' = [page EXCEPT !.error = FALSE]
  BY DEF StatusAnswers, DeleteAnswers
<1>3. page' \in FullPage /\ SameList(page', page) /\ Alike(page', page)
  <2>1. CASE page' = page
    BY <1>0, <2>1 DEF SameList, Alike
  <2>2. CASE page' = [page EXCEPT !.error = FALSE]
    BY <1>0, <2>2 DEF FullPage, SameList, Alike
  <2>3. CASE page' = [page EXCEPT !.statusChangeUser = NoOne, !.error = FALSE]
    BY <1>0, <2>3 DEF FullPage, SameList, Alike
  <2> QED BY <1>2, <2>1, <2>2, <2>3
<1>4. OnAPage(page') /\ form' = form
  BY <1>3, SameListOnAPage DEF Alike, form
<1>5. Uploads' = Uploads /\ calls' \subseteq Calls
  BY <1>0, <1>1, FetchType DEF Uploads, Typed
<1> QED BY <1>0, <1>1, <1>3, <1>4, <1>5 DEF Typed

-----------------------------------------------------------------------------
(* The page is typed and on a page that exists. *)

FormActions ==
    \/ AddUser \/ \E r \in DOMAIN page.users : handleEdit(r)
    \/ handleCloseModal \/ handleNext \/ handlePrevious \/ handleFileChange \/ handleSubmit \/ handleSaveDraft \/ Edits

RequestActions == Retry \/ ChooseStatus \/ \E r \in DOMAIN page.users : handleDelete(r)

Serves(k) ==
    \/ GetUsers(k) \/ CreateUser(k) \/ CheckUpdate(k) \/ UpdateUser(k)
    \/ CheckDelete(k) \/ DeleteUser(k) \/ RequestFails(k)

Answers(k) == UploadAnswers(k) \/ FetchAnswers(k) \/ SaveAnswers(k) \/ StatusAnswers(k) \/ DeleteAnswers(k)

LEMMA NextIs ==
    ASSUME Next
    PROVE  \/ Toolbar \/ RequestActions \/ FormActions \/ OtherAdminWrites
           \/ \E k \in calls : Serves(k)
           \/ \E k \in calls : Answers(k)
<1>1. CASE \E k \in calls :
               \/ UploadAnswers(k) \/ GetUsers(k) \/ CreateUser(k) \/ CheckUpdate(k) \/ UpdateUser(k)
               \/ CheckDelete(k) \/ DeleteUser(k) \/ RequestFails(k)
               \/ FetchAnswers(k) \/ SaveAnswers(k) \/ StatusAnswers(k) \/ DeleteAnswers(k)
  BY <1>1 DEF Serves, Answers
<1>2. CASE \E r \in DOMAIN page.users : View(r) \/ handleDelete(r) \/ handleStatusClick(r) \/ handleEdit(r)
  BY <1>2 DEF Toolbar, RequestActions, FormActions
<1> QED BY <1>1, <1>2 DEF Next, Toolbar, RequestActions, FormActions, Edits

LEMMA ServedOnAPage ==
    ASSUME UsersInputs, Typed, OnAPage(page), OtherAdminWrites \/ \E k \in calls : Serves(k)
    PROVE  Typed' /\ OnAPage(page') /\ UNCHANGED page
<1>1. CASE OtherAdminWrites
  BY <1>1, OtherIs
<1>2. ASSUME NEW k \in calls, Serves(k)
      PROVE  Typed' /\ OnAPage(page') /\ UNCHANGED page
  <2>1. CASE GetUsers(k)
    BY <2>1, ReadIs
  <2>2. CASE CreateUser(k)
    BY <2>2, CreateIs DEF Refused, Written
  <2>3. CASE CheckUpdate(k)
    BY <2>3, CheckUpdateIs
  <2>4. CASE UpdateUser(k)
    BY <2>4, UpdateIs DEF Refused, Written
  <2>5. CASE CheckDelete(k)
    BY <2>5, CheckDeleteIs
  <2>6. CASE DeleteUser(k)
    BY <2>6, DeleteIs DEF Refused, Written
  <2>7. CASE RequestFails(k)
    BY <2>7, FailsIs
  <2> QED BY <1>2, <2>1, <2>2, <2>3, <2>4, <2>5, <2>6, <2>7 DEF Serves
<1> QED BY <1>1, <1>2

LEMMA TypedStep ==
    ASSUME UsersInputs, Typed, OnAPage(page), [Next]_vars
    PROVE  Typed' /\ OnAPage(page')
<1>1. CASE UNCHANGED vars
  BY <1>1 DEF vars, Typed, OnAPage, filtered, form, Uploads
<1>2. CASE Toolbar
  BY <1>2, ToolbarIs
<1>3. CASE RequestActions
  BY <1>3, RequestIs DEF RequestActions
<1>4. CASE FormActions
  BY <1>4, OpenFormIs, CloseIs, StepIs, FileIs, SubmitIs, EditsIs DEF FormActions
<1>5. CASE OtherAdminWrites \/ \E k \in calls : Serves(k)
  BY <1>5, ServedOnAPage
<1>6. CASE \E k \in calls : Answers(k)
  BY <1>6, UploadIs, FetchAnswersIs, SaveAnswersIs, OtherAnswersIs DEF Answers
<1> QED BY <1>1, <1>2, <1>3, <1>4, <1>5, <1>6, NextIs

LEMMA TypedInit == UsersInputs /\ Init => Typed /\ OnAPage(page)
<1> SUFFICES ASSUME UsersInputs, Init PROVE Typed /\ OnAPage(page)
  OBVIOUS
<1>1. <<>> \in Rows /\ DOMAIN <<>> = {}
  <2>1. <<>> \in [{} -> User]
    OBVIOUS
  <2> QED BY <2>1 DEF Rows
<1>2. table \in Rows /\ calls = {fetchUsers} /\ page = Mounted /\ past = NoPast(table)
  BY InputTypes DEF Init, MountCalls
<1>3. page \in FullPage
  BY <1>1, <1>2, InputTypes DEF Mounted, FullPage
<1>4. past \in Past
  BY <1>2, RowType, InputTypes DEF NoPast, Past
<1>5. calls \subseteq Calls /\ Uploads = {}
  BY <1>2, FetchType DEF Uploads
<1>6. OnAPage(page)
  <2>1. filtered(page) = {} /\ page.currentPage = 1
    BY <1>1, <1>2 DEF Mounted, filtered
  <2>2. TotalPages(Cardinality(filtered(page)), page.pageSize) = 1
    BY <2>1, FS_EmptySet DEF TotalPages
  <2> QED BY <2>1, <2>2 DEF OnAPage
<1> QED BY <1>2, <1>3, <1>4, <1>5, <1>6 DEF Typed

-----------------------------------------------------------------------------
(* The list is current. *)

\* The list is being fetched, or will be when a request that has written is answered.
ListWillChange == \E k \in calls : k.op = "fetch" \/ (k.op # "upload" /\ k.at = "back" /\ k.ok)

\* An answer that is not old has the rows of the table.
IsFresh(k) == k.op = "fetch" /\ k.at = "back" /\ k.ok /\ ~k.old => k.rows = table

Current ==
    /\ ~past.unsure /\ ~ListWillChange => page.users = table
    /\ \A k \in calls : IsFresh(k)

\* A step that writes nothing and shows nothing new.
LEMMA CurrentSame ==
    ASSUME Current, UNCHANGED table, page'.users = page.users, past'.unsure = past.unsure,
           \A c \in calls' : c \in calls \/ IsFresh(c),
           ListWillChange => ListWillChange'
    PROVE  Current'
  BY DEF Current, IsFresh

LEMMA CurrentMoved ==
    ASSUME Current, NEW k \in calls, NEW j, j.op = k.op, calls' = (calls \ {k}) \cup {j}, IsFresh(j),
           UNCHANGED <<table, page>>,
           past'.unsure \/ (past'.unsure = past.unsure /\ (k.at = "back" /\ k.ok => k.op \in {"fetch", "upload"}))
    PROVE  Current'
<1>1. \A c \in calls' : IsFresh(c)'
  BY DEF Current, IsFresh
<1>2. CASE past'.unsure
  BY <1>1, <1>2 DEF Current
<1>3. CASE past'.unsure = past.unsure /\ (k.at = "back" /\ k.ok => k.op \in {"fetch", "upload"})
  <2>1. ListWillChange => ListWillChange'
    <3>1. \A c \in calls : c # k => c \in calls'
      OBVIOUS
    <3>2. j \in calls'
      OBVIOUS
    <3>3. k.op = "fetch" => j.op = "fetch"
      OBVIOUS
    <3> QED BY <1>3, <3>1, <3>2, <3>3 DEF ListWillChange
  <2> QED BY <1>1, <1>3, <2>1 DEF Current
<1> QED BY <1>2, <1>3

\* After a write all answers are old.
LEMMA CurrentWritten ==
    ASSUME Typed, NEW k \in calls, NEW j \in Calls, j.op = k.op, k.op \notin {"fetch", "upload"}, Written(k, j)
    PROVE  Current'
<1>1. j \in calls' /\ j.op # "upload" /\ j.op # "fetch" /\ j.at = "back" /\ j.ok
  BY DEF Written
<1>2. ListWillChange'
  BY <1>1 DEF ListWillChange
<1>3. \A c \in calls' : IsFresh(c)'
  <2>1. \A c \in Aged(calls \ {k}) : c.op = "fetch" /\ c.at = "back" => c.old
    BY AgedCalls DEF Typed
  <2> QED BY <1>1, <2>1 DEF Written, IsFresh
<1> QED BY <1>2, <1>3 DEF Current

LEMMA CurrentAdmin ==
    ASSUME UsersInputs, Typed, OnAPage(page), Current, Toolbar \/ RequestActions \/ FormActions
    PROVE  Current'
<1>1. CASE Toolbar
  BY <1>1, ToolbarIs, CurrentSame DEF Alike, SamePast, ListWillChange
<1>2. CASE RequestActions
  <2>1. UNCHANGED table /\ page'.users = page.users /\ past'.unsure = past.unsure
    BY <1>2, RequestIs DEF RequestActions, Alike, SamePast
  <2>2. UNCHANGED calls \/ \E j \in Calls : calls' = calls \cup {j} /\ j.at = "server"
    BY <1>2, RequestIs DEF RequestActions
  <2>3. /\ \A c \in calls' : c \in calls \/ IsFresh(c)
        /\ ListWillChange => ListWillChange'
    BY <2>2 DEF IsFresh, ListWillChange
  <2> QED BY <2>1, <2>3, CurrentSame
<1>3. CASE AddUser \/ (\E r \in DOMAIN page.users : handleEdit(r)) \/ Edits
  BY <1>3, OpenFormIs, EditsIs, CurrentSame DEF FormPast, ListWillChange
<1>4. CASE handleCloseModal
  <2>1. ListWillChange => ListWillChange'
    BY <1>4, CloseIs DEF ListWillChange, Uploads
  <2> QED BY <1>4, <2>1, CloseIs, CurrentSame
<1>5. CASE handleNext \/ handlePrevious
  BY <1>5, StepIs, CurrentSame DEF ListWillChange
<1>6. CASE handleFileChange
  <2>1. UNCHANGED table /\ page'.users = page.users
    BY <1>6, FileIs
  <2>2. PICK k \in Upload : calls' = calls \cup {k} /\ k.op = "upload" /\ past'.unsure = past.unsure
    BY <1>6, FileIs DEF FormPast
  <2> QED BY <2>1, <2>2, CurrentSame DEF IsFresh, ListWillChange
<1>7. CASE handleSubmit \/ handleSaveDraft
  <2>1. UNCHANGED <<table, page>> /\ past'.unsure = past.unsure
    BY <1>7, SubmitIs DEF FormPast
  <2>2. PICK k \in SoundSave : calls' = calls \cup {k} /\ k.op \in {"create", "update"} /\ k.at = "server"
    BY <1>7, SubmitIs
  <2> QED BY <2>1, <2>2, CurrentSame DEF IsFresh, ListWillChange
<1> QED BY <1>1, <1>2, <1>3, <1>4, <1>5, <1>6, <1>7 DEF FormActions

LEMMA CurrentServes ==
    ASSUME UsersInputs, Typed, Current, OtherAdminWrites \/ \E k \in calls : Serves(k)
    PROVE  Current'
<1>1. CASE OtherAdminWrites
  <2>1. past'.unsure /\ calls' = Aged(calls)
    BY <1>1, OtherIs
  <2>2. \A c \in Aged(calls) : c.op = "fetch" /\ c.at = "back" => c.old
    BY AgedCalls DEF Typed
  <2> QED BY <2>1, <2>2 DEF Current, IsFresh
<1>2. ASSUME NEW k \in calls, Serves(k)
      PROVE  Current'
  <2>0. ASSUME NEW j \in Calls, j.op = k.op, Refused(k, j), k.op # "fetch", k.at # "back"
        PROVE  Current'
    BY <2>0, CurrentMoved DEF Refused, IsFresh
  <2>1. CASE GetUsers(k)
    <3>1. PICK j \in Calls : calls' = (calls \ {k}) \cup {j} /\ j.op = "fetch" /\ j.rows = table
      BY <2>1, ReadIs
    <3> QED BY <2>1, <3>1, ReadIs, CurrentMoved DEF IsFresh
  <2>2. CASE CreateUser(k)
    BY <2>0, <2>2, CreateIs, CurrentWritten
  <2>3. CASE CheckUpdate(k)
    <3>1. PICK j \in Calls : calls' = (calls \ {k}) \cup {j} /\ j.op = k.op
      BY <2>3, CheckUpdateIs
    <3>2. UNCHANGED <<table, page, past>> /\ k.op \in {"update", "status"} /\ k.at = "server"
      BY <2>3, CheckUpdateIs DEF CheckUpdate
    <3> QED BY <3>1, <3>2, CurrentMoved DEF IsFresh
  <2>4. CASE UpdateUser(k)
    BY <2>0, <2>4, UpdateIs, CurrentWritten
  <2>5. CASE CheckDelete(k)
    <3>1. PICK j \in Calls : calls' = (calls \ {k}) \cup {j} /\ j.op = k.op
      BY <2>5, CheckDeleteIs
    <3>2. UNCHANGED <<table, page, past>> /\ k.op = "delete" /\ k.at = "server"
      BY <2>5, CheckDeleteIs DEF CheckDelete
    <3> QED BY <3>1, <3>2, CurrentMoved DEF IsFresh
  <2>6. CASE DeleteUser(k)
    BY <2>0, <2>6, DeleteIs, CurrentWritten
  <2>7. CASE RequestFails(k)
    <3>1. PICK j \in Calls : calls' = (calls \ {k}) \cup {j} /\ j.op = k.op /\ j.at = "back" /\ ~j.ok
      BY <2>7, FailsIs
    <3>2. /\ UNCHANGED <<table, page>>
          /\ past'.unsure = (past.unsure \/ (k.op # "fetch" /\ k.at = "back"))
      BY <2>7, FailsIs
    <3>3. past.unsure \in BOOLEAN
      BY DEF Typed, Past
    <3>4. past'.unsure \/ (past'.unsure = past.unsure /\ (k.at = "back" /\ k.ok => k.op \in {"fetch", "upload"}))
      BY <3>2, <3>3
    <3> QED BY <3>1, <3>2, <3>4, CurrentMoved DEF IsFresh
  <2> QED BY <1>2, <2>1, <2>2, <2>3, <2>4, <2>5, <2>6, <2>7 DEF Serves
<1> QED BY <1>1, <1>2

LEMMA CurrentAnswers ==
    ASSUME UsersInputs, Typed, OnAPage(page), Current, NEW k \in calls, Answers(k)
    PROVE  Current'
<1>1. CASE UploadAnswers(k)
  <2>1. ListWillChange => ListWillChange'
    BY <1>1, UploadIs DEF ListWillChange, Uploads
  <2> QED BY <1>1, <2>1, UploadIs, CurrentSame
<1>2. CASE FetchAnswers(k)
  <2>1. \A c \in calls' : IsFresh(c)'
    BY <1>2, FetchAnswersIs DEF Current, IsFresh
  <2>2. CASE k.ok
    <3>1. page'.users = k.rows /\ past'.unsure = k.old /\ UNCHANGED table /\ k.op = "fetch" /\ k.at = "back"
      BY <1>2, <2>2, FetchAnswersIs
    <3>2. ~k.old => k.rows = table
      BY <2>2, <3>1 DEF Current, IsFresh
    <3> QED BY <2>1, <3>1, <3>2 DEF Current
  <2>3. CASE ~k.ok
    BY <1>2, <2>1, <2>3, FetchAnswersIs DEF Current
  <2> QED BY <2>2, <2>3
<1>3. CASE SaveAnswers(k) \/ StatusAnswers(k) \/ DeleteAnswers(k)
  <2>1. /\ UNCHANGED table /\ page'.users = page.users /\ past'.unsure = past.unsure
        /\ k.op \notin {"fetch", "upload"}
        /\ k.ok => fetchUsers \in calls' /\ calls' \subseteq calls \cup {fetchUsers}
        /\ ~k.ok => calls' = calls \ {k}
    BY <1>3, SaveAnswersIs, OtherAnswersIs DEF Alike
  <2>2. ListWillChange => ListWillChange'
    BY <2>1, FetchType DEF ListWillChange
  <2>3. IsFresh(fetchUsers)
    BY FetchType DEF IsFresh
  <2> QED BY <2>1, <2>2, <2>3, CurrentSame
<1> QED BY <1>1, <1>2, <1>3 DEF Answers

LEMMA CurrentStep ==
    ASSUME UsersInputs, Typed, OnAPage(page), Current, [Next]_vars
    PROVE  Current'
<1>1. CASE UNCHANGED vars
  BY <1>1, CurrentSame DEF vars, ListWillChange
<1> QED BY <1>1, NextIs, CurrentAdmin, CurrentServes, CurrentAnswers

LEMMA CurrentInit == Init => Current
  BY FetchType DEF Init, MountCalls, NoPast, Current, ListWillChange, IsFresh

LEMMA CurrentAtRest == Current => UsersAreCurrent
  BY DEF Current, ListWillChange, UsersAreCurrent

-----------------------------------------------------------------------------
(* A save in flight agrees with the form. *)

IsSave(k) == k.op \in {"create", "update"}

\* Unless they overlapped, every save in flight has been sent from the form that is open.
SavesMatch ==
    ~past.overlap =>
        /\ ~past.lostForm
        /\ form # Nothing =>
               \A k \in calls : IsSave(k) => k.id = form.id /\ k.sent = buildUserData(form.formData)

\* The saves in flight are those that were.
SavesFrom == \A c \in calls' : IsSave(c) => \E b \in calls : IsSave(b) /\ b.id = c.id /\ b.sent = c.sent

\* The server does not touch the form, nor what it has sent.
LEMMA ServesForm ==
    ASSUME UsersInputs, Typed, OtherAdminWrites \/ \E k \in calls : Serves(k)
    PROVE  /\ form' = form /\ Uploads' = Uploads /\ SavesFrom
           /\ past'.overlap = past.overlap /\ past'.lostForm = past.lostForm /\ past'.entered = past.entered
<1>1. CASE OtherAdminWrites
  <2>1. form' = form /\ calls' = Aged(calls)
    BY <1>1, OtherIs DEF form
  <2>2. \A c : c.op # "fetch" => (c \in Aged(calls) <=> c \in calls)
    BY AgedCalls DEF Typed
  <2> QED BY <1>1, <2>1, <2>2, OtherIs DEF Uploads, SavesFrom, IsSave
<1>2. ASSUME NEW k \in calls, Serves(k)
      PROVE  /\ form' = form /\ Uploads' = Uploads /\ SavesFrom
             /\ past'.overlap = past.overlap /\ past'.lostForm = past.lostForm /\ past'.entered = past.entered
  <2>0. ASSUME NEW j \in Calls, j.op = k.op, k.op # "upload", Served(k, j), UNCHANGED page,
               IsSave(k) => j.id = k.id /\ j.sent = k.sent
        PROVE  form' = form /\ Uploads' = Uploads /\ SavesFrom
    <3>1. form' = form /\ Uploads' = Uploads /\ \A c \in calls' : c.op # "fetch" => c = j \/ c \in calls
      BY <2>0, ServedIs
    <3>2. SavesFrom
      BY <2>0, <3>1 DEF SavesFrom, IsSave
    <3> QED BY <3>1, <3>2
  <2>1. CASE GetUsers(k)
    <3>1. PICK j \in Calls : calls' = (calls \ {k}) \cup {j} /\ j.op = "fetch"
      BY <2>1, ReadIs
    <3>2. UNCHANGED <<page, past>> /\ k.op = "fetch"
      BY <2>1, ReadIs
    <3> QED BY <2>0, <3>1, <3>2 DEF Served, IsSave
  <2>2. CASE CreateUser(k)
    <3>1. PICK j \in Calls : /\ j.op = k.op /\ j.id = k.id /\ j.sent = k.sent
                             /\ Refused(k, j) \/ Written(k, j)
      BY <2>2, CreateIs
    <3>2. k.op = "create"
      BY <2>2, CreateIs
    <3> QED BY <2>0, <3>1, <3>2 DEF Served, Refused, Written, WritePast
  <2>3. CASE CheckUpdate(k)
    <3>1. PICK j \in Calls : calls' = (calls \ {k}) \cup {j} /\ j.op = k.op /\ j.id = k.id /\ j.sent = k.sent
      BY <2>3, CheckUpdateIs
    <3>2. UNCHANGED <<page, past>> /\ k.op \in {"update", "status"}
      BY <2>3, CheckUpdateIs
    <3> QED BY <2>0, <3>1, <3>2 DEF Served
  <2>4. CASE UpdateUser(k)
    <3>1. PICK j \in Calls : /\ j.op = k.op /\ j.id = k.id /\ j.sent = k.sent
                             /\ Refused(k, j) \/ Written(k, j)
      BY <2>4, UpdateIs
    <3>2. k.op \in {"update", "status"}
      BY <2>4, UpdateIs
    <3> QED BY <2>0, <3>1, <3>2 DEF Served, Refused, Written, WritePast
  <2>5. CASE CheckDelete(k)
    <3>1. PICK j \in Calls : calls' = (calls \ {k}) \cup {j} /\ j.op = k.op
      BY <2>5, CheckDeleteIs
    <3>2. UNCHANGED <<page, past>> /\ k.op = "delete"
      BY <2>5, CheckDeleteIs
    <3> QED BY <2>0, <3>1, <3>2 DEF Served, IsSave
  <2>6. CASE DeleteUser(k)
    <3>1. PICK j \in Calls : j.op = k.op /\ (Refused(k, j) \/ Written(k, j))
      BY <2>6, DeleteIs
    <3>2. k.op = "delete"
      BY <2>6, DeleteIs
    <3> QED BY <2>0, <3>1, <3>2 DEF Served, Refused, Written, WritePast, IsSave
  <2>7. CASE RequestFails(k)
    <3>1. PICK j \in Calls : /\ calls' = (calls \ {k}) \cup {j} /\ j.op = k.op
                             /\ k.op \in {"create", "update", "status"} => j.id = k.id /\ j.sent = k.sent
      BY <2>7, FailsIs
    <3>2. /\ UNCHANGED page /\ k.op # "upload"
          /\ past'.overlap = past.overlap /\ past'.lostForm = past.lostForm /\ past'.entered = past.entered
      BY <2>7, FailsIs
    <3> QED BY <2>0, <3>1, <3>2 DEF Served, IsSave
  <2> QED BY <1>2, <2>1, <2>2, <2>3, <2>4, <2>5, <2>6, <2>7 DEF Serves
<1> QED BY <1>1, <1>2

\* A step that leaves the data of the form, or closes it.
LEMMA SavesSame ==
    ASSUME SavesMatch, past'.overlap = past.overlap, past'.lostForm = past.lostForm, SavesFrom,
           form' # Nothing => form # Nothing /\ form'.id = form.id /\ form'.formData = form.formData
    PROVE  SavesMatch'
<1> SUFFICES ASSUME ~past.overlap PROVE SavesMatch'
  BY DEF SavesMatch
<1>1. ~past'.lostForm
  BY DEF SavesMatch
<1>2. ASSUME form' # Nothing, NEW c \in calls', IsSave(c)
      PROVE  c.id = form'.id /\ c.sent = buildUserData(form'.formData)
  <2>1. PICK b \in calls : IsSave(b) /\ b.id = c.id /\ b.sent = c.sent
    BY <1>2 DEF SavesFrom
  <2> QED BY <1>2, <2>1 DEF SavesMatch
<1> QED BY <1>1, <1>2 DEF SavesMatch

\* A step that changes the form, or sends it: what is in flight then overlaps.
LEMMA SavesUsed ==
    ASSUME past'.overlap = Saving, ~past'.lostForm,
           \A c \in calls' : IsSave(c) =>
               c \in calls \/ (form' # Nothing => c.id = form'.id /\ c.sent = buildUserData(form'.formData))
    PROVE  SavesMatch'
<1>1. ~past'.overlap => \A c \in calls : ~IsSave(c)
  BY DEF Saving, IsSave
<1> QED BY <1>1 DEF SavesMatch

LEMMA SavesAdmin ==
    ASSUME UsersInputs, Typed, OnAPage(page), SavesMatch, Toolbar \/ RequestActions \/ FormActions
    PROVE  SavesMatch'
<1>0. UNCHANGED calls => SavesFrom
  BY DEF SavesFrom
<1>1. CASE Toolbar
  BY <1>0, <1>1, ToolbarIs, SavesSame DEF Alike, SamePast, form
<1>2. CASE RequestActions
  <2>1. /\ form' = form /\ past'.overlap = past.overlap /\ past'.lostForm = past.lostForm
        /\ UNCHANGED calls \/ \E j \in Calls : calls' = calls \cup {j} /\ j.op \in {"fetch", "status", "delete"}
    BY <1>2, RequestIs DEF RequestActions, Alike, SamePast, form
  <2>2. SavesFrom
    BY <2>1 DEF SavesFrom, IsSave
  <2> QED BY <2>1, <2>2, SavesSame
<1>3. CASE AddUser \/ (\E r \in DOMAIN page.users : handleEdit(r)) \/ Edits
  BY <1>3, OpenFormIs, EditsIs, SavesUsed DEF FormPast
<1>4. CASE handleCloseModal
  <2>1. SavesFrom
    BY <1>4, CloseIs DEF SavesFrom
  <2> QED BY <1>4, <2>1, CloseIs, SavesSame
<1>5. CASE handleNext \/ handlePrevious
  <2>1. UNCHANGED <<calls, past>> /\ form \in StepForm /\ EditOf(form, form') /\ form'.formData = form.formData
    BY <1>5, StepIs
  <2>2. form # Nothing /\ form'.id = form.id
    BY <2>1, NoFormAmongNothing DEF StepForm, EditOf
  <2> QED BY <1>0, <2>1, <2>2, SavesSame
<1>6. CASE handleFileChange
  <2>1. PICK k \in Upload : /\ calls' = calls \cup {k} /\ k.op = "upload"
                            /\ past'.overlap = Saving /\ ~past'.lostForm
    BY <1>6, FileIs DEF FormPast
  <2> QED BY <2>1, SavesUsed DEF IsSave
<1>7. CASE handleSubmit \/ handleSaveDraft
  <2>1. UNCHANGED page /\ past'.overlap = Saving /\ ~past'.lostForm
    BY <1>7, SubmitIs DEF FormPast
  <2>2. PICK k \in SoundSave : calls' = calls \cup {k} /\ k.id = form.id /\ k.sent = buildUserData(form.formData)
    BY <1>7, SubmitIs
  <2> QED BY <2>1, <2>2, SavesUsed DEF form
<1> QED BY <1>1, <1>2, <1>3, <1>4, <1>5, <1>6, <1>7 DEF FormActions

LEMMA SavesAnswers ==
    ASSUME UsersInputs, Typed, OnAPage(page), SavesMatch, NEW k \in calls, Answers(k)
    PROVE  SavesMatch'
<1>1. CASE UploadAnswers(k)
  <2>1. /\ calls' = calls \ {k} /\ form \in StepForm /\ form'.id = form.id
        /\ \/ past'.overlap = Saving /\ ~past'.lostForm
           \/ /\ form'.formData = form.formData
              /\ past'.overlap = past.overlap /\ past'.lostForm = past.lostForm
    BY <1>1, UploadIs
  <2>2. SavesFrom /\ form # Nothing
    BY <2>1, NoFormAmongNothing DEF SavesFrom, StepForm
  <2> QED BY <2>1, <2>2, SavesSame, SavesUsed
<1>2. CASE FetchAnswers(k)
  <2>1. SavesFrom
    BY <1>2, FetchAnswersIs DEF SavesFrom
  <2> QED BY <1>2, <2>1, FetchAnswersIs, SavesSame
<1>3. CASE SaveAnswers(k)
  <2>1. CASE ~k.ok
    <3>1. calls' = calls \ {k} /\ form' = form /\ SamePast
      BY <1>3, <2>1, SaveAnswersIs
    <3> QED BY <3>1, SavesSame DEF SavesFrom, SamePast
  <2>2. CASE k.ok
    <3>1. /\ form' = Nothing /\ past'.overlap = past.overlap /\ IsSave(k)
          /\ past'.lostForm = (past.lostForm \/ (form # Nothing /\
                 ~(k.id = form.id /\ k.sent = buildUserData(form.formData))))
      BY <1>3, <2>2, SaveAnswersIs DEF IsSave
    <3>2. ~past.overlap => ~past'.lostForm
      BY <3>1 DEF SavesMatch
    <3> QED BY <3>1, <3>2 DEF SavesMatch
  <2> QED BY <2>1, <2>2
<1>4. CASE StatusAnswers(k) \/ DeleteAnswers(k)
  <2>1. UNCHANGED past /\ form' = form /\ calls' \subseteq calls \cup {fetchUsers}
    BY <1>4, OtherAnswersIs DEF Alike, form
  <2>2. SavesFrom
    BY <2>1, FetchType DEF SavesFrom, IsSave
  <2> QED BY <2>1, <2>2, SavesSame
<1> QED BY <1>1, <1>2, <1>3, <1>4 DEF Answers

LEMMA SavesStep ==
    ASSUME UsersInputs, Typed, OnAPage(page), SavesMatch, [Next]_vars
    PROVE  SavesMatch'
<1>1. CASE UNCHANGED vars
  BY <1>1 DEF vars, SavesMatch, form
<1>2. CASE OtherAdminWrites \/ \E k \in calls : Serves(k)
  BY <1>2, ServesForm, SavesSame
<1> QED BY <1>1, <1>2, NextIs, SavesAdmin, SavesAnswers

LEMMA SavesInit == Init => SavesMatch
  BY DEF Init, NoPast, Mounted, SavesMatch, form

-----------------------------------------------------------------------------
(* What the form holds while files are uploading. *)

\* As long as what was entered is known, at most one file is uploading, and nothing was
\* entered since that upload began.
FormKept ==
    form # Nothing /\ past.entered # Nothing =>
        /\ \A j, k \in Uploads : j = k
        /\ \A k \in Uploads : k.data = form.formData /\ dataAfter(k) = past.entered /\ k.uploading = {}
        /\ Uploads = {} => form.formData = past.entered
        /\ form.uploadingFiles = {k.field : k \in Uploads}
        /\ FlagsAgree(form)

LEMMA KeptSame ==
    ASSUME FormKept, Uploads' = Uploads, past'.entered = past.entered,
           form' = form \/ (form # Nothing /\ EditOf(form, form') /\ form'.formData = form.formData)
    PROVE  FormKept'
  BY DEF FormKept, EditOf, FlagsAgree, dataAfter

LEMMA NothingKept == form' = Nothing \/ past'.entered = Nothing => FormKept'
  BY DEF FormKept

LEMMA KeptAdmin ==
    ASSUME UsersInputs, Typed, OnAPage(page), FormKept, Toolbar \/ RequestActions \/ FormActions
    PROVE  FormKept'
<1>1. CASE Toolbar
  BY <1>1, ToolbarIs, KeptSame DEF Alike, SamePast, form, Uploads
<1>2. CASE RequestActions
  <2>1. /\ form' = form /\ past'.entered = past.entered
        /\ UNCHANGED calls \/ \E j \in Calls : calls' = calls \cup {j} /\ j.op \in {"fetch", "status", "delete"}
    BY <1>2, RequestIs DEF RequestActions, Alike, SamePast, form
  <2>2. Uploads' = Uploads
    BY <2>1 DEF Uploads
  <2> QED BY <2>1, <2>2, KeptSame
<1>3. CASE AddUser \/ \E r \in DOMAIN page.users : handleEdit(r)
  <2>1. /\ Uploads' = {} /\ past'.entered = form'.formData /\ form'.uploadingFiles = {} /\ FlagsAgree(form')
    BY <1>3, OpenFormIs DEF FormPast, Uploads
  <2>2. {k.field : k \in Uploads'} = {}
    BY <2>1
  <2> QED BY <2>1, <2>2 DEF FormKept, FlagsAgree
<1>4. CASE Edits
  <2>1. /\ UNCHANGED calls /\ form \in StepForm /\ EditOf(form, form')
        /\ past'.entered = IF past.entered = Nothing \/ Uploads # {} THEN Nothing ELSE form'.formData
    BY <1>4, EditsIs DEF FormPast
  <2>2. Uploads' = Uploads /\ form # Nothing
    BY <2>1, NoFormAmongNothing DEF Uploads, StepForm
  <2>3. CASE past.entered = Nothing \/ Uploads # {}
    BY <2>1, <2>3, NothingKept
  <2>4. CASE past.entered # Nothing /\ Uploads = {}
    <3>1. form.uploadingFiles = {k.field : k \in Uploads} /\ FlagsAgree(form)
      BY <2>2, <2>4 DEF FormKept
    <3>2. form'.uploadingFiles = {k.field : k \in Uploads} /\ FlagsAgree(form')
      BY <2>1, <3>1 DEF EditOf
    <3> QED BY <2>1, <2>2, <2>4, <3>2 DEF FormKept, FlagsAgree
  <2> QED BY <2>3, <2>4
<1>5. CASE handleCloseModal
  BY <1>5, CloseIs, NothingKept
<1>6. CASE handleNext \/ handlePrevious
  <2>1. UNCHANGED <<calls, past>> /\ form \in StepForm /\ EditOf(form, form') /\ form'.formData = form.formData
    BY <1>6, StepIs
  <2>2. form # Nothing /\ Uploads' = Uploads
    BY <2>1, NoFormAmongNothing DEF StepForm, Uploads
  <2> QED BY <2>1, <2>2, KeptSame
<1>7. CASE handleFileChange
  <2>1. /\ form \in StepForm /\ form'.formData = form.formData /\ (FlagsAgree(form) => FlagsAgree(form'))
    BY <1>7, FileIs
  <2>2. PICK k \in Upload :
            /\ calls' = calls \cup {k} /\ k.op = "upload"
            /\ k.data = form.formData /\ k.uploading = form.uploadingFiles
            /\ form'.uploadingFiles = form.uploadingFiles \cup {k.field}
            /\ past'.entered = IF past.entered = Nothing \/ Uploads # {} THEN Nothing ELSE dataAfter(k)
    BY <1>7, FileIs DEF FormPast
  <2>3. CASE past.entered = Nothing \/ Uploads # {}
    BY <2>2, <2>3, NothingKept
  <2>4. CASE past.entered # Nothing /\ Uploads = {}
    <3>1. Uploads' = {k} /\ form # Nothing
      BY <2>1, <2>2, <2>4, NoFormAmongNothing DEF Uploads, StepForm
    <3>2. form.uploadingFiles = {} /\ FlagsAgree(form)
      <4>1. {c.field : c \in Uploads} = {}
        BY <2>4
      <4> QED BY <2>4, <3>1, <4>1 DEF FormKept
    <3>3. form'.uploadingFiles = {c.field : c \in Uploads'}
      BY <2>2, <3>1, <3>2
    <3> QED BY <2>1, <2>2, <2>4, <3>1, <3>2, <3>3 DEF FormKept, FlagsAgree, dataAfter
  <2> QED BY <2>3, <2>4
<1>8. CASE handleSubmit \/ handleSaveDraft
  <2>1. UNCHANGED page /\ past'.entered = past.entered
    BY <1>8, SubmitIs DEF FormPast
  <2>2. PICK k \in SoundSave : calls' = calls \cup {k} /\ k.op \in {"create", "update"}
    BY <1>8, SubmitIs
  <2>3. Uploads' = Uploads /\ form' = form
    BY <2>1, <2>2 DEF Uploads, form
  <2> QED BY <2>1, <2>3, KeptSame
<1> QED BY <1>1, <1>2, <1>3, <1>4, <1>5, <1>6, <1>7, <1>8 DEF FormActions

LEMMA KeptAnswers ==
    ASSUME UsersInputs, Typed, OnAPage(page), FormKept, NEW k \in calls, Answers(k)
    PROVE  FormKept'

\* The upload was the only one: nothing is uploading any more.
<1>1. CASE UploadAnswers(k)
  <2>1. /\ k \in Uploads /\ Uploads' = Uploads \ {k} /\ form \in StepForm
        /\ form'.uploadingFiles = k.uploading \ {k.field}
        /\ form'.showStudentFields = form.showStudentFields /\ form'.showDriverFields = form.showDriverFields
        /\ \/ form'.formData = dataAfter(k) /\ past'.entered = past.entered
           \/ /\ form'.formData = form.formData
              /\ past'.entered = IF past.entered = Nothing THEN Nothing ELSE form.formData
    BY <1>1, UploadIs
  <2>2. CASE past.entered = Nothing
    BY <2>1, <2>2, NothingKept
  <2>3. CASE past.entered # Nothing
    <3>1. form # Nothing
      BY <2>1, NoFormAmongNothing DEF StepForm
    <3>2. /\ k.data = form.formData /\ dataAfter(k) = past.entered /\ k.uploading = {} /\ FlagsAgree(form)
          /\ \A c \in Uploads : c = k
      BY <2>1, <2>3, <3>1 DEF FormKept
    <3>3. Uploads' = {} /\ form'.uploadingFiles = {}
      BY <2>1, <3>2
    <3>4. form'.formData = past'.entered
      BY <2>1, <2>3, <3>2
    <3>5. form'.formData.role = form.formData.role
      <4>1. form.formData \in FormData
        BY <2>1 DEF StepForm, Form
      <4> QED BY <2>1, <3>2, <4>1 DEF dataAfter, FormData
    <3>6. FlagsAgree(form')
      BY <2>1, <3>2, <3>5 DEF FlagsAgree
    <3>7. {c.field : c \in Uploads'} = {}
      BY <3>3
    <3> QED BY <3>3, <3>4, <3>6, <3>7 DEF FormKept, FlagsAgree
  <2> QED BY <2>2, <2>3
<1>2. CASE FetchAnswers(k)
  BY <1>2, FetchAnswersIs, KeptSame
<1>3. CASE SaveAnswers(k)
  <2>1. CASE ~k.ok
    <3>1. calls' = calls \ {k} /\ form' = form /\ SamePast /\ k.op \in {"create", "update"}
      BY <1>3, <2>1, SaveAnswersIs
    <3>2. Uploads' = Uploads
      BY <3>1 DEF Uploads
    <3> QED BY <3>1, <3>2, KeptSame DEF SamePast
  <2>2. CASE k.ok
    BY <1>3, <2>2, SaveAnswersIs, NothingKept
  <2> QED BY <2>1, <2>2
<1>4. CASE StatusAnswers(k) \/ DeleteAnswers(k)
  BY <1>4, OtherAnswersIs, KeptSame DEF Alike, form
<1> QED BY <1>1, <1>2, <1>3, <1>4 DEF Answers

LEMMA KeptStep ==
    ASSUME UsersInputs, Typed, OnAPage(page), FormKept, [Next]_vars
    PROVE  FormKept'
<1>1. CASE UNCHANGED vars
  BY <1>1, KeptSame DEF vars, form, Uploads
<1>2. CASE OtherAdminWrites \/ \E k \in calls : Serves(k)
  BY <1>2, ServesForm, KeptSame
<1> QED BY <1>1, <1>2, NextIs, KeptAdmin, KeptAnswers

LEMMA KeptInit == Init => FormKept
  BY DEF Init, NoPast, Mounted, FormKept, form

LEMMA KeptMeans == FormKept => FormKeepsEdits
  BY DEF FormKept, FormKeepsEdits, FlagsAgree

-----------------------------------------------------------------------------
(* What the handlers know when they write. *)

Checked(k) == k.op # "upload" /\ k.at = "checked"

\* No id is given out twice: a user who was checked is never another one.
IdsKnown ==
    /\ DOMAIN table \subseteq past.used
    /\ \A k \in calls : Checked(k) => k.id \in past.used

\* An update of a draft still knows his role, unless he has become SuperAdmin.
KnowsDraft(k) ==
    Checked(k) /\ k.op = "update" /\ k.id \in DOMAIN table \cap past.drafts =>
        table[k.id].role \in {k.seen, "SuperAdmin"}

DraftsKnown == CompleteUnlessDraft /\ \A k \in calls : KnowsDraft(k)

\* Whoever has checked a SuperAdmin knows it, and does not delete him.
KnowsSuperAdmin(k) ==
    Checked(k) /\ k.id \in DOMAIN table /\ table[k.id].role = "SuperAdmin" =>
        k.op \in {"update", "status"} /\ k.seen = "SuperAdmin"

SuperAdminsKnown == ~past.raced => \A k \in calls : KnowsSuperAdmin(k)

Known == IdsKnown /\ DraftsKnown /\ SuperAdminsKnown

\* A step that writes nothing, and after which no request is checked that was not before.
LEMMA KnownSame ==
    ASSUME Known, UNCHANGED table,
           past'.used = past.used, past'.drafts = past.drafts, past'.raced = past.raced,
           \A c \in calls' : Checked(c) => c \in calls
    PROVE  Known'
<1>1. IdsKnown'
  BY DEF Known, IdsKnown
<1>2. DraftsKnown'
  BY DEF Known, DraftsKnown, CompleteUnlessDraft, KnowsDraft
<1>3. SuperAdminsKnown'
  BY DEF Known, SuperAdminsKnown, KnowsSuperAdmin
<1> QED BY <1>1, <1>2, <1>3 DEF Known

LEMMA CheckedIs == \A c \in Calls : Checked(c) => c.op # "fetch"
<1> SUFFICES ASSUME NEW c \in Calls, Checked(c), c.op = "fetch" PROVE FALSE
  OBVIOUS
<1>1. c \in Fetch
  BY CallKinds
<1> QED BY <1>1 DEF Fetch, Checked

LEMMA ServedChecked ==
    ASSUME Typed, NEW k \in calls, NEW j \in Calls, Served(k, j)
    PROVE  \A c \in calls' : Checked(c) => c = j \/ c \in calls \ {k}
<1>1. calls \ {k} \subseteq Calls /\ calls \subseteq Calls
  BY DEF Typed
<1>2. CASE calls' = (calls \ {k}) \cup {j}
  BY <1>2
<1>3. CASE calls' = Aged(calls \ {k}) \cup {j}
  <2>1. \A c \in Aged(calls \ {k}) : c \in Calls /\ (c.op # "fetch" => c \in calls \ {k})
    BY <1>1, AgedCalls
  <2> QED BY <1>3, <2>1, CheckedIs
<1> QED BY <1>2, <1>3 DEF Served

\* The browser checks nothing and writes nothing.
LEMMA BrowserLeaves ==
    ASSUME UsersInputs, Typed, OnAPage(page),
           Toolbar \/ RequestActions \/ FormActions \/ \E k \in calls : Answers(k)
    PROVE  /\ UNCHANGED table
           /\ past'.used = past.used /\ past'.drafts = past.drafts /\ past'.raced = past.raced
           /\ \A c \in calls' : Checked(c) => c \in calls
<1>1. CASE Toolbar
  BY <1>1, ToolbarIs DEF SamePast
<1>2. CASE RequestActions
  <2>1. UNCHANGED table /\ SamePast
    BY <1>2, RequestIs DEF RequestActions
  <2>2. UNCHANGED calls \/ \E j \in Calls : calls' = calls \cup {j} /\ j.at = "server"
    BY <1>2, RequestIs DEF RequestActions
  <2> QED BY <2>1, <2>2 DEF SamePast, Checked
<1>3. CASE FormActions
  <2>1. CASE AddUser \/ (\E r \in DOMAIN page.users : handleEdit(r)) \/ Edits
    BY <2>1, OpenFormIs, EditsIs DEF FormPast
  <2>2. CASE handleCloseModal \/ handleNext \/ handlePrevious
    BY <2>2, CloseIs, StepIs
  <2>3. CASE handleFileChange
    <3>1. UNCHANGED table
      BY <2>3, FileIs
    <3>2. PICK k \in Upload : /\ calls' = calls \cup {k} /\ k.op = "upload"
                              /\ past'.used = past.used /\ past'.drafts = past.drafts /\ past'.raced = past.raced
      BY <2>3, FileIs DEF FormPast
    <3> QED BY <3>1, <3>2 DEF Checked
  <2>4. CASE handleSubmit \/ handleSaveDraft
    <3>1. UNCHANGED table /\ past'.used = past.used /\ past'.drafts = past.drafts /\ past'.raced = past.raced
      BY <2>4, SubmitIs DEF FormPast
    <3>2. PICK k \in SoundSave : calls' = calls \cup {k} /\ k.at = "server"
      BY <2>4, SubmitIs
    <3> QED BY <3>1, <3>2 DEF Checked
  <2> QED BY <1>3, <2>1, <2>2, <2>3, <2>4 DEF FormActions
<1>4. ASSUME NEW k \in calls, Answers(k)
      PROVE  /\ UNCHANGED table
             /\ past'.used = past.used /\ past'.drafts = past.drafts /\ past'.raced = past.raced
             /\ \A c \in calls' : Checked(c) => c \in calls
  <2>1. CASE UploadAnswers(k)
    BY <2>1, UploadIs
  <2>2. CASE FetchAnswers(k)
    BY <2>2, FetchAnswersIs
  <2>3. CASE SaveAnswers(k) \/ StatusAnswers(k) \/ DeleteAnswers(k)
    <3>1. /\ UNCHANGED table /\ calls' \subseteq calls \cup {fetchUsers}
          /\ past'.used = past.used /\ past'.drafts = past.drafts /\ past'.raced = past.raced
      BY <2>3, SaveAnswersIs, OtherAnswersIs
    <3> QED BY <3>1, FetchType DEF Checked
  <2> QED BY <1>4, <2>1, <2>2, <2>3 DEF Answers
<1> QED BY <1>1, <1>2, <1>3, <1>4

LEMMA KnownRefused ==
    ASSUME Typed, Known, NEW k \in calls, NEW j \in Calls, Refused(k, j)
    PROVE  Known'
<1>1. \A c \in calls' : Checked(c) => c \in calls
  BY ServedChecked DEF Refused, Served, Checked
<1> QED BY <1>1, KnownSame DEF Refused

\* The user that is created is nobody who was checked.
LEMMA KnownCreated ==
    ASSUME UsersInputs, Typed, Known, NEW k \in calls, k \in SoundSave, k.op = "create",
           NEW j \in Calls, Written(k, j), NEW r \in Ids, CreatesRow(k, r)
    PROVE  Known'
<1>1. r \notin past.used
  <2>1. r \in Nat
    BY InputTypes
  <2> QED BY <2>1 DEF CreatesRow
<1>2. \A c \in calls' : Checked(c) => c \in calls /\ c.id # r
  <2>1. Served(k, j) /\ j.at = "back"
    BY DEF Written, Served
  <2>2. \A c \in calls' : Checked(c) => c \in calls
    BY <2>1, ServedChecked DEF Checked
  <2>3. \A c \in calls : Checked(c) => c.id \in past.used
    BY DEF Known, IdsKnown
  <2> QED BY <1>1, <2>2, <2>3 DEF Checked
<1>3. /\ DOMAIN table' = DOMAIN table \cup {r} /\ r \notin DOMAIN table /\ table'[r] = k.sent
      /\ \A q \in DOMAIN table : table'[q] = table[q]
  BY <1>1 DEF CreatesRow, Known, IdsKnown
<1>4. past'.used = past.used \cup {r} /\ past'.raced = past.raced /\ past.drafts \subseteq past'.drafts
      /\ past'.drafts \subseteq past.drafts \cup {r} /\ (k.draft => r \in past'.drafts)
  BY DEF CreatesRow
<1>5. IdsKnown'
  BY <1>2, <1>3, <1>4 DEF Known, IdsKnown
<1>6. CompleteUnlessDraft'
  <2>1. ~k.draft => Carried(k.sent.role) \subseteq k.sent.filled
    BY DEF SoundSave, SaveIsSound
  <2>2. ASSUME NEW q \in DOMAIN table', q \notin past'.drafts, table'[q].role # "SuperAdmin"
        PROVE  Carried(table'[q].role) \subseteq table'[q].filled
    <3>1. CASE q = r
      BY <1>3, <1>4, <2>1, <2>2, <3>1
    <3>2. CASE q # r
      BY <1>3, <1>4, <2>2, <3>2 DEF Known, DraftsKnown, CompleteUnlessDraft
    <3> QED BY <3>1, <3>2
  <2> QED BY <2>2 DEF CompleteUnlessDraft
<1>7. \A c \in calls' : KnowsDraft(c)'
  BY <1>2, <1>3, <1>4 DEF Known, DraftsKnown, KnowsDraft
<1>8. SuperAdminsKnown'
  BY <1>2, <1>3, <1>4 DEF Known, SuperAdminsKnown, KnowsSuperAdmin
<1> QED BY <1>5, <1>6, <1>7, <1>8 DEF Known, DraftsKnown

\* An update that goes on from an old role leaves the role that is stored: he who has it
\* has all that it needs, if not from before then from this update.
LEMMA KnownUpdated ==
    ASSUME Typed, Known, NEW k \in calls, k \in SoundSave, k.op \in {"update", "status"}, k.at = "checked",
           NEW j \in Calls, j.op = k.op, Written(k, j), UpdatesRow(k)
    PROVE  Known'
<1> DEFINE old == table[k.id]
           new == Updated(k.sent, k.seen, old)
<1>1. /\ k.id \in DOMAIN table /\ DOMAIN table' = DOMAIN table /\ table'[k.id] = new
      /\ \A q \in DOMAIN table : q # k.id => table'[q] = table[q]
  BY DEF UpdatesRow
<1>2. \A c \in calls' : Checked(c) => c \in calls \ {k}
  BY ServedChecked DEF Written, Served, Checked
<1>3. /\ past'.used = past.used
      /\ past'.drafts = IF k.op = "update" THEN past.drafts \ {k.id} ELSE past.drafts
  BY DEF UpdatesRow
<1>4. SaveIsSound(k) /\ Checked(k)
  BY DEF SoundSave, Checked
<1>5. /\ new.role = IF k.sent.role \in {NoRole, k.seen} THEN old.role ELSE k.sent.role
      /\ new.filled = old.filled \cup k.sent.filled
  BY DEF Updated
<1> HIDE DEF old, new
<1>6. k.op = "status" => new.role = old.role
  BY <1>4, <1>5 DEF SaveIsSound
<1>7. IdsKnown'
  BY <1>1, <1>2, <1>3 DEF Known, IdsKnown
<1>8. CompleteUnlessDraft'
  <2>1. ASSUME k.id \notin past'.drafts, new.role # "SuperAdmin"
        PROVE  Carried(new.role) \subseteq new.filled
    <3>1. CASE k.id \notin past.drafts /\ new.role = old.role
      <4>1. Carried(old.role) \subseteq old.filled
        BY <1>1, <2>1, <3>1 DEF Known, DraftsKnown, CompleteUnlessDraft, old
      <4> QED BY <1>5, <3>1, <4>1
    <3>2. CASE k.op = "update" /\ (k.id \in past.drafts \/ new.role # old.role)
      <4>1. Carried(k.sent.role) \subseteq k.sent.filled /\ k.sent.role # NoRole
        BY <1>4, <3>2 DEF SaveIsSound
      <4>2. new.role = k.sent.role
        <5>1. CASE new.role # old.role
          BY <1>5, <5>1
        <5>2. CASE new.role = old.role /\ k.id \in past.drafts
          <6>1. old.role \in {k.seen, "SuperAdmin"}
            BY <1>1, <1>4, <3>2, <5>2 DEF Known, DraftsKnown, KnowsDraft, old
          <6> QED BY <1>5, <2>1, <4>1, <5>2, <6>1
        <5> QED BY <3>2, <5>1, <5>2
      <4> QED BY <1>5, <4>1, <4>2
    <3> QED BY <1>3, <1>6, <2>1, <3>1, <3>2
  <2>2. \A q \in DOMAIN table : q # k.id /\ q \notin past'.drafts => q \notin past.drafts
    BY <1>3
  <2> QED BY <1>1, <2>1, <2>2 DEF Known, DraftsKnown, CompleteUnlessDraft
<1>9. \A c \in calls' : KnowsDraft(c)'
  <2>1. k.id \in past'.drafts => new.role = old.role /\ k.id \in past.drafts
    BY <1>3, <1>6
  <2>2. past'.drafts \subseteq past.drafts
    BY <1>3
  <2> QED BY <1>1, <1>2, <2>1, <2>2 DEF Known, DraftsKnown, KnowsDraft, old
<1>10. SuperAdminsKnown'
  <2>1. past'.raced = (past.raced \/ (new.role = "SuperAdmin" /\ old.role # "SuperAdmin"
                                          /\ checkedOn(k.id, calls \ {k})))
    BY <1>1 DEF UpdatesRow, old
  <2>2. ASSUME NEW c \in calls', Checked(c), c.id = k.id
        PROVE  checkedOn(k.id, calls \ {k})
    BY <1>2, <2>2 DEF checkedOn, Checked, Uploads
  <2>3. ~past'.raced => ~past.raced
    BY <2>1
  <2> QED BY <1>1, <1>2, <2>1, <2>2, <2>3 DEF Known, SuperAdminsKnown, KnowsSuperAdmin, old
<1> QED BY <1>7, <1>8, <1>9, <1>10 DEF Known, DraftsKnown

\* A row goes.
LEMMA KnownDeleted ==
    ASSUME Known, NEW r, table' = [q \in DOMAIN table \ {r} |-> table[q]],
           past'.used = past.used, past'.drafts = past.drafts, past'.raced = past.raced,
           \A c \in calls' : Checked(c) => c \in calls
    PROVE  Known'
<1>1. DOMAIN table' \subseteq DOMAIN table /\ \A q \in DOMAIN table' : table'[q] = table[q]
  OBVIOUS
<1>2. IdsKnown'
  BY <1>1 DEF Known, IdsKnown
<1>3. DraftsKnown'
  BY <1>1 DEF Known, DraftsKnown, CompleteUnlessDraft, KnowsDraft
<1>4. SuperAdminsKnown'
  BY <1>1 DEF Known, SuperAdminsKnown, KnowsSuperAdmin
<1> QED BY <1>2, <1>3, <1>4 DEF Known

LEMMA KnownOther ==
    ASSUME UsersInputs, Typed, Known, OtherAdminWrites
    PROVE  Known'
<1>1. past'.used = past.used /\ past'.drafts = past.drafts /\ calls' = Aged(calls)
  BY OtherIs
<1>2. \A c \in calls' : Checked(c) => c \in calls
  <2>1. \A c \in Aged(calls) : c \in Calls /\ (c.op # "fetch" => c \in calls)
    BY AgedCalls DEF Typed
  <2> QED BY <1>1, <2>1, CheckedIs
<1>3. PICK r \in DOMAIN table :
          \/ table' = [q \in DOMAIN table \ {r} |-> table[q]] /\ past'.raced = past.raced
          \/ table' = [table EXCEPT ![r].role = "SuperAdmin"] /\ past'.raced = (past.raced \/ checkedOn(r, calls))
  BY OtherIs
<1>4. CASE table' = [q \in DOMAIN table \ {r} |-> table[q]] /\ past'.raced = past.raced
  BY <1>1, <1>2, <1>4, KnownDeleted
<1>5. CASE table' = [table EXCEPT ![r].role = "SuperAdmin"] /\ past'.raced = (past.raced \/ checkedOn(r, calls))
  <2>1. /\ DOMAIN table' = DOMAIN table /\ table'[r].role = "SuperAdmin"
        /\ \A q \in DOMAIN table : q # r => table'[q] = table[q]
    <3>1. table[r] \in User
      BY RowType DEF Typed
    <3> QED BY <1>5, <3>1 DEF User
  <2>2. ASSUME NEW c \in calls', Checked(c), c.id = r
        PROVE  checkedOn(r, calls)
    BY <1>2, <2>2 DEF checkedOn, Checked, Uploads
  <2>3. IdsKnown'
    BY <1>1, <1>2, <2>1 DEF Known, IdsKnown
  <2>4. DraftsKnown'
    BY <1>1, <1>2, <2>1 DEF Known, DraftsKnown, CompleteUnlessDraft, KnowsDraft
  <2>5. SuperAdminsKnown'
    BY <1>2, <1>5, <2>1, <2>2 DEF Known, SuperAdminsKnown, KnowsSuperAdmin
  <2> QED BY <2>3, <2>4, <2>5 DEF Known
<1> QED BY <1>3, <1>4, <1>5

LEMMA KnownServes ==
    ASSUME UsersInputs, Typed, Known, NEW k \in calls, Serves(k)
    PROVE  Known'
<1>1. CASE GetUsers(k)
  <2>1. PICK j \in Calls : calls' = (calls \ {k}) \cup {j} /\ j.op = "fetch"
    BY <1>1, ReadIs
  <2>2. \A c \in calls' : Checked(c) => c \in calls
    BY <2>1, CheckedIs
  <2> QED BY <1>1, <2>2, ReadIs, KnownSame
<1>2. CASE CreateUser(k)
  BY <1>2, CreateIs, KnownRefused, KnownCreated
<1>3. CASE CheckUpdate(k)
  <2>1. UNCHANGED <<table, page, past>> /\ k.op \in {"update", "status"}
    BY <1>3, CheckUpdateIs
  <2>2. PICK j \in Calls :
            /\ calls' = (calls \ {k}) \cup {j} /\ j.op = k.op /\ j.id = k.id
            /\ j.at = "back" \/ (j.at = "checked" /\ k.id \in DOMAIN table /\ j.seen = table[k.id].role)
    BY <1>3, CheckUpdateIs
  <2>3. IdsKnown'
    BY <2>1, <2>2 DEF Known, IdsKnown, Checked
  <2>4. DraftsKnown'
    BY <2>1, <2>2 DEF Known, DraftsKnown, CompleteUnlessDraft, KnowsDraft, Checked
  <2>5. SuperAdminsKnown'
    BY <2>1, <2>2 DEF Known, SuperAdminsKnown, KnowsSuperAdmin, Checked
  <2> QED BY <2>3, <2>4, <2>5 DEF Known
<1>4. CASE UpdateUser(k)
  BY <1>4, UpdateIs, KnownRefused, KnownUpdated
<1>5. CASE CheckDelete(k)
  <2>1. UNCHANGED <<table, page, past>> /\ k.op = "delete"
    BY <1>5, CheckDeleteIs
  <2>2. PICK j \in Calls :
            /\ calls' = (calls \ {k}) \cup {j} /\ j.op = "delete"
            /\ j.at = "back" \/ (j.at = "checked" /\ j.id \in DOMAIN table /\ table[j.id].role # "SuperAdmin")
    BY <1>5, CheckDeleteIs
  <2>3. IdsKnown'
    BY <2>1, <2>2 DEF Known, IdsKnown, Checked
  <2>4. DraftsKnown'
    BY <2>1, <2>2 DEF Known, DraftsKnown, CompleteUnlessDraft, KnowsDraft
  <2>5. SuperAdminsKnown'
    BY <2>1, <2>2 DEF Known, SuperAdminsKnown, KnowsSuperAdmin, Checked
  <2> QED BY <2>3, <2>4, <2>5 DEF Known
<1>6. CASE DeleteUser(k)
  <2>1. PICK j \in Calls : j.op = k.op /\ (Refused(k, j) \/ (Written(k, j) /\ DeletesRow(k)))
    BY <1>6, DeleteIs
  <2>2. CASE Refused(k, j)
    BY <2>2, KnownRefused
  <2>3. CASE Written(k, j) /\ DeletesRow(k)
    <3>1. \A c \in calls' : Checked(c) => c \in calls
      BY <2>3, ServedChecked DEF Written, Served, Checked
    <3> QED BY <2>3, <3>1, KnownDeleted DEF DeletesRow
  <2> QED BY <2>1, <2>2, <2>3
<1>7. CASE RequestFails(k)
  <2>1. PICK j \in Calls : calls' = (calls \ {k}) \cup {j} /\ j.at = "back"
    BY <1>7, FailsIs
  <2>2. \A c \in calls' : Checked(c) => c \in calls
    BY <2>1 DEF Checked
  <2> QED BY <1>7, <2>2, FailsIs, KnownSame
<1> QED BY <1>1, <1>2, <1>3, <1>4, <1>5, <1>6, <1>7 DEF Serves

LEMMA KnownStep ==
    ASSUME UsersInputs, Typed, OnAPage(page), Known, [Next]_vars
    PROVE  Known'
<1>1. CASE UNCHANGED vars
  BY <1>1, KnownSame DEF vars
<1>2. CASE Toolbar \/ RequestActions \/ FormActions \/ \E k \in calls : Answers(k)
  BY <1>2, BrowserLeaves, KnownSame
<1> QED BY <1>1, <1>2, NextIs, KnownOther, KnownServes

LEMMA KnownInit == Init => Known
  BY FetchType DEF Init, NoPast, MountCalls, Known, IdsKnown, DraftsKnown, CompleteUnlessDraft, KnowsDraft,
                   SuperAdminsKnown, KnowsSuperAdmin, Checked

\* No step deletes a SuperAdmin or changes his role or status.
SuperAdminsKeptByStep ==
    \A r \in DOMAIN table :
        table[r].role = "SuperAdmin" /\ ~past.raced =>
            /\ r \in DOMAIN table'
            /\ table'[r].role = "SuperAdmin" /\ table'[r].status = table[r].status

LEMMA SuperAdminsServes ==
    ASSUME UsersInputs, Typed, Known, NEW k \in calls, Serves(k)
    PROVE  SuperAdminsKeptByStep
<1>0. UNCHANGED table => SuperAdminsKeptByStep
  BY DEF SuperAdminsKeptByStep
<1>1. CASE GetUsers(k) \/ CheckUpdate(k) \/ CheckDelete(k) \/ RequestFails(k)
  BY <1>0, <1>1, ReadIs, CheckUpdateIs, CheckDeleteIs, FailsIs
<1>2. CASE CreateUser(k)
  <2>1. PICK j \in Calls : Refused(k, j) \/ \E r \in Ids : CreatesRow(k, r)
    BY <1>2, CreateIs
  <2>2. ASSUME NEW r \in Ids, CreatesRow(k, r)
        PROVE  SuperAdminsKeptByStep
    <3>1. r \notin DOMAIN table
      <4>1. r \in Nat
        BY InputTypes
      <4> QED BY <2>2, <4>1 DEF CreatesRow, Known, IdsKnown
    <3> QED BY <2>2, <3>1 DEF CreatesRow, SuperAdminsKeptByStep
  <2> QED BY <1>0, <2>1, <2>2 DEF Refused
<1>3. CASE UpdateUser(k)
  <2>1. k.op \in {"update", "status"} /\ k.at = "checked"
    BY <1>3, UpdateIs
  <2>2. PICK j \in Calls : Refused(k, j) \/ UpdatesRow(k)
    BY <1>3, UpdateIs
  <2>3. CASE UpdatesRow(k)
    <3> DEFINE old == table[k.id]
               new == Updated(k.sent, k.seen, old)
    <3>1. /\ k.id \in DOMAIN table /\ DOMAIN table' = DOMAIN table /\ table'[k.id] = new
          /\ \A q \in DOMAIN table : q # k.id => table'[q] = table[q]
          /\ mayUpdate(k.sent, k.seen, old)
      BY <2>3 DEF UpdatesRow
    <3>2. ASSUME old.role = "SuperAdmin", ~past.raced
          PROVE  new.role = "SuperAdmin" /\ new.status = old.status
      <4>1. k.seen = "SuperAdmin"
        BY <2>1, <3>1, <3>2 DEF Known, SuperAdminsKnown, KnowsSuperAdmin, Checked
      <4>2. k.sent.role \in {NoRole, k.seen} /\ k.sent.status = old.status
        BY <3>1, <4>1 DEF mayUpdate
      <4> QED BY <3>2, <4>2 DEF Updated
    <3> HIDE DEF new
    <3> QED BY <3>1, <3>2 DEF SuperAdminsKeptByStep
  <2> QED BY <1>0, <2>2, <2>3 DEF Refused
<1>4. CASE DeleteUser(k)
  <2>1. k.op = "delete" /\ k.at = "checked"
    BY <1>4, DeleteIs
  <2>2. PICK j \in Calls : Refused(k, j) \/ DeletesRow(k)
    BY <1>4, DeleteIs
  <2>3. CASE DeletesRow(k)
    <3>1. ~past.raced => table[k.id].role # "SuperAdmin"
      BY <2>1, <2>3 DEF DeletesRow, Known, SuperAdminsKnown, KnowsSuperAdmin, Checked
    <3> QED BY <2>3, <3>1 DEF DeletesRow, SuperAdminsKeptByStep
  <2> QED BY <1>0, <2>2, <2>3 DEF Refused
<1> QED BY <1>1, <1>2, <1>3, <1>4 DEF Serves

LEMMA SuperAdminsStep ==
    ASSUME UsersInputs, Typed, OnAPage(page), Known, [Next]_vars
    PROVE  SuperAdminsKeptByStep
<1>1. CASE UNCHANGED table
  BY <1>1 DEF SuperAdminsKeptByStep
<1>2. CASE OtherAdminWrites
  <2>1. PICK r \in DOMAIN table :
            /\ table[r].role # "SuperAdmin"
            /\ \/ table' = [q \in DOMAIN table \ {r} |-> table[q]]
               \/ table' = [table EXCEPT ![r].role = "SuperAdmin"]
    BY <1>2, OtherIs
  <2> QED BY <2>1 DEF SuperAdminsKeptByStep
<1>3. CASE Toolbar \/ RequestActions \/ FormActions \/ \E k \in calls : Answers(k)
  BY <1>1, <1>3, BrowserLeaves
<1>4. UNCHANGED vars => UNCHANGED table
  BY DEF vars
<1> QED BY <1>1, <1>2, <1>3, <1>4, NextIs, SuperAdminsServes

-----------------------------------------------------------------------------
(* All of it, for the modules that use the page. *)

UsersInv == Typed /\ OnAPage(page) /\ Current /\ SavesMatch /\ FormKept /\ Known

LEMMA UsersInvInit == UsersInputs /\ Init => UsersInv
  BY TypedInit, CurrentInit, SavesInit, KeptInit, KnownInit DEF UsersInv

LEMMA UsersInvStep == UsersInputs /\ UsersInv /\ [Next]_vars => UsersInv'
<1> SUFFICES ASSUME UsersInputs, UsersInv, [Next]_vars PROVE UsersInv'
  OBVIOUS
<1>1. Typed' /\ OnAPage(page')
  BY TypedStep DEF UsersInv
<1>2. Current' /\ SavesMatch'
  BY CurrentStep, SavesStep DEF UsersInv
<1>3. FormKept' /\ Known'
  BY KeptStep, KnownStep DEF UsersInv
<1> QED BY <1>1, <1>2, <1>3 DEF UsersInv

LEMMA UsersInvSteps == UsersInputs /\ UsersInv /\ [Next]_vars => SuperAdminsKeptByStep
  BY SuperAdminsStep DEF UsersInv

LEMMA UsersInvMeans ==
    UsersInputs /\ UsersInv =>
        /\ TypeOK /\ PageShowsUsers /\ UsersAreCurrent
        /\ FormLostOnlyToOverlap /\ FormKeepsEdits /\ CompleteUnlessDraft
<1> SUFFICES ASSUME UsersInputs, UsersInv
             PROVE  /\ TypeOK /\ PageShowsUsers /\ UsersAreCurrent
                    /\ FormLostOnlyToOverlap /\ FormKeepsEdits /\ CompleteUnlessDraft
  OBVIOUS
<1>1. TypeOK /\ PageShowsUsers /\ UsersAreCurrent
  BY TypedMeans, OnAPageShowsRows, CurrentAtRest DEF UsersInv
<1>2. FormLostOnlyToOverlap
  BY DEF UsersInv, SavesMatch, FormLostOnlyToOverlap
<1>3. FormKeepsEdits /\ CompleteUnlessDraft
  BY KeptMeans DEF UsersInv, Known, DraftsKnown
<1> QED BY <1>1, <1>2, <1>3
=============================================================================
