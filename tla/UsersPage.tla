------------------------------ MODULE UsersPage ------------------------------
(***************************************************************************)
(* The admin client's page of users, its form in steps, and the server's   *)
(* handlers of users.                                                      *)
(*                                                                         *)
(* The form keeps all its data in one record, and every handler writes the *)
(* record of the render it belongs to: what an upload sets when it is      *)
(* answered is the data as it was when the upload began. The list is       *)
(* fetched as a whole and filtered in the browser.                         *)
(***************************************************************************)
EXTENDS Integers, FiniteSets, ListPaging

CONSTANTS
    Ids,       \* ids of users: a SERIAL column
    Emails,    \* e-mail addresses, and with them user names
    Tables,    \* the tables of users the admin may find
    Searches,  \* the users whose names the admin searches for
    MyRole,    \* the role of the admin
    Statuses,  \* of the account statuses; "active" is what a new form has
    PageSizes,
    MaxActs,   \* bound on what the admin does on the page
    MaxCalls   \* bound on the requests in flight

NoOne == 0     \* the id of a form that creates, and the empty search
NoEmail == 0
NoRole == ""
All == "all"
Nothing == [kind |-> "nothing"]

Roles == {"Student", "Driver", "Admin", "SuperAdmin"}
Texts == {"name", "phone", "institution", "residence", "disability", "idProofType"}
Files == {"profilePicture", "disabilityCertificate", "idProofDocument"}

VARIABLES
    table,     \* users: a row for each id in its domain
    page,      \* the state of the component
    calls,     \* the requests in flight, with what their handlers keep
    past       \* history: see Past

vars == <<table, page, calls, past>>

\* filled: the columns, or the groups of columns, that have a valid value.
User == [role : Roles, status : Statuses, email : Emails \cup {NoEmail}, filled : SUBSET (Texts \cup Files)]
IsTable(t) == \E D \in SUBSET Ids : t \in [D -> User]

\* Assumed by the modules that use this one.
UsersInputs ==
    /\ Ids \subseteq Nat \ {NoOne} /\ IsFiniteSet(Ids) /\ Searches \subseteq Ids
    /\ Emails \subseteq Nat \ {NoEmail}
    /\ "active" \in Statuses /\ MyRole \in {"Admin", "SuperAdmin"}
    /\ PageSizes \subseteq Nat \ {0} /\ 10 \in PageSizes /\ MaxActs \in Nat /\ MaxCalls \in Nat
    /\ \A t \in Tables : IsTable(t)

FormData ==
    [role : Roles \cup {NoRole}, status : Statuses, email : Emails \cup {NoEmail},
     filled : SUBSET (Texts \cup Files), agreeToTerms : BOOLEAN]
Form ==
    [kind : {"form"}, id : Ids \cup {NoOne}, lockSuperAdminFields : BOOLEAN, formData : FormData,
     showStudentFields : BOOLEAN, showDriverFields : BOOLEAN, currentStep : 0 .. 4, uploadingFiles : SUBSET Files]

\* The state but the users.
Page ==
    [initialFetchDone : BOOLEAN, error : BOOLEAN,
     searchTerm : Ids \cup {NoOne}, debouncedSearch : Ids \cup {NoOne},
     filterRole : Roles \cup {All}, filterStatus : Statuses \cup {All},
     modal : {Nothing} \cup Form, viewingUser : Ids \cup {NoOne}, statusChangeUser : Ids \cup {NoOne},
     pageSize : PageSizes, currentPage : Nat \ {0}]

\* What a request carries; NoRole and NoEmail: the field is absent.
Sent == [role : Roles \cup {NoRole}, status : Statuses, email : Emails \cup {NoEmail}, filled : SUBSET (Texts \cup Files)]

\* old: the table changed after the answer was read.
IsFetch(k) ==
    /\ DOMAIN k = {"op", "at", "ok", "rows", "old"}
    /\ k.op = "fetch" /\ k.at \in {"server", "back"} /\ k.ok \in BOOLEAN /\ IsTable(k.rows) /\ k.old \in BOOLEAN
\* status: an update from the pop-up. seen: the role that the handler has read.
Save ==
    [op : {"create", "update", "status"}, at : {"server", "checked", "back"}, ok : BOOLEAN, id : Ids \cup {NoOne},
     sent : Sent, draft : BOOLEAN, seen : Roles \cup {NoRole}]
Deletion == [op : {"delete"}, at : {"server", "checked", "back"}, ok : BOOLEAN, id : Ids]
\* data, uploading: of the render that started the upload.
Upload == [op : {"upload"}, field : Files, data : FormData, uploading : SUBSET Files]

\* acts: what the admin has done so far. used: ids given out. drafts: users found, or
\* saved as drafts, and not edited since. unsure: the list may differ from the table
\* (an answer was old or lost, or another admin changed the table). overlap: when a
\* form was last opened, changed (also by an upload) or submitted, a save was in flight.
\* lostForm: since then, a form was closed that no save had stored. entered: the data of the open
\* form as the admin entered it, or Nothing when something was entered while a file was
\* uploading. raced: a user became SuperAdmin between the check and the write of a
\* request.
Past ==
    [acts : 0 .. MaxActs, used : SUBSET Ids, drafts : SUBSET Ids, unsure : BOOLEAN, overlap : BOOLEAN,
     lostForm : BOOLEAN, entered : {Nothing} \cup FormData, raced : BOOLEAN]

TypeOK ==
    /\ IsTable(table) /\ IsTable(page.users)
    /\ [f \in DOMAIN page \ {"users"} |-> page[f]] \in Page
    /\ \A k \in calls : IsFetch(k) \/ k \in Save \/ k \in Deletion \/ k \in Upload
    /\ past \in Past

fetchUsers == [op |-> "fetch", at |-> "server", ok |-> FALSE, rows |-> <<>>, old |-> FALSE]

\* The page as it is mounted.
Mounted ==
    [users |-> <<>>, initialFetchDone |-> FALSE, error |-> FALSE, searchTerm |-> NoOne, debouncedSearch |-> NoOne,
     filterRole |-> All, filterStatus |-> All, modal |-> Nothing, viewingUser |-> NoOne, statusChangeUser |-> NoOne,
     pageSize |-> 10, currentPage |-> 1]
MountCalls == {fetchUsers}
NoPast(t) ==
    [acts |-> 0, used |-> DOMAIN t, drafts |-> DOMAIN t, unsure |-> FALSE, overlap |-> FALSE, lostForm |-> FALSE,
     entered |-> Nothing, raced |-> FALSE]

Init ==
    /\ table \in Tables
    /\ page = Mounted
    /\ calls = MountCalls
    /\ past = NoPast(table)

-----------------------------------------------------------------------------
(* Rendering. *)

filtered(p) ==
    {r \in DOMAIN p.users :
        /\ p.debouncedSearch \in {NoOne, r}
        /\ p.filterRole \in {All, p.users[r].role}
        /\ p.filterStatus \in {All, p.users[r].status}}

\* The effects of a render: the page resets on reset, and is clamped.
Rendered(p, reset) ==
    [p EXCEPT !.currentPage = Clamp(IF reset THEN 1 ELSE @, TotalPages(Cardinality(filtered(p)), p.pageSize))]

\* The newest user is listed first.
paginatedUsers ==
    {r \in filtered(page) :
        Cardinality({q \in filtered(page) : q >= r})
            \in ShownRows(Cardinality(filtered(page)), page.currentPage, page.pageSize)}

listEmpty == page.initialFetchDone /\ ~page.error /\ DOMAIN page.users = {}
listIdle == page.initialFetchDone /\ DOMAIN page.users # {}

\* What the dialogs do not cover can be clicked.
Uncovered == page.modal = Nothing /\ page.viewingUser = NoOne /\ page.statusChangeUser = NoOne

Act == past.acts < MaxActs /\ past' = [past EXCEPT !.acts = @ + 1]
Room == Cardinality(calls) < MaxCalls

-----------------------------------------------------------------------------
(* The toolbar and the pagination. *)

Search ==
    /\ listIdle /\ Uncovered /\ Act
    /\ \E term \in Searches \cup {NoOne} :
           term # page.searchTerm /\ page' = [page EXCEPT !.searchTerm = term]
    /\ UNCHANGED <<table, calls>>

\* The timer of the last change of the term fires.
Debounce ==
    /\ page.searchTerm # page.debouncedSearch
    /\ page' = Rendered([page EXCEPT !.debouncedSearch = page.searchTerm], TRUE)
    /\ UNCHANGED <<table, calls, past>>

Filter ==
    /\ listIdle /\ Uncovered /\ Act
    /\ \/ \E f \in {All, "Student", "Driver"} :
              f # page.filterRole /\ page' = Rendered([page EXCEPT !.filterRole = f], TRUE)
       \/ \E f \in Statuses \cup {All} :
              f # page.filterStatus /\ page' = Rendered([page EXCEPT !.filterStatus = f], TRUE)
    /\ UNCHANGED <<table, calls>>

ClearFilters ==
    /\ listIdle /\ filtered(page) = {} /\ Uncovered /\ Act
    /\ page' = Rendered([page EXCEPT !.searchTerm = NoOne, !.debouncedSearch = NoOne,
                                     !.filterRole = All, !.filterStatus = All], TRUE)
    /\ UNCHANGED <<table, calls>>

ChangePage ==
    /\ listIdle /\ filtered(page) # {} /\ Uncovered /\ Act
    /\ \/ \E cp \in 1 .. TotalPages(Cardinality(filtered(page)), page.pageSize) :
              cp # page.currentPage /\ page' = [page EXCEPT !.currentPage = cp]
       \/ \E n \in PageSizes :
              n # page.pageSize /\ page' = Rendered([page EXCEPT !.pageSize = n], TRUE)
    /\ UNCHANGED <<table, calls>>

\* "Try again" on the error screen, "Refresh" on the banner.
Retry ==
    /\ page.error /\ page.initialFetchDone /\ Uncovered /\ Act /\ Room
    /\ page' = [page EXCEPT !.error = FALSE]
    /\ calls' = calls \cup {fetchUsers}
    /\ UNCHANGED table

DismissError ==
    /\ page.error /\ DOMAIN page.users # {} /\ Uncovered /\ Act
    /\ page' = [page EXCEPT !.error = FALSE]
    /\ UNCHANGED <<table, calls>>

View(r) ==
    /\ r \in paginatedUsers /\ Uncovered /\ Act
    /\ page' = [page EXCEPT !.viewingUser = r]
    /\ UNCHANGED <<table, calls>>

CloseView ==
    /\ page.viewingUser # NoOne
    /\ page' = [page EXCEPT !.viewingUser = NoOne]
    /\ UNCHANGED <<table, calls, past>>

-----------------------------------------------------------------------------
(* The rows: deletion and the pop-up of statuses. *)

canModifyTargetUser(r) == page.users[r].role # "SuperAdmin"

\* Asks for confirmation, which stops the page; nothing disables the button later.
handleDelete(r) ==
    /\ r \in paginatedUsers /\ Uncovered /\ Act /\ Room
    /\ canModifyTargetUser(r)
    /\ calls' = calls \cup {[op |-> "delete", at |-> "server", ok |-> FALSE, id |-> r]}
    /\ UNCHANGED <<table, page>>

handleStatusClick(r) ==
    /\ r \in paginatedUsers /\ Uncovered /\ Act
    /\ canModifyTargetUser(r)
    /\ page' = [page EXCEPT !.statusChangeUser = r]
    /\ UNCHANGED <<table, calls>>

CloseStatus ==
    /\ page.statusChangeUser # NoOne
    /\ page' = [page EXCEPT !.statusChangeUser = NoOne]
    /\ UNCHANGED <<table, calls, past>>

handleStatusChange(r, newStatus) ==
    IF canModifyTargetUser(r)
    THEN /\ calls' = calls \cup
                {[op |-> "status", at |-> "server", ok |-> FALSE, id |-> r,
                  sent |-> [role |-> NoRole, status |-> newStatus, email |-> NoEmail, filled |-> {}],
                  draft |-> FALSE, seen |-> NoRole]}
         /\ UNCHANGED page
    ELSE page' = [page EXCEPT !.statusChangeUser = NoOne] /\ UNCHANGED calls

\* The pop-up stays open, and can be used again, until the answer.
ChooseStatus ==
    /\ page.statusChangeUser \in DOMAIN page.users /\ Act /\ Room
    /\ \E newStatus \in Statuses : handleStatusChange(page.statusChangeUser, newStatus)
    /\ UNCHANGED table

-----------------------------------------------------------------------------
(* The form. *)

form == page.modal
Saving == \E k \in calls : k.op \in {"create", "update"}
Uploads == {k \in calls : k.op = "upload"}

\* What the admin does to the form, and the data he has then entered.
\* n: 1 when it counts against the bound.
ActOnForm(n, entered) ==
    /\ past.acts + n <= MaxActs
    /\ past' = [past EXCEPT !.acts = @ + n, !.overlap = Saving, !.lostForm = FALSE, !.entered = entered]

OpenForm(r, data) ==
    /\ page.initialFetchDone /\ Uncovered
    /\ ActOnForm(IF r = NoOne THEN 0 ELSE 1, data)
    /\ page' = [page EXCEPT !.modal =
           [kind |-> "form", id |-> r, lockSuperAdminFields |-> r # NoOne /\ data.role = "SuperAdmin", formData |-> data,
            showStudentFields |-> r = NoOne \/ data.role = "Student", showDriverFields |-> data.role = "Driver",
            currentStep |-> IF r = NoOne THEN 0 ELSE 1, uploadingFiles |-> {}]]
    /\ UNCHANGED <<table, calls>>

AddUser ==
    /\ listIdle \/ listEmpty
    /\ OpenForm(NoOne, [role |-> NoRole, status |-> "active", email |-> NoEmail, filled |-> {}, agreeToTerms |-> FALSE])

handleEdit(r) ==
    /\ r \in paginatedUsers
    /\ LET u == page.users[r]
       IN  OpenForm(r, [role |-> u.role, status |-> u.status, email |-> u.email, filled |-> u.filled,
                        agreeToTerms |-> FALSE])

\* The form is gone, and what its uploads answer sets nothing.
WithoutForm(p) == [p EXCEPT !.modal = Nothing]

handleCloseModal ==
    /\ form # Nothing
    /\ page' = WithoutForm(page)
    /\ calls' = calls \ Uploads
    /\ past' = [past EXCEPT !.entered = Nothing]
    /\ UNCHANGED table

\* An edit while a file is uploading leaves open what the form will hold.
Edit(n, f) ==
    /\ f # form
    /\ ActOnForm(n, IF past.entered = Nothing \/ Uploads # {} THEN Nothing ELSE f.formData)
    /\ page' = [page EXCEPT !.modal = f]
    /\ UNCHANGED <<table, calls>>

withRole(f, role) ==
    [f EXCEPT !.formData.role = role, !.showStudentFields = role = "Student", !.showDriverFields = role = "Driver"]

handleRoleChange ==
    /\ form # Nothing /\ form.currentStep = 0 /\ ~form.lockSuperAdminFields
    /\ \E role \in IF MyRole = "SuperAdmin" THEN Roles ELSE Roles \ {"SuperAdmin"} : Edit(0, withRole(form, role))

\* All the texts of a step are given at once, and are erased one by one.
Give(texts) == Edit(1, [form EXCEPT !.formData.filled = @ \cup texts])
Erase(text) == Edit(1, [form EXCEPT !.formData.filled = @ \ {text}])

\* The user name follows the e-mail.
withEmail(f, email) == [f EXCEPT !.formData.email = email]

EditProfile ==
    /\ form # Nothing /\ form.currentStep = 1
    /\ \/ Erase("name")
       \/ form.formData.role = "Driver" /\ Give({"name", "phone"})
       \/ /\ form.formData.role # "Driver"
          /\ \E email \in Emails :
                 Edit(1, withEmail([form EXCEPT !.formData.filled = @ \cup {"name", "phone"}], email))

EditPhone ==
    /\ form # Nothing /\ form.currentStep = 1
    /\ Give({"phone"}) \/ Erase("phone")

SelectStatus ==
    /\ form # Nothing /\ form.currentStep = 1 /\ ~form.lockSuperAdminFields
    /\ \E status \in Statuses : Edit(1, [form EXCEPT !.formData.status = status])

EditInstitution ==
    /\ form # Nothing /\ form.currentStep = 2 /\ form.showStudentFields
    /\ Give({"institution", "residence"}) \/ Erase("institution")

\* The expiry date and the hostel, or the address of a day scholar.
EditResidence ==
    /\ form # Nothing /\ form.currentStep = 2 /\ form.showStudentFields
    /\ Give({"residence"}) \/ Erase("residence")

EditDriverProof ==
    /\ form # Nothing /\ form.currentStep = 2 /\ form.showDriverFields
    /\ Give({"idProofType"}) \/ Erase("idProofType")

EditDisability ==
    /\ form # Nothing /\ form.currentStep = 3 /\ form.showStudentFields
    /\ Give({"disability", "idProofType"}) \/ Erase("disability")

EditIdProof ==
    /\ form # Nothing /\ form.currentStep = 3 /\ form.showStudentFields
    /\ Give({"idProofType"}) \/ Erase("idProofType")

finalStep ==
    \/ form.currentStep = 4 /\ form.showStudentFields
    \/ form.currentStep = 3 /\ form.showDriverFields
    \/ form.currentStep = 2 /\ ~form.showStudentFields /\ ~form.showDriverFields

AgreeToTerms ==
    /\ form # Nothing /\ finalStep
    /\ Edit(0, [form EXCEPT !.formData.agreeToTerms = ~@])

ProfileFields == {"name", "profilePicture", "phone"}

\* What the step asks for before it lets the admin go on.
stepIsComplete ==
    LET d == form.formData
    IN  CASE form.currentStep = 0 -> d.role # NoRole
          [] form.currentStep = 1 -> (d.role # "Driver" => d.email # NoEmail) /\ ProfileFields \subseteq d.filled
          [] form.currentStep = 2 /\ form.showStudentFields -> {"institution", "residence"} \subseteq d.filled
          [] form.currentStep = 2 /\ form.showDriverFields -> {"idProofType", "idProofDocument"} \subseteq d.filled
          [] form.currentStep = 3 /\ form.showStudentFields -> {"disability", "disabilityCertificate"} \subseteq d.filled
          [] OTHER -> TRUE

handleNext ==
    /\ form # Nothing /\ ~finalStep /\ stepIsComplete
    /\ page' = [page EXCEPT !.modal.currentStep = @ + 1]
    /\ UNCHANGED <<table, calls, past>>

handlePrevious ==
    /\ form # Nothing /\ form.currentStep > 0
    /\ page' = [page EXCEPT !.modal.currentStep = @ - 1]
    /\ UNCHANGED <<table, calls, past>>

\* The file inputs of the steps.
ProfileFiles == IF form.currentStep = 1 THEN {"profilePicture"} ELSE {}
DriverFiles == IF form.currentStep = 2 /\ form.showDriverFields THEN {"idProofDocument"} ELSE {}
StudentFiles ==
    IF form.currentStep = 3 /\ form.showStudentFields THEN {"disabilityCertificate", "idProofDocument"} ELSE {}
handleFileChange ==
    /\ form # Nothing /\ Room
    /\ \E field \in (ProfileFiles \cup DriverFiles \cup StudentFiles) \ form.uploadingFiles :
           /\ ActOnForm(1, IF past.entered = Nothing \/ Uploads # {} THEN Nothing
                           ELSE [form.formData EXCEPT !.filled = @ \cup {field}])
           /\ calls' = calls \cup {[op |-> "upload", field |-> field, data |-> form.formData,
                                    uploading |-> form.uploadingFiles]}
           /\ page' = [page EXCEPT !.modal.uploadingFiles = @ \cup {field}]
    /\ UNCHANGED table

\* Mutant of dataAfter: the other fields are not spread.
fileAlone(k) == [k.data EXCEPT !.filled = {k.field}]

\* The record of the render that started the upload, with the file.
dataAfter(k) == [k.data EXCEPT !.filled = @ \cup {k.field}]

UploadAnswers(k) ==
    /\ k \in Uploads
    /\ calls' = calls \ {k}
    /\ \/ /\ page' = [page EXCEPT !.modal.formData = dataAfter(k), !.modal.uploadingFiles = k.uploading \ {k.field}]
          /\ past' = [past EXCEPT !.overlap = Saving, !.lostForm = FALSE]
       \/ /\ page' = [page EXCEPT !.modal.uploadingFiles = k.uploading \ {k.field}]
          /\ past' = [past EXCEPT !.entered = IF @ = Nothing THEN @ ELSE form.formData]
    /\ UNCHANGED table

Carried(role) ==
    CASE role = "Student" -> Texts \cup Files
      [] role = "Driver" -> ProfileFields \cup {"idProofType", "idProofDocument"}
      [] OTHER -> ProfileFields

\* The status of a draft is "inactive" at first and is then overwritten.
buildUserData(d) ==
    [role |-> d.role, status |-> d.status, email |-> IF d.role = "Driver" THEN NoEmail ELSE d.email,
     filled |-> d.filled \cap Carried(d.role)]

Submits(draft) ==
    /\ Room
    /\ ActOnForm(1, past.entered)
    /\ calls' = calls \cup
           {[op |-> IF form.id = NoOne THEN "create" ELSE "update", at |-> "server", ok |-> FALSE, id |-> form.id,
             sent |-> buildUserData(form.formData), draft |-> draft, seen |-> NoRole]}
    /\ UNCHANGED <<table, page>>

\* Mutant of isComplete: the document is left to the steps, which do not ask for it.
isCompleteByStep(d) ==
    /\ d.role # NoRole
    /\ d.role # "Driver" => d.email # NoEmail
    /\ Carried(d.role) \ {"idProofDocument"} \subseteq d.filled

isComplete(d) ==
    /\ d.role # NoRole
    /\ d.role # "Driver" => d.email # NoEmail
    /\ Carried(d.role) \subseteq d.filled

\* Nothing disables the buttons while a save is in flight.
handleSubmit ==
    /\ form # Nothing /\ finalStep /\ form.formData.agreeToTerms
    /\ isComplete(form.formData)
    /\ Submits(FALSE)

handleSaveDraft ==
    /\ form # Nothing /\ form.id = NoOne
    /\ form.formData.role # NoRole
    /\ form.formData.role # "Driver" => form.formData.email # NoEmail
    /\ "phone" \in form.formData.filled
    /\ Submits(TRUE)

-----------------------------------------------------------------------------
(* The server. *)

\* Answers read before a change of the table are old.
Aged(cs) == {IF k.op = "fetch" /\ k.at = "back" THEN [k EXCEPT !.old = TRUE] ELSE k : k \in cs}

Moves(k, j) == calls' = (calls \ {k}) \cup {j}
MovesAndAges(k, j) == calls' = Aged(calls \ {k}) \cup {j}
Refuse(k) == Moves(k, [k EXCEPT !.at = "back"]) /\ UNCHANGED <<table, page, past>>

GetUsers(k) ==
    /\ k \in calls /\ k.op = "fetch" /\ k.at = "server"
    /\ Moves(k, [k EXCEPT !.at = "back", !.ok = TRUE, !.rows = table])
    /\ UNCHANGED <<table, page, past>>

\* E-mail and user name are UNIQUE, and no constraint for those who have none.
EmailTaken(email, id) == email # NoEmail /\ \E q \in DOMAIN table : q # id /\ table[q].email = email

CreateUser(k) ==
    /\ k \in calls /\ k.op = "create" /\ k.at = "server"
    /\ IF EmailTaken(k.sent.email, NoOne) THEN Refuse(k)
       ELSE \E r \in Ids :
                /\ \A q \in past.used : q < r
                /\ table' = [q \in DOMAIN table \cup {r} |-> IF q = r THEN k.sent ELSE table[q]]
                /\ past' = [past EXCEPT !.used = @ \cup {r}, !.drafts = IF k.draft THEN @ \cup {r} ELSE @]
                /\ MovesAndAges(k, [k EXCEPT !.at = "back", !.ok = TRUE])
                /\ UNCHANGED page

\* UpdateUser and DeleteUser read the role of the user first, ...
CheckUpdate(k) ==
    /\ k \in calls /\ k.op \in {"update", "status"} /\ k.at = "server"
    /\ IF k.id \notin DOMAIN table THEN Refuse(k)
       ELSE /\ Moves(k, [k EXCEPT !.at = "checked", !.seen = table[k.id].role])
            /\ UNCHANGED <<table, page, past>>

\* Mutant of mayDelete: the rows of SuperAdmins have no button, so no check.
mayDeleteAny(r) == TRUE

mayDelete(r) == table[r].role # "SuperAdmin"

CheckDelete(k) ==
    /\ k \in calls /\ k.op = "delete" /\ k.at = "server"
    /\ IF k.id \notin DOMAIN table \/ ~mayDelete(k.id) THEN Refuse(k)
       ELSE Moves(k, [k EXCEPT !.at = "checked"]) /\ UNCHANGED <<table, page, past>>

\* ... and write later. The role and the status are written only when they change,
\* and those of a user seen as SuperAdmin do not; nobody but a SuperAdmin makes one.
mayUpdate(sent, seen, user) ==
    /\ sent.role \notin {NoRole, seen} =>
           seen # "SuperAdmin" /\ (sent.role = "SuperAdmin" => MyRole = "SuperAdmin")
    /\ sent.status # user.status => seen # "SuperAdmin"

Updated(sent, seen, user) ==
    [role |-> IF sent.role \in {NoRole, seen} THEN user.role ELSE sent.role,
     status |-> sent.status,
     email |-> IF sent.email = NoEmail THEN user.email ELSE sent.email,
     filled |-> user.filled \cup sent.filled]

\* A request on user r is between its check and its write.
checkedOn(r, cs) == \E k \in cs \ Uploads : k.at = "checked" /\ k.id = r

UpdateUser(k) ==
    /\ k \in calls /\ k.op \in {"update", "status"} /\ k.at = "checked"
    /\ IF k.id \notin DOMAIN table \/ EmailTaken(k.sent.email, k.id) \/ ~mayUpdate(k.sent, k.seen, table[k.id])
       THEN Refuse(k)
       ELSE /\ table' = [table EXCEPT ![k.id] = Updated(k.sent, k.seen, @)]
            /\ past' = [past EXCEPT !.drafts = IF k.op = "update" THEN @ \ {k.id} ELSE @,
                                    !.raced = @ \/ (table'[k.id].role = "SuperAdmin" /\ table[k.id].role # "SuperAdmin"
                                                      /\ checkedOn(k.id, calls \ {k}))]
            /\ MovesAndAges(k, [k EXCEPT !.at = "back", !.ok = TRUE])
            /\ UNCHANGED page

DeleteUser(k) ==
    /\ k \in calls /\ k.op = "delete" /\ k.at = "checked"
    /\ IF k.id \notin DOMAIN table THEN Refuse(k)
       ELSE /\ table' = [q \in DOMAIN table \ {k.id} |-> table[q]]
            /\ MovesAndAges(k, [k EXCEPT !.at = "back", !.ok = TRUE])
            /\ UNCHANGED <<page, past>>

\* A query fails, or the answer is lost on its way back.
RequestFails(k) ==
    /\ k \in calls \ Uploads /\ ~(k.at = "back" /\ ~k.ok)
    /\ Moves(k, [k EXCEPT !.at = "back", !.ok = FALSE])
    /\ past' = [past EXCEPT !.unsure = @ \/ (k.op # "fetch" /\ k.at = "back")]
    /\ UNCHANGED <<table, page>>

OtherAdminWrites ==
    /\ past.acts < MaxActs
    /\ \E r \in DOMAIN table :
           /\ table[r].role # "SuperAdmin"
           /\ \/ /\ table' = [q \in DOMAIN table \ {r} |-> table[q]]
                 /\ past' = [past EXCEPT !.acts = @ + 1, !.unsure = TRUE]
              \/ /\ table' = [table EXCEPT ![r].role = "SuperAdmin"]
                 /\ past' = [past EXCEPT !.acts = @ + 1, !.unsure = TRUE,
                                         !.raced = @ \/ checkedOn(r, calls)]
    /\ calls' = Aged(calls)
    /\ UNCHANGED page

-----------------------------------------------------------------------------
(* The answers. *)

\* The list is replaced by the answer, whatever it answers.
FetchAnswers(k) ==
    /\ k \in calls /\ k.op = "fetch" /\ k.at = "back"
    /\ calls' = calls \ {k}
    /\ IF k.ok
       THEN /\ page' = Rendered([page EXCEPT !.users = k.rows, !.initialFetchDone = TRUE], FALSE)
            /\ past' = [past EXCEPT !.unsure = k.old]
       ELSE /\ page' = [page EXCEPT !.error = TRUE, !.initialFetchDone = TRUE]
            /\ past' = [past EXCEPT !.unsure = TRUE]
    /\ UNCHANGED table

\* Mutant of ClosesForm: the form is closed in any case.
AlwaysClosesForm(k) == TRUE

ClosesForm(k) == k.ok

\* handleSave closes the form that is open, which need not be the one it saved.
SaveAnswers(k) ==
    /\ k \in calls /\ k.op \in {"create", "update"} /\ k.at = "back"
    /\ calls' = (calls \ ({k} \cup (IF ClosesForm(k) THEN Uploads ELSE {}))) \cup (IF k.ok THEN {fetchUsers} ELSE {})
    /\ page' = [(IF ClosesForm(k) THEN WithoutForm(page) ELSE page) EXCEPT !.error = IF k.ok THEN FALSE ELSE @]
    /\ past' = [past EXCEPT !.entered = IF ClosesForm(k) THEN Nothing ELSE @,
                            !.lostForm = @ \/ (ClosesForm(k) /\ form # Nothing
                                /\ ~(k.ok /\ k.id = form.id /\ k.sent = buildUserData(form.formData)))]
    /\ UNCHANGED table

\* Mutant of RefetchAfter: the page trusts what it shows.
NoRefetchAfter(k) == {}

RefetchAfter(k) == IF k.ok THEN {fetchUsers} ELSE {}

StatusAnswers(k) ==
    /\ k \in calls /\ k.op = "status" /\ k.at = "back"
    /\ calls' = (calls \ {k}) \cup RefetchAfter(k)
    /\ page' = IF k.ok THEN [page EXCEPT !.statusChangeUser = NoOne, !.error = FALSE] ELSE page
    /\ UNCHANGED <<table, past>>

DeleteAnswers(k) ==
    /\ k \in calls /\ k.op = "delete" /\ k.at = "back"
    /\ calls' = (calls \ {k}) \cup RefetchAfter(k)
    /\ page' = IF k.ok THEN [page EXCEPT !.error = FALSE] ELSE page
    /\ UNCHANGED <<table, past>>

-----------------------------------------------------------------------------
Next ==
    \/ Search \/ Debounce \/ Filter \/ ClearFilters \/ ChangePage \/ Retry \/ DismissError \/ CloseView
    \/ CloseStatus \/ ChooseStatus
    \/ \E r \in DOMAIN page.users : View(r) \/ handleDelete(r) \/ handleStatusClick(r) \/ handleEdit(r)
    \/ AddUser \/ handleCloseModal \/ handleRoleChange \/ handleNext \/ handlePrevious
    \/ EditProfile \/ SelectStatus \/ EditPhone \/ AgreeToTerms
    \/ EditInstitution \/ EditResidence \/ EditDriverProof \/ EditDisability \/ EditIdProof
    \/ handleFileChange \/ handleSubmit \/ handleSaveDraft
    \/ OtherAdminWrites
    \/ \E k \in calls :
           \/ UploadAnswers(k) \/ GetUsers(k) \/ CreateUser(k) \/ CheckUpdate(k) \/ UpdateUser(k)
           \/ CheckDelete(k) \/ DeleteUser(k) \/ RequestFails(k)
           \/ FetchAnswers(k) \/ SaveAnswers(k) \/ StatusAnswers(k) \/ DeleteAnswers(k)

Spec == Init /\ [][Next]_vars
-----------------------------------------------------------------------------
(* Properties. *)

\* At rest the list is what the server has, unless an answer was old or lost, or
\* another admin wrote meanwhile.
UsersAreCurrent == calls = {} /\ ~past.unsure => page.users = table

\* A form is closed without having been stored only when it was last used while a save of
\* another form, or of an earlier state of it, was in flight.
FormLostOnlyToOverlap == past.lostForm => past.overlap

\* The form holds what was entered in it, shows the steps of its role, and waits for
\* the files that are uploading, unless something was entered during an upload.
FormKeepsEdits ==
    form # Nothing /\ past.entered # Nothing =>
        /\ \A k \in Uploads : dataAfter(k) = past.entered
        /\ Uploads = {} => form.formData = past.entered
        /\ form.uploadingFiles = {k.field : k \in Uploads}
        /\ form.formData.role # NoRole =>
               /\ form.showStudentFields = (form.formData.role = "Student")
               /\ form.showDriverFields = (form.formData.role = "Driver")

\* A user whom the page has created or edited has all that the role needs, unless he
\* is a draft.
CompleteUnlessDraft ==
    \A r \in DOMAIN table \ past.drafts :
        table[r].role # "SuperAdmin" => Carried(table[r].role) \subseteq table[r].filled

\* A SuperAdmin is not deleted and keeps his role and status, unless he became one
\* between the check and the write of the request.
SuperAdminsKept ==
    [][\A r \in DOMAIN table :
           table[r].role = "SuperAdmin" /\ ~past.raced =>
               /\ r \in DOMAIN table'
               /\ table'[r].role = "SuperAdmin" /\ table'[r].status = table[r].status]_vars

\* A list that has rows shows some.
PageShowsUsers == filtered(page) # {} => paginatedUsers # {}
=============================================================================
