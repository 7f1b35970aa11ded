--------------------------- MODULE RegisterClient ---------------------------
(***************************************************************************)
(* The students' registration wizard in one browser tab, with the server's *)
(* OTP and registration handlers it calls.                                 *)
(*                                                                         *)
(* A click starts a call that awaits several answers; the page stays alive *)
(* meanwhile: the form can be edited, another button clicked, the PDF scan *)
(* that was started on the first step answers and fills the form again.    *)
(* A call keeps the values of the render it was started from.              *)
(***************************************************************************)
EXTENDS Integers, FiniteSets

CONSTANTS
    Emails,     \* well-formed e-mail addresses
    NoEmail,    \* no address: a malformed one is stopped by the wizard in the same places, while the
                \* server refuses an empty one only
    UsernameOf, \* what getUsernameFromEmail makes of each address
    Contested,  \* the addresses for which an account may be created elsewhere
    Calls,      \* executions of the three handlers of the OTP step and of the submit
    Groups,     \* the groups of fields that steps 2, 3 and 4 of the wizard validate
    MaxOtp,     \* bound on the OTPs generated
    MaxEdits    \* bound on the edits and scans the student starts

AllGroups == {"profile", "institution", "disability"}
StepOf == [g \in AllGroups |-> CASE g = "profile" -> 2 [] g = "institution" -> 3 [] g = "disability" -> 4]

ASSUME WizardInputs ==
    /\ NoEmail \notin Emails
    /\ Emails \subseteq DOMAIN UsernameOf
    /\ Contested \subseteq Emails
    /\ Groups \subseteq AllGroups
    /\ MaxOtp \in Nat /\ MaxEdits \in Nat

VARIABLES
    formData,         \* the form: addresses, the groups whose fields are valid, the terms
    currentStep,
    serverEmailTaken, \* the verdict of the last e-mail check: "yes", "no" or "unknown"
    verdictFor,       \* the address that verdict is about (history)
    checks,           \* e-mail checks whose timer or request is pending
    scanning,         \* the scans in flight
    otpSentTo, otpValue, otpVerified, isSubmitting,
    call,             \* the executions
    otpKey,           \* Redis: the OTP stored for each address, 0 for none
    inbox,            \* OTP mails that arrived
    nextOtp,          \* the number of the next OTP
    users,            \* the users table
    edits,            \* edits and scans started so far
    drifted,          \* what changed after the wizard had passed it (history)
    lost, resent      \* an answer was lost; the OTP step was submitted again (history)

form == <<formData, currentStep, edits>>
checking == <<serverEmailTaken, verdictFor, checks>>
otpStep == <<otpSentTo, otpValue, otpVerified>>
server == <<otpKey, inbox, nextOtp, users>>
vars == <<form, checking, scanning, otpStep, isSubmitting, call, server, drifted, lost, resent>>

Addresses == Emails \cup {NoEmail}
Scans == {"pdf", "student"}

FormData == [email : Addresses, confirmEmail : Addresses, ready : SUBSET Groups, termsAccepted : BOOLEAN]
Check == [email : Emails, aborted : BOOLEAN]
Idle == [pc |-> "idle"]
\* op: which handler; email: the address sent to the OTP endpoints; form: the
\* form of the render the handler was started from; otp: what it sends or stores.
Call ==
    {Idle} \cup
    [pc : {"store", "mail", "compare", "consume", "register", "answer"},
     op : {"submit", "resend", "verify"}, email : Emails, form : FormData,
     otp : 0 .. MaxOtp, ok : BOOLEAN]
\* by: who stored the account; proven: the address whose OTP was accepted for it.
User == [email : Emails, by : {"tab", "other"}, proven : Addresses, ready : SUBSET Groups,
         termsAccepted : BOOLEAN]

TypeOK ==
    /\ formData \in FormData
    /\ currentStep \in 1 .. 6
    /\ serverEmailTaken \in {"yes", "no", "unknown"}
    /\ verdictFor \in Addresses
    /\ checks \subseteq Check
    /\ scanning \subseteq Scans
    /\ otpSentTo \in Addresses
    /\ otpValue \in 0 .. MaxOtp
    /\ otpVerified \in BOOLEAN
    /\ isSubmitting \in BOOLEAN
    /\ call \in [Calls -> Call]
    /\ otpKey \in [Emails -> 0 .. MaxOtp]
    /\ inbox \subseteq Emails \X (0 .. MaxOtp)
    /\ nextOtp \in 1 .. MaxOtp + 1
    /\ users \subseteq User
    /\ edits \in 0 .. MaxEdits
    /\ drifted \subseteq Groups \cup {"email"}
    /\ lost \in BOOLEAN
    /\ resent \in BOOLEAN

Init ==
    /\ formData = [email |-> NoEmail, confirmEmail |-> NoEmail, ready |-> {}, termsAccepted |-> FALSE]
    /\ currentStep = 1
    /\ serverEmailTaken = "unknown"
    /\ verdictFor = NoEmail
    /\ checks = {}
    /\ scanning = {}
    /\ otpSentTo = NoEmail
    /\ otpValue = 0
    /\ otpVerified = FALSE
    /\ isSubmitting = FALSE
    /\ call = [c \in Calls |-> Idle]
    /\ otpKey = [e \in Emails |-> 0]
    /\ inbox = {}
    /\ nextOtp = 1
    /\ users = {}
    /\ edits = 0
    /\ drifted = {}
    /\ lost = FALSE
    /\ resent = FALSE

-----------------------------------------------------------------------------
(* The e-mail check: debounced, and cancelled by the next change. *)

EmailTaken(e) == \E u \in users : u.email = e
UsernameTaken(e) == \E u \in users : UsernameOf[u.email] = UsernameOf[e]

emailCheckLoading == \E k \in checks : ~k.aborted

\* Mutant of Aborted: the answers of superseded checks are still used.
NotAborted(ks) == ks

\* The effect's cleanup: no answer of these checks is used any more.
Aborted(ks) == {[k EXCEPT !.aborted = TRUE] : k \in ks}

\* The effect runs only when the address differs from the one before.
EmailBecomes(e) ==
    IF e = formData.email THEN UNCHANGED checking
    ELSE /\ checks' = Aborted(checks) \cup (IF e = NoEmail THEN {} ELSE {[email |-> e, aborted |-> FALSE]})
         /\ IF e = NoEmail THEN serverEmailTaken' = "unknown" /\ verdictFor' = NoEmail
                           ELSE UNCHANGED <<serverEmailTaken, verdictFor>>

EmailCheckAnswers(k) ==
    /\ k \in checks
    /\ checks' = checks \ {k}
    /\ IF k.aborted THEN UNCHANGED <<serverEmailTaken, verdictFor>>
       ELSE /\ serverEmailTaken' \in {"unknown", IF EmailTaken(k.email) THEN "yes" ELSE "no"}
            /\ verdictFor' = k.email
    /\ UNCHANGED <<form, scanning, otpStep, isSubmitting, call, server, drifted, lost, resent>>

-----------------------------------------------------------------------------
(* Filling the form. *)

Sending == \E c \in Calls : call[c] # Idle /\ call[c].op = "submit"

\* What a change of the form escapes: the e-mail address once an OTP is on its
\* way to it, a group once the wizard is past its step.
Late(x) ==
    IF x = "email" THEN Sending \/ currentStep = 6
                   ELSE Sending \/ currentStep > StepOf[x]

Edit == edits < MaxEdits /\ edits' = edits + 1

EditEmail(e) ==
    /\ currentStep = 2
    /\ e # formData.email
    /\ Edit
    /\ formData' = [formData EXCEPT !.email = e]
    /\ EmailBecomes(e)
    /\ drifted' = drifted \cup {x \in {"email"} : Late(x)}
    /\ UNCHANGED <<currentStep, scanning, otpStep, isSubmitting, call, server, lost, resent>>

EditConfirmEmail(e) ==
    /\ currentStep = 2
    /\ e # formData.confirmEmail
    /\ Edit
    /\ formData' = [formData EXCEPT !.confirmEmail = e]
    /\ UNCHANGED <<currentStep, checking, scanning, otpStep, isSubmitting, call, server, drifted, lost, resent>>

\* The fields of a step are shown, and so edited, at that step only; an edit makes
\* its group valid or not.
EditFields(g) ==
    /\ g \in Groups
    /\ currentStep = StepOf[g]
    /\ Edit
    /\ \E ready \in {formData.ready \cup {g}, formData.ready \ {g}} :
           /\ ready # formData.ready
           /\ formData' = [formData EXCEPT !.ready = ready]
    /\ drifted' = drifted \cup {x \in {g} : Late(x)}
    /\ UNCHANGED <<currentStep, checking, scanning, otpStep, isSubmitting, call, server, lost, resent>>

EditProfile == EditFields("profile")
EditInstitution == EditFields("institution")
EditDisability == EditFields("disability")

AcceptTerms ==
    /\ currentStep = 5
    /\ Edit
    /\ formData' = [formData EXCEPT !.termsAccepted = ~@]
    /\ UNCHANGED <<currentStep, checking, scanning, otpStep, isSubmitting, call, server, drifted, lost, resent>>

\* handleScanPdf and handleScanStudentId: the button is on the first step, the
\* answer comes whenever it comes and fills what it found into the form.
StartScan(k) ==
    /\ currentStep = 1
    /\ k \notin scanning
    /\ Edit
    /\ scanning' = scanning \cup {k}
    /\ UNCHANGED <<formData, currentStep, checking, otpStep, isSubmitting, call, server, drifted, lost, resent>>

StartPdfScan == StartScan("pdf")
StartStudentScan == StartScan("student")

\* The names complete nothing, a percentage that is no number spoils its group.
PdfScanAnswers ==
    /\ "pdf" \in scanning
    /\ scanning' = scanning \ {"pdf"}
    /\ \E spoilt \in SUBSET (Groups \cap {"disability"}) :
           /\ formData' = [formData EXCEPT !.ready = @ \ spoilt]
           /\ drifted' = drifted \cup {x \in spoilt : Late(x)}
    /\ UNCHANGED <<currentStep, edits, checking, otpStep, isSubmitting, call, server, lost, resent>>

\* An unformatted phone number spoils "profile"; an address replaces the typed one.
StudentScanAnswers(e) ==
    /\ "student" \in scanning
    /\ scanning' = scanning \ {"student"}
    /\ \E spoilt \in SUBSET (Groups \cap {"profile"}) :
           /\ formData' = [formData EXCEPT !.email = e, !.ready = @ \ spoilt]
           /\ drifted' = drifted \cup {x \in spoilt : Late(x)}
                                 \cup {x \in {"email"} : e # formData.email /\ Late(x)}
    /\ EmailBecomes(e)
    /\ UNCHANGED <<currentStep, edits, otpStep, isSubmitting, call, server, lost, resent>>

ScanFails(k) ==
    /\ k \in scanning
    /\ scanning' = scanning \ {k}
    /\ UNCHANGED <<form, checking, otpStep, isSubmitting, call, server, drifted, lost, resent>>

-----------------------------------------------------------------------------
(* Moving through the steps. *)

\* Mutant of validateByStep: the addresses are compared, the required fields are not.
ValidateAddresses(s) ==
    /\ s = 2 => /\ formData.email # NoEmail
               /\ serverEmailTaken # "yes"
               /\ formData.confirmEmail = formData.email
    /\ s = 5 => formData.termsAccepted

validateByStep(s) ==
    /\ \A g \in Groups : StepOf[g] = s => g \in formData.ready
    /\ s = 2 => /\ formData.email # NoEmail
               /\ serverEmailTaken # "yes"
               /\ formData.confirmEmail = formData.email
    /\ s = 5 => formData.termsAccepted

canProceedStep1 == validateByStep(2) /\ ~emailCheckLoading

handleNext ==
    /\ currentStep < 5
    /\ currentStep = 2 => canProceedStep1
    /\ validateByStep(currentStep)
    /\ currentStep' = currentStep + 1
    /\ UNCHANGED <<formData, edits, checking, scanning, otpStep, isSubmitting, call, server, drifted, lost, resent>>

\* Mutant of ShowsPrevious: the first step has the button too.
ShowsPreviousAtStart == currentStep < 6

\* The row of buttons is missing on the OTP step only.
ShowsPrevious == currentStep > 1 /\ currentStep < 6

handlePrevious ==
    /\ ShowsPrevious
    /\ currentStep' = currentStep - 1
    /\ UNCHANGED <<formData, edits, checking, scanning, otpStep, isSubmitting, call, server, drifted, lost, resent>>

-----------------------------------------------------------------------------
(* Calls. *)

Begin(c, op, pc, email, otp) ==
    /\ call[c] = Idle
    /\ call' = [call EXCEPT ![c] =
           [pc |-> pc, op |-> op, email |-> email, form |-> formData, otp |-> otp, ok |-> FALSE]]
    /\ isSubmitting' = TRUE

Goto(c, pc) == call' = [call EXCEPT ![c].pc = pc]
Answer(c, ok) == call' = [call EXCEPT ![c].pc = "answer", ![c].ok = ok]

otpAddress == IF otpSentTo = NoEmail THEN formData.email ELSE otpSentTo

\* The form is submitted by the button of step 5, and on the OTP step by Enter:
\* its only text field has no submit button that isSubmitting could disable.
handleSubmit(c) ==
    /\ (currentStep = 5 /\ ~isSubmitting) \/ currentStep = 6
    /\ validateByStep(4)
    /\ formData.email # NoEmail
    /\ Begin(c, "submit", "store", formData.email, 0)
    /\ resent' = (resent \/ currentStep = 6)
    /\ UNCHANGED <<form, checking, scanning, otpStep, server, drifted, lost>>

\* Mutant of CanVerify: a second click is let through.
CanVerifyAgain == ~otpVerified

CanVerify == ~otpVerified /\ ~isSubmitting

handleVerifyOtp(c) ==
    /\ currentStep = 6
    /\ CanVerify
    /\ otpValue # 0
    /\ Begin(c, "verify", "compare", otpAddress, otpValue)
    /\ UNCHANGED <<form, checking, scanning, otpStep, server, drifted, lost, resent>>

handleResendOtp(c) ==
    /\ currentStep = 6
    /\ ~isSubmitting
    /\ Begin(c, "resend", "store", otpAddress, 0)
    /\ UNCHANGED <<form, checking, scanning, otpStep, server, drifted, lost, resent>>

\* The student types the code of a mail that arrived.
TypeOtp(m) ==
    /\ currentStep = 6
    /\ m \in inbox
    /\ m[1] = otpAddress
    /\ otpValue # m[2]
    /\ otpValue' = m[2]
    /\ UNCHANGED <<form, checking, scanning, otpSentTo, otpVerified, isSubmitting, call, server, drifted, lost, resent>>

-----------------------------------------------------------------------------
(* The server's side of a call. *)

atServer(c, pc) == call[c] # Idle /\ call[c].pc = pc
page == <<form, checking, scanning, otpStep, isSubmitting, drifted, resent>>

\* Any query, upload or mail may fail; every handler answers an error and stops.
RequestFails(c) ==
    /\ call[c] # Idle /\ call[c].pc # "answer"
    /\ Answer(c, FALSE)
    /\ UNCHANGED <<page, server, lost>>

\* SendRegisterStudentOTP stores the OTP, replacing the one before, and then mails it.
StoreOtp(c) ==
    /\ atServer(c, "store")
    /\ nextOtp <= MaxOtp
    /\ otpKey' = [otpKey EXCEPT ![call[c].email] = nextOtp]
    /\ nextOtp' = nextOtp + 1
    /\ call' = [call EXCEPT ![c].pc = "mail", ![c].otp = nextOtp]
    /\ UNCHANGED <<page, inbox, users, lost>>

MailOtp(c) ==
    /\ atServer(c, "mail")
    /\ inbox' = inbox \cup {<<call[c].email, call[c].otp>>}
    /\ Answer(c, TRUE)
    /\ UNCHANGED <<page, otpKey, nextOtp, users, lost>>

\* VerifyRegisterStudentOTP reads the key and compares, and later deletes the key.
CompareOtp(c) ==
    /\ atServer(c, "compare")
    /\ IF otpKey[call[c].email] = call[c].otp THEN Goto(c, "consume") ELSE Answer(c, FALSE)
    /\ UNCHANGED <<page, server, lost>>

ConsumeOtp(c) ==
    /\ atServer(c, "consume")
    /\ otpKey' \in {otpKey, [otpKey EXCEPT ![call[c].email] = 0]}
    /\ Goto(c, "register")
    /\ UNCHANGED <<page, inbox, nextOtp, users, lost>>

\* persistRegistration: the uploads, of which only a failure matters here, and then
\* PublicRegisterStudent's INSERT; username and email are UNIQUE.
persistRegistration(c) ==
    /\ atServer(c, "register")
    /\ LET f == call[c].form
       IN  IF f.email = NoEmail \/ EmailTaken(f.email) \/ UsernameTaken(f.email)
           THEN Answer(c, FALSE) /\ UNCHANGED users
           ELSE /\ users' = users \cup {[email |-> f.email, by |-> "tab", proven |-> call[c].email,
                                         ready |-> f.ready, termsAccepted |-> f.termsAccepted]}
                /\ Answer(c, TRUE)
    /\ UNCHANGED <<page, otpKey, inbox, nextOtp, lost>>

LoseAnswer(c) ==
    /\ atServer(c, "answer")
    /\ call[c].ok
    /\ Answer(c, FALSE)
    /\ lost' = TRUE
    /\ UNCHANGED <<page, server>>

\* The OTP's TTL runs out.
ExpireOtp(e) ==
    /\ otpKey[e] # 0
    /\ otpKey' = [otpKey EXCEPT ![e] = 0]
    /\ UNCHANGED <<page, call, inbox, nextOtp, users, lost>>

\* An admin creates an account, or another student registers.
OtherAccount(e) ==
    /\ e \in Contested
    /\ ~EmailTaken(e) /\ ~UsernameTaken(e)
    /\ users' = users \cup {[email |-> e, by |-> "other", proven |-> e, ready |-> Groups, termsAccepted |-> TRUE]}
    /\ UNCHANGED <<page, call, otpKey, inbox, nextOtp, lost>>

-----------------------------------------------------------------------------
(* The rest of a handler, when its last answer arrives. *)

\* Mutant of Finish: an error leaves the handler without clearing isSubmitting.
FinishOnSuccess(c) ==
    /\ call' = [call EXCEPT ![c] = Idle]
    /\ isSubmitting' = ~call[c].ok
    /\ UNCHANGED <<formData, edits, checking, scanning, server, drifted, lost, resent>>

Finish(c) ==
    /\ call' = [call EXCEPT ![c] = Idle]
    /\ isSubmitting' = FALSE
    /\ UNCHANGED <<formData, edits, checking, scanning, server, drifted, lost, resent>>

SubmitEnds(c) ==
    /\ atServer(c, "answer") /\ call[c].op = "submit"
    /\ Finish(c)
    /\ IF call[c].ok
       THEN /\ otpSentTo' = call[c].email
            /\ otpValue' = 0
            /\ otpVerified' = FALSE
            /\ currentStep' = 6
       ELSE UNCHANGED <<otpStep, currentStep>>

ResendEnds(c) ==
    /\ atServer(c, "answer") /\ call[c].op = "resend"
    /\ Finish(c)
    /\ otpValue' = IF call[c].ok THEN 0 ELSE otpValue
    /\ UNCHANGED <<otpSentTo, otpVerified, currentStep>>

\* Mutant of VerifyEnds: the outcome of the registration is not awaited.
VerifyEndsUnchecked(c) ==
    /\ atServer(c, "answer") /\ call[c].op = "verify"
    /\ Finish(c)
    /\ otpVerified' = TRUE
    /\ UNCHANGED <<otpSentTo, otpValue, currentStep>>

VerifyEnds(c) ==
    /\ atServer(c, "answer") /\ call[c].op = "verify"
    /\ Finish(c)
    /\ otpVerified' = call[c].ok
    /\ UNCHANGED <<otpSentTo, otpValue, currentStep>>

-----------------------------------------------------------------------------
CallStep(c) ==
    \/ RequestFails(c) \/ StoreOtp(c) \/ MailOtp(c) \/ CompareOtp(c) \/ ConsumeOtp(c)
    \/ persistRegistration(c) \/ LoseAnswer(c)
    \/ SubmitEnds(c) \/ ResendEnds(c) \/ VerifyEnds(c)

Next ==
    \/ \E k \in checks : EmailCheckAnswers(k)
    \/ \E e \in Addresses : EditEmail(e) \/ EditConfirmEmail(e)
    \/ EditProfile \/ EditInstitution \/ EditDisability
    \/ AcceptTerms
    \/ StartPdfScan \/ StartStudentScan \/ \E k \in Scans : ScanFails(k)
    \/ PdfScanAnswers
    \/ \E e \in Emails \cup {formData.email} : StudentScanAnswers(e)
    \/ handleNext \/ handlePrevious
    \/ \E m \in inbox : TypeOtp(m)
    \/ \E e \in Emails : ExpireOtp(e) \/ OtherAccount(e)
    \/ \E c \in Calls : handleSubmit(c) \/ handleVerifyOtp(c) \/ handleResendOtp(c) \/ CallStep(c)

Spec == Init /\ [][Next]_vars
-----------------------------------------------------------------------------
(* Properties. *)

\* The verdict the page acts on when no check is pending is about the address in
\* the form, whatever order the answers of the cancelled checks come in.
VerdictIsCurrent == (serverEmailTaken # "unknown" /\ ~emailCheckLoading) => verdictFor = formData.email

\* An account stored by the wizard has the address whose OTP was accepted and
\* valid fields, unless a scan or an edit changed them after the wizard had sent
\* the OTP or left the step that validates them.
StoredAsValidated ==
    \A u \in users : u.by = "tab" =>
        /\ u.email # u.proven => "email" \in drifted
        /\ Groups \ u.ready \subseteq drifted

\* "Registration complete" is shown only when this tab stored an account.
CompleteMeansStored == otpVerified => \E u \in users : u.by = "tab"

\* When the page is quiet, an account it stored is shown as complete, unless the
\* answer was lost or the OTP step was submitted again by Enter.
StoredIsShown ==
    ((\E u \in users : u.by = "tab") /\ \A c \in Calls : call[c] = Idle)
        => otpVerified \/ lost \/ resent

\* isSubmitting keeps the handlers apart: it is set only while one runs, and two run
\* at a time only after the OTP step was submitted again by Enter.
ButtonsMatchCalls ==
    LET running == {c \in Calls : call[c] # Idle}
    IN  /\ isSubmitting => running # {}
        /\ Cardinality(running) > 1 => resent

-----------------------------------------------------------------------------
(* What CompleteMeansStored, StoredIsShown and ButtonsMatchCalls rest on. *)

Runs(c, op) == call[c] # Idle /\ call[c].op = op
Stored == \E u \in users : u.by = "tab"
BringsSuccess(c) == Runs(c, "verify") /\ call[c].pc = "answer" /\ call[c].ok

\* Each handler calls endpoints of its own.
EndpointsOf ==
    \A c \in Calls : call[c] # Idle =>
        /\ call[c].pc \in {"store", "mail"} => call[c].op # "verify"
        /\ call[c].pc \in {"compare", "consume", "register"} => call[c].op = "verify"

\* isSubmitting is a lock that only a submit of the OTP step passes by.
OneHandler ==
    /\ isSubmitting => \E c \in Calls : call[c] # Idle
    /\ ~resent => \A c, d \in Calls : call[c] # Idle /\ call[d] # Idle => c = d
    /\ ~resent => \A c \in Calls : call[c] # Idle => isSubmitting

\* The wizard does not leave the OTP step.
OtpStepStays ==
    /\ Stored => currentStep = 6
    /\ \A c \in Calls : Runs(c, "verify") => currentStep = 6
    /\ ~resent => \A c \in Calls : Runs(c, "submit") => currentStep # 6

SuccessIsStored ==
    /\ otpVerified => Stored
    /\ \A c \in Calls : BringsSuccess(c) => Stored

\* Until it is shown, the success of a registration is on its way.
SuccessArrives ==
    ~resent =>
        /\ \A c \in Calls : Runs(c, "verify") => ~otpVerified
        /\ Stored => otpVerified \/ lost \/ \E c \in Calls : BringsSuccess(c)

WizardInv == EndpointsOf /\ OneHandler /\ OtpStepStays /\ SuccessIsStored /\ SuccessArrives

-----------------------------------------------------------------------------
(* What StoredAsValidated rests on. *)

ValidOrDrifted(ready) == Groups \ ready \subseteq drifted
SameOrDrifted(e, f) == e # f => "email" \in drifted

\* A step that was passed is valid, and an address the OTP went to is still the
\* form's, or the change is in drifted.
DriftInv ==
    /\ \A g \in Groups : Sending \/ currentStep > StepOf[g] => g \in formData.ready \cup drifted
    /\ currentStep = 6 => SameOrDrifted(otpSentTo, formData.email)
    /\ \A c \in Calls :
           /\ Runs(c, "submit") => SameOrDrifted(call[c].email, formData.email)
           /\ Runs(c, "verify") => /\ ValidOrDrifted(call[c].form.ready)
                                  /\ SameOrDrifted(call[c].form.email, call[c].email)
    /\ StoredAsValidated
=============================================================================
