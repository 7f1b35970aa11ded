------------------------- MODULE RegisterClientProofs -------------------------
(***************************************************************************)
(* The registration wizard, for all addresses, groups of fields, bounds    *)
(* and any number of handlers at a time: its states are well typed,        *)
(* "complete" means stored, what is stored is shown, and isSubmitting      *)
(* keeps the handlers apart.                                               *)
(***************************************************************************)
EXTENDS RegisterClient, FiniteSetTheorems, TLAPS

USE WizardInputs

Pcs == {"store", "mail", "compare", "consume", "register", "answer"}

\* The records of the executions that run.
Running ==
    [pc : Pcs, op : {"submit", "resend", "verify"}, email : Emails, form : FormData, otp : 0 .. MaxOtp, ok : BOOLEAN]

LEMMA CallIsRunning ==
    /\ Call = {Idle} \cup Running
    /\ Idle \notin Running
  BY DEF Call, Running, Pcs, Idle

\* Execution c has gone to pc with result ok, and no other has moved.
MovesTo(c, pc, ok) ==
    /\ call' \in [Calls -> Call]
    /\ call'[c] # Idle /\ call'[c].pc = pc /\ call'[c].ok = ok
    /\ call'[c].op = call[c].op /\ call'[c].email = call[c].email /\ call'[c].form = call[c].form
    /\ \A d \in Calls \ {c} : call'[d] = call[d]

LEMMA RecordMoves ==
    ASSUME call \in [Calls -> Call], NEW c \in Calls, NEW k \in Running,
           k.op = call[c].op, k.email = call[c].email, k.form = call[c].form, call' = [call EXCEPT ![c] = k]
    PROVE  MovesTo(c, k.pc, k.ok)
  BY CallIsRunning DEF MovesTo

LEMMA GotoMoves ==
    ASSUME call \in [Calls -> Call], NEW c \in Calls, NEW pc \in Pcs, call[c] # Idle, Goto(c, pc)
    PROVE  MovesTo(c, pc, call[c].ok)
<1> DEFINE k == [call[c] EXCEPT !.pc = pc]
<1>1. call[c] \in Running
  BY CallIsRunning
<1>2. k \in Running /\ k.op = call[c].op /\ k.email = call[c].email /\ k.form = call[c].form /\ k.pc = pc /\ k.ok = call[c].ok
  BY <1>1 DEF Running
<1>3. call' = [call EXCEPT ![c] = k]
  BY DEF Goto
<1> HIDE DEF k
<1> QED BY <1>2, <1>3, RecordMoves

LEMMA AnswerMoves ==
    ASSUME call \in [Calls -> Call], NEW c \in Calls, NEW ok \in BOOLEAN, call[c] # Idle, Answer(c, ok)
    PROVE  MovesTo(c, "answer", ok)
<1> DEFINE k == [call[c] EXCEPT !.pc = "answer", !.ok = ok]
<1>1. call[c] \in Running
  BY CallIsRunning
<1>2. k \in Running /\ k.op = call[c].op /\ k.email = call[c].email /\ k.form = call[c].form /\ k.pc = "answer" /\ k.ok = ok
  BY <1>1 DEF Running, Pcs
<1>3. call' = [call EXCEPT ![c] = k]
  BY DEF Answer
<1> HIDE DEF k
<1> QED BY <1>2, <1>3, RecordMoves

LEMMA StoreMoves ==
    ASSUME call \in [Calls -> Call], NEW c \in Calls, nextOtp \in 1 .. MaxOtp + 1, StoreOtp(c)
    PROVE  MovesTo(c, "mail", call[c].ok)
<1> DEFINE k == [call[c] EXCEPT !.pc = "mail", !.otp = nextOtp]
<1>1. call[c] \in Running /\ nextOtp \in 0 .. MaxOtp
  BY CallIsRunning DEF StoreOtp, atServer
<1>2. k \in Running /\ k.op = call[c].op /\ k.email = call[c].email /\ k.form = call[c].form /\ k.pc = "mail" /\ k.ok = call[c].ok
  BY <1>1 DEF Running, Pcs
<1>3. call' = [call EXCEPT ![c] = k]
  BY DEF StoreOtp
<1> HIDE DEF k
<1> QED BY <1>2, <1>3, RecordMoves

-----------------------------------------------------------------------------
(* Types. *)

\* An execution begins.
LEMMA BeginType ==
    ASSUME call \in [Calls -> Call], formData \in FormData, NEW c \in Calls, NEW op \in {"submit", "resend", "verify"},
           NEW pc \in Pcs, NEW email \in Emails, NEW otp \in 0 .. MaxOtp, Begin(c, op, pc, email, otp)
    PROVE  /\ call' \in [Calls -> Call]
           /\ call[c] = Idle /\ call'[c] # Idle /\ call'[c].op = op /\ call'[c].pc = pc /\ call'[c].ok = FALSE
           /\ call'[c].email = email /\ call'[c].form = formData
           /\ \A d \in Calls \ {c} : call'[d] = call[d]
           /\ isSubmitting'
<1> DEFINE k == [pc |-> pc, op |-> op, email |-> email, form |-> formData, otp |-> otp, ok |-> FALSE]
<1>1. k \in Running /\ k.op = op /\ k.pc = pc /\ k.ok = FALSE /\ k.email = email /\ k.form = formData
  BY DEF Running
<1>2. call' = [call EXCEPT ![c] = k] /\ call[c] = Idle /\ isSubmitting'
  BY DEF Begin
<1> HIDE DEF k
<1> QED BY <1>1, <1>2, CallIsRunning

\* On the OTP step an address is known, to which the OTP was sent.
TypeInv == TypeOK /\ (currentStep = 6 => otpSentTo \in Emails)

LEMMA AbortedType ==
    ASSUME NEW ks \in SUBSET Check
    PROVE  Aborted(ks) \subseteq Check
<1>1. ASSUME NEW k \in ks PROVE [k EXCEPT !.aborted = TRUE] \in Check
  BY DEF Check
<1> QED BY <1>1 DEF Aborted

LEMMA EmailBecomesType ==
    ASSUME TypeInv, NEW e \in Addresses, EmailBecomes(e)
    PROVE  /\ serverEmailTaken' \in {"yes", "no", "unknown"} /\ verdictFor' \in Addresses
           /\ checks' \subseteq Check
<1>1. CASE e = formData.email
  BY <1>1 DEF EmailBecomes, checking, TypeInv, TypeOK
<1>2. CASE e # formData.email
  <2>1. e # NoEmail => [email |-> e, aborted |-> FALSE] \in Check
    BY DEF Check, Addresses
  <2>2. checks' = Aborted(checks) \cup (IF e = NoEmail THEN {} ELSE {[email |-> e, aborted |-> FALSE]})
    BY <1>2 DEF EmailBecomes
  <2>3. checks' \subseteq Check
    BY <2>1, <2>2, AbortedType DEF TypeInv, TypeOK
  <2>4. serverEmailTaken' \in {"yes", "no", "unknown"} /\ verdictFor' \in Addresses
    BY <1>2 DEF EmailBecomes, TypeInv, TypeOK, Addresses
  <2> QED BY <2>3, <2>4
<1> QED BY <1>1, <1>2

\* The form with another value of one of its fields.
LEMMA FormDataType ==
    ASSUME NEW f \in FormData
    PROVE  /\ \A e \in Addresses : [f EXCEPT !.email = e] \in FormData
           /\ \A e \in Addresses : [f EXCEPT !.confirmEmail = e] \in FormData
           /\ \A r \in SUBSET Groups : [f EXCEPT !.ready = r] \in FormData
           /\ \A e \in Addresses, r \in SUBSET Groups : [f EXCEPT !.email = e, !.ready = r] \in FormData
           /\ [f EXCEPT !.termsAccepted = ~f.termsAccepted] \in FormData
  BY DEF FormData

LEMMA EditType == ASSUME TypeInv, Edit PROVE edits' \in 0 .. MaxEdits
  BY DEF Edit, TypeInv, TypeOK

\* Everything but the form and the edits.
Others == <<currentStep, scanning, otpStep, isSubmitting, call, server, lost, resent>>

LEMMA TypeFormChange ==
    ASSUME TypeInv, UNCHANGED Others, formData' \in FormData, edits' \in 0 .. MaxEdits,
           serverEmailTaken' \in {"yes", "no", "unknown"}, verdictFor' \in Addresses, checks' \subseteq Check,
           drifted' \subseteq Groups \cup {"email"}
    PROVE  TypeInv'
  BY DEF Others, TypeInv, TypeOK, otpStep, server

LEMMA TypeEdits ==
    ASSUME TypeInv,
           \/ \E e \in Addresses : EditEmail(e) \/ EditConfirmEmail(e)
           \/ EditProfile \/ EditInstitution \/ EditDisability \/ AcceptTerms
    PROVE  TypeInv'
<1>0. formData \in FormData /\ drifted \subseteq Groups \cup {"email"}
  BY DEF TypeInv, TypeOK
<1>1. ASSUME NEW e \in Addresses, EditEmail(e)
      PROVE  TypeInv'
  <2>1. formData' \in FormData /\ drifted' \subseteq Groups \cup {"email"}
    BY <1>0, <1>1, FormDataType DEF EditEmail
  <2> QED BY <1>1, <2>1, EditType, EmailBecomesType, TypeFormChange DEF EditEmail, Others
<1>2. ASSUME NEW e \in Addresses, EditConfirmEmail(e)
      PROVE  TypeInv'
  <2>1. formData' \in FormData
    BY <1>0, <1>2, FormDataType DEF EditConfirmEmail
  <2> QED BY <1>2, <2>1, EditType, TypeFormChange DEF EditConfirmEmail, Others, checking, TypeInv, TypeOK
<1>3. ASSUME NEW g, EditFields(g)
      PROVE  TypeInv'
  <2>1. PICK ready \in {formData.ready \cup {g}, formData.ready \ {g}} :
            formData' = [formData EXCEPT !.ready = ready]
    BY <1>3 DEF EditFields
  <2>2. ready \in SUBSET Groups
    BY <1>0, <1>3, <2>1 DEF EditFields, FormData
  <2>3. formData' \in FormData
    BY <1>0, <2>1, <2>2, FormDataType
  <2>4. drifted' \subseteq Groups \cup {"email"}
    BY <1>0, <1>3 DEF EditFields
  <2> QED BY <1>3, <2>3, <2>4, EditType, TypeFormChange DEF EditFields, Others, checking, TypeInv, TypeOK
<1>4. CASE AcceptTerms
  <2>1. formData' \in FormData
    BY <1>0, <1>4, FormDataType DEF AcceptTerms
  <2> QED BY <1>4, <2>1, EditType, TypeFormChange DEF AcceptTerms, Others, checking, TypeInv, TypeOK
<1> QED BY <1>1, <1>2, <1>3, <1>4 DEF EditProfile, EditInstitution, EditDisability

LEMMA TypeScans ==
    ASSUME TypeInv,
           \/ StartPdfScan \/ StartStudentScan \/ \E k \in Scans : ScanFails(k)
           \/ PdfScanAnswers
           \/ \E e \in Emails \cup {formData.email} : StudentScanAnswers(e)
    PROVE  TypeInv'
<1>0. formData \in FormData /\ drifted \subseteq Groups \cup {"email"} /\ scanning \subseteq Scans
  BY DEF TypeInv, TypeOK
<1>1. ASSUME NEW k \in Scans, StartScan(k)
      PROVE  TypeInv'
  <2>1. edits' \in 0 .. MaxEdits /\ scanning' \subseteq Scans
    BY <1>0, <1>1, EditType DEF StartScan
  <2> QED BY <1>1, <2>1 DEF StartScan, TypeInv, TypeOK, checking, otpStep, server
<1>2. ASSUME NEW k \in Scans, ScanFails(k)
      PROVE  TypeInv'
  <2>1. scanning' \subseteq Scans
    BY <1>0, <1>2 DEF ScanFails
  <2> QED BY <1>2, <2>1 DEF ScanFails, TypeInv, TypeOK, form, checking, otpStep, server
<1>3. CASE PdfScanAnswers
  <2>1. PICK spoilt \in SUBSET (Groups \cap {"disability"}) :
            /\ formData' = [formData EXCEPT !.ready = formData.ready \ spoilt]
            /\ drifted' = drifted \cup {x \in spoilt : Late(x)}
    BY <1>3 DEF PdfScanAnswers
  <2>2. formData.ready \ spoilt \in SUBSET Groups
    BY <1>0 DEF FormData
  <2>3. formData' \in FormData /\ drifted' \subseteq Groups \cup {"email"}
    BY <1>0, <2>1, <2>2, FormDataType
  <2>4. scanning' \subseteq Scans
    BY <1>0, <1>3 DEF PdfScanAnswers
  <2> QED BY <1>3, <2>3, <2>4 DEF PdfScanAnswers, TypeInv, TypeOK, checking, otpStep, server
<1>4. ASSUME NEW e \in Emails \cup {formData.email}, StudentScanAnswers(e)
      PROVE  TypeInv'
  <2>1. e \in Addresses
    BY <1>0 DEF FormData, Addresses
  <2>2. PICK spoilt \in SUBSET (Groups \cap {"profile"}) :
            /\ formData' = [formData EXCEPT !.email = e, !.ready = formData.ready \ spoilt]
            /\ drifted' = drifted \cup {x \in spoilt : Late(x)} \cup {x \in {"email"} : e # formData.email /\ Late(x)}
    BY <1>4 DEF StudentScanAnswers
  <2>3. formData.ready \ spoilt \in SUBSET Groups
    BY <1>0 DEF FormData
  <2>4. formData' \in FormData
    BY <1>0, <2>1, <2>2, <2>3, FormDataType
  <2>5. drifted' \subseteq Groups \cup {"email"}
    BY <1>0, <2>2
  <2>6. scanning' \subseteq Scans
    BY <1>0, <1>4 DEF StudentScanAnswers
  <2>7. /\ serverEmailTaken' \in {"yes", "no", "unknown"} /\ verdictFor' \in Addresses
        /\ checks' \subseteq Check
    BY <1>4, <2>1, EmailBecomesType DEF StudentScanAnswers
  <2> QED BY <1>4, <2>4, <2>5, <2>6, <2>7 DEF StudentScanAnswers, TypeInv, TypeOK, otpStep, server
<1> QED BY <1>1, <1>2, <1>3, <1>4 DEF StartPdfScan, StartStudentScan, Scans

LEMMA TypePage ==
    ASSUME TypeInv,
           \/ \E k \in checks : EmailCheckAnswers(k)
           \/ handleNext \/ handlePrevious
           \/ \E m \in inbox : TypeOtp(m)
    PROVE  TypeInv'
<1>1. ASSUME NEW k \in checks, EmailCheckAnswers(k)
      PROVE  TypeInv'
  <2>1. k.email \in Addresses
    BY DEF TypeInv, TypeOK, Check, Addresses
  <2>2. /\ serverEmailTaken' \in {"yes", "no", "unknown"} /\ verdictFor' \in Addresses
        /\ checks' \subseteq Check
    BY <1>1, <2>1 DEF EmailCheckAnswers, TypeInv, TypeOK
  <2> QED BY <1>1, <2>2 DEF EmailCheckAnswers, TypeInv, TypeOK, form, otpStep, server
<1>2. CASE handleNext
  <2>1. currentStep' \in 1 .. 6 /\ currentStep' # 6
    BY <1>2 DEF handleNext, TypeInv, TypeOK
  <2> QED BY <1>2, <2>1 DEF handleNext, TypeInv, TypeOK, checking, otpStep, server
<1>3. CASE handlePrevious
  <2>1. currentStep' \in 1 .. 6 /\ currentStep' # 6
    BY <1>3 DEF handlePrevious, ShowsPrevious, TypeInv, TypeOK
  <2> QED BY <1>3, <2>1 DEF handlePrevious, TypeInv, TypeOK, checking, otpStep, server
<1>4. ASSUME NEW m \in inbox, TypeOtp(m)
      PROVE  TypeInv'
  <2>1. otpValue' \in 0 .. MaxOtp
    BY <1>4 DEF TypeOtp, TypeInv, TypeOK
  <2> QED BY <1>4, <2>1 DEF TypeOtp, TypeInv, TypeOK, form, checking, server
<1> QED BY <1>1, <1>2, <1>3, <1>4

\* The three clicks begin an execution at a known address.
LEMMA TypeClicks ==
    ASSUME TypeInv, NEW c \in Calls, handleSubmit(c) \/ handleVerifyOtp(c) \/ handleResendOtp(c)
    PROVE  TypeInv'
<1>0. call \in [Calls -> Call] /\ formData \in FormData /\ otpValue \in 0 .. MaxOtp
  BY DEF TypeInv, TypeOK
<1>1. CASE handleSubmit(c)
  <2>1. formData.email \in Emails
    BY <1>0, <1>1 DEF handleSubmit, FormData, Addresses
  <2>2. Begin(c, "submit", "store", formData.email, 0) /\ isSubmitting' = TRUE
    BY <1>1 DEF handleSubmit, Begin
  <2>3. "store" \in Pcs /\ 0 \in 0 .. MaxOtp
    BY <1>0 DEF Pcs
  <2>4. call' \in [Calls -> Call]
    BY <1>0, <2>1, <2>2, <2>3, BeginType
  <2> QED BY <1>1, <2>2, <2>4 DEF handleSubmit, TypeInv, TypeOK, form, checking, otpStep, server
<1>2. CASE handleVerifyOtp(c)
  <2>1. otpAddress \in Emails
    BY <1>2 DEF handleVerifyOtp, otpAddress, TypeInv
  <2>2. Begin(c, "verify", "compare", otpAddress, otpValue) /\ isSubmitting' = TRUE
    BY <1>2 DEF handleVerifyOtp, Begin
  <2>3. "compare" \in Pcs /\ otpValue \in 0 .. MaxOtp
    BY <1>0 DEF Pcs
  <2>4. call' \in [Calls -> Call]
    BY <1>0, <2>1, <2>2, <2>3, BeginType
  <2> QED BY <1>2, <2>2, <2>4 DEF handleVerifyOtp, TypeInv, TypeOK, form, checking, otpStep, server
<1>3. CASE handleResendOtp(c)
  <2>1. otpAddress \in Emails
    BY <1>3 DEF handleResendOtp, otpAddress, TypeInv
  <2>2. Begin(c, "resend", "store", otpAddress, 0) /\ isSubmitting' = TRUE
    BY <1>3 DEF handleResendOtp, Begin
  <2>3. "store" \in Pcs /\ 0 \in 0 .. MaxOtp
    BY <1>0 DEF Pcs
  <2>4. call' \in [Calls -> Call]
    BY <1>0, <2>1, <2>2, <2>3, BeginType
  <2> QED BY <1>3, <2>2, <2>4 DEF handleResendOtp, TypeInv, TypeOK, form, checking, otpStep, server
<1> QED BY <1>1, <1>2, <1>3

\* What a step of the server moves.
LEMMA ServerMoves ==
    ASSUME TypeInv, NEW c \in Calls
    PROVE  /\ RequestFails(c) => MovesTo(c, "answer", FALSE)
           /\ StoreOtp(c) => MovesTo(c, "mail", call[c].ok)
           /\ MailOtp(c) => MovesTo(c, "answer", TRUE)
           /\ CompareOtp(c) => MovesTo(c, "consume", call[c].ok) \/ MovesTo(c, "answer", FALSE)
           /\ ConsumeOtp(c) => MovesTo(c, "register", call[c].ok)
           /\ persistRegistration(c) =>
                  \/ MovesTo(c, "answer", FALSE) /\ UNCHANGED users
                  \/ MovesTo(c, "answer", TRUE) /\ Stored'
           /\ LoseAnswer(c) => MovesTo(c, "answer", FALSE)
<1>0. call \in [Calls -> Call] /\ nextOtp \in 1 .. MaxOtp + 1
  BY DEF TypeInv, TypeOK
<1>1. RequestFails(c) => MovesTo(c, "answer", FALSE)
  BY <1>0, AnswerMoves DEF RequestFails
<1>2. StoreOtp(c) => MovesTo(c, "mail", call[c].ok)
  BY <1>0, StoreMoves
<1>3. MailOtp(c) => MovesTo(c, "answer", TRUE)
  BY <1>0, AnswerMoves DEF MailOtp, atServer
<1>4. CompareOtp(c) => MovesTo(c, "consume", call[c].ok) \/ MovesTo(c, "answer", FALSE)
  BY <1>0, GotoMoves, AnswerMoves DEF CompareOtp, atServer, Pcs
<1>5. ConsumeOtp(c) => MovesTo(c, "register", call[c].ok)
  BY <1>0, GotoMoves DEF ConsumeOtp, atServer, Pcs
<1>6. ASSUME persistRegistration(c)
      PROVE  \/ MovesTo(c, "answer", FALSE) /\ UNCHANGED users
             \/ MovesTo(c, "answer", TRUE) /\ Stored'
  <2>1. call[c] # Idle
    BY <1>6 DEF persistRegistration, atServer
  <2>2. CASE Answer(c, FALSE) /\ UNCHANGED users
    BY <1>0, <2>1, <2>2, AnswerMoves
  <2>3. CASE /\ users' = users \cup {[email |-> call[c].form.email, by |-> "tab", proven |-> call[c].email,
                                     ready |-> call[c].form.ready, termsAccepted |-> call[c].form.termsAccepted]}
             /\ Answer(c, TRUE)
    <3>1. MovesTo(c, "answer", TRUE)
      BY <1>0, <2>1, <2>3, AnswerMoves
    <3> DEFINE u == [email |-> call[c].form.email, by |-> "tab", proven |-> call[c].email,
                     ready |-> call[c].form.ready, termsAccepted |-> call[c].form.termsAccepted]
    <3>2. u \in users' /\ u.by = "tab"
      BY <2>3
    <3> HIDE DEF u
    <3>3. Stored'
      BY <3>2 DEF Stored
    <3> QED BY <3>1, <3>3
  <2> QED BY <1>6, <2>2, <2>3 DEF persistRegistration
<1>7. LoseAnswer(c) => MovesTo(c, "answer", FALSE)
  BY <1>0, AnswerMoves DEF LoseAnswer, atServer
<1> QED BY <1>1, <1>2, <1>3, <1>4, <1>5, <1>6, <1>7

LEMMA TypeServer ==
    ASSUME TypeInv, NEW c \in Calls,
           \/ RequestFails(c) \/ StoreOtp(c) \/ MailOtp(c) \/ CompareOtp(c) \/ ConsumeOtp(c)
           \/ persistRegistration(c) \/ LoseAnswer(c)
    PROVE  TypeInv'
<1>0. /\ call \in [Calls -> Call] /\ otpKey \in [Emails -> 0 .. MaxOtp] /\ nextOtp \in 1 .. MaxOtp + 1
      /\ inbox \subseteq Emails \X (0 .. MaxOtp) /\ users \subseteq User
  BY DEF TypeInv, TypeOK
<1>1. call' \in [Calls -> Call]
  BY ServerMoves DEF MovesTo
<1>2. call[c] # Idle => call[c] \in Running
  BY <1>0, CallIsRunning
<1>3. CASE RequestFails(c) \/ CompareOtp(c) \/ LoseAnswer(c)
  BY <1>1, <1>3 DEF RequestFails, CompareOtp, LoseAnswer, page, form, checking, otpStep, server, TypeInv, TypeOK
<1>4. CASE StoreOtp(c)
  <2>1. call[c].email \in Emails /\ nextOtp \in 0 .. MaxOtp /\ nextOtp + 1 \in 1 .. MaxOtp + 1
    BY <1>0, <1>2, <1>4 DEF StoreOtp, atServer, Running
  <2>2. otpKey' \in [Emails -> 0 .. MaxOtp] /\ nextOtp' \in 1 .. MaxOtp + 1
    BY <1>0, <1>4, <2>1 DEF StoreOtp
  <2> QED BY <1>1, <1>4, <2>2 DEF StoreOtp, page, form, checking, otpStep, TypeInv, TypeOK
<1>5. CASE MailOtp(c)
  <2>1. call[c].email \in Emails /\ call[c].otp \in 0 .. MaxOtp
    BY <1>0, <1>2, <1>5 DEF MailOtp, atServer, Running
  <2>2. inbox' \subseteq Emails \X (0 .. MaxOtp)
    BY <1>0, <1>5, <2>1 DEF MailOtp
  <2> QED BY <1>1, <1>5, <2>2 DEF MailOtp, page, form, checking, otpStep, TypeInv, TypeOK
<1>6. CASE ConsumeOtp(c)
  <2>1. otpKey' \in [Emails -> 0 .. MaxOtp]
    BY <1>0, <1>6 DEF ConsumeOtp
  <2> QED BY <1>1, <1>6, <2>1 DEF ConsumeOtp, page, form, checking, otpStep, TypeInv, TypeOK
<1>7. CASE persistRegistration(c)
  <2>1. call[c].email \in Emails /\ call[c].form \in FormData
    BY <1>2, <1>7 DEF persistRegistration, atServer, Running
  <2>2. CASE UNCHANGED users
    BY <1>1, <1>7, <2>2 DEF persistRegistration, page, form, checking, otpStep, TypeInv, TypeOK
  <2>3. CASE /\ call[c].form.email # NoEmail
             /\ users' = users \cup {[email |-> call[c].form.email, by |-> "tab", proven |-> call[c].email,
                                     ready |-> call[c].form.ready, termsAccepted |-> call[c].form.termsAccepted]}
    <3>1. users' \subseteq User
      BY <1>0, <2>1, <2>3 DEF User, FormData, Addresses
    <3> QED BY <1>1, <1>7, <3>1 DEF persistRegistration, page, form, checking, otpStep, TypeInv, TypeOK
  <2> QED BY <1>7, <2>2, <2>3 DEF persistRegistration
<1> QED BY <1>3, <1>4, <1>5, <1>6, <1>7

\* What other people and the TTL do.
LEMMA TypeElsewhere ==
    ASSUME TypeInv, NEW e \in Emails, ExpireOtp(e) \/ OtherAccount(e)
    PROVE  TypeInv'
<1>1. CASE ExpireOtp(e)
  <2>1. otpKey' \in [Emails -> 0 .. MaxOtp]
    BY <1>1 DEF ExpireOtp, TypeInv, TypeOK
  <2> QED BY <1>1, <2>1 DEF ExpireOtp, page, form, checking, otpStep, TypeInv, TypeOK
<1>2. CASE OtherAccount(e)
  <2>1. [email |-> e, by |-> "other", proven |-> e, ready |-> Groups, termsAccepted |-> TRUE] \in User
    BY DEF User, Addresses
  <2>2. users' \subseteq User
    BY <1>2, <2>1 DEF OtherAccount, TypeInv, TypeOK
  <2> QED BY <1>2, <2>2 DEF OtherAccount, page, form, checking, otpStep, TypeInv, TypeOK
<1> QED BY <1>1, <1>2

\* The end of an execution.
LEMMA TypeEnds ==
    ASSUME TypeInv, NEW c \in Calls, SubmitEnds(c) \/ ResendEnds(c) \/ VerifyEnds(c)
    PROVE  TypeInv'
<1>0. call \in [Calls -> Call]
  BY DEF TypeInv, TypeOK
<1>1. Finish(c) /\ call[c] # Idle
  BY DEF SubmitEnds, ResendEnds, VerifyEnds, atServer
<1>2. call' \in [Calls -> Call] /\ isSubmitting' = FALSE
  BY <1>0, <1>1, CallIsRunning DEF Finish
<1>3. call[c].email \in Emails /\ call[c].ok \in BOOLEAN
  BY <1>0, <1>1, CallIsRunning DEF Running
<1>4. CASE SubmitEnds(c)
  <2>1. /\ currentStep' \in 1 .. 6 /\ otpSentTo' \in Addresses /\ otpValue' \in 0 .. MaxOtp /\ otpVerified' \in BOOLEAN
        /\ currentStep' = 6 => otpSentTo' \in Emails
    <3>1. CASE call[c].ok
      <4>1. otpSentTo' = call[c].email /\ otpValue' = 0 /\ otpVerified' = FALSE /\ currentStep' = 6
        BY <1>4, <3>1 DEF SubmitEnds
      <4>2. 0 \in 0 .. MaxOtp
        BY DEF WizardInputs
      <4>3. otpVerified' \in BOOLEAN
        BY <4>1
      <4>4. otpSentTo' \in Emails /\ otpSentTo' \in Addresses
        BY <1>3, <4>1 DEF Addresses
      <4> QED BY <4>1, <4>2, <4>3, <4>4
    <3>2. CASE ~call[c].ok
      BY <1>4, <3>2 DEF SubmitEnds, otpStep, TypeInv, TypeOK
    <3> QED BY <3>1, <3>2
  <2> QED BY <1>1, <1>2, <2>1 DEF Finish, TypeInv, TypeOK, checking, server
<1>5. CASE ResendEnds(c)
  <2>1. UNCHANGED <<otpSentTo, otpVerified, currentStep>> /\ otpValue' \in 0 .. MaxOtp
    BY <1>5 DEF ResendEnds, TypeInv, TypeOK
  <2> QED BY <1>1, <1>2, <2>1 DEF Finish, TypeInv, TypeOK, checking, server
<1>6. CASE VerifyEnds(c)
  <2>1. UNCHANGED <<otpSentTo, otpValue, currentStep>> /\ otpVerified' \in BOOLEAN
    BY <1>3, <1>6 DEF VerifyEnds
  <2> QED BY <1>1, <1>2, <2>1 DEF Finish, TypeInv, TypeOK, checking, server
<1> QED BY <1>4, <1>5, <1>6

\* The states of the wizard are well typed.
LEMMA TypeInvariant == Spec => []TypeInv
<1>1. Init => TypeInv
  <2>1. Init => formData \in FormData /\ call \in [Calls -> Call]
    BY DEF Init, FormData, Addresses, Call
  <2>2. 0 \in 0 .. MaxOtp /\ 0 \in 0 .. MaxEdits /\ 1 \in 1 .. MaxOtp + 1
    BY DEF WizardInputs
  <2>3. Init => otpKey \in [Emails -> 0 .. MaxOtp]
    BY <2>2 DEF Init
  <2>4. Init => otpVerified \in BOOLEAN /\ isSubmitting \in BOOLEAN /\ lost \in BOOLEAN /\ resent \in BOOLEAN
    BY DEF Init
  <2> QED BY <2>1, <2>2, <2>3, <2>4 DEF Init, TypeInv, TypeOK, Addresses
<1>2. TypeInv /\ [Next]_vars => TypeInv'
  <2> SUFFICES ASSUME TypeInv, [Next]_vars PROVE TypeInv'
    OBVIOUS
  <2>1. CASE UNCHANGED vars
    BY <2>1 DEF TypeInv, TypeOK, vars, form, checking, otpStep, server
  <2>2. CASE Next
    <3>1. ASSUME NEW c \in Calls, CallStep(c) PROVE TypeInv'
      BY <3>1, TypeServer, TypeEnds DEF CallStep
    <3> QED BY <2>2, <3>1, TypePage, TypeEdits, TypeScans, TypeElsewhere, TypeClicks DEF Next
  <2> QED BY <2>1, <2>2
<1> QED BY <1>1, <1>2, PTL DEF Spec

\* The types of the wizard's and the server's state hold in every state: no handler,
\* scan or check, whenever it answers, leaves a value of another kind behind.
THEOREM WizardTyped == Spec => []TypeOK
<1>1. TypeInv => TypeOK
  BY DEF TypeInv
<1> QED BY <1>1, TypeInvariant, PTL

-----------------------------------------------------------------------------
(* The handlers and the account: WizardInv. *)

\* A step on the server: execution c goes on to another endpoint or to its answer.
\* Only the INSERT stores, and only the loss of an answer drops a success.
LEMMA ServerKeeps ==
    ASSUME WizardInv, NEW c \in Calls, call[c] # Idle, NEW pc, NEW ok, MovesTo(c, pc, ok),
           UNCHANGED <<currentStep, otpVerified, isSubmitting, resent>>,
           lost => lost',
           pc \in {"store", "mail"} => call[c].op # "verify",
           pc \in {"compare", "consume", "register"} => call[c].op = "verify",
           Stored => Stored',
           Stored' => Stored \/ (Runs(c, "verify") /\ pc = "answer" /\ ok),
           Runs(c, "verify") /\ pc = "answer" /\ ok => Stored',
           BringsSuccess(c) => lost'
    PROVE  WizardInv'
<1>1. /\ \A d \in Calls : call'[d] = Idle <=> call[d] = Idle
      /\ \A d \in Calls : \A op : Runs(d, op)' <=> Runs(d, op)
      /\ \A d \in Calls \ {c} : BringsSuccess(d)' <=> BringsSuccess(d)
      /\ BringsSuccess(c)' <=> Runs(c, "verify") /\ pc = "answer" /\ ok
  BY DEF MovesTo, Runs, BringsSuccess
<1>2. EndpointsOf'
  BY DEF EndpointsOf, MovesTo, WizardInv
<1>3. OneHandler'
  BY <1>1 DEF OneHandler, WizardInv
<1>4. OtpStepStays'
  <2>1. Stored' => currentStep' = 6
    BY DEF OtpStepStays, WizardInv
  <2>2. ASSUME NEW d \in Calls
        PROVE  /\ Runs(d, "verify")' => currentStep' = 6
               /\ ~resent' /\ Runs(d, "submit")' => currentStep' # 6
    BY <1>1 DEF OtpStepStays, WizardInv
  <2> QED BY <2>1, <2>2 DEF OtpStepStays
<1>5. SuccessIsStored'
  BY <1>1 DEF SuccessIsStored, WizardInv
<1>6. SuccessArrives'
  <2>1. ASSUME ~resent', NEW d \in Calls, Runs(d, "verify")'
        PROVE  ~otpVerified'
    BY <1>1, <2>1 DEF SuccessArrives, WizardInv
  <2>2. ASSUME ~resent', Stored'
        PROVE  otpVerified' \/ lost' \/ \E d \in Calls : BringsSuccess(d)'
    BY <1>1, <2>2 DEF SuccessArrives, WizardInv
  <2> QED BY <2>1, <2>2 DEF SuccessArrives
<1> QED BY <1>2, <1>3, <1>4, <1>5, <1>6 DEF WizardInv

\* What does not touch the executions, the wizard's table row or the OTP step.
LEMMA QuietKeeps ==
    ASSUME WizardInv, UNCHANGED <<call, otpVerified, isSubmitting, lost, resent>>,
           Stored' <=> Stored, currentStep' = 6 <=> currentStep = 6
    PROVE  WizardInv'
<1>1. /\ \A d, op : Runs(d, op)' <=> Runs(d, op)
      /\ \A d : BringsSuccess(d)' <=> BringsSuccess(d)
  BY DEF Runs, BringsSuccess
<1>2. EndpointsOf' /\ OneHandler'
  BY DEF EndpointsOf, OneHandler, WizardInv
<1>3. OtpStepStays'
  BY <1>1 DEF OtpStepStays, WizardInv
<1>4. SuccessIsStored' /\ SuccessArrives'
  BY <1>1 DEF SuccessIsStored, SuccessArrives, WizardInv
<1> QED BY <1>2, <1>3, <1>4 DEF WizardInv

\* A click: execution c begins, and unless it is a submit of the OTP step no other runs.
LEMMA ClickKeeps ==
    ASSUME WizardInv, NEW c \in Calls, NEW op, NEW pc,
           call[c] = Idle, call'[c] # Idle, call'[c].op = op, call'[c].pc = pc,
           \A d \in Calls \ {c} : call'[d] = call[d],
           isSubmitting',
           resent => resent', ~resent' => ~isSubmitting,
           op = "verify" => currentStep = 6 /\ ~otpVerified,
           op = "submit" /\ currentStep = 6 => resent',
           pc = (IF op = "verify" THEN "compare" ELSE "store"),
           UNCHANGED <<currentStep, otpVerified, lost, users>>
    PROVE  WizardInv'
<1>1. /\ \A o : Runs(c, o)' <=> op = o
      /\ \A d \in Calls \ {c} : \A o : Runs(d, o)' <=> Runs(d, o)
      /\ \A d \in Calls : BringsSuccess(d)' <=> BringsSuccess(d)
      /\ Stored' <=> Stored
  BY DEF Runs, BringsSuccess, Stored
<1>2. ~resent' => ~resent /\ \A d \in Calls : call[d] = Idle
  BY DEF OneHandler, WizardInv
<1>3. EndpointsOf'
  BY DEF EndpointsOf, WizardInv
<1>4. OneHandler'
  BY <1>2 DEF OneHandler
<1>5. OtpStepStays'
  <2>1. ASSUME NEW d \in Calls
        PROVE  /\ Runs(d, "verify")' => currentStep' = 6
               /\ ~resent' /\ Runs(d, "submit")' => currentStep' # 6
    BY <1>1, <1>2 DEF OtpStepStays, WizardInv, Runs
  <2> QED BY <1>1, <2>1 DEF OtpStepStays, WizardInv
<1>6. SuccessIsStored'
  BY <1>1 DEF SuccessIsStored, WizardInv
<1>7. SuccessArrives'
  <2>1. ASSUME ~resent', NEW d \in Calls, Runs(d, "verify")'
        PROVE  ~otpVerified'
    BY <1>1, <1>2, <2>1 DEF Runs
  <2>2. ASSUME ~resent', Stored'
        PROVE  otpVerified' \/ lost' \/ \E d \in Calls : BringsSuccess(d)'
    BY <1>1, <1>2, <2>2 DEF SuccessArrives, WizardInv
  <2> QED BY <2>1, <2>2 DEF SuccessArrives
<1> QED BY <1>3, <1>4, <1>5, <1>6, <1>7 DEF WizardInv

\* An execution ends: the OTP step is shown after a submit, the outcome after a verify.
LEMMA EndKeeps ==
    ASSUME WizardInv, call \in [Calls -> Call], NEW c \in Calls, SubmitEnds(c) \/ ResendEnds(c) \/ VerifyEnds(c)
    PROVE  WizardInv'
<1>0. Finish(c) /\ call[c] # Idle /\ call[c].pc = "answer"
  BY DEF SubmitEnds, ResendEnds, VerifyEnds, atServer
<1>1. /\ call'[c] = Idle
      /\ \A d \in Calls \ {c} : call'[d] = call[d]
      /\ ~isSubmitting' /\ UNCHANGED <<lost, resent>> /\ (Stored' <=> Stored)
  BY <1>0 DEF Finish, server, Stored
<1>2. /\ \A o : ~Runs(c, o)'
      /\ ~BringsSuccess(c)'
      /\ \A d \in Calls \ {c} : \A o : Runs(d, o)' <=> Runs(d, o)
      /\ \A d \in Calls \ {c} : BringsSuccess(d)' <=> BringsSuccess(d)
  BY <1>1 DEF Runs, BringsSuccess
<1>3. ~resent => \A d \in Calls \ {c} : call[d] = Idle
  BY <1>0 DEF OneHandler, WizardInv
<1>4. EndpointsOf'
  BY <1>1 DEF EndpointsOf, WizardInv
<1>5. OneHandler'
  BY <1>1, <1>3 DEF OneHandler
<1>6. currentStep = 6 => currentStep' = 6
  BY DEF SubmitEnds, ResendEnds, VerifyEnds
<1>7. OtpStepStays'
  <2>1. ASSUME NEW d \in Calls
        PROVE  /\ Runs(d, "verify")' => currentStep' = 6
               /\ ~resent' /\ Runs(d, "submit")' => currentStep' # 6
    BY <1>1, <1>2, <1>3, <1>6 DEF OtpStepStays, WizardInv, Runs
  <2> QED BY <1>1, <1>6, <2>1 DEF OtpStepStays, WizardInv
<1>8. otpVerified' => Stored
  <2>1. CASE SubmitEnds(c)
    BY <2>1 DEF SubmitEnds, otpStep, SuccessIsStored, WizardInv
  <2>2. CASE ResendEnds(c)
    BY <2>2 DEF ResendEnds, SuccessIsStored, WizardInv
  <2>3. CASE VerifyEnds(c)
    BY <1>0, <2>3 DEF VerifyEnds, SuccessIsStored, WizardInv, BringsSuccess, Runs
  <2> QED BY <2>1, <2>2, <2>3
<1>9. SuccessIsStored'
  BY <1>1, <1>2, <1>8 DEF SuccessIsStored, WizardInv
<1>10. ASSUME ~resent, Stored
       PROVE  otpVerified' \/ lost
  <2>1. currentStep = 6
    BY <1>10 DEF OtpStepStays, WizardInv
  <2>2. ~SubmitEnds(c)
    BY <1>0, <1>10, <2>1 DEF SubmitEnds, OtpStepStays, WizardInv, Runs
  <2>3. otpVerified \/ lost \/ BringsSuccess(c)
    BY <1>3, <1>10 DEF SuccessArrives, WizardInv, BringsSuccess, Runs
  <2>4. CASE ResendEnds(c)
    BY <2>3, <2>4 DEF ResendEnds, BringsSuccess, Runs
  <2>5. CASE VerifyEnds(c)
    <3>1. ~otpVerified
      BY <1>0, <1>10, <2>5 DEF VerifyEnds, SuccessArrives, WizardInv, Runs
    <3> QED BY <2>3, <2>5, <3>1 DEF VerifyEnds, BringsSuccess
  <2> QED BY <2>2, <2>4, <2>5
<1>11. SuccessArrives'
  BY <1>1, <1>2, <1>3, <1>10 DEF SuccessArrives, Runs
<1> QED BY <1>4, <1>5, <1>7, <1>9, <1>11 DEF WizardInv

LEMMA WizardInvInit == Init => WizardInv
<1> SUFFICES ASSUME Init PROVE WizardInv
  OBVIOUS
<1>1. ~otpVerified /\ ~isSubmitting /\ ~Stored /\ \A c \in Calls : call[c] = Idle
  BY DEF Init, Stored
<1> QED BY <1>1 DEF WizardInv, EndpointsOf, OneHandler, OtpStepStays, SuccessIsStored, SuccessArrives, Runs, BringsSuccess

LEMMA ServerStepKeeps ==
    ASSUME TypeInv, WizardInv, NEW c \in Calls,
           \/ RequestFails(c) \/ StoreOtp(c) \/ MailOtp(c) \/ CompareOtp(c) \/ ConsumeOtp(c)
           \/ persistRegistration(c) \/ LoseAnswer(c)
    PROVE  WizardInv'
<1> DEFINE Around == UNCHANGED <<currentStep, otpVerified, isSubmitting, resent>>
<1>0. /\ UNCHANGED users => (Stored' <=> Stored)
      /\ call[c] # Idle
      /\ Around
  BY DEF Stored, RequestFails, StoreOtp, MailOtp, CompareOtp, ConsumeOtp, persistRegistration, LoseAnswer,
         atServer, page, form, otpStep
<1>1. CASE RequestFails(c)
  <2>1. MovesTo(c, "answer", FALSE) /\ ~BringsSuccess(c) /\ UNCHANGED <<users, lost>>
    BY <1>1, ServerMoves DEF RequestFails, BringsSuccess, server
  <2> QED BY <1>0, <2>1, ServerKeeps
<1>2. CASE StoreOtp(c)
  <2>1. /\ MovesTo(c, "mail", call[c].ok) /\ call[c].op # "verify" /\ ~BringsSuccess(c)
        /\ UNCHANGED <<users, lost>>
    BY <1>0, <1>2, ServerMoves DEF StoreOtp, BringsSuccess, atServer, EndpointsOf, WizardInv
  <2> QED BY <1>0, <2>1, ServerKeeps
<1>3. CASE MailOtp(c)
  <2>1. /\ MovesTo(c, "answer", TRUE) /\ ~Runs(c, "verify") /\ ~BringsSuccess(c)
        /\ UNCHANGED <<users, lost>>
    BY <1>0, <1>3, ServerMoves DEF MailOtp, BringsSuccess, Runs, atServer, EndpointsOf, WizardInv
  <2> QED BY <1>0, <2>1, ServerKeeps
<1>4. CASE CompareOtp(c)
  <2>1. /\ MovesTo(c, "consume", call[c].ok) \/ MovesTo(c, "answer", FALSE)
        /\ call[c].op = "verify" /\ ~BringsSuccess(c) /\ UNCHANGED <<users, lost>>
    BY <1>0, <1>4, ServerMoves DEF CompareOtp, BringsSuccess, atServer, EndpointsOf, WizardInv, server
  <2> QED BY <1>0, <2>1, ServerKeeps
<1>5. CASE ConsumeOtp(c)
  <2>1. /\ MovesTo(c, "register", call[c].ok)
        /\ call[c].op = "verify" /\ ~BringsSuccess(c) /\ UNCHANGED <<users, lost>>
    BY <1>0, <1>5, ServerMoves DEF ConsumeOtp, BringsSuccess, atServer, EndpointsOf, WizardInv
  <2> QED BY <1>0, <2>1, ServerKeeps
<1>6. CASE persistRegistration(c)
  <2>1. call[c].op = "verify" /\ Runs(c, "verify") /\ ~BringsSuccess(c) /\ UNCHANGED lost
    BY <1>0, <1>6 DEF persistRegistration, BringsSuccess, Runs, atServer, EndpointsOf, WizardInv
  <2>2. CASE MovesTo(c, "answer", FALSE) /\ UNCHANGED users
    BY <1>0, <2>1, <2>2, ServerKeeps
  <2>3. CASE MovesTo(c, "answer", TRUE) /\ Stored'
    BY <1>0, <2>1, <2>3, ServerKeeps
  <2> QED BY <1>6, <2>2, <2>3, ServerMoves
<1>7. CASE LoseAnswer(c)
  <2>1. MovesTo(c, "answer", FALSE) /\ lost' /\ UNCHANGED users
    BY <1>7, ServerMoves DEF LoseAnswer, server
  <2> QED BY <1>0, <2>1, ServerKeeps
<1> QED BY <1>1, <1>2, <1>3, <1>4, <1>5, <1>6, <1>7

LEMMA ClickStepKeeps ==
    ASSUME TypeInv, WizardInv, NEW c \in Calls, handleSubmit(c) \/ handleVerifyOtp(c) \/ handleResendOtp(c)
    PROVE  WizardInv'
<1>0. call \in [Calls -> Call] /\ formData \in FormData /\ otpValue \in 0 .. MaxOtp /\ 0 \in 0 .. MaxOtp
      /\ "store" \in Pcs /\ "compare" \in Pcs
  BY DEF TypeInv, TypeOK, Pcs, WizardInputs
<1>1. CASE handleSubmit(c)
  <2>1. formData.email \in Emails /\ Begin(c, "submit", "store", formData.email, 0)
    BY <1>0, <1>1 DEF handleSubmit, FormData, Addresses
  <2>2. /\ call[c] = Idle /\ call'[c] # Idle /\ call'[c].op = "submit" /\ call'[c].pc = "store"
        /\ isSubmitting' /\ \A d \in Calls \ {c} : call'[d] = call[d]
    BY <1>0, <2>1, BeginType
  <2>3. /\ resent => resent'
        /\ ~resent' => ~isSubmitting
        /\ currentStep = 6 => resent'
        /\ UNCHANGED <<currentStep, otpVerified, lost, users>>
    BY <1>1 DEF handleSubmit, form, otpStep, server
  <2> QED BY <2>2, <2>3, ClickKeeps
<1>2. CASE handleVerifyOtp(c)
  <2>1. otpAddress \in Emails /\ Begin(c, "verify", "compare", otpAddress, otpValue)
    BY <1>2 DEF handleVerifyOtp, otpAddress, TypeInv
  <2>2. /\ call[c] = Idle /\ call'[c] # Idle /\ call'[c].op = "verify" /\ call'[c].pc = "compare"
        /\ isSubmitting' /\ \A d \in Calls \ {c} : call'[d] = call[d]
    BY <1>0, <2>1, BeginType
  <2>3. /\ currentStep = 6 /\ ~otpVerified /\ ~isSubmitting
        /\ UNCHANGED <<currentStep, otpVerified, lost, resent, users>>
    BY <1>2 DEF handleVerifyOtp, CanVerify, form, otpStep, server
  <2> QED BY <2>2, <2>3, ClickKeeps
<1>3. CASE handleResendOtp(c)
  <2>1. otpAddress \in Emails /\ Begin(c, "resend", "store", otpAddress, 0)
    BY <1>3 DEF handleResendOtp, otpAddress, TypeInv
  <2>2. /\ call[c] = Idle /\ call'[c] # Idle /\ call'[c].op = "resend" /\ call'[c].pc = "store"
        /\ isSubmitting' /\ \A d \in Calls \ {c} : call'[d] = call[d]
    BY <1>0, <2>1, BeginType
  <2>3. ~isSubmitting /\ UNCHANGED <<currentStep, otpVerified, lost, resent, users>>
    BY <1>3 DEF handleResendOtp, form, otpStep, server
  <2> QED BY <2>2, <2>3, ClickKeeps
<1> QED BY <1>1, <1>2, <1>3

\* Editing, scanning, checking, moving between the first five steps, other accounts
\* and expiry.
LEMMA OtherStepKeeps ==
    ASSUME TypeInv, WizardInv,
           \/ \E k \in checks : EmailCheckAnswers(k)
           \/ \E e \in Addresses : EditEmail(e) \/ EditConfirmEmail(e)
           \/ EditProfile \/ EditInstitution \/ EditDisability
           \/ AcceptTerms
           \/ StartPdfScan \/ StartStudentScan \/ \E k \in Scans : ScanFails(k)
           \/ PdfScanAnswers
           \/ \E e \in Emails \cup {formData.email} : StudentScanAnswers(e)
           \/ handleNext \/ handlePrevious
           \/ \E m \in inbox : TypeOtp(m)
           \/ \E e \in Emails : ExpireOtp(e) \/ OtherAccount(e)
    PROVE  WizardInv'
<1> DEFINE Quiet == UNCHANGED <<call, otpVerified, isSubmitting, lost, resent>>
<1>0. /\ UNCHANGED users => (Stored' <=> Stored)
      /\ UNCHANGED currentStep => (currentStep' = 6 <=> currentStep = 6)
  BY DEF Stored
<1>1. ASSUME NEW k, EmailCheckAnswers(k) PROVE Quiet /\ UNCHANGED <<users, currentStep>>
  BY <1>1 DEF EmailCheckAnswers, form, otpStep, server
<1>2. ASSUME NEW e, EditEmail(e) \/ EditConfirmEmail(e) PROVE Quiet /\ UNCHANGED <<users, currentStep>>
  BY <1>2 DEF EditEmail, EditConfirmEmail, otpStep, server
<1>3. ASSUME NEW g, EditFields(g) PROVE Quiet /\ UNCHANGED <<users, currentStep>>
  BY <1>3 DEF EditFields, otpStep, server
<1>4. AcceptTerms => Quiet /\ UNCHANGED <<users, currentStep>>
  BY DEF AcceptTerms, otpStep, server
<1>5. ASSUME NEW k, StartScan(k) \/ ScanFails(k) PROVE Quiet /\ UNCHANGED <<users, currentStep>>
  BY <1>5 DEF StartScan, ScanFails, form, otpStep, server
<1>6. PdfScanAnswers => Quiet /\ UNCHANGED <<users, currentStep>>
  BY DEF PdfScanAnswers, otpStep, server
<1>7. ASSUME NEW e, StudentScanAnswers(e) PROVE Quiet /\ UNCHANGED <<users, currentStep>>
  BY <1>7 DEF StudentScanAnswers, otpStep, server
<1>8. handleNext \/ handlePrevious => Quiet /\ UNCHANGED users /\ (currentStep' = 6 <=> currentStep = 6)
  BY DEF handleNext, handlePrevious, ShowsPrevious, otpStep, server, TypeInv, TypeOK
<1>9. ASSUME NEW m, TypeOtp(m) PROVE Quiet /\ UNCHANGED <<users, currentStep>>
  BY <1>9 DEF TypeOtp, form, server
<1>10. ASSUME NEW e, ExpireOtp(e) PROVE Quiet /\ UNCHANGED <<users, currentStep>>
  BY <1>10 DEF ExpireOtp, page, form, otpStep
<1>11. ASSUME NEW e, OtherAccount(e) PROVE Quiet /\ UNCHANGED currentStep /\ (Stored' <=> Stored)
  BY <1>11 DEF OtherAccount, page, form, otpStep, Stored
<1>12. Quiet /\ (Stored' <=> Stored) /\ (currentStep' = 6 <=> currentStep = 6)
  <2> HIDE DEF Quiet
  <2> QED BY <1>0, <1>1, <1>2, <1>3, <1>4, <1>5, <1>6, <1>7, <1>8, <1>9, <1>10, <1>11
         DEF EditProfile, EditInstitution, EditDisability, StartPdfScan, StartStudentScan
<1> QED BY <1>12, QuietKeeps

\* The three properties of the handlers and the account rest on WizardInv.
LEMMA WizardInvariant == Spec => []WizardInv
<1>1. TypeInv /\ WizardInv /\ [Next]_vars => WizardInv'
  <2> SUFFICES ASSUME TypeInv, WizardInv, [Next]_vars PROVE WizardInv'
    OBVIOUS
  <2>1. CASE UNCHANGED vars
    <3>1. UNCHANGED <<call, otpVerified, isSubmitting, lost, resent, users, currentStep>>
      BY <2>1 DEF vars, form, otpStep, server
    <3>2. Stored' <=> Stored
      BY <3>1 DEF Stored
    <3> QED BY <3>1, <3>2, QuietKeeps
  <2>2. CASE Next
    <3>1. ASSUME NEW c \in Calls, CallStep(c) PROVE WizardInv'
      <4>1. call \in [Calls -> Call]
        BY DEF TypeInv, TypeOK
      <4> QED BY <3>1, <4>1, ServerStepKeeps, EndKeeps DEF CallStep
    <3> QED BY <2>2, <3>1, ClickStepKeeps, OtherStepKeeps DEF Next
  <2> QED BY <2>1, <2>2
<1> QED BY <1>1, WizardInvInit, TypeInvariant, PTL DEF Spec

\* "Registration complete" is shown only when this tab's handler stored an account:
\* whatever fails between the OTP and the INSERT, a late answer does not show it.
THEOREM CompleteIsTrue == Spec => []CompleteMeansStored
<1>1. WizardInv => CompleteMeansStored
  BY DEF WizardInv, SuccessIsStored, CompleteMeansStored, Stored
<1> QED BY <1>1, WizardInvariant, PTL

\* Once every handler has ended, an account the tab stored is shown as complete, unless
\* an answer was lost or the OTP step was submitted again by Enter.
THEOREM StoredBecomesShown == Spec => []StoredIsShown
<1>1. WizardInv => StoredIsShown
  BY DEF WizardInv, SuccessArrives, StoredIsShown, Stored, BringsSuccess, Runs
<1> QED BY <1>1, WizardInvariant, PTL

\* isSubmitting is set only while a handler runs, and, but for Enter on the OTP step,
\* no two handlers of a tab run at a time.
THEOREM HandlersExclude == Spec => []ButtonsMatchCalls
<1>1. WizardInv => ButtonsMatchCalls
  <2> SUFFICES ASSUME WizardInv PROVE ButtonsMatchCalls
    OBVIOUS
  <2> DEFINE running == {c \in Calls : call[c] # Idle}
  <2>1. isSubmitting => running # {}
    BY DEF WizardInv, OneHandler
  <2>2. ASSUME ~resent PROVE Cardinality(running) \in {0, 1}
    <3>1. CASE running = {}
      BY <3>1, FS_EmptySet
    <3>2. ASSUME NEW c \in running PROVE Cardinality(running) \in {0, 1}
      <4>1. running = {c}
        BY <2>2 DEF WizardInv, OneHandler
      <4> HIDE DEF running
      <4>2. Cardinality({c}) = 1
        BY FS_Singleton
      <4> QED BY <4>1, <4>2
    <3> HIDE DEF running
    <3> QED BY <3>1, <3>2
  <2> QED BY <2>1, <2>2 DEF ButtonsMatchCalls
<1> QED BY <1>1, WizardInvariant, PTL

-----------------------------------------------------------------------------
(* The e-mail check. *)

\* A check that was not cancelled is about the address in the form.
ChecksAreCurrent == \A k \in checks : ~k.aborted => k.email = formData.email

VerdictInv == ChecksAreCurrent /\ VerdictIsCurrent

LEMMA AbortedFlag == ASSUME TypeInv PROVE \A k \in Aborted(checks) : k.aborted
<1>1. \A k \in checks : [k EXCEPT !.aborted = TRUE].aborted
  BY DEF TypeInv, TypeOK, Check
<1> QED BY <1>1 DEF Aborted

\* The effect cancels the checks of the address before and starts one, or forgets the verdict.
LEMMA ChangeKeepsVerdict ==
    ASSUME TypeInv, VerdictInv, NEW e, EmailBecomes(e), formData'.email = e
    PROVE  VerdictInv'
<1>1. CASE e = formData.email
  BY <1>1 DEF EmailBecomes, checking, VerdictInv, ChecksAreCurrent, VerdictIsCurrent, emailCheckLoading
<1>2. CASE e # formData.email /\ e = NoEmail
  <2>1. checks' = Aborted(checks) /\ serverEmailTaken' = "unknown"
    BY <1>2 DEF EmailBecomes
  <2>2. \A k \in checks' : k.aborted
    BY <2>1, AbortedFlag
  <2>3. ChecksAreCurrent'
    BY <2>2 DEF ChecksAreCurrent
  <2>4. VerdictIsCurrent'
    BY <2>1 DEF VerdictIsCurrent
  <2> QED BY <2>3, <2>4 DEF VerdictInv
<1>3. CASE e # formData.email /\ e # NoEmail
  <2> DEFINE new == [email |-> e, aborted |-> FALSE]
  <2>1. checks' = Aborted(checks) \cup {new}
    BY <1>3 DEF EmailBecomes
  <2>2. \A k \in Aborted(checks) : k.aborted
    BY AbortedFlag
  <2>3. new.email = e /\ ~new.aborted
    OBVIOUS
  <2> HIDE DEF new
  <2>4. ChecksAreCurrent' /\ emailCheckLoading'
    BY <2>1, <2>2, <2>3 DEF ChecksAreCurrent, emailCheckLoading
  <2> QED BY <2>4 DEF VerdictInv, VerdictIsCurrent
<1> QED BY <1>1, <1>2, <1>3

\* An answer is used only when its check was not cancelled.
LEMMA AnswerKeepsVerdict ==
    ASSUME VerdictInv, NEW k \in checks, EmailCheckAnswers(k)
    PROVE  VerdictInv'
<1>1. ChecksAreCurrent'
  BY DEF EmailCheckAnswers, form, VerdictInv, ChecksAreCurrent
<1>2. CASE k.aborted
  <2>1. emailCheckLoading' <=> emailCheckLoading
    BY <1>2 DEF EmailCheckAnswers, emailCheckLoading
  <2> QED BY <1>1, <1>2, <2>1 DEF EmailCheckAnswers, form, VerdictInv, VerdictIsCurrent
<1>3. CASE ~k.aborted
  BY <1>1, <1>3 DEF EmailCheckAnswers, form, VerdictInv, ChecksAreCurrent, VerdictIsCurrent
<1> QED BY <1>2, <1>3

LEMMA OthersKeepVerdict ==
    ASSUME VerdictInv, UNCHANGED checking, formData'.email = formData.email
    PROVE  VerdictInv'
  BY DEF checking, VerdictInv, ChecksAreCurrent, VerdictIsCurrent, emailCheckLoading

\* When no check is pending, the verdict the page acts on is about the address in the
\* form: the answers of cancelled checks are dropped, in whatever order they come.
THEOREM VerdictStaysCurrent == Spec => []VerdictIsCurrent
<1>1. Init => VerdictInv
  BY DEF Init, VerdictInv, ChecksAreCurrent, VerdictIsCurrent
<1>2. TypeInv /\ VerdictInv /\ [Next]_vars => VerdictInv'
  <2> SUFFICES ASSUME TypeInv, VerdictInv, [Next]_vars PROVE VerdictInv'
    OBVIOUS
  <2> DEFINE Kept == UNCHANGED checking /\ formData'.email = formData.email
  <2>0. formData \in FormData
    BY DEF TypeInv, TypeOK
  <2>1. CASE UNCHANGED vars
    BY <2>1, OthersKeepVerdict DEF vars, form
  <2>2. ASSUME NEW e, EditEmail(e) PROVE VerdictInv'
    <3>1. formData'.email = e
      BY <2>0, <2>2 DEF EditEmail, FormData
    <3> QED BY <2>2, <3>1, ChangeKeepsVerdict DEF EditEmail
  <2>3. ASSUME NEW e, StudentScanAnswers(e) PROVE VerdictInv'
    <3>1. formData'.email = e
      BY <2>0, <2>3 DEF StudentScanAnswers, FormData
    <3> QED BY <2>3, <3>1, ChangeKeepsVerdict DEF StudentScanAnswers
  <2>4. \A e : EditConfirmEmail(e) => Kept
    BY <2>0 DEF EditConfirmEmail, FormData
  <2>5. \A g : EditFields(g) => Kept
    BY <2>0 DEF EditFields, FormData
  <2>6. AcceptTerms \/ PdfScanAnswers => Kept
    BY <2>0 DEF AcceptTerms, PdfScanAnswers, FormData
  <2>7. \A k : StartScan(k) \/ ScanFails(k) => Kept
    BY DEF StartScan, ScanFails, form
  <2>8. handleNext \/ handlePrevious \/ (\E m : TypeOtp(m)) => Kept
    BY DEF handleNext, handlePrevious, TypeOtp, form
  <2>9. \A e : ExpireOtp(e) \/ OtherAccount(e) => Kept
    BY DEF ExpireOtp, OtherAccount, page, form
  <2>10. \A c : handleSubmit(c) \/ handleVerifyOtp(c) \/ handleResendOtp(c) => Kept
    BY DEF handleSubmit, handleVerifyOtp, handleResendOtp, form
  <2>11. ASSUME NEW c, CallStep(c) PROVE Kept
    <3>1. RequestFails(c) \/ StoreOtp(c) \/ MailOtp(c) \/ CompareOtp(c) \/ ConsumeOtp(c)
          \/ persistRegistration(c) \/ LoseAnswer(c) => Kept
      BY DEF RequestFails, StoreOtp, MailOtp, CompareOtp, ConsumeOtp, persistRegistration, LoseAnswer, page, form
    <3>2. SubmitEnds(c) \/ ResendEnds(c) \/ VerifyEnds(c) => Kept
      BY DEF SubmitEnds, ResendEnds, VerifyEnds, Finish
    <3> QED BY <2>11, <3>1, <3>2 DEF CallStep
  <2>12. CASE Next
    <3>1. CASE Kept
      BY <3>1, OthersKeepVerdict
    <3> HIDE DEF Kept
    <3> QED BY <2>2, <2>3, <2>4, <2>5, <2>6, <2>7, <2>8, <2>9, <2>10, <2>11, <2>12, <3>1, AnswerKeepsVerdict
           DEF Next, EditProfile, EditInstitution, EditDisability, StartPdfScan, StartStudentScan
  <2> QED BY <2>1, <2>12
<1>3. VerdictInv => VerdictIsCurrent
  BY DEF VerdictInv
<1> QED BY <1>1, <1>2, <1>3, TypeInvariant, PTL DEF Spec

-----------------------------------------------------------------------------
(* What is stored and what was validated: DriftInv. *)

\* The form changes: whatever the wizard had passed is recorded in drifted.
LEMMA FormKeepsDrift ==
    ASSUME DriftInv, drifted \subseteq drifted', UNCHANGED <<currentStep, otpSentTo, call, users>>,
           \A g \in formData.ready \ formData'.ready : Late(g) => g \in drifted',
           formData'.email # formData.email /\ Late("email") => "email" \in drifted',
           "email" \notin Groups
    PROVE  DriftInv'
<1>1. /\ Sending' <=> Sending
      /\ \A c, op : Runs(c, op)' <=> Runs(c, op)
  BY DEF Sending, Runs
<1>2. ASSUME NEW g \in Groups, Sending \/ currentStep > StepOf[g]
      PROVE  g \in formData'.ready \cup drifted'
  <2>1. Late(g)
    BY <1>2 DEF Late
  <2> QED BY <1>2, <2>1 DEF DriftInv
<1>3. currentStep' = 6 => SameOrDrifted(otpSentTo, formData.email)'
  BY DEF DriftInv, SameOrDrifted, Late
<1>4. ASSUME NEW c \in Calls
      PROVE  /\ Runs(c, "submit")' => SameOrDrifted(call[c].email, formData.email)'
             /\ Runs(c, "verify")' => /\ ValidOrDrifted(call[c].form.ready)'
                                     /\ SameOrDrifted(call[c].form.email, call[c].email)'
  <2>1. Runs(c, "submit") => Late("email")
    BY DEF Late, Sending, Runs
  <2> QED BY <1>1, <2>1 DEF DriftInv, SameOrDrifted, ValidOrDrifted
<1>5. StoredAsValidated'
  BY DEF DriftInv, StoredAsValidated
<1> QED BY <1>1, <1>2, <1>3, <1>4, <1>5 DEF DriftInv

\* The wizard moves to a step s all of whose predecessors are valid or drifted.
LEMMA MoveKeepsDrift ==
    ASSUME DriftInv, UNCHANGED <<formData, otpSentTo, call, users, drifted>>, currentStep' # 6,
           \A g \in Groups : currentStep' > StepOf[g] => g \in formData.ready \cup drifted
    PROVE  DriftInv'
<1>1. /\ Sending' <=> Sending
      /\ \A c, op : Runs(c, op)' <=> Runs(c, op)
  BY DEF Sending, Runs
<1>2. StoredAsValidated'
  BY DEF StoredAsValidated, DriftInv
<1>3. ASSUME NEW c \in Calls
      PROVE  /\ Runs(c, "submit")' => SameOrDrifted(call[c].email, formData.email)'
             /\ Runs(c, "verify")' => /\ ValidOrDrifted(call[c].form.ready)'
                                     /\ SameOrDrifted(call[c].form.email, call[c].email)'
  BY <1>1 DEF DriftInv, SameOrDrifted, ValidOrDrifted
<1> QED BY <1>1, <1>2, <1>3 DEF DriftInv

\* An account is created by others, or execution c goes on; what c stores is what it was started with.
LEMMA ServerKeepsDrift ==
    ASSUME DriftInv, UNCHANGED <<formData, currentStep, otpSentTo, drifted>>,
           \A c \in Calls : \A op : Runs(c, op)' <=> Runs(c, op),
           \A c \in Calls : call[c] # Idle => call'[c].email = call[c].email /\ call'[c].form = call[c].form,
           \A u \in users' \ users : u.by = "tab" =>
               SameOrDrifted(u.email, u.proven) /\ ValidOrDrifted(u.ready)
    PROVE  DriftInv'
<1>1. Sending' <=> Sending
  BY DEF Sending, Runs
<1>2. ASSUME NEW c \in Calls
      PROVE  /\ Runs(c, "submit")' => SameOrDrifted(call[c].email, formData.email)'
             /\ Runs(c, "verify")' => /\ ValidOrDrifted(call[c].form.ready)'
                                     /\ SameOrDrifted(call[c].form.email, call[c].email)'
  <2>1. \A op : Runs(c, op) => call'[c].email = call[c].email /\ call'[c].form = call[c].form
    BY DEF Runs
  <2> QED BY <2>1 DEF DriftInv, SameOrDrifted, ValidOrDrifted
<1>3. StoredAsValidated'
  BY DEF DriftInv, StoredAsValidated, SameOrDrifted, ValidOrDrifted
<1>4. currentStep' = 6 => SameOrDrifted(otpSentTo, formData.email)'
  BY DEF DriftInv, SameOrDrifted
<1> QED BY <1>1, <1>2, <1>3, <1>4 DEF DriftInv

\* Every group has a step before the fifth.
LEMMA GroupSteps == \A g \in Groups : StepOf[g] \in 2 .. 4 /\ g # "email"
  BY DEF WizardInputs, AllGroups, StepOf

\* Execution c begins from the last step or the OTP step.
LEMMA ClickKeepsDrift ==
    ASSUME DriftInv, currentStep \in 5 .. 6, NEW c \in Calls, NEW op,
           call[c] = Idle, call'[c] # Idle, call'[c].op = op, call'[c].form = formData,
           \A d \in Calls \ {c} : call'[d] = call[d],
           UNCHANGED <<formData, currentStep, otpSentTo, users, drifted>>,
           op = "submit" => call'[c].email = formData.email,
           op = "verify" => SameOrDrifted(formData.email, call'[c].email)
    PROVE  DriftInv'
<1>1. /\ \A o : Runs(c, o)' <=> op = o
      /\ \A d \in Calls \ {c} : \A o : Runs(d, o)' <=> Runs(d, o)
  BY DEF Runs
<1>2. \A g \in Groups : g \in formData.ready \cup drifted
  <2>1. \A g \in Groups : currentStep > StepOf[g]
    BY GroupSteps
  <2> QED BY <2>1 DEF DriftInv
<1>3. ASSUME NEW d \in Calls
      PROVE  /\ Runs(d, "submit")' => SameOrDrifted(call[d].email, formData.email)'
             /\ Runs(d, "verify")' => /\ ValidOrDrifted(call[d].form.ready)'
                                     /\ SameOrDrifted(call[d].form.email, call[d].email)'
  <2>1. CASE d = c
    BY <1>1, <1>2, <2>1 DEF SameOrDrifted, ValidOrDrifted
  <2>2. CASE d # c
    BY <1>1, <2>2 DEF DriftInv, SameOrDrifted, ValidOrDrifted
  <2> QED BY <2>1, <2>2
<1>4. StoredAsValidated'
  BY DEF DriftInv, StoredAsValidated
<1>5. currentStep' = 6 => SameOrDrifted(otpSentTo, formData.email)'
  BY DEF DriftInv, SameOrDrifted
<1> QED BY <1>2, <1>3, <1>4, <1>5 DEF DriftInv

LEMMA ClickStepKeepsDrift ==
    ASSUME TypeInv, DriftInv, NEW c \in Calls, handleSubmit(c) \/ handleVerifyOtp(c) \/ handleResendOtp(c)
    PROVE  DriftInv'
<1>0. call \in [Calls -> Call] /\ formData \in FormData /\ otpValue \in 0 .. MaxOtp /\ 0 \in 0 .. MaxOtp
      /\ "store" \in Pcs /\ "compare" \in Pcs
  BY DEF TypeInv, TypeOK, Pcs, WizardInputs
<1>1. currentStep = 6 => otpAddress = otpSentTo /\ otpAddress \in Emails
  BY DEF TypeInv, otpAddress, WizardInputs
<1>2. CASE handleSubmit(c)
  <2>1. formData.email \in Emails /\ Begin(c, "submit", "store", formData.email, 0)
    BY <1>0, <1>2 DEF handleSubmit, FormData, Addresses
  <2>2. /\ call[c] = Idle /\ call'[c] # Idle /\ call'[c].op = "submit" /\ call'[c].form = formData
        /\ call'[c].email = formData.email /\ \A d \in Calls \ {c} : call'[d] = call[d]
    BY <1>0, <2>1, BeginType
  <2>3. currentStep \in 5 .. 6 /\ UNCHANGED <<formData, currentStep, otpSentTo, users, drifted>>
    BY <1>2 DEF handleSubmit, form, otpStep, server
  <2> QED BY <2>2, <2>3, ClickKeepsDrift
<1>3. CASE handleVerifyOtp(c)
  <2>1. otpAddress \in Emails /\ Begin(c, "verify", "compare", otpAddress, otpValue)
    BY <1>1, <1>3 DEF handleVerifyOtp
  <2>2. /\ call[c] = Idle /\ call'[c] # Idle /\ call'[c].op = "verify" /\ call'[c].form = formData
        /\ call'[c].email = otpAddress /\ \A d \in Calls \ {c} : call'[d] = call[d]
    BY <1>0, <2>1, BeginType
  <2>3. /\ currentStep \in 5 .. 6 /\ currentStep = 6
        /\ UNCHANGED <<formData, currentStep, otpSentTo, users, drifted>>
    BY <1>3 DEF handleVerifyOtp, form, otpStep, server
  <2>4. SameOrDrifted(formData.email, otpAddress)
    BY <1>1, <2>3 DEF DriftInv, SameOrDrifted
  <2> QED BY <2>2, <2>3, <2>4, ClickKeepsDrift
<1>4. CASE handleResendOtp(c)
  <2>1. otpAddress \in Emails /\ Begin(c, "resend", "store", otpAddress, 0)
    BY <1>1, <1>4 DEF handleResendOtp
  <2>2. /\ call[c] = Idle /\ call'[c] # Idle /\ call'[c].op = "resend" /\ call'[c].form = formData
        /\ \A d \in Calls \ {c} : call'[d] = call[d]
    BY <1>0, <2>1, BeginType
  <2>3. currentStep \in 5 .. 6 /\ UNCHANGED <<formData, currentStep, otpSentTo, users, drifted>>
    BY <1>4 DEF handleResendOtp, form, otpStep, server
  <2> QED BY <2>2, <2>3, ClickKeepsDrift
<1> QED BY <1>2, <1>3, <1>4

\* While a submit ran every change was recorded, so the OTP step may be shown after it.
LEMMA EndKeepsDrift ==
    ASSUME DriftInv, call \in [Calls -> Call], NEW c \in Calls, SubmitEnds(c) \/ ResendEnds(c) \/ VerifyEnds(c)
    PROVE  DriftInv'
<1>0. Finish(c) /\ call[c] # Idle
  BY DEF SubmitEnds, ResendEnds, VerifyEnds, atServer
<1>1. /\ call'[c] = Idle
      /\ \A d \in Calls \ {c} : call'[d] = call[d]
      /\ UNCHANGED <<formData, users, drifted>>
  BY <1>0 DEF Finish, server
<1>2. /\ \A o : ~Runs(c, o)'
      /\ \A d \in Calls \ {c} : \A o : Runs(d, o)' <=> Runs(d, o)
      /\ Sending' => Sending
  BY <1>1 DEF Runs, Sending
<1>3. ASSUME NEW d \in Calls
      PROVE  /\ Runs(d, "submit")' => SameOrDrifted(call[d].email, formData.email)'
             /\ Runs(d, "verify")' => /\ ValidOrDrifted(call[d].form.ready)'
                                     /\ SameOrDrifted(call[d].form.email, call[d].email)'
  BY <1>1, <1>2 DEF DriftInv, SameOrDrifted, ValidOrDrifted
<1>4. StoredAsValidated'
  BY <1>1 DEF DriftInv, StoredAsValidated
<1>5. \/ UNCHANGED <<currentStep, otpSentTo>>
      \/ Runs(c, "submit") /\ otpSentTo' = call[c].email
  BY <1>0 DEF SubmitEnds, ResendEnds, VerifyEnds, otpStep, Runs
<1>6. currentStep' = 6 => SameOrDrifted(otpSentTo, formData.email)'
  BY <1>1, <1>5 DEF DriftInv, SameOrDrifted
<1>7. \A g \in Groups : Sending' \/ currentStep' > StepOf[g] => g \in formData'.ready \cup drifted'
  BY <1>1, <1>2, <1>5 DEF DriftInv, Sending, Runs
<1> QED BY <1>3, <1>4, <1>6, <1>7 DEF DriftInv

\* Only the INSERT stores for the tab: the form its execution was started with.
LEMMA ServerStepKeepsDrift ==
    ASSUME TypeInv, WizardInv, DriftInv, NEW c \in Calls,
           \/ RequestFails(c) \/ StoreOtp(c) \/ MailOtp(c) \/ CompareOtp(c) \/ ConsumeOtp(c)
           \/ persistRegistration(c) \/ LoseAnswer(c)
    PROVE  DriftInv'
<1>1. call[c] # Idle /\ UNCHANGED <<formData, currentStep, otpSentTo, drifted>>
  BY DEF RequestFails, StoreOtp, MailOtp, CompareOtp, ConsumeOtp, persistRegistration, LoseAnswer,
         atServer, page, form, otpStep
<1>2. \E pc, ok : MovesTo(c, pc, ok)
  BY ServerMoves
<1>3. /\ \A d \in Calls : \A op : Runs(d, op)' <=> Runs(d, op)
      /\ \A d \in Calls : call[d] # Idle => call'[d].email = call[d].email /\ call'[d].form = call[d].form
  BY <1>1, <1>2 DEF MovesTo, Runs
<1>4. \A u \in users' \ users : u.by = "tab" => SameOrDrifted(u.email, u.proven) /\ ValidOrDrifted(u.ready)
  <2>1. CASE UNCHANGED users
    BY <2>1
  <2>2. CASE persistRegistration(c) /\ users' # users
    <3> DEFINE u == [email |-> call[c].form.email, by |-> "tab", proven |-> call[c].email,
                     ready |-> call[c].form.ready, termsAccepted |-> call[c].form.termsAccepted]
    <3>1. users' = users \cup {u}
      BY <2>2 DEF persistRegistration
    <3>2. Runs(c, "verify")
      BY <1>1, <2>2 DEF persistRegistration, atServer, Runs, WizardInv, EndpointsOf
    <3>3. SameOrDrifted(u.email, u.proven) /\ ValidOrDrifted(u.ready)
      BY <3>2 DEF DriftInv
    <3> HIDE DEF u
    <3> QED BY <3>1, <3>3
  <2>3. UNCHANGED users \/ persistRegistration(c)
    BY DEF RequestFails, StoreOtp, MailOtp, CompareOtp, ConsumeOtp, LoseAnswer, server
  <2> QED BY <2>1, <2>2, <2>3
<1> QED BY <1>1, <1>3, <1>4, ServerKeepsDrift

\* Editing and scanning.
LEMMA FormStepKeepsDrift ==
    ASSUME TypeInv, DriftInv,
           \/ \E e \in Addresses : EditEmail(e) \/ EditConfirmEmail(e)
           \/ EditProfile \/ EditInstitution \/ EditDisability
           \/ AcceptTerms
           \/ PdfScanAnswers
           \/ \E e \in Emails \cup {formData.email} : StudentScanAnswers(e)
    PROVE  DriftInv'
<1> DEFINE Recorded ==
        /\ drifted \subseteq drifted'
        /\ \A g \in formData.ready \ formData'.ready : Late(g) => g \in drifted'
        /\ formData'.email # formData.email /\ Late("email") => "email" \in drifted'
           Rest == UNCHANGED <<currentStep, otpSentTo, call, users>>
<1>0. formData \in FormData
  BY DEF TypeInv, TypeOK
<1>1. ASSUME NEW e, EditEmail(e) PROVE Recorded
  <2>1. formData'.ready = formData.ready
    BY <1>0, <1>1 DEF EditEmail, FormData
  <2> QED BY <1>1, <2>1 DEF EditEmail
<1>2. ASSUME NEW e, EditConfirmEmail(e) PROVE Recorded
  <2>1. formData'.ready = formData.ready /\ formData'.email = formData.email
    BY <1>0, <1>2 DEF EditConfirmEmail, FormData
  <2> QED BY <1>2, <2>1 DEF EditConfirmEmail
<1>3. ASSUME NEW g, EditFields(g) PROVE Recorded
  <2>1. formData.ready \ formData'.ready \subseteq {g} /\ formData'.email = formData.email
    BY <1>0, <1>3 DEF EditFields, FormData
  <2> QED BY <1>3, <2>1 DEF EditFields
<1>4. ASSUME AcceptTerms PROVE Recorded
  <2>1. formData'.ready = formData.ready /\ formData'.email = formData.email
    BY <1>0, <1>4 DEF AcceptTerms, FormData
  <2> QED BY <1>4, <2>1 DEF AcceptTerms
<1>5. ASSUME PdfScanAnswers PROVE Recorded
  <2>1. PICK spoilt : /\ formData' = [formData EXCEPT !.ready = formData.ready \ spoilt]
                      /\ drifted' = drifted \cup {x \in spoilt : Late(x)}
    BY <1>5 DEF PdfScanAnswers
  <2>2. formData'.ready = formData.ready \ spoilt /\ formData'.email = formData.email
    BY <1>0, <2>1 DEF FormData
  <2> QED BY <2>1, <2>2
<1>6. ASSUME NEW e, StudentScanAnswers(e) PROVE Recorded
  <2>1. PICK spoilt :
            /\ formData' = [formData EXCEPT !.email = e, !.ready = formData.ready \ spoilt]
            /\ drifted' = drifted \cup {x \in spoilt : Late(x)} \cup {x \in {"email"} : e # formData.email /\ Late(x)}
    BY <1>6 DEF StudentScanAnswers
  <2>2. formData'.ready = formData.ready \ spoilt /\ formData'.email = e
    BY <1>0, <2>1 DEF FormData
  <2> QED BY <2>1, <2>2
<1>7. Rest
  BY DEF EditEmail, EditConfirmEmail, EditProfile, EditInstitution, EditDisability, EditFields, AcceptTerms,
         PdfScanAnswers, StudentScanAnswers, otpStep, server
<1>8. Recorded
  <2> HIDE DEF Recorded
  <2> QED BY <1>1, <1>2, <1>3, <1>4, <1>5, <1>6 DEF EditProfile, EditInstitution, EditDisability
<1> QED BY <1>7, <1>8, GroupSteps, FormKeepsDrift

\* What touches neither the form nor what the wizard keeps about it.
LEMMA QuietKeepsDrift ==
    ASSUME DriftInv, UNCHANGED <<formData, currentStep, otpSentTo, call, users, drifted>>
    PROVE  DriftInv'
<1>1. \A c, op : Runs(c, op)' <=> Runs(c, op)
  BY DEF Runs
<1> QED BY <1>1, ServerKeepsDrift

LEMMA OtherStepKeepsDrift ==
    ASSUME TypeInv, DriftInv,
           \/ \E k \in checks : EmailCheckAnswers(k)
           \/ StartPdfScan \/ StartStudentScan \/ \E k \in Scans : ScanFails(k)
           \/ handleNext \/ handlePrevious
           \/ \E m \in inbox : TypeOtp(m)
           \/ \E e \in Emails : ExpireOtp(e) \/ OtherAccount(e)
    PROVE  DriftInv'
<1> DEFINE Quiet == UNCHANGED <<formData, currentStep, otpSentTo, call, users, drifted>>
<1>1. ASSUME NEW k, EmailCheckAnswers(k) \/ StartScan(k) \/ ScanFails(k) PROVE Quiet
  BY <1>1 DEF EmailCheckAnswers, StartScan, ScanFails, form, otpStep, server
<1>2. ASSUME NEW m, TypeOtp(m) PROVE Quiet
  BY <1>2 DEF TypeOtp, form, server
<1>3. ASSUME NEW e, ExpireOtp(e) PROVE Quiet
  BY <1>3 DEF ExpireOtp, page, form, otpStep
<1>4. ASSUME NEW e, OtherAccount(e) PROVE DriftInv'
  <2>1. UNCHANGED <<formData, currentStep, otpSentTo, call, drifted>>
    BY <1>4 DEF OtherAccount, page, form, otpStep
  <2>2. \A u \in users' \ users : u.by # "tab"
    BY <1>4 DEF OtherAccount
  <2>3. \A c, op : Runs(c, op)' <=> Runs(c, op)
    BY <2>1 DEF Runs
  <2> QED BY <2>1, <2>2, <2>3, ServerKeepsDrift
<1>5. ASSUME handleNext PROVE DriftInv'
  <2>1. UNCHANGED <<formData, otpSentTo, call, users, drifted>> /\ currentStep' = currentStep + 1 /\ currentStep < 5
    BY <1>5 DEF handleNext, otpStep, server
  <2>2. \A g \in Groups : StepOf[g] = currentStep => g \in formData.ready
    BY <1>5 DEF handleNext, validateByStep
  <2>3. currentStep \in 1 .. 6
    BY DEF TypeInv, TypeOK
  <2>4. ASSUME NEW g \in Groups, currentStep' > StepOf[g]
        PROVE  g \in formData.ready \cup drifted
    <3>1. StepOf[g] = currentStep \/ currentStep > StepOf[g]
      BY <2>1, <2>3, <2>4, GroupSteps
    <3> QED BY <2>2, <3>1 DEF DriftInv
  <2> QED BY <2>1, <2>3, <2>4, MoveKeepsDrift
<1>6. ASSUME handlePrevious PROVE DriftInv'
  <2>1. UNCHANGED <<formData, otpSentTo, call, users, drifted>> /\ currentStep' = currentStep - 1 /\ currentStep < 6
    BY <1>6 DEF handlePrevious, ShowsPrevious, otpStep, server
  <2>2. currentStep \in 1 .. 6
    BY DEF TypeInv, TypeOK
  <2>3. \A g \in Groups : currentStep' > StepOf[g] => currentStep > StepOf[g]
    BY <2>1, <2>2, GroupSteps
  <2> QED BY <2>1, <2>2, <2>3, MoveKeepsDrift DEF DriftInv
<1> HIDE DEF Quiet
<1>7. CASE Quiet
  BY <1>7, QuietKeepsDrift DEF Quiet
<1> QED BY <1>1, <1>2, <1>3, <1>4, <1>5, <1>6, <1>7 DEF StartPdfScan, StartStudentScan

\* What the wizard stores was validated and its address was proven, unless a scan or an
\* edit changed it after the OTP was sent or its step was left; only then they differ.
THEOREM StoresWhatItValidated == Spec => []StoredAsValidated
<1>1. Init => DriftInv
  <2> SUFFICES ASSUME Init PROVE DriftInv
    OBVIOUS
  <2>1. ~Sending /\ currentStep = 1 /\ users = {} /\ \A c \in Calls : \A op : ~Runs(c, op)
    BY DEF Init, Sending, Runs
  <2>2. \A g \in Groups : ~(currentStep > StepOf[g])
    BY <2>1, GroupSteps
  <2> QED BY <2>1, <2>2 DEF DriftInv, StoredAsValidated
<1>2. TypeInv /\ WizardInv /\ DriftInv /\ [Next]_vars => DriftInv'
  <2> SUFFICES ASSUME TypeInv, WizardInv, DriftInv, [Next]_vars PROVE DriftInv'
    OBVIOUS
  <2>1. CASE UNCHANGED vars
    BY <2>1, QuietKeepsDrift DEF vars, form, otpStep, server
  <2>2. CASE Next
    <3>1. ASSUME NEW c \in Calls, CallStep(c) PROVE DriftInv'
      <4>1. call \in [Calls -> Call]
        BY DEF TypeInv, TypeOK
      <4> QED BY <3>1, <4>1, ServerStepKeepsDrift, EndKeepsDrift DEF CallStep
    <3> QED BY <2>2, <3>1, ClickStepKeepsDrift, FormStepKeepsDrift, OtherStepKeepsDrift DEF Next
  <2> QED BY <2>1, <2>2
<1>3. DriftInv => StoredAsValidated
  BY DEF DriftInv
<1> QED BY <1>1, <1>2, <1>3, TypeInvariant, WizardInvariant, PTL DEF Spec
=============================================================================
