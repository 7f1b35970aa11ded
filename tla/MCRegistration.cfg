\* One tab that may be given two addresses, two handlers at a time, two OTPs.
SPECIFICATION Spec
CONSTANTS
    e1 = e1
    e2 = e2
    c1 = c1
    c2 = c2
    NoEmail = NoEmail
    Emails = {e1, e2}
    UsernameOf <- OwnNames
    Contested = {e2}
    Calls = {c1, c2}
    Groups = {"profile", "institution", "disability"}
    MaxOtp = 2
    MaxEdits = 6
INVARIANTS
    TypeOK
    VerdictIsCurrent
    StoredAsValidated
    CompleteMeansStored
    StoredIsShown
    ButtonsMatchCalls
SYMMETRY Interchangeable
