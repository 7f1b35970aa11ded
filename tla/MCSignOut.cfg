\* Two sign-outs at a time of the sessions of one user, who logs in meanwhile and may be deleted.
SPECIFICATION Spec
CONSTANTS
    u1 = u1
    s1 = s1
    s2 = s2
    l1 = l1
    l2 = l2
    c1 = c1
    c2 = c2
    NoSid = NoSid
    Users = {u1}
    Sids = {s1, s2}
    Logins = {l1}
    Closers = {c1, c2}
    FirstRole <- AdminFirst
    NewRoles = {}
    TTL = 1
    RequestTimeout = 1
    MaxTime = 1
SYMMETRY Interchangeable
INVARIANTS
    TypeOK
    SignedOutIsUnusable
    ListedIsUsable
PROPERTY
    SessionsNeverReturn
CHECK_DEADLOCK FALSE
