\* Deletion after marking, as RevokeAllSessions states it.
SPECIFICATION Spec
CONSTANTS
    u1 = u1
    s1 = s1
    s2 = s2
    l1 = l1
    l2 = l2
    c1 = c1
    c2 = c2
    NoSid = NoSid
    Users = {u1}
    Sids = {s1, s2}
    Logins = {l1}
    Closers = {c1}
    FirstRole <- AdminFirst
    NewRoles = {}
    TTL = 1
    RequestTimeout = 1
    MaxTime = 1
INVARIANT
    MarkedIsDeleted
CHECK_DEADLOCK FALSE
