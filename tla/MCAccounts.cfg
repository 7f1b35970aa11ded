\* A session of one admin who is demoted, deactivated or deleted, and signed out twice.
SPECIFICATION FairSpec
CONSTANTS
    u1 = u1
    s1 = s1
    s2 = s2
    l1 = l1
    l2 = l2
    c1 = c1
    c2 = c2
    NoSid = NoSid
    Users = {u1}
    Sids = {s1}
    Logins = {l1}
    Closers = {c1, c2}
    FirstRole <- AdminFirst
    NewRoles = {"Driver"}
    TTL = 1
    RequestTimeout = 1
    MaxTime = 2
INVARIANT
    StaleAuthorityEnds
PROPERTY
    SignOutTakesEffect
CHECK_DEADLOCK FALSE
