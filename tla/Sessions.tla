------------------------------ MODULE Sessions ------------------------------
(***************************************************************************)
(* Login sessions: the Redis keys that authenticate requests, the sessions *)
(* table that lists them, and the handlers that write the two.             *)
(*                                                                         *)
(* No transaction spans Redis and Postgres.  A login reads the account,    *)
(* then sets the Redis key, then inserts the row; a sign-out marks the     *)
(* rows and then deletes the keys one by one, and goes on when a query     *)
(* fails.  Each of these calls is an action; executions interleave with    *)
(* each other and with the admins' changes to the accounts, and a crash of *)
(* the server ends them all where they are.                                *)
(***************************************************************************)
EXTENDS Integers, FiniteSets

CONSTANTS
    Users,          \* ids of users
    Sids,           \* session ids (UUIDs), each generated once
    NoSid,          \* no session_id cookie
    Logins,         \* concurrent executions of Login and DriverVerifyOTP
    Closers,        \* concurrent executions of Logout, RevokeSession, RevokeAllSessions
    FirstRole,      \* the role of each user at the start
    NewRoles,       \* the roles the admins set
    TTL,            \* 24 hours, in ticks
    RequestTimeout, \* the 5 s of DefaultTimeout, in ticks
    MaxTime         \* bound on the clock

Roles == {"Student", "Driver", "Admin", "SuperAdmin"}
Clients == {"web-admin", "mobile-app"}

ASSUME SessionInputs ==
    /\ NoSid \notin Sids
    /\ FirstRole \in [Users -> Roles]
    /\ NewRoles \subseteq Roles
    /\ TTL \in Nat \ {0}
    /\ RequestTimeout \in Nat
    /\ MaxTime \in Nat

VARIABLES
    now,        \* the clock, shared by the server, Redis and the database
    account,    \* the users table: a function from the stored ids
    changed,    \* when each account was last changed or deleted (history)
    redis,      \* the session keys: a function from session ids
    rows,       \* the sessions table: a function from session ids
    owner,      \* the user of each session id generated so far
    held,       \* session ids some client was given
    login,      \* the state of each login execution
    closer,     \* the state of each sign-out execution
    missed,     \* rows a RevokeAllSessions marked but had not listed (history)
    lost,       \* keys whose deletion failed or was cut off (history)
    unmarked    \* sessions whose row a sign-out failed to mark (history)

accounts == <<account, changed>>
history == <<missed, lost, unmarked>>
vars == <<now, accounts, redis, rows, owner, held, login, closer, history>>

Instants == 0 .. MaxTime
Expiries == 0 .. MaxTime + TTL

Account == [role : Roles, active : BOOLEAN]
Key == [role : Roles, exp : Expiries]
Row == [exp : Expiries, out : BOOLEAN]

IdleLogin == [pc |-> "idle"]
Login ==
    {IdleLogin}
    \cup [pc : {"set"}, user : Users, role : Roles, client : Clients,
          driver : BOOLEAN, start : Instants]
    \cup [pc : {"record"}, sid : Sids, exp : Expiries]

\* auth authenticated the request; keep is the session_id cookie, which a client
\* with a bearer token need not send.
IdleCloser == [pc |-> "idle", todo |-> {}]
Closer ==
    {IdleCloser}
    \cup [pc : {"list", "mark"}, kind : {"logout", "one", "all"},
          auth : Sids, keep : Sids \cup {NoSid}, todo : SUBSET Sids]
    \cup [pc : {"delete"}, todo : SUBSET Sids]

TypeOK ==
    /\ now \in Instants
    /\ DOMAIN account \subseteq Users
    /\ account \in [DOMAIN account -> Account]
    /\ changed \in [Users -> Instants]
    /\ DOMAIN owner \subseteq Sids
    /\ owner \in [DOMAIN owner -> Users]
    /\ DOMAIN redis \subseteq DOMAIN owner
    /\ redis \in [DOMAIN redis -> Key]
    /\ DOMAIN rows \subseteq DOMAIN owner
    /\ rows \in [DOMAIN rows -> Row]
    /\ held \subseteq DOMAIN owner
    /\ login \in [Logins -> Login]
    /\ closer \in [Closers -> Closer]
    /\ missed \subseteq Sids /\ lost \subseteq Sids /\ unmarked \subseteq Sids

Init ==
    /\ now = 0
    /\ account = [u \in Users |-> [role |-> FirstRole[u], active |-> TRUE]]
    /\ changed = [u \in Users |-> 0]
    /\ redis = [s \in {} |-> {}]
    /\ rows = [s \in {} |-> {}]
    /\ owner = [s \in {} |-> {}]
    /\ held = {}
    /\ login = [l \in Logins |-> IdleLogin]
    /\ closer = [c \in Closers |-> IdleCloser]
    /\ missed = {} /\ lost = {} /\ unmarked = {}

----------------------------------------------------------------------------
(* What the stores answer. *)

\* Redis expires the key by itself.
Usable(s) == s \in DOMAIN redis /\ now < redis[s].exp

\* GetUserSessions
UserSessions(u) ==
    {s \in DOMAIN rows : owner[s] = u /\ now < rows[s].exp /\ ~rows[s].out}

IsRoleAllowedForClient(role, client) ==
    IF client = "web-admin" THEN role \in {"Admin", "SuperAdmin"}
                            ELSE role \in {"Student", "Driver"}

----------------------------------------------------------------------------
(* Login and DriverVerifyOTP, from the point where the credentials match. *)

\* Login reads the account and refuses one that is not active.
BeginLogin(l, u, client) ==
    /\ login[l] = IdleLogin
    /\ u \in DOMAIN account /\ account[u].active
    /\ login' = [login EXCEPT ![l] =
                   [pc |-> "set", user |-> u, role |-> account[u].role,
                    client |-> client, driver |-> FALSE, start |-> now]]
    /\ UNCHANGED <<now, accounts, redis, rows, owner, held, closer, history>>

\* DriverVerifyOTP asks for the role only.
BeginDriverLogin(l, u) ==
    /\ login[l] = IdleLogin
    /\ u \in DOMAIN account /\ account[u].role = "Driver"
    /\ login' = [login EXCEPT ![l] =
                   [pc |-> "set", user |-> u, role |-> "Driver",
                    client |-> "mobile-app", driver |-> TRUE, start |-> now]]
    /\ UNCHANGED <<now, accounts, redis, rows, owner, held, closer, history>>

\* Mutant: Redis is written under a context of its own.
AnyTime(l) == TRUE

\* The request's context has not ended.
InTime(l) == now - login[l].start <= RequestTimeout

\* Mutant: an id is free again once its key is gone.
IdsNotInUse == Sids \ DOMAIN redis

\* uuid.New()
FreshIds == Sids \ DOMAIN owner

\* Mutant: the 24 hours are counted twice.
LongLivedKey(l) == [role |-> login[l].role, exp |-> now + 2 * TTL]

NewKey(l) == [role |-> login[l].role, exp |-> now + TTL]

\* SET session:<id> within the request's context.  Only then does Login compare
\* the role with the client; a driver's session gets no row.
CreateSession(l, s) ==
    /\ login[l].pc = "set"
    /\ InTime(l)
    /\ s \in FreshIds
    /\ owner' = [t \in DOMAIN owner \cup {s} |->
                   IF t = s THEN login[l].user ELSE owner[t]]
    /\ redis' = [t \in DOMAIN redis \cup {s} |->
                   IF t = s THEN NewKey(l) ELSE redis[t]]
    /\ held' = IF login[l].driver THEN held \cup {s} ELSE held
    /\ login' = [login EXCEPT ![l] =
                   IF ~login[l].driver /\ IsRoleAllowedForClient(login[l].role, login[l].client)
                     THEN [pc |-> "record", sid |-> s, exp |-> now + TTL]
                     ELSE IdleLogin]
    /\ UNCHANGED <<now, accounts, rows, closer, history>>

\* StoreSession inserts the row, whose user must still exist ...
StoreSession(l) ==
    /\ login[l].pc = "record"
    /\ owner[login[l].sid] \in DOMAIN account
    /\ rows' = [t \in DOMAIN rows \cup {login[l].sid} |->
                  IF t = login[l].sid
                    THEN [exp |-> login[l].exp, out |-> FALSE]
                    ELSE rows[t]]
    /\ held' = held \cup {login[l].sid}
    /\ login' = [login EXCEPT ![l] = IdleLogin]
    /\ UNCHANGED <<now, accounts, redis, owner, closer, history>>

\* ... or fails, which is only logged: the client gets its session.
SkipRow(l) ==
    /\ login[l].pc = "record"
    /\ held' = held \cup {login[l].sid}
    /\ login' = [login EXCEPT ![l] = IdleLogin]
    /\ UNCHANGED <<now, accounts, redis, rows, owner, closer, history>>

\* Redis is out of reach or the context has ended: 500.
FailLogin(l) ==
    /\ login[l].pc = "set"
    /\ login' = [login EXCEPT ![l] = IdleLogin]
    /\ UNCHANGED <<now, accounts, redis, rows, owner, held, closer, history>>

----------------------------------------------------------------------------
(* Logout, RevokeSession and RevokeAllSessions. *)

\* Mutant: the key goes first, the row is not marked.
BeginLogoutByKey(c, s) ==
    /\ closer[c] = IdleCloser
    /\ s \in held
    /\ closer' = [closer EXCEPT ![c] = [pc |-> "delete", kind |-> "logout",
                                        auth |-> s, keep |-> s, todo |-> {s}]]
    /\ UNCHANGED <<now, accounts, redis, rows, owner, held, login, history>>

\* Logout believes the cookie; the session may have ended already.
BeginLogout(c, s) ==
    /\ closer[c] = IdleCloser
    /\ s \in held
    /\ closer' = [closer EXCEPT ![c] = [pc |-> "mark", kind |-> "logout",
                                        auth |-> s, keep |-> s, todo |-> {s}]]
    /\ UNCHANGED <<now, accounts, redis, rows, owner, held, login, history>>

\* RequireAuth finds session s in Redis: a bearer token, or else the cookie.
\* RevokeSession refuses the cookie's session.
BeginRevoke(c, s, cookie, target) ==
    /\ closer[c] = IdleCloser
    /\ s \in held /\ Usable(s)
    /\ cookie \in held \cup {NoSid}
    /\ target # cookie
    /\ closer' = [closer EXCEPT ![c] = [pc |-> "list", kind |-> "one",
                                        auth |-> s, keep |-> cookie, todo |-> {target}]]
    /\ UNCHANGED <<now, accounts, redis, rows, owner, held, login, history>>

\* RevokeAllSessions needs the cookie.
BeginRevokeAll(c, s, cookie) ==
    /\ closer[c] = IdleCloser
    /\ s \in held /\ Usable(s)
    /\ cookie \in held
    /\ closer' = [closer EXCEPT ![c] = [pc |-> "list", kind |-> "all",
                                        auth |-> s, keep |-> cookie, todo |-> {}]]
    /\ UNCHANGED <<now, accounts, redis, rows, owner, held, login, history>>

\* Both list the user's sessions first; RevokeSession answers 404 when its target
\* is not among them.
ListSessions(c) ==
    /\ closer[c].pc = "list"
    /\ LET listed == UserSessions(owner[closer[c].auth])
       IN  closer' = [closer EXCEPT ![c] =
                        IF closer[c].kind = "all"
                          THEN [closer[c] EXCEPT !.pc = "mark", !.todo = listed \ {closer[c].keep}]
                        ELSE IF closer[c].todo \subseteq listed
                          THEN [closer[c] EXCEPT !.pc = "mark"]
                        ELSE IdleCloser]
    /\ UNCHANGED <<now, accounts, redis, rows, owner, held, login, history>>

\* The query fails: 500.
FailListing(c) ==
    /\ closer[c].pc = "list"
    /\ closer' = [closer EXCEPT ![c] = IdleCloser]
    /\ UNCHANGED <<now, accounts, redis, rows, owner, held, login, history>>

ToMark(c) ==
    IF closer[c].kind = "all"
      THEN {s \in DOMAIN rows : /\ owner[s] = owner[closer[c].auth]
                                /\ s # closer[c].keep
                                /\ ~rows[s].out}
      ELSE {s \in closer[c].todo \cap DOMAIN rows : ~rows[s].out}

\* Mutant: the handler replies once the row is marked.
WithoutTodo(c, todo) == [closer EXCEPT ![c] = IdleCloser]

WithTodo(c, todo) ==
    [closer EXCEPT ![c] = IF todo = {} THEN IdleCloser
                          ELSE [pc |-> "delete", todo |-> todo]]

\* logged_out_at = NOW() on every row the UPDATE selects.
MarkLoggedOut(c) ==
    /\ closer[c].pc = "mark"
    /\ rows' = [s \in DOMAIN rows |-> IF s \in ToMark(c) THEN [rows[s] EXCEPT !.out = TRUE]
                                                         ELSE rows[s]]
    /\ missed' = missed \cup (ToMark(c) \ closer[c].todo)
    /\ closer' = WithTodo(c, closer[c].todo)
    /\ UNCHANGED <<now, accounts, redis, owner, held, login, lost, unmarked>>

\* The error is logged, and the keys are deleted all the same.
FailToMark(c) ==
    /\ closer[c].pc = "mark"
    /\ unmarked' = unmarked \cup closer[c].todo
    /\ closer' = WithTodo(c, closer[c].todo)
    /\ UNCHANGED <<now, accounts, redis, rows, owner, held, login, missed, lost>>

DeleteKey(c, s) ==
    /\ closer[c].pc = "delete"
    /\ s \in closer[c].todo
    /\ redis' = [t \in DOMAIN redis \ {s} |-> redis[t]]
    /\ closer' = WithTodo(c, closer[c].todo \ {s})
    /\ UNCHANGED <<now, accounts, rows, owner, held, login, history>>

\* The error of the deletion is dropped.
FailToDelete(c, s) ==
    /\ closer[c].pc = "delete"
    /\ s \in closer[c].todo
    /\ lost' = lost \cup {s}
    /\ closer' = WithTodo(c, closer[c].todo \ {s})
    /\ UNCHANGED <<now, accounts, redis, rows, owner, held, login, missed, unmarked>>

----------------------------------------------------------------------------
(* The rest of the system, as far as sessions depend on it. *)

\* The handlers refuse a target that is a SuperAdmin, but read its role in an
\* earlier query: only one who never was anything else is safe from a late write.
MayBeChanged(u) == u \in DOMAIN account /\ FirstRole[u] # "SuperAdmin"

\* UpdateUser sets the role or the status; the user's sessions stay as they are.
UpdateUser(u, role, active) ==
    /\ MayBeChanged(u)
    /\ account[u] # [role |-> role, active |-> active]
    /\ account' = [account EXCEPT ![u] = [role |-> role, active |-> active]]
    /\ changed' = [changed EXCEPT ![u] = now]
    /\ UNCHANGED <<now, redis, rows, owner, held, login, closer, history>>

\* sessions.user_id is ON DELETE CASCADE; Redis knows nothing of it.
DeleteUser(u) ==
    /\ MayBeChanged(u)
    /\ account' = [v \in DOMAIN account \ {u} |-> account[v]]
    /\ changed' = [changed EXCEPT ![u] = now]
    /\ rows' = [s \in {t \in DOMAIN rows : owner[t] # u} |-> rows[s]]
    /\ UNCHANGED <<now, redis, owner, held, login, closer, history>>

CutOff == UNION {closer[c].todo : c \in {d \in Closers : closer[d].pc = "delete"}}

\* The server stops; Redis and Postgres keep what they have.
Crash ==
    /\ \/ \E l \in Logins : login[l] # IdleLogin
       \/ \E c \in Closers : closer[c] # IdleCloser
    /\ login' = [l \in Logins |-> IdleLogin]
    /\ closer' = [c \in Closers |-> IdleCloser]
    /\ lost' = lost \cup CutOff
    /\ UNCHANGED <<now, accounts, redis, rows, owner, held, missed, unmarked>>

Tick ==
    /\ now < MaxTime
    /\ now' = now + 1
    /\ UNCHANGED <<accounts, redis, rows, owner, held, login, closer, history>>

----------------------------------------------------------------------------

LoginStep(l) ==
    \/ \E u \in Users, client \in Clients : BeginLogin(l, u, client)
    \/ \E u \in Users : BeginDriverLogin(l, u)
    \/ \E s \in Sids : CreateSession(l, s)
    \/ StoreSession(l)
    \/ SkipRow(l)
    \/ FailLogin(l)

\* What a sign-out does once its request is let in.
Proceed(c) ==
    \/ ListSessions(c)
    \/ FailListing(c)
    \/ MarkLoggedOut(c)
    \/ FailToMark(c)
    \/ \E s \in Sids : DeleteKey(c, s)
    \/ \E s \in Sids : FailToDelete(c, s)

CloserStep(c) ==
    \/ \E s \in Sids : BeginLogout(c, s)
    \/ \E s, target \in Sids, cookie \in Sids \cup {NoSid} : BeginRevoke(c, s, cookie, target)
    \/ \E s, cookie \in Sids : BeginRevokeAll(c, s, cookie)
    \/ Proceed(c)

AccountStep ==
    \/ \E u \in Users, role \in NewRoles, active \in BOOLEAN : UpdateUser(u, role, active)
    \/ \E u \in Users : DeleteUser(u)

Next ==
    \/ \E l \in Logins : LoginStep(l)
    \/ \E c \in Closers : CloserStep(c)
    \/ AccountStep
    \/ Crash
    \/ Tick

Spec == Init /\ [][Next]_vars

\* A handler that runs goes on to its end: the Go scheduler runs every goroutine
\* and each query returns or fails within its timeout.
FairSpec == Spec /\ \A c \in Closers : WF_vars(Proceed(c))

----------------------------------------------------------------------------
(* Properties. *)

\* The sign-out that is about to delete the key of s.
Pending(s) == \E c \in Closers : closer[c].pc = "delete" /\ s \in closer[c].todo

\* A session whose row says it was signed out authenticates no request any more,
\* unless its key is about to be deleted, its deletion failed or was cut off by a
\* crash, or a RevokeAllSessions marked a row it had not listed.
SignedOutIsUnusable ==
    \A s \in DOMAIN rows :
        (rows[s].out /\ Usable(s)) => Pending(s) \/ s \in missed \cup lost

\* GetSessions lists no dead session: a row that counts as active stands for a key
\* that authenticates requests, except where a sign-out failed to mark the row.
ListedIsUsable ==
    \A s \in DOMAIN rows :
        (~rows[s].out /\ now < rows[s].exp) => Usable(s) \/ s \in unmarked

\* What a session says of its user is no longer so: the account is gone, has another
\* role, or was deactivated (which a driver's login does not ask).
Stale(u, role) ==
    \/ u \notin DOMAIN account
    \/ account[u].role # role
    \/ ~account[u].active /\ role # "Driver"

\* UpdateUser and DeleteUser end no session; a role or an account that an admin took
\* away is nevertheless worth nothing 24 hours and one request timeout later, even to
\* a login that was under way.
StaleAuthorityEnds ==
    \A s \in DOMAIN redis :
        Stale(owner[s], redis[s].role) =>
            redis[s].exp <= changed[owner[s]] + RequestTimeout + TTL

lifeOf ==
    [s \in Sids |-> IF s \notin DOMAIN owner THEN "unissued"
                    ELSE IF Usable(s) THEN "live" ELSE "ended"]

\* The promise to the user: no session outlives its end.
Life == INSTANCE SessionLife WITH life <- lifeOf

\* Sessions are issued once and never come back after a logout, a revocation or
\* their expiry, whatever handlers and failures interleave.
SessionsNeverReturn == Life!Spec

\* A sign-out that marked a session gets to its key: without a failure the session
\* stops working whether or not time passes.
SignOutTakesEffect ==
    \A s \in Sids :
        (s \in DOMAIN rows /\ rows[s].out) ~> (~Usable(s) \/ s \in missed \cup lost)

----------------------------------------------------------------------------
(* What the repository says of the code, and the runs refute. *)

\* "Delete from Redis (all except current)" (RevokeAllSessions): a session that
\* was marked as logged out is deleted too, where no deletion fails.
MarkedIsDeleted ==
    \A s \in DOMAIN rows : (rows[s].out /\ Usable(s)) => Pending(s) \/ s \in lost

\* "cannot revoke current session" (RevokeSession): the session that authenticated
\* the request is not the one it deletes.
CurrentIsKept ==
    \A c \in Closers :
        (closer[c].pc = "mark" /\ closer[c].kind = "one") =>
            closer[c].auth \notin closer[c].todo

----------------------------------------------------------------------------
(* The inductive invariants behind these properties (SessionsProofs). *)

\* A login about to insert its row: nobody was given the session id, so its key is
\* as the login left it.
Recording ==
    \A l \in Logins :
        login[l].pc = "record" =>
            /\ login[l].sid \in DOMAIN redis \ (held \cup DOMAIN rows)
            /\ redis[login[l].sid].exp = login[l].exp
            /\ \A m \in Logins \ {l} :
                  login[m].pc = "record" => login[m].sid # login[l].sid

\* A sign-out works on sessions that were handed out, and deletes the keys only of
\* rows it has marked or failed to mark.
Closing ==
    \A c \in Closers :
        /\ closer[c].pc \in {"list", "mark"} => closer[c].auth \in held
        /\ closer[c].pc \in {"mark", "delete"} => closer[c].todo \subseteq held
        /\ (closer[c].pc = "mark" /\ closer[c].kind = "all") =>
              \A s \in closer[c].todo :
                  owner[s] = owner[closer[c].auth] /\ s # closer[c].keep
        /\ closer[c].pc = "delete" =>
              \A s \in closer[c].todo \cap DOMAIN rows : rows[s].out \/ s \in unmarked

\* Key and row of a session expire at the same instant, and rows are of held sessions.
RowsMatchKeys ==
    \A s \in DOMAIN rows :
        /\ s \in held
        /\ s \in DOMAIN redis => rows[s].exp = redis[s].exp
        /\ s \notin DOMAIN redis => rows[s].out \/ s \in unmarked

\* A login in flight may hold a role that has been taken away since it began.
LoginsReadBefore ==
    \A l \in Logins :
        (login[l].pc = "set" /\ Stale(login[l].user, login[l].role)) =>
            login[l].start <= changed[login[l].user]

\* No history is in the future, and no key is set for longer than TTL.
Clocked ==
    /\ \A u \in Users : changed[u] <= now
    /\ \A l \in Logins : login[l].pc = "set" => login[l].start <= now
    /\ \A s \in DOMAIN redis : redis[s].exp <= now + TTL
=============================================================================
