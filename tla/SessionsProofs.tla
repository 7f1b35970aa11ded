--------------------------- MODULE SessionsProofs ---------------------------
(***************************************************************************)
(* Theorems about Sessions, for every value of its constants.              *)
(***************************************************************************)
EXTENDS Sessions, TLAPS

----------------------------------------------------------------------------
(* What the executions hold. *)

LEMMA LoginShape ==
    ASSUME TypeOK, NEW l \in Logins
    PROVE  /\ login[l].pc = "set" =>
                 /\ login[l].user \in Users /\ login[l].role \in Roles
                 /\ login[l].client \in Clients /\ login[l].driver \in BOOLEAN
                 /\ login[l].start \in Instants
           /\ login[l].pc = "record" => login[l].sid \in Sids /\ login[l].exp \in Expiries
  BY DEF TypeOK, Login, IdleLogin

LEMMA CloserShape ==
    ASSUME TypeOK, NEW c \in Closers
    PROVE  /\ closer[c] = IdleCloser <=> closer[c].pc = "idle"
           /\ closer[c].todo \subseteq Sids
  BY DEF TypeOK, Closer, IdleCloser

\* A sign-out that goes on to delete the keys in todo.
Deletes(c, todo) ==
    /\ \A d \in Closers \ {c} : closer'[d] = closer[d]
    /\ todo = {} => closer'[c] = IdleCloser
    /\ todo # {} => closer'[c].pc = "delete" /\ closer'[c].todo = todo
    /\ closer' \in [Closers -> Closer]

LEMMA WithTodoDeletes ==
    ASSUME TypeOK, NEW c \in Closers, NEW todo \in SUBSET Sids, closer' = WithTodo(c, todo)
    PROVE  Deletes(c, todo)
<1> DEFINE next == IF todo = {} THEN IdleCloser ELSE [pc |-> "delete", todo |-> todo]
<1>1. next \in Closer
  BY DEF Closer
<1>2. closer' = [closer EXCEPT ![c] = next]
  BY DEF WithTodo
<1> QED
  BY <1>1, <1>2 DEF TypeOK, Deletes

----------------------------------------------------------------------------
(* Keys, rows and what refers to them. *)

Core == TypeOK /\ Recording /\ Closing /\ RowsMatchKeys

LEMMA InitCore == Init => Core
  BY SessionInputs DEF Init, Core, TypeOK, Recording, Closing, RowsMatchKeys, Instants,
     Account, Login, IdleLogin, Closer, IdleCloser

LEMMA TimesAdd ==
    ASSUME NEW t \in Instants
    PROVE  t + TTL \in Expiries
  BY SessionInputs DEF Instants, Expiries

LEMMA BeginLoginCore ==
    ASSUME Core, NEW l \in Logins, NEW u \in Users, NEW client \in Clients,
           BeginLogin(l, u, client) \/ BeginDriverLogin(l, u)
    PROVE  Core'
<1>1. PICK next \in Login :
         /\ next.pc = "set"
         /\ login' = [login EXCEPT ![l] = next]
  <2>1. u \in DOMAIN account => account[u].role \in Roles
    BY DEF Core, TypeOK, Account
  <2>2. CASE BeginLogin(l, u, client)
    <3> DEFINE next == [pc |-> "set", user |-> u, role |-> account[u].role,
                        client |-> client, driver |-> FALSE, start |-> now]
    <3>1. next \in Login /\ next.pc = "set"
      BY <2>1, <2>2 DEF BeginLogin, Login, Core, TypeOK
    <3> QED
      BY <2>2, <3>1 DEF BeginLogin
  <2>3. CASE BeginDriverLogin(l, u)
    <3> DEFINE next == [pc |-> "set", user |-> u, role |-> "Driver",
                        client |-> "mobile-app", driver |-> TRUE, start |-> now]
    <3>1. next \in Login /\ next.pc = "set"
      BY DEF Login, Roles, Clients, Core, TypeOK
    <3> QED
      BY <2>3, <3>1 DEF BeginDriverLogin
  <2> QED
    BY <2>2, <2>3
<1>2. UNCHANGED <<now, account, changed, redis, rows, owner, held, closer, missed, lost, unmarked>>
  BY DEF BeginLogin, BeginDriverLogin, accounts, history
<1>3. TypeOK'
  BY <1>1, <1>2 DEF Core, TypeOK
<1>4. Recording'
  BY <1>1, <1>2 DEF Core, TypeOK, Recording
<1>5. Closing' /\ RowsMatchKeys'
  BY <1>2 DEF Core, Closing, RowsMatchKeys
<1> QED
  BY <1>3, <1>4, <1>5 DEF Core

LEMMA EndLoginCore ==
    ASSUME Core, NEW l \in Logins, FailLogin(l) \/ SkipRow(l)
    PROVE  Core'
<1>1. /\ login' = [login EXCEPT ![l] = IdleLogin]
      /\ held' = held \/ (login[l].pc = "record" /\ held' = held \cup {login[l].sid})
      /\ UNCHANGED <<now, account, changed, redis, rows, owner, closer, missed, lost, unmarked>>
  BY DEF FailLogin, SkipRow, accounts, history
<1>2. login[l].pc = "record" => login[l].sid \in DOMAIN owner
  BY DEF Core, TypeOK, Recording
<1>3. TypeOK'
  BY <1>1, <1>2 DEF Core, TypeOK, Login
<1>4. Recording'
  BY <1>1 DEF Core, TypeOK, Recording, IdleLogin
<1>5. Closing' /\ RowsMatchKeys'
  BY <1>1 DEF Core, Closing, RowsMatchKeys
<1> QED
  BY <1>3, <1>4, <1>5 DEF Core

LEMMA CreateSessionCore ==
    ASSUME Core, NEW l \in Logins, NEW s \in Sids, CreateSession(l, s)
    PROVE  Core'
<1> DEFINE record == [pc |-> "record", sid |-> s, exp |-> now + TTL]
<1>1. /\ login[l].pc = "set" /\ s \notin DOMAIN owner
      /\ owner' = [t \in DOMAIN owner \cup {s} |-> IF t = s THEN login[l].user ELSE owner[t]]
      /\ redis' = [t \in DOMAIN redis \cup {s} |-> IF t = s THEN NewKey(l) ELSE redis[t]]
      /\ held' \in {held, held \cup {s}}
      /\ held' = held \/ login' = [login EXCEPT ![l] = IdleLogin]
      /\ \/ login' = [login EXCEPT ![l] = IdleLogin]
         \/ login' = [login EXCEPT ![l] = record]
      /\ UNCHANGED <<now, account, changed, rows, closer, missed, lost, unmarked>>
  BY DEF CreateSession, FreshIds, accounts, history
<1>2. now + TTL \in Expiries
  BY TimesAdd DEF Core, TypeOK
<1>3. NewKey(l) \in Key /\ NewKey(l).exp = now + TTL
  BY <1>1, <1>2, LoginShape DEF NewKey, Key, Core
<1>4. login[l].user \in Users
  BY <1>1, LoginShape DEF Core
<1>5. record \in Login /\ IdleLogin \in Login
  BY <1>2 DEF Login
<1>6. DOMAIN redis \subseteq DOMAIN owner /\ DOMAIN rows \subseteq DOMAIN owner /\ held \subseteq DOMAIN owner
  BY DEF Core, TypeOK
<1>7. TypeOK'
  BY <1>1, <1>3, <1>4, <1>5, <1>6 DEF Core, TypeOK
<1>8. Recording'
  <2>1. ASSUME NEW m \in Logins, login'[m].pc = "record"
        PROVE  /\ login'[m].sid \in DOMAIN redis' \ (held' \cup DOMAIN rows')
               /\ redis'[login'[m].sid].exp = login'[m].exp
               /\ m # l => login'[m] = login[m] /\ login'[m].sid # s
               /\ m = l => login'[m].sid = s
    <3>1. CASE m = l
      BY <1>1, <1>3, <1>6, <2>1, <3>1 DEF Core, TypeOK, IdleLogin
    <3>2. CASE m # l
      <4>1. login'[m] = login[m]
        BY <1>1, <3>2 DEF Core, TypeOK
      <4>2. /\ login[m].sid \in DOMAIN redis \ (held \cup DOMAIN rows)
            /\ redis[login[m].sid].exp = login[m].exp
        BY <2>1, <4>1 DEF Core, Recording
      <4> QED
        BY <1>1, <1>6, <3>2, <4>1, <4>2
    <3> QED
      BY <3>1, <3>2
  <2> QED
    BY <2>1 DEF Core, Recording
<1>9. Closing'
  BY <1>1, <1>6 DEF Core, Closing
<1>10. RowsMatchKeys'
  BY <1>1, <1>6 DEF Core, RowsMatchKeys
<1> QED
  BY <1>7, <1>8, <1>9, <1>10 DEF Core

LEMMA StoreSessionCore ==
    ASSUME Core, NEW l \in Logins, StoreSession(l)
    PROVE  Core'
<1>a. PICK sid : sid = login[l].sid
  OBVIOUS
<1>b. PICK row : row = [exp |-> login[l].exp, out |-> FALSE]
  OBVIOUS
<1>1. /\ login[l].pc = "record"
      /\ rows' = [t \in DOMAIN rows \cup {sid} |-> IF t = sid THEN row ELSE rows[t]]
      /\ held' = held \cup {sid}
      /\ login' = [login EXCEPT ![l] = IdleLogin]
      /\ UNCHANGED <<now, account, changed, redis, owner, closer, missed, lost, unmarked>>
  BY <1>a, <1>b DEF StoreSession, accounts, history
<1>2. /\ sid \in DOMAIN redis \ (held \cup DOMAIN rows) /\ sid \in DOMAIN owner
      /\ row \in Row /\ row.exp = redis[sid].exp
  BY <1>1, <1>a, <1>b, LoginShape DEF Core, TypeOK, Recording, Row
<1>3. TypeOK'
  BY <1>1, <1>2 DEF Core, TypeOK, Login
<1>4. Recording'
  BY <1>1, <1>a DEF Core, TypeOK, Recording, IdleLogin
<1>5. Closing'
  BY <1>1, <1>2 DEF Core, Closing
<1>6. RowsMatchKeys'
  BY <1>1, <1>2 DEF Core, RowsMatchKeys
<1> QED
  BY <1>3, <1>4, <1>5, <1>6 DEF Core

\* A sign-out that starts, or goes on without touching a store.
LEMMA CloserMovesCore ==
    ASSUME Core, NEW c \in Closers, NEW next \in Closer,
           closer' = [closer EXCEPT ![c] = next],
           /\ next.pc \in {"list", "mark"} => next.auth \in held
           /\ next.pc # "delete"
           /\ next.pc = "mark" => next.todo \subseteq held
           /\ (next.pc = "mark" /\ next.kind = "all") =>
                 \A s \in next.todo : owner[s] = owner[next.auth] /\ s # next.keep,
           UNCHANGED <<now, account, changed, redis, rows, owner, held, login,
                       missed, lost, unmarked>>
    PROVE  Core'
<1>1. TypeOK'
  BY DEF Core, TypeOK
<1>2. Recording' /\ RowsMatchKeys'
  BY DEF Core, Recording, RowsMatchKeys
<1>3. Closing'
  BY DEF Core, TypeOK, Closing
<1> QED
  BY <1>1, <1>2, <1>3 DEF Core

LEMMA BeginCloseCore ==
    ASSUME Core, NEW c \in Closers, NEW s \in Sids, NEW target \in Sids,
           NEW cookie \in Sids \cup {NoSid},
           \/ BeginLogout(c, s)
           \/ BeginRevoke(c, s, cookie, target)
           \/ BeginRevokeAll(c, s, cookie)
    PROVE  Core'
<1>1. PICK next \in Closer :
         /\ next.auth = s /\ s \in held
         /\ \/ next.pc = "list"
            \/ next.pc = "mark" /\ next.kind = "logout" /\ next.todo = {s}
         /\ closer' = [closer EXCEPT ![c] = next]
  <2>1. CASE BeginLogout(c, s)
    <3> DEFINE next == [pc |-> "mark", kind |-> "logout", auth |-> s, keep |-> s, todo |-> {s}]
    <3>1. next \in Closer
      BY DEF Closer
    <3> QED
      BY <2>1, <3>1 DEF BeginLogout
  <2>2. CASE BeginRevoke(c, s, cookie, target)
    <3> DEFINE next == [pc |-> "list", kind |-> "one", auth |-> s, keep |-> cookie,
                        todo |-> {target}]
    <3>1. next \in Closer
      BY DEF Closer
    <3> QED
      BY <2>2, <3>1 DEF BeginRevoke
  <2>3. CASE BeginRevokeAll(c, s, cookie)
    <3> DEFINE next == [pc |-> "list", kind |-> "all", auth |-> s, keep |-> cookie, todo |-> {}]
    <3>1. next \in Closer
      BY DEF Closer
    <3> QED
      BY <2>3, <3>1 DEF BeginRevokeAll
  <2> QED
    BY <2>1, <2>2, <2>3
<1>2. UNCHANGED <<now, account, changed, redis, rows, owner, held, login, missed, lost, unmarked>>
  BY DEF BeginLogout, BeginRevoke, BeginRevokeAll, accounts, history
<1> QED
  BY <1>1, <1>2, CloserMovesCore

LEMMA ListSessionsCore ==
    ASSUME Core, NEW c \in Closers, ListSessions(c) \/ FailListing(c)
    PROVE  Core'
<1> DEFINE listed == UserSessions(owner[closer[c].auth])
<1>a. PICK k, a, kp, td :
         /\ k = closer[c].kind /\ a = closer[c].auth /\ kp = closer[c].keep
         /\ td = closer[c].todo
  OBVIOUS
<1>1. /\ closer[c].pc = "list" /\ closer[c] # IdleCloser
      /\ UNCHANGED <<now, account, changed, redis, rows, owner, held, login,
                     missed, lost, unmarked>>
  BY DEF ListSessions, FailListing, accounts, history, IdleCloser
<1>2. closer[c] \in [pc : {"list", "mark"}, kind : {"logout", "one", "all"},
                     auth : Sids, keep : Sids \cup {NoSid}, todo : SUBSET Sids]
  BY <1>1 DEF Core, TypeOK, Closer, IdleCloser
<1> DEFINE all == [closer[c] EXCEPT !.pc = "mark", !.todo = listed \ {kp}]
           one == [closer[c] EXCEPT !.pc = "mark"]
<1>3. /\ all.pc = "mark" /\ all.kind = k /\ all.auth = a /\ all.keep = kp
      /\ all.todo = listed \ {kp}
      /\ one.pc = "mark" /\ one.kind = k /\ one.auth = a /\ one.keep = kp /\ one.todo = td
  <2> HIDE DEF listed
  <2> QED
    BY <1>2, <1>a
<1>4. /\ listed \subseteq held
      /\ \A s \in listed : owner[s] = owner[a]
      /\ a \in held
  BY <1>a, <1>1 DEF UserSessions, Core, RowsMatchKeys, Closing
<1>5. held \subseteq Sids
  BY DEF Core, TypeOK
<1>6. all \in Closer /\ one \in Closer /\ IdleCloser \in Closer
  <2>1. listed \ {kp} \subseteq Sids
    BY <1>4, <1>5
  <2> HIDE DEF listed
  <2> QED
    BY <1>2, <1>a, <2>1 DEF Closer
<1>7. \/ closer' = [closer EXCEPT ![c] = IdleCloser]
      \/ k = "all" /\ closer' = [closer EXCEPT ![c] = all]
      \/ k # "all" /\ td \subseteq listed /\ closer' = [closer EXCEPT ![c] = one]
  BY <1>a DEF ListSessions, FailListing
<1> HIDE DEF listed, all, one
<1>8. CASE closer' = [closer EXCEPT ![c] = IdleCloser]
  BY <1>1, <1>6, <1>8, CloserMovesCore DEF IdleCloser
<1>9. CASE k = "all" /\ closer' = [closer EXCEPT ![c] = all]
  BY <1>1, <1>3, <1>4, <1>6, <1>9, CloserMovesCore
<1>10. CASE k # "all" /\ td \subseteq listed /\ closer' = [closer EXCEPT ![c] = one]
  BY <1>1, <1>3, <1>4, <1>6, <1>10, CloserMovesCore
<1> QED
  BY <1>7, <1>8, <1>9, <1>10

LEMMA MarkCore ==
    ASSUME Core, NEW c \in Closers, MarkLoggedOut(c) \/ FailToMark(c)
    PROVE  Core' /\ Deletes(c, closer[c].todo)
<1>1. /\ closer[c].pc = "mark" /\ closer[c] # IdleCloser
      /\ closer' = WithTodo(c, closer[c].todo)
      /\ UNCHANGED <<now, account, changed, redis, owner, held, login, lost>>
  BY DEF MarkLoggedOut, FailToMark, accounts, IdleCloser
<1>2. closer[c].todo \subseteq Sids
  BY <1>1, CloserShape DEF Core
<1>3. Deletes(c, closer[c].todo)
  BY <1>1, <1>2, WithTodoDeletes DEF Core
<1>4. /\ DOMAIN rows' = DOMAIN rows /\ rows' \in [DOMAIN rows -> Row]
      /\ \A s \in DOMAIN rows : rows'[s].exp = rows[s].exp /\ (rows[s].out => rows'[s].out)
      /\ unmarked \subseteq unmarked'
  <2>1. CASE FailToMark(c)
    BY <2>1 DEF FailToMark, Core, TypeOK
  <2>2. CASE MarkLoggedOut(c)
    <3>1. rows' = [s \in DOMAIN rows |->
                     IF s \in ToMark(c) THEN [rows[s] EXCEPT !.out = TRUE] ELSE rows[s]]
      BY <2>2 DEF MarkLoggedOut
    <3>2. ASSUME NEW s \in DOMAIN rows
          PROVE  /\ rows[s] \in Row /\ [rows[s] EXCEPT !.out = TRUE] \in Row
                 /\ [rows[s] EXCEPT !.out = TRUE].exp = rows[s].exp
                 /\ [rows[s] EXCEPT !.out = TRUE].out
      BY DEF Core, TypeOK, Row
    <3> QED
      BY <2>2, <3>1, <3>2 DEF MarkLoggedOut
  <2> QED
    BY <2>1, <2>2
<1>5. missed' \subseteq Sids /\ unmarked' \subseteq Sids
  BY <1>2 DEF MarkLoggedOut, FailToMark, ToMark, Core, TypeOK
<1>6. \A s \in closer[c].todo \cap DOMAIN rows : rows'[s].out \/ s \in unmarked'
  <2>1. CASE FailToMark(c)
    BY <2>1 DEF FailToMark
  <2>2. CASE MarkLoggedOut(c)
    <3>1. \A s \in closer[c].todo \cap DOMAIN rows : rows[s].out \/ s \in ToMark(c)
      BY <1>1 DEF ToMark, Core, Closing
    <3>2. \A s \in ToMark(c) : s \in DOMAIN rows => rows'[s].out
      BY <2>2 DEF MarkLoggedOut, Core, TypeOK, Row
    <3> QED
      BY <1>4, <3>1, <3>2
  <2> QED
    BY <2>1, <2>2
<1>7. TypeOK'
  BY <1>1, <1>3, <1>4, <1>5 DEF Core, TypeOK, Deletes
<1>8. Recording'
  BY <1>1, <1>4 DEF Core, Recording
<1>9. RowsMatchKeys'
  BY <1>1, <1>4 DEF Core, RowsMatchKeys
<1>10. Closing'
  <2>1. ASSUME NEW d \in Closers
        PROVE  /\ closer'[d].pc \in {"list", "mark"} => closer'[d].auth \in held'
               /\ closer'[d].pc \in {"mark", "delete"} => closer'[d].todo \subseteq held'
               /\ (closer'[d].pc = "mark" /\ closer'[d].kind = "all") =>
                     \A s \in closer'[d].todo :
                         owner'[s] = owner'[closer'[d].auth] /\ s # closer'[d].keep
               /\ closer'[d].pc = "delete" =>
                     \A s \in closer'[d].todo \cap DOMAIN rows' : rows'[s].out \/ s \in unmarked'
    <3>1. CASE d = c
      <4>1. closer[c].todo \subseteq held
        BY <1>1 DEF Core, Closing
      <4>2. CASE closer[c].todo = {}
        BY <1>3, <3>1, <4>2 DEF Deletes, IdleCloser
      <4>3. CASE closer[c].todo # {}
        BY <1>1, <1>3, <1>4, <1>6, <3>1, <4>1, <4>3 DEF Deletes
      <4> QED
        BY <4>2, <4>3
    <3>2. CASE d # c
      BY <1>1, <1>3, <1>4, <2>1, <3>2 DEF Deletes, Core, Closing
    <3> QED
      BY <3>1, <3>2
  <2> QED
    BY <2>1 DEF Closing
<1> QED
  BY <1>3, <1>7, <1>8, <1>9, <1>10 DEF Core

LEMMA DeleteCore ==
    ASSUME Core, NEW c \in Closers, NEW s \in Sids, DeleteKey(c, s) \/ FailToDelete(c, s)
    PROVE  Core' /\ Deletes(c, closer[c].todo \ {s})
<1>1. /\ closer[c].pc = "delete" /\ closer[c] # IdleCloser /\ s \in closer[c].todo
      /\ closer' = WithTodo(c, closer[c].todo \ {s})
      /\ redis' = redis \/ redis' = [t \in DOMAIN redis \ {s} |-> redis[t]]
      /\ lost' \in {lost, lost \cup {s}}
      /\ UNCHANGED <<now, account, changed, rows, owner, held, login, missed, unmarked>>
  BY DEF DeleteKey, FailToDelete, accounts, history, IdleCloser
<1>2. Deletes(c, closer[c].todo \ {s})
  BY <1>1, CloserShape, WithTodoDeletes DEF Core
<1>3. s \in held /\ (s \in DOMAIN rows => rows[s].out \/ s \in unmarked)
  BY <1>1 DEF Core, Closing
<1>4. TypeOK'
  BY <1>1, <1>2 DEF Core, TypeOK, Deletes
<1>5. Recording'
  BY <1>1, <1>3 DEF Core, Recording
<1>6. RowsMatchKeys'
  BY <1>1, <1>3 DEF Core, RowsMatchKeys
<1>7. Closing'
  <2>1. ASSUME NEW d \in Closers
        PROVE  /\ closer'[d].pc \in {"list", "mark"} => closer'[d].auth \in held'
               /\ closer'[d].pc \in {"mark", "delete"} => closer'[d].todo \subseteq held'
               /\ (closer'[d].pc = "mark" /\ closer'[d].kind = "all") =>
                     \A k \in closer'[d].todo :
                         owner'[k] = owner'[closer'[d].auth] /\ k # closer'[d].keep
               /\ closer'[d].pc = "delete" =>
                     \A k \in closer'[d].todo \cap DOMAIN rows' : rows'[k].out \/ k \in unmarked'
    <3>1. CASE d = c
      <4>1. /\ closer[c].todo \subseteq held
            /\ \A t \in closer[c].todo \cap DOMAIN rows : rows[t].out \/ t \in unmarked
        BY <1>1 DEF Core, Closing
      <4>2. CASE closer[c].todo \ {s} = {}
        BY <1>2, <3>1, <4>2 DEF Deletes, IdleCloser
      <4>3. CASE closer[c].todo \ {s} # {}
        BY <1>1, <1>2, <3>1, <4>1, <4>3 DEF Deletes
      <4> QED
        BY <4>2, <4>3
    <3>2. CASE d # c
      <4>1. closer'[d] = closer[d]
        BY <1>2, <3>2 DEF Deletes
      <4>2. /\ closer[d].pc \in {"list", "mark"} => closer[d].auth \in held
            /\ closer[d].pc \in {"mark", "delete"} => closer[d].todo \subseteq held
            /\ (closer[d].pc = "mark" /\ closer[d].kind = "all") =>
                  \A k \in closer[d].todo : owner[k] = owner[closer[d].auth] /\ k # closer[d].keep
            /\ closer[d].pc = "delete" =>
                  \A k \in closer[d].todo \cap DOMAIN rows : rows[k].out \/ k \in unmarked
        BY <2>1 DEF Core, Closing
      <4>3. rows' = rows /\ owner' = owner /\ held' = held /\ unmarked' = unmarked
        BY <1>1
      <4> QED
        BY <4>1, <4>2, <4>3
    <3> QED
      BY <3>1, <3>2
  <2> QED
    BY <2>1 DEF Closing
<1> QED
  BY <1>2, <1>4, <1>5, <1>6, <1>7 DEF Core

LEMMA CoreStep == Core /\ [Next]_vars => Core'
<1> SUFFICES ASSUME Core, [Next]_vars PROVE Core'
  OBVIOUS
<1>1. ASSUME NEW l \in Logins, LoginStep(l) PROVE Core'
  BY <1>1, BeginLoginCore, CreateSessionCore, StoreSessionCore, EndLoginCore
     DEF LoginStep, Clients
<1>2. ASSUME NEW c \in Closers, CloserStep(c) PROVE Core'
  BY <1>2, BeginCloseCore, ListSessionsCore, MarkCore, DeleteCore DEF CloserStep, Proceed
<1>3. CASE AccountStep
  <2>1. ASSUME NEW u \in Users, NEW role \in NewRoles, NEW active \in BOOLEAN,
               UpdateUser(u, role, active)
        PROVE  Core'
    <3>1. [role |-> role, active |-> active] \in Account
      BY SessionInputs DEF Account
    <3>2. TypeOK'
      BY <2>1, <3>1 DEF UpdateUser, Core, TypeOK, history
    <3> QED
      BY <2>1, <3>2 DEF UpdateUser, Core, Recording, Closing, RowsMatchKeys, history
  <2>2. ASSUME NEW u \in Users, DeleteUser(u) PROVE Core'
    <3>1. TypeOK'
      BY <2>2 DEF DeleteUser, Core, TypeOK, history
    <3> QED
      BY <2>2, <3>1 DEF DeleteUser, Core, Recording, Closing, RowsMatchKeys, history
  <2> QED
    BY <1>3, <2>1, <2>2 DEF AccountStep
<1>4. CASE Crash
  <2>1. CutOff \subseteq Sids
    BY CloserShape DEF CutOff, Core, IdleCloser
  <2>2. TypeOK'
    BY <1>4, <2>1 DEF Crash, Core, TypeOK, Login, Closer, accounts
  <2> QED
    BY <1>4, <2>2 DEF Crash, Core, Recording, Closing, RowsMatchKeys, IdleLogin, IdleCloser, accounts
<1>5. CASE Tick
  <2>1. TypeOK'
    BY <1>5, SessionInputs DEF Tick, Core, TypeOK, Instants, accounts, history
  <2> QED
    BY <1>5, <2>1 DEF Tick, Core, Recording, Closing, RowsMatchKeys, accounts, history
<1>6. CASE UNCHANGED vars
  BY <1>6 DEF vars, accounts, history, Core, TypeOK, Recording, Closing, RowsMatchKeys
<1> QED
  BY <1>1, <1>2, <1>3, <1>4, <1>5, <1>6 DEF Next

\* No login's key is deleted before its row is inserted, and a sign-out deletes
\* keys of rows that it marked or failed to mark only.
THEOREM CoreInvariance == Spec => []Core
<1>1. Spec => Init /\ [][Next]_vars
  BY DEF Spec
<1> QED
  BY <1>1, InitCore, CoreStep, PTL

\* The declared types of the stores and of the handlers' locals are kept.
THEOREM SessionsTypeCorrect == Spec => []TypeOK
<1>1. Core => TypeOK
  BY DEF Core
<1> QED
  BY <1>1, CoreInvariance, PTL

\* GetSessions never lists a session that has stopped working, unless a sign-out
\* failed to mark its row.
THEOREM ListingCorrect == Spec => []ListedIsUsable
<1>1. Core => ListedIsUsable
  BY DEF Core, TypeOK, RowsMatchKeys, ListedIsUsable, Usable
<1> QED
  BY <1>1, CoreInvariance, PTL

----------------------------------------------------------------------------
(* A session that was signed out is on its way out. *)

\* What a step must keep for the promise to hold on.
LEMMA SignedOutKept ==
    ASSUME SignedOutIsUnusable,
           \A s \in DOMAIN rows' : rows'[s].out => s \in DOMAIN rows /\ rows[s].out,
           \A s \in DOMAIN rows : Usable(s)' => Usable(s),
           \A s : Pending(s) => Pending(s)' \/ s \in lost',
           missed \subseteq missed', lost \subseteq lost'
    PROVE  SignedOutIsUnusable'
  BY DEF SignedOutIsUnusable

LEMMA PendingElsewhere ==
    ASSUME TypeOK, NEW c \in Closers, closer[c].pc # "delete",
           \A d \in Closers \ {c} : closer'[d] = closer[d], NEW s
    PROVE  Pending(s) => Pending(s)'
  BY DEF Pending

LEMMA MarkSignedOut ==
    ASSUME Core, SignedOutIsUnusable, NEW c \in Closers, MarkLoggedOut(c)
    PROVE  SignedOutIsUnusable'
<1>1. /\ closer[c].pc = "mark" /\ Deletes(c, closer[c].todo)
      /\ UNCHANGED <<now, redis, lost>> /\ missed' = missed \cup (ToMark(c) \ closer[c].todo)
  BY MarkCore DEF MarkLoggedOut
<1>2. /\ DOMAIN rows' = DOMAIN rows
      /\ \A s \in DOMAIN rows \ ToMark(c) : rows'[s] = rows[s]
  BY DEF MarkLoggedOut
<1>3. SUFFICES ASSUME NEW s \in DOMAIN rows', rows'[s].out, Usable(s)'
               PROVE  Pending(s)' \/ s \in missed' \cup lost'
  BY DEF SignedOutIsUnusable
<1>4. CASE s \in ToMark(c)
  BY <1>1, <1>4 DEF Pending, Deletes
<1>5. CASE s \notin ToMark(c)
  <2>1. rows[s].out /\ Usable(s) /\ s \in DOMAIN rows
    BY <1>1, <1>2, <1>3, <1>5 DEF Usable
  <2>2. Pending(s) \/ s \in missed \cup lost
    BY <2>1 DEF SignedOutIsUnusable
  <2>3. Pending(s) => Pending(s)'
    BY <1>1 DEF Pending, Deletes
  <2> QED
    BY <1>1, <2>2, <2>3
<1> QED
  BY <1>4, <1>5

LEMMA DeleteSignedOut ==
    ASSUME Core, SignedOutIsUnusable, NEW c \in Closers, NEW t \in Sids,
           DeleteKey(c, t) \/ FailToDelete(c, t)
    PROVE  SignedOutIsUnusable'
<1>1. /\ closer[c].pc = "delete" /\ Deletes(c, closer[c].todo \ {t})
      /\ UNCHANGED <<now, rows, missed>>
      /\ \/ lost' = lost /\ redis' = [s \in DOMAIN redis \ {t} |-> redis[s]]
         \/ lost' = lost \cup {t} /\ redis' = redis
  BY DeleteCore DEF DeleteKey, FailToDelete, history
<1>2. SUFFICES ASSUME NEW s \in DOMAIN rows, rows[s].out, Usable(s)'
               PROVE  Pending(s)' \/ s \in missed' \cup lost'
  BY <1>1 DEF SignedOutIsUnusable
<1>3. Usable(s) /\ (s = t => t \in lost')
  BY <1>1, <1>2 DEF Usable
<1>4. Pending(s) \/ s \in missed \cup lost
  BY <1>2, <1>3 DEF SignedOutIsUnusable
<1>5. ASSUME Pending(s), s # t PROVE Pending(s)'
  <2>1. PICK d \in Closers : closer[d].pc = "delete" /\ s \in closer[d].todo
    BY <1>5 DEF Pending
  <2>2. CASE d = c
    <3>1. s \in closer[c].todo \ {t}
      BY <1>5, <2>1, <2>2
    <3> QED
      BY <1>1, <3>1 DEF Pending, Deletes
  <2>3. CASE d # c
    <3>1. closer'[d] = closer[d]
      BY <1>1, <2>3 DEF Deletes
    <3> QED
      BY <2>1, <3>1 DEF Pending
  <2> QED
    BY <2>2, <2>3
<1> QED
  BY <1>1, <1>3, <1>4, <1>5

LEMMA SignedOutStep ==
    Core /\ Core' /\ SignedOutIsUnusable /\ [Next]_vars => SignedOutIsUnusable'
<1> SUFFICES ASSUME Core, Core', SignedOutIsUnusable, [Next]_vars
             PROVE  SignedOutIsUnusable'
  OBVIOUS
<1>1. ASSUME NEW l \in Logins, LoginStep(l) PROVE SignedOutIsUnusable'
  <2>1. UNCHANGED <<now, closer, missed, lost>>
    BY <1>1 DEF LoginStep, BeginLogin, BeginDriverLogin, CreateSession, StoreSession, SkipRow,
                FailLogin, history
  <2>2. \A s : Pending(s) => Pending(s)'
    BY <2>1 DEF Pending
  <2>3. \A s \in DOMAIN rows' : rows'[s].out => s \in DOMAIN rows /\ rows[s].out
    <3>1. CASE UNCHANGED rows
      BY <3>1
    <3>2. CASE StoreSession(l)
      <4>1. rows' = [t \in DOMAIN rows \cup {login[l].sid} |->
                       IF t = login[l].sid THEN [exp |-> login[l].exp, out |-> FALSE]
                       ELSE rows[t]]
        BY <3>2 DEF StoreSession
      <4> QED
        BY <4>1
    <3> QED
      BY <1>1, <3>1, <3>2 DEF LoginStep, BeginLogin, BeginDriverLogin, CreateSession, SkipRow,
                              FailLogin
  <2>4. \A s \in DOMAIN rows : Usable(s)' => Usable(s)
    <3>1. UNCHANGED redis \/ \E s \in FreshIds : \A t \in DOMAIN owner : t \in DOMAIN redis' => t \in DOMAIN redis /\ redis'[t] = redis[t]
      BY <1>1 DEF LoginStep, BeginLogin, BeginDriverLogin, CreateSession, StoreSession, SkipRow,
                  FailLogin, FreshIds
    <3> QED
      BY <2>1, <3>1 DEF Usable, Core, TypeOK
  <2> QED
    BY <2>1, <2>2, <2>3, <2>4, SignedOutKept
<1>2. ASSUME NEW c \in Closers, closer[c].pc # "delete",
             \A d \in Closers \ {c} : closer'[d] = closer[d],
             UNCHANGED <<now, redis, rows, missed, lost>>
      PROVE  SignedOutIsUnusable'
  <2>1. \A s : Pending(s) => Pending(s)'
    BY <1>2, PendingElsewhere DEF Core
  <2> QED
    BY <1>2, <2>1, SignedOutKept DEF Usable
<1>3. ASSUME NEW c \in Closers, CloserStep(c) PROVE SignedOutIsUnusable'
  <2>1. ASSUME NEW s \in Sids, NEW target \in Sids, NEW cookie \in Sids \cup {NoSid},
               \/ BeginLogout(c, s)
               \/ BeginRevoke(c, s, cookie, target)
               \/ BeginRevokeAll(c, s, cookie)
        PROVE  SignedOutIsUnusable'
    BY <1>2, <2>1 DEF BeginLogout, BeginRevoke, BeginRevokeAll, IdleCloser, history, Core, TypeOK
  <2>2. CASE ListSessions(c) \/ FailListing(c)
    BY <1>2, <2>2 DEF ListSessions, FailListing, history, Core, TypeOK
  <2>3. CASE FailToMark(c)
    <3>1. Deletes(c, closer[c].todo)
      BY <2>3, MarkCore
    <3> QED
      BY <1>2, <2>3, <3>1 DEF FailToMark, Deletes
  <2> QED
    BY <1>3, <2>1, <2>2, <2>3, MarkSignedOut, DeleteSignedOut DEF CloserStep, Proceed
<1>4. CASE AccountStep
  <2>1. /\ UNCHANGED <<now, redis, closer, missed, lost>>
        /\ \A s \in DOMAIN rows' : s \in DOMAIN rows /\ rows'[s] = rows[s]
    BY <1>4 DEF AccountStep, UpdateUser, DeleteUser, history
  <2>2. \A s : Pending(s) => Pending(s)'
    BY <2>1 DEF Pending
  <2> QED
    BY <2>1, <2>2, SignedOutKept DEF Usable
<1>5. CASE Crash
  <2>1. \A s : Pending(s) => s \in lost'
    BY <1>5 DEF Crash, Pending, CutOff
  <2> QED
    BY <1>5, <2>1, SignedOutKept DEF Crash, Usable
<1>6. CASE Tick
  <2>1. UNCHANGED <<redis, rows, closer, missed, lost>> /\ now' = now + 1
    BY <1>6 DEF Tick, history
  <2>2. \A s : Usable(s)' => Usable(s)
    BY <2>1, SessionInputs DEF Usable, Core, TypeOK, Instants, Expiries, Key
  <2>3. \A s : Pending(s) => Pending(s)'
    BY <2>1 DEF Pending
  <2> QED
    BY <2>1, <2>2, <2>3, SignedOutKept
<1>7. CASE UNCHANGED vars
  <2>1. \A s : (Pending(s) => Pending(s)') /\ (Usable(s)' => Usable(s))
    BY <1>7 DEF vars, history, Pending, Usable
  <2> QED
    BY <1>7, <2>1, SignedOutKept DEF vars, history
<1> QED
  BY <1>1, <1>3, <1>4, <1>5, <1>6, <1>7 DEF Next

\* Whatever sign-outs, logins, account changes and crashes interleave, a session
\* whose row is marked works on only in the cases SignedOutIsUnusable names.
THEOREM SignedOutCorrect == Spec => []SignedOutIsUnusable
<1>1. Spec => Init /\ [][Next]_vars
  BY DEF Spec
<1>2. Init => SignedOutIsUnusable
  BY DEF Init, SignedOutIsUnusable
<1> QED
  BY <1>1, <1>2, SignedOutStep, CoreInvariance, PTL

----------------------------------------------------------------------------
(* Authority that was taken away ends with the session. *)

AuthorityInv == Clocked /\ LoginsReadBefore /\ StaleAuthorityEnds

LEMMA AuthorityStep ==
    Core /\ Core' /\ AuthorityInv /\ [Next]_vars => AuthorityInv'
<1> SUFFICES ASSUME Core, Core', AuthorityInv, [Next]_vars PROVE AuthorityInv'
  OBVIOUS
<1> USE DEF AuthorityInv, Clocked, LoginsReadBefore, StaleAuthorityEnds
<1>a. /\ now \in Nat /\ TTL \in Nat /\ RequestTimeout \in Nat
      /\ \A u \in Users : changed[u] \in Nat
      /\ \A s \in DOMAIN redis : redis[s].exp \in Nat /\ owner[s] \in Users
      /\ \A l \in Logins : login[l].pc = "set" =>
            login[l].start \in Nat /\ login[l].user \in Users
  BY SessionInputs, LoginShape DEF Core, TypeOK, Instants, Expiries, Key
<1>1. ASSUME UNCHANGED <<now, account, changed>>,
             \A s \in DOMAIN redis' :
                s \in DOMAIN redis /\ redis'[s] = redis[s] /\ owner'[s] = owner[s],
             \A l \in Logins : login'[l].pc = "set" => login'[l] = login[l]
      PROVE  AuthorityInv'
  BY <1>1 DEF Stale
<1>2. ASSUME NEW l \in Logins, LoginStep(l) PROVE AuthorityInv'
  <2>1. ASSUME NEW u \in Users, NEW client \in Clients,
               BeginLogin(l, u, client) \/ BeginDriverLogin(l, u)
        PROVE  AuthorityInv'
    <3>1. /\ UNCHANGED <<now, account, changed, redis, owner>>
          /\ \A m \in Logins \ {l} : login'[m] = login[m]
      BY <2>1 DEF BeginLogin, BeginDriverLogin, accounts, Core, TypeOK
    <3>2. login'[l].start = now /\ ~Stale(login'[l].user, login'[l].role)
      BY <2>1 DEF BeginLogin, BeginDriverLogin, Stale, Core, TypeOK
    <3>3. \A u1, r1 : Stale(u1, r1)' = Stale(u1, r1)
      BY <3>1 DEF Stale
    <3> QED
      BY <1>a, <3>1, <3>2, <3>3 DEF Stale
  <2>2. ASSUME NEW s \in Sids, CreateSession(l, s)
        PROVE  AuthorityInv'
    <3>1. /\ login[l].pc = "set" /\ now - login[l].start <= RequestTimeout
          /\ s \notin DOMAIN owner
          /\ redis' = [t \in DOMAIN redis \cup {s} |-> IF t = s THEN NewKey(l) ELSE redis[t]]
          /\ owner' = [t \in DOMAIN owner \cup {s} |-> IF t = s THEN login[l].user ELSE owner[t]]
          /\ \A m \in Logins : login'[m].pc = "set" => login'[m] = login[m]
          /\ UNCHANGED <<now, account, changed>>
      BY <2>2 DEF CreateSession, InTime, FreshIds, accounts, IdleLogin, Core, TypeOK
    <3>2. NewKey(l).role = login[l].role /\ NewKey(l).exp = now + TTL
      BY DEF NewKey
    <3>3. Stale(login[l].user, login[l].role) =>
             now + TTL <= changed[login[l].user] + RequestTimeout + TTL
      BY <1>a, <3>1
    <3>4. \A t \in DOMAIN redis' :
             IF t = s THEN redis'[t] = NewKey(l) /\ owner'[t] = login[l].user
             ELSE t \in DOMAIN redis /\ redis'[t] = redis[t] /\ owner'[t] = owner[t]
      BY <3>1 DEF Core, TypeOK
    <3>5. \A u1, r1 : Stale(u1, r1)' = Stale(u1, r1)
      BY <3>1 DEF Stale
    <3>6. Clocked'
      BY <1>a, <3>1, <3>2, <3>4
    <3>7. LoginsReadBefore'
      BY <3>1, <3>5
    <3>8. StaleAuthorityEnds'
      BY <3>1, <3>2, <3>3, <3>4, <3>5
    <3> QED
      BY <3>6, <3>7, <3>8
  <2>3. CASE StoreSession(l) \/ SkipRow(l) \/ FailLogin(l)
    BY <1>1, <2>3 DEF StoreSession, SkipRow, FailLogin, accounts, IdleLogin, Core, TypeOK
  <2> QED
    BY <1>2, <2>1, <2>2, <2>3 DEF LoginStep, Clients
<1>3. ASSUME NEW c \in Closers, CloserStep(c) PROVE AuthorityInv'
  <2>1. UNCHANGED <<now, account, changed, owner, login>>
    BY <1>3 DEF CloserStep, Proceed, BeginLogout, BeginRevoke, BeginRevokeAll, ListSessions,
                FailListing, MarkLoggedOut, FailToMark, DeleteKey, FailToDelete, accounts
  <2>2. \A s \in DOMAIN redis' : s \in DOMAIN redis /\ redis'[s] = redis[s]
    BY <1>3 DEF CloserStep, Proceed, BeginLogout, BeginRevoke, BeginRevokeAll, ListSessions,
                FailListing, MarkLoggedOut, FailToMark, DeleteKey, FailToDelete
  <2> QED
    BY <1>1, <2>1, <2>2
<1>4. ASSUME NEW u \in Users, UNCHANGED <<now, redis, owner, login>>,
             changed' = [changed EXCEPT ![u] = now],
             \A v \in Users \ {u} : \A r : Stale(v, r)' = Stale(v, r)
      PROVE  AuthorityInv'
  <2>1. /\ changed'[u] = now
        /\ \A v \in Users \ {u} : changed'[v] = changed[v]
    BY <1>4 DEF Core, TypeOK
  <2> QED
    BY <1>a, <1>4, <2>1
<1>5. CASE AccountStep
  <2>1. ASSUME NEW u \in Users, NEW role \in NewRoles, NEW active \in BOOLEAN,
               UpdateUser(u, role, active)
        PROVE  AuthorityInv'
    <3>1. \A v \in Users \ {u} : \A r : Stale(v, r)' = Stale(v, r)
      BY <2>1 DEF UpdateUser, Stale, Core, TypeOK
    <3> QED
      BY <1>4, <2>1, <3>1 DEF UpdateUser
  <2>2. ASSUME NEW u \in Users, DeleteUser(u) PROVE AuthorityInv'
    <3>1. \A v \in Users \ {u} : \A r : Stale(v, r)' = Stale(v, r)
      BY <2>2 DEF DeleteUser, Stale
    <3> QED
      BY <1>4, <2>2, <3>1 DEF DeleteUser
  <2> QED
    BY <1>5, <2>1, <2>2 DEF AccountStep
<1>6. CASE Crash
  BY <1>1, <1>6 DEF Crash, accounts, IdleLogin
<1>7. CASE Tick
  <2>1. UNCHANGED <<account, changed, redis, owner, login>> /\ now' = now + 1
    BY <1>7 DEF Tick, accounts
  <2> QED
    BY <1>a, <2>1 DEF Stale
<1>8. CASE UNCHANGED vars
  BY <1>1, <1>8 DEF vars, accounts
<1> QED
  BY <1>2, <1>3, <1>5, <1>6, <1>7, <1>8 DEF Next

\* A demotion, deactivation or deletion takes full effect at the latest TTL plus
\* one request timeout later, for any number of logins in flight.
THEOREM StaleAuthorityCorrect == Spec => []StaleAuthorityEnds
<1>1. Spec => Init /\ [][Next]_vars
  BY DEF Spec
<1>2. Init => AuthorityInv
  BY DEF Init, AuthorityInv, Clocked, LoginsReadBefore, StaleAuthorityEnds, IdleLogin
<1>3. AuthorityInv => StaleAuthorityEnds
  BY DEF AuthorityInv
<1> QED
  BY <1>1, <1>2, <1>3, AuthorityStep, CoreInvariance, PTL

----------------------------------------------------------------------------
(* Sessions implements SessionLife. *)

\* No id is generated, and sessions only end.
OnlyEnds ==
    /\ DOMAIN owner' = DOMAIN owner
    /\ \A s \in Sids : Usable(s)' => Usable(s)

\* A session is issued under a fresh id.
Issues(s) ==
    /\ s \notin DOMAIN owner
    /\ DOMAIN owner' = DOMAIN owner \cup {s}
    /\ Usable(s)'
    /\ \A t \in Sids \ {s} : Usable(t)' = Usable(t)

LEMMA KeysOnlyGo ==
    ASSUME now' = now, owner' = owner,
           \A s \in DOMAIN redis' : s \in DOMAIN redis /\ redis'[s] = redis[s]
    PROVE  OnlyEnds
  BY DEF OnlyEnds, Usable

LEMMA CreateIssues ==
    ASSUME Core, NEW l \in Logins, NEW s \in Sids, CreateSession(l, s)
    PROVE  Issues(s)
<1>1. /\ s \notin DOMAIN owner /\ now' = now
      /\ redis' = [t \in DOMAIN redis \cup {s} |-> IF t = s THEN NewKey(l) ELSE redis[t]]
      /\ DOMAIN owner' = DOMAIN owner \cup {s}
  BY DEF CreateSession, FreshIds
<1>2. s \in DOMAIN redis' /\ redis'[s].exp = now + TTL
  BY <1>1 DEF NewKey
<1>3. now < now + TTL
  BY SessionInputs DEF Core, TypeOK, Instants
<1>4. Usable(s)'
  BY <1>1, <1>2, <1>3 DEF Usable
<1>5. \A t \in Sids \ {s} : Usable(t)' = Usable(t)
  BY <1>1 DEF Usable
<1> QED
  BY <1>1, <1>4, <1>5 DEF Issues

LEMMA StepEndsOrIssues ==
    Core /\ [Next]_vars => OnlyEnds \/ \E s \in Sids : Issues(s)
<1> SUFFICES ASSUME Core, [Next]_vars PROVE OnlyEnds \/ \E s \in Sids : Issues(s)
  OBVIOUS
<1>1. ASSUME NEW l \in Logins, LoginStep(l) PROVE OnlyEnds \/ \E s \in Sids : Issues(s)
  <2>1. (\E s \in Sids : CreateSession(l, s)) \/ UNCHANGED <<now, redis, owner>>
    BY <1>1 DEF LoginStep, BeginLogin, BeginDriverLogin, StoreSession, SkipRow, FailLogin
  <2> QED
    BY <2>1, CreateIssues, KeysOnlyGo
<1>2. ASSUME NEW c \in Closers, CloserStep(c) PROVE OnlyEnds
  <2>1. UNCHANGED <<now, owner>>
    BY <1>2 DEF CloserStep, Proceed, BeginLogout, BeginRevoke, BeginRevokeAll, ListSessions,
                FailListing, MarkLoggedOut, FailToMark, DeleteKey, FailToDelete
  <2>2. \A s \in DOMAIN redis' : s \in DOMAIN redis /\ redis'[s] = redis[s]
    BY <1>2 DEF CloserStep, Proceed, BeginLogout, BeginRevoke, BeginRevokeAll, ListSessions,
                FailListing, MarkLoggedOut, FailToMark, DeleteKey, FailToDelete
  <2> QED
    BY <2>1, <2>2, KeysOnlyGo
<1>3. CASE AccountStep \/ Crash \/ UNCHANGED vars
  BY <1>3, KeysOnlyGo DEF AccountStep, UpdateUser, DeleteUser, Crash, vars
<1>4. CASE Tick
  <2>1. UNCHANGED <<redis, owner>> /\ now' = now + 1
    BY <1>4 DEF Tick
  <2> QED
    BY <2>1, SessionInputs DEF OnlyEnds, Usable, Core, TypeOK, Instants, Expiries, Key
<1> QED
  BY <1>1, <1>2, <1>3, <1>4 DEF Next

LEMMA EndsMapToEnd == OnlyEnds => \E S \in SUBSET Sids : Life!End(S)
<1> SUFFICES ASSUME OnlyEnds PROVE \E S \in SUBSET Sids : Life!End(S)
  OBVIOUS
<1>1. PICK S \in SUBSET Sids : \A s \in Sids : s \in S <=> lifeOf[s] = "live" /\ lifeOf'[s] # "live"
  <2>1. {s \in Sids : lifeOf[s] = "live" /\ lifeOf'[s] # "live"} \in SUBSET Sids
    OBVIOUS
  <2> QED
    BY <2>1
<1>2. lifeOf' = [s \in Sids |-> IF s \in S THEN "ended" ELSE lifeOf[s]]
  <2>1. \A s \in Sids : lifeOf'[s] = IF s \in S THEN "ended" ELSE lifeOf[s]
    BY <1>1 DEF OnlyEnds, lifeOf
  <2>2. lifeOf' = [s \in Sids |-> lifeOf'[s]]
    BY DEF lifeOf
  <2> QED
    BY <2>1, <2>2
<1>3. \A s \in S : lifeOf[s] = "live"
  BY <1>1
<1> QED
  BY <1>2, <1>3 DEF Life!End

LEMMA IssuesMapToIssue ==
    ASSUME NEW s \in Sids, Issues(s), Core
    PROVE  Life!Issue(s)
  BY DEF Issues, Life!Issue, lifeOf, Core, TypeOK

LEMMA LifeStep == Core /\ [Next]_vars => [Life!Next]_lifeOf
  BY StepEndsOrIssues, EndsMapToEnd, IssuesMapToIssue DEF Life!Next

\* For any number of users, sessions and executions: the handlers, with every
\* failure and crash, implement a session that is issued once and never returns.
THEOREM SessionsImplementLife == Spec => SessionsNeverReturn
<1>1. Spec => Init /\ [][Next]_vars
  BY DEF Spec
<1>2. Init => Life!Init
  BY DEF Init, Life!Init, lifeOf
<1> QED
  BY <1>1, <1>2, LifeStep, CoreInvariance, PTL DEF SessionsNeverReturn, Life!Spec
=============================================================================
