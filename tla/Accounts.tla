------------------------------ MODULE Accounts ------------------------------
(***************************************************************************)
(* Dashboard accounts and logins: internal/store/users.go and sessions.go  *)
(* under the handlers of internal/dashboard (doLogin, doLogout,            *)
(* accountPassword, userCreate, userPassword, userRole, userDelete) and    *)
(* the commands `msbd users ...` of another process.                       *)
(*                                                                         *)
(* Each SQL statement is one step; every operation but CreateUser and      *)
(* DeleteSession is several statements in no transaction.  A request may   *)
(* be given up between two of them: its client leaves, a statement fails   *)
(* or the process dies.                                                    *)
(***************************************************************************)
EXTENDS Naturals, FiniteSets

CONSTANTS
  Client,  \* concurrent requests and commands
  Name,    \* usernames
  Cookie,  \* session ids; newSessionID never repeats one
  MaxId,   \* bound: rows ever made in users
  MaxPw,   \* bound: passwords ever set
  NoUser, NoName

Id == 1..MaxId

Role == {"admin", "viewer"}

\* Passwords are numbered in the order they are set.  born is the first one of the row.
User == [id : Id, name : Name, role : Role, pw : Nat, born : Nat]

ASSUME AccountsAssumption ==
  /\ MaxId \in Nat \ {0}
  /\ MaxPw \in Nat \ {0}
  /\ NoUser \notin User
  /\ NoName \notin Name
  /\ Name # {}

VARIABLES
  users,    \* the users table, by id
  lastId,   \* sqlite_sequence of users
  issued,   \* how many passwords have been set
  sessions, \* the sessions table: a set of records
  minted,   \* cookies ever minted
  pc,       \* where each request is
  got,      \* the row its last SELECT on users returned
  goal,     \* what a SetRole or DeleteUser is after
  account,  \* the username an accountPassword acts for
  own,      \* the password an accountPassword has set
  evicted,  \* history: by id, the password of the last SetPassword that has returned
  alone     \* history: nobody else changed users since this request last read or wrote them

tables == <<users, lastId, issued, sessions, minted>>
locals == <<pc, got, goal, account, own, alone>>
vars == <<tables, locals, evicted>>

At == {"idle", "verified", "sweeping", "guarded", "confirmed", "changing", "changed", "reissuing",
       "found", "cleared"}

Goal == {"none", "admin", "viewer", "delete"}

\* pw is the password the login was verified with; via tells how the session was made.
Session == [cookie : Cookie, user : Id, pw : Nat, via : {"login", "account"},
            expired : BOOLEAN]

TypeOK ==
  /\ users \in [Id -> User \cup {NoUser}]
  /\ \A i \in Id : users[i] # NoUser => users[i].id = i /\ users[i].pw <= issued
  /\ lastId \in 0..MaxId
  /\ issued \in 0..MaxPw
  /\ sessions \subseteq Session
  /\ minted \subseteq Cookie
  /\ pc \in [Client -> At]
  /\ got \in [Client -> User \cup {NoUser}]
  /\ goal \in [Client -> Goal]
  /\ account \in [Client -> Name \cup {NoName}]
  /\ own \in [Client -> 0..issued]
  /\ evicted \in [Id -> 0..issued]
  /\ alone \in [Client -> BOOLEAN]

Rows == {i \in Id : users[i] # NoUser}

Admins == {i \in Rows : users[i].role = "admin"}

Init ==
  /\ users = [i \in Id |-> NoUser]
  /\ lastId = 0
  /\ issued = 0
  /\ sessions = {}
  /\ minted = {}
  /\ pc = [c \in Client |-> "idle"]
  /\ got = [c \in Client |-> NoUser]
  /\ goal = [c \in Client |-> "none"]
  /\ account = [c \in Client |-> NoName]
  /\ own = [c \in Client |-> 0]
  /\ evicted = [i \in Id |-> 0]
  /\ alone = [c \in Client |-> TRUE]

Goto(c, next) == pc' = [pc EXCEPT ![c] = next]

\* The row of users with this name (the column is UNIQUE), as a SELECT of c reads it.
Reads(c, n) ==
  \E i \in Rows :
    /\ users[i].name = n
    /\ got' = [got EXCEPT ![c] = users[i]]

\* A request is over, done or not; its locals are dead.
Ends(c) ==
  /\ Goto(c, "idle")
  /\ got' = [got EXCEPT ![c] = NoUser]
  /\ goal' = [goal EXCEPT ![c] = "none"]
  /\ account' = [account EXCEPT ![c] = NoName]
  /\ own' = [own EXCEPT ![c] = 0]

Over(c) == Ends(c) /\ alone' = [alone EXCEPT ![c] = TRUE]

\* A write to users comes between the steps of every other request under way.
Disturbs(c) == alone' = [d \in Client |-> d = c \/ pc[d] = "idle"]
-----------------------------------------------------------------------------
(* Accounts come *)

\* What SQLite does without AUTOINCREMENT: one more than the greatest id in the table.
NextIdReused ==
  CHOOSE i \in 1..(MaxId + 1) :
    \A j \in 1..(MaxId + 1) : (\A r \in Rows : j > r) <=> j >= i

\* AUTOINCREMENT: an id is never given out twice.
NextId == lastId + 1

\* CreateUser: one INSERT, refused when the name is taken.
CreateUser(c) ==
  /\ pc[c] = "idle"
  /\ NextId \in Id
  /\ issued < MaxPw
  /\ \E n \in Name, r \in Role :
       /\ \A i \in Rows : users[i].name # n
       /\ users' = [users EXCEPT ![NextId] =
                      [id |-> NextId, name |-> n, role |-> r, pw |-> issued + 1, born |-> issued + 1]]
  /\ lastId' = NextId
  /\ issued' = issued + 1
  /\ Disturbs(c)
  /\ UNCHANGED <<sessions, minted, pc, got, goal, account, own, evicted>>
-----------------------------------------------------------------------------
(* Logins *)

\* Authenticate: SELECT, then the hash is compared (a wrong password ends here).
Authenticate(c) ==
  /\ pc[c] = "idle"
  /\ \E n \in Name : Reads(c, n)
  /\ Goto(c, "verified")
  /\ UNCHANGED <<tables, goal, account, own, evicted, alone>>

\* CreateSession's INSERT; the foreign key refuses a user that is gone.
Insert(c, i, p, how) ==
  /\ i \in Rows
  /\ \E k \in Cookie \ minted :
       /\ minted' = minted \cup {k}
       /\ sessions' = sessions \cup
            {[cookie |-> k, user |-> i, pw |-> p, via |-> how, expired |-> FALSE]}

\* last_login_at is stamped, then the session is made.
LoginInsert(c) ==
  /\ pc[c] = "verified"
  /\ Insert(c, got[c].id, got[c].pw, "login")
  /\ Goto(c, "sweeping")
  /\ UNCHANGED <<users, lastId, issued, got, goal, account, own, evicted, alone>>

\* SweepSessions, the end of every CreateSession and a command of its own.
Sweep(c) ==
  /\ pc[c] = "sweeping"
  /\ sessions' = {s \in sessions : ~s.expired}
  /\ Over(c)
  /\ UNCHANGED <<users, lastId, issued, minted, evicted>>

\* The clock passes expires_at.
Expire ==
  /\ \E s \in sessions :
       /\ ~s.expired
       /\ sessions' = (sessions \ {s}) \cup {[s EXCEPT !.expired = TRUE]}
  /\ UNCHANGED <<users, lastId, issued, minted, locals, evicted>>

\* doLogout of a browser, or LookupSession of an expired one.
DeleteSession ==
  /\ \E s \in sessions : sessions' = sessions \ {s}
  /\ UNCHANGED <<users, lastId, issued, minted, locals, evicted>>
-----------------------------------------------------------------------------
(* Passwords *)

\* accountPassword's guard finds the session and its user's name (LookupSession) ...
AccountGuard(c) ==
  /\ pc[c] = "idle"
  /\ \E s \in sessions :
       ~s.expired /\ account' = [account EXCEPT ![c] = users[s.user].name]
  /\ Goto(c, "guarded")
  /\ UNCHANGED <<tables, got, goal, own, evicted, alone>>

\* ... and Authenticate checks the current password of the account of that name.
AccountConfirm(c) ==
  /\ pc[c] = "guarded"
  /\ \E i \in Rows : users[i].name = account[c]
  /\ Goto(c, "confirmed")
  /\ UNCHANGED <<tables, got, goal, account, own, evicted, alone>>

\* SetPassword looks the name up (again, for an accountPassword).
PasswordFind(c) ==
  /\ \/ pc[c] = "confirmed" /\ Reads(c, account[c])
     \/ pc[c] = "idle" /\ \E n \in Name : Reads(c, n)
  /\ Goto(c, "changing")
  /\ UNCHANGED <<tables, goal, account, own, evicted, alone>>

\* UPDATE users SET password_hash ... WHERE id: no row, no change.
PasswordUpdate(c) ==
  LET i == got[c].id
  IN /\ pc[c] = "changing"
     /\ issued < MaxPw
     /\ issued' = issued + 1
     /\ users' = IF i \in Rows THEN [users EXCEPT ![i].pw = issued + 1] ELSE users
     /\ own' = [own EXCEPT ![c] = issued + 1]
     /\ Goto(c, "changed")
     /\ Disturbs(c)
     /\ UNCHANGED <<lastId, sessions, minted, got, goal, account, evicted>>

Max2(a, b) == IF a >= b THEN a ELSE b

\* The last statement of SetPassword, DeleteUserSessions.
PasswordDone(c, kept) ==
  /\ pc[c] = "changed"
  /\ sessions' = kept
  /\ evicted' = [evicted EXCEPT ![got[c].id] = Max2(@, own[c])]
  /\ IF account[c] = NoName
     THEN Over(c)
     ELSE Goto(c, "reissuing") /\ UNCHANGED <<got, goal, account, own, alone>>
  /\ UNCHANGED <<users, lastId, issued, minted>>

PasswordKeepsSessions(c) == PasswordDone(c, sessions)

PasswordEvict(c) == PasswordDone(c, {s \in sessions : s.user # got[c].id})

\* accountPassword starts a session for whoever has the name now (userID, CreateSession
\* are two statements; the foreign key makes a deletion between them an error).
Reissue(c) ==
  /\ pc[c] = "reissuing"
  /\ \E i \in Rows : users[i].name = account[c] /\ Insert(c, i, own[c], "account")
  /\ Goto(c, "sweeping")
  /\ UNCHANGED <<users, lastId, issued, got, goal, account, own, evicted, alone>>
-----------------------------------------------------------------------------
(* Roles and deletion: look, count the other admins, write *)

Find(c) ==
  /\ pc[c] = "idle"
  /\ \E n \in Name : Reads(c, n)
  /\ \E g \in Goal \ {"none"} : goal' = [goal EXCEPT ![c] = g]
  /\ Goto(c, "found")
  /\ UNCHANGED <<tables, account, own, evicted, alone>>

LosesAdmin(c) == got[c].role = "admin" /\ goal[c] # "admin"

OthersCountingSelf(c) == Admins

\* countAdminsExcept
Others(c) == Admins \ {got[c].id}

Clear(c) ==
  /\ pc[c] = "found"
  /\ LosesAdmin(c) => Others(c) # {}
  /\ Goto(c, "cleared")
  /\ UNCHANGED <<tables, got, goal, account, own, evicted, alone>>

\* ErrLastAdmin
RefuseLast(c) ==
  /\ pc[c] = "found"
  /\ LosesAdmin(c)
  /\ Others(c) = {}
  /\ Over(c)
  /\ UNCHANGED <<tables, evicted>>

\* UPDATE or DELETE by id; deleting a user deletes its sessions (ON DELETE CASCADE).
Apply(c) ==
  LET i == got[c].id
  IN /\ pc[c] = "cleared"
     /\ IF i \notin Rows THEN UNCHANGED <<users, sessions>>
        ELSE IF goal[c] = "delete"
             THEN /\ users' = [users EXCEPT ![i] = NoUser]
                  /\ sessions' = {s \in sessions : s.user # i}
             ELSE /\ users' = [users EXCEPT ![i].role = goal[c]]
                  /\ UNCHANGED sessions
     /\ Disturbs(c)
     /\ Ends(c)
     /\ UNCHANGED <<lastId, issued, minted, evicted>>

\* Every operation on a name that has no row ends in ErrNotFound (or, a login, in
\* ErrInvalidCredentials).
NotFound(c) ==
  /\ pc[c] = "idle"
  /\ \E n \in Name : \A i \in Rows : users[i].name # n
  /\ UNCHANGED vars

\* A statement fails, the client leaves (its context is cancelled) or the process dies.
GiveUp(c) ==
  /\ pc[c] # "idle"
  /\ Over(c)
  /\ UNCHANGED <<tables, evicted>>
-----------------------------------------------------------------------------
Next ==
  \/ \E c \in Client :
       \/ CreateUser(c)
       \/ Authenticate(c) \/ LoginInsert(c) \/ Sweep(c)
       \/ AccountGuard(c) \/ AccountConfirm(c)
       \/ PasswordFind(c) \/ PasswordUpdate(c) \/ PasswordEvict(c) \/ Reissue(c)
       \/ Find(c) \/ Clear(c) \/ RefuseLast(c) \/ Apply(c)
       \/ NotFound(c) \/ GiveUp(c)
  \/ Expire
  \/ DeleteSession

Spec == Init /\ [][Next]_vars
-----------------------------------------------------------------------------
(* Properties *)

\* A deleted account stays out: every session has its user, although a login may have
\* verified its password before the deletion and makes its session after it.
SessionsOwned == \A s \in sessions : s.user \in Rows

\* A login opens no account but the one whose password it gave: when a name or an id
\* comes back after a deletion, no older credential gets a session of it.
LoginSessionsOwn ==
  \A s \in sessions : s.via = "login" /\ s.user \in Rows => s.pw >= users[s.user].born

\* The last admin is only lost to a SetRole or DeleteUser beside which another request
\* changed the accounts: alone, the rule of countAdminsExcept holds.
AdminLostInRaceOnly ==
  [][\A c \in Client :
       pc[c] = "cleared" /\ alone[c] /\ Admins # {} => pc'[c] = "cleared" \/ Admins' # {}]_vars

\* "It refuses to delete the last admin so the dashboard can never become unreachable",
\* and SetRole refuses to demote it: once there is an admin there always is one.
AdminRemains == [][Admins # {} => Admins' # {}]_vars

\* "a password change is how you evict a compromised login": once SetPassword of an
\* account has returned, no session of it was verified with an earlier password.
PasswordEvicts == \A s \in sessions : s.pw >= evicted[s.user]

\* A password change misses no session but one made by a request beside it: a session older
\* than a change that has returned was not there at the time, and whoever makes one later
\* read or set its password before another request's change was written.
EvictedButForRaces ==
  [][\A s \in sessions' :
       s.pw < evicted'[s.user] /\ ~s.expired =>
         IF s \in sessions THEN s.pw < evicted[s.user]
         ELSE \E c \in Client : pc[c] \in {"verified", "reissuing"} /\ ~alone[c]]_vars

\* accountPassword re-issues the cookie by the username: "annoying, never wrong".
AccountSessionsOwn ==
  \A s \in sessions : s.via = "account" /\ s.user \in Rows => s.pw >= users[s.user].born
=============================================================================
