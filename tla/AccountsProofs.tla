--------------------------- MODULE AccountsProofs ---------------------------
(***************************************************************************)
(* Sessions belong to accounts that exist, a login opens no account but    *)
(* its own, and for a request beside which nobody changes the accounts the *)
(* rule of the last admin holds and no password change misses its session: *)
(* for any number of clients, names, ids and passwords.                    *)
(*                                                                         *)
(* The argument: ids are never given out twice, so that the row a request  *)
(* has in hand is the row that has its id now, or there is none (Hand).    *)
(* The foreign key does the rest for sessions; for the last admin the row  *)
(* in hand must also be current (Current), and the other admin of the      *)
(* count still be there (Cleared).  A second invariant, Race, compares     *)
(* passwords by age with the changes that have returned (at the end).      *)
(*                                                                         *)
(* Below is the file the accounts are in: its schema and its migrations    *)
(* (File), which have a state of their own.                                *)
(***************************************************************************)
EXTENDS AccountStore, Integers, FiniteSetTheorems, TLAPS

\* Rows have ids below the sequence, and a password no older than the row.
Numbered == \A i \in Rows : i <= lastId /\ users[i].born <= users[i].pw

\* A row in hand was a row of its id, and if there is one now it is that row.
Hand ==
  \A c \in Client :
    got[c] # NoUser =>
      /\ got[c].id <= lastId
      /\ got[c].born <= got[c].pw
      /\ got[c].id \in Rows => users[got[c].id].born = got[c].born

\* Where a request must have a row in hand.
InHand ==
  \A c \in Client :
    /\ pc[c] \in {"verified", "changing", "changed", "found", "cleared"} => got[c] # NoUser
    /\ pc[c] \in {"found", "cleared"} => goal[c] # "none"

\* Undisturbed, it is still the row of the table.
Current ==
  \A c \in Client :
    pc[c] \in {"found", "cleared"} /\ alone[c] => users[got[c].id] = got[c]

\* Undisturbed, a cleared request leaves another admin.
Cleared ==
  \A c \in Client :
    pc[c] = "cleared" /\ alone[c] /\ LosesAdmin(c) => Others(c) # {}

Inv ==
  /\ TypeOK /\ Numbered /\ SessionsOwned /\ LoginSessionsOwn
  /\ Hand /\ InHand /\ Current /\ Cleared

\* The type invariant in two parts: the tables with their history, and the requests.
TablesOK ==
  /\ users \in [Id -> User \cup {NoUser}]
  /\ \A i \in Id : users[i] # NoUser => users[i].id = i /\ users[i].pw <= issued
  /\ lastId \in 0..MaxId
  /\ issued \in 0..MaxPw
  /\ sessions \subseteq Session
  /\ minted \subseteq Cookie
  /\ evicted \in [Id -> 0..issued]

RequestsOK ==
  /\ pc \in [Client -> At]
  /\ got \in [Client -> User \cup {NoUser}]
  /\ goal \in [Client -> Goal]
  /\ account \in [Client -> Name \cup {NoName}]
  /\ own \in [Client -> 0..issued]
  /\ alone \in [Client -> BOOLEAN]

\* A new row has an id nobody has seen.
LEMMA CreateUserInv ==
  ASSUME Inv, NEW c \in Client, CreateUser(c)
  PROVE  Inv'
<1> USE AccountsAssumption DEF Inv
<1>1. PICK n \in Name, r \in Role :
        users' = [users EXCEPT ![NextId] = [id |-> NextId, name |-> n, role |-> r,
                                            pw |-> issued + 1, born |-> issued + 1]]
  BY DEF CreateUser
<1> DEFINE row == [id |-> NextId, name |-> n, role |-> r, pw |-> issued + 1, born |-> issued + 1]
<1>2. /\ NextId = lastId + 1 /\ lastId' = NextId /\ lastId \in 0..MaxId /\ NextId \in Id
      /\ issued' = issued + 1 /\ issued \in 0..MaxPw /\ issued < MaxPw
      /\ UNCHANGED <<sessions, minted, pc, got, goal, account, own, evicted>>
      /\ alone' = [d \in Client |-> d = c \/ pc[d] = "idle"]
      /\ pc[c] = "idle"
  BY DEF CreateUser, NextId, Disturbs, TypeOK
<1>3. row \in User /\ row # NoUser
  BY <1>2 DEF User, Id
<1>4. users[NextId] = NoUser
  BY <1>2 DEF Numbered, Rows, Id
<1>5. /\ Rows' = Rows \cup {NextId} /\ users'[NextId] = row
      /\ \A i \in Rows : users'[i] = users[i] /\ i # NextId
  BY <1>1, <1>2, <1>3, <1>4 DEF Rows, TypeOK
<1> HIDE DEF row
<1>6. TablesOK'
  <2>1. users' \in [Id -> User \cup {NoUser}]
    BY <1>1, <1>3 DEF TypeOK, row
  <2>2. \A i \in Id : users'[i] # NoUser => users'[i].id = i /\ users'[i].pw <= issued'
    BY <1>1, <1>2 DEF TypeOK, User
  <2> QED
    BY <1>2, <2>1, <2>2 DEF TypeOK, TablesOK, Id
<1>7. RequestsOK'
  <2>1. own' \in [Client -> 0..issued']
    BY <1>2 DEF TypeOK
  <2>2. alone' \in [Client -> BOOLEAN]
    BY <1>2
  <2> QED
    BY <1>2, <2>1, <2>2 DEF TypeOK, RequestsOK
<1>8. Numbered'
  BY <1>2, <1>5 DEF Numbered, Rows, Id, row
<1>9. SessionsOwned' /\ LoginSessionsOwn'
  BY <1>2, <1>5 DEF SessionsOwned, LoginSessionsOwn
<1>10. Hand'
  BY <1>2, <1>5 DEF Hand, TypeOK, User, Id
<1>11. InHand' /\ Current' /\ Cleared'
  BY <1>2 DEF InHand, Current, Cleared, TypeOK
<1> QED
  BY <1>6, <1>7, <1>8, <1>9, <1>10, <1>11 DEF TypeOK, TablesOK, RequestsOK

\* A login has the row whose password it verified in hand.
LEMMA AuthenticateInv ==
  ASSUME Inv, NEW c \in Client, Authenticate(c)
  PROVE  Inv'
<1> USE AccountsAssumption DEF Inv
<1>1. TablesOK'
  BY DEF Authenticate, Reads, Goto, tables, TypeOK, TablesOK, Rows, InHand, SessionsOwned,
         User, Session, Role, Id
<1>2. RequestsOK'
  BY DEF Authenticate, Reads, Goto, tables, TypeOK, RequestsOK, Rows, At, Goal
<1>3. Numbered'
  BY DEF Authenticate, Reads, Goto, tables, TypeOK, Numbered, Rows
<1>4. SessionsOwned'
  BY DEF Authenticate, Reads, Goto, tables, TypeOK, SessionsOwned, Rows, InHand
<1>5. LoginSessionsOwn'
  BY DEF Authenticate, Reads, Goto, tables, TypeOK, LoginSessionsOwn, Rows, Hand, InHand,
         Numbered, SessionsOwned
<1>6. Hand'
  BY DEF Authenticate, Reads, Goto, tables, TypeOK, Hand, Rows, Numbered, InHand,
         SessionsOwned
<1>7. InHand'
  BY DEF Authenticate, Reads, Goto, tables, TypeOK, InHand, Rows
<1>8. Current'
  BY DEF Authenticate, Reads, Goto, tables, TypeOK, Current, Rows, InHand
<1>9. Cleared'
  BY DEF Authenticate, Reads, Goto, tables, TypeOK, Cleared, InHand, Current, LosesAdmin,
         Others, Admins, Rows
<1> QED
  BY <1>1, <1>2, <1>3, <1>4, <1>5, <1>6, <1>7, <1>8, <1>9 DEF TypeOK, TablesOK, RequestsOK

\* The session of a login is made for a row that is there, and for that very row.
LEMMA LoginInsertInv ==
  ASSUME Inv, NEW c \in Client, LoginInsert(c)
  PROVE  Inv'
<1> USE AccountsAssumption DEF Inv
<1>1. TablesOK'
  <2>1. PICK k \in Cookie \ minted :
          /\ minted' = minted \cup {k}
          /\ sessions' = sessions \cup {[cookie |-> k, user |-> got[c].id, pw |-> got[c].pw,
                                         via |-> "login", expired |-> FALSE]}
    BY DEF LoginInsert, Insert
  <2>2. got[c] \in User /\ UNCHANGED <<users, lastId, issued, evicted>>
    BY DEF LoginInsert, InHand, TypeOK
  <2>3. [cookie |-> k, user |-> got[c].id, pw |-> got[c].pw, via |-> "login",
         expired |-> FALSE] \in Session
    BY <2>2 DEF User, Session
  <2>4. sessions' \subseteq Session /\ minted' \subseteq Cookie
    BY <2>1, <2>3 DEF TypeOK
  <2> QED
    BY <2>2, <2>4 DEF TypeOK, TablesOK
<1>2. RequestsOK'
  BY DEF LoginInsert, Insert, Goto, TypeOK, RequestsOK, Rows, At, Goal
<1>3. Numbered'
  BY DEF LoginInsert, Insert, Goto, TypeOK, Numbered, Rows
<1>4. SessionsOwned'
  BY DEF LoginInsert, Insert, Goto, TypeOK, SessionsOwned, Rows, InHand
<1>5. LoginSessionsOwn'
  BY DEF LoginInsert, Insert, Goto, TypeOK, LoginSessionsOwn, Rows, Hand, InHand, Numbered,
         SessionsOwned
<1>6. Hand'
  BY DEF LoginInsert, Insert, Goto, TypeOK, Hand, Rows, Numbered, InHand, SessionsOwned
<1>7. InHand'
  BY DEF LoginInsert, Insert, Goto, TypeOK, InHand, Rows
<1>8. Current'
  BY DEF LoginInsert, Insert, Goto, TypeOK, Current, Rows, InHand
<1>9. Cleared'
  BY DEF LoginInsert, Insert, Goto, TypeOK, Cleared, InHand, Current, LosesAdmin, Others,
         Admins, Rows
<1> QED
  BY <1>1, <1>2, <1>3, <1>4, <1>5, <1>6, <1>7, <1>8, <1>9 DEF TypeOK, TablesOK, RequestsOK

\* Sweeping only removes sessions.
LEMMA SweepInv ==
  ASSUME Inv, NEW c \in Client, Sweep(c)
  PROVE  Inv'
<1> USE AccountsAssumption DEF Inv
<1>1. TablesOK'
  BY DEF Sweep, Over, Ends, Goto, TypeOK, TablesOK, Rows, InHand, SessionsOwned, User, Session,
         Role, Id
<1>2. RequestsOK'
  BY DEF Sweep, Over, Ends, Goto, TypeOK, RequestsOK, Rows, At, Goal
<1>3. Numbered'
  BY DEF Sweep, Over, Ends, Goto, TypeOK, Numbered, Rows
<1>4. SessionsOwned'
  BY DEF Sweep, Over, Ends, Goto, TypeOK, SessionsOwned, Rows, InHand
<1>5. LoginSessionsOwn'
  BY DEF Sweep, Over, Ends, Goto, TypeOK, LoginSessionsOwn, Rows, Hand, InHand, Numbered,
         SessionsOwned
<1>6. Hand'
  BY DEF Sweep, Over, Ends, Goto, TypeOK, Hand, Rows, Numbered, InHand, SessionsOwned
<1>7. InHand'
  BY DEF Sweep, Over, Ends, Goto, TypeOK, InHand, Rows
<1>8. Current'
  BY DEF Sweep, Over, Ends, Goto, TypeOK, Current, Rows, InHand
<1>9. Cleared'
  BY DEF Sweep, Over, Ends, Goto, TypeOK, Cleared, InHand, Current, LosesAdmin, Others, Admins,
         Rows
<1> QED
  BY <1>1, <1>2, <1>3, <1>4, <1>5, <1>6, <1>7, <1>8, <1>9 DEF TypeOK, TablesOK, RequestsOK

\* A session has a user, who has a name.
LEMMA AccountGuardInv ==
  ASSUME Inv, NEW c \in Client, AccountGuard(c)
  PROVE  Inv'
<1> USE AccountsAssumption DEF Inv
<1>1. TablesOK'
  BY DEF AccountGuard, Goto, tables, TypeOK, TablesOK, Rows, InHand, SessionsOwned, User,
         Session, Role, Id
<1>2. RequestsOK'
  <2>1. PICK s \in sessions : account' = [account EXCEPT ![c] = users[s.user].name]
    BY DEF AccountGuard
  <2>2. users[s.user] \in User
    BY DEF SessionsOwned, Rows, TypeOK
  <2>3. users[s.user].name \in Name
    BY <2>2 DEF User
  <2> QED
    BY <2>1, <2>2, <2>3 DEF AccountGuard, Goto, tables, TypeOK, RequestsOK, At
<1>3. Numbered'
  BY DEF AccountGuard, Goto, tables, TypeOK, Numbered, Rows
<1>4. SessionsOwned'
  BY DEF AccountGuard, Goto, tables, TypeOK, SessionsOwned, Rows, InHand
<1>5. LoginSessionsOwn'
  BY DEF AccountGuard, Goto, tables, TypeOK, LoginSessionsOwn, Rows, Hand, InHand,
         Numbered, SessionsOwned
<1>6. Hand'
  BY DEF AccountGuard, Goto, tables, TypeOK, Hand, Rows, Numbered, InHand, SessionsOwned
<1>7. InHand'
  BY DEF AccountGuard, Goto, tables, TypeOK, InHand, Rows
<1>8. Current'
  BY DEF AccountGuard, Goto, tables, TypeOK, Current, Rows, InHand
<1>9. Cleared'
  BY DEF AccountGuard, Goto, tables, TypeOK, Cleared, InHand, Current, LosesAdmin, Others,
         Admins, Rows
<1> QED
  BY <1>1, <1>2, <1>3, <1>4, <1>5, <1>6, <1>7, <1>8, <1>9 DEF TypeOK, TablesOK, RequestsOK

\* Authenticate looks at a row and keeps nothing of it.
LEMMA AccountConfirmInv ==
  ASSUME Inv, NEW c \in Client, AccountConfirm(c)
  PROVE  Inv'
<1> USE AccountsAssumption DEF Inv
<1>1. TablesOK'
  BY DEF AccountConfirm, Goto, tables, TypeOK, TablesOK, Rows, InHand, SessionsOwned, User,
         Session, Role, Id
<1>2. RequestsOK'
  BY DEF AccountConfirm, Goto, tables, TypeOK, RequestsOK, At
<1>3. Numbered'
  BY DEF AccountConfirm, Goto, tables, TypeOK, Numbered, Rows
<1>4. SessionsOwned'
  BY DEF AccountConfirm, Goto, tables, TypeOK, SessionsOwned, Rows, InHand
<1>5. LoginSessionsOwn'
  BY DEF AccountConfirm, Goto, tables, TypeOK, LoginSessionsOwn, Rows, Hand, InHand,
         Numbered, SessionsOwned
<1>6. Hand'
  BY DEF AccountConfirm, Goto, tables, TypeOK, Hand, Rows, Numbered, InHand, SessionsOwned
<1>7. InHand'
  BY DEF AccountConfirm, Goto, tables, TypeOK, InHand, Rows
<1>8. Current'
  BY DEF AccountConfirm, Goto, tables, TypeOK, Current, Rows, InHand
<1>9. Cleared'
  BY DEF AccountConfirm, Goto, tables, TypeOK, Cleared, InHand, Current, LosesAdmin, Others,
         Admins, Rows
<1> QED
  BY <1>1, <1>2, <1>3, <1>4, <1>5, <1>6, <1>7, <1>8, <1>9 DEF TypeOK, TablesOK, RequestsOK

\* SetPassword takes the row of a name in hand.
LEMMA PasswordFindInv ==
  ASSUME Inv, NEW c \in Client, PasswordFind(c)
  PROVE  Inv'
<1> USE AccountsAssumption DEF Inv
<1>1. TablesOK'
  BY DEF PasswordFind, Reads, Goto, tables, TypeOK, TablesOK, Rows, InHand, SessionsOwned,
         User, Session, Role, Id
<1>2. RequestsOK'
  BY DEF PasswordFind, Reads, Goto, tables, TypeOK, RequestsOK, Rows, At, Goal
<1>3. Numbered'
  BY DEF PasswordFind, Reads, Goto, tables, TypeOK, Numbered, Rows
<1>4. SessionsOwned'
  BY DEF PasswordFind, Reads, Goto, tables, TypeOK, SessionsOwned, Rows, InHand
<1>5. LoginSessionsOwn'
  BY DEF PasswordFind, Reads, Goto, tables, TypeOK, LoginSessionsOwn, Rows, Hand, InHand,
         Numbered, SessionsOwned
<1>6. Hand'
  BY DEF PasswordFind, Reads, Goto, tables, TypeOK, Hand, Rows, Numbered, InHand,
         SessionsOwned
<1>7. InHand'
  BY DEF PasswordFind, Reads, Goto, tables, TypeOK, InHand, Rows
<1>8. Current'
  BY DEF PasswordFind, Reads, Goto, tables, TypeOK, Current, Rows, InHand
<1>9. Cleared'
  BY DEF PasswordFind, Reads, Goto, tables, TypeOK, Cleared, InHand, Current, LosesAdmin,
         Others, Admins, Rows
<1> QED
  BY <1>1, <1>2, <1>3, <1>4, <1>5, <1>6, <1>7, <1>8, <1>9 DEF TypeOK, TablesOK, RequestsOK

\* A new password is newer than every row.
LEMMA PasswordUpdateInv ==
  ASSUME Inv, NEW c \in Client, PasswordUpdate(c)
  PROVE  Inv'
<1> USE AccountsAssumption DEF Inv
<1> DEFINE i == got[c].id
           row == [users[i] EXCEPT !.pw = issued + 1]
<1>1. /\ pc[c] = "changing" /\ pc' = [pc EXCEPT ![c] = "changed"]
      /\ issued' = issued + 1 /\ issued \in 0..MaxPw /\ issued < MaxPw
      /\ users' = IF i \in Rows THEN [users EXCEPT ![i] = row] ELSE users
      /\ own' = [own EXCEPT ![c] = issued + 1]
      /\ alone' = [d \in Client |-> d = c \/ pc[d] = "idle"]
      /\ UNCHANGED <<lastId, sessions, minted, got, goal, account, evicted>>
  BY DEF PasswordUpdate, Goto, Disturbs, TypeOK
<1>2. got[c] # NoUser /\ i \in Id
  BY <1>1 DEF InHand, TypeOK, User
<1>3. i \in Rows => /\ row \in User /\ row # NoUser /\ row.id = i /\ row.pw = issued + 1
                    /\ row.born = users[i].born
  BY <1>1 DEF Rows, TypeOK, User
<1> HIDE DEF row
<1>4. Rows' = Rows /\ \A j \in Rows : users'[j].born = users[j].born
  BY <1>1, <1>2, <1>3 DEF Rows, TypeOK
<1>5. TablesOK'
  <2>1. users' \in [Id -> User \cup {NoUser}]
    BY <1>1, <1>2, <1>3 DEF TypeOK
  <2>2. \A j \in Id : users'[j] # NoUser => users'[j].id = j /\ users'[j].pw <= issued'
    BY <1>1, <1>2, <1>3 DEF TypeOK, User
  <2>3. evicted' \in [Id -> 0..issued']
    BY <1>1 DEF TypeOK
  <2> QED
    BY <1>1, <2>1, <2>2, <2>3 DEF TypeOK, TablesOK
<1>6. RequestsOK'
  <2>1. own' \in [Client -> 0..issued']
    BY <1>1 DEF TypeOK
  <2>2. alone' \in [Client -> BOOLEAN]
    BY <1>1
  <2> QED
    BY <1>1, <2>1, <2>2 DEF TypeOK, RequestsOK, At
<1>7. Numbered'
  <2> SUFFICES ASSUME NEW j \in Rows
               PROVE  j <= lastId /\ users'[j].born <= users'[j].pw
    BY <1>1, <1>4 DEF Numbered
  <2>1. /\ j <= lastId /\ users[j].born <= users[j].pw /\ users[j].pw <= issued
        /\ users[j] \in User /\ j \in Id
    BY DEF Numbered, TypeOK, Rows
  <2>2. CASE j = i
    BY <1>1, <1>2, <1>3, <2>1, <2>2 DEF TypeOK, User
  <2>3. CASE j # i
    BY <1>1, <2>1, <2>3
  <2> QED
    BY <2>2, <2>3
<1>8. SessionsOwned' /\ LoginSessionsOwn' /\ Hand'
  BY <1>1, <1>4 DEF SessionsOwned, LoginSessionsOwn, Hand
<1>9. InHand' /\ Current' /\ Cleared'
  BY <1>1 DEF InHand, Current, Cleared, TypeOK
<1> QED
  BY <1>5, <1>6, <1>7, <1>8, <1>9 DEF TypeOK, TablesOK, RequestsOK

\* The sessions of the row in hand go.
LEMMA PasswordEvictInv ==
  ASSUME Inv, NEW c \in Client, PasswordEvict(c)
  PROVE  Inv'
<1> USE AccountsAssumption DEF Inv
<1>1. TablesOK'
  BY DEF PasswordEvict, PasswordDone, Max2, Over, Ends, Goto, TypeOK, TablesOK, Rows, InHand,
         SessionsOwned, User, Session, Role, Id
<1>2. RequestsOK'
  <2>1. issued' = issued /\ c \in Client
    BY DEF PasswordEvict, PasswordDone
  <2>2. CASE account[c] = NoName
    <3>1. alone' = [alone EXCEPT ![c] = TRUE]
      BY <2>2 DEF PasswordEvict, PasswordDone, Over
    <3>2. alone' \in [Client -> BOOLEAN]
      BY <3>1, Zenon DEF TypeOK
    <3> QED
      BY <2>1, <2>2, <3>2
      DEF PasswordEvict, PasswordDone, Over, Ends, Goto, TypeOK, RequestsOK, At, Goal
  <2>3. CASE account[c] # NoName
    BY <2>1, <2>3 DEF PasswordEvict, PasswordDone, Goto, TypeOK, RequestsOK, At, Goal
  <2> QED
    BY <2>2, <2>3
<1>3. Numbered'
  BY DEF PasswordEvict, PasswordDone, Max2, Over, Ends, Goto, TypeOK, Numbered, Rows
<1>4. SessionsOwned'
  BY DEF PasswordEvict, PasswordDone, Max2, Over, Ends, Goto, TypeOK, SessionsOwned, Rows, InHand
<1>5. LoginSessionsOwn'
  BY DEF PasswordEvict, PasswordDone, Max2, Over, Ends, Goto, TypeOK, LoginSessionsOwn, Rows,
         Hand, InHand, Numbered, SessionsOwned
<1>6. Hand'
  BY DEF PasswordEvict, PasswordDone, Max2, Over, Ends, Goto, TypeOK, Hand, Rows, Numbered,
         InHand, SessionsOwned
<1>7. InHand'
  BY DEF PasswordEvict, PasswordDone, Max2, Over, Ends, Goto, TypeOK, InHand, Rows
<1>8. Current'
  BY DEF PasswordEvict, PasswordDone, Max2, Over, Ends, Goto, TypeOK, Current, Rows, InHand
<1>9. Cleared'
  BY DEF PasswordEvict, PasswordDone, Max2, Over, Ends, Goto, TypeOK, Cleared, InHand, Current,
         LosesAdmin, Others, Admins, Rows
<1> QED
  BY <1>1, <1>2, <1>3, <1>4, <1>5, <1>6, <1>7, <1>8, <1>9 DEF TypeOK, TablesOK, RequestsOK

\* The new session of an accountPassword has a row.
LEMMA ReissueInv ==
  ASSUME Inv, NEW c \in Client, Reissue(c)
  PROVE  Inv'
<1> USE AccountsAssumption DEF Inv
<1>1. TablesOK'
  <2>1. PICK i \in Rows, k \in Cookie \ minted :
          /\ minted' = minted \cup {k}
          /\ sessions' = sessions \cup {[cookie |-> k, user |-> i, pw |-> own[c],
                                         via |-> "account", expired |-> FALSE]}
    BY DEF Reissue, Insert
  <2>2. own[c] \in Nat /\ i \in Id /\ UNCHANGED <<users, lastId, issued, evicted>>
    BY DEF Reissue, TypeOK, Rows
  <2>3. [cookie |-> k, user |-> i, pw |-> own[c], via |-> "account", expired |-> FALSE]
          \in Session
    BY <2>2 DEF Session
  <2>4. sessions' \subseteq Session /\ minted' \subseteq Cookie
    BY <2>1, <2>3 DEF TypeOK
  <2> QED
    BY <2>2, <2>4 DEF TypeOK, TablesOK
<1>2. RequestsOK'
  BY DEF Reissue, Insert, Goto, TypeOK, RequestsOK, Rows, At, Goal
<1>3. Numbered'
  BY DEF Reissue, Insert, Goto, TypeOK, Numbered, Rows
<1>4. SessionsOwned'
  BY DEF Reissue, Insert, Goto, TypeOK, SessionsOwned, Rows, InHand
<1>5. LoginSessionsOwn'
  BY DEF Reissue, Insert, Goto, TypeOK, LoginSessionsOwn, Rows, Hand, InHand, Numbered,
         SessionsOwned
<1>6. Hand'
  BY DEF Reissue, Insert, Goto, TypeOK, Hand, Rows, Numbered, InHand, SessionsOwned
<1>7. InHand'
  BY DEF Reissue, Insert, Goto, TypeOK, InHand, Rows
<1>8. Current'
  BY DEF Reissue, Insert, Goto, TypeOK, Current, Rows, InHand
<1>9. Cleared'
  BY DEF Reissue, Insert, Goto, TypeOK, Cleared, InHand, Current, LosesAdmin, Others,
         Admins, Rows
<1> QED
  BY <1>1, <1>2, <1>3, <1>4, <1>5, <1>6, <1>7, <1>8, <1>9 DEF TypeOK, TablesOK, RequestsOK

\* The row that is read is current.
LEMMA FindInv ==
  ASSUME Inv, NEW c \in Client, Find(c)
  PROVE  Inv'
<1> USE AccountsAssumption DEF Inv
<1>1. TablesOK'
  BY DEF Find, Reads, Goto, tables, TypeOK, TablesOK, Rows, InHand, SessionsOwned, User,
         Session, Role, Id
<1>2. RequestsOK'
  BY DEF Find, Reads, Goto, tables, TypeOK, RequestsOK, Rows, At, Goal
<1>3. Numbered'
  BY DEF Find, Reads, Goto, tables, TypeOK, Numbered, Rows
<1>4. SessionsOwned'
  BY DEF Find, Reads, Goto, tables, TypeOK, SessionsOwned, Rows, InHand
<1>5. LoginSessionsOwn'
  BY DEF Find, Reads, Goto, tables, TypeOK, LoginSessionsOwn, Rows, Hand, InHand, Numbered,
         SessionsOwned
<1>6. Hand'
  BY DEF Find, Reads, Goto, tables, TypeOK, Hand, Rows, Numbered, InHand, SessionsOwned
<1>7. InHand'
  BY DEF Find, Reads, Goto, tables, TypeOK, InHand, Rows
<1>8. Current'
  BY DEF Find, Reads, Goto, tables, TypeOK, Current, Rows, InHand
<1>9. Cleared'
  BY DEF Find, Reads, Goto, tables, TypeOK, Cleared, InHand, Current, LosesAdmin, Others,
         Admins, Rows
<1> QED
  BY <1>1, <1>2, <1>3, <1>4, <1>5, <1>6, <1>7, <1>8, <1>9 DEF TypeOK, TablesOK, RequestsOK

\* A request is cleared while another admin is there, or if it takes none away.
LEMMA ClearInv ==
  ASSUME Inv, NEW c \in Client, Clear(c)
  PROVE  Inv'
<1> USE AccountsAssumption DEF Inv
<1>1. TablesOK'
  BY DEF Clear, Goto, tables, TypeOK, TablesOK, Rows, InHand, SessionsOwned, User, Session,
         Role, Id
<1>2. RequestsOK'
  BY DEF Clear, Goto, tables, TypeOK, RequestsOK, Rows, At, Goal
<1>3. Numbered'
  BY DEF Clear, Goto, tables, TypeOK, Numbered, Rows
<1>4. SessionsOwned'
  BY DEF Clear, Goto, tables, TypeOK, SessionsOwned, Rows, InHand
<1>5. LoginSessionsOwn'
  BY DEF Clear, Goto, tables, TypeOK, LoginSessionsOwn, Rows, Hand, InHand, Numbered,
         SessionsOwned
<1>6. Hand'
  BY DEF Clear, Goto, tables, TypeOK, Hand, Rows, Numbered, InHand, SessionsOwned
<1>7. InHand'
  BY DEF Clear, Goto, tables, TypeOK, InHand, Rows
<1>8. Current'
  BY DEF Clear, Goto, tables, TypeOK, Current, Rows, InHand
<1>9. Cleared'
  BY DEF Clear, Goto, tables, TypeOK, Cleared, InHand, Current, LosesAdmin, Others, Admins,
         Rows
<1> QED
  BY <1>1, <1>2, <1>3, <1>4, <1>5, <1>6, <1>7, <1>8, <1>9 DEF TypeOK, TablesOK, RequestsOK

\* A refusal changes nothing.
LEMMA RefuseLastInv ==
  ASSUME Inv, NEW c \in Client, RefuseLast(c)
  PROVE  Inv'
<1> USE AccountsAssumption DEF Inv
<1>1. TablesOK'
  BY DEF RefuseLast, Over, Ends, Goto, tables, TypeOK, TablesOK, Rows, InHand, SessionsOwned,
         User, Session, Role, Id
<1>2. RequestsOK'
  BY DEF RefuseLast, Over, Ends, Goto, tables, TypeOK, RequestsOK, Rows, At, Goal
<1>3. Numbered'
  BY DEF RefuseLast, Over, Ends, Goto, tables, TypeOK, Numbered, Rows
<1>4. SessionsOwned'
  BY DEF RefuseLast, Over, Ends, Goto, tables, TypeOK, SessionsOwned, Rows, InHand
<1>5. LoginSessionsOwn'
  BY DEF RefuseLast, Over, Ends, Goto, tables, TypeOK, LoginSessionsOwn, Rows, Hand, InHand,
         Numbered, SessionsOwned
<1>6. Hand'
  BY DEF RefuseLast, Over, Ends, Goto, tables, TypeOK, Hand, Rows, Numbered, InHand, SessionsOwned
<1>7. InHand'
  BY DEF RefuseLast, Over, Ends, Goto, tables, TypeOK, InHand, Rows
<1>8. Current'
  BY DEF RefuseLast, Over, Ends, Goto, tables, TypeOK, Current, Rows, InHand
<1>9. Cleared'
  BY DEF RefuseLast, Over, Ends, Goto, tables, TypeOK, Cleared, InHand, Current, LosesAdmin,
         Others, Admins, Rows
<1> QED
  BY <1>1, <1>2, <1>3, <1>4, <1>5, <1>6, <1>7, <1>8, <1>9 DEF TypeOK, TablesOK, RequestsOK

\* A deletion takes the sessions with it, and disturbs everybody else.
LEMMA ApplyInv ==
  ASSUME Inv, NEW c \in Client, Apply(c)
  PROVE  Inv'
<1> USE AccountsAssumption DEF Inv
<1> DEFINE i == got[c].id
           row == [users[i] EXCEPT !.role = goal[c]]
<1>1. /\ pc[c] = "cleared" /\ pc' = [pc EXCEPT ![c] = "idle"]
      /\ got' = [got EXCEPT ![c] = NoUser] /\ goal' = [goal EXCEPT ![c] = "none"]
      /\ account' = [account EXCEPT ![c] = NoName] /\ own' = [own EXCEPT ![c] = 0]
      /\ alone' = [d \in Client |-> d = c \/ pc[d] = "idle"]
      /\ UNCHANGED <<lastId, issued, minted, evicted>>
  BY DEF Apply, Ends, Goto, Disturbs
<1>2. \/ UNCHANGED <<users, sessions>>
      \/ /\ users' = [users EXCEPT ![i] = NoUser]
         /\ sessions' = {s \in sessions : s.user # i}
      \/ /\ i \in Rows /\ goal[c] # "delete"
         /\ users' = [users EXCEPT ![i] = row] /\ sessions' = sessions
  BY DEF Apply
<1>3. got[c] # NoUser /\ i \in Id /\ goal[c] \in Goal \ {"none"}
  BY <1>1 DEF InHand, TypeOK, User
<1>4. i \in Rows /\ goal[c] # "delete" =>
        /\ row \in User /\ row # NoUser /\ row.id = i
        /\ row.pw = users[i].pw /\ row.born = users[i].born
  BY <1>3 DEF Rows, TypeOK, User, Goal, Role
<1> HIDE DEF row
<1>5. /\ Rows' \subseteq Rows /\ sessions' \subseteq sessions
      /\ \A j \in Rows' : users'[j].born = users[j].born /\ users'[j].pw = users[j].pw
      /\ \A s \in sessions' : s.user \in Rows => s.user \in Rows'
  <2>1. CASE UNCHANGED <<users, sessions>>
    BY <2>1 DEF Rows
  <2>2. CASE /\ users' = [users EXCEPT ![i] = NoUser]
             /\ sessions' = {s \in sessions : s.user # i}
    BY <2>2, <1>3 DEF Rows, TypeOK
  <2>3. CASE /\ i \in Rows /\ goal[c] # "delete"
             /\ users' = [users EXCEPT ![i] = row] /\ sessions' = sessions
    BY <2>3, <1>3, <1>4 DEF Rows, TypeOK
  <2> QED
    BY <1>2, <2>1, <2>2, <2>3
<1>6. TablesOK'
  <2>1. users' \in [Id -> User \cup {NoUser}]
    BY <1>2, <1>3, <1>4 DEF TypeOK
  <2>2. \A j \in Id : users'[j] # NoUser => users'[j].id = j
    BY <1>2, <1>3, <1>4 DEF TypeOK
  <2>3. \A j \in Id : users'[j] # NoUser => users'[j].pw <= issued'
    BY <1>1, <1>5 DEF TypeOK, Rows
  <2> QED
    BY <1>1, <1>5, <2>1, <2>2, <2>3 DEF TypeOK, TablesOK
<1>7. RequestsOK'
  <2>1. own' \in [Client -> 0..issued']
    BY <1>1 DEF TypeOK
  <2>2. alone' \in [Client -> BOOLEAN]
    BY <1>1
  <2> QED
    BY <1>1, <2>1, <2>2 DEF TypeOK, RequestsOK, At, Goal
<1>8. Numbered'
  BY <1>1, <1>5 DEF Numbered
<1>9. SessionsOwned'
  BY <1>5 DEF SessionsOwned
<1>10. LoginSessionsOwn'
  BY <1>5 DEF LoginSessionsOwn
<1>11. Hand'
  <2> SUFFICES ASSUME NEW d \in Client, got'[d] # NoUser
               PROVE  /\ got'[d].id <= lastId'
                      /\ got'[d].born <= got'[d].pw
                      /\ got'[d].id \in Rows' => users'[got'[d].id].born = got'[d].born
    BY DEF Hand
  <2>1. got'[d] = got[d] /\ got[d] # NoUser
    BY <1>1 DEF TypeOK
  <2> QED
    BY <2>1, <1>1, <1>5 DEF Hand
<1>12. InHand' /\ Current' /\ Cleared'
  BY <1>1 DEF InHand, Current, Cleared, TypeOK
<1> QED
  BY <1>6, <1>7, <1>8, <1>9, <1>10, <1>11, <1>12 DEF TypeOK, TablesOK, RequestsOK

\* A request that is given up leaves no locals.
LEMMA GiveUpInv ==
  ASSUME Inv, NEW c \in Client, GiveUp(c)
  PROVE  Inv'
<1> USE AccountsAssumption DEF Inv
<1>1. TablesOK'
  BY DEF GiveUp, Over, Ends, Goto, tables, TypeOK, TablesOK, Rows, InHand, SessionsOwned, User,
         Session, Role, Id
<1>2. RequestsOK'
  BY DEF GiveUp, Over, Ends, Goto, tables, TypeOK, RequestsOK, Rows, At, Goal
<1>3. Numbered'
  BY DEF GiveUp, Over, Ends, Goto, tables, TypeOK, Numbered, Rows
<1>4. SessionsOwned'
  BY DEF GiveUp, Over, Ends, Goto, tables, TypeOK, SessionsOwned, Rows, InHand
<1>5. LoginSessionsOwn'
  BY DEF GiveUp, Over, Ends, Goto, tables, TypeOK, LoginSessionsOwn, Rows, Hand, InHand, Numbered,
         SessionsOwned
<1>6. Hand'
  BY DEF GiveUp, Over, Ends, Goto, tables, TypeOK, Hand, Rows, Numbered, InHand, SessionsOwned
<1>7. InHand'
  BY DEF GiveUp, Over, Ends, Goto, tables, TypeOK, InHand, Rows
<1>8. Current'
  BY DEF GiveUp, Over, Ends, Goto, tables, TypeOK, Current, Rows, InHand
<1>9. Cleared'
  BY DEF GiveUp, Over, Ends, Goto, tables, TypeOK, Cleared, InHand, Current, LosesAdmin, Others,
         Admins, Rows
<1> QED
  BY <1>1, <1>2, <1>3, <1>4, <1>5, <1>6, <1>7, <1>8, <1>9 DEF TypeOK, TablesOK, RequestsOK

\* An expired session is still its user's.
LEMMA ExpireInv ==
  ASSUME Inv, Expire
  PROVE  Inv'
<1> USE AccountsAssumption DEF Inv
<1>1. PICK s \in sessions :
        sessions' = (sessions \ {s}) \cup {[s EXCEPT !.expired = TRUE]}
  BY DEF Expire
<1>2. UNCHANGED <<users, lastId, issued, minted, locals, evicted>>
  BY DEF Expire
<1> DEFINE old == [s EXCEPT !.expired = TRUE]
<1>3. old \in Session /\ old.user = s.user /\ old.pw = s.pw /\ old.via = s.via
  BY DEF TypeOK, Session
<1> HIDE DEF old
<1>4. sessions' = (sessions \ {s}) \cup {old}
  BY <1>1 DEF old
<1>5. TypeOK'
  BY <1>2, <1>3, <1>4 DEF TypeOK, locals
<1>6. SessionsOwned' /\ LoginSessionsOwn'
  BY <1>2, <1>3, <1>4 DEF SessionsOwned, LoginSessionsOwn, Rows
<1>7. Numbered' /\ Hand' /\ InHand' /\ Current' /\ Cleared'
  BY <1>2
  DEF locals, Numbered, Hand, InHand, Current, Cleared, Rows, LosesAdmin, Others, Admins
<1> QED
  BY <1>5, <1>6, <1>7

\* A logout only removes a session.
LEMMA DeleteSessionInv ==
  ASSUME Inv, DeleteSession
  PROVE  Inv'
<1> USE AccountsAssumption DEF Inv
<1>1. TablesOK'
  BY DEF DeleteSession, locals, TypeOK, TablesOK, Rows, InHand, SessionsOwned, User,
         Session, Role, Id
<1>2. RequestsOK'
  BY DEF DeleteSession, locals, TypeOK, RequestsOK, Rows, At, Goal
<1>3. Numbered'
  BY DEF DeleteSession, locals, TypeOK, Numbered, Rows
<1>4. SessionsOwned'
  BY DEF DeleteSession, locals, TypeOK, SessionsOwned, Rows, InHand
<1>5. LoginSessionsOwn'
  BY DEF DeleteSession, locals, TypeOK, LoginSessionsOwn, Rows, Hand, InHand, Numbered,
         SessionsOwned
<1>6. Hand'
  BY DEF DeleteSession, locals, TypeOK, Hand, Rows, Numbered, InHand, SessionsOwned
<1>7. InHand'
  BY DEF DeleteSession, locals, TypeOK, InHand, Rows
<1>8. Current'
  BY DEF DeleteSession, locals, TypeOK, Current, Rows, InHand
<1>9. Cleared'
  BY DEF DeleteSession, locals, TypeOK, Cleared, InHand, Current, LosesAdmin, Others,
         Admins, Rows
<1> QED
  BY <1>1, <1>2, <1>3, <1>4, <1>5, <1>6, <1>7, <1>8, <1>9 DEF TypeOK, TablesOK, RequestsOK

\* Nothing has happened yet.
LEMMA InvInit == Init => Inv
<1> SUFFICES ASSUME Init PROVE Inv
  OBVIOUS
<1> USE AccountsAssumption
<1>1. TablesOK
  BY DEF Init, TablesOK, Id
<1>2. RequestsOK
  BY DEF Init, RequestsOK, At, Goal
<1>3. Numbered /\ SessionsOwned /\ LoginSessionsOwn /\ Hand /\ InHand /\ Current /\ Cleared
  BY DEF Init, Numbered, SessionsOwned, LoginSessionsOwn, Hand, InHand, Current, Cleared,
         Rows
<1> QED
  BY <1>1, <1>2, <1>3 DEF Inv, TypeOK, TablesOK, RequestsOK

\* Every step keeps the invariant.
LEMMA InvStep == Inv /\ [Next]_vars => Inv'
<1> SUFFICES ASSUME Inv, [Next]_vars PROVE Inv'
  OBVIOUS
<1>1. CASE UNCHANGED vars
  BY <1>1
  DEF vars, tables, locals, Inv, TypeOK, Numbered, SessionsOwned, LoginSessionsOwn, Hand, InHand,
      Current, Cleared, Rows, LosesAdmin, Others, Admins
<1>2. ASSUME NEW c \in Client,
             \/ CreateUser(c)
             \/ Authenticate(c) \/ LoginInsert(c) \/ Sweep(c)
             \/ AccountGuard(c) \/ AccountConfirm(c)
             \/ PasswordFind(c) \/ PasswordUpdate(c) \/ PasswordEvict(c)
             \/ Reissue(c)
             \/ Find(c) \/ Clear(c) \/ RefuseLast(c) \/ Apply(c) \/ GiveUp(c)
      PROVE  Inv'
  BY <1>2, CreateUserInv, AuthenticateInv, LoginInsertInv, SweepInv, AccountGuardInv,
     AccountConfirmInv, PasswordFindInv, PasswordUpdateInv, PasswordEvictInv, ReissueInv,
     FindInv, ClearInv,
     RefuseLastInv, ApplyInv, GiveUpInv
<1>3. ASSUME NEW c \in Client, NotFound(c)
      PROVE  Inv'
  BY <1>1, <1>3 DEF NotFound
<1>4. CASE Expire \/ DeleteSession
  BY <1>4, ExpireInv, DeleteSessionInv
<1> QED
  BY <1>1, <1>2, <1>3, <1>4 DEF Next

\* The inductive invariant holds in every reachable state.
THEOREM Invariance == Spec => []Inv
  BY InvInit, InvStep, PTL DEF Spec

\* The type invariant of the accounts: rows keep their ids, sessions name ids.
THEOREM TypeCorrect == Spec => []TypeOK
<1>1. Inv => TypeOK
  BY DEF Inv
<1> QED
  BY <1>1, Invariance, PTL

\* Every session belongs to an account that exists, although logins, password changes and
\* deletions interleave statement by statement.
THEOREM NoSessionWithoutUser == Spec => []SessionsOwned
<1>1. Inv => SessionsOwned
  BY DEF Inv
<1> QED
  BY <1>1, Invariance, PTL

\* No login is given a session of a row made after its password was verified.
THEOREM LoginOpensItsOwn == Spec => []LoginSessionsOwn
<1>1. Inv => LoginSessionsOwn
  BY DEF Inv
<1> QED
  BY <1>1, Invariance, PTL

\* An undisturbed SetRole or DeleteUser leaves an admin if there was one.
LEMMA ApplyAlone ==
  ASSUME Inv, NEW c \in Client, pc[c] = "cleared", alone[c], Admins # {}, Apply(c)
  PROVE  Admins' # {}
<1> DEFINE i == got[c].id
<1>1. /\ got[c] # NoUser /\ i \in Id /\ goal[c] \in {"admin", "viewer", "delete"}
      /\ users[i] = got[c] /\ got[c].role \in Role /\ users \in [Id -> User \cup {NoUser}]
  BY DEF Inv, InHand, Current, TypeOK, User, Goal
<1>2. i \in Rows
  BY <1>1 DEF Rows
<1>3. /\ goal[c] = "delete" => users' = [users EXCEPT ![i] = NoUser]
      /\ goal[c] # "delete" => users' = [users EXCEPT ![i].role = goal[c]]
  BY <1>2 DEF Apply
<1>4. \A j \in Id : j # i => users'[j] = users[j]
  BY <1>1, <1>3
<1>5. CASE LosesAdmin(c)
  <2>1. PICK j \in Admins : j # i
    BY <1>5 DEF Inv, Cleared, Others
  <2>2. j \in Admins'
    BY <2>1, <1>4 DEF Admins, Rows
  <2> QED
    BY <2>2
<1>6. CASE ~LosesAdmin(c)
  <2>1. CASE got[c].role = "admin"
    <3>1. goal[c] = "admin"
      BY <1>6, <2>1 DEF LosesAdmin
    <3>2. users'[i] = [users[i] EXCEPT !.role = "admin"]
      BY <1>1, <1>3, <3>1
    <3>3. users'[i] \in User /\ users'[i].role = "admin"
      BY <1>1, <3>2 DEF User, Role
    <3> QED
      BY <1>1, <3>3, AccountsAssumption DEF Admins, Rows
  <2>2. CASE got[c].role # "admin"
    <3>1. PICK j \in Admins : j # i
      BY <1>1, <2>2 DEF Admins
    <3>2. j \in Admins'
      BY <3>1, <1>4 DEF Admins, Rows
    <3> QED
      BY <3>2
  <2> QED
    BY <2>1, <2>2
<1> QED
  BY <1>5, <1>6

\* The rule of the last admin holds for every request beside which nobody changed the
\* accounts since it read its row.
THEOREM LastAdminKept == Spec => AdminLostInRaceOnly
<1> DEFINE Step ==
      \A c \in Client :
        pc[c] = "cleared" /\ alone[c] /\ Admins # {} => pc'[c] = "cleared" \/ Admins' # {}
<1>1. ASSUME Inv, [Next]_vars PROVE Step
  <2> SUFFICES ASSUME NEW c \in Client, pc[c] = "cleared", alone[c], Admins # {},
                      pc'[c] # "cleared"
               PROVE  Admins' # {}
    OBVIOUS
  <2> USE <1>1 DEF Inv
  <2>1. CASE Apply(c)
    BY <2>1, ApplyAlone
  <2>2. CASE GiveUp(c)
    BY <2>2 DEF GiveUp, tables, Admins, Rows
  <2>3. ASSUME NEW d \in Client, d # c,
               \/ CreateUser(d)
               \/ Authenticate(d) \/ LoginInsert(d) \/ Sweep(d)
               \/ AccountGuard(d) \/ AccountConfirm(d)
               \/ PasswordFind(d) \/ PasswordUpdate(d) \/ PasswordEvict(d)
               \/ Reissue(d)
               \/ Find(d) \/ Clear(d) \/ RefuseLast(d) \/ Apply(d) \/ NotFound(d) \/ GiveUp(d)
        PROVE  pc'[c] = pc[c]
    BY <2>3
    DEF CreateUser, Authenticate, LoginInsert, Sweep, AccountGuard, AccountConfirm, PasswordFind,
        PasswordUpdate, PasswordEvict, PasswordDone, Reissue, Find, Clear, RefuseLast, Apply,
        NotFound, GiveUp, Over, Ends, Goto, vars, locals, TypeOK
  <2>4. ASSUME \/ CreateUser(c)
               \/ Authenticate(c) \/ LoginInsert(c) \/ Sweep(c)
               \/ AccountGuard(c) \/ AccountConfirm(c)
               \/ PasswordFind(c) \/ PasswordUpdate(c) \/ PasswordEvict(c)
               \/ Reissue(c)
               \/ Find(c) \/ Clear(c) \/ RefuseLast(c) \/ NotFound(c)
        PROVE  FALSE
    BY <2>4
    DEF CreateUser, Authenticate, LoginInsert, Sweep, AccountGuard, AccountConfirm, PasswordFind,
        PasswordUpdate, PasswordEvict, PasswordDone, Reissue, Find, Clear, RefuseLast, NotFound
  <2>5. CASE Expire \/ DeleteSession \/ UNCHANGED vars
    BY <2>5 DEF Expire, DeleteSession, vars, locals
  <2> QED
    BY <2>1, <2>2, <2>3, <2>4, <2>5 DEF Next
<1>2. Inv /\ [Next]_vars => [Step]_vars
  BY <1>1
<1> QED
  BY <1>2, Invariance, PTL DEF Spec, AdminLostInRaceOnly
-----------------------------------------------------------------------------
(* What a password change evicts *)

\* A change that has returned is not newer than the password of its row.
Evicts == \A i \in Rows : evicted[i] <= users[i].pw

\* Nor is the one a SetPassword has written and not yet evicted for.
Owned ==
  \A c \in Client :
    pc[c] = "changed" /\ got[c].id \in Rows => own[c] <= users[got[c].id].pw

\* Undisturbed, it is the last password set, and what a login verified is still the row.
Latest ==
  \A c \in Client : pc[c] \in {"changed", "reissuing"} /\ alone[c] => own[c] = issued

Verified ==
  \A c \in Client : pc[c] = "verified" /\ alone[c] => users[got[c].id] = got[c]

Race == Evicts /\ Owned /\ Latest /\ Verified

\* A new row has no change to evict for; whoever is under way is disturbed.
LEMMA CreateUserRace ==
  ASSUME Inv, Race, NEW c \in Client, CreateUser(c)
  PROVE  Race'
<1> USE AccountsAssumption DEF Inv, Race
<1>1. /\ NextId = lastId + 1 /\ NextId \in Id /\ users[NextId] = NoUser
      /\ issued \in Nat /\ issued' = issued + 1 /\ pc[c] = "idle"
      /\ alone' = [d \in Client |-> d = c \/ pc[d] = "idle"]
      /\ UNCHANGED <<pc, got, own, evicted>>
  BY DEF CreateUser, NextId, Disturbs, Numbered, Rows, Id, TypeOK
<1>2. PICK n \in Name, r \in Role :
        users' = [users EXCEPT ![NextId] = [id |-> NextId, name |-> n, role |-> r,
                                            pw |-> issued + 1, born |-> issued + 1]]
  BY DEF CreateUser
<1>3. /\ users'[NextId].pw = issued + 1
      /\ \A i \in Id : i # NextId => users'[i] = users[i]
      /\ Rows' \subseteq Rows \cup {NextId}
  BY <1>1, <1>2 DEF TypeOK, Rows
<1>4. Evicts'
  <2> SUFFICES ASSUME NEW i \in Rows' PROVE evicted[i] <= users'[i].pw
    BY <1>1 DEF Evicts
  <2>1. CASE i = NextId
    BY <2>1, <1>1, <1>3 DEF TypeOK
  <2>2. CASE i # NextId
    BY <2>2, <1>3 DEF Evicts, Rows
  <2> QED
    BY <2>1, <2>2
<1>5. Owned'
  <2> SUFFICES ASSUME NEW d \in Client, pc[d] = "changed", got[d].id \in Rows'
               PROVE  own[d] <= users'[got[d].id].pw
    BY <1>1 DEF Owned
  <2>1. got[d].id # NextId
    BY <1>1 DEF Hand, InHand, TypeOK, User, Id
  <2> QED
    BY <2>1, <1>3 DEF Owned, Rows
<1>6. \A d \in Client : alone'[d] => pc'[d] = "idle"
  BY <1>1
<1>7. Latest' /\ Verified'
  BY <1>6 DEF Latest, Verified
<1> QED
  BY <1>4, <1>5, <1>7

\* The change sets the newest password of all, and disturbs the others.
LEMMA PasswordUpdateRace ==
  ASSUME Inv, Race, NEW c \in Client, PasswordUpdate(c)
  PROVE  Race'
<1> USE AccountsAssumption DEF Inv, Race
<1> DEFINE i == got[c].id
<1>1. /\ issued \in Nat /\ issued' = issued + 1
      /\ pc \in [Client -> At] /\ own \in [Client -> 0..issued]
      /\ pc' = [pc EXCEPT ![c] = "changed"] /\ own' = [own EXCEPT ![c] = issued + 1]
      /\ alone' = [d \in Client |-> d = c \/ pc[d] = "idle"]
      /\ UNCHANGED <<got, evicted>>
      /\ evicted \in [Id -> 0..issued] /\ i \in Id
      /\ users' = IF i \in Rows THEN [users EXCEPT ![i].pw = issued + 1] ELSE users
  BY DEF PasswordUpdate, Disturbs, Goto, TypeOK, InHand, User
<1>2. /\ Rows' \subseteq Rows
      /\ i \in Rows => users'[i].pw = issued + 1
      /\ \A j \in Id : j # i => users'[j] = users[j]
      /\ \A j \in Rows : users[j].pw \in Nat
  BY <1>1 DEF TypeOK, Rows, User
<1>3. \A j \in Rows' : j = i => users'[j].pw = issued + 1
  BY <1>2
<1>4. Evicts'
  <2> SUFFICES ASSUME NEW j \in Rows' PROVE evicted[j] <= users'[j].pw
    BY <1>1 DEF Evicts
  <2>1. CASE j = i
    BY <2>1, <1>1, <1>3
  <2>2. CASE j # i
    BY <2>2, <1>2 DEF Evicts, Rows
  <2> QED
    BY <2>1, <2>2
<1>5. Owned'
  <2> SUFFICES ASSUME NEW d \in Client, pc'[d] = "changed", got[d].id \in Rows'
               PROVE  own'[d] <= users'[got[d].id].pw
    BY <1>1 DEF Owned
  <2>1. own'[d] \in 0..(issued + 1)
    BY <1>1
  <2>2. CASE got[d].id = i
    BY <2>1, <2>2, <1>1, <1>3
  <2>3. CASE got[d].id # i
    <3>1. pc[d] = "changed" /\ own'[d] = own[d]
      BY <2>3, <1>1
    <3> QED
      BY <2>3, <3>1, <1>2 DEF Owned, Rows
  <2> QED
    BY <2>2, <2>3
<1>6. \A d \in Client : alone'[d] => d = c \/ pc[d] = "idle"
  BY <1>1
<1>7. Latest' /\ Verified'
  BY <1>1, <1>6 DEF Latest, Verified
<1> QED
  BY <1>4, <1>5, <1>7

\* What a returning change is recorded with is not newer than its row.
LEMMA PasswordEvictRace ==
  ASSUME Inv, Race, NEW c \in Client, PasswordEvict(c)
  PROVE  Race'
<1> USE AccountsAssumption DEF Inv, Race
<1> DEFINE i == got[c].id
<1>1. /\ issued \in Nat /\ own \in [Client -> 0..issued] /\ evicted \in [Id -> 0..issued]
      /\ i \in Id /\ pc[c] = "changed"
      /\ evicted' = [evicted EXCEPT ![i] = Max2(@, own[c])]
      /\ UNCHANGED <<users, issued>>
  BY DEF PasswordEvict, PasswordDone, TypeOK, InHand, User
<1>2. Evicts'
  <2> SUFFICES ASSUME NEW j \in Rows PROVE evicted'[j] <= users[j].pw
    BY <1>1 DEF Evicts, Rows
  <2>1. evicted[j] <= users[j].pw /\ (j = i => own[c] <= users[j].pw)
    BY <1>1 DEF Evicts, Owned
  <2>2. evicted'[j] \in {evicted[j], own[c]} /\ (j # i => evicted'[j] = evicted[j])
    BY <1>1 DEF Max2, Rows
  <2> QED
    BY <2>1, <2>2
<1>3. \A d \in Client :
        /\ pc'[d] \in {"changed", "verified"} => d # c
        /\ d # c => pc'[d] = pc[d] /\ got'[d] = got[d] /\ own'[d] = own[d]
  BY DEF PasswordEvict, PasswordDone, Over, Ends, Goto, TypeOK
<1>4. Owned'
  BY <1>1, <1>3 DEF Owned, Rows
<1>5. \A d \in Client : d # c => (alone'[d] <=> alone[d])
  BY DEF PasswordEvict, PasswordDone, Over, TypeOK
<1>6. pc'[c] = "reissuing" => own'[c] = own[c] /\ (alone'[c] <=> alone[c])
  BY DEF PasswordEvict, PasswordDone, Over, Ends, Goto, TypeOK
<1>7. Latest'
  BY <1>1, <1>3, <1>5, <1>6 DEF Latest
<1>8. Verified'
  BY <1>1, <1>3, <1>5 DEF Verified
<1> QED
  BY <1>2, <1>4, <1>7, <1>8

\* A new role keeps the password, and whoever is under way is disturbed.
LEMMA ApplyRace ==
  ASSUME Inv, Race, NEW c \in Client, Apply(c)
  PROVE  Race'
<1> USE AccountsAssumption DEF Inv, Race
<1>1. /\ Rows' \subseteq Rows
      /\ \A i \in Rows' : users'[i].pw = users[i].pw
  BY DEF Apply, TypeOK, Rows, User
<1>2. /\ pc' = [pc EXCEPT ![c] = "idle"] /\ pc \in [Client -> At]
      /\ alone' = [d \in Client |-> d = c \/ pc[d] = "idle"]
      /\ \A d \in Client : d # c => got'[d] = got[d] /\ own'[d] = own[d]
      /\ UNCHANGED evicted
  BY DEF Apply, Disturbs, Ends, Goto, TypeOK
<1>3. Evicts'
  BY <1>1, <1>2 DEF Evicts
<1>4. Owned'
  BY <1>1, <1>2 DEF Owned
<1>5. \A d \in Client : alone'[d] => pc'[d] = "idle"
  BY <1>2
<1>6. Latest' /\ Verified'
  BY <1>5 DEF Latest, Verified
<1> QED
  BY <1>3, <1>4, <1>6

\* The steps that leave accounts and changes alone.
LEMMA SteadyRace ==
  ASSUME Inv, Race, UNCHANGED <<users, issued, evicted>>,
         \A d \in Client :
           \/ pc'[d] \notin {"verified", "changed", "reissuing"}
           \/ pc'[d] = pc[d] /\ got'[d] = got[d] /\ own'[d] = own[d] /\ (alone'[d] <=> alone[d])
           \/ pc'[d] = "verified" /\ users[got'[d].id] = got'[d]
  PROVE  Race'
BY DEF Race, Evicts, Owned, Latest, Verified, Rows

\* Every step keeps the second invariant.
LEMMA RaceStep == Inv /\ Race /\ [Next]_vars => Race'
<1> SUFFICES ASSUME Inv, Race, [Next]_vars PROVE Race'
  OBVIOUS
<1>1. CASE UNCHANGED vars \/ Expire \/ DeleteSession
  <2>1. UNCHANGED <<users, issued, evicted, pc, got, own, alone>>
    BY <1>1 DEF vars, tables, locals, Expire, DeleteSession
  <2> QED
    BY <2>1, SteadyRace
<1>2. ASSUME NEW c \in Client, Authenticate(c)
      PROVE  Race'
  <2>1. /\ pc' = [pc EXCEPT ![c] = "verified"] /\ pc \in [Client -> At]
        /\ \A d \in Client : d # c => got'[d] = got[d]
        /\ got'[c] = users[got'[c].id]
        /\ UNCHANGED <<users, issued, evicted, own, alone>>
    BY <1>2 DEF Authenticate, Reads, Goto, tables, Inv, TypeOK, Rows
  <2> QED
    BY <2>1, SteadyRace
<1>3. ASSUME NEW c \in Client,
             \/ LoginInsert(c) \/ Sweep(c) \/ AccountGuard(c) \/ AccountConfirm(c)
             \/ PasswordFind(c)
             \/ Reissue(c) \/ Find(c) \/ Clear(c) \/ RefuseLast(c) \/ GiveUp(c)
      PROVE  Race'
  <2>1. UNCHANGED <<users, issued, evicted>>
    BY <1>3 DEF LoginInsert, Sweep, AccountGuard, AccountConfirm, PasswordFind, Reissue, Find,
                Clear, RefuseLast, GiveUp, tables
  <2>2. /\ pc'[c] \notin {"verified", "changed", "reissuing"}
        /\ \A d \in Client : d # c => pc'[d] = pc[d] /\ got'[d] = got[d] /\ own'[d] = own[d]
    BY <1>3 DEF LoginInsert, Sweep, AccountGuard, AccountConfirm, PasswordFind, Reissue, Find,
                Clear, RefuseLast, GiveUp, Reads, Over, Ends, Goto, Inv, TypeOK
  <2>3. \A d \in Client : d # c => (alone'[d] <=> alone[d])
    BY <1>3 DEF LoginInsert, Sweep, AccountGuard, AccountConfirm, PasswordFind, Reissue, Find,
                Clear, RefuseLast, GiveUp, Over, Inv, TypeOK
  <2> QED
    BY <2>1, <2>2, <2>3, SteadyRace
<1>4. ASSUME NEW c \in Client, NotFound(c)
      PROVE  Race'
  BY <1>1, <1>4 DEF NotFound
<1>5. ASSUME NEW c \in Client,
             CreateUser(c) \/ PasswordUpdate(c) \/ PasswordEvict(c) \/ Apply(c)
      PROVE  Race'
  BY <1>5, CreateUserRace, PasswordUpdateRace, PasswordEvictRace, ApplyRace
<1> QED
  BY <1>1, <1>2, <1>3, <1>4, <1>5 DEF Next

\* A session made beside nobody has a password no older than any change that has returned.
LEMMA FreshSession ==
  ASSUME Inv, Race, NEW c \in Client, alone[c], LoginInsert(c) \/ Reissue(c),
         NEW s \in sessions', s \notin sessions
  PROVE  s.pw >= evicted[s.user]
<1> USE AccountsAssumption DEF Inv, Race
<1>1. CASE LoginInsert(c)
  <2>1. /\ s.user = got[c].id /\ s.pw = got[c].pw /\ got[c].id \in Rows
        /\ pc[c] = "verified"
    BY <1>1 DEF LoginInsert, Insert
  <2>2. evicted[s.user] <= s.pw
    BY <2>1 DEF Evicts, Verified
  <2>3. evicted[s.user] \in Nat /\ s.pw \in Nat
    BY <2>1 DEF TypeOK, Rows, User, InHand
  <2> QED
    BY <2>2, <2>3
<1>2. CASE Reissue(c)
  <2>1. PICK i \in Rows : s.user = i /\ s.pw = own[c]
    BY <1>2 DEF Reissue, Insert
  <2>2. own[c] = issued
    BY <1>2 DEF Reissue, Latest
  <2>3. evicted[i] \in 0..issued /\ issued \in Nat
    BY <2>1 DEF TypeOK, Rows
  <2> QED
    BY <2>1, <2>2, <2>3
<1> QED
  BY <1>1, <1>2

\* A password change leaves no older session but those of requests beside it.
THEOREM ChangeEvicts == Spec => EvictedButForRaces
<1> DEFINE Step ==
      \A s \in sessions' :
        s.pw < evicted'[s.user] /\ ~s.expired =>
          IF s \in sessions THEN s.pw < evicted[s.user]
          ELSE \E c \in Client : pc[c] \in {"verified", "reissuing"} /\ ~alone[c]
<1>1. ASSUME Inv, Race, [Next]_vars PROVE Step
  <2> SUFFICES ASSUME NEW s \in sessions', s.pw < evicted'[s.user], ~s.expired
               PROVE  IF s \in sessions THEN s.pw < evicted[s.user]
                      ELSE \E c \in Client : pc[c] \in {"verified", "reissuing"} /\ ~alone[c]
    OBVIOUS
  <2> USE <1>1 DEF Inv
  <2>1. ASSUME NEW c \in Client, PasswordEvict(c)
        PROVE  s \in sessions /\ s.pw < evicted[s.user]
    <3>1. s \in sessions /\ s.user # got[c].id /\ s.user \in Id
      BY <2>1 DEF PasswordEvict, PasswordDone, TypeOK, Session
    <3>2. evicted'[s.user] = evicted[s.user]
      BY <2>1, <3>1 DEF PasswordEvict, PasswordDone, TypeOK
    <3> QED
      BY <3>1, <3>2
  <2>2. ASSUME NEW c \in Client, LoginInsert(c) \/ Reissue(c), s \notin sessions
        PROVE  pc[c] \in {"verified", "reissuing"} /\ ~alone[c]
    <3>1. evicted' = evicted /\ pc[c] \in {"verified", "reissuing"}
      BY <2>2 DEF LoginInsert, Reissue
    <3>2. evicted[s.user] \in Nat /\ s.pw \in Nat
      <4>1. s \in Session'
        BY <2>2, LoginInsertInv, ReissueInv DEF TypeOK
      <4> QED
        BY <4>1 DEF TypeOK, Session
    <3>3. ~(s.pw >= evicted[s.user])
      BY <3>1, <3>2
    <3>4. ~alone[c]
      BY <2>2, <3>3, FreshSession
    <3> QED
      BY <3>1, <3>4
  <2>3. CASE evicted' = evicted /\ s \in sessions
    BY <2>3
  <2>4. CASE Expire
    BY <2>4 DEF Expire, TypeOK, Session
  <2>5. ASSUME NEW c \in Client,
               \/ CreateUser(c) \/ Authenticate(c) \/ Sweep(c)
               \/ AccountGuard(c) \/ AccountConfirm(c) \/ PasswordFind(c) \/ PasswordUpdate(c)
               \/ Find(c) \/ Clear(c) \/ RefuseLast(c) \/ Apply(c) \/ NotFound(c) \/ GiveUp(c)
        PROVE  evicted' = evicted /\ s \in sessions
    BY <2>5
    DEF CreateUser, Authenticate, Sweep, AccountGuard, AccountConfirm, PasswordFind, PasswordUpdate,
        Find, Clear, RefuseLast, Apply, NotFound, GiveUp, vars, tables
  <2>6. CASE DeleteSession \/ UNCHANGED vars
    BY <2>6, <2>3 DEF DeleteSession, vars, tables
  <2>7. ASSUME NEW c \in Client, LoginInsert(c) \/ Reissue(c), s \in sessions
        PROVE  evicted' = evicted
    BY <2>7 DEF LoginInsert, Reissue
  <2> QED
    BY <2>1, <2>2, <2>3, <2>4, <2>5, <2>6, <2>7 DEF Next
<1>2. Init => Race
  BY DEF Init, Race, Evicts, Owned, Latest, Verified, Rows
<1>3. Spec => [](Inv /\ Race)
  BY InvInit, InvStep, RaceStep, <1>2, PTL DEF Spec
<1>4. Inv /\ Race /\ [Next]_vars => [Step]_vars
  BY <1>1
<1> QED
  BY <1>3, <1>4, PTL DEF Spec, EvictedButForRaces
-----------------------------------------------------------------------------
(* The schema of the store, for any number of processes and any binaries   *)
(*                                                                         *)
(* One process at a time has the write transaction, and whoever has it has *)
(* made and recorded the same migration (Transaction); a process has come  *)
(* past a migration only when it is recorded (Passed).  As migrations are  *)
(* recorded in their order, what an older binary leaves is a prefix, which *)
(* a newer one extends.                                                    *)

\* Among finitely many binaries one is the newest.  (A smallest set without one would
\* be a single binary, or have the newest of the others.)
LEMMA NewestBinary ==
  ASSUME IsFiniteSet(Process), Process # {}, Embedded \in [Process -> Nat]
  PROVE  \E p \in Process : \A q \in Process : Embedded[q] <= Embedded[p]
<1> DEFINE Newest(T, p) == \A q \in T : Embedded[q] <= Embedded[p]
           Bad == {T \in FiniteSubsetsOf(Process) : T # {} /\ ~\E p \in T : Newest(T, p)}
<1>1. ASSUME Bad # {} PROVE FALSE
  <2>1. PICK T \in Bad : \A U \in Bad : ~(<<U, T>> \in StrictSubsetOrdering(Process))
    <3>1. IsWellFoundedOn(StrictSubsetOrdering(Process), FiniteSubsetsOf(Process))
      BY FS_StrictSubsetOrderingWellFounded
    <3> QED
      BY <1>1, <3>1, WFMin
  <2>2. IsFiniteSet(T) /\ T \subseteq Process /\ T # {} /\ ~\E p \in T : Newest(T, p)
    BY DEF FiniteSubsetsOf
  <2>3. PICK x \in T : TRUE
    BY <2>2
  <2>4. T \ {x} # {}
    <3>1. T = {x} => Newest(T, x)
      BY <2>2
    <3> QED
      BY <2>2, <2>3, <3>1
  <2>5. T \ {x} \notin Bad
    BY <2>1, <2>2 DEF StrictSubsetOrdering
  <2>6. PICK m \in T \ {x} : Newest(T \ {x}, m)
    BY <2>2, <2>4, <2>5, FS_Subset DEF FiniteSubsetsOf
  <2>7. Embedded[x] \in Nat /\ Embedded[m] \in Nat /\ \A q \in T : Embedded[q] \in Nat
    BY <2>2
  <2>8. CASE Embedded[x] <= Embedded[m]
    BY <2>2, <2>6, <2>8
  <2>9. CASE Embedded[m] <= Embedded[x]
    BY <2>2, <2>6, <2>7, <2>9
  <2> QED
    BY <2>7, <2>8, <2>9
<1> QED
  BY <1>1 DEF FiniteSubsetsOf

\* What the write transaction of a process has done at each point.
Transaction ==
  /\ \A p \in Process : mPc[p] \in {"begun", "made", "written"} <=> writer = p
  /\ writer = Nobody => made = {} /\ written = {}
  /\ writer # Nobody =>
       /\ made = IF mPc[writer] = "begun" THEN {} ELSE {next[writer]}
       /\ written = IF mPc[writer] = "written" THEN {next[writer]} ELSE {}

\* What a process has behind it: the names it read are recorded, and so is everything its
\* loop has come past.
Passed ==
  \A p \in Process :
    /\ mPc[p] \in {"begun", "made", "written"} => next[p] <= Embedded[p]
    /\ mPc[p] \in {"loop", "begun", "made", "written"} =>
         /\ applied[p] \subseteq recorded
         /\ \A m \in File!Migration : m < next[p] => m \in recorded

\* SchemaRecorded and OpenComplete, with "everything before" spelt out.
Sound ==
  /\ schema = recorded
  /\ \A m \in recorded : \A k \in File!Migration : k < m => k \in recorded
  /\ \A p \in Process : mPc[p] = "open" =>
       \A m \in File!Migration : m <= Embedded[p] => m \in recorded

FileInv == File!TypeOK /\ Transaction /\ Passed /\ Sound

\* Last is the number of the newest binary.
LEMMA LastEmbedded ==
  ASSUME Binaries
  PROVE  File!Last \in Nat /\ \A p \in Process : Embedded[p] <= File!Last
<1>1. PICK p \in Process : \A q \in Process : Embedded[q] <= Embedded[p]
  BY NewestBinary DEF Binaries
<1>2. /\ File!Last \in {Embedded[q] : q \in Process}
      /\ \A q \in Process : Embedded[q] <= File!Last
  BY <1>1 DEF File!Last
<1> QED
  BY <1>2 DEF Binaries

\* Whatever an older binary has left is whole.
LEMMA FileInit == ASSUME Binaries PROVE File!Init => FileInv
<1> SUFFICES ASSUME File!Init PROVE FileInv
  OBVIOUS
<1>1. File!Last \in Nat
  BY LastEmbedded
<1>2. PICK n \in 0..File!Last : schema = 1..n
  BY DEF File!Init
<1> QED
  BY <1>1, <1>2
  DEF Binaries, File!Init, FileInv, File!TypeOK, File!Migration, Transaction, Passed, Sound

\* Every step keeps the invariant.
LEMMA FileStep == ASSUME Binaries PROVE FileInv /\ [File!Next]_File!vars => FileInv'
<1> SUFFICES ASSUME FileInv, [File!Next]_File!vars
             PROVE  FileInv'
  OBVIOUS
<1>0. File!Last \in Nat /\ \A p \in Process : Embedded[p] \in Nat /\ Embedded[p] <= File!Last
  BY LastEmbedded DEF Binaries
<1> USE DEF FileInv, File!TypeOK, File!Migration, Transaction, Passed, Sound, Binaries,
            File!Goto, File!file
<1>1. ASSUME NEW p \in Process, File!Step(p) PROVE FileInv'
  <2>1. CASE File!Ensure(p)
    BY <1>0, <2>1 DEF File!Ensure
  <2>2. CASE File!Read(p)
    BY <1>0, <2>2 DEF File!Read
  <2>3. CASE File!Skip(p)
    BY <1>0, <2>3 DEF File!Skip
  <2>4. CASE File!Begin(p)
    BY <1>0, <2>4 DEF File!Begin
  <2>5. CASE File!Make(p)
    BY <1>0, <2>5 DEF File!Make
  <2>6. CASE File!MakeFails(p)
    BY <1>0, <2>6 DEF File!MakeFails
  <2>7. CASE File!Record(p)
    BY <1>0, <2>7 DEF File!Record
  <2>8. CASE File!Commit(p)
    BY <1>0, <2>8 DEF File!Commit
  <2>9. CASE File!Opened(p)
    BY <1>0, <2>9 DEF File!Opened, File!Finished
  <2>10. CASE File!Again(p)
    BY <1>0, <2>10 DEF File!Again
  <2> QED
    BY <1>1, <2>1, <2>2, <2>3, <2>4, <2>5, <2>6, <2>7, <2>8, <2>9, <2>10 DEF File!Step
<1>2. ASSUME NEW p \in Process, File!Busy(p) PROVE FileInv'
  BY <1>0, <1>2 DEF File!Busy
<1>3. ASSUME NEW p \in Process, File!Die(p) PROVE FileInv'
  <2>1. CASE writer = p
    BY <1>0, <1>3, <2>1 DEF File!Die
  <2>2. CASE writer # p
    <3>1. /\ mPc' = [mPc EXCEPT ![p] = "closed"] /\ faults' = faults + 1 /\ faults < MaxFaults
          /\ UNCHANGED <<schema, recorded, writer, made, written, applied, next>>
      BY <1>3, <2>2 DEF File!Die
    <3>2. File!TypeOK'
      BY <1>0, <3>1
    <3>3. Transaction'
      BY <2>2, <3>1
    <3>4. Passed' /\ Sound'
      BY <3>1
    <3> QED
      BY <3>2, <3>3, <3>4
  <2> QED
    BY <2>1, <2>2
<1>4. CASE UNCHANGED File!vars
  BY <1>4 DEF File!vars
<1> QED
  BY <1>1, <1>2, <1>3, <1>4 DEF File!Next

\* Schema and record agree, and an open store is complete, whoever died where and whatever
\* the ages of the binaries.
THEOREM SchemaStaysSound ==
  ASSUME Binaries
  PROVE  File!Spec => []SchemaSound
<1>1. FileInv => SchemaSound
  <2> SUFFICES ASSUME FileInv PROVE SchemaSound
    OBVIOUS
  <2>1. File!Last \in Nat /\ \A p \in Process : Embedded[p] \in Nat /\ Embedded[p] <= File!Last
    BY LastEmbedded DEF Binaries
  <2> QED
    BY <2>1 DEF FileInv, File!TypeOK, Sound, File!Migration, SchemaSound,
       File!SchemaSound, File!SchemaRecorded, File!OpenComplete
<1> QED
  BY <1>1, FileInit, FileStep, PTL DEF File!Spec

\* Every reachable state of Migrate is well typed.
THEOREM FileTypeCorrect == ASSUME Binaries PROVE File!Spec => []File!TypeOK
<1>1. FileInv => File!TypeOK
  BY DEF FileInv
<1> QED
  BY <1>1, FileInit, FileStep, PTL DEF File!Spec
=============================================================================
