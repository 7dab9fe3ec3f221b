--------------------------- MODULE Accounts_proofs ---------------------------
(***************************************************************************)
(* Who may do what, and who is signed in: proved for any people, sessions, *)
(* requests and failures.                                                  *)
(*   - StaysSignedIn: no failure shows the console as signed out;          *)
(*   - AdminRemains: an update that was checked leaves an administrator;   *)
(*   - PasswordsStay: a password goes to the user it was typed for.        *)
(* An update is checked and committed in two steps.  Accounts keeps the    *)
(* history variable overlap, and the invariant says what it is good for:   *)
(* as long as it is false, no account changes between the two.             *)
(***************************************************************************)
EXTENDS Accounts, SignIn, SequenceTheorems, TLAPS

-----------------------------------------------------------------------------
(* Signing in and out *)

\* No session is known before it is opened.
Opened == cookie <= opened /\ alive <= opened /\ login.with <= opened

\* While no login overtook a request, every request carries the cookie of now, and a
\* denial means that its session is over.
CarriesCookie(r) == r.phase # "idle" => r.with = cookie

Honest ==
  ~overtaken =>
    /\ CarriesCookie(meFetch) /\ CarriesCookie(logout)
    /\ \A k \in Calls : CarriesCookie(call[k])
    /\ \/ ~SignedIn
       \/ /\ me # "nobody" /\ logout.phase # "accepted"
          /\ meFetch.phase = "answered" => meFetch.user = "somebody"
          /\ \A k \in Calls : call[k].phase # "denied"

\* The types that matter to it.
SignInShape ==
  /\ {alive, cookie, opened} \subseteq 0..MaxSessions
  /\ meFetch \in [phase : {"idle", "sent", "answered"}, with : 0..MaxSessions,
                  user : {"nobody", "somebody"}]
  /\ call \in [Calls -> InFlight] /\ login \in InFlight /\ logout \in InFlight

SignInInv == SignInShape /\ Opened /\ Honest

\* A request that is not on its way has the type of one.
LEMMA NoCallIs == NoCall \in InFlight
  BY SignInAssumption DEF NoCall, InFlight

\* The console starts with the cookie it has, and with one request that carries it.
LEMMA SignInInitial == SignInInit => SignInInv
<1> SUFFICES ASSUME SignInInit PROVE SignInInv
  OBVIOUS
<1> USE SignInAssumption DEF SignInInit, NoFetch
<1>1. {alive, cookie, opened} \subseteq 0..MaxSessions
  OBVIOUS
<1>2. meFetch \in [phase : {"idle", "sent", "answered"}, with : 0..MaxSessions,
                   user : {"nobody", "somebody"}]
  BY <1>1
<1>3. call \in [Calls -> InFlight]
  BY NoCallIs
<1>4. SignInShape
  BY <1>1, <1>2, <1>3, NoCallIs DEF SignInShape
<1>5. Opened
  BY DEF Opened, NoCall
<1>6. Honest
  BY DEF Honest, CarriesCookie, NoCall
<1>7. QED BY <1>4, <1>5, <1>6 DEF SignInInv

\* Every answer is about the cookie of now, or something was overtaken.
LEMMA SignInStep == SignInInv /\ [SignInNext]_signInVars => SignInInv'
<1> SUFFICES ASSUME SignInInv, [SignInNext]_signInVars PROVE SignInInv'
  OBVIOUS
<1> USE SignInAssumption DEF SignInInv, SignInShape, Opened, Honest, CarriesCookie,
        NoFetch, NoCall, InFlight, SignedIn, Knows, OldInFlight, Spoil
<1>1. CASE FetchMe
  BY <1>1 DEF FetchMe
<1>2. CASE ServeMe
  BY <1>2 DEF ServeMe
<1>3. CASE MeArrives
  <2>1. me' = meFetch.user /\ (overtaken' = overtaken)
    BY <1>3, Zenon DEF MeArrives, SetMe
  <2>2. SignInShape' /\ Opened' BY <1>3, <2>1 DEF MeArrives
  <2>3. Honest' BY <1>3, <2>1 DEF MeArrives
  <2>4. QED BY <2>2, <2>3
<1>4. CASE MeFails
  <2>1. me' = me /\ (overtaken' = overtaken)
    BY <1>4, Zenon DEF MeFails, SetMe
  <2>2. SignInShape' /\ Opened' BY <1>4, <2>1 DEF MeFails
  <2>3. Honest' BY <1>4, <2>1 DEF MeFails
  <2>4. QED BY <2>2, <2>3
<1>5. CASE Edit
  BY <1>5 DEF Edit
<1>6. ASSUME NEW k \in Calls, SendCall(k) PROVE SignInInv'
  BY <1>6 DEF SendCall
<1>7. ASSUME NEW k \in Calls, ServeCall(k) PROVE SignInInv'
  BY <1>7 DEF ServeCall
<1>8. ASSUME NEW k \in Calls, Denied(k) PROVE SignInInv'
  <2>1. me' = "nobody" /\ (overtaken' = overtaken)
    BY <1>8, Zenon DEF Denied, SetMe
  <2>2. SignInShape' /\ Opened' BY <1>8, <2>1 DEF Denied
  <2>3. Honest' BY <1>8, <2>1 DEF Denied
  <2>4. QED BY <2>2, <2>3
<1>9. ASSUME NEW k \in Calls, CallFails(k) PROVE SignInInv'
  BY <1>9 DEF CallFails, LeavesMe
<1>10. CASE SubmitLogin
  BY <1>10 DEF SubmitLogin
<1>11. CASE ServeLogin
  BY <1>11 DEF ServeLogin
<1>12. CASE LoginArrives
  <2>1. me' = "somebody" /\ (overtaken' <=> overtaken \/ OldInFlight)
    BY <1>12, Zenon DEF LoginArrives, SetMe
  <2>2. SignInShape' /\ Opened' BY <1>12, <2>1 DEF LoginArrives
  <2>3. Honest' BY <1>12, <2>1 DEF LoginArrives
  <2>4. QED BY <2>2, <2>3
<1>13. CASE LoginFails
  BY <1>13 DEF LoginFails
<1>14. CASE SubmitLogout
  BY <1>14 DEF SubmitLogout
<1>15. CASE ServeLogout
  BY <1>15 DEF ServeLogout
<1>16. CASE LogoutArrives
  <2>1. me' = "nobody" /\ (overtaken' = overtaken)
    BY <1>16, Zenon DEF LogoutArrives, SetMe
  <2>2. SignInShape' /\ Opened' BY <1>16, <2>1 DEF LogoutArrives
  <2>3. Honest' BY <1>16, <2>1 DEF LogoutArrives
  <2>4. QED BY <2>2, <2>3
<1>17. CASE LogoutFails
  BY <1>17 DEF LogoutFails
<1>18. CASE SessionExpires
  BY <1>18 DEF SessionExpires
<1>19. CASE OtherTabSignsIn
  BY <1>19 DEF OtherTabSignsIn
<1>20. CASE UNCHANGED signInVars BY <1>20 DEF signInVars
<1>21. QED
  BY <1>1, <1>2, <1>3, <1>4, <1>5, <1>6, <1>7, <1>8, <1>9, <1>10, <1>11, <1>12, <1>13,
     <1>14, <1>15, <1>16, <1>17, <1>18, <1>19, <1>20 DEF SignInNext

\* The console shows nobody only when the session of its cookie is over, or a request
\* was overtaken by a login (NobodyIsThrownOut): failures of any request never do it.
THEOREM StaysSignedIn == SignInSpec => []NobodyIsThrownOut
<1>1. SignInInv => NobodyIsThrownOut
  BY DEF SignInInv, Honest, NobodyIsThrownOut
<1>2. QED BY <1>1, SignInInitial, SignInStep, PTL DEF SignInSpec

SignInKinds ==
  /\ me \in {"loading", "nobody", "somebody"}
  /\ meFailed \in BOOLEAN /\ edits \in BOOLEAN /\ overtaken \in BOOLEAN

\* What the shell shows is one of a few things, whoever answers.
LEMMA KindsStep ==
  ASSUME SignInShape, SignInKinds, [SignInNext]_signInVars
  PROVE  SignInKinds'
<1>1. ASSUME NEW user \in {"nobody", "somebody"}, SetMe(user)
      PROVE  me' \in {"nobody", "somebody"} /\ meFailed' \in BOOLEAN /\ edits' \in BOOLEAN
  <2>1. me' = user /\ meFailed' = FALSE /\ edits' = (edits /\ user = "somebody")
    BY <1>1 DEF SetMe
  <2>2. edits' \in BOOLEAN BY <2>1, Zenon
  <2> QED BY <2>1, <2>2
<1>2. CASE UNCHANGED <<me, meFailed, edits, overtaken>>
  BY <1>2 DEF SignInKinds
<1>3. CASE MeArrives
  BY <1>1, <1>3 DEF MeArrives, SignInKinds, SignInShape
<1>4. ASSUME NEW k \in Calls, Denied(k) PROVE SignInKinds'
  BY <1>1, <1>4 DEF Denied, SignInKinds
<1>5. CASE LoginArrives
  <2>1. overtaken' = (overtaken \/ OldInFlight) /\ SetMe("somebody") BY <1>5 DEF LoginArrives
  <2>2. overtaken' \in BOOLEAN BY <2>1, Zenon
  <2> QED BY <1>1, <2>1, <2>2 DEF SignInKinds
<1>6. CASE LogoutArrives
  BY <1>1, <1>6 DEF LogoutArrives, SignInKinds
<1>7. CASE MeFails BY <1>7 DEF MeFails, SignInKinds
<1>8. CASE Edit BY <1>8 DEF Edit, SignInKinds
<1>9. CASE OtherTabSignsIn BY <1>9 DEF OtherTabSignsIn, SignInKinds
<1>10. ASSUME FetchMe \/ ServeMe \/ SubmitLogin \/ ServeLogin \/ LoginFails \/ SubmitLogout
              \/ ServeLogout \/ LogoutFails \/ SessionExpires \/ UNCHANGED signInVars
       PROVE  SignInKinds'
  BY <1>2, <1>10 DEF FetchMe, ServeMe, SubmitLogin, ServeLogin, LoginFails, SubmitLogout,
     ServeLogout, LogoutFails, SessionExpires, signInVars
<1>11. ASSUME NEW k \in Calls, SendCall(k) \/ ServeCall(k) \/ CallFails(k)
       PROVE  SignInKinds'
  BY <1>2, <1>11 DEF SendCall, ServeCall, CallFails, LeavesMe
<1> QED
  BY <1>3, <1>4, <1>5, <1>6, <1>7, <1>8, <1>9, <1>10, <1>11 DEF SignInNext

\* Every variable of the shell keeps its type.
THEOREM SignInTyped == SignInSpec => []SignInTypeOK
<1>1. SignInInit => SignInKinds
  BY DEF SignInInit, SignInKinds
<1>2. SignInInv /\ SignInKinds /\ [SignInNext]_signInVars => SignInKinds'
  BY KindsStep DEF SignInInv
<1>3. SignInInv /\ SignInKinds => SignInTypeOK
  BY DEF SignInInv, SignInShape, SignInKinds, SignInTypeOK
<1> QED BY <1>1, <1>2, <1>3, SignInInitial, SignInStep, PTL DEF SignInSpec

-----------------------------------------------------------------------------
(* Accounts *)

UserRoles == {"ADMIN", "VIEWER"}
UserRow == [role : UserRoles, enabled : BOOLEAN]
UserUpdate ==
  [by : Consoles, user : People, what : {"role", "enabled", "password", "create"},
   to : UserRoles \cup {"yes", "no"} \cup People,
   phase : {"sent", "read", "refused", "done", "failed"}, stale : BOOLEAN]

AccountsShape == 
  /\ DOMAIN account \subseteq People /\ account \in [DOMAIN account -> UserRow]
  /\ password \in [DOMAIN account -> People]
  /\ mapping \in UserRoles \cup {"none"}
  /\ updates \in Seq(UserUpdate)
  /\ target \in [Consoles -> SUBSET DOMAIN account] /\ typed \in [Consoles -> SUBSET People]
  /\ overlap \in BOOLEAN /\ reused \in BOOLEAN

\* A request fits the account it is about, which is there and stays.
Fits(q) ==
  /\ q.what = "role" => q.to \in UserRoles
  /\ q.what = "password" => q.to \in People
  /\ IF q.what = "create" THEN q.to = q.user ELSE q.user \in DOMAIN account

\* What a transaction has checked still holds when it commits, and no other is between
\* its check and its commit.
CheckedHolds ==
  ~overlap =>
    /\ AdminsOf(account) # {}
    /\ \A i \in Sent : updates[i].phase = "read" =>
         Allowed(updates[i]) /\ \A j \in Sent : updates[j].phase = "read" => i = j

\* The text in a dialog was typed for the user it is open for.
TypedHere ==
  /\ \A c \in Consoles : \A u, v \in target[c] : u = v
  /\ ~reused =>
       /\ \A c \in Consoles : typed[c] # {} => typed[c] = target[c]
       /\ \A i \in Sent : updates[i].what = "password" => updates[i].to = updates[i].user
       /\ \A u \in DOMAIN password : password[u] = u

AccountsInv ==
  AccountsShape /\ (\A i \in Sent : Fits(updates[i])) /\ CheckedHolds /\ TypedHere

\* The bootstrapped administrators are there, and nothing was asked yet.
LEMMA AccountsInitial == AccountsInit => AccountsInv
<1> SUFFICES ASSUME AccountsInit PROVE AccountsInv
  OBVIOUS
<1> USE AccountsAssumption DEF AccountsInit
<1>1. AccountsShape
  <2>1. account \in [DOMAIN account -> UserRow] /\ DOMAIN account = Consoles
    BY DEF UserRow, UserRoles
  <2>2. target \in [Consoles -> SUBSET DOMAIN account] /\ password \in [DOMAIN account -> People]
    BY <2>1
  <2>3. updates \in Seq(UserUpdate)
    OBVIOUS
  <2> QED BY <2>1, <2>2, <2>3 DEF AccountsShape, UserRoles
<1>2. Sent = {} BY DEF Sent
<1>3. AdminsOf(account) # {}
  BY DEF AdminsOf, Admin
<1>4. CheckedHolds BY <1>2, <1>3 DEF CheckedHolds
<1>5. TypedHere BY <1>2 DEF TypedHere
<1> QED BY <1>1, <1>2, <1>4, <1>5 DEF AccountsInv

\* The requests are numbered.
LEMMA Numbered == ASSUME AccountsShape PROVE Sent = 1..Len(updates) /\ Len(updates) \in Nat
  BY DEF AccountsShape, Sent

\* A console sends a request that fits, with what was typed for its user.
LEMMA Asking ==
  ASSUME AccountsInv, NEW c \in Consoles, NEW u \in People,
         NEW what \in {"role", "enabled", "password", "create"},
         NEW to \in UserRoles \cup {"yes", "no"} \cup People,
         Update(c, u, what, to), UNCHANGED <<target, typed>>,
         what = "role" => to \in UserRoles,
         IF what = "create" THEN to = u ELSE u \in DOMAIN account,
         what = "password" => to \in People /\ (reused \/ to = u)
  PROVE  AccountsInv'
<1> DEFINE q == [by |-> c, user |-> u, what |-> what, to |-> to, phase |-> "sent", stale |-> FALSE]
           n == Len(updates) + 1
<1> USE DEF AccountsInv
<1>1. q \in UserUpdate BY DEF UserUpdate
<1>2. UNCHANGED <<account, password, mapping, overlap, reused>> /\ updates' = Append(updates, q)
  BY DEF Update
<1>3. /\ updates' \in Seq(UserUpdate) /\ Sent = 1..(n - 1) /\ Sent' = 1..n /\ n \in Nat
      /\ updates'[n] = q /\ \A i \in Sent : updates'[i] = updates[i]
  BY <1>1, <1>2 DEF AccountsShape, Sent
<1> HIDE DEF q, n
<1>4. \A i \in Sent' : i \in Sent \/ i = n
  BY <1>3
<1>5. AccountsShape' BY <1>2, <1>3 DEF AccountsShape
<1>6. \A i \in Sent' : Fits(updates[i])'
  <2>1. q.what = what /\ q.to = to /\ q.user = u BY DEF q
  <2> QED BY <1>2, <1>3, <1>4, <2>1 DEF Fits
<1>7. CheckedHolds'
  <2>1. q.phase = "sent" BY DEF q
  <2>2. \A i \in Sent : Allowed(updates[i])' <=> Allowed(updates[i])
    BY <1>2, <1>3 DEF Allowed, AdminsOf, Amended
  <2>3. AdminsOf(account)' = AdminsOf(account) BY <1>2 DEF AdminsOf
  <2> QED BY <1>2, <1>3, <1>4, <2>1, <2>2, <2>3 DEF CheckedHolds
<1>8. TypedHere'
  <2>1. q.what = what /\ q.to = to /\ q.user = u BY DEF q
  <2> QED BY <1>2, <1>3, <1>4, <2>1 DEF TypedHere
<1> QED BY <1>5, <1>6, <1>7, <1>8

\* What else a console does: it opens, fills and leaves its password dialog.
LEMMA AccountPageStep ==
  ASSUME AccountsInv, NEW c \in Consoles, NEW u \in People,
         \/ SetRole(c, u, "ADMIN") \/ SetRole(c, u, "VIEWER") \/ EnableUser(c, u)
         \/ DisableUser(c, u) \/ OpenPassword(c, u) \/ CreateUser(c, u)
         \/ TypePassword(c) \/ SavePassword(c) \/ CancelPassword(c)
  PROVE  AccountsInv'
<1>1. ASSUME NEW role \in UserRoles, SetRole(c, u, role) PROVE AccountsInv'
  BY <1>1, Asking DEF SetRole
<1>2. CASE EnableUser(c, u) BY <1>2, Asking DEF EnableUser
<1>3. CASE DisableUser(c, u) BY <1>3, Asking DEF DisableUser
<1>4. CASE CreateUser(c, u) BY <1>4, Asking DEF CreateUser
<1>5. CASE SavePassword(c)
  <2>1. PICK v \in target[c], w \in typed[c] : Update(c, v, "password", w)
    BY <1>5 DEF SavePassword
  <2>2. v \in People /\ w \in People BY DEF AccountsInv, AccountsShape
  <2>3. reused \/ w = v BY <2>1 DEF AccountsInv, TypedHere
  <2>4. v \in DOMAIN account BY DEF AccountsInv, AccountsShape
  <2> QED BY <1>5, <2>1, <2>2, <2>3, <2>4, Asking DEF SavePassword
<1>6. ASSUME UNCHANGED <<account, password, mapping, updates, overlap>>,
             AccountsShape', TypedHere'
      PROVE  AccountsInv'
  <2>1. \A i \in Sent : Allowed(updates[i])' <=> Allowed(updates[i])
    BY <1>6 DEF Allowed, AdminsOf, Amended
  <2>2. Sent' = Sent /\ AdminsOf(account)' = AdminsOf(account)
    BY <1>6 DEF Sent, AdminsOf
  <2> QED BY <1>6, <2>1, <2>2 DEF AccountsInv, Fits, CheckedHolds
<1>7. CASE OpenPassword(c, u)
  <2>1. AccountsShape' BY <1>7 DEF OpenPassword, AccountsInv, AccountsShape
  <2>2. TypedHere'
    BY <1>7 DEF OpenPassword, AccountsInv, AccountsShape, TypedHere, NoDialogOpen, Sent
  <2> QED BY <1>6, <1>7, <2>1, <2>2 DEF OpenPassword
<1>8. CASE TypePassword(c)
  <2>1. AccountsShape' BY <1>8 DEF TypePassword, AccountsInv, AccountsShape
  <2>2. TypedHere'
    BY <1>8 DEF TypePassword, AccountsInv, AccountsShape, TypedHere, Sent
  <2> QED BY <1>6, <1>8, <2>1, <2>2 DEF TypePassword
<1>9. CASE CancelPassword(c)
  <2>1. reused' \in BOOLEAN /\ (~reused' => ~reused /\ typed[c] = {})
    BY <1>9, Zenon DEF CancelPassword, AccountsInv, AccountsShape
  <2>2. AccountsShape' BY <1>9, <2>1 DEF CancelPassword, AccountsInv, AccountsShape
  <2>3. TypedHere'
    BY <1>9, <2>1 DEF CancelPassword, AccountsInv, AccountsShape, TypedHere, Sent
  <2> QED BY <1>6, <1>9, <2>2, <2>3 DEF CancelPassword
<1> QED BY <1>1, <1>2, <1>3, <1>4, <1>5, <1>7, <1>8, <1>9 DEF UserRoles

\* Requests that differ in how far they are, and in whether their row was written since.
SameRequest(p, q) ==
  /\ p \in UserUpdate /\ q \in UserUpdate
  /\ p.by = q.by /\ p.user = q.user /\ p.what = q.what /\ p.to = q.to

\* The server has another request wait, go on or fail; no account changes.
LEMMA CheckStep ==
  ASSUME AccountsInv, NEW i \in Sent, CheckUpdate(i) \/ UpdateFails(i)
  PROVE  AccountsInv'
<1> USE DEF AccountsInv
<1>1. updates[i] \in UserUpdate BY Numbered DEF AccountsShape
<1>2. PICK phase \in {"read", "refused", "failed"} :
        /\ updates' = [updates EXCEPT ![i].phase = phase]
        /\ phase = "read" => Allowed(updates[i]) /\ CheckUpdate(i)
  BY DEF CheckUpdate, UpdateFails
<1>3. /\ updates' \in Seq(UserUpdate) /\ Sent' = Sent
      /\ \A j \in Sent : SameRequest(updates[j], updates'[j])
      /\ updates'[i].phase = phase /\ \A j \in Sent : j # i => updates'[j] = updates[j]
  <2>1. [updates[i] EXCEPT !.phase = phase] \in UserUpdate BY <1>1 DEF UserUpdate
  <2>2. /\ updates' \in Seq(UserUpdate) /\ Len(updates') = Len(updates)
        /\ \A j \in 1..Len(updates) :
             updates'[j] = IF j = i THEN [updates[i] EXCEPT !.phase = phase] ELSE updates[j]
    BY <1>2, <2>1, Numbered, ExceptSeq DEF AccountsShape
  <2>3. Sent' = Sent BY <2>2, Numbered, LenProperties DEF Sent
  <2>4. \A j \in Sent : updates[j] \in UserUpdate BY Numbered DEF AccountsShape
  <2> QED BY <1>1, <2>1, <2>2, <2>3, <2>4, Numbered DEF SameRequest, UserUpdate
<1>4. /\ UNCHANGED <<account, password, mapping, target, typed, reused>>
      /\ overlap' \in BOOLEAN /\ (overlap => overlap')
      /\ phase = "read" /\ ~overlap' => \A j \in Sent : updates[j].phase # "read"
  <2>1. CASE CheckUpdate(i)
    <3>1. overlap' <=> (overlap \/ \E j \in Sent : updates[j].phase = "read")
      BY <2>1, Zenon DEF CheckUpdate
    <3>2. overlap' \in BOOLEAN BY <2>1, Zenon DEF CheckUpdate
    <3> QED BY <2>1, <3>1, <3>2 DEF CheckUpdate
  <2>2. CASE UpdateFails(i) /\ ~CheckUpdate(i)
    BY <2>2, <1>2 DEF UpdateFails, AccountsShape
  <2> QED BY <2>1, <2>2
<1>5. AccountsShape' BY <1>3, <1>4 DEF AccountsShape
<1>6. \A j \in Sent' : Fits(updates[j])'
  BY <1>3, <1>4 DEF Fits, SameRequest
<1>7. CheckedHolds'
  <2>1. \A j \in Sent : Allowed(updates[j])' <=> Allowed(updates[j])
    BY <1>3, <1>4 DEF Allowed, AdminsOf, Amended, SameRequest
  <2>2. AdminsOf(account)' = AdminsOf(account) BY <1>4 DEF AdminsOf
  <2> QED BY <1>2, <1>3, <1>4, <2>1, <2>2 DEF CheckedHolds
<1>8. TypedHere' BY <1>3, <1>4 DEF TypedHere, SameRequest
<1> QED BY <1>5, <1>6, <1>7, <1>8

\* The requests grow old when the row of user u is written.
Ages(u) ==
  updates' = [j \in Sent |-> IF updates[j].user = u /\ updates[j].phase = "read"
                             THEN [updates[j] EXCEPT !.stale = TRUE] ELSE updates[j]]

LEMMA AgesRequests ==
  ASSUME AccountsShape, NEW u \in People, Ages(u)
  PROVE  /\ updates' \in Seq(UserUpdate) /\ Sent' = Sent
         /\ \A j \in Sent : SameRequest(updates[j], updates'[j])
                            /\ updates'[j].phase = updates[j].phase
<1>1. \A j \in Sent : updates[j] \in UserUpdate BY Numbered DEF AccountsShape
<1>2. \A j \in Sent : updates'[j] \in UserUpdate
  BY <1>1 DEF Ages, UserUpdate
<1>3. updates' \in [1..Len(updates) -> UserUpdate] /\ DOMAIN updates' = 1..Len(updates)
  BY <1>2, Numbered DEF Ages
<1>4. updates' \in Seq(UserUpdate) /\ Sent' = Sent
  BY <1>3, Numbered DEF Sent
<1> QED BY <1>1, <1>2, <1>4 DEF Ages, SameRequest, UserUpdate

\* What an update leaves of its row has the type of one.
LEMMA AmendedRow ==
  ASSUME NEW q \in UserUpdate, q.what = "role" => q.to \in UserRoles, NEW row \in UserRow
  PROVE  Amended(row, q) \in UserRow
BY DEF Amended, UserRow, UserUpdate

\* A commit that was checked leaves an administrator.
LEMMA CommitStep ==
  ASSUME AccountsInv, NEW i \in Sent, CommitUpdate(i)
  PROVE  AccountsInv'
<1> DEFINE q == updates[i]
<1> USE DEF AccountsInv
<1>1. q \in UserUpdate /\ Fits(q) BY Numbered DEF AccountsShape
<1>2. q.user \in People /\ q.by \in Consoles BY <1>1 DEF UserUpdate
<1>3. /\ DOMAIN account' = DOMAIN account \cup {q.user}
      /\ account' \in [DOMAIN account' -> UserRow]
      /\ \A u \in DOMAIN account : u # q.user => account'[u] = account[u]
      /\ q.what # "create" => account'[q.user] = Amended(account[q.user], q)
      /\ q.what = "create" => q.user \notin DOMAIN account
  <2>1. account' = [u \in DOMAIN account \cup {q.user} |->
       IF u # q.user THEN account[u]
       ELSE IF q.what = "create" THEN [role |-> "VIEWER", enabled |-> TRUE]
       ELSE Amended(account[u], q)]
    BY DEF CommitUpdate
  <2>2. [role |-> "VIEWER", enabled |-> TRUE] \in UserRow BY DEF UserRow, UserRoles
  <2>3. q.what # "create" => Amended(account[q.user], q) \in UserRow
    BY <1>1, AmendedRow DEF Fits, AccountsShape
  <2>4. \A u \in DOMAIN account : account[u] \in UserRow BY DEF AccountsShape
  <2>5. q.what = "create" => q.user \notin DOMAIN account BY DEF CommitUpdate
  <2> HIDE DEF q
  <2> QED BY <2>1, <2>2, <2>3, <2>4, <2>5
<1>4. /\ password' \in [DOMAIN account' -> People]
      /\ reused \/ ((\A j \in Sent : updates[j].what = "password" => updates[j].to = updates[j].user)
                    /\ \A u \in DOMAIN password : password[u] = u)
           => reused \/ \A u \in DOMAIN password' : password'[u] = u
  <2>1. password' = [u \in DOMAIN password \cup {q.user} |->
          IF u = q.user /\ q.what \in {"create", "password"} THEN q.to ELSE password[u]]
    BY DEF CommitUpdate
  <2>2. DOMAIN password = DOMAIN account /\ \A u \in DOMAIN account : password[u] \in People
    BY DEF AccountsShape
  <2>3. q.user \notin DOMAIN account => q.what = "create" BY <1>1 DEF Fits
  <2>4. q.what = "create" => q.to = q.user BY <1>1 DEF Fits
  <2>5. q.what = "password" /\ ~reused => q.to = q.user BY DEF TypedHere
  <2>6. q.what = "password" => q.to \in People
    BY <1>1 DEF Fits
  <2> HIDE DEF q
  <2> QED BY <1>2, <1>3, <2>1, <2>2, <2>3, <2>4, <2>5, <2>6 DEF TypedHere
<1>5. /\ updates' \in Seq(UserUpdate) /\ Sent' = Sent
      /\ \A j \in Sent : SameRequest(updates[j], updates'[j])
      /\ updates'[i].phase = "done"
      /\ \A j \in Sent : j # i => updates'[j].phase = updates[j].phase
  <2>1. updates' = [j \in Sent |->
           IF j = i THEN [q EXCEPT !.phase = "done"]
           ELSE IF updates[j].user = q.user /\ updates[j].phase = "read"
                THEN [updates[j] EXCEPT !.stale = TRUE] ELSE updates[j]]
    BY DEF CommitUpdate
  <2>2. \A j \in Sent : updates[j] \in UserUpdate BY Numbered DEF AccountsShape
  <2>3. \A j \in Sent : updates'[j] \in UserUpdate
    BY <2>1, <2>2 DEF UserUpdate
  <2>4. updates' \in [1..Len(updates) -> UserUpdate] /\ DOMAIN updates' = 1..Len(updates)
    BY <2>1, <2>3, Numbered
  <2>5. updates' \in Seq(UserUpdate) /\ Sent' = Sent
    BY <2>4, Numbered DEF Sent
  <2>6. ASSUME NEW j \in Sent
        PROVE  SameRequest(updates[j], updates'[j])
    <3>1. updates[j] \in UserUpdate /\ updates'[j] \in UserUpdate BY <2>2, <2>3
    <3>2. CASE j = i BY <2>1, <3>1, <3>2 DEF SameRequest, UserUpdate
    <3>3. CASE j # i BY <2>1, <3>1, <3>3 DEF SameRequest, UserUpdate
    <3> QED BY <3>2, <3>3
  <2>7. updates'[i].phase = "done" BY <2>1, <2>2 DEF UserUpdate
  <2>8. \A j \in Sent : j # i => updates'[j].phase = updates[j].phase
    BY <2>1, <2>2 DEF UserUpdate
  <2> QED BY <2>5, <2>6, <2>7, <2>8
<1>6. /\ target' \in [Consoles -> SUBSET DOMAIN account'] /\ typed' \in [Consoles -> SUBSET People]
      /\ \A c \in Consoles : \/ target'[c] = target[c] /\ typed'[c] = typed[c]
                             \/ target'[c] = {} /\ typed'[c] = {}
  <2>1. CASE UNCHANGED <<target, typed>> BY <1>3, <2>1 DEF AccountsShape
  <2>2. CASE target' = [target EXCEPT ![q.by] = {}] /\ typed' = [typed EXCEPT ![q.by] = {}]
    BY <1>2, <1>3, <2>2 DEF AccountsShape
  <2> QED BY <2>1, <2>2 DEF CommitUpdate, ClearTyped
<1>7. UNCHANGED <<mapping, overlap, reused>> /\ q.phase = "read" BY DEF CommitUpdate
<1>8. AccountsShape' BY <1>2, <1>3, <1>4, <1>5, <1>6, <1>7 DEF AccountsShape
<1>9. \A j \in Sent' : Fits(updates[j])'
  BY <1>3, <1>5 DEF Fits, SameRequest
<1>10. CheckedHolds'
  <2> SUFFICES ASSUME ~overlap PROVE AdminsOf(account)' # {} /\ \A j \in Sent : updates'[j].phase # "read"
    BY <1>5, <1>7 DEF CheckedHolds
  <2>1. Allowed(q) /\ AdminsOf(account) # {} /\ \A j \in Sent : updates[j].phase = "read" => i = j
    BY <1>7 DEF CheckedHolds
  <2>2. \A j \in Sent : updates'[j].phase # "read" BY <1>5, <2>1
  <2>3. \A u \in AdminsOf(account) : u # q.user => u \in AdminsOf(account)'
    BY <1>3 DEF AdminsOf
  <2>4. CASE q.what = "create"
    <3>1. q.user \notin AdminsOf(account) BY <1>3, <2>4 DEF AdminsOf
    <3> QED BY <2>1, <2>2, <2>3, <3>1
  <2>5. CASE q.what # "create"
    <3>1. LosesAdmin(account[q.user], Amended(account[q.user], q)) =>
            AdminsOf(account) \ {q.user} # {}
      BY <2>1, <2>5 DEF Allowed
    <3>2. q.user \in AdminsOf(account) =>
            q.user \in AdminsOf(account)' \/ AdminsOf(account) \ {q.user} # {}
      BY <1>3, <2>5, <3>1 DEF LosesAdmin, AdminsOf
    <3>3. CASE AdminsOf(account) \ {q.user} # {} BY <2>2, <2>3, <3>3
    <3>4. CASE q.user \in AdminsOf(account)' BY <2>2, <3>4
    <3> QED BY <2>1, <3>2, <3>3, <3>4
  <2> QED BY <2>2, <2>4, <2>5
<1>11. TypedHere'
  <2>1. \A j \in Sent : updates'[j].what = updates[j].what /\ updates'[j].to = updates[j].to
                        /\ updates'[j].user = updates[j].user
    BY <1>5 DEF SameRequest
  <2> QED BY <1>4, <1>5, <1>6, <1>7, <2>1 DEF TypedHere
<1> QED BY <1>8, <1>9, <1>10, <1>11

\* A sign-in makes an administrator, or it is one of the exceptions.
LEMMA SsoStep ==
  ASSUME AccountsInv, NEW u \in SsoUsers, SsoLogin(u)
  PROVE  AccountsInv'
<1> USE DEF AccountsInv
<1>1. u \in People BY AccountsAssumption
<1>2. Ages(u) BY DEF SsoLogin, Ages
<1>3. /\ updates' \in Seq(UserUpdate) /\ Sent' = Sent
      /\ \A j \in Sent : SameRequest(updates[j], updates'[j])
                         /\ updates'[j].phase = updates[j].phase
  BY <1>1, <1>2, AgesRequests
<1>4. /\ DOMAIN account' = DOMAIN account \cup {u}
      /\ account' \in [DOMAIN account' -> UserRow]
      /\ account'[u] = [role |-> mapping, enabled |-> TRUE]
  BY <1>1 DEF SsoLogin, AccountsShape, UserRow
<1>5. /\ password' \in [DOMAIN account' -> People]
      /\ \A v \in DOMAIN password : password[v] = v => password'[v] = v
      /\ password'[u] = u
  BY <1>1, <1>4 DEF SsoLogin, AccountsShape
<1>6. overlap' <=> (overlap \/ mapping # "ADMIN" \/ \E j \in Sent : updates[j].phase = "read")
  BY Zenon DEF SsoLogin
<1>7. UNCHANGED <<mapping, target, typed, reused>> /\ overlap' \in BOOLEAN
  BY Zenon DEF SsoLogin
<1>8. AccountsShape'
  <2>1. DOMAIN account' \subseteq People BY <1>1, <1>4 DEF AccountsShape
  <2>2. target' \in [Consoles -> SUBSET DOMAIN account'] BY <1>4, <1>7 DEF AccountsShape
  <2> QED BY <1>3, <1>4, <1>5, <1>7, <2>1, <2>2 DEF AccountsShape
<1>9. \A j \in Sent' : Fits(updates[j])'
  BY <1>3, <1>4 DEF Fits, SameRequest
<1>10. CheckedHolds'
  <2>1. ~overlap' => u \in AdminsOf(account)' BY <1>4, <1>6 DEF AdminsOf, Admin
  <2> QED BY <1>3, <1>6, <2>1 DEF CheckedHolds
<1>11. TypedHere'
  <2>1. DOMAIN password' = DOMAIN password \cup {u} BY <1>4, <1>5 DEF AccountsShape
  <2> QED BY <1>3, <1>5, <1>7, <2>1 DEF TypedHere, SameRequest
<1> QED BY <1>8, <1>9, <1>10, <1>11

LEMMA AccountsStep == AccountsInv /\ [AccountsNext]_accountsVars => AccountsInv'
<1> SUFFICES ASSUME AccountsInv, [AccountsNext]_accountsVars PROVE AccountsInv'
  OBVIOUS
<1>1. ASSUME NEW c \in Consoles,
             \/ \E u \in People :
                  \/ SetRole(c, u, "ADMIN") \/ SetRole(c, u, "VIEWER") \/ EnableUser(c, u)
                  \/ DisableUser(c, u) \/ OpenPassword(c, u) \/ CreateUser(c, u)
             \/ TypePassword(c) \/ SavePassword(c) \/ CancelPassword(c)
      PROVE  AccountsInv'
  <2>1. \E u \in People : TRUE BY AccountsAssumption
  <2> QED BY <1>1, <2>1, AccountPageStep
<1>2. ASSUME NEW i \in Sent, CheckUpdate(i) \/ CommitUpdate(i) \/ UpdateFails(i)
      PROVE  AccountsInv'
  BY <1>2, CheckStep, CommitStep
<1>3. ASSUME NEW u \in SsoUsers, SsoLogin(u) PROVE AccountsInv'
  BY <1>3, SsoStep
<1>4. ASSUME UNCHANGED <<account, password, updates, target, typed, overlap, reused>>,
             mapping' \in UserRoles \cup {"none"}
      PROVE  AccountsInv'
  <2>1. \A i \in Sent : Allowed(updates[i])' <=> Allowed(updates[i])
    BY <1>4 DEF Allowed, AdminsOf, Amended
  <2>2. Sent' = Sent /\ AdminsOf(account)' = AdminsOf(account)
    BY <1>4 DEF Sent, AdminsOf
  <2>3. AccountsShape' /\ TypedHere'
    BY <1>4, <2>2 DEF AccountsInv, AccountsShape, TypedHere
  <2> QED BY <1>4, <2>1, <2>2, <2>3 DEF AccountsInv, Fits, CheckedHolds
<1>5. CASE AddMapping("ADMIN") \/ AddMapping("VIEWER") \/ RemoveMapping
  BY <1>4, <1>5 DEF AddMapping, RemoveMapping, UserRoles
<1>6. CASE UNCHANGED accountsVars
  BY <1>4, <1>6 DEF accountsVars, AccountsInv, AccountsShape
<1> QED BY <1>1, <1>2, <1>3, <1>5, <1>6 DEF AccountsNext

LEMMA AccountsInductive == AccountsSpec => []AccountsInv
BY AccountsInitial, AccountsStep, PTL DEF AccountsSpec

\* Every variable of the page Users and its rows keeps its type.
THEOREM AccountsTyped == AccountsSpec => []AccountsTypeOK
<1>1. ASSUME AccountsInv PROVE AccountsTypeOK
  <2>1. \A i \in Sent : updates[i] \in UserUpdate BY <1>1, Numbered DEF AccountsInv, AccountsShape
  <2> QED BY <1>1, <2>1 DEF AccountsInv, AccountsShape, AccountsTypeOK, UserRow, UserRoles, UserUpdate
<1> QED BY <1>1, AccountsInductive, PTL

\* An enabled administrator remains, unless two updates ran at the same time or a sign-in
\* took a role away (AnAdminRemains).
THEOREM AdminRemains == AccountsSpec => []AnAdminRemains
<1>1. AccountsInv => AnAdminRemains
  BY DEF AccountsInv, CheckedHolds, AnAdminRemains
<1> QED BY <1>1, AccountsInductive, PTL

\* A password belongs to the user it was typed for, unless a dialog was left with the
\* text in it (PasswordsGoWhereTyped).
THEOREM PasswordsStay == AccountsSpec => []PasswordsGoWhereTyped
<1>1. AccountsInv => PasswordsGoWhereTyped
  BY DEF AccountsInv, TypedHere, PasswordsGoWhereTyped
<1> QED BY <1>1, AccountsInductive, PTL

=============================================================================
