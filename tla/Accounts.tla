------------------------------ MODULE Accounts ------------------------------
(***************************************************************************)
(* Accounts: administrators change roles, disable users and set passwords  *)
(* on the page Users; single sign-on sets the role of those it manages.    *)
(*                                                                         *)
(* Each console has one updateUser mutation: only the callbacks of its     *)
(* latest call run, but the rows of other users stay usable while a call   *)
(* is on its way.  A session keeps the authorities it was opened with.     *)
(***************************************************************************)
EXTENDS Naturals, Sequences

CONSTANTS
  People,       \* the user names
  Consoles,     \* those of them who have the page open
  SsoUsers,      \* those whose account comes from the identity provider (OIDC)
  Typists,      \* the consoles that set passwords (bound)
  MaxUpdates,   \* bound on the requests that change an account
  MaxSso        \* bound on added mappings and sign-ins

ASSUME AccountsAssumption ==
  Consoles # {} /\ Consoles \subseteq People /\ SsoUsers \subseteq People /\ Typists \subseteq Consoles
  /\ MaxUpdates \in Nat /\ MaxSso \in Nat

VARIABLES
  account,      \* the User rows: name -> role, enabled
  password,     \* for whom the stored password was typed (history)
  mapping,      \* the role that the mappings grant to SsoUsers, or "none"
  updates,      \* updateUser and createUser requests, in order
  target,       \* each console's password dialog: the user, if open
  typed,        \* newPassword of each console: for whom it was typed
  overlap,      \* two updates ran at the same time, or SSO demoted (history)
  reused,       \* a password dialog was cancelled, or answered while another
                \* was open, with text in it (history)
  sso

accountsVars == <<account, password, mapping, updates, target, typed, overlap, reused, sso>>

Admin(row) == row.role = "ADMIN" /\ row.enabled
AdminsOf(rows) == {u \in DOMAIN rows : Admin(rows[u])}
Sent == DOMAIN updates
Open(i) == updates[i].phase \in {"sent", "read"}
Of(c) == {i \in Sent : updates[i].by = c}
Newest(c) == CHOOSE i \in Of(c) : \A j \in Of(c) : j <= i
UpdatePending(c) == Of(c) # {} /\ Open(Newest(c))

\* The bootstrapped administrators; others are created, or sign in.
AccountsInit ==
  /\ mapping \in {"ADMIN", "VIEWER", "none"}
  /\ account = [u \in Consoles |-> [role |-> "ADMIN", enabled |-> TRUE]]
  /\ password = [u \in Consoles |-> u]
  /\ updates = << >>
  /\ target = [c \in Consoles |-> {}] /\ typed = [c \in Consoles |-> {}]
  /\ overlap = FALSE /\ reused = FALSE /\ sso = 0

-----------------------------------------------------------------------------
(* The page.                                                               *)

Update(c, u, what, to) ==
  /\ Len(updates) < MaxUpdates
  /\ updates' = Append(updates, [by |-> c, user |-> u, what |-> what, to |-> to,
                                 phase |-> "sent", stale |-> FALSE])
  /\ UNCHANGED <<account, password, mapping, overlap, reused, sso>>

\* disabled while the latest update is this user's.
RowFree(c, u) == ~(UpdatePending(c) /\ updates[Newest(c)].user = u)
NoDialogOpen(c) == target[c] = {}

\* Nobody's own row, and no managed one.
SetRole(c, u, role) ==
  /\ u # c /\ u \in DOMAIN account \ SsoUsers /\ RowFree(c, u) /\ NoDialogOpen(c)
  /\ account[u].role # role /\ Update(c, u, "role", role)
  /\ UNCHANGED <<target, typed>>

EnableUser(c, u) ==
  /\ u # c /\ u \in DOMAIN account /\ RowFree(c, u) /\ NoDialogOpen(c)
  /\ ~account[u].enabled /\ Update(c, u, "enabled", "yes")
  /\ UNCHANGED <<target, typed>>

\* The dialog waits for any update of this console, and closes whatever comes of it.
DisableUser(c, u) ==
  /\ u # c /\ u \in DOMAIN account /\ RowFree(c, u) /\ NoDialogOpen(c)
  /\ account[u].enabled /\ ~UpdatePending(c) /\ Update(c, u, "enabled", "no")
  /\ UNCHANGED <<target, typed>>

\* "Set password" is offered for local accounts; the field keeps what it has.
OpenPassword(c, u) ==
  /\ Len(updates) < MaxUpdates   \* (bound)
  /\ c \in Typists /\ u \in DOMAIN account \ SsoUsers /\ NoDialogOpen(c)
  /\ target' = [target EXCEPT ![c] = {u}]
  /\ UNCHANGED <<account, password, mapping, updates, typed,
                 overlap, reused, sso>>

TypePassword(c) ==
  /\ Len(updates) < MaxUpdates   \* (bound)
  /\ target[c] # {} /\ typed[c] # target[c] /\ typed' = [typed EXCEPT ![c] = target[c]]
  /\ UNCHANGED <<account, password, mapping, updates, target,
                 overlap, reused, sso>>

SavePassword(c) ==
  /\ ~UpdatePending(c) /\ typed[c] # {}
  /\ \E u \in target[c], v \in typed[c] : Update(c, u, "password", v)
  /\ UNCHANGED <<target, typed>>

CancelPassword(c) ==
  /\ target[c] # {} /\ target' = [target EXCEPT ![c] = {}]
  /\ reused' = (reused \/ typed[c] # {})
  /\ UNCHANGED <<account, password, mapping, updates, typed, overlap, sso>>

CreateUser(c, u) ==
  /\ u \in People \ (DOMAIN account \cup SsoUsers) /\ NoDialogOpen(c)
  /\ \A i \in Of(c) : updates[i].what = "create" => ~Open(i)
  /\ Update(c, u, "create", u) /\ UNCHANGED <<target, typed>>

-----------------------------------------------------------------------------
(* UserService.                                                            *)

\* Mutant: only the loss of the role counts.
LosesRole(row, next) == Admin(row) /\ next.role # "ADMIN"

LosesAdmin(row, next) == Admin(row) /\ ~Admin(next)

Amended(row, q) ==
  CASE q.what = "role" -> [row EXCEPT !.role = q.to]
    [] q.what = "enabled" -> [row EXCEPT !.enabled = (q.to = "yes")] [] OTHER -> row

\* The checks of update and create.
Allowed(q) ==
  IF q.what = "create" THEN q.user \notin DOMAIN account
  ELSE LET row == account[q.user]
       IN  /\ q.user = q.by => Amended(row, q) = row
           /\ LosesAdmin(row, Amended(row, q)) => AdminsOf(account) \ {q.user} # {}

\* The transaction reads and checks.
CheckUpdate(i) ==
  /\ updates[i].phase = "sent"
  /\ updates' = [updates EXCEPT ![i].phase = IF Allowed(updates[i]) THEN "read" ELSE "refused"]
  /\ overlap' = (overlap \/ \E j \in Sent : updates[j].phase = "read")
  /\ UNCHANGED <<account, password, mapping, target, typed,
                 reused, sso>>

\* Mutant: the field keeps the password that was saved.
KeepTyped(q) == typed

ClearTyped(q) == [typed EXCEPT ![q.by] = {}]

\* The row must be what was read, or new; then the answer.
CommitUpdate(i) ==
  LET q == updates[i] IN
  /\ q.phase = "read" /\ ~q.stale /\ (q.what = "create" => q.user \notin DOMAIN account)
  /\ account' = [u \in DOMAIN account \cup {q.user} |->
       IF u # q.user THEN account[u]
       ELSE IF q.what = "create" THEN [role |-> "VIEWER", enabled |-> TRUE]
       ELSE Amended(account[u], q)]
  /\ password' = [u \in DOMAIN password \cup {q.user} |->
       IF u = q.user /\ q.what \in {"create", "password"} THEN q.to ELSE password[u]]
  /\ updates' = [j \in Sent |->
       IF j = i THEN [q EXCEPT !.phase = "done"]
       ELSE IF updates[j].user = q.user /\ updates[j].phase = "read"
            THEN [updates[j] EXCEPT !.stale = TRUE] ELSE updates[j]]
  /\ IF i = Newest(q.by) /\ q.what = "password"   \* the callbacks of the latest call
     THEN target' = [target EXCEPT ![q.by] = {}] /\ typed' = ClearTyped(q)
     ELSE UNCHANGED <<target, typed>>
  /\ UNCHANGED <<mapping, overlap, reused, sso>>

\* Refused, in conflict, or not reached: an error message.
UpdateFails(i) ==
  /\ Open(i) \/ updates[i].phase = "refused"
  /\ updates' = [updates EXCEPT ![i].phase = "failed"]
  /\ UNCHANGED <<account, password, mapping, target, typed, overlap, reused, sso>>

-----------------------------------------------------------------------------
(* Single sign-on.                                                         *)

Sso == sso < MaxSso /\ sso' = sso + 1

AddMapping(role) ==
  /\ Sso /\ mapping = "none" /\ mapping' = role
  /\ UNCHANGED <<account, password, updates, target, typed,
                 overlap, reused>>

RemoveMapping ==
  /\ mapping # "none" /\ mapping' = "none"
  /\ UNCHANGED <<account, password, updates, target, typed, overlap, reused, sso>>

\* SsoLoginService.login: no mapping, no sign-in; otherwise the row takes its role.
\* (History: administrators are not counted here.)
SsoLogin(u) ==
  /\ Sso /\ u \in SsoUsers /\ mapping # "none"
  /\ u \in DOMAIN account => account[u].enabled
  /\ account' = [v \in DOMAIN account \cup {u} |->
       IF v = u THEN [role |-> mapping, enabled |-> TRUE] ELSE account[v]]
  /\ password' = [v \in DOMAIN password \cup {u} |-> IF v = u THEN u ELSE password[v]]
  /\ updates' = [j \in Sent |-> IF updates[j].user = u /\ updates[j].phase = "read"
                                THEN [updates[j] EXCEPT !.stale = TRUE] ELSE updates[j]]
  /\ overlap' = (overlap \/ mapping # "ADMIN" \/ \E j \in Sent : updates[j].phase = "read")
  /\ UNCHANGED <<mapping, target, typed, reused>>

AccountsNext ==
  \/ \E c \in Consoles, u \in People :
       \/ SetRole(c, u, "ADMIN") \/ SetRole(c, u, "VIEWER") \/ EnableUser(c, u)
       \/ DisableUser(c, u) \/ OpenPassword(c, u) \/ CreateUser(c, u)
  \/ \E c \in Consoles : TypePassword(c) \/ SavePassword(c) \/ CancelPassword(c)
  \/ \E i \in Sent : CheckUpdate(i) \/ CommitUpdate(i) \/ UpdateFails(i)
  \/ AddMapping("ADMIN") \/ AddMapping("VIEWER") \/ RemoveMapping
  \/ \E u \in SsoUsers : SsoLogin(u)

AccountsSpec == AccountsInit /\ [][AccountsNext]_accountsVars

-----------------------------------------------------------------------------
AccountsTypeOK ==
  /\ DOMAIN account \subseteq People /\ DOMAIN password = DOMAIN account
  /\ \A u \in DOMAIN account : account[u] \in [role : {"ADMIN", "VIEWER"}, enabled : BOOLEAN]
  /\ \A u \in DOMAIN password : password[u] \in People
  /\ mapping \in {"ADMIN", "VIEWER", "none"}
  /\ \A i \in Sent : updates[i].user \in People /\ updates[i].by \in Consoles
  /\ \A c \in Consoles : target[c] \cup typed[c] \subseteq People

\* "At least one enabled admin must remain": with sessions that outlive the role they
\* were opened with, unless two updates ran at the same time (each counts the other's
\* administrator) or a sign-in took a role away.
AnAdminRemains == overlap \/ AdminsOf(account) # {}

\* A password belongs to the user it was typed for, unless a dialog was left with the
\* text in it, which the dialog of the next user shows again.
PasswordsGoWhereTyped == reused \/ \A u \in DOMAIN password : password[u] = u

=============================================================================
