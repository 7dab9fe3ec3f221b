------------------------------- MODULE Tokens -------------------------------
(***************************************************************************)
(* Enrollment tokens: created and revoked on the page Enrollment, used up  *)
(* by devices that register with one.                                      *)
(*                                                                         *)
(* A transaction reads the row and later commits if nobody wrote it since: *)
(* used and revoked only ever grow, so they stand for the version column.  *)
(***************************************************************************)
EXTENDS Naturals, FiniteSets

CONSTANTS
  TokenIds,   \* tokens that can be created
  Machines,   \* devices that enroll
  UseLimits   \* the choices of maxUses

ASSUME TokensAssumption == UseLimits \subseteq Nat \ {0} /\ IsFiniteSet(Machines)

VARIABLES
  tokenRow,    \* the EnrollmentToken rows: token -> what is stored
  lapsed,      \* tokens whose expiresAt has passed
  enrolment,   \* the machines' requests
  enrolled,    \* the Device rows: machine -> the token it came with
  creation,    \* createToken: the request of this page
  onDisplay,   \* created: tokens whose value the dialog shows
  revealed,    \* tokens whose value has been shown (history)
  missed,      \* tokens whose answer was lost, or came after the page was left (history)
  tokenList,   \* the cached list
  toRevoke,    \* the token of the dialog
  revocation   \* revokeToken: the request of this page

tokensVars == <<tokenRow, lapsed, enrolment, enrolled, creation, onDisplay, revealed,
                missed, tokenList, toRevoke, revocation>>

Created == DOMAIN tokenRow
Quiet == [phase |-> "idle", tokens |-> {}]
Ashore == [phase |-> "idle", tokens |-> {}, read |-> [max |-> 1, used |-> 0, revoked |-> FALSE]]

TokensInit ==
  /\ tokenRow = [t \in {} |-> Ashore.read] /\ lapsed = {}
  /\ enrolment = [m \in Machines |-> Ashore] /\ enrolled = [m \in {} |-> {}]
  /\ creation = Quiet /\ onDisplay = {} /\ revealed = {} /\ missed = {}
  /\ tokenList = tokenRow /\ toRevoke = {} /\ revocation = Ashore

\* A function with one more value, or another one.
With(f, x, y) == [z \in DOMAIN f \cup {x} |-> IF z = x THEN y ELSE f[z]]

-----------------------------------------------------------------------------
(* A device enrolls: EnrollmentService.enroll.                             *)

\* EnrollmentToken.isUsable.
Usable(t, row) == ~row.revoked /\ row.used < row.max /\ t \notin lapsed

\* The value of a token is known once it has been shown.
ReadToken(m, t) ==
  /\ enrolment[m].phase = "idle" /\ m \notin DOMAIN enrolled /\ t \in revealed
  /\ enrolment' = [enrolment EXCEPT ![m] =
       [phase |-> IF Usable(t, tokenRow[t]) THEN "read" ELSE "refused",
        tokens |-> {t}, read |-> tokenRow[t]]]
  /\ UNCHANGED <<tokenRow, lapsed, enrolled, creation, onDisplay, revealed, missed,
                 tokenList, toRevoke, revocation>>

\* Mutant: the row has no version.
Unversioned(t, read) == read.max = tokenRow[t].max

\* Optimistic locking: the row is what the transaction read.
Unwritten(t, read) == tokenRow[t] = read

Enroll(m) ==
  /\ enrolment[m].phase = "read"
  /\ \E t \in enrolment[m].tokens :
       IF Unwritten(t, enrolment[m].read)
       THEN /\ tokenRow' = With(tokenRow, t,
                 [enrolment[m].read EXCEPT !.used = enrolment[m].read.used + 1])
            /\ enrolled' = With(enrolled, m, t)
       ELSE UNCHANGED <<tokenRow, enrolled>>
  /\ enrolment' = [enrolment EXCEPT ![m] = Ashore]
  /\ UNCHANGED <<lapsed, creation, onDisplay, revealed, missed, tokenList, toRevoke, revocation>>

Lapse(t) ==
  /\ t \in Created \ lapsed /\ lapsed' = lapsed \cup {t}
  /\ UNCHANGED <<tokenRow, enrolment, enrolled, creation, onDisplay, revealed, missed,
                 tokenList, toRevoke, revocation>>

-----------------------------------------------------------------------------
(* The form and the dialog with the value.                                 *)

\* Mutant: the form can be sent again before the answer is there.
AlwaysFree == TRUE

\* disabled={createToken.isPending}; the dialog covers the form.
FormFree == creation.phase = "idle"

\* A second mutate would take the callbacks of the first one's place.
SubmitToken(t) ==
  /\ t \notin Created \cup creation.tokens /\ FormFree /\ onDisplay = {}
  /\ creation' = [phase |-> "sent", tokens |-> {t}]
  /\ UNCHANGED <<tokenRow, lapsed, enrolment, enrolled, onDisplay, revealed, missed,
                 tokenList, toRevoke, revocation>>

CreateToken(max) ==
  /\ creation.phase = "sent" /\ creation' = [creation EXCEPT !.phase = "stored"]
  /\ \E t \in creation.tokens :
       tokenRow' = With(tokenRow, t, [max |-> max, used |-> 0, revoked |-> FALSE])
  /\ UNCHANGED <<lapsed, enrolment, enrolled, onDisplay, revealed, missed, tokenList,
                 toRevoke, revocation>>

\* The value is in this answer and nowhere else; the list is fetched again.
TokenCreated ==
  /\ creation.phase = "stored" /\ creation' = Quiet
  /\ onDisplay' = creation.tokens /\ revealed' = revealed \cup creation.tokens
  /\ tokenList' = tokenRow
  /\ UNCHANGED <<tokenRow, lapsed, enrolment, enrolled, missed, toRevoke, revocation>>

\* An error, before or after the row was stored.
CreationFails ==
  /\ creation.phase # "idle" /\ creation' = Quiet
  /\ missed' = missed \cup creation.tokens
  /\ UNCHANGED <<tokenRow, lapsed, enrolment, enrolled, onDisplay, revealed, tokenList,
                 toRevoke, revocation>>

CloseDisplay ==
  /\ onDisplay # {} /\ onDisplay' = {}
  /\ UNCHANGED <<tokenRow, lapsed, enrolment, enrolled, creation, revealed, missed,
                 tokenList, toRevoke, revocation>>

\* The callbacks of mutate are dropped with the page; leaving at another time loses
\* nothing.
LeavePage ==
  /\ onDisplay' = {} /\ toRevoke' = {}
  /\ creation.phase = "stored" /\ creation' = Quiet
  /\ missed' = missed \cup creation.tokens
  /\ UNCHANGED <<tokenRow, lapsed, enrolment, enrolled, revealed, tokenList, revocation>>

-----------------------------------------------------------------------------
(* The list and the dialog that revokes.                                   *)

TokensArrive ==
  /\ tokenList # tokenRow /\ tokenList' = tokenRow
  /\ UNCHANGED <<tokenRow, lapsed, enrolment, enrolled, creation, onDisplay, revealed,
                 missed, toRevoke, revocation>>

\* Only rows that the list shows as active have the button.
AskToRevoke(t) ==
  /\ toRevoke = {} /\ t \in DOMAIN tokenList /\ Usable(t, tokenList[t])
  /\ toRevoke' = {t}
  /\ UNCHANGED <<tokenRow, lapsed, enrolment, enrolled, creation, onDisplay, revealed,
                 missed, tokenList, revocation>>

CancelRevoke ==
  /\ toRevoke # {} /\ toRevoke' = {}
  /\ UNCHANGED <<tokenRow, lapsed, enrolment, enrolled, creation, onDisplay, revealed,
                 missed, tokenList, revocation>>

\* The request and the read of its transaction.
Revoke ==
  /\ toRevoke # {} /\ revocation.phase = "idle"
  /\ \E t \in toRevoke :
       revocation' = [phase |-> "read", tokens |-> {t}, read |-> tokenRow[t]]
  /\ UNCHANGED <<tokenRow, lapsed, enrolment, enrolled, creation, onDisplay, revealed,
                 missed, tokenList, toRevoke>>

\* Whatever comes of it closes the dialog, and a dialog opened for another meanwhile.
RevokeSettles ==
  /\ revocation.phase = "read" /\ revocation' = Ashore /\ toRevoke' = {}
  /\ \E t \in revocation.tokens :
       IF Unwritten(t, revocation.read)
       THEN /\ tokenRow' = With(tokenRow, t, [revocation.read EXCEPT !.revoked = TRUE])
            /\ tokenList' = tokenRow'
       ELSE UNCHANGED <<tokenRow, tokenList>>
  /\ UNCHANGED <<lapsed, enrolment, enrolled, creation, onDisplay, revealed, missed>>

TokensNext ==
  \/ \E m \in Machines : Enroll(m) \/ \E t \in TokenIds : ReadToken(m, t)
  \/ \E t \in TokenIds : Lapse(t) \/ SubmitToken(t) \/ AskToRevoke(t)
  \/ \E max \in UseLimits : CreateToken(max)
  \/ TokenCreated \/ CreationFails \/ CloseDisplay \/ LeavePage
  \/ TokensArrive \/ CancelRevoke \/ Revoke \/ RevokeSettles

TokensSpec == TokensInit /\ [][TokensNext]_tokensVars

-----------------------------------------------------------------------------
TokensTypeOK ==
  /\ Created \subseteq TokenIds
  /\ \A t \in Created : tokenRow[t] \in [max : UseLimits, used : Nat, revoked : BOOLEAN]
  /\ DOMAIN enrolled \subseteq Machines /\ \A m \in DOMAIN enrolled : enrolled[m] \in Created
  /\ \A m \in Machines : enrolment[m].phase \in {"idle", "read", "refused"}
  /\ creation.phase \in {"idle", "sent", "stored"} /\ creation.tokens \subseteq TokenIds
  /\ revealed \cup lapsed \cup toRevoke \cup onDisplay \subseteq Created

\* A token lets in as many devices as it counts, and no more than its limit, however
\* the requests of devices and of operators overlap.
UsesAreCounted ==
  \A t \in Created :
    LET uses == Cardinality({m \in DOMAIN enrolled : enrolled[m] = t})
    IN  uses = tokenRow[t].used /\ uses <= tokenRow[t].max

\* "Shown only this once": the value of every token was on the screen or will be,
\* unless the answer was lost or the page was left before it came.
EveryTokenIsShown == Created \subseteq revealed \cup missed \cup creation.tokens

=============================================================================
