------------------------- MODULE Enrollment_proofs --------------------------
(***************************************************************************)
(* How devices come in, proved for any number of tokens, machines, clones, *)
(* administrators, polls and lost responses, and any limits:               *)
(*   - UsesAddUp: a token lets in as many devices as it counts;            *)
(*   - ValuesAreShown: every token made has been shown to who made it;     *)
(*   - OneDevice: one approval makes one device;                           *)
(*   - NoGhostDevices: no device exists that no machine was told of;       *)
(*   - Decided: a decision stands;                                         *)
(*   - TokensTyped, ApprovalsTyped: the types of both.                     *)
(***************************************************************************)
EXTENDS Tokens, Approvals, FiniteSetTheorems, TLAPS

-----------------------------------------------------------------------------
(* Enrollment tokens *)

TokenFields == [max : Nat, used : Nat, revoked : BOOLEAN]
TokenAttempt == [phase : {"idle", "read", "refused"}, tokens : SUBSET TokenIds, read : TokenFields]
Newcomers(t) == {m \in DOMAIN enrolled : enrolled[m] = t}

\* Rows are functions of the tokens created, and what was read was a row.
TokenRows ==
  /\ DOMAIN tokenRow \subseteq TokenIds
  /\ \A t \in DOMAIN tokenRow : tokenRow[t] \in TokenFields /\ tokenRow[t].used <= tokenRow[t].max
  /\ enrolment \in [Machines -> TokenAttempt]
  /\ revocation \in TokenAttempt

\* A machine enrolls once, with a token that exists.
TokenEntries ==
  /\ DOMAIN enrolled \subseteq Machines
  /\ \A m \in DOMAIN enrolled : enrolled[m] \in DOMAIN tokenRow

\* What a transaction read of a token that it may use had a use left.
TokenAttempts ==
  /\ \A m \in Machines : enrolment[m].phase = "read" =>
       /\ m \notin DOMAIN enrolled /\ enrolment[m].tokens \subseteq DOMAIN tokenRow
       /\ enrolment[m].read.used < enrolment[m].read.max
  /\ revocation.tokens \subseteq DOMAIN tokenRow

\* The token of a request is new until it is stored.
TokensAsked ==
  /\ creation.tokens \subseteq TokenIds /\ \A s, t \in creation.tokens : s = t
  /\ creation.phase = "idle" => creation.tokens = {}
  /\ creation.phase = "sent" => creation.tokens \cap DOMAIN tokenRow = {}
  /\ creation.phase = "stored" => creation.tokens \subseteq DOMAIN tokenRow
  /\ toRevoke \cup revealed \cup DOMAIN tokenList \subseteq DOMAIN tokenRow

TokensCounted == \A t \in DOMAIN tokenRow : Cardinality(Newcomers(t)) = tokenRow[t].used

TokensInv == TokenRows /\ TokenEntries /\ TokenAttempts /\ TokensAsked /\ TokensCounted /\ EveryTokenIsShown

\* A row with one field changed is a row.
LEMMA TokenFieldsKept ==
  ASSUME NEW row \in TokenFields, NEW used \in Nat
  PROVE  /\ [row EXCEPT !.used = used] \in TokenFields
         /\ [row EXCEPT !.used = used].used = used
         /\ [row EXCEPT !.used = used].max = row.max
         /\ [row EXCEPT !.revoked = TRUE] \in TokenFields
         /\ [row EXCEPT !.revoked = TRUE].used = row.used
         /\ [row EXCEPT !.revoked = TRUE].max = row.max
         /\ row.used \in Nat /\ row.max \in Nat
<1>1. [row EXCEPT !.used = used] \in TokenFields /\ [row EXCEPT !.revoked = TRUE] \in TokenFields
  BY Zenon DEF TokenFields
<1>2. row.used \in Nat /\ row.max \in Nat
  BY DEF TokenFields
<1>3. QED BY <1>1, <1>2 DEF TokenFields

\* What a request is between two transactions.
LEMMA AshoreIsAttempt == Ashore \in TokenAttempt /\ Ashore.phase = "idle" /\ Ashore.tokens = {}
  BY DEF Ashore, TokenAttempt, TokenFields

\* Before anything happened there is no token.
LEMMA TokensInitial == TokensInit => TokensInv
<1> SUFFICES ASSUME TokensInit PROVE TokensInv
  OBVIOUS
<1>1. /\ DOMAIN tokenRow = {} /\ DOMAIN enrolled = {} /\ DOMAIN tokenList = {}
      /\ creation.phase = "idle" /\ creation.tokens = {} /\ revealed = {} /\ toRevoke = {}
      /\ revocation = Ashore /\ enrolment = [m \in Machines |-> Ashore]
  BY DEF TokensInit, Quiet
<1>2. TokenRows /\ TokenEntries
  BY <1>1, AshoreIsAttempt DEF TokenRows, TokenEntries
<1>3. TokenAttempts /\ TokensAsked /\ TokensCounted /\ EveryTokenIsShown
  BY <1>1, AshoreIsAttempt DEF TokenAttempts, TokensAsked, TokensCounted,
     EveryTokenIsShown, Created
<1>4. QED BY <1>2, <1>3 DEF TokensInv

\* The devices that a token let in are finitely many.
LEMMA NewcomersFinite ==
  ASSUME TokenEntries, NEW t
  PROVE  IsFiniteSet(Newcomers(t))
<1>1. Newcomers(t) \subseteq Machines
  BY DEF Newcomers, TokenEntries
<1>2. QED BY <1>1, TokensAssumption, FS_Subset

\* A machine reads the row of a token it knows.
LEMMA TokenReadStep ==
  ASSUME TokensInv, NEW m \in Machines, NEW t \in TokenIds, ReadToken(m, t)
  PROVE  TokensInv'
<1> DEFINE new == [phase |-> IF Usable(t, tokenRow[t]) THEN "read" ELSE "refused",
                   tokens |-> {t}, read |-> tokenRow[t]]
<1>1. /\ enrolment' = [enrolment EXCEPT ![m] = new]
      /\ m \notin DOMAIN enrolled /\ t \in DOMAIN tokenRow
      /\ UNCHANGED <<tokenRow, enrolled, creation, revealed, missed, tokenList, toRevoke,
                     revocation>>
  BY DEF ReadToken, TokensInv, TokensAsked
<1>2. tokenRow[t] \in TokenFields
  BY <1>1 DEF TokensInv, TokenRows
<1>3. /\ new \in TokenAttempt /\ new.tokens = {t}
      /\ new.phase = "read" => new.read.used < new.read.max
  BY <1>2 DEF TokenAttempt, Usable
<1> HIDE DEF new
<1>4. TokenRows'
  BY <1>1, <1>3 DEF TokensInv, TokenRows
<1>5. TokenAttempts'
  <2> SUFFICES ASSUME NEW n \in Machines, enrolment'[n].phase = "read"
               PROVE  /\ n \notin DOMAIN enrolled /\ enrolment'[n].tokens \subseteq DOMAIN tokenRow
                      /\ enrolment'[n].read.used < enrolment'[n].read.max
    BY <1>1 DEF TokensInv, TokenAttempts
  <2>1. CASE n = m
    BY <1>1, <1>3, <2>1 DEF TokensInv, TokenRows
  <2>2. CASE n # m
    BY <1>1, <2>2 DEF TokensInv, TokenRows, TokenAttempts
  <2>3. QED BY <2>1, <2>2
<1>6. TokenEntries' /\ TokensAsked' /\ TokensCounted' /\ EveryTokenIsShown'
  BY <1>1 DEF TokensInv, TokenEntries, TokensAsked, TokensCounted, Newcomers,
     EveryTokenIsShown, Created
<1>7. QED BY <1>4, <1>5, <1>6 DEF TokensInv

\* A device comes in and is counted, unless the row was written since it was read.
LEMMA EnrollStep ==
  ASSUME TokensInv, NEW m \in Machines, Enroll(m)
  PROVE  TokensInv'
<1>1. /\ enrolment[m].phase = "read" /\ enrolment' = [enrolment EXCEPT ![m] = Ashore]
      /\ UNCHANGED <<creation, revealed, missed, tokenList, toRevoke, revocation>>
  BY DEF Enroll
<1>2. enrolment' \in [Machines -> TokenAttempt] /\ enrolment'[m].phase = "idle"
      /\ \A n \in Machines : n # m => enrolment'[n] = enrolment[n]
  BY <1>1, AshoreIsAttempt DEF TokensInv, TokenRows
<1>3. PICK t \in enrolment[m].tokens :
        IF Unwritten(t, enrolment[m].read)
        THEN /\ tokenRow' = With(tokenRow, t,
                  [enrolment[m].read EXCEPT !.used = enrolment[m].read.used + 1])
             /\ enrolled' = With(enrolled, m, t)
        ELSE UNCHANGED <<tokenRow, enrolled>>
  BY DEF Enroll
<1>4. CASE ~Unwritten(t, enrolment[m].read)
  <2>1. UNCHANGED <<tokenRow, enrolled>>
    BY <1>3, <1>4
  <2>2. TokenRows' /\ TokenAttempts'
    BY <1>1, <1>2, <2>1 DEF TokensInv, TokenRows, TokenAttempts
  <2>3. TokenEntries' /\ TokensAsked' /\ TokensCounted' /\ EveryTokenIsShown'
    BY <1>1, <2>1 DEF TokensInv, TokenEntries, TokensAsked, TokensCounted, Newcomers,
       EveryTokenIsShown, Created
  <2>4. QED BY <2>2, <2>3 DEF TokensInv
<1>5. CASE Unwritten(t, enrolment[m].read)
  <2> DEFINE row == tokenRow[t]
             new == [row EXCEPT !.used = row.used + 1]
  <2>1. /\ t \in DOMAIN tokenRow /\ m \notin DOMAIN enrolled
        /\ row \in TokenFields /\ row.used < row.max
    BY <1>1, <1>3, <1>5 DEF TokensInv, TokenRows, TokenAttempts, Unwritten
  <2>2. tokenRow' = With(tokenRow, t, new) /\ enrolled' = With(enrolled, m, t)
    BY <1>3, <1>5 DEF Unwritten
  <2>3. new \in TokenFields /\ new.used = row.used + 1 /\ new.used <= new.max
    <3>1. row.used \in Nat /\ row.max \in Nat /\ row.used + 1 \in Nat
      BY <2>1 DEF TokenFields
    <3>2. new \in TokenFields /\ new.used = row.used + 1 /\ new.max = row.max
      BY <2>1, <3>1, TokenFieldsKept
    <3>3. QED BY <2>1, <3>1, <3>2
  <2> HIDE DEF new
  <2>4. /\ DOMAIN tokenRow' = DOMAIN tokenRow /\ tokenRow'[t] = new
        /\ \A s \in DOMAIN tokenRow : s # t => tokenRow'[s] = tokenRow[s]
    BY <2>1, <2>2 DEF With
  <2>5. /\ DOMAIN enrolled' = DOMAIN enrolled \cup {m} /\ enrolled'[m] = t
        /\ \A n \in DOMAIN enrolled : enrolled'[n] = enrolled[n]
    BY <2>1, <2>2 DEF With
  <2>6. TokenRows'
    BY <1>1, <1>2, <2>3, <2>4 DEF TokensInv, TokenRows
  <2>7. TokenEntries'
    BY <2>1, <2>4, <2>5 DEF TokensInv, TokenEntries
  <2>8. TokenAttempts'
    <3> SUFFICES ASSUME NEW n \in Machines, enrolment'[n].phase = "read"
                 PROVE  /\ n \notin DOMAIN enrolled'
                        /\ enrolment'[n].tokens \subseteq DOMAIN tokenRow'
                        /\ enrolment'[n].read.used < enrolment'[n].read.max
      BY <1>1, <2>4 DEF TokensInv, TokenAttempts
    <3>1. n # m
      BY <1>2
    <3>2. QED BY <1>2, <2>4, <2>5, <3>1 DEF TokensInv, TokenAttempts
  <2>9. TokensAsked' /\ EveryTokenIsShown'
    BY <1>1, <2>4 DEF TokensInv, TokensAsked, EveryTokenIsShown, Created
  <2>10. TokensCounted'
    <3> SUFFICES ASSUME NEW s \in DOMAIN tokenRow
                 PROVE  Cardinality(Newcomers(s)') = tokenRow'[s].used
      BY <2>4 DEF TokensCounted
    <3>1. Cardinality(Newcomers(s)) = tokenRow[s].used
      BY DEF TokensInv, TokensCounted
    <3>2. CASE s # t
      <4>1. Newcomers(s)' = Newcomers(s)
        BY <2>5, <3>2 DEF Newcomers
      <4>2. QED BY <2>4, <3>1, <3>2, <4>1
    <3>3. CASE s = t
      <4>1. Newcomers(s)' = Newcomers(s) \cup {m} /\ m \notin Newcomers(s)
        BY <2>1, <2>5, <3>3 DEF Newcomers
      <4>2. IsFiniteSet(Newcomers(s))
        BY NewcomersFinite DEF TokensInv
      <4>3. Cardinality(Newcomers(s) \cup {m}) = Cardinality(Newcomers(s)) + 1
        BY <4>1, <4>2, FS_AddElement
      <4>4. QED BY <2>3, <2>4, <3>1, <3>3, <4>1, <4>3
    <3>4. QED BY <3>2, <3>3
  <2>11. QED BY <2>6, <2>7, <2>8, <2>9, <2>10 DEF TokensInv
<1>6. QED BY <1>4, <1>5

\* A token is created with no uses, and nobody came in with it.
LEMMA TokenCreateStep ==
  ASSUME TokensInv, NEW max \in UseLimits, CreateToken(max)
  PROVE  TokensInv'
<1> DEFINE new == [max |-> max, used |-> 0, revoked |-> FALSE]
<1>1. PICK t \in creation.tokens : tokenRow' = With(tokenRow, t, new)
  BY DEF CreateToken
<1>2. /\ creation.phase = "sent" /\ creation' = [creation EXCEPT !.phase = "stored"]
      /\ UNCHANGED <<enrolment, enrolled, revealed, missed, tokenList, toRevoke, revocation>>
  BY DEF CreateToken
<1>3. new \in TokenFields /\ new.used = 0 /\ new.used <= new.max
  BY TokensAssumption DEF TokenFields
<1> HIDE DEF new
<1>4. /\ DOMAIN tokenRow' = DOMAIN tokenRow \cup {t} /\ tokenRow'[t] = new
      /\ \A s \in DOMAIN tokenRow : s # t => tokenRow'[s] = tokenRow[s]
  BY <1>1 DEF With
<1>5. t \in TokenIds /\ t \notin DOMAIN tokenRow
  BY <1>1, <1>2 DEF TokensInv, TokensAsked
<1>6. TokenRows'
  BY <1>2, <1>3, <1>4, <1>5 DEF TokensInv, TokenRows
<1>7. TokenEntries' /\ TokenAttempts'
  BY <1>2, <1>4 DEF TokensInv, TokenEntries, TokenAttempts
<1>8. TokensCounted'
  <2>1. Newcomers(t) = {}
    BY <1>5 DEF TokensInv, TokenEntries, Newcomers
  <2>2. \A s : Newcomers(s)' = Newcomers(s)
    BY <1>2 DEF Newcomers
  <2>3. Cardinality({}) = 0
    BY FS_EmptySet
  <2>4. \A s \in DOMAIN tokenRow : Cardinality(Newcomers(s)') = tokenRow'[s].used
    BY <1>4, <1>5, <2>2 DEF TokensInv, TokensCounted
  <2>5. Cardinality(Newcomers(t)') = tokenRow'[t].used
    BY <1>3, <1>4, <2>1, <2>2, <2>3
  <2>6. QED BY <1>4, <2>4, <2>5 DEF TokensCounted
<1>9. QED
  <2>1. creation'.phase = "stored" /\ creation'.tokens = creation.tokens
    BY <1>2
  <2>2. TokensAsked' /\ EveryTokenIsShown'
    BY <1>1, <1>2, <1>4, <2>1 DEF TokensInv, TokensAsked, EveryTokenIsShown, Created
  <2>3. QED BY <1>2, <1>4, <1>6, <1>7, <1>8, <2>2 DEF TokensInv

\* Revoking keeps the count, also when it takes place.
LEMMA TokenRevokeStep ==
  ASSUME TokensInv, RevokeSettles
  PROVE  TokensInv'
<1>1. /\ revocation' = Ashore /\ toRevoke' = {}
      /\ UNCHANGED <<enrolment, enrolled, creation, revealed, missed>>
  BY DEF RevokeSettles
<1>2. PICK t \in revocation.tokens :
        IF Unwritten(t, revocation.read)
        THEN /\ tokenRow' = With(tokenRow, t, [revocation.read EXCEPT !.revoked = TRUE])
             /\ tokenList' = tokenRow'
        ELSE UNCHANGED <<tokenRow, tokenList>>
  BY DEF RevokeSettles
<1>3. revocation' \in TokenAttempt /\ revocation'.tokens = {}
  BY <1>1, AshoreIsAttempt
<1>4. CASE ~Unwritten(t, revocation.read)
  <2>1. UNCHANGED <<tokenRow, tokenList>>
    BY <1>2, <1>4
  <2>2. TokenRows' /\ TokenAttempts'
    BY <1>1, <1>3, <2>1 DEF TokensInv, TokenRows, TokenAttempts
  <2>3. TokenEntries' /\ TokensAsked' /\ TokensCounted' /\ EveryTokenIsShown'
    BY <1>1, <2>1 DEF TokensInv, TokenEntries, TokensAsked, TokensCounted, Newcomers,
       EveryTokenIsShown, Created
  <2>4. QED BY <2>2, <2>3 DEF TokensInv
<1>5. CASE Unwritten(t, revocation.read)
  <2> DEFINE row == tokenRow[t]
             new == [row EXCEPT !.revoked = TRUE]
  <2>1. t \in DOMAIN tokenRow /\ row \in TokenFields /\ row.used <= row.max
    BY <1>2 DEF TokensInv, TokenRows, TokenAttempts
  <2>2. tokenRow' = With(tokenRow, t, new) /\ tokenList' = tokenRow'
    BY <1>2, <1>5 DEF Unwritten
  <2>3. new \in TokenFields /\ new.used = row.used /\ new.used <= new.max
    <3>1. 0 \in Nat
      OBVIOUS
    <3>2. QED BY <2>1, <3>1, TokenFieldsKept
  <2> HIDE DEF new
  <2>4. /\ DOMAIN tokenRow' = DOMAIN tokenRow /\ tokenRow'[t] = new
        /\ \A s \in DOMAIN tokenRow : s # t => tokenRow'[s] = tokenRow[s]
    BY <2>1, <2>2 DEF With
  <2>5. TokenRows'
    BY <1>1, <1>3, <2>3, <2>4 DEF TokensInv, TokenRows
  <2>6. TokenEntries' /\ TokenAttempts' /\ TokensAsked' /\ EveryTokenIsShown'
    BY <1>1, <1>3, <2>2, <2>4
    DEF TokensInv, TokenEntries, TokenAttempts, TokensAsked, EveryTokenIsShown, Created
  <2>7. TokensCounted'
    <3> SUFFICES ASSUME NEW s \in DOMAIN tokenRow
                 PROVE  Cardinality(Newcomers(s)') = tokenRow'[s].used
      BY <2>4 DEF TokensCounted
    <3>1. Newcomers(s)' = Newcomers(s) /\ tokenRow'[s].used = tokenRow[s].used
      BY <1>1, <2>3, <2>4 DEF Newcomers
    <3>2. QED BY <3>1 DEF TokensInv, TokensCounted
  <2>8. QED BY <2>5, <2>6, <2>7 DEF TokensInv
<1>6. QED BY <1>4, <1>5

\* What the page does with its form, its dialogs and its list writes no row.
LEMMA TokenPageStep ==
  ASSUME TokensInv,
         \/ \E t \in TokenIds : SubmitToken(t) \/ AskToRevoke(t) \/ Lapse(t)
         \/ TokenCreated \/ CreationFails \/ CloseDisplay \/ LeavePage
         \/ TokensArrive \/ CancelRevoke \/ Revoke
  PROVE  TokensInv'
<1>1. UNCHANGED <<tokenRow, enrolment, enrolled>>
  BY DEF SubmitToken, AskToRevoke, Lapse, TokenCreated, CreationFails, CloseDisplay,
     LeavePage, TokensArrive, CancelRevoke, Revoke
<1>2. TokenEntries' /\ TokensCounted'
  BY <1>1 DEF TokensInv, TokenEntries, TokensCounted, Newcomers
<1>3. revocation' \in TokenAttempt /\ revocation'.tokens \subseteq DOMAIN tokenRow
  <2>1. CASE Revoke
    <3>1. PICK t \in toRevoke :
            revocation' = [phase |-> "read", tokens |-> {t}, read |-> tokenRow[t]]
      BY <2>1 DEF Revoke
    <3>2. t \in DOMAIN tokenRow /\ tokenRow[t] \in TokenFields /\ t \in TokenIds
      BY DEF TokensInv, TokensAsked, TokenRows
    <3>3. QED BY <3>1, <3>2 DEF TokenAttempt
  <2>2. CASE ~Revoke
    <3>1. revocation' = revocation
      BY <2>2 DEF SubmitToken, AskToRevoke, Lapse, TokenCreated, CreationFails,
         CloseDisplay, LeavePage, TokensArrive, CancelRevoke
    <3>2. QED BY <3>1 DEF TokensInv, TokenRows, TokenAttempts
  <2>3. QED BY <2>1, <2>2
<1>4. TokenRows' /\ TokenAttempts'
  BY <1>1, <1>3 DEF TokensInv, TokenRows, TokenAttempts
<1>5. TokensAsked' /\ EveryTokenIsShown'
  <2>1. ASSUME NEW t \in TokenIds, SubmitToken(t) PROVE TokensAsked' /\ EveryTokenIsShown'
    BY <2>1 DEF SubmitToken, FormFree, TokensInv, TokensAsked, EveryTokenIsShown, Created
  <2>2. ASSUME NEW t \in TokenIds, AskToRevoke(t) PROVE TokensAsked' /\ EveryTokenIsShown'
    BY <2>2 DEF AskToRevoke, TokensInv, TokensAsked, EveryTokenIsShown, Created
  <2>3. ASSUME NEW t \in TokenIds, Lapse(t) PROVE TokensAsked' /\ EveryTokenIsShown'
    BY <2>3 DEF Lapse, TokensInv, TokensAsked, EveryTokenIsShown, Created
  <2>4. CASE TokenCreated
    BY <2>4 DEF TokenCreated, Quiet, TokensInv, TokensAsked, EveryTokenIsShown, Created
  <2>5. CASE CreationFails
    BY <2>5 DEF CreationFails, Quiet, TokensInv, TokensAsked, EveryTokenIsShown, Created
  <2>6. CASE LeavePage
    BY <2>6 DEF LeavePage, Quiet, TokensInv, TokensAsked, EveryTokenIsShown, Created
  <2>7. CASE CloseDisplay \/ TokensArrive \/ CancelRevoke \/ Revoke
    BY <2>7 DEF CloseDisplay, TokensArrive, CancelRevoke, Revoke, TokensInv, TokensAsked,
       EveryTokenIsShown, Created
  <2>8. QED BY <2>1, <2>2, <2>3, <2>4, <2>5, <2>6, <2>7
<1>6. QED BY <1>2, <1>4, <1>5 DEF TokensInv

\* Every step preserves the invariant.
LEMMA TokensStep ==
  ASSUME TokensInv, [TokensNext]_tokensVars
  PROVE  TokensInv'
<1>1. ASSUME NEW m \in Machines, Enroll(m) PROVE TokensInv'
  BY <1>1, EnrollStep
<1>2. ASSUME NEW m \in Machines, NEW t \in TokenIds, ReadToken(m, t) PROVE TokensInv'
  BY <1>2, TokenReadStep
<1>3. ASSUME NEW max \in UseLimits, CreateToken(max) PROVE TokensInv'
  BY <1>3, TokenCreateStep
<1>4. CASE RevokeSettles
  BY <1>4, TokenRevokeStep
<1>5. CASE \/ \E t \in TokenIds : SubmitToken(t) \/ AskToRevoke(t) \/ Lapse(t)
           \/ TokenCreated \/ CreationFails \/ CloseDisplay \/ LeavePage
           \/ TokensArrive \/ CancelRevoke \/ Revoke
  BY <1>5, TokenPageStep
<1>6. CASE UNCHANGED tokensVars
  BY <1>6 DEF tokensVars, TokensInv, TokenRows, TokenEntries, TokenAttempts, TokensAsked,
     TokensCounted, Newcomers,
     EveryTokenIsShown, Created
<1>7. QED BY <1>1, <1>2, <1>3, <1>4, <1>5, <1>6 DEF TokensNext

\* The invariant holds in every reachable state.
LEMMA TokensInductive == TokensSpec => []TokensInv
<1>1. QED BY TokensInitial, TokensStep, PTL DEF TokensSpec

\* A token lets in as many devices as it counts, and no more than its limit.
THEOREM UsesAddUp == TokensSpec => []UsesAreCounted
<1>1. TokensInv => UsesAreCounted
  <2> SUFFICES ASSUME TokensInv, NEW t \in DOMAIN tokenRow
               PROVE  /\ Cardinality({m \in DOMAIN enrolled : enrolled[m] = t}) = tokenRow[t].used
                      /\ Cardinality({m \in DOMAIN enrolled : enrolled[m] = t}) <= tokenRow[t].max
    BY DEF UsesAreCounted, Created
  <2>1. Cardinality(Newcomers(t)) = tokenRow[t].used /\ tokenRow[t].used <= tokenRow[t].max
    BY DEF TokensInv, TokensCounted, TokenRows
  <2>2. QED BY <2>1 DEF Newcomers
<1>2. QED BY <1>1, TokensInductive, PTL

\* The value of every token is shown, unless its answer was lost or came too late.
THEOREM ValuesAreShown == TokensSpec => []EveryTokenIsShown
<1>1. TokensInv => EveryTokenIsShown
  BY DEF TokensInv
<1>2. QED BY <1>1, TokensInductive, PTL

\* What the invariant leaves out: the limits, lapsed tokens, the form and the dialog.
TokensRest ==
  /\ \A t \in Created : tokenRow[t].max \in UseLimits
  /\ lapsed \cup onDisplay \subseteq Created
  /\ creation \in [phase : {"idle", "sent", "stored"}, tokens : SUBSET TokenIds]

\* A row that is written over keeps its limit.
LEMMA LimitsStay ==
  ASSUME TokensInv, TokensRest, NEW t \in Created, NEW row, row.max = tokenRow[t].max,
         tokenRow' = With(tokenRow, t, row)
  PROVE  Created' = Created /\ \A s \in Created : tokenRow'[s].max \in UseLimits
  BY DEF With, Created, TokensRest

\* The types of tokens, of the page and of the requests.
THEOREM TokensTyped == TokensSpec => []TokensTypeOK
<1>1. TokensInit => TokensRest
  BY DEF TokensInit, TokensRest, Created, Quiet
<1>2. TokensInv /\ TokensRest /\ [TokensNext]_tokensVars => TokensRest'
  <2> SUFFICES ASSUME TokensInv, TokensRest, [TokensNext]_tokensVars PROVE TokensRest'
    OBVIOUS
  <2>1. ASSUME NEW m \in Machines, Enroll(m) PROVE TokensRest'
    <3>1. UNCHANGED <<lapsed, onDisplay, creation>>
      BY <2>1 DEF Enroll
    <3>2. PICK t \in enrolment[m].tokens :
            \/ UNCHANGED tokenRow
            \/ /\ tokenRow[t] = enrolment[m].read
               /\ tokenRow' = With(tokenRow, t,
                    [enrolment[m].read EXCEPT !.used = enrolment[m].read.used + 1])
      BY <2>1 DEF Enroll, Unwritten
    <3>3. t \in Created /\ tokenRow[t] \in TokenFields
      BY <2>1, <3>2 DEF Enroll, TokensInv, TokenAttempts, TokenRows, Created
    <3>4. CASE UNCHANGED tokenRow
      BY <3>1, <3>4 DEF TokensRest, Created
    <3>5. CASE tokenRow' = With(tokenRow, t, [tokenRow[t] EXCEPT !.used = enrolment[m].read.used + 1])
      <4>1. [tokenRow[t] EXCEPT !.used = enrolment[m].read.used + 1].max = tokenRow[t].max
        BY <3>3 DEF TokenFields
      <4> QED BY <3>1, <3>3, <3>5, <4>1, LimitsStay DEF TokensRest
    <3> QED BY <3>2, <3>4, <3>5
  <2>2. CASE RevokeSettles
    <3>1. UNCHANGED <<lapsed, onDisplay, creation>>
      BY <2>2 DEF RevokeSettles
    <3>2. PICK t \in revocation.tokens :
            \/ UNCHANGED tokenRow
            \/ /\ tokenRow[t] = revocation.read
               /\ tokenRow' = With(tokenRow, t, [revocation.read EXCEPT !.revoked = TRUE])
      BY <2>2 DEF RevokeSettles, Unwritten
    <3>3. t \in Created /\ tokenRow[t] \in TokenFields
      BY <3>2 DEF TokensInv, TokenAttempts, TokenRows, Created
    <3>4. CASE UNCHANGED tokenRow
      BY <3>1, <3>4 DEF TokensRest, Created
    <3>5. CASE tokenRow' = With(tokenRow, t, [tokenRow[t] EXCEPT !.revoked = TRUE])
      <4>1. [tokenRow[t] EXCEPT !.revoked = TRUE].max = tokenRow[t].max
        BY <3>3 DEF TokenFields
      <4> QED BY <3>1, <3>3, <3>5, <4>1, LimitsStay DEF TokensRest
    <3> QED BY <3>2, <3>4, <3>5
  <2>3. ASSUME NEW max \in UseLimits, CreateToken(max) PROVE TokensRest'
    BY <2>3 DEF CreateToken, With, TokensRest, Created
  <2>4. CASE TokenCreated
    BY <2>4 DEF TokenCreated, Quiet, TokensRest, TokensInv, TokensAsked, Created
  <2>5. ASSUME NEW t \in TokenIds, Lapse(t) \/ SubmitToken(t) \/ AskToRevoke(t)
        PROVE  TokensRest'
    BY <2>5 DEF Lapse, SubmitToken, AskToRevoke, TokensRest, Created
  <2>6. CASE \E m \in Machines, t \in TokenIds : ReadToken(m, t)
    BY <2>6 DEF ReadToken, TokensRest, Created
  <2>7. CASE CreationFails \/ CloseDisplay \/ LeavePage \/ TokensArrive \/ CancelRevoke \/ Revoke
    BY <2>7 DEF CreationFails, CloseDisplay, LeavePage, TokensArrive, CancelRevoke, Revoke, Quiet,
               TokensRest, Created
  <2>8. CASE UNCHANGED tokensVars
    BY <2>8 DEF tokensVars, TokensRest, Created
  <2> QED BY <2>1, <2>2, <2>3, <2>4, <2>5, <2>6, <2>7, <2>8 DEF TokensNext
<1>3. TokensInv /\ TokensRest => TokensTypeOK
  BY DEF TokensTypeOK, TokensInv, TokenRows, TokenEntries, TokensAsked, TokensRest, TokenFields,
         TokenAttempt, Created
<1> QED BY <1>1, <1>2, <1>3, TokensInductive, PTL DEF TokensSpec

-----------------------------------------------------------------------------
(* Requests and their approval *)

ApprovalsShape ==
  /\ registering = [c \in Clones |-> registering[c]]
  /\ identity = [c \in Clones |-> identity[c]]

\* A device exists only once its request is completed, and there is only one.
Issued ==
  /\ owner # {} => request.status = "COMPLETED"
  /\ \A o, q \in owner : o = q

\* Who is told "approved" owns the device, and so does who has credentials.
Told ==
  \A c \in Clones :
    /\ registering[c].phase # "answered" => registering[c].answer = "none"
    /\ identity[c] = "credentials" => registering[c].phase = "idle"
    /\ registering[c].answer = "approved" \/ identity[c] = "credentials" =>
         c \in {o[1] : o \in owner}

ApprovalsInv == ApprovalsShape /\ Issued /\ Told /\ NoGhosts /\ owner \subseteq Clones \X Nat
                /\ request.version \in Nat

\* Nothing is asked, decided or issued at first.
LEMMA ApprovalsInitial == ApprovalsInit => ApprovalsInv
  BY DEF ApprovalsInit, ApprovalsInv, ApprovalsShape, Issued, Told, NoGhosts, Silent, NoRequest

\* A poll that overlaps another or a decision is rolled back; an approved one is the
\* first to find the request approved.
LEMMA PollStep ==
  ASSUME ApprovalsInv, NEW c \in Clones, HandleRegistration(c)
  PROVE  ApprovalsInv'
<1> USE DEF ApprovalsInv, ApprovalsShape
<1>1. CASE ~Current(registering[c].row)
  BY <1>1 DEF HandleRegistration, Silent, Issued, Told, NoGhosts
<1>2. CASE Current(registering[c].row) /\ request.status = "APPROVED"
  <2>1. /\ request'.status = "COMPLETED" /\ request'.version \in Nat
        /\ owner' = owner \cup {<<c, request.version>>}
        /\ registering'[c].phase = "answered" /\ registering'[c].answer = "approved"
        /\ \A k \in Clones \ {c} : registering'[k] = registering[k]
        /\ identity' = identity /\ lost' = lost
    BY <1>2 DEF HandleRegistration, Current, Written, AfterPoll, AnswerFor
  <2>2. owner = {} BY <1>2 DEF Issued
  <2>3. ApprovalsShape' BY <1>2 DEF HandleRegistration
  <2>4. owner' = {<<c, request.version>>} BY <2>1, <2>2
  <2>5. Issued' BY <2>1, <2>4 DEF Issued
  <2>6. identity[c] # "credentials" BY DEF HandleRegistration, Told
  <2>7. Told' BY <2>1, <2>2, <2>4, <2>6 DEF Told
  <2>8. NoGhosts' BY <2>1, <2>4 DEF NoGhosts
  <2>9. QED BY <2>1, <2>3, <2>4, <2>5, <2>7, <2>8
<1>3. CASE Current(registering[c].row) /\ request.status # "APPROVED"
  <2>1. /\ request.status = "COMPLETED" => request'.status = "COMPLETED"
        /\ request'.version \in Nat
        /\ owner' = owner /\ identity' = identity /\ lost' = lost
        /\ registering'[c].phase = "answered" /\ registering'[c].answer # "approved"
        /\ \A k \in Clones \ {c} : registering'[k] = registering[k]
    BY <1>3 DEF HandleRegistration, Current, Written, AfterPoll, AnswerFor
  <2>2. ApprovalsShape' BY <1>3 DEF HandleRegistration
  <2>3. registering[c].answer = "none" /\ identity[c] # "credentials"
    BY DEF HandleRegistration, Told
  <2>4. QED BY <2>1, <2>2, <2>3 DEF Issued, Told, NoGhosts
<1>4. QED BY <1>1, <1>2, <1>3

\* The agent and the administrators leave the device to whom it was issued.
LEMMA ApprovalsStep == ApprovalsInv /\ [ApprovalsNext]_approvalsVars => ApprovalsInv'
<1> SUFFICES ASSUME ApprovalsInv, [ApprovalsNext]_approvalsVars PROVE ApprovalsInv'
  OBVIOUS
<1> USE DEF ApprovalsInv, ApprovalsShape, Issued, Told, NoGhosts
<1>1. ASSUME NEW c \in Clones, Register(c) PROVE ApprovalsInv'
  BY <1>1 DEF Register
<1>2. ASSUME NEW c \in Clones, HandleRegistration(c) PROVE ApprovalsInv'
  BY <1>2, PollStep
<1>3. ASSUME NEW c \in Clones, RegistrationAnswered(c) PROVE ApprovalsInv'
  BY <1>3 DEF RegistrationAnswered, Silent
<1>4. ASSUME NEW c \in Clones, RegistrationLost(c) PROVE ApprovalsInv'
  BY <1>4 DEF RegistrationLost, Silent
<1>5. ASSUME NEW c \in Clones, AgentRestarts(c) PROVE ApprovalsInv'
  BY <1>5 DEF AgentRestarts
<1>6. ASSUME NEW a \in Admins, RequestsArrive(a) \/ Approve(a) \/ AskToDeny(a)
                               \/ CancelDeny(a) \/ Deny(a)
      PROVE ApprovalsInv'
  BY <1>6 DEF RequestsArrive, Approve, AskToDeny, CancelDeny, Deny, Decide
<1>7. ASSUME NEW a \in Admins, DecisionSettles(a) PROVE ApprovalsInv'
  <2>1. /\ owner' = owner /\ identity' = identity /\ lost' = lost /\ registering' = registering
        /\ request'.version \in Nat
        /\ request.status = "COMPLETED" => request'.status = "COMPLETED"
    BY <1>7 DEF DecisionSettles, Decidable, Current, Written
  <2>2. QED BY <2>1
<1>8. CASE UNCHANGED approvalsVars
  BY <1>8 DEF approvalsVars
<1>9. QED
  BY <1>1, <1>2, <1>3, <1>4, <1>5, <1>6, <1>7, <1>8 DEF ApprovalsNext

\* Credentials are handed out once per approval, to an agent that owns the device
\* (OneDevicePerApproval), whatever clones poll at the same time.
THEOREM OneDevice == ApprovalsSpec => []OneDevicePerApproval
<1>1. ApprovalsInv => OneDevicePerApproval
  <2> SUFFICES ASSUME ApprovalsInv PROVE OneDevicePerApproval
    OBVIOUS
  <2>1. CASE owner = {}
    BY <2>1, FS_EmptySet DEF ApprovalsInv, Told, OneDevicePerApproval
  <2>2. CASE owner # {}
    <3>1. PICK o \in owner : owner = {o}
      BY <2>2 DEF ApprovalsInv, Issued
    <3>2. Cardinality(owner) = 1
      BY <3>1, FS_Singleton
    <3>3. QED BY <3>2 DEF ApprovalsInv, Told, OneDevicePerApproval
  <2>3. QED BY <2>1, <2>2
<1>2. QED BY <1>1, ApprovalsInitial, ApprovalsStep, PTL DEF ApprovalsSpec

\* A device that exists is run by the agent it was issued to, or will be, unless the
\* response was lost (NoGhosts).
THEOREM NoGhostDevices == ApprovalsSpec => []NoGhosts
<1>1. ApprovalsInv => NoGhosts
  BY DEF ApprovalsInv
<1>2. QED BY <1>1, ApprovalsInitial, ApprovalsStep, PTL DEF ApprovalsSpec

\* No administrator and no poll takes a decision back (DecisionsStand): both write only
\* the row they have read.
THEOREM Decided == ApprovalsSpec => DecisionsStand
<1> DEFINE Stands == request.status \in {"APPROVED", "DENIED", "COMPLETED"} =>
              request'.status = request.status
                \/ (request.status = "APPROVED" /\ request'.status = "COMPLETED")
<1>1. ApprovalsNext => Stands
  <2> SUFFICES ASSUME ApprovalsNext PROVE Stands
    OBVIOUS
  <2>1. ASSUME NEW c \in Clones, HandleRegistration(c) PROVE Stands
    BY <2>1 DEF HandleRegistration, Current, Written, AfterPoll
  <2>2. ASSUME NEW a \in Admins, DecisionSettles(a) PROVE Stands
    BY <2>2 DEF DecisionSettles, Decidable, Current, Written
  <2>3. CASE UNCHANGED request
    BY <2>3
  <2>4. QED
    BY <2>1, <2>2, <2>3 DEF ApprovalsNext, Register, RegistrationAnswered, RegistrationLost,
       AgentRestarts, RequestsArrive, Approve, AskToDeny, CancelDeny, Deny, Decide
<1>2. UNCHANGED approvalsVars => Stands
  BY DEF approvalsVars
<1>3. [ApprovalsNext]_approvalsVars => [Stands]_approvalsVars
  BY <1>1, <1>2
<1>4. QED BY <1>3, PTL DEF ApprovalsSpec, DecisionsStand

\* Requests, polls, decisions and what everybody was told, by type.
RequestRow == [status : RequestStatus, version : Nat]
Polling == [phase : {"idle", "read", "answered"}, row : RequestRow,
            answer : {"none", "pending", "approved", "denied"}]
Deciding == [phase : {"idle", "read"}, row : RequestRow, decision : {"none", "APPROVED", "DENIED"}]

ApprovalsTyping ==
  /\ request \in RequestRow
  /\ registering \in [Clones -> Polling]
  /\ identity \in [Clones -> {"none", "credentials", "denied"}]
  /\ toDeny \subseteq Admins /\ lost \subseteq Clones
  /\ requestList \in [Admins -> RequestStatus]
  /\ deciding \in [Admins -> Deciding]
  /\ \A a \in Admins : deciding[a].phase = "read" => deciding[a].decision # "none"

\* The types of the request and of everybody's part in it.
THEOREM ApprovalsTyped == ApprovalsSpec => []ApprovalsTypeOK
<1>1. ApprovalsInit => ApprovalsTyping
  BY DEF ApprovalsInit, NoRequest, Silent, Undecided, ApprovalsTyping, RequestRow, RequestStatus,
         Polling, Deciding
<1>2. ApprovalsTyping /\ [ApprovalsNext]_approvalsVars => ApprovalsTyping'
  <2> SUFFICES ASSUME ApprovalsTyping, [ApprovalsNext]_approvalsVars PROVE ApprovalsTyping'
    OBVIOUS
  <2>1. ASSUME NEW c \in Clones, Register(c) PROVE ApprovalsTyping'
    <3>1. [phase |-> "read", row |-> request, answer |-> "none"] \in Polling
      BY DEF Polling, ApprovalsTyping
    <3> QED BY <2>1, <3>1 DEF Register, ApprovalsTyping
  <2>a. /\ NoRequest \in RequestRow /\ Silent \in Polling /\ Undecided \in Deciding
    BY DEF NoRequest, Silent, Undecided, Polling, Deciding, RequestRow, RequestStatus
  <2>b. ASSUME NEW status \in RequestStatus PROVE Written(status) \in RequestRow
    BY <2>b DEF Written, RequestRow, ApprovalsTyping
  <2>2. ASSUME NEW c \in Clones, HandleRegistration(c) PROVE ApprovalsTyping'
    <3>1. registering[c].row.status \in RequestStatus
      BY DEF ApprovalsTyping, Polling, RequestRow
    <3>2. CASE Current(registering[c].row)
      <4>1. /\ Written(AfterPoll(registering[c].row.status)) \in RequestRow
            /\ AnswerFor(registering[c].row.status) \in {"pending", "approved", "denied"}
        BY <2>b, <3>1 DEF AfterPoll, AnswerFor, RequestStatus
      <4>2. [phase |-> "answered", row |-> NoRequest,
             answer |-> AnswerFor(registering[c].row.status)] \in Polling
        BY <2>a, <4>1 DEF Polling
      <4> QED BY <2>2, <3>2, <4>1, <4>2 DEF HandleRegistration, ApprovalsTyping
    <3>3. CASE ~Current(registering[c].row)
      BY <2>2, <2>a, <3>3 DEF HandleRegistration, ApprovalsTyping
    <3> QED BY <3>2, <3>3
  <2>3. ASSUME NEW c \in Clones, RegistrationAnswered(c) \/ RegistrationLost(c) \/ AgentRestarts(c)
        PROVE  ApprovalsTyping'
    BY <2>3, <2>a DEF RegistrationAnswered, RegistrationLost, AgentRestarts, ApprovalsTyping
  <2>4. ASSUME NEW a \in Admins, RequestsArrive(a) \/ AskToDeny(a) \/ CancelDeny(a)
        PROVE  ApprovalsTyping'
    BY <2>4 DEF RequestsArrive, AskToDeny, CancelDeny, ApprovalsTyping, RequestRow
  <2>5. ASSUME NEW a \in Admins, Approve(a) \/ Deny(a) PROVE ApprovalsTyping'
    <3>1. PICK decision \in {"APPROVED", "DENIED"} : Decide(a, decision)
      BY <2>5 DEF Approve, Deny
    <3>2. [phase |-> "read", row |-> request, decision |-> decision] \in Deciding
      BY DEF Deciding, ApprovalsTyping
    <3> QED BY <3>1, <3>2 DEF Decide, ApprovalsTyping
  <2>6. ASSUME NEW a \in Admins, DecisionSettles(a) PROVE ApprovalsTyping'
    <3>1. deciding[a].decision \in {"APPROVED", "DENIED"}
      BY <2>6 DEF DecisionSettles, ApprovalsTyping, Deciding
    <3>2. Written(deciding[a].decision) \in RequestRow /\ deciding[a].decision \in RequestStatus
      BY <2>b, <3>1 DEF RequestStatus
    <3>3. request' \in RequestRow /\ requestList' \in [Admins -> RequestStatus]
      BY <2>6, <3>2 DEF DecisionSettles, ApprovalsTyping
    <3>4. deciding' \in [Admins -> Deciding] /\ toDeny' \subseteq Admins
      BY <2>6, <2>a DEF DecisionSettles, ApprovalsTyping
    <3>5. \A b \in Admins : deciding'[b].phase = "read" => deciding'[b].decision # "none"
      BY <2>6 DEF DecisionSettles, Undecided, ApprovalsTyping
    <3> QED BY <2>6, <3>3, <3>4, <3>5 DEF DecisionSettles, ApprovalsTyping
  <2>7. CASE UNCHANGED approvalsVars
    BY <2>7 DEF approvalsVars, ApprovalsTyping
  <2> QED BY <2>1, <2>2, <2>3, <2>4, <2>5, <2>6, <2>7 DEF ApprovalsNext
<1>3. ApprovalsTyping /\ ApprovalsInv => ApprovalsTypeOK
  BY DEF ApprovalsInv, ApprovalsTypeOK, ApprovalsTyping, RequestRow, Polling
<1> QED BY <1>1, <1>2, <1>3, ApprovalsInitial, ApprovalsStep, PTL DEF ApprovalsSpec

=============================================================================
