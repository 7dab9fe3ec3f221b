----------------------------- MODULE Approvals ------------------------------
(***************************************************************************)
(* Enrollment without a token: a device asks again and again until an      *)
(* administrator decides on the page Enrollment, and is then given its     *)
(* credentials, once.                                                      *)
(*                                                                         *)
(* Agents are processes; clones of one image share a machine id and so the *)
(* request.  Every poll writes the row (lastSeenAt), so two transactions   *)
(* that overlap cannot both commit: `version` counts the writes.           *)
(***************************************************************************)
EXTENDS Naturals, FiniteSets

CONSTANTS
  Clones,      \* agents that announce themselves with the same machine id
  Admins,      \* administrators with the page open
  MaxPolls,    \* bound on the writes of the row
  MaxLosses    \* bound on responses that are lost

ASSUME ApprovalsAssumption == MaxPolls \in Nat /\ MaxLosses \in Nat

VARIABLES
  request,     \* the EnrollmentRequest row, with the number of its writes
  registering, \* each agent's poll: on its way, the row it read, the response
  identity,    \* what each agent has: nothing, credentials, or it gave up
  owner,       \* Device rows made of the request: the agent they were issued to
  requestList, \* each administrator's cached status of the request
  toDeny,      \* the dialog of each is open
  deciding,    \* each administrator's request: the decision and the row it read
  lost         \* credentials whose response was lost (history)

approvalsVars == <<request, registering, identity, owner, requestList, toDeny, deciding, lost>>

NoRequest == [status |-> "NONE", version |-> 0]
Silent    == [phase |-> "idle", row |-> NoRequest, answer |-> "none"]
Undecided == [phase |-> "idle", row |-> NoRequest, decision |-> "none"]

ApprovalsInit ==
  /\ request = NoRequest
  /\ registering = [c \in Clones |-> Silent] /\ identity = [c \in Clones |-> "none"]
  /\ owner = {}
  /\ requestList = [a \in Admins |-> "NONE"] /\ toDeny = {}
  /\ deciding = [a \in Admins |-> Undecided]
  /\ lost = {}

\* Mutant: the row has no version.
Regardless(row) == row.version <= request.version

\* Optimistic locking; for a new row, the unique constraint of requestId.
Current(row) == row = request

Written(status) == [status |-> status, version |-> request.version + 1]

-----------------------------------------------------------------------------
(* The agent: RegisterAndWait, and EnrollmentService.handleRegistration.   *)

Register(c) ==
  /\ identity[c] = "none" /\ registering[c].phase = "idle"
  /\ request.version < MaxPolls
  /\ registering' = [registering EXCEPT ![c] =
                       [phase |-> "read", row |-> request, answer |-> "none"]]
  /\ UNCHANGED <<request, identity, owner, requestList, toDeny, deciding, lost>>

\* Mutant: the request stays approved when its credentials are handed out.
ApprovedAgain(status) == IF status = "NONE" THEN "PENDING" ELSE status

\* The status that a poll leaves behind.
AfterPoll(status) ==
  CASE status = "NONE" -> "PENDING" [] status = "APPROVED" -> "COMPLETED" [] OTHER -> status

\* Mutant: the answer is chosen after the status was moved on.
AnswerAfterwards(status) ==
  IF status \in {"NONE", "PENDING"} THEN "pending" ELSE "denied"

AnswerFor(status) ==
  CASE status \in {"NONE", "PENDING"} -> "pending"
    [] status = "APPROVED" -> "approved" [] OTHER -> "denied"

HandleRegistration(c) ==
  LET row == registering[c].row
  IN  /\ registering[c].phase = "read"
      /\ IF Current(row)
         THEN /\ request' = Written(AfterPoll(row.status))
              /\ owner' = IF row.status = "APPROVED"
                          THEN owner \cup {<<c, request.version>>} ELSE owner
              /\ registering' = [registering EXCEPT ![c] =
                   [phase |-> "answered", row |-> NoRequest, answer |-> AnswerFor(row.status)]]
         ELSE /\ registering' = [registering EXCEPT ![c] = Silent]
              /\ UNCHANGED <<request, owner>>
      /\ UNCHANGED <<identity, requestList, toDeny, deciding, lost>>

\* "denied" ends the loop, and so does a stored configuration.
RegistrationAnswered(c) ==
  /\ registering[c].phase = "answered"
  /\ registering' = [registering EXCEPT ![c] = Silent]
  /\ identity' = [identity EXCEPT ![c] =
       CASE registering[c].answer = "approved" -> "credentials"
         [] registering[c].answer = "denied" -> "denied" [] OTHER -> "none"]
  /\ UNCHANGED <<request, owner, requestList, toDeny, deciding, lost>>

\* The response is lost, or the agent dies before it stored the configuration.
RegistrationLost(c) ==
  /\ registering[c].phase = "answered" /\ Cardinality(lost) < MaxLosses
  /\ registering' = [registering EXCEPT ![c] = Silent]
  /\ lost' = lost \cup {c}
  /\ UNCHANGED <<request, identity, owner, requestList, toDeny, deciding>>

\* The service starts the agent again, which asks as before.
AgentRestarts(c) ==
  /\ identity[c] = "denied" /\ identity' = [identity EXCEPT ![c] = "none"]
  /\ UNCHANGED <<request, registering, owner, requestList, toDeny, deciding, lost>>

-----------------------------------------------------------------------------
(* The page, and EnrollmentService.decideRequest.                          *)

RequestsArrive(a) ==
  /\ requestList[a] # request.status
  /\ requestList' = [requestList EXCEPT ![a] = request.status]
  /\ UNCHANGED <<request, registering, identity, owner, toDeny, deciding, lost>>

Decide(a, decision) ==
  /\ deciding[a].phase = "idle"   \* disabled={decideRequest.isPending}
  /\ deciding' = [deciding EXCEPT ![a] =
                    [phase |-> "read", row |-> request, decision |-> decision]]
  /\ UNCHANGED <<request, registering, identity, owner, requestList, toDeny, lost>>

Approve(a) == requestList[a] = "PENDING" /\ a \notin toDeny /\ Decide(a, "APPROVED")

AskToDeny(a) ==
  /\ requestList[a] = "PENDING" /\ deciding[a].phase = "idle" /\ a \notin toDeny
  /\ toDeny' = toDeny \cup {a}
  /\ UNCHANGED <<request, registering, identity, owner, requestList, deciding, lost>>

CancelDeny(a) ==
  /\ a \in toDeny /\ toDeny' = toDeny \ {a}
  /\ UNCHANGED <<request, registering, identity, owner, requestList, deciding, lost>>

\* The dialog does not look at the list again.
Deny(a) == a \in toDeny /\ Decide(a, "DENIED")

Decidable(row) == row.status = "PENDING"

\* Decided and fetched again, or refused with 409, or a version conflict; either way
\* the dialog closes.
DecisionSettles(a) ==
  LET row == deciding[a].row
  IN  /\ deciding[a].phase = "read"
      /\ IF Decidable(row) /\ Current(row)
         THEN /\ request' = Written(deciding[a].decision)
              /\ requestList' = [requestList EXCEPT ![a] = deciding[a].decision]
         ELSE UNCHANGED <<request, requestList>>
      /\ deciding' = [deciding EXCEPT ![a] = Undecided]
      /\ toDeny' = IF deciding[a].decision = "DENIED" THEN toDeny \ {a} ELSE toDeny
      /\ UNCHANGED <<registering, identity, owner, lost>>

ApprovalsNext ==
  \/ \E c \in Clones : \/ Register(c) \/ HandleRegistration(c) \/ RegistrationAnswered(c)
                       \/ RegistrationLost(c) \/ AgentRestarts(c)
  \/ \E a \in Admins : \/ RequestsArrive(a) \/ Approve(a) \/ AskToDeny(a) \/ CancelDeny(a)
                       \/ Deny(a) \/ DecisionSettles(a)

ApprovalsSpec == ApprovalsInit /\ [][ApprovalsNext]_approvalsVars

-----------------------------------------------------------------------------
RequestStatus == {"NONE", "PENDING", "APPROVED", "DENIED", "COMPLETED"}

ApprovalsTypeOK ==
  /\ request \in [status : RequestStatus, version : Nat]
  /\ \A c \in Clones :
       /\ registering[c].phase \in {"idle", "read", "answered"}
       /\ registering[c].row \in [status : RequestStatus, version : Nat]
       /\ identity[c] \in {"none", "credentials", "denied"}
  /\ owner \subseteq Clones \X Nat /\ toDeny \subseteq Admins /\ lost \subseteq Clones
  /\ \A a \in Admins : requestList[a] \in RequestStatus

\* "The credentials were already handed out once - never twice": an approval makes one
\* device, whatever clones ask at the same time, and nobody else has credentials.
OneDevicePerApproval ==
  /\ Cardinality(owner) <= 1
  /\ \A c \in Clones : identity[c] = "credentials" => c \in {o[1] : o \in owner}

\* A device that exists is run by the agent it was issued to, or will be, unless
\* that agent's response was lost.
NoGhosts ==
  \A o \in owner : \/ identity[o[1]] = "credentials" \/ o[1] \in lost
                   \/ registering[o[1]].answer = "approved"

\* A decision stands: neither another administrator nor a poll that was on its way
\* turns it round or takes it back.
DecisionsStand ==
  [][request.status \in {"APPROVED", "DENIED", "COMPLETED"} =>
       request'.status = request.status
         \/ (request.status = "APPROVED" /\ request'.status = "COMPLETED")]_approvalsVars

=============================================================================
