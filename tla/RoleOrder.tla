----------------------------- MODULE RoleOrder -----------------------------
(***************************************************************************)
(* The roles of a group, "run in this order": assigned, removed and moved  *)
(* on the group's page.                                                    *)
(*                                                                         *)
(* A move sends the whole order, built on the order that is on its way or  *)
(* on the cached one; the server keeps a position per assignment.  An      *)
(* assignment is a row with an id of its own: a role that is removed and   *)
(* assigned again is another assignment, which an older order lacks.       *)
(***************************************************************************)
EXTENDS Naturals, Sequences, FiniteSets, SequencesExt

CONSTANTS
  RoleList,     \* the roles
  MaxRequests,  \* bound on the operator's clicks
  MaxStrangers  \* bound on the assignments of others

Roles == Range(RoleList)

ASSUME RoleOrderAssumption ==
  /\ RoleList \in Seq(Roles) /\ IsInjective(RoleList)
  /\ MaxRequests \in Nat /\ MaxStrangers \in Nat

VARIABLES
  position,   \* the group_role_assignment rows: assignment -> position
  listed,     \* the cached order
  looking,    \* the request for the group: idle, asked, or the answer on its way
  requests,   \* the operator's requests, in order
  goal,       \* the order the operator asked for (history)
  reasons,    \* why it may not have come about (history)
  strangers   \* assignments of others so far (bound)

roleOrderVars == <<position, listed, looking, requests, goal, reasons, strangers>>

\* An assignment has a role and what made it: the operator's request of that number, or
\* somebody else later, or nobody (0).
Assignments == Roles \X Nat
RoleOf(a)   == a[1]
RolesOf(S)  == {RoleOf(a) : a \in S}
Assigned    == DOMAIN position
NotLooking == [phase |-> "idle", order |-> << >>]
Looking    == [phase |-> "asked", order |-> << >>]

\* assignmentsOf sorts by position; the order of equal positions is the database's.
OrdersOf(pos) ==
  {s \in SetToSeqs(DOMAIN pos) : \A i, j \in DOMAIN s : i < j => pos[s[i]] <= pos[s[j]]}

IndexIn(order, a) == CHOOSE i \in DOMAIN order : order[i] = a

Without(order, a) ==
  IF a \in Range(order) THEN RemoveAt(order, IndexIn(order, a)) ELSE order

\* Some roles are assigned; which come first is only a matter of their names.
RoleOrderInit ==
  \E order \in {[i \in 1..n |-> <<RoleList[i], 0>>] : n \in 0..Len(RoleList)} :
    /\ position = [a \in Range(order) |-> IndexIn(order, a) - 1]
    /\ listed = order /\ goal = order
    /\ looking = NotLooking /\ requests = << >>
    /\ reasons = {} /\ strangers = 0

-----------------------------------------------------------------------------
(* The page.                                                               *)

Orders == {i \in DOMAIN requests : requests[i].kind = "order"}
LastOrder == CHOOSE i \in Orders : \A j \in Orders : j <= i
Waiting(i) == requests[i].phase \in {"sent", "stored"}
OrderPending == Orders # {} /\ Waiting(LastOrder)

\* Mutant: every order is built on the cached one.
BaseCached == listed

Base == IF OrderPending THEN requests[LastOrder].order ELSE listed

Moved(order, a, target) == InsertAt(Without(order, a), target, a)

Request(kind, a, order) ==
  /\ Len(requests) < MaxRequests
  /\ requests' = Append(requests, [kind |-> kind, row |-> a, order |-> order,
                                   phase |-> "sent"])
  /\ UNCHANGED <<position, listed, looking, strangers>>

\* The arrows of the first and the last row are disabled by the cached order; an
\* assignment that is being moved waits for the answer (movingId).
Move(a, up) ==
  LET target(order) == IF up THEN IndexIn(order, a) - 1 ELSE IndexIn(order, a) + 1
  IN  /\ a \in Range(listed)
      /\ target(listed) \in DOMAIN listed
      /\ ~(OrderPending /\ requests[LastOrder].row = a)
      /\ a \in Range(Base) /\ target(Base) \in DOMAIN Base
      /\ Request("order", a, Moved(Base, a, target(Base)))
      /\ goal' = IF a \in Range(goal) /\ target(goal) \in DOMAIN goal
                 THEN Moved(goal, a, target(goal)) ELSE goal
      /\ reasons' = reasons \cup
           (IF (~OrderPending /\ listed # goal)
                 \/ (OrderPending /\ requests[LastOrder].order # goal)
            THEN {"gap"} ELSE {})

\* The list of addable roles leaves out what the cached copy has.
Assign(r) ==
  /\ r \notin RolesOf(Range(listed))
  /\ \A i \in DOMAIN requests : requests[i].kind = "assign" => ~Waiting(i)
  /\ LET a == <<r, Len(requests) + 1>>
     IN  /\ Request("assign", a, << >>)
         /\ goal' = IF r \in RolesOf(Range(goal)) THEN goal ELSE Append(goal, a)
  /\ UNCHANGED reasons

Unassign(a) ==
  /\ a \in Range(listed)
  /\ Request("remove", a, << >>)
  /\ goal' = Without(goal, a)
  /\ UNCHANGED reasons

-----------------------------------------------------------------------------
(* The server.                                                             *)

\* (assignments*.position.max() ?: -1) + 1, where 0 counts as no maximum.
NextPosition(pos) ==
  LET top == CHOOSE p \in {pos[a] : a \in DOMAIN pos} : \A a \in DOMAIN pos : pos[a] <= p
  IN  IF DOMAIN pos = {} \/ top = 0 THEN 0 ELSE top + 1

AssignRole(pos, a) ==
  IF RoleOf(a) \in RolesOf(DOMAIN pos) THEN pos
  ELSE [b \in DOMAIN pos \cup {a} |-> IF b = a THEN NextPosition(pos) ELSE pos[b]]

UnassignRole(pos, a) == [b \in DOMAIN pos \ {a} |-> pos[b]]

\* Positions count the known ids of the list; assignments it lacks keep theirs.
Reorder(pos, order) ==
  LET before(a) == {i \in 1..(IndexIn(order, a) - 1) : order[i] \in DOMAIN pos}
  IN  [a \in DOMAIN pos |-> IF a \in Range(order) THEN Cardinality(before(a)) ELSE pos[a]]

Tied(pos) == \E a, b \in DOMAIN pos : a # b /\ pos[a] = pos[b]

\* (History: the requests may overtake each other, and positions may be equal.)
StoreRequest(i) ==
  LET q == requests[i]
  IN  /\ q.phase = "sent"
      /\ position' = CASE q.kind = "order"  -> Reorder(position, q.order)
                       [] q.kind = "assign" -> AssignRole(position, q.row)
                       [] q.kind = "remove" -> UnassignRole(position, q.row)
      /\ requests' = [requests EXCEPT ![i].phase = "stored"]
      /\ reasons' = ((reasons \ {"tie"}) \cup (IF Tied(position') THEN {"tie"} ELSE {}))
                    \cup (IF \E j \in 1..i - 1 : requests[j].phase = "sent"
                          THEN {"overtaken"} ELSE {})
      /\ UNCHANGED <<listed, looking, goal, strangers>>

\* A repository page or another browser assigns a role.
StrangerAssigns ==
  /\ strangers < MaxStrangers /\ strangers' = strangers + 1
  /\ \E r \in Roles \ RolesOf(Assigned) :
       position' = AssignRole(position, <<r, MaxRequests + strangers'>>)
  /\ reasons' = reasons \cup {"other"}
  /\ UNCHANGED <<listed, looking, requests, goal>>

-----------------------------------------------------------------------------
(* The cache.                                                              *)

RequestAnswered(i) ==
  /\ requests[i].phase = "stored"
  /\ requests' = [requests EXCEPT ![i].phase = "done"]
  /\ looking' = Looking
  /\ UNCHANGED <<position, listed, goal, reasons, strangers>>

RequestFailed(i) ==
  /\ Waiting(i)
  /\ requests' = [requests EXCEPT ![i].phase = "failed"]
  /\ reasons' = reasons \cup {"failed"}
  /\ UNCHANGED <<position, listed, looking, goal, strangers>>

PollRoles ==
  /\ looking = NotLooking /\ looking' = Looking
  /\ UNCHANGED <<position, listed, requests, goal, reasons, strangers>>

ReadRoles ==
  /\ looking.phase = "asked"
  /\ \E s \in OrdersOf(position) : looking' = [phase |-> "answered", order |-> s]
  /\ UNCHANGED <<position, listed, requests, goal, reasons, strangers>>

ShowRoles ==
  /\ looking.phase = "answered"
  /\ listed' = looking.order /\ looking' = NotLooking
  /\ UNCHANGED <<position, requests, goal, reasons, strangers>>

RoleOrderNext ==
  \/ \E a \in Range(listed) : Move(a, TRUE) \/ Move(a, FALSE) \/ Unassign(a)
  \/ \E r \in Roles : Assign(r)
  \/ \E i \in DOMAIN requests : StoreRequest(i) \/ RequestAnswered(i) \/ RequestFailed(i)
  \/ PollRoles \/ ReadRoles \/ ShowRoles \/ StrangerAssigns

RoleOrderSpec == RoleOrderInit /\ [][RoleOrderNext]_roleOrderVars

-----------------------------------------------------------------------------
RoleOrderTypeOK ==
  /\ Assigned \subseteq Assignments /\ \A a \in Assigned : position[a] \in Nat
  /\ Range(listed) \subseteq Assignments /\ Range(goal) \subseteq Assignments
  /\ looking.phase \in {"idle", "asked", "answered"}
  /\ \A i \in DOMAIN requests : /\ requests[i].kind \in {"order", "assign", "remove"}
                                /\ requests[i].phase \in {"sent", "stored", "done", "failed"}
  /\ reasons \subseteq {"gap", "overtaken", "failed", "other", "tie"}

\* Once every click is answered the roles run in the order that was asked for, and
\* in no other: unless a click fell into the gap before the refetch, the server took
\* requests in another order, one failed, somebody else wrote, or positions are equal.
MovesAddUp ==
  /\ \A i \in DOMAIN requests : requests[i].phase = "done"
  /\ reasons = {}
  => OrdersOf(position) = {goal}

=============================================================================
