---------------------------- MODULE Memberships ----------------------------
(***************************************************************************)
(* The group checkboxes of a device's page.                                *)
(*                                                                         *)
(* Each click sends the whole selection.  While the previous one is on its *)
(* way, the next is built on it; otherwise on the cached copy, which is    *)
(* refetched after the answer without the mutation waiting for it.         *)
(***************************************************************************)
EXTENDS Naturals, Sequences

CONSTANTS
  Groups,
  MaxClicks, MaxWrites   \* bounds on this operator's clicks and on those of others

ASSUME MembershipsAssumption == MaxClicks \in Nat /\ MaxWrites \in Nat

VARIABLES
  member,     \* the group_membership rows of the device
  ticked,     \* the cached copy: the groups shown as ticked
  reading,    \* the request for the device: idle, asked, or the answer on its way
  sets,       \* the PUTs in order: the selection, and how far it has come
  busyGroup,  \* pendingGroupId
  wish,       \* what the operator asked for in the end (history)
  excuse,     \* what may have come in between (history)
  writes      \* writes of others so far (bound)

membershipsVars == <<member, ticked, reading, sets, busyGroup, wish, excuse, writes>>

Latest == Len(sets)
Clicks == 1..Latest
NoGroup == "none"

\* useMutation only follows the latest call.
IsPending == Latest > 0 /\ sets[Latest].phase \in {"sent", "stored"}

NotReading == [phase |-> "idle", groups |-> {}]
Reading    == [phase |-> "asked", groups |-> {}]

MembershipsInit ==
  /\ member \in SUBSET Groups /\ ticked = member
  /\ reading = NotReading
  /\ sets = << >>
  /\ busyGroup = NoGroup
  /\ wish = member /\ excuse = {} /\ writes = 0

\* Mutant: every selection is built on the cached copy.
BuildOnCached == ticked

Selection == IF IsPending THEN sets[Latest].groups ELSE ticked

Toggled(groups, g) == IF g \in groups THEN groups \ {g} ELSE groups \cup {g}

\* A click on a checkbox shows the cached state and asks for its opposite.
\* (History: the copy was out of date, and nobody was waiting for the answer.)
ToggleGroup(g) ==
  LET next == IF g \in ticked THEN Selection \ {g} ELSE Selection \cup {g}
  IN  /\ Latest < MaxClicks
      /\ ~(IsPending /\ busyGroup = g)
      /\ sets' = Append(sets, [phase |-> "sent", groups |-> next])
      /\ busyGroup' = g
      /\ wish' = IF g \in ticked THEN wish \ {g} ELSE wish \cup {g}
      /\ excuse' = excuse \cup (IF ~IsPending /\ ticked # member THEN {"gap"} ELSE {})
      /\ UNCHANGED <<member, ticked, reading, writes>>

\* GroupService.setDeviceGroups.  (History: requests may overtake each other.)
StoreGroups(i) ==
  /\ sets[i].phase = "sent"
  /\ member' = sets[i].groups
  /\ sets' = [sets EXCEPT ![i].phase = "stored"]
  /\ excuse' = excuse \cup (IF \E j \in Clicks : j < i /\ sets[j].phase = "sent"
                            THEN {"overtaken"} ELSE {})
  /\ UNCHANGED <<ticked, reading, busyGroup, wish, writes>>

ReleasedBy(i) == IF i = Latest THEN NoGroup ELSE busyGroup   \* onSettled

\* Mutant: an invalidation is satisfied by a request that is already on its way.
AskUnlessReading == IF reading = NotReading THEN Reading ELSE reading

\* invalidateQueries cancels a request on its way and asks again.
AskAgain == Reading

GroupsSaved(i) ==
  /\ sets[i].phase = "stored"
  /\ sets' = [sets EXCEPT ![i].phase = "done"]
  /\ reading' = AskAgain
  /\ busyGroup' = ReleasedBy(i)
  /\ UNCHANGED <<member, ticked, wish, excuse, writes>>

\* An error toast; the copy is not refetched before the next poll.
GroupsFailed(i) ==
  /\ sets[i].phase \in {"sent", "stored"}
  /\ sets' = [sets EXCEPT ![i].phase = "failed"]
  /\ busyGroup' = ReleasedBy(i)
  /\ excuse' = excuse \cup {"failed"}
  /\ UNCHANGED <<member, ticked, reading, wish, writes>>

PollGroups ==
  /\ reading = NotReading /\ reading' = Reading
  /\ UNCHANGED <<member, ticked, sets, busyGroup, wish, excuse, writes>>

ReadGroups ==
  /\ reading.phase = "asked"
  /\ reading' = [phase |-> "answered", groups |-> member]
  /\ UNCHANGED <<member, ticked, sets, busyGroup, wish, excuse, writes>>

ShowGroups ==
  /\ reading.phase = "answered"
  /\ ticked' = reading.groups /\ reading' = NotReading
  /\ UNCHANGED <<member, sets, busyGroup, wish, excuse, writes>>

\* Another operator adds the device to a group, or removes it.
OtherGroups ==
  /\ writes < MaxWrites /\ writes' = writes + 1
  /\ \E g \in Groups : member' = Toggled(member, g)
  /\ excuse' = excuse \cup {"other"}
  /\ UNCHANGED <<ticked, reading, sets, busyGroup, wish>>

MembershipsNext ==
  \/ \E g \in Groups : ToggleGroup(g)
  \/ \E i \in Clicks : StoreGroups(i) \/ GroupsSaved(i) \/ GroupsFailed(i)
  \/ PollGroups \/ ReadGroups \/ ShowGroups \/ OtherGroups

MembershipsSpec == MembershipsInit /\ [][MembershipsNext]_membershipsVars

-----------------------------------------------------------------------------
MembershipsTypeOK ==
  /\ member \subseteq Groups /\ ticked \subseteq Groups /\ wish \subseteq Groups
  /\ reading.phase \in {"idle", "asked", "answered"} /\ reading.groups \subseteq Groups
  /\ \A i \in Clicks : /\ sets[i].phase \in {"sent", "stored", "done", "failed"}
                       /\ sets[i].groups \subseteq Groups
  /\ busyGroup \in Groups \cup {NoGroup}
  /\ excuse \subseteq {"gap", "overtaken", "failed", "other"}

AllAnswered == \A i \in Clicks : sets[i].phase \in {"done", "failed"}

\* "Build on the in-flight selection so quick successive toggles don't overwrite each
\* other": once every click is answered, the device is in the groups that were asked
\* for, unless a click fell into the gap between an answer and the refetch, the server
\* took two of them in the other order, one failed, or somebody else wrote.
TogglesAddUp == AllAnswered /\ excuse = {} => member = wish

\* When nothing is on its way and nothing failed, the checkboxes show what is stored:
\* an answer that was read before a click cannot replace the one read after it.
TicksAreTrue ==
  AllAnswered /\ reading = NotReading /\ excuse \cap {"failed", "other"} = {} => ticked = member

=============================================================================
