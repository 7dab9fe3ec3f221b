------------------------ MODULE Configuration_proofs ------------------------
(***************************************************************************)
(* How configurations are edited, synced and rolled out, proved for any    *)
(* groups, hosts, repositories and editors, and any number of clicks:      *)
(*   - MembershipsTyped, TicksTellTheTruth, ClicksAddUp: the checkboxes of *)
(*     a device;                                                           *)
(*   - SourcesTyped, EditsAreKept, OneAlertPerOutage: repositories;        *)
(*   - RolloutsTyped, CanaryFirst, AppliedOnce: group rollouts;            *)
(*   - FleetTyped, RowsReachable, WholeSuccess: the list of devices and    *)
(*     its bulk actions;                                                   *)
(*   - RoleOrderTyped, OrderAddsUp: the roles of a group run in the order  *)
(*     asked for.                                                          *)
(***************************************************************************)
EXTENDS Memberships, RoleOrder, Sources, Rollouts, Fleet, SequenceTheorems, FiniteSetTheorems,
        WellFoundedInduction, TLAPS

-----------------------------------------------------------------------------
(* Numbers: induction, as what a set of them has *)

\* Induction on the natural numbers, for a set of them: a set that has a number has a least
\* one.
LEMMA LeastNumber ==
  ASSUME NEW X \in SUBSET Nat, X # {}
  PROVE  \E n \in X : \A m \in X : n <= m
<1> DEFINE Below == {1..n : n \in X}
<1>1. Below \subseteq FiniteSubsetsOf(Nat) /\ Below # {}
  <2>1. \A n \in X : IsFiniteSet(1..n) /\ 1..n \in SUBSET Nat BY FS_Interval
  <2> QED BY <2>1 DEF FiniteSubsetsOf
<1>2. IsWellFoundedOn(StrictSubsetOrdering(Nat), FiniteSubsetsOf(Nat))
  BY FS_StrictSubsetOrderingWellFounded
<1> HIDE DEF Below
<1>3. PICK s \in Below : \A t \in Below : <<t, s>> \notin StrictSubsetOrdering(Nat)
  BY <1>1, <1>2, WFMin
<1>4. PICK n \in X : s = 1..n BY <1>3 DEF Below
<1>5. ASSUME NEW m \in X, m < n PROVE FALSE
  <2>1. 1..m \in Below BY DEF Below
  <2>2. 1..m \subseteq 1..n /\ n \in 1..n /\ n \notin 1..m BY <1>5
  <2>3. <<1..m, 1..n>> \in (SUBSET Nat) \X (SUBSET Nat) OBVIOUS
  <2>4. <<1..m, 1..n>> \in StrictSubsetOrdering(Nat) BY <2>2, <2>3 DEF StrictSubsetOrdering
  <2> QED BY <1>3, <1>4, <2>1, <2>4
<1> QED BY <1>5

-----------------------------------------------------------------------------
(* Memberships of a device *)

ClickPhases == {"sent", "stored", "done", "failed"}
Clicked == [phase : ClickPhases, groups : SUBSET Groups]

MembershipsShape ==
  /\ sets \in Seq(Clicked)
  /\ reading \in [phase : {"idle", "asked", "answered"}, groups : SUBSET Groups]
  /\ member \subseteq Groups /\ ticked \subseteq Groups /\ wish \subseteq Groups
  /\ writes \in Nat

\* Unless an answer is due, which asks again, what was read last is what is stored.
ReadingTrue ==
  \/ excuse \cap {"failed", "other"} # {}
  \/ \E i \in Clicks : sets[i].phase = "stored"
  \/ /\ reading.phase = "idle" => ticked = member
     /\ reading.phase = "answered" => reading.groups = member

\* The server takes the clicks in order and has stored the last one it took.
ClickTaken(i) == sets[i].phase \in {"stored", "done"}

ClicksInOrder ==
  excuse = {} =>
    /\ \A i \in Clicks : sets[i].phase # "failed"
    /\ \A i, j \in Clicks : i < j /\ ClickTaken(j) => ClickTaken(i)
    /\ \A i \in Clicks :
         ClickTaken(i) /\ (i = Latest \/ sets[i + 1].phase = "sent") => member = sets[i].groups

\* The latest click carries everything that was asked for.
Wished == excuse = {} => wish = IF Latest = 0 THEN member ELSE sets[Latest].groups

MembershipsInv == MembershipsShape /\ ReadingTrue /\ ClicksInOrder /\ Wished

\* The page shows what is stored, and nothing was clicked.
LEMMA MembershipsInitial == MembershipsInit => MembershipsInv
  BY DEF MembershipsInit, MembershipsInv, MembershipsShape, ReadingTrue, ClicksInOrder,
     Wished, NotReading, Clicks,
     Latest, ClickTaken

\* Without an excuse the selection that a click is built on is what was asked for.
LEMMA BuiltOnWish ==
  ASSUME MembershipsInv, excuse = {}, IsPending \/ ticked = member
  PROVE  Selection = wish
<1>1. CASE IsPending
  BY <1>1 DEF MembershipsInv, Wished, Selection, IsPending, MembershipsShape, Latest
<1>2. CASE ~IsPending /\ Latest = 0
  BY <1>2 DEF MembershipsInv, Wished, Selection
<1>3. CASE ~IsPending /\ Latest # 0
  <2>1. Latest \in Clicks /\ sets[Latest] \in Clicked
    BY <1>3 DEF MembershipsInv, MembershipsShape, Latest, Clicks
  <2>2. sets[Latest].phase = "done"
    BY <1>3, <2>1 DEF MembershipsInv, ClicksInOrder, IsPending, Clicked, ClickPhases,
       Latest, Clicks
  <2>3. QED BY <1>3, <2>1, <2>2 DEF MembershipsInv, ClicksInOrder, ClickTaken, Wished, Selection
<1>4. QED BY <1>1, <1>2, <1>3

\* A click is appended and not yet taken.
LEMMA ToggleStep ==
  ASSUME MembershipsInv, NEW g \in Groups, ToggleGroup(g)
  PROVE  MembershipsInv'
<1> DEFINE next == IF g \in ticked THEN Selection \ {g} ELSE Selection \cup {g}
           new  == [phase |-> "sent", groups |-> next]
<1>1. sets \in Seq(Clicked) /\ Latest \in Nat
  BY DEF MembershipsInv, MembershipsShape, Latest
<1>2. next \subseteq Groups
  <2>1. CASE IsPending
    <3>1. Latest \in 1..Len(sets) /\ sets[Latest] \in Clicked
      BY <1>1, <2>1 DEF IsPending, Latest
    <3>2. Selection = sets[Latest].groups /\ Selection \subseteq Groups
      BY <2>1, <3>1 DEF Selection, Clicked
    <3>3. QED BY <3>2
  <2>2. CASE ~IsPending
    BY <2>2 DEF Selection, MembershipsInv, MembershipsShape
  <2>3. QED BY <2>1, <2>2
<1> HIDE DEF next
<1>3. new \in Clicked
  BY <1>2 DEF Clicked, ClickPhases
<1>4. /\ sets' = Append(sets, new) /\ UNCHANGED <<member, ticked, reading, writes>>
      /\ wish' = IF g \in ticked THEN wish \ {g} ELSE wish \cup {g}
      /\ excuse \subseteq excuse' /\ excuse' \subseteq excuse \cup {"gap"}
      /\ excuse' = {} => IsPending \/ ticked = member
  BY DEF ToggleGroup, next
<1>5. /\ sets' \in Seq(Clicked) /\ Latest' = Latest + 1 /\ sets'[Latest + 1] = new
      /\ \A i \in Clicks : sets'[i] = sets[i]
      /\ Clicks' = Clicks \cup {Latest + 1}
      /\ \A i \in Clicks : i \in Nat /\ i <= Latest
  BY <1>1, <1>3, <1>4 DEF Latest, Clicks
<1>6. MembershipsShape'
  BY <1>4, <1>5 DEF MembershipsInv, MembershipsShape
<1>7. ReadingTrue'
  BY <1>4, <1>5 DEF MembershipsInv, ReadingTrue
<1>8. ClicksInOrder'
  <2> SUFFICES ASSUME excuse' = {} PROVE ClicksInOrder'
    BY DEF ClicksInOrder
  <2>1. excuse = {}
    BY <1>4
  <2>3. new.phase = "sent"
    BY DEF new
  <2> HIDE DEF new
  <2>2. \A i \in Clicks' : ClickTaken(i)' <=> i \in Clicks /\ ClickTaken(i)
    <3> TAKE i \in Clicks'
    <3>1. CASE i \in Clicks
      BY <1>5, <3>1 DEF ClickTaken
    <3>2. CASE i = Latest + 1
      <4>1. sets'[i].phase = "sent" /\ i \notin Clicks
        BY <1>1, <1>5, <2>3, <3>2
      <4>2. QED BY <4>1 DEF ClickTaken
    <3>3. QED BY <1>5, <3>1, <3>2
  <2>4. ASSUME NEW i \in Clicks', ClickTaken(i)', i = Latest' \/ sets'[i + 1].phase = "sent"
        PROVE  member' = sets'[i].groups
    <3>1. i \in Clicks /\ ClickTaken(i)
      BY <1>5, <2>2, <2>4
    <3>2. i = Latest \/ sets[i + 1].phase = "sent"
      BY <1>1, <1>5, <2>4, <3>1 DEF Clicks
    <3>3. QED BY <1>4, <1>5, <2>1, <3>1, <3>2 DEF MembershipsInv, ClicksInOrder
  <2>5. \A i \in Clicks' : sets'[i].phase # "failed"
    <3> TAKE i \in Clicks'
    <3>1. CASE i \in Clicks
      BY <1>5, <2>1, <3>1 DEF MembershipsInv, ClicksInOrder
    <3>2. CASE i = Latest + 1
      BY <1>5, <2>3, <3>2
    <3>3. QED BY <1>5, <3>1, <3>2
  <2>6. \A i, j \in Clicks' : i < j /\ ClickTaken(j)' => ClickTaken(i)'
    <3> SUFFICES ASSUME NEW i \in Clicks', NEW j \in Clicks', i < j, ClickTaken(j)'
                 PROVE  ClickTaken(i)'
      OBVIOUS
    <3>1. j \in Clicks /\ ClickTaken(j)
      BY <2>2
    <3>2. i \in Clicks
      BY <1>1, <1>5, <3>1
    <3>3. QED BY <2>1, <2>2, <3>1, <3>2 DEF MembershipsInv, ClicksInOrder
  <2>7. QED BY <2>4, <2>5, <2>6 DEF ClicksInOrder
<1>9. Wished'
  <2> SUFFICES ASSUME excuse' = {} PROVE wish' = next
    BY <1>1, <1>5 DEF Wished, new
  <2>1. Selection = wish
    BY <1>4, BuiltOnWish
  <2>2. QED BY <1>4, <2>1 DEF next
<1>10. QED BY <1>6, <1>7, <1>8, <1>9 DEF MembershipsInv

\* Moving one click on leaves the number of clicks, the selections and the others alone.
LEMMA MovedOn ==
  ASSUME sets \in Seq(Clicked), NEW i \in Clicks, NEW phase \in ClickPhases,
         sets' = [sets EXCEPT ![i].phase = phase]
  PROVE  /\ sets' \in Seq(Clicked) /\ Latest' = Latest /\ Clicks' = Clicks
         /\ sets'[i].phase = phase
         /\ \A j \in Clicks : sets'[j].groups = sets[j].groups
         /\ \A j \in Clicks : j # i => sets'[j] = sets[j]
<1> DEFINE moved == [sets[i] EXCEPT !.phase = phase]
<1>1. sets[i] \in Clicked /\ i \in 1..Len(sets)
  BY DEF Clicks, Latest
<1>2. moved \in Clicked /\ moved.phase = phase /\ moved.groups = sets[i].groups
  BY <1>1 DEF Clicked
<1>3. sets' = [sets EXCEPT ![i] = moved]
  OBVIOUS
<1> HIDE DEF moved
<1>4. sets' \in Seq(Clicked) /\ Len(sets') = Len(sets)
  BY <1>1, <1>2, <1>3
<1>5. sets'[i] = moved /\ \A j \in 1..Len(sets) : j # i => sets'[j] = sets[j]
  BY <1>1, <1>3
<1>6. Latest' = Latest /\ Clicks' = Clicks
  BY <1>4 DEF Latest, Clicks
<1>7. QED BY <1>2, <1>4, <1>5, <1>6 DEF Clicks, Latest

\* The server takes the first click it has not taken yet.
LEMMA StoreStep ==
  ASSUME MembershipsInv, NEW i \in Clicks, StoreGroups(i)
  PROVE  MembershipsInv'
<1>1. /\ sets \in Seq(Clicked) /\ Latest \in Nat /\ i \in Nat
      /\ \A j \in Clicks : j \in Nat /\ 1 <= j /\ j <= Latest
  BY DEF MembershipsInv, MembershipsShape, Latest, Clicks
<1>2. /\ sets' \in Seq(Clicked) /\ Latest' = Latest /\ Clicks' = Clicks
      /\ sets'[i].phase = "stored"
      /\ \A j \in Clicks : sets'[j].groups = sets[j].groups
      /\ \A j \in Clicks : j # i => sets'[j] = sets[j]
  BY <1>1, MovedOn DEF StoreGroups, ClickPhases
<1>3. /\ sets[i].phase = "sent" /\ member' = sets[i].groups
      /\ UNCHANGED <<ticked, reading, wish, writes>>
      /\ excuse' = {} => /\ excuse = {}
                         /\ \A j \in Clicks : j < i => sets[j].phase # "sent"
  BY DEF StoreGroups
<1>4. sets[i] \in Clicked /\ \A j \in Clicks : sets[j].phase \in ClickPhases
  <2>1. \A j \in Clicks : sets[j] \in Clicked
    BY <1>1 DEF Clicks, Latest
  <2>2. QED BY <2>1 DEF Clicked
<1>5. MembershipsShape'
  BY <1>2, <1>3, <1>4 DEF MembershipsInv, MembershipsShape, Clicked
<1>6. ReadingTrue'
  BY <1>2 DEF ReadingTrue
<1>7. ASSUME excuse' = {} PROVE ClicksInOrder' /\ Wished'
  <2>1. /\ excuse = {} /\ \A j \in Clicks : sets[j].phase # "failed"
        /\ \A j, k \in Clicks : j < k /\ ClickTaken(k) => ClickTaken(j)
        /\ wish = sets[Latest].groups /\ Latest # 0
    BY <1>1, <1>3, <1>7 DEF MembershipsInv, ClicksInOrder, Wished
  <2>2. \A j \in Clicks : j < i => ClickTaken(j)
    BY <1>3, <1>4, <1>7, <2>1 DEF ClickTaken, ClickPhases
  <2>3. \A j \in Clicks : ClickTaken(j) => j < i
    <3> SUFFICES ASSUME NEW j \in Clicks, ClickTaken(j), ~(j < i) PROVE FALSE
      OBVIOUS
    <3>1. j # i
      BY <1>3 DEF ClickTaken
    <3>2. ClickTaken(i)
      <4>1. i < j
        BY <1>1, <3>1
      <4>2. QED BY <2>1, <4>1
    <3>3. QED BY <1>3, <3>2 DEF ClickTaken
  <2>4. \A j \in Clicks : ClickTaken(j)' <=> j <= i
    <3> TAKE j \in Clicks
    <3>1. CASE j = i
      BY <1>1, <1>2, <3>1 DEF ClickTaken
    <3>2. CASE j # i
      <4>1. ClickTaken(j)' <=> ClickTaken(j)
        BY <1>2, <3>2 DEF ClickTaken
      <4>2. QED BY <1>1, <2>2, <2>3, <3>2, <4>1
    <3>3. QED BY <3>1, <3>2
  <2>5. \A j \in Clicks' : sets'[j].phase # "failed"
    BY <1>2, <2>1
  <2>6. ASSUME NEW j \in Clicks', NEW k \in Clicks', j < k, ClickTaken(k)' PROVE ClickTaken(j)'
    <3>1. j \in Clicks /\ k \in Clicks /\ j \in Nat /\ k \in Nat BY <1>1, <1>2
    <3>2. k <= i BY <2>4, <2>6, <3>1
    <3>3. j <= i BY <1>1, <2>6, <3>1, <3>2
    <3> QED BY <2>4, <3>1, <3>3
  <2>7. ASSUME NEW j \in Clicks', ClickTaken(j)', j = Latest' \/ sets'[j + 1].phase = "sent"
        PROVE  member' = sets'[j].groups
    <3>1. j \in Clicks /\ j <= i
      BY <1>2, <2>4, <2>7
    <3>2. ASSUME j < i PROVE FALSE
      <4>1. j + 1 \in Clicks /\ j + 1 <= i /\ j # Latest
        BY <1>1, <3>1, <3>2 DEF Clicks
      <4>2. sets'[j + 1].phase = "sent"
        BY <1>2, <2>7, <4>1
      <4>3. sets'[j + 1].phase # "sent"
        <5>1. CASE j + 1 = i
          BY <1>2, <5>1
        <5>2. CASE j + 1 # i
          <6>1. j + 1 < i
            BY <1>1, <3>1, <4>1, <5>2
          <6>2. QED BY <1>2, <1>3, <1>7, <4>1, <5>2, <6>1
        <5>3. QED BY <5>1, <5>2
      <4>4. QED BY <4>2, <4>3
    <3>3. j = i
      BY <1>1, <3>1, <3>2
    <3>4. QED BY <1>2, <1>3, <3>3
  <2>8. Latest \in Clicks
    BY <1>1, <2>1 DEF Clicks
  <2>9. Wished'
    BY <1>2, <1>3, <2>1, <2>8 DEF Wished
  <2>10. QED BY <2>5, <2>6, <2>7, <2>9 DEF ClicksInOrder
<1>8. QED BY <1>5, <1>6, <1>7 DEF MembershipsInv, ClicksInOrder, Wished

\* An answer asks for the device again.
LEMMA ClickSavedStep ==
  ASSUME MembershipsInv, NEW i \in Clicks, GroupsSaved(i)
  PROVE  MembershipsInv'
<1>1. /\ sets \in Seq(Clicked) /\ Latest \in Nat /\ i \in Nat
      /\ \A j \in Clicks : j \in Nat /\ 1 <= j /\ j <= Latest
  BY DEF MembershipsInv, MembershipsShape, Latest, Clicks
<1>2. /\ sets' \in Seq(Clicked) /\ Latest' = Latest /\ Clicks' = Clicks
      /\ sets'[i].phase = "done"
      /\ \A j \in Clicks : sets'[j].groups = sets[j].groups
      /\ \A j \in Clicks : j # i => sets'[j] = sets[j]
  BY <1>1, MovedOn DEF GroupsSaved, ClickPhases
<1>3. /\ sets[i].phase = "stored" /\ reading' = [phase |-> "asked", groups |-> {}]
      /\ UNCHANGED <<member, ticked, wish, excuse, writes>>
  BY DEF GroupsSaved, AskAgain, Reading
<1>4. MembershipsShape'
  BY <1>2, <1>3 DEF MembershipsInv, MembershipsShape
<1>5. ReadingTrue'
  BY <1>3 DEF ReadingTrue
<1>6. \A j \in Clicks : ClickTaken(j)' <=> ClickTaken(j)
  <2> TAKE j \in Clicks
  <2>1. CASE j = i
    BY <1>2, <1>3, <2>1 DEF ClickTaken
  <2>2. CASE j # i
    BY <1>2, <2>2 DEF ClickTaken
  <2>3. QED BY <2>1, <2>2
<1>7. ASSUME excuse' = {} PROVE ClicksInOrder' /\ Wished'
  <2>1. /\ excuse = {} /\ \A j \in Clicks : sets[j].phase # "failed"
        /\ \A j, k \in Clicks : j < k /\ ClickTaken(k) => ClickTaken(j)
        /\ \A j \in Clicks :
             ClickTaken(j) /\ (j = Latest \/ sets[j + 1].phase = "sent") => member = sets[j].groups
    BY <1>3, <1>7 DEF MembershipsInv, ClicksInOrder
  <2>2. \A j \in Clicks' : sets'[j].phase # "failed"
    BY <1>2, <2>1
  <2>3. \A j, k \in Clicks' : j < k /\ ClickTaken(k)' => ClickTaken(j)'
    BY <1>2, <1>6, <2>1
  <2>4. ASSUME NEW j \in Clicks', ClickTaken(j)', j = Latest' \/ sets'[j + 1].phase = "sent"
        PROVE  member' = sets'[j].groups
    <3>1. j \in Clicks /\ ClickTaken(j) /\ (j # Latest => j + 1 \in Clicks)
      BY <1>1, <1>2, <1>6, <2>4 DEF Clicks
    <3>2. j = Latest \/ sets[j + 1].phase = "sent"
      BY <1>2, <2>4, <3>1
    <3>3. QED BY <1>2, <1>3, <2>1, <3>1, <3>2
  <2>5. Latest # 0 /\ Latest \in Clicks
    BY <1>1 DEF Clicks
  <2>6. Wished'
    BY <1>2, <1>3, <1>7, <2>5 DEF MembershipsInv, Wished
  <2>7. QED BY <2>2, <2>3, <2>4, <2>6 DEF ClicksInOrder
<1>8. QED BY <1>4, <1>5, <1>7 DEF MembershipsInv, ClicksInOrder, Wished

\* A failure is an excuse.
LEMMA ClickFailedStep ==
  ASSUME MembershipsInv, NEW i \in Clicks, GroupsFailed(i)
  PROVE  MembershipsInv'
<1>1. sets' \in Seq(Clicked)
  BY MovedOn DEF GroupsFailed, ClickPhases, MembershipsInv, MembershipsShape
<1>2. "failed" \in excuse' /\ UNCHANGED <<member, ticked, reading, wish, writes>>
  BY DEF GroupsFailed
<1>3. QED BY <1>1, <1>2 DEF MembershipsInv, MembershipsShape, ReadingTrue, ClicksInOrder, Wished

\* Asking, reading and showing leave the clicks alone.
LEMMA ReadingStep ==
  ASSUME MembershipsInv, PollGroups \/ ReadGroups \/ ShowGroups
  PROVE  MembershipsInv'
<1>1. UNCHANGED <<member, sets, wish, excuse, writes>>
  BY DEF PollGroups, ReadGroups, ShowGroups
<1>2. Latest' = Latest /\ Clicks' = Clicks /\ \A i : ClickTaken(i)' <=> sets[i].phase \in {"stored", "done"}
  BY <1>1 DEF Latest, Clicks, ClickTaken
<1>3. ClicksInOrder' /\ Wished'
  BY <1>1, <1>2 DEF MembershipsInv, ClicksInOrder, Wished, ClickTaken
<1>4. MembershipsShape' /\ ReadingTrue'
  <2>1. CASE PollGroups
    BY <1>1, <1>2, <2>1 DEF PollGroups, Reading, MembershipsInv, MembershipsShape, ReadingTrue
  <2>2. CASE ReadGroups
    BY <1>1, <1>2, <2>2 DEF ReadGroups, MembershipsInv, MembershipsShape, ReadingTrue
  <2>3. CASE ShowGroups
    BY <1>1, <1>2, <2>3 DEF ShowGroups, NotReading, MembershipsInv, MembershipsShape,
       ReadingTrue
  <2>4. QED BY <2>1, <2>2, <2>3
<1>5. QED BY <1>3, <1>4 DEF MembershipsInv

\* A write of somebody else is an excuse.
LEMMA OtherEditorStep ==
  ASSUME MembershipsInv, OtherGroups
  PROVE  MembershipsInv'
<1>1. "other" \in excuse' /\ member' \subseteq Groups /\ writes' \in Nat
      /\ UNCHANGED <<ticked, reading, sets, wish>>
  BY DEF OtherGroups, Toggled, MembershipsInv, MembershipsShape
<1>2. QED BY <1>1 DEF MembershipsInv, MembershipsShape, ReadingTrue, ClicksInOrder, Wished

\* Every step preserves the invariant.
LEMMA MembershipsStep ==
  ASSUME MembershipsInv, [MembershipsNext]_membershipsVars
  PROVE  MembershipsInv'
<1>1. ASSUME NEW g \in Groups, ToggleGroup(g) PROVE MembershipsInv'
  BY <1>1, ToggleStep
<1>2. ASSUME NEW i \in Clicks, StoreGroups(i) PROVE MembershipsInv'
  BY <1>2, StoreStep
<1>3. ASSUME NEW i \in Clicks, GroupsSaved(i) PROVE MembershipsInv'
  BY <1>3, ClickSavedStep
<1>4. ASSUME NEW i \in Clicks, GroupsFailed(i) PROVE MembershipsInv'
  BY <1>4, ClickFailedStep
<1>5. CASE PollGroups \/ ReadGroups \/ ShowGroups
  BY <1>5, ReadingStep
<1>6. CASE OtherGroups
  BY <1>6, OtherEditorStep
<1>7. CASE UNCHANGED membershipsVars
  <2>1. UNCHANGED <<member, ticked, reading, sets, wish, excuse, writes>>
    BY <1>7 DEF membershipsVars
  <2>2. Latest' = Latest /\ Clicks' = Clicks
    BY <2>1 DEF Latest, Clicks
  <2>3. QED BY <2>1, <2>2 DEF MembershipsInv, MembershipsShape, ReadingTrue, ClicksInOrder,
  Wished, ClickTaken
<1>8. QED BY <1>1, <1>2, <1>3, <1>4, <1>5, <1>6, <1>7 DEF MembershipsNext

\* The invariant holds in every reachable state.
LEMMA MembershipsInductive == MembershipsSpec => []MembershipsInv
<1>1. QED BY MembershipsInitial, MembershipsStep, PTL DEF MembershipsSpec

\* Nothing on its way and nothing failed: the checkboxes show what is stored.
THEOREM TicksTellTheTruth == MembershipsSpec => []TicksAreTrue
<1>1. MembershipsInv => TicksAreTrue
  <2> SUFFICES ASSUME MembershipsInv, AllAnswered, reading = NotReading,
                      excuse \cap {"failed", "other"} = {}
               PROVE  ticked = member
    BY DEF TicksAreTrue
  <2>1. \A i \in Clicks : sets[i].phase # "stored"
    BY DEF AllAnswered
  <2>2. QED BY <2>1 DEF MembershipsInv, ReadingTrue, NotReading
<1>2. QED BY <1>1, MembershipsInductive, PTL

\* Without an excuse the device ends up in the groups that were asked for.
THEOREM ClicksAddUp == MembershipsSpec => []TogglesAddUp
<1>1. MembershipsInv => TogglesAddUp
  <2> SUFFICES ASSUME MembershipsInv, AllAnswered, excuse = {}
               PROVE  member = wish
    BY DEF TogglesAddUp
  <2>1. CASE Latest = 0
    BY <2>1 DEF MembershipsInv, Wished
  <2>2. CASE Latest # 0
    <3>1. Latest \in Clicks
      BY <2>2 DEF MembershipsInv, MembershipsShape, Latest, Clicks
    <3>2. ClickTaken(Latest)
      BY <3>1 DEF AllAnswered, MembershipsInv, ClicksInOrder, ClickTaken
    <3>3. QED BY <2>2, <3>1, <3>2 DEF MembershipsInv, ClicksInOrder, Wished
  <2>3. QED BY <2>1, <2>2
<1>2. QED BY <1>1, MembershipsInductive, PTL

\* The waiting checkbox and the excuses, which the shape leaves out.
MarksTyped ==
  /\ busyGroup \in Groups \cup {NoGroup}
  /\ excuse \subseteq {"gap", "overtaken", "failed", "other"}

\* The types of the checkboxes, the clicks and the cached copy.
THEOREM MembershipsTyped == MembershipsSpec => []MembershipsTypeOK
<1>1. MembershipsInit => MarksTyped
  BY DEF MembershipsInit, MarksTyped
<1>2. MarksTyped /\ [MembershipsNext]_membershipsVars => MarksTyped'
  BY DEF MarksTyped, membershipsVars, MembershipsNext, ToggleGroup, StoreGroups, GroupsSaved,
         GroupsFailed, ReleasedBy, PollGroups, ReadGroups, ShowGroups, OtherGroups
<1>3. MembershipsInv /\ MarksTyped => MembershipsTypeOK
  <2> SUFFICES ASSUME MembershipsInv, MarksTyped PROVE MembershipsTypeOK
    OBVIOUS
  <2>1. \A i \in Clicks : sets[i] \in Clicked
    BY DEF MembershipsInv, MembershipsShape, Clicks, Latest
  <2> QED
    BY <2>1 DEF MembershipsTypeOK, MembershipsInv, MembershipsShape, MarksTyped, Clicked, ClickPhases
<1> QED BY <1>1, <1>2, <1>3, MembershipsInductive, PTL DEF MembershipsSpec

-----------------------------------------------------------------------------
(* Repositories *)

SaveKinds == [phase : {"none", "sent", "refused", "read", "saved"}, draft : SUBSET Draft,
          row : SUBSET RepoRow, stale : BOOLEAN]
SyncKinds == [phase : {"none", "asked", "read", "locked", "failing"}, row : SUBSET RepoRow,
          stale : BOOLEAN]

SourcesShape ==
  /\ repo \in RepoRow
  /\ save \in [Editors -> SaveKinds] /\ sync \in [Workers -> SyncKinds]
  /\ alerts \in Nat /\ outages \in Nat

\* What a transaction has read and nobody wrote since is what is stored.
ReadsFresh ==
  /\ \A c \in Editors : save[c].phase = "read" /\ ~save[c].stale => save[c].row = {repo}
  /\ \A w \in Workers : sync[w].phase = "read" /\ ~sync[w].stale => sync[w].row = {repo}

\* Whoever has the lock has read the row, and nobody else has it.
LockHeld ==
  \A w \in Workers : sync[w].phase \in {"locked", "failing"} =>
                       holder = w /\ sync[w].row = {repo}

SourcesInv == SourcesShape /\ ReadsFresh /\ LockHeld /\ EditsStand /\ AlertedOncePerOutage

-----------------------------------------------------------------------------
\* A write makes every save that has read the row an old one, and nothing else.
LEMMA SavesAge ==
  ASSUME NEW saves \in [Editors -> SaveKinds]
  PROVE  /\ OldSaves(saves) \in [Editors -> SaveKinds]
         /\ \A c \in Editors : OldSaves(saves)[c].phase = "read" => OldSaves(saves)[c].stale
<1>1. ASSUME NEW c \in Editors
      PROVE  /\ OldSaves(saves)[c] \in SaveKinds
             /\ OldSaves(saves)[c].phase = "read" => OldSaves(saves)[c].stale
  <2> DEFINE void == saves[c].stale \/ saves[c].phase = "read"
  <2>1. void \in BOOLEAN
    OBVIOUS
  <2>2. OldSaves(saves)[c] = [saves[c] EXCEPT !.stale = void]
    BY DEF OldSaves
  <2>3. void = TRUE \/ saves[c].phase # "read"
    OBVIOUS
  <2> HIDE DEF void
  <2>4. QED BY <2>1, <2>2, <2>3 DEF SaveKinds
<1>2. QED BY <1>1 DEF OldSaves

\* The same of syncs.
LEMMA SyncsAge ==
  ASSUME NEW syncs \in [Workers -> SyncKinds]
  PROVE  /\ OldSyncs(syncs) \in [Workers -> SyncKinds]
         /\ \A w \in Workers : /\ OldSyncs(syncs)[w].phase = syncs[w].phase
                               /\ OldSyncs(syncs)[w].row = syncs[w].row
                               /\ OldSyncs(syncs)[w].phase = "read" => OldSyncs(syncs)[w].stale
<1>1. ASSUME NEW w \in Workers
      PROVE  /\ OldSyncs(syncs)[w] \in SyncKinds
             /\ OldSyncs(syncs)[w].phase = syncs[w].phase
             /\ OldSyncs(syncs)[w].row = syncs[w].row
             /\ OldSyncs(syncs)[w].phase = "read" => OldSyncs(syncs)[w].stale
  <2> DEFINE void == syncs[w].stale \/ syncs[w].phase = "read"
  <2>1. void \in BOOLEAN
    OBVIOUS
  <2>2. OldSyncs(syncs)[w] = [syncs[w] EXCEPT !.stale = void]
    BY DEF OldSyncs
  <2>3. void = TRUE \/ syncs[w].phase # "read"
    OBVIOUS
  <2> HIDE DEF void
  <2>4. QED BY <2>1, <2>2, <2>3 DEF SyncKinds
<1>2. QED BY <1>1 DEF OldSyncs

\* A repository was just added.
LEMMA SourcesInitial == SourcesInit => SourcesInv
<1> SUFFICES ASSUME SourcesInit PROVE SourcesInv
  OBVIOUS
<1> USE DEF SourcesInit, NoSave, NoSync
<1>1. repo \in RepoRow BY DEF RepoRow, Auths
<1>2. NoSave \in SaveKinds /\ NoSync \in SyncKinds BY DEF SaveKinds, SyncKinds
<1>3. SourcesShape BY <1>1, <1>2 DEF SourcesShape
<1>4. QED BY <1>3 DEF SourcesInv, ReadsFresh, LockHeld, EditsStand, AlertedOncePerOutage

\* A sync ends: the others have read an old row, and the lock is free.
LEMMA SyncEndStep ==
  ASSUME SourcesInv, NEW w \in Workers, NEW row \in RepoRow, EndSync(w, row),
         sync[w].phase \in {"locked", "failing"}, row.place = repo.place,
         accepted' = accepted, alerts' = alerts, outages' \in Nat
  PROVE  /\ SourcesShape' /\ ReadsFresh' /\ LockHeld' /\ EditsStand'
         /\ \A v \in Workers : sync'[v].phase # "failing"
<1> DEFINE ended == [sync EXCEPT ![w] = NoSync]
<1>1. ended \in [Workers -> SyncKinds]
  BY DEF SourcesInv, SourcesShape, NoSync, SyncKinds
<1>2. \A v \in Workers : ended[v].phase \notin {"locked", "failing"}
  BY DEF SourcesInv, SourcesShape, LockHeld, NoSync
<1> HIDE DEF ended
<1>3. sync' = OldSyncs(ended) /\ save' = OldSaves(save) /\ repo' = row
  BY DEF EndSync, ended
<1>4. SourcesShape' BY <1>1, <1>3, SavesAge, SyncsAge DEF SourcesInv, SourcesShape
<1>5. ReadsFresh' BY <1>1, <1>3, SavesAge, SyncsAge DEF SourcesInv, SourcesShape, ReadsFresh
<1>6. \A v \in Workers : sync'[v].phase \notin {"locked", "failing"}
  BY <1>1, <1>2, <1>3, SyncsAge
<1>7. QED BY <1>3, <1>4, <1>5, <1>6 DEF LockHeld, SourcesInv, EditsStand

\* An edit writes what it was given, and the status that it read, which is the status.
LEMMA SaveCommitStep ==
  ASSUME SourcesInv, NEW c \in Editors, CommitEdit(c)
  PROVE  SourcesInv'
<1> USE DEF SourcesInv, SourcesShape
<1>1. PICK draft \in save[c].draft, row \in save[c].row :
        /\ repo' = [row EXCEPT !.place = draft.place, !.auth = draft.auth,
                               !.cred = (draft.auth # "NONE")]
        /\ accepted' = draft.place
  BY DEF CommitEdit
<1>2. row = repo /\ draft \in Draft
  <2>1. save[c] \in SaveKinds /\ save[c].phase = "read" /\ ~save[c].stale
    BY DEF CommitEdit, RowAsRead
  <2>2. save[c].row = {repo} /\ save[c].draft \subseteq Draft
    BY <2>1 DEF ReadsFresh, SaveKinds
  <2>3. QED BY <2>2
<1>3. repo' \in RepoRow /\ repo'.place = accepted' /\ repo'.status = repo.status
  BY <1>1, <1>2 DEF RepoRow, Draft
<1> DEFINE done == [save EXCEPT ![c] = [@ EXCEPT !.phase = "saved", !.row = {repo'}]]
<1>4. done \in [Editors -> SaveKinds]
  BY <1>3 DEF SaveKinds
<1>5. save' = OldSaves(done) /\ sync' = OldSyncs(sync)
  BY DEF CommitEdit
<1> HIDE DEF done
<1>6. SourcesShape'
  BY <1>3, <1>4, <1>5, SavesAge, SyncsAge DEF CommitEdit
<1>7. ReadsFresh'
  BY <1>4, <1>5, SavesAge, SyncsAge DEF ReadsFresh
<1>8. \A w \in Workers : sync'[w].phase \notin {"locked", "failing"}
                         /\ sync[w].phase \notin {"locked", "failing"}
  <2>1. \A w \in Workers : sync[w].phase \notin {"locked", "failing"}
    BY DEF CommitEdit, LockHeld, Unheld, Workers
  <2>2. QED BY <2>1, <1>5, SyncsAge
<1>9. LockHeld' /\ EditsStand'
  BY <1>3, <1>8 DEF LockHeld, EditsStand
<1>10. AlertedOncePerOutage'
  BY <1>8 DEF AlertedOncePerOutage, CommitEdit
<1>11. QED BY <1>6, <1>7, <1>9, <1>10

\* A sync that fails announces it if the row, which it has locked, was not in error.
LEMMA SyncFailureStep ==
  ASSUME SourcesInv, NEW w \in Workers, SyncAlerts(w) \/ SyncFails(w) \/ SyncSucceeds(w)
  PROVE  SourcesInv'
<1> USE DEF SourcesInv
<1>1. /\ sync[w].phase \in {"locked", "failing"} /\ sync[w].row = {repo} /\ repo \in RepoRow
      /\ \A v \in Workers \ {w} : sync[v].phase \notin {"locked", "failing"}
  BY DEF LockHeld, SourcesShape, SyncAlerts, SyncFails, SyncSucceeds
<1>2. CASE SyncAlerts(w)
  <2>1. /\ sync' = [sync EXCEPT ![w].phase = "failing"]
        /\ alerts' = IF repo.status # "ERROR" THEN alerts + 1 ELSE alerts
        /\ sync[w].phase = "locked"
        /\ UNCHANGED <<repo, save, holder, outages, accepted, cutShort>>
    BY <1>1, <1>2 DEF SyncAlerts, IsNews
  <2>2. SourcesShape' BY <2>1 DEF SourcesShape, SyncKinds
  <2>3. ReadsFresh' BY <2>1 DEF ReadsFresh, SourcesShape, SyncKinds
  <2>4. LockHeld' BY <2>1 DEF LockHeld, SourcesShape, SyncKinds
  <2>5. \A v \in Workers : sync[v].phase # "failing"
    BY <1>1, <2>1
  <2>6. sync'[w].phase = "failing"
    BY <2>1 DEF SourcesShape, SyncKinds
  <2>7. AlertedOncePerOutage' BY <2>1, <2>5, <2>6 DEF AlertedOncePerOutage, SourcesShape
  <2>8. QED BY <2>1, <2>2, <2>3, <2>4, <2>7 DEF EditsStand
<1>3. CASE SyncFails(w)
  <2> DEFINE row == [repo EXCEPT !.status = "ERROR"]
  <2>1. row \in RepoRow /\ row.place = repo.place
    BY <1>1 DEF RepoRow
  <2>2. /\ EndSync(w, row) /\ repo' = row /\ sync[w].phase = "failing"
        /\ accepted' = accepted /\ alerts' = alerts /\ cutShort' = cutShort
        /\ outages' = IF repo.status # "ERROR" THEN outages + 1 ELSE outages
    BY <1>1, <1>3 DEF SyncFails, EndSync
  <2>3. outages' \in Nat
    BY <2>2 DEF SourcesShape
  <2> HIDE DEF row
  <2>4. /\ SourcesShape' /\ ReadsFresh' /\ LockHeld' /\ EditsStand'
        /\ \A v \in Workers : sync'[v].phase # "failing"
    BY <1>1, <2>1, <2>2, <2>3, SyncEndStep
  <2>5. AlertedOncePerOutage'
    BY <2>2, <2>4 DEF AlertedOncePerOutage, SourcesShape
  <2>6. QED BY <2>4, <2>5
<1>4. CASE SyncSucceeds(w)
  <2> DEFINE row == [repo EXCEPT !.status = "OK"]
  <2>1. row \in RepoRow /\ row.place = repo.place
    BY <1>1 DEF RepoRow
  <2>2. /\ EndSync(w, row) /\ sync[w].phase = "locked" /\ accepted' = accepted
        /\ alerts' = alerts /\ outages' = outages /\ cutShort' = cutShort
    BY <1>1, <1>4 DEF SyncSucceeds
  <2> HIDE DEF row
  <2>3. /\ SourcesShape' /\ ReadsFresh' /\ LockHeld' /\ EditsStand'
        /\ \A v \in Workers : sync'[v].phase # "failing"
    BY <1>1, <2>1, <2>2, SyncEndStep DEF SourcesShape
  <2>4. \A v \in Workers : sync[v].phase # "failing"
    BY <1>1, <2>2
  <2>5. AlertedOncePerOutage'
    BY <2>2, <2>3, <2>4 DEF AlertedOncePerOutage, SourcesShape
  <2>6. QED BY <2>3, <2>5
<1>5. QED BY <1>2, <1>3, <1>4

\* The page's dialog and its request, until it commits.
LEMMA SourcePageStep ==
  ASSUME SourcesInv, NEW c \in Editors,
         \/ OpenEdit(c) \/ SubmitEdit(c) \/ CancelEdit(c) \/ ReadForUpdate(c)
         \/ EditFails(c) \/ EditSaved(c)
  PROVE  SourcesInv'
<1> USE DEF SourcesInv, SourcesShape
<1>1. /\ UNCHANGED <<repo, holder, alerts, outages, accepted, cutShort>>
      /\ sync' = sync \/ (/\ sync["page"] = NoSync
                          /\ sync' = [sync EXCEPT !["page"] = [NoSync EXCEPT !.phase = "asked"]])
  BY DEF OpenEdit, SubmitEdit, CancelEdit, ReadForUpdate, EditFails, EditSaved
<1>2. /\ save' \in [Editors -> SaveKinds]
      /\ \A d \in Editors : save'[d].phase = "read" /\ ~save'[d].stale => save'[d].row = {repo}
  <2>1. CASE UNCHANGED save
    BY <2>1 DEF ReadsFresh
  <2>2. CASE EditFails(c) \/ EditSaved(c)
    <3>1. save' = [save EXCEPT ![c] = NoSave]
      BY <2>2 DEF EditFails, EditSaved
    <3>2. NoSave \in SaveKinds /\ NoSave.phase = "none"
      BY DEF NoSave, SaveKinds
    <3>3. QED BY <3>1, <3>2 DEF ReadsFresh
  <2>3. CASE SubmitEdit(c)
    <3>1. PICK draft \in Draft :
            save' = [save EXCEPT ![c] = [NoSave EXCEPT !.phase = "sent", !.draft = {draft}]]
      BY <2>3 DEF SubmitEdit
    <3>2. [NoSave EXCEPT !.phase = "sent", !.draft = {draft}] \in SaveKinds
      BY DEF NoSave, SaveKinds
    <3>3. QED BY <3>1, <3>2 DEF ReadsFresh, NoSave
  <2>4. CASE ReadForUpdate(c)
    <3>1. PICK next \in {[save[c] EXCEPT !.phase = "refused"],
                         [save[c] EXCEPT !.phase = "read", !.row = {repo}]} :
            save' = [save EXCEPT ![c] = next]
      BY <2>4 DEF ReadForUpdate
    <3>2. next \in SaveKinds /\ (next.phase = "read" => next.row = {repo})
      <4>1. CASE next = [save[c] EXCEPT !.phase = "refused"]
        BY <4>1 DEF SaveKinds
      <4>2. CASE next = [save[c] EXCEPT !.phase = "read", !.row = {repo}]
        BY <4>2 DEF SaveKinds
      <4>3. QED BY <3>1, <4>1, <4>2
    <3>3. QED BY <3>1, <3>2 DEF ReadsFresh
  <2>5. QED BY <2>1, <2>2, <2>3, <2>4 DEF OpenEdit, CancelEdit
<1>3. sync' \in [Workers -> SyncKinds]
      /\ \A w \in Workers : sync'[w] = sync[w] \/ (sync[w] = NoSync /\ sync'[w].phase = "asked")
  <2>1. "page" \in Workers /\ [NoSync EXCEPT !.phase = "asked"] \in SyncKinds
    BY DEF Workers, NoSync, SyncKinds
  <2>2. QED BY <1>1, <2>1 DEF NoSync
<1>4. SourcesShape' BY <1>1, <1>2, <1>3
<1>5. ReadsFresh' BY <1>1, <1>2, <1>3 DEF ReadsFresh
<1>6. LockHeld' /\ EditsStand' BY <1>1, <1>3 DEF LockHeld, EditsStand
<1>7. \A w \in Workers : sync'[w].phase = "failing" <=> sync[w].phase = "failing"
  BY <1>3 DEF NoSync
<1>8. AlertedOncePerOutage' BY <1>1, <1>7 DEF AlertedOncePerOutage
<1>9. QED BY <1>4, <1>5, <1>6, <1>8

\* A sync before it fails or succeeds.
LEMMA SyncStep ==
  ASSUME SourcesInv, NEW w \in Workers,
         AskSync(w) \/ ReadForSync(w) \/ LockForSync(w) \/ SyncRefused(w)
  PROVE  SourcesInv'
<1> USE DEF SourcesInv, SourcesShape
<1>1. UNCHANGED <<repo, save, alerts, outages, accepted, cutShort>>
  BY DEF AskSync, ReadForSync, LockForSync, SyncRefused
<1>2. /\ sync' \in [Workers -> SyncKinds]
      /\ \A v \in Workers \ {w} : sync'[v] = sync[v]
      /\ sync[w].phase # "failing" /\ sync'[w].phase # "failing"
      /\ sync'[w].phase = "read" => sync'[w].row = {repo}
      /\ sync'[w].phase = "locked" => sync'[w].row = {repo} /\ holder' = w
      /\ holder' = holder \/ (holder = Unheld /\ holder' = w)
  <2>1. CASE AskSync(w) \/ SyncRefused(w)
    <3>1. PICK next \in {NoSync, [NoSync EXCEPT !.phase = "asked"]} :
            sync' = [sync EXCEPT ![w] = next] /\ holder' = holder
      BY <2>1 DEF AskSync, SyncRefused
    <3>2. next \in SyncKinds /\ next.phase \in {"none", "asked"}
      <4>1. CASE next = NoSync
        BY <4>1 DEF NoSync, SyncKinds
      <4>2. CASE next = [NoSync EXCEPT !.phase = "asked"]
        BY <4>2 DEF NoSync, SyncKinds
      <4>3. QED BY <3>1, <4>1, <4>2
    <3>3. sync[w].phase # "failing"
      BY <2>1 DEF AskSync, SyncRefused, NoSync
    <3>4. QED BY <3>1, <3>2, <3>3
  <2>2. CASE ReadForSync(w)
    BY <2>2 DEF ReadForSync, SyncKinds
  <2>3. CASE LockForSync(w)
    BY <2>3 DEF LockForSync, RowAsRead, SyncKinds, ReadsFresh
  <2>4. QED BY <2>1, <2>2, <2>3
<1>3. ReadsFresh' BY <1>1, <1>2 DEF ReadsFresh
<1>4. LockHeld'
  BY <1>1, <1>2 DEF LockHeld, Unheld, Workers
<1>5. AlertedOncePerOutage'
  <2>1. (\E v \in Workers : sync'[v].phase = "failing") <=>
        (\E v \in Workers : sync[v].phase = "failing")
    BY <1>2
  <2>2. QED BY <1>1, <2>1 DEF AlertedOncePerOutage
<1>6. QED BY <1>1, <1>2, <1>3, <1>4, <1>5 DEF EditsStand

\* A restart forgets the transactions; one that cut a failure short is on record.
LEMMA SourceRestartStep ==
  ASSUME SourcesInv, ServerRestarts
  PROVE  SourcesInv'
<1> USE DEF SourcesInv, SourcesShape
<1>1. /\ UNCHANGED <<repo, alerts, outages, accepted>>
      /\ sync' = [w \in Workers |-> NoSync] /\ NoSync.phase = "none"
  BY DEF ServerRestarts, NoSync
<1>2. sync' \in [Workers -> SyncKinds]
  BY <1>1 DEF NoSync, SyncKinds
<1>3. /\ save' \in [Editors -> SaveKinds]
      /\ \A c \in Editors : save'[c].phase # "read"
  BY DEF ServerRestarts, NoSave, SaveKinds
<1>4. ReadsFresh' /\ LockHeld' /\ EditsStand'
  BY <1>1, <1>3 DEF ReadsFresh, LockHeld, EditsStand
<1>5. AlertedOncePerOutage'
  <2>1. CASE cutShort \/ \E w \in Workers : sync[w].phase = "failing"
    <3>1. cutShort'
      BY <2>1, Zenon DEF ServerRestarts
    <3>2. QED BY <3>1 DEF AlertedOncePerOutage
  <2>2. CASE ~cutShort /\ ~(\E w \in Workers : sync[w].phase = "failing")
    BY <1>1, <2>2 DEF AlertedOncePerOutage
  <2>3. QED BY <2>1, <2>2
<1>6. QED BY <1>1, <1>2, <1>3, <1>4, <1>5

\* The invariant is inductive.
LEMMA SourcesStep == SourcesInv /\ [SourcesNext]_sourcesVars => SourcesInv'
<1> SUFFICES ASSUME SourcesInv, [SourcesNext]_sourcesVars PROVE SourcesInv'
  OBVIOUS
<1>1. CASE UNCHANGED sourcesVars
  BY <1>1 DEF sourcesVars, SourcesInv, SourcesShape, ReadsFresh, LockHeld, EditsStand,
     AlertedOncePerOutage
<1>2. QED
  BY <1>1, SourcePageStep, SaveCommitStep, SyncStep, SyncFailureStep, SourceRestartStep
     DEF SourcesNext

\* An edit that was accepted is never undone by a sync or by another edit (EditsStand),
\* however many of them read the row before.
THEOREM EditsAreKept == SourcesSpec => []EditsStand
<1>1. SourcesInv => EditsStand
  BY DEF SourcesInv
<1>2. QED BY <1>1, SourcesInitial, SourcesStep, PTL DEF SourcesSpec

\* A sync alerts once per transition to an error (AlertedOncePerOutage), unless the
\* server restarted between the alert and its commit.
THEOREM OneAlertPerOutage == SourcesSpec => []AlertedOncePerOutage
<1>1. SourcesInv => AlertedOncePerOutage
  BY DEF SourcesInv
<1>2. QED BY <1>1, SourcesInitial, SourcesStep, PTL DEF SourcesSpec

\* The open dialogs and the lock, which the shape leaves out.
DialogsTyped == editing \in [Editors -> SUBSET RepoRow] /\ holder \in Workers \cup {Unheld}

\* The types of the row, the dialogs and the transactions of a repository.
THEOREM SourcesTyped == SourcesSpec => []SourcesTypeOK
<1>1. SourcesInit => DialogsTyped
  BY DEF SourcesInit, DialogsTyped
<1>2. SourcesInv /\ DialogsTyped /\ [SourcesNext]_sourcesVars => DialogsTyped'
  <2> SUFFICES ASSUME SourcesInv, DialogsTyped, [SourcesNext]_sourcesVars PROVE DialogsTyped'
    OBVIOUS
  <2>1. repo \in RepoRow
    BY DEF SourcesInv, SourcesShape
  <2>2. \/ editing' = editing
        \/ \E c \in Editors, rows \in {{}, {repo}} : editing' = [editing EXCEPT ![c] = rows]
    BY DEF sourcesVars, SourcesNext, OpenEdit, SubmitEdit, CancelEdit, ReadForUpdate, CommitEdit,
           EditFails, EditSaved, AskSync, ReadForSync, LockForSync, SyncRefused, SyncSucceeds,
           SyncAlerts, SyncFails, ServerRestarts
  <2>3. holder' = holder \/ holder' \in Workers \cup {Unheld}
    BY DEF sourcesVars, SourcesNext, OpenEdit, SubmitEdit, CancelEdit, ReadForUpdate, CommitEdit,
           EditFails, EditSaved, AskSync, ReadForSync, LockForSync, SyncRefused, SyncSucceeds,
           SyncAlerts, SyncFails, ServerRestarts, EndSync
  <2> QED BY <2>1, <2>2, <2>3 DEF DialogsTyped
<1>3. SourcesInv /\ DialogsTyped => SourcesTypeOK
  BY DEF SourcesTypeOK, SourcesInv, SourcesShape, DialogsTyped, SaveKinds, SyncKinds
<1> QED BY <1>1, <1>2, <1>3, SourcesInitial, SourcesStep, PTL DEF SourcesSpec

-----------------------------------------------------------------------------
(* Rollouts of a group *)

JobRow == [host : Hosts, batch : {0} \cup DOMAIN batches,
           status : Terminal \cup {"PENDING", "RUNNING"}]
BatchRow == [stage : {"none", "CANARY", "FULL"}, first : SUBSET Hosts]
Continue == [id : {1, 2}, batch : DOMAIN batches, rest : SUBSET Hosts, stale : BOOLEAN]

RolloutsShape ==
  /\ members \subseteq Hosts
  /\ batches \in Seq(BatchRow) /\ jobs \in Seq(JobRow)
  /\ continues \subseteq Continue
  /\ batchPage \in {0} \cup DOMAIN batches

\* The device that was chosen first has succeeded, by a job that batch b keeps.
FirstSucceeded(b) ==
  \E j \in JobsOf(b) : jobs[j].host \in batches[b].first /\ jobs[j].status = "SUCCEEDED"

\* As long as a batch waits for its canary its only jobs are those of the canary; who
\* continues it has seen their success.
CanaryInv ==
  /\ \A b \in DOMAIN batches : batches[b].stage = "CANARY" =>
       \A j \in JobsOf(b) : jobs[j].host \in batches[b].first
  /\ \A c \in continues : FirstSucceeded(c.batch)

\* A device has one pending job, and who continues a batch that nobody else has written
\* queues jobs for devices that the batch has none of.
OnceInv ==
  /\ \A h \in Hosts : \A i, j \in Pending(h) : i = j
  /\ \A c \in continues : ~c.stale => \A j \in JobsOf(c.batch) : jobs[j].host \notin c.rest

RolloutsInv == RolloutsShape /\ CanaryInv /\ OnceInv /\ CanaryGoesFirst /\ OncePerDevice

LEMMA RolloutsInitial == RolloutsInit => RolloutsInv
<1> SUFFICES ASSUME RolloutsInit PROVE RolloutsInv
  OBVIOUS
<1>1. DOMAIN jobs = {} /\ DOMAIN batches = {} /\ continues = {}
  BY DEF RolloutsInit
<1>2. RolloutsShape BY <1>1, EmptySeq DEF RolloutsInit, RolloutsShape
<1>3. CanaryInv /\ CanaryGoesFirst BY <1>1 DEF CanaryInv, CanaryGoesFirst
<1>4. OnceInv /\ OncePerDevice BY <1>1 DEF OnceInv, OncePerDevice, Pending
<1> QED BY <1>2, <1>3, <1>4 DEF RolloutsInv

\* A finite set can be listed without repetition.
LEMMA ListedOnce ==
  ASSUME NEW S, IsFiniteSet(S), NEW T, S \subseteq T
  PROVE  \E g \in [1..Cardinality(S) -> T] : {g[i] : i \in DOMAIN g} = S
<1> DEFINE n == Cardinality(S)
<1>1. n \in Nat /\ ExistsBijection(1..n, S)
  BY FS_CardinalityType
<1>2. PICK g \in Bijection(1..n, S) : TRUE
  BY <1>1 DEF ExistsBijection
<1>3. g \in [1..n -> S] /\ \A t \in S : \E i \in 1..n : g[i] = t
  BY <1>2 DEF Bijection, Injection, Surjection
<1> HIDE DEF n
<1>4. g \in [1..n -> T] BY <1>3
<1>5. {g[i] : i \in DOMAIN g} = S BY <1>3
<1> QED BY <1>4, <1>5 DEF n

\* A list as long as the set that it lists repeats nothing.
LEMMA ListsOnce ==
  ASSUME NEW S, IsFiniteSet(S), NEW T, NEW f \in [1..Cardinality(S) -> T],
         {f[i] : i \in DOMAIN f} = S
  PROVE  \A i, j \in 1..Cardinality(S) : f[i] = f[j] => i = j
<1> DEFINE n == Cardinality(S)
<1>1. n \in Nat BY FS_CardinalityType
<1>2. IsFiniteSet(1..n) /\ Cardinality(1..n) = n
  BY <1>1, FS_Interval
<1> HIDE DEF n
<1>3. f \in [1..n -> T] BY DEF n
<1>4. f \in Surjection(1..n, S) BY <1>3 DEF Surjection
<1>5. Cardinality(1..n) = Cardinality(S) BY <1>2 DEF n
<1>6. f \in Injection(1..n, S)
  BY <1>2, <1>4, <1>5, FS_SurjSameCardinalityImpliesInj
<1> QED BY <1>6 DEF Injection, IsInjective, n

\* after is what enqueueApply leaves of the jobs: a pending job of the devices is adopted,
\* one that has none is given one.
Queues(hosts, b, after) ==
  /\ after \in Seq([host : Hosts, batch : {0, b} \cup DOMAIN batches,
                    status : Terminal \cup {"PENDING", "RUNNING"}])
  /\ DOMAIN jobs \subseteq DOMAIN after
  /\ \A j \in DOMAIN jobs :
       /\ after[j].host = jobs[j].host /\ after[j].status = jobs[j].status
       /\ \/ after[j].batch = jobs[j].batch
          \/ after[j].batch = b /\ b # 0 /\ jobs[j].status = "PENDING" /\ jobs[j].host \in hosts
  /\ \A j \in DOMAIN after \ DOMAIN jobs :
       /\ after[j].host \in hosts /\ Pending(after[j].host) = {}
       /\ after[j].batch = b /\ after[j].status = "PENDING"
  /\ \A i, j \in DOMAIN after \ DOMAIN jobs : after[i].host = after[j].host => i = j

LEMMA EnqueuedJobs ==
  ASSUME RolloutsShape, NEW hosts \in SUBSET Hosts, NEW b \in Nat
  PROVE  Queues(hosts, b, Enqueued(hosts, b))
<1> DEFINE Row == [host : Hosts, batch : {0, b} \cup DOMAIN batches,
                   status : Terminal \cup {"PENDING", "RUNNING"}]
           S == {h \in hosts : Pending(h) = {}}
           n == Cardinality(S)
           orders == {f \in [1..n -> hosts] : {f[i] : i \in DOMAIN f} = S}
           order == CHOOSE f \in orders : TRUE
           kept == [j \in DOMAIN jobs |->
                 IF b # 0 /\ \E h \in hosts : j \in Pending(h)
                 THEN [jobs[j] EXCEPT !.batch = b] ELSE jobs[j]]
           added == [i \in DOMAIN order |-> [host |-> order[i], batch |-> b, status |-> "PENDING"]]
           after == Enqueued(hosts, b)
<1>1. after = kept \o added BY DEF Enqueued
<1> HIDE DEF after
<1>2. IsFiniteSet(S) /\ n \in Nat /\ S \subseteq hosts
  <2>1. IsFiniteSet(S) BY RolloutsAssumption, FS_Subset
  <2> QED BY <2>1, FS_CardinalityType
<1>3. /\ order \in [1..n -> hosts] /\ {order[i] : i \in DOMAIN order} = S
      /\ \A i, j \in 1..n : order[i] = order[j] => i = j
  <2> HIDE DEF S
  <2>1. PICK g \in [1..n -> hosts] : {g[i] : i \in DOMAIN g} = S
    BY <1>2, ListedOnce
  <2>2. order \in orders BY <2>1
  <2>3. order \in [1..n -> hosts] /\ {order[i] : i \in DOMAIN order} = S BY <2>2
  <2>4. \A i, j \in 1..n : order[i] = order[j] => i = j
    <3> HIDE DEF order, orders
    <3> QED BY <1>2, <2>3, ListsOnce
  <2> QED BY <2>3, <2>4
<1>4. DOMAIN jobs = 1..Len(jobs) /\ Len(jobs) \in Nat /\ \A j \in DOMAIN jobs : jobs[j] \in JobRow
  BY DEF RolloutsShape
<1>5. \A j \in DOMAIN jobs :
         /\ kept[j] \in Row /\ kept[j].host = jobs[j].host /\ kept[j].status = jobs[j].status
         /\ \/ kept[j].batch = jobs[j].batch
            \/ kept[j].batch = b /\ b # 0 /\ jobs[j].status = "PENDING" /\ jobs[j].host \in hosts
  BY <1>4 DEF Pending, JobRow
<1>6. kept \in Seq(Row) /\ Len(kept) = Len(jobs)
  <2>1. kept \in [1..Len(jobs) -> Row] BY <1>4, <1>5
  <2> QED BY <1>4, <2>1
<1>7. \A h \in S : h \in hosts /\ h \in Hosts /\ Pending(h) = {}
  OBVIOUS
<1> HIDE DEF order, orders, kept, n, S
<1>8. DOMAIN order = 1..n /\ \A i \in 1..n : order[i] \in S
  BY <1>3
<1>9. \A i \in 1..n : added[i] = [host |-> order[i], batch |-> b, status |-> "PENDING"]
                      /\ added[i] \in Row
  BY <1>7, <1>8 DEF Terminal
<1>9a. ASSUME NEW i \in 1..n
       PROVE  added[i].host = order[i] /\ added[i].batch = b /\ added[i].status = "PENDING"
  <2>1. added[i] = [host |-> order[i], batch |-> b, status |-> "PENDING"] BY <1>9
  <2> HIDE DEF Row, added
  <2> QED BY <2>1
<1>10. added \in Seq(Row) /\ Len(added) = n
  <2>1. added \in [1..n -> Row] BY <1>8, <1>9
  <2> HIDE DEF added, Row
  <2> QED BY <1>2, <2>1
<1> HIDE DEF added
<1>11. /\ after \in Seq(Row) /\ Len(after) = Len(jobs) + n
       /\ \A i \in 1..(Len(jobs) + n) : after[i] = IF i <= Len(jobs) THEN kept[i]
                                                   ELSE added[i - Len(jobs)]
  <2> HIDE DEF Row
  <2>1. /\ kept \o added \in Seq(Row)
        /\ Len(kept \o added) = Len(kept) + Len(added)
        /\ \A i \in 1..(Len(kept) + Len(added)) :
             (kept \o added)[i] = IF i <= Len(kept) THEN kept[i] ELSE added[i - Len(kept)]
    BY <1>6, <1>10, ConcatProperties
  <2> QED BY <1>1, <1>6, <1>10, <2>1
<1>12. DOMAIN after = 1..(Len(jobs) + n)
  <2> HIDE DEF Row
  <2> QED BY <1>11, LenProperties
<1>13. \A j \in DOMAIN jobs : j \in DOMAIN after /\ after[j] = kept[j]
  BY <1>2, <1>4, <1>11, <1>12
<1>14. \A j \in DOMAIN after \ DOMAIN jobs :
         j - Len(jobs) \in 1..n /\ after[j] = added[j - Len(jobs)]
  BY <1>2, <1>4, <1>11, <1>12
<1>15. \A j \in DOMAIN after \ DOMAIN jobs :
         /\ after[j].host = order[j - Len(jobs)] /\ order[j - Len(jobs)] \in S
         /\ after[j].batch = b /\ after[j].status = "PENDING"
  BY <1>8, <1>14, <1>9a
<1>16. ASSUME NEW i \in DOMAIN after \ DOMAIN jobs, NEW j \in DOMAIN after \ DOMAIN jobs,
              after[i].host = after[j].host
       PROVE  i = j
  <2>1. i - Len(jobs) = j - Len(jobs) BY <1>3, <1>14, <1>15, <1>16
  <2>2. i \in Nat /\ j \in Nat BY <1>2, <1>4, <1>12
  <2> QED BY <1>4, <2>1, <2>2
<1>17. \A j \in DOMAIN after \ DOMAIN jobs :
         /\ after[j].host \in hosts /\ Pending(after[j].host) = {}
         /\ after[j].batch = b /\ after[j].status = "PENDING"
  BY <1>7, <1>15
<1>18. \A j \in DOMAIN jobs :
              /\ after[j].host = jobs[j].host /\ after[j].status = jobs[j].status
              /\ \/ after[j].batch = jobs[j].batch
                 \/ after[j].batch = b /\ b # 0 /\ jobs[j].status = "PENDING"
                    /\ jobs[j].host \in hosts
  BY <1>5, <1>13
<1> QED BY <1>11, <1>13, <1>16, <1>17, <1>18 DEF Queues, after


Numbering ==
  DOMAIN jobs = 1..Len(jobs) /\ DOMAIN batches = 1..Len(batches)
  /\ Len(batches) \in Nat /\ 0 \notin DOMAIN batches

LEMMA NumberingOK == ASSUME RolloutsShape PROVE Numbering
  BY DEF RolloutsShape, Numbering

\* No device gets a second job of the batch, nor a second pending job, and what is over
\* stays where it is.
LEMMA QueuedOnce ==
  ASSUME RolloutsInv, NEW hosts \in SUBSET Hosts, NEW b \in Nat, jobs' = Enqueued(hosts, b),
         b # 0 => \A j \in JobsOf(b) : jobs[j].host \notin hosts
  PROVE  /\ jobs' \in Seq([host : Hosts, batch : {0, b} \cup DOMAIN batches,
                           status : Terminal \cup {"PENDING", "RUNNING"}])
         /\ \A h \in Hosts : \A i, j \in Pending(h)' : i = j
         /\ OncePerDevice'
         /\ \A d \in DOMAIN batches : d # b =>
              \A j \in JobsOf(d)' : j \in JobsOf(d) /\ jobs'[j].host = jobs[j].host
         /\ \A j \in JobsOf(b)' : jobs'[j].host \in hosts \/ j \in JobsOf(b)
         /\ \A j \in DOMAIN jobs : jobs[j].status = "SUCCEEDED" =>
              j \in DOMAIN jobs' /\ jobs'[j].host = jobs[j].host
              /\ jobs'[j].status = "SUCCEEDED" /\ jobs'[j].batch = jobs[j].batch
<1> USE DEF RolloutsInv
<1> DEFINE new == DOMAIN jobs' \ DOMAIN jobs
<1>1. /\ jobs' \in Seq([host : Hosts, batch : {0, b} \cup DOMAIN batches,
                           status : Terminal \cup {"PENDING", "RUNNING"}])
      /\ DOMAIN jobs \subseteq DOMAIN jobs'
      /\ \A j \in DOMAIN jobs :
           /\ jobs'[j].host = jobs[j].host /\ jobs'[j].status = jobs[j].status
           /\ \/ jobs'[j].batch = jobs[j].batch
              \/ jobs'[j].batch = b /\ b # 0 /\ jobs[j].status = "PENDING"
                 /\ jobs[j].host \in hosts
      /\ \A j \in new :
           /\ jobs'[j].host \in hosts /\ Pending(jobs'[j].host) = {}
           /\ jobs'[j].batch = b /\ jobs'[j].status = "PENDING"
      /\ \A i, j \in new : jobs'[i].host = jobs'[j].host => i = j
  <2>1. Queues(hosts, b, jobs') BY EnqueuedJobs
  <2> QED BY <2>1 DEF Queues
<1> HIDE DEF new
<1>2. \A j \in DOMAIN jobs' : j \in DOMAIN jobs \/ j \in new
  BY DEF new
<1>3. \A j \in DOMAIN jobs : jobs[j].host \in Hosts
  <2>1. \A j \in DOMAIN jobs : jobs[j] \in JobRow BY DEF RolloutsShape
  <2> QED BY <2>1 DEF JobRow
<1>4. ASSUME NEW h \in Hosts, NEW i \in Pending(h)', NEW j \in Pending(h)'
      PROVE  i = j
  <2>1. /\ i \in DOMAIN jobs' /\ j \in DOMAIN jobs' /\ jobs'[i].host = h /\ jobs'[j].host = h
        /\ jobs'[i].status = "PENDING" /\ jobs'[j].status = "PENDING"
    BY DEF Pending
  <2>2. \A k \in {i, j} : k \in DOMAIN jobs => k \in Pending(h)
    BY <1>1, <2>1 DEF Pending
  <2>3. \A k \in {i, j} : k \in new => Pending(h) = {}
    BY <1>1, <2>1
  <2>4. CASE i \in new /\ j \in new BY <1>1, <2>1, <2>4
  <2>5. CASE i \in DOMAIN jobs /\ j \in DOMAIN jobs
    BY <2>2, <2>5 DEF OnceInv
  <2> QED BY <1>2, <2>1, <2>2, <2>3, <2>4, <2>5
<1>5. ASSUME NEW i \in DOMAIN jobs', NEW j \in DOMAIN jobs', i # j,
             jobs'[i].batch = jobs'[j].batch, jobs'[i].batch # 0,
             jobs'[i].host = jobs'[j].host
      PROVE  FALSE
  <2>1. ASSUME NEW k \in {i, j} PROVE
          \/ k \in new /\ jobs'[k].batch = b /\ Pending(jobs'[k].host) = {} /\ jobs'[k].host \in hosts
          \/ k \in DOMAIN jobs /\ jobs'[k].batch = b /\ k \in Pending(jobs'[k].host) /\ jobs'[k].host \in hosts
          \/ k \in DOMAIN jobs /\ jobs'[k].batch = jobs[k].batch /\ jobs'[k].host = jobs[k].host
    BY <1>1, <1>2 DEF Pending
  <2>2. CASE i \in DOMAIN jobs /\ jobs'[i].batch = jobs[i].batch /\ jobs'[i].host = jobs[i].host
             /\ j \in DOMAIN jobs /\ jobs'[j].batch = jobs[j].batch /\ jobs'[j].host = jobs[j].host
    BY <1>5, <2>2 DEF OncePerDevice
  <2>3. ASSUME NEW k \in {i, j}, k \in DOMAIN jobs, jobs'[k].batch = jobs[k].batch,
               jobs'[k].host = jobs[k].host, jobs'[k].batch = b, jobs'[k].host \in hosts
        PROVE  FALSE
    BY <1>5, <2>3 DEF JobsOf
  <2>4. jobs'[i].host \in Hosts BY <1>1, <1>2, <1>3
  <2>5. CASE i \in Pending(jobs'[i].host) /\ j \in Pending(jobs'[i].host)
    BY <1>5, <2>4, <2>5 DEF OnceInv
  <2>6. CASE i \in new /\ j \in new BY <1>1, <1>5, <2>6
  <2> QED BY <1>5, <2>1, <2>2, <2>3, <2>5, <2>6
<1>6. OncePerDevice' BY <1>5 DEF OncePerDevice
<1>7. \A d \in DOMAIN batches : d # b =>
              \A j \in JobsOf(d)' : j \in JobsOf(d) /\ jobs'[j].host = jobs[j].host
  BY <1>1, <1>2 DEF JobsOf
<1>8. \A j \in JobsOf(b)' : jobs'[j].host \in hosts \/ j \in JobsOf(b)
  BY <1>1, <1>2 DEF JobsOf
<1> QED BY <1>1, <1>4, <1>6, <1>7, <1>8

\* The requests to continue are those there were, some gone or older.
Older ==
  \A c \in continues' : \E e \in continues :
    /\ c.batch = e.batch /\ c.rest = e.rest /\ c.id = e.id /\ c.stale \in BOOLEAN
    /\ e.stale => c.stale

\* Jobs are queued for batch b, which is new or goes on to the rest.
LEMMA QueueStep ==
  ASSUME RolloutsInv, NEW hosts \in SUBSET Hosts, NEW b \in Nat, jobs' = Enqueued(hosts, b),
         b # 0 => \A j \in JobsOf(b) : jobs[j].host \notin hosts,
         batches' \in Seq(BatchRow), DOMAIN batches \subseteq DOMAIN batches',
         DOMAIN batches' = DOMAIN batches \cup ({b} \ {0}),
         \A d \in DOMAIN batches : batches'[d].first = batches[d].first,
         \A d \in DOMAIN batches : d # b => batches'[d] = batches[d],
         b # 0 /\ batches'[b].stage = "CANARY" => JobsOf(b) = {} /\ hosts \subseteq batches'[b].first,
         b # 0 /\ batches'[b].stage = "FULL" => b \in DOMAIN batches /\ FirstSucceeded(b),
         Older, continues' \subseteq Continue', \A c \in continues' : c.batch = b => c.stale,
         members' \subseteq Hosts, batchPage' \in {0} \cup DOMAIN batches'
  PROVE  RolloutsInv'
<1> USE DEF RolloutsInv
<1>1. /\ jobs' \in Seq([host : Hosts, batch : {0, b} \cup DOMAIN batches,
                           status : Terminal \cup {"PENDING", "RUNNING"}])
      /\ \A h \in Hosts : \A i, j \in Pending(h)' : i = j
      /\ OncePerDevice'
      /\ \A d \in DOMAIN batches : d # b =>
           \A j \in JobsOf(d)' : j \in JobsOf(d) /\ jobs'[j].host = jobs[j].host
      /\ \A j \in JobsOf(b)' : jobs'[j].host \in hosts \/ j \in JobsOf(b)
      /\ \A j \in DOMAIN jobs : jobs[j].status = "SUCCEEDED" =>
           j \in DOMAIN jobs' /\ jobs'[j].host = jobs[j].host
           /\ jobs'[j].status = "SUCCEEDED" /\ jobs'[j].batch = jobs[j].batch
  BY QueuedOnce
<1>2. jobs' \in Seq(JobRow)'
  <2>1. {0, b} \cup DOMAIN batches = {0} \cup DOMAIN batches' OBVIOUS
  <2> QED BY <1>1, <2>1 DEF JobRow
<1>3. RolloutsShape' BY <1>2 DEF RolloutsShape, BatchRow
<1>4. ASSUME NEW d \in DOMAIN batches, FirstSucceeded(d) PROVE FirstSucceeded(d)'
  BY <1>1, <1>4 DEF FirstSucceeded, JobsOf
<1>5. ASSUME NEW d \in DOMAIN batches', batches'[d].stage = "CANARY", NEW j \in JobsOf(d)'
      PROVE  jobs'[j].host \in batches'[d].first
  <2>1. CASE d = b BY <1>1, <1>5, <2>1, NumberingOK DEF Numbering
  <2>2. CASE d # b BY <1>1, <1>5, <2>2 DEF CanaryInv
  <2> QED BY <2>1, <2>2
<1>6. \A c \in continues' : c.batch \in DOMAIN batches /\ FirstSucceeded(c.batch)'
  <2> SUFFICES ASSUME NEW c \in continues' PROVE c.batch \in DOMAIN batches /\ FirstSucceeded(c.batch)'
    OBVIOUS
  <2>1. PICK e \in continues : c.batch = e.batch BY DEF Older
  <2>2. e \in Continue /\ FirstSucceeded(e.batch) BY DEF RolloutsShape, CanaryInv
  <2> QED BY <1>4, <2>1, <2>2 DEF Continue
<1>7. CanaryInv' BY <1>5, <1>6 DEF CanaryInv
<1>8. ASSUME NEW c \in continues', ~c.stale, NEW j \in JobsOf(c.batch)'
      PROVE  jobs'[j].host \notin c.rest
  <2>1. PICK e \in continues : c.batch = e.batch /\ c.rest = e.rest /\ (e.stale => c.stale)
    BY DEF Older
  <2>2. c.batch # b /\ c.batch \in DOMAIN batches BY <1>6, <1>8
  <2>3. j \in JobsOf(e.batch) /\ jobs'[j].host = jobs[j].host BY <1>1, <1>8, <2>1, <2>2
  <2> QED BY <1>8, <2>1, <2>3 DEF OnceInv
<1>9. OnceInv' BY <1>1, <1>8 DEF OnceInv
<1>10. ASSUME NEW d \in DOMAIN batches', batches'[d].stage = "FULL" PROVE FirstSucceeded(d)'
  <2>1. CASE d = b BY <1>4, <1>10, <2>1, NumberingOK DEF Numbering
  <2>2. CASE d # b
    <3>1. d \in DOMAIN batches /\ batches[d].stage = "FULL" BY <1>10, <2>2
    <3> QED BY <1>4, <3>1 DEF CanaryGoesFirst, FirstSucceeded
  <2> QED BY <2>1, <2>2
<1>11. CanaryGoesFirst' BY <1>10 DEF CanaryGoesFirst, FirstSucceeded
<1> QED BY <1>1, <1>3, <1>7, <1>9, <1>11

\* A new batch: no job points to it yet.
LEMMA BatchStep ==
  ASSUME RolloutsInv, NEW hosts \in SUBSET Hosts, NEW stage \in {"none", "CANARY"},
         NEW first \in SUBSET Hosts, stage = "CANARY" => hosts \subseteq first,
         batches' = NewBatch(stage, first), jobs' = Enqueued(hosts, Len(batches) + 1),
         UNCHANGED <<members, continues>>, batchPage' \in {batchPage, Len(batches) + 1}
  PROVE  RolloutsInv'
<1> DEFINE b == Len(batches) + 1
           row == [stage |-> stage, first |-> first]
<1>1. RolloutsShape /\ Numbering BY NumberingOK DEF RolloutsInv
<1>2. b \in Nat /\ b # 0 /\ b \notin DOMAIN batches BY <1>1 DEF Numbering
<1>3. row \in BatchRow BY DEF BatchRow
<1>4. /\ batches' \in Seq(BatchRow) /\ DOMAIN batches' = DOMAIN batches \cup {b}
      /\ batches'[b] = row /\ \A d \in DOMAIN batches : batches'[d] = batches[d]
  BY <1>1, <1>2, <1>3 DEF NewBatch, RolloutsShape, Numbering
<1>5. JobsOf(b) = {}
  <2>1. \A j \in DOMAIN jobs : jobs[j] \in JobRow BY <1>1 DEF RolloutsShape
  <2> QED BY <1>2, <2>1 DEF JobsOf, JobRow
<1>6. \A c \in continues : c \in Continue /\ c.batch \in DOMAIN batches
  BY <1>1 DEF RolloutsShape, Continue
<1>7. Older
  BY <1>6 DEF Older, Continue
<1>8. continues' \subseteq Continue'
  <2>1. ASSUME NEW c \in continues PROVE c \in Continue'
    BY <1>4, <1>6 DEF Continue
  <2> QED BY <2>1
<1>9. \A c \in continues' : c.batch # b BY <1>2, <1>6
<1>10. /\ row.stage = "CANARY" => hosts \subseteq row.first
       /\ row.stage # "FULL"
  OBVIOUS
<1>11. members' \subseteq Hosts /\ batchPage' \in {0} \cup DOMAIN batches'
  BY <1>1, <1>4 DEF RolloutsShape
<1>12. jobs' = Enqueued(hosts, b) OBVIOUS
<1> HIDE DEF b, row
<1> QED BY <1>2, <1>4, <1>5, <1>7, <1>8, <1>9, <1>10, <1>11, <1>12, QueueStep

LEMMA ApplyGroupStep ==
  ASSUME RolloutsInv, NEW canary \in BOOLEAN, ApplyGroup(canary)
  PROVE  RolloutsInv'
<1>1. PICK first \in IF canary THEN {{h} : h \in members} ELSE {members} :
        /\ batches' = NewBatch(IF canary THEN "CANARY" ELSE "none", first)
        /\ jobs' = Enqueued(first, Len(batches) + 1)
  BY DEF ApplyGroup
<1>2. first \in SUBSET Hosts BY DEF RolloutsInv, RolloutsShape
<1>3. UNCHANGED <<members, continues>> /\ batchPage' = Len(batches) + 1
  BY DEF ApplyGroup, OpensPage
<1> DEFINE stage == IF canary THEN "CANARY" ELSE "none"
<1>4. stage \in {"none", "CANARY"} /\ batches' = NewBatch(stage, first)
  BY <1>1
<1> HIDE DEF stage
<1> QED BY <1>1, <1>2, <1>3, <1>4, BatchStep

LEMMA RetryStep ==
  ASSUME RolloutsInv, NEW b \in DOMAIN batches, NEW here \in BOOLEAN, Retry(b, here)
  PROVE  RolloutsInv'
<1> DEFINE hosts == {jobs[j].host : j \in {i \in JobsOf(b) : jobs[i].status = "FAILED"}}
<1>1. hosts \in SUBSET Hosts
  <2>1. \A j \in DOMAIN jobs : jobs[j] \in JobRow BY DEF RolloutsInv, RolloutsShape
  <2> QED BY <2>1 DEF JobsOf, JobRow
<1>2. /\ batches' = NewBatch("none", {}) /\ jobs' = Enqueued(hosts, Len(batches) + 1)
      /\ UNCHANGED <<members, continues>>
  BY DEF Retry
<1>3. batchPage' \in {batchPage, Len(batches) + 1}
  <2>1. RolloutsShape /\ Len(batches') = Len(batches) + 1
    BY <1>2 DEF NewBatch, RolloutsInv, RolloutsShape
  <2> QED BY <2>1 DEF Retry, OpensPage
<1> HIDE DEF hosts
<1> QED BY <1>1, <1>2, <1>3, BatchStep

\* A job of no batch.
LEMMA ApplyHostStep ==
  ASSUME RolloutsInv, NEW h \in Hosts, ApplyHost(h)
  PROVE  RolloutsInv'
<1>1. RolloutsShape /\ Numbering BY NumberingOK DEF RolloutsInv
<1>2. jobs' = Enqueued({h}, 0) /\ UNCHANGED <<members, batches, continues, batchPage>>
  BY DEF ApplyHost
<1>3. \A c \in continues : c \in Continue BY <1>1 DEF RolloutsShape
<1>4. Older BY <1>2, <1>3 DEF Older, Continue
<1>5. continues' \subseteq Continue' /\ \A c \in continues' : c.batch # 0
  BY <1>1, <1>2, <1>3 DEF Continue, Numbering
<1>6. /\ batches' \in Seq(BatchRow) /\ DOMAIN batches' = DOMAIN batches \cup ({0} \ {0})
      /\ members' \subseteq Hosts /\ batchPage' \in {0} \cup DOMAIN batches'
  BY <1>1, <1>2 DEF RolloutsShape
<1> QED BY <1>1, <1>2, <1>4, <1>5, <1>6, QueueStep

\* The rest is queued by the request that nobody was faster than.
LEMMA CommitContinueStep ==
  ASSUME RolloutsInv, NEW c \in continues, CommitContinue(c)
  PROVE  RolloutsInv'
<1> DEFINE b == c.batch
<1>1. RolloutsShape /\ Numbering BY NumberingOK DEF RolloutsInv
<1>2. \A e \in continues : e \in Continue BY <1>1 DEF RolloutsShape
<1>3. b \in DOMAIN batches /\ b \in Nat /\ b # 0 /\ c.rest \in SUBSET Hosts
  BY <1>1, <1>2 DEF Continue, Numbering
<1>4. /\ ~c.stale /\ batches' = [batches EXCEPT ![b].stage = "FULL"]
      /\ jobs' = Enqueued(c.rest, b) /\ UNCHANGED <<members, batchPage>>
      /\ continues' = {[e EXCEPT !.stale = e.stale \/ e.batch = b] : e \in continues \ {c}}
  BY DEF CommitContinue, SameVersion, OldContinues
<1>5. \A j \in JobsOf(b) : jobs[j].host \notin c.rest
  BY <1>4 DEF RolloutsInv, OnceInv
<1>6. FirstSucceeded(b) BY DEF RolloutsInv, CanaryInv
<1>7. \A e \in continues' : e \in Continue /\ \E f \in continues :
         /\ e.batch = f.batch /\ e.rest = f.rest /\ e.id = f.id
         /\ f.stale => e.stale
         /\ e.batch = b => e.stale
  <2>1. ASSUME NEW f \in continues, NEW e, e = [f EXCEPT !.stale = f.stale \/ f.batch = b]
        PROVE  /\ e \in Continue /\ e.batch = f.batch /\ e.rest = f.rest /\ e.id = f.id
               /\ f.stale => e.stale
               /\ e.batch = b => e.stale
    <3>1. f \in Continue BY <1>2
    <3>2. (f.stale \/ f.batch = b) \in BOOLEAN BY Zenon
    <3> HIDE DEF b
    <3> QED BY <2>1, <3>1, <3>2 DEF Continue
  <2>2. \A e \in continues' : \E f \in continues : e = [f EXCEPT !.stale = f.stale \/ f.batch = b]
    BY <1>4
  <2> HIDE DEF b
  <2> QED BY <2>1, <2>2
<1>8. /\ batches' \in Seq(BatchRow) /\ DOMAIN batches' = DOMAIN batches
      /\ \A d \in DOMAIN batches : batches'[d].first = batches[d].first
      /\ \A d \in DOMAIN batches : d # b => batches'[d] = batches[d]
      /\ batches'[b].stage = "FULL"
  <2>1. batches[b] \in BatchRow BY <1>1, <1>3 DEF RolloutsShape
  <2> DEFINE row == [batches[b] EXCEPT !.stage = "FULL"]
  <2>2. row \in BatchRow /\ row.first = batches[b].first /\ row.stage = "FULL"
    BY <2>1 DEF BatchRow
  <2>3. batches' = [batches EXCEPT ![b] = row] BY <1>4
  <2> HIDE DEF row, b
  <2> QED BY <1>1, <1>3, <2>2, <2>3, ExceptSeq DEF RolloutsShape, Numbering
<1>9. Older BY <1>7 DEF Older, Continue
<1>10. continues' \subseteq Continue' BY <1>7, <1>8 DEF Continue
<1>11. members' \subseteq Hosts /\ batchPage' \in {0} \cup DOMAIN batches'
  BY <1>1, <1>4, <1>8 DEF RolloutsShape
<1>12. \A e \in continues' : e.batch = b => e.stale BY <1>7
<1> HIDE DEF b
<1>13. DOMAIN batches' = DOMAIN batches \cup ({b} \ {0}) BY <1>3, <1>8
<1>14. batches'[b].stage # "CANARY" BY <1>8
<1> QED BY <1>3, <1>4, <1>5, <1>6, <1>8, <1>13, <1>14, <1>9, <1>10, <1>11, <1>12, QueueStep

\* A request to continue has seen the canary's success, and the devices that are left.
LEMMA StartContinueStep ==
  ASSUME RolloutsInv, NEW b \in DOMAIN batches, StartContinue(b)
  PROVE  RolloutsInv'
<1> USE DEF RolloutsInv
<1>1. PICK id \in {1, 2} \ {c.id : c \in continues} :
        continues' = continues \cup {[id |-> id, batch |-> b, rest |-> Rest(b), stale |-> FALSE]}
  BY DEF StartContinue
<1>2. UNCHANGED <<members, batches, jobs, batchPage>> BY DEF StartContinue
<1> DEFINE c == [id |-> id, batch |-> b, rest |-> Rest(b), stale |-> FALSE]
<1>3. c \in Continue /\ c.batch = b /\ c.rest = Rest(b)
  BY DEF Continue, Rest, RolloutsShape
<1>4. FirstSucceeded(b)
  <2>1. PICK j \in JobsOf(b) : jobs[j].status = "SUCCEEDED"
    BY DEF StartContinue, CanarySucceeded
  <2>2. jobs[j].host \in batches[b].first BY DEF StartContinue, CanaryInv
  <2> QED BY <2>1, <2>2 DEF FirstSucceeded
<1>5. \A j \in JobsOf(b) : jobs[j].host \notin Rest(b) BY DEF Rest
<1>6. continues' = continues \cup {c} BY <1>1
<1> HIDE DEF c
<1>7. RolloutsShape' BY <1>2, <1>3, <1>6 DEF RolloutsShape, JobRow, Continue
<1>8. CanaryInv' BY <1>2, <1>3, <1>4, <1>6 DEF CanaryInv, FirstSucceeded, JobsOf
<1>9. OnceInv' BY <1>2, <1>3, <1>5, <1>6 DEF OnceInv, JobsOf, Pending
<1> QED
  BY <1>2, <1>7, <1>8, <1>9 DEF CanaryGoesFirst, OncePerDevice, JobsOf

\* What leaves the batches and the jobs alone, and no request more up to date.
LEMMA ElsewhereStep ==
  ASSUME RolloutsInv, UNCHANGED <<batches, jobs>>, Older, continues' \subseteq Continue,
         members' \subseteq Hosts, batchPage' \in {0} \cup DOMAIN batches
  PROVE  RolloutsInv'
<1> USE DEF RolloutsInv
<1>1. RolloutsShape' BY DEF RolloutsShape, JobRow, Continue
<1>2. CanaryInv'
  <2>1. \A c \in continues' : FirstSucceeded(c.batch)
    BY DEF Older, CanaryInv
  <2> QED BY <2>1 DEF CanaryInv, FirstSucceeded, JobsOf
<1>3. OnceInv'
  <2>1. \A c \in continues' : ~c.stale => \A j \in JobsOf(c.batch) : jobs[j].host \notin c.rest
    BY DEF Older, OnceInv
  <2> QED BY <2>1 DEF OnceInv, JobsOf, Pending
<1> QED BY <1>1, <1>2, <1>3 DEF CanaryGoesFirst, OncePerDevice, JobsOf

LEMMA RequestsStay == ASSUME RolloutsShape, continues' \subseteq continues PROVE Older /\ continues' \subseteq Continue
<1>1. \A c \in continues : c \in Continue BY DEF RolloutsShape
<1> QED BY <1>1 DEF Older, Continue

\* A job moves on: none becomes pending, and none that succeeded is touched.
LEMMA AdvanceStep ==
  ASSUME RolloutsInv, NEW j \in DOMAIN jobs, NEW from \in SUBSET {"PENDING", "RUNNING"},
         NEW to \in {"RUNNING", "SUCCEEDED", "FAILED"}, Advance(j, from, to)
  PROVE  RolloutsInv'
<1> USE DEF RolloutsInv
<1>1. UNCHANGED <<members, batches, continues, batchPage>> /\ jobs[j].status \in from
      /\ jobs' = [jobs EXCEPT ![j].status = to]
  BY DEF Advance
<1>2. jobs[j] \in JobRow BY DEF RolloutsShape
<1> DEFINE row == [jobs[j] EXCEPT !.status = to]
<1>3. row \in JobRow /\ row.host = jobs[j].host /\ row.batch = jobs[j].batch /\ row.status = to
  BY <1>2 DEF JobRow, Terminal
<1>4. /\ jobs' \in Seq(JobRow) /\ DOMAIN jobs' = DOMAIN jobs
      /\ \A i \in DOMAIN jobs : jobs'[i] = IF i = j THEN row ELSE jobs[i]
  <2>1. jobs' = [jobs EXCEPT ![j] = row] BY <1>1
  <2> HIDE DEF row
  <2> QED BY <1>3, <2>1, NumberingOK, ExceptSeq DEF RolloutsShape, Numbering
<1>5. \A i \in DOMAIN jobs :
        /\ jobs'[i].host = jobs[i].host /\ jobs'[i].batch = jobs[i].batch
        /\ jobs'[i].status = "PENDING" => jobs[i].status = "PENDING"
        /\ jobs[i].status = "SUCCEEDED" => jobs'[i].status = "SUCCEEDED"
  BY <1>1, <1>3, <1>4
<1> HIDE DEF row
<1>6. \A b : JobsOf(b)' = JobsOf(b) BY <1>4, <1>5 DEF JobsOf
<1>7. \A b : FirstSucceeded(b) => FirstSucceeded(b)'
  BY <1>1, <1>5, <1>6 DEF FirstSucceeded, JobsOf
<1>8. RolloutsShape' BY <1>1, <1>4 DEF RolloutsShape, JobRow, Continue
<1>9. CanaryInv' BY <1>1, <1>5, <1>6, <1>7 DEF CanaryInv, JobsOf
<1>10. OnceInv'
  <2>1. \A h : Pending(h)' \subseteq Pending(h) BY <1>4, <1>5 DEF Pending
  <2> QED BY <1>1, <1>5, <1>6, <2>1 DEF OnceInv, JobsOf
<1>11. CanaryGoesFirst'
  BY <1>1, <1>7 DEF CanaryGoesFirst, FirstSucceeded
<1>12. OncePerDevice' BY <1>4, <1>5 DEF OncePerDevice
<1> QED BY <1>8, <1>9, <1>10, <1>11, <1>12

LEMMA RolloutsStep == RolloutsInv /\ [RolloutsNext]_rolloutsVars => RolloutsInv'
<1> SUFFICES ASSUME RolloutsInv, [RolloutsNext]_rolloutsVars PROVE RolloutsInv'
  OBVIOUS
<1>1. RolloutsShape BY DEF RolloutsInv
<1>2. CASE ApplyGroup(TRUE) \/ ApplyGroup(FALSE) BY <1>2, ApplyGroupStep
<1>3. ASSUME NEW h \in Hosts, ApplyHost(h) PROVE RolloutsInv' BY <1>3, ApplyHostStep
<1>4. ASSUME NEW b \in DOMAIN batches, StartContinue(b) PROVE RolloutsInv'
  BY <1>4, StartContinueStep
<1>5. ASSUME NEW b \in DOMAIN batches, Retry(b, TRUE) \/ Retry(b, FALSE) PROVE RolloutsInv'
  BY <1>5, RetryStep
<1>6. ASSUME NEW c \in continues, CommitContinue(c) PROVE RolloutsInv'
  BY <1>6, CommitContinueStep
<1>7. ASSUME NEW j \in DOMAIN jobs, Deliver(j) \/ Succeed(j) \/ FailJob(j) PROVE RolloutsInv'
  BY <1>7, AdvanceStep DEF Deliver, Succeed, FailJob
<1>8. ASSUME UNCHANGED <<batches, jobs, members>>, continues' \subseteq continues,
             batchPage' \in {batchPage} \cup DOMAIN batches
      PROVE  RolloutsInv'
  BY <1>1, <1>8, RequestsStay, ElsewhereStep DEF RolloutsShape
<1>9. ASSUME NEW b \in DOMAIN batches, OpenBatch(b) PROVE RolloutsInv'
  BY <1>8, <1>9 DEF OpenBatch, OpensPage
<1>10. ASSUME NEW c \in continues, FailContinue(c) PROVE RolloutsInv'
  BY <1>8, <1>10 DEF FailContinue
<1>11. CASE PollBatch BY <1>8, <1>11 DEF PollBatch
<1>12. CASE ChangeMembers
  <2>1. UNCHANGED <<batches, jobs, continues, batchPage>> /\ members' \subseteq Hosts
    BY <1>1, <1>12 DEF ChangeMembers, RolloutsShape
  <2> QED BY <1>1, <2>1, RequestsStay, ElsewhereStep DEF RolloutsShape
<1>13. CASE DeleteGroup
  <2>1. UNCHANGED <<batches, jobs, batchPage>> /\ members' = {}
        /\ continues' = {[c EXCEPT !.stale = TRUE] : c \in continues}
    BY <1>13 DEF DeleteGroup
  <2>2. \A c \in continues : c \in Continue BY <1>1 DEF RolloutsShape
  <2>3. Older /\ continues' \subseteq Continue BY <2>1, <2>2 DEF Older, Continue
  <2> QED BY <1>1, <2>1, <2>3, ElsewhereStep DEF RolloutsShape
<1>14. CASE UNCHANGED rolloutsVars BY <1>8, <1>14 DEF rolloutsVars
<1> QED BY <1>2, <1>3, <1>4, <1>5, <1>6, <1>7, <1>9, <1>10, <1>11, <1>12, <1>13, <1>14
        DEF RolloutsNext

LEMMA RolloutsInductive == RolloutsSpec => []RolloutsInv
BY RolloutsInitial, RolloutsStep, PTL DEF RolloutsSpec

\* Every variable of the rollouts keeps its type.
THEOREM RolloutsTyped == RolloutsSpec => []RolloutsTypeOK
<1>1. ASSUME RolloutsInv PROVE RolloutsTypeOK
  <2>1. /\ \A b \in DOMAIN batches : batches[b] \in BatchRow
        /\ \A j \in DOMAIN jobs : jobs[j] \in JobRow
        /\ \A c \in continues : c \in Continue
    BY <1>1 DEF RolloutsInv, RolloutsShape
  <2> QED
    BY <1>1, <2>1 DEF RolloutsInv, RolloutsShape, RolloutsTypeOK, BatchRow, JobRow, Continue
<1> QED BY <1>1, RolloutsInductive, PTL

\* A rollout goes on to the rest only after the device that was chosen first succeeded
\* (CanaryGoesFirst).
THEOREM CanaryFirst == RolloutsSpec => []CanaryGoesFirst
<1>1. RolloutsInv => CanaryGoesFirst BY DEF RolloutsInv
<1> QED BY <1>1, RolloutsInductive, PTL

\* A batch applies no device twice (OncePerDevice).
THEOREM AppliedOnce == RolloutsSpec => []OncePerDevice
<1>1. RolloutsInv => OncePerDevice BY DEF RolloutsInv
<1> QED BY <1>1, RolloutsInductive, PTL

-----------------------------------------------------------------------------
(* Bulk actions of the list of devices *)

\* What was asked is done or left to send, in a bulk action of ticked devices.
BulkInv ==
  /\ selected \subseteq Devices
  /\ bulk = [kind |-> bulk.kind, asked |-> bulk.asked, left |-> bulk.left, done |-> bulk.done]
  /\ bulk.left \in Seq(Devices)
  /\ bulk.asked = bulk.done \cup Range(bulk.left)

\* The requests of a bulk action are about all that is ticked.
LEMMA AsksAll ==
  ASSUME NEW S \in SUBSET Devices, NEW s \in SetToSeqs(S)
  PROVE  s \in Seq(Devices) /\ Range(s) = S
<1>1. IsFiniteSet(Devices) BY FleetAssumption, FS_Interval DEF Devices
<1>2. IsFiniteSet(S) /\ Cardinality(S) \in Nat BY <1>1, FS_Subset, FS_CardinalityType
<1> DEFINE n == Cardinality(S)
<1>3. s \in [1..n -> S] /\ \A i, j \in 1..n : i # j => s[i] # s[j]
  BY DEF SetToSeqs
<1>4. IsFiniteSet(1..n) /\ Cardinality(1..n) = n BY <1>2, FS_Interval
<1> HIDE DEF n
<1>5. s \in Injection(1..n, S) BY <1>3 DEF Injection, IsInjective
<1>6. Cardinality(1..n) = Cardinality(S) BY <1>4 DEF n
<1>7. s \in Surjection(1..n, S) BY <1>2, <1>5, <1>6, FS_Injection
<1>8. Range(s) = S BY <1>3, <1>7 DEF Surjection, Range
<1>9. n \in Nat /\ s \in [1..n -> Devices] BY <1>2, <1>3 DEF n
<1> QED BY <1>8, <1>9

LEMMA BulkInitial == FleetInit => BulkInv
BY DEF FleetInit, BulkInv, NoBulk, Range

\* Nothing is ticked that is not shown.
LEMMA BulkMoves ==
  ASSUME BulkInv, Shown \subseteq Devices, [FleetNext]_fleetVars
  PROVE  BulkInv' /\ (claim' # claim => claim' = bulk.done)
<1> USE DEF BulkInv
<1>1. ASSUME UNCHANGED <<bulk, claim>>, selected' \subseteq Devices PROVE BulkInv' /\ claim' = claim
  BY <1>1
<1>2. CASE UNCHANGED <<bulk, claim, selected>> BY <1>1, <1>2
<1>3. ASSUME NEW f \in Filters, Filter(f) PROVE UNCHANGED <<bulk, claim, selected>>
  BY <1>3 DEF Filter, WorkUntouched
<1>4. CASE Sort \/ PreviousPage \/ NextPage \/ PollDevices \/ ListDevices \/ ShowDevices
  BY <1>2, <1>4 DEF Sort, PreviousPage, NextPage, TurnTo, PollDevices, ListDevices, ShowDevices,
     WorkUntouched
<1>5. ASSUME NEW d \in Devices, Tick(d) \/ AskToRemove(d) PROVE BulkInv' /\ claim' = claim
  BY <1>1, <1>5 DEF Tick, AskToRemove
<1>6. CASE TickPage \/ ClearSelection
  BY <1>1, <1>6 DEF TickPage, ClearSelection
<1>7. ASSUME NEW kind \in Kinds, StartBulk(kind) PROVE BulkInv' /\ claim' = claim
  <2>1. PICK s \in SetToSeqs(selected) :
          bulk' = [kind |-> kind, asked |-> selected, left |-> s, done |-> {}]
    BY <1>7 DEF StartBulk
  <2>2. s \in Seq(Devices) /\ Range(s) = selected BY AsksAll
  <2>3. UNCHANGED <<selected, claim>> BY <1>7 DEF StartBulk
  <2> QED BY <2>1, <2>2, <2>3
<1>8. CASE AskToDisable BY <1>2, <1>8 DEF AskToDisable
<1>9. CASE BulkStep
  <2> DEFINE d == Head(bulk.left)
  <2>1. /\ bulk.left # << >> /\ UNCHANGED <<selected, claim>>
        /\ bulk' = [bulk EXCEPT !.left = Tail(bulk.left), !.done = bulk.done \cup {d}]
    BY <1>9 DEF BulkStep
  <2>2. Tail(bulk.left) \in Seq(Devices) BY <2>1
  <2>3. Range(bulk.left) = {d} \cup Range(Tail(bulk.left))
    <3> DEFINE s == bulk.left
               n == Len(s)
    <3>1. n \in Nat /\ n > 0 /\ DOMAIN s = 1..n /\ s[1] = d
      BY <2>1, LenProperties
    <3>2. DOMAIN Tail(s) = 1..(n - 1) /\ \A i \in 1..(n - 1) : Tail(s)[i] = s[i + 1]
      BY <2>1, <2>2, LenProperties, HeadTailProperties
    <3> HIDE DEF s, n, d
    <3>3. \A i \in 1..n : i = 1 \/ (i - 1 \in 1..(n - 1) /\ s[i] = Tail(s)[i - 1])
      BY <3>1, <3>2
    <3>4. Range(s) \subseteq {d} \cup Range(Tail(s))
      <4>1. ASSUME NEW i \in 1..n PROVE s[i] \in {d} \cup Range(Tail(s))
        BY <3>1, <3>2, <3>3 DEF Range
      <4> QED BY <3>1, <4>1 DEF Range
    <3>5. {d} \cup Range(Tail(s)) \subseteq Range(s)
      <4>1. \A i \in 1..(n - 1) : i + 1 \in 1..n BY <3>1
      <4> QED BY <3>1, <3>2, <4>1 DEF Range
    <3> QED BY <3>4, <3>5 DEF s
  <2> HIDE DEF d
  <2>4. bulk' = [kind |-> bulk.kind, asked |-> bulk.asked, left |-> Tail(bulk.left),
                 done |-> bulk.done \cup {d}]
    BY <2>1
  <2> QED BY <2>1, <2>2, <2>3, <2>4
<1>10. CASE BulkFails
  <2>1. bulk' = NoBulk /\ UNCHANGED <<selected, claim>> BY <1>10 DEF BulkFails, StopEarly
  <2> QED BY <2>1 DEF NoBulk, Range
<1>11. CASE BulkSucceeds
  <2>1. bulk.left = << >> /\ bulk' = NoBulk /\ UNCHANGED selected /\ claim' = bulk.asked
    BY <1>11 DEF BulkSucceeds
  <2>2. Range(<< >>) = {} BY DEF Range
  <2> QED BY <2>1, <2>2 DEF NoBulk
<1>12. CASE CancelDialog \/ ConfirmRemove \/ Removed \/ RemoveFails \/ OtherOperator
  BY <1>2, <1>12 DEF CancelDialog, ConfirmRemove, Removed, RemoveFails, OtherOperator
<1>13. CASE UNCHANGED fleetVars BY <1>2, <1>13 DEF fleetVars
<1> QED
  BY <1>2, <1>3, <1>4, <1>5, <1>6, <1>7, <1>8, <1>9, <1>10, <1>11, <1>12, <1>13 DEF FleetNext

-----------------------------------------------------------------------------
(* The list of devices, a page at a time *)

Queries == [filter : Filters, down : BOOLEAN, offset : 0..FleetSize]

\* What the types need beside themselves: lists are no longer than the fleet, and a
\* request is sent once.
FleetShape ==
  /\ fleet \subseteq Devices /\ off \subseteq fleet /\ joined \subseteq fleet
  /\ query \in Queries
  /\ view = [items |-> view.items, total |-> view.total]
  /\ view.items \subseteq Devices /\ view.total \in 0..FleetSize
  /\ looked = [phase |-> looked.phase, items |-> looked.items, total |-> looked.total]
  /\ looked.items \subseteq Devices /\ looked.total \in 0..FleetSize
  /\ modal.what \in {"none", "disable", "remove"}

SendsOnce ==
  /\ \A i, j \in DOMAIN bulk.left : i # j => bulk.left[i] # bulk.left[j]
  /\ Range(bulk.left) \cap bulk.done = {}

\* What is shown, or about to be, is the page that is asked for, unless the list changed.
UpToDate(items, total) ==
  /\ items = PageOf(Matching(query.filter), query.down, query.offset)
  /\ total = Cardinality(Matching(query.filter))

ListInv ==
  /\ looked = NoLook /\ ~stale => UpToDate(view.items, view.total)
  /\ looked.phase = "answered" /\ ~stale => UpToDate(looked.items, looked.total)
  /\ ~shrunk => query.offset = 0 \/ Cardinality(Matching(query.filter)) > PageSize

LEMMA FewDevices ==
  ASSUME NEW S \in SUBSET Devices
  PROVE  IsFiniteSet(S) /\ Cardinality(S) \in 0..FleetSize
<1>1. IsFiniteSet(Devices) /\ Cardinality(Devices) = FleetSize /\ FleetSize \in Nat
  <2>1. FleetSize \in Nat /\ 1 \in Int /\ FleetSize \in Int BY FleetAssumption
  <2>2. /\ IsFiniteSet(1..FleetSize)
        /\ Cardinality(1..FleetSize) = IF 1 > FleetSize THEN 0 ELSE FleetSize - 1 + 1
    BY <2>1, FS_Interval
  <2> QED BY <2>1, <2>2 DEF Devices
<1>2. IsFiniteSet(S) /\ Cardinality(S) \in Nat /\ Cardinality(S) <= FleetSize
  BY <1>1, FS_Subset, FS_CardinalityType
<1> QED BY <1>1, <1>2

\* Of a list that is long enough, there is a device before which there are k others,
\* in either direction.
LEMMA SomeoneAt ==
  ASSUME NEW S \in SUBSET Devices, NEW down \in BOOLEAN, NEW k \in Nat, k < Cardinality(S)
  PROVE  \E d \in S : Before(S, d, down) = k
<1>0. FleetSize \in Nat BY FleetAssumption
<1> DEFINE First(n) == {d \in S : IF down THEN d > FleetSize - n ELSE d <= n}
           X == {n \in Nat : Cardinality(First(n)) > k}
<1>1. \A n \in Nat : IsFiniteSet(First(n)) /\ Cardinality(First(n)) \in Nat
  <2> SUFFICES ASSUME NEW n \in Nat PROVE IsFiniteSet(First(n)) /\ Cardinality(First(n)) \in Nat
    OBVIOUS
  <2>1. First(n) \in SUBSET Devices OBVIOUS
  <2> QED BY <1>0, <2>1, FewDevices
<1>2. FleetSize \in X
  <2>1. \A d \in S : d \in 1..FleetSize BY DEF Devices
  <2>2. First(FleetSize) = S BY <1>0, <2>1
  <2> QED BY <1>0, <2>2
<1> HIDE DEF First
<1>3. PICK n \in X : \A m \in X : n <= m
  <2>1. X \in SUBSET Nat /\ X # {} BY <1>2
  <2> HIDE DEF X
  <2> QED BY <2>1, LeastNumber
<1>4. n \in Nat /\ Cardinality(First(n)) > k BY <1>3
<1>5. n # 0
  <2> SUFFICES ASSUME n = 0 PROVE FALSE OBVIOUS
  <2>1. First(0) = {}
    <3>1. \A d \in S : d \in 1..FleetSize BY DEF Devices
    <3> QED BY <1>0, <3>1 DEF First
  <2> QED BY <1>4, <2>1, FS_EmptySet
<1>6. n - 1 \in Nat /\ Cardinality(First(n - 1)) <= k
  <2>1. n - 1 \in Nat /\ n - 1 \notin X BY <1>3, <1>4, <1>5
  <2> QED BY <1>1, <2>1
<1> DEFINE d == IF down THEN FleetSize - n + 1 ELSE n
<1>7. First(n) = First(n - 1) \cup ({d} \cap S) /\ d \notin First(n - 1)
  <2>1. \A e \in S : e \in 1..FleetSize BY DEF Devices
  <2> QED BY <1>0, <1>4, <1>6, <2>1 DEF First
<1>8. d \in S
  <2> SUFFICES ASSUME d \notin S PROVE FALSE OBVIOUS
  <2>1. First(n) = First(n - 1) BY <1>7
  <2> QED BY <1>1, <1>4, <1>6, <2>1
<1>9. Cardinality(First(n)) = Cardinality(First(n - 1)) + 1
  <2>1. First(n) = First(n - 1) \cup {d} BY <1>7, <1>8
  <2> HIDE DEF d
  <2> QED BY <1>1, <1>6, <1>7, <2>1, FS_AddElement
<1>10. Cardinality(First(n - 1)) = k BY <1>1, <1>4, <1>6, <1>9
<1>11. First(n - 1) = {e \in S : IF down THEN e > d ELSE e < d}
  <2>1. \A e \in S : e \in 1..FleetSize BY DEF Devices
  <2> QED BY <1>0, <1>4, <1>6, <2>1 DEF First
<1>12. Before(S, d, down) = k
  BY <1>10, <1>11 DEF Before
<1> QED BY <1>8, <1>12

\* The last page begins with a row that there is.
LEMMA LastPage ==
  ASSUME FleetShape
  PROVE  /\ LastOffset \in Nat
         /\ LastOffset <= (IF view.total > 0 THEN view.total - 1 ELSE 0)
<1> DEFINE m == IF view.total > 0 THEN view.total - 1 ELSE 0
<1>1. m \in Nat /\ PageSize \in Nat /\ PageSize > 0 BY FleetAssumption DEF FleetShape
<1> HIDE DEF m
<1>2. /\ m \div PageSize \in Nat
      /\ (m \div PageSize) * PageSize \in Nat
      /\ (m \div PageSize) * PageSize <= m
  BY <1>1
<1> QED BY <1>2 DEF LastOffset, m

\* What is filtered are devices.
LEMMA MatchesAre ==
  ASSUME FleetShape, NEW filter
  PROVE  /\ Matching(filter) \in SUBSET Devices
         /\ Cardinality(Matching(filter)) \in 0..FleetSize
<1>1. Matching(filter) \in SUBSET Devices BY DEF FleetShape, Matching, Match
<1> QED BY <1>1, FewDevices

\* Looking again gives up what was shown of another list.
LEMMA AsksAgain ==
  /\ LookAgain = [phase |-> "asked", items |-> {}, total |-> 0]
  /\ LookAgain # NoLook /\ LookAgain.phase = "asked"
BY DEF LookAgain, NoLook

\* A list that changed is stale, and has shrunk unless all that matched still does.
LEMMA Changes ==
  ASSUME FleetShape, FleetShape', NEW rows, NEW disabled, Changed(rows, disabled),
         rows = fleet', disabled = off', query' = query, ListInv
  PROVE  stale' /\ (~shrunk' => query.offset = 0 \/ Cardinality(Matching(query.filter)') > PageSize)
<1> SUFFICES ASSUME ~shrunk' PROVE query.offset = 0 \/ Cardinality(Matching(query.filter)') > PageSize
  BY DEF Changed
<1>1. ~shrunk /\ Matching(query.filter) \subseteq Match(rows, disabled, query.filter)
  BY DEF Changed
<1>2. Match(rows, disabled, query.filter) = Matching(query.filter)' BY DEF Matching
<1> DEFINE A == Matching(query.filter)
           B == Matching(query.filter)'
<1>3. A \in SUBSET Devices /\ Cardinality(A) \in 0..FleetSize BY MatchesAre
<1>4. B \in SUBSET Devices /\ IsFiniteSet(B) /\ Cardinality(B) \in 0..FleetSize
  <2>1. B \in SUBSET Devices BY DEF FleetShape, Matching, Match
  <2> QED BY <2>1, FewDevices
<1>5. A \subseteq B BY <1>1, <1>2
<1> HIDE DEF A, B
<1>6. Cardinality(A) <= Cardinality(B) BY <1>4, <1>5, FS_Subset
<1>7. query.offset = 0 \/ Cardinality(A) > PageSize BY <1>1 DEF ListInv, A
<1>8. PageSize \in Nat BY FleetAssumption
<1> QED
  <2>1. CASE query.offset = 0 BY <2>1
  <2>2. CASE Cardinality(A) > PageSize
    <3>1. Cardinality(B) > PageSize BY <1>3, <1>4, <1>6, <1>8, <2>2
    <3> QED BY <3>1 DEF B
  <2> QED BY <1>7, <2>1, <2>2

LEMMA FleetBegins == FleetInit => FleetShape /\ ListInv /\ SendsOnce
<1> SUFFICES ASSUME FleetInit PROVE FleetShape /\ ListInv /\ SendsOnce OBVIOUS
<1> USE DEF FleetInit
<1>1. FleetSize \in Nat BY FleetAssumption
<1>2. PageOf(Devices, FALSE, 0) \subseteq Devices BY DEF PageOf
<1>3. Cardinality(Devices) = FleetSize
  <2>1. 1 \in Int /\ FleetSize \in Int BY <1>1
  <2>2. Cardinality(1..FleetSize) = IF 1 > FleetSize THEN 0 ELSE FleetSize - 1 + 1
    BY <2>1, FS_Interval
  <2> QED BY <1>1, <2>2 DEF Devices
<1>4. Matching("all") = Devices BY DEF Matching, Match
<1>5. FleetShape
  <2>1. query \in Queries
    <3>1. "all" \in Filters /\ FALSE \in BOOLEAN /\ 0 \in 0..FleetSize BY <1>1 DEF Filters
    <3> QED BY <3>1 DEF Queries
  <2>2. view = [items |-> PageOf(Devices, FALSE, 0), total |-> FleetSize] OBVIOUS
  <2>3. looked = [phase |-> "idle", items |-> {}, total |-> 0] BY DEF NoLook
  <2>4. modal.what = "none" BY DEF NoDialog
  <2>5. fleet = Devices /\ off \subseteq Devices /\ joined \subseteq Devices OBVIOUS
  <2>6. /\ view = [items |-> view.items, total |-> view.total]
        /\ view.items \subseteq Devices /\ view.total \in 0..FleetSize
    <3> DEFINE page == PageOf(Devices, FALSE, 0)
    <3>1. view = [items |-> page, total |-> FleetSize] /\ page \subseteq Devices BY <1>2, <2>2
    <3> HIDE DEF FleetInit, page
    <3> QED BY <1>1, <3>1
  <2>7. /\ looked = [phase |-> looked.phase, items |-> looked.items, total |-> looked.total]
        /\ looked.items \subseteq Devices /\ looked.total \in 0..FleetSize
    <3> HIDE DEF FleetInit
    <3> QED BY <1>1, <2>3
  <2> HIDE DEF FleetInit
  <2> QED BY <2>1, <2>4, <2>5, <2>6, <2>7 DEF FleetShape
<1>6. ListInv
  <2>1. UpToDate(view.items, view.total) BY <1>3, <1>4 DEF UpToDate
  <2> QED BY <2>1 DEF ListInv, NoLook
<1>7. SendsOnce BY DEF SendsOnce, NoBulk, Range
<1> QED BY <1>5, <1>6, <1>7

LEMMA ListMoves ==
  ASSUME FleetShape, ListInv, BulkInv, [FleetNext]_fleetVars
  PROVE  FleetShape' /\ ListInv'
<1> USE DEF FleetShape
<1>0. FleetSize \in Nat /\ PageSize \in Nat \ {0} BY FleetAssumption
<1>a. \A filter : Matching(filter) \in SUBSET Devices
                  /\ Cardinality(Matching(filter)) \in 0..FleetSize
  BY MatchesAre
<1>b. ASSUME ServerUntouched PROVE fleet' = fleet /\ off' = off
  BY <1>b DEF ServerUntouched
<1>c. ASSUME ServerUntouched, ListUntouched, UNCHANGED modal PROVE FleetShape' /\ ListInv'
  <2>1. FleetShape' BY <1>c DEF ServerUntouched, ListUntouched
  <2>2. ListInv' BY <1>b, <1>c DEF ListUntouched, ListInv, UpToDate, Matching
  <2> QED BY <2>1, <2>2
<1>d. ASSUME ServerUntouched, ListUntouched, modal'.what \in {"none", "disable", "remove"}
      PROVE  FleetShape' /\ ListInv'
  <2>1. FleetShape' BY <1>d DEF ServerUntouched, ListUntouched
  <2>2. ListInv' BY <1>b, <1>d DEF ListUntouched, ListInv, UpToDate, Matching
  <2> QED BY <2>1, <2>2
<1>e. ASSUME ServerUntouched, WorkUntouched, NEW q \in Queries, Requery(q),
             ~shrunk' => q.offset = 0 \/ Cardinality(Matching(q.filter)) > PageSize
      PROVE  FleetShape' /\ ListInv'
  <2>1. looked' = [phase |-> "asked", items |-> {}, total |-> 0] /\ looked' # NoLook
    BY <1>e, AsksAgain DEF Requery
  <2>2. FleetShape' BY <1>0, <1>e, <2>1 DEF ServerUntouched, WorkUntouched, Requery
  <2>3. ListInv' BY <1>b, <1>e, <2>1 DEF Requery, ListInv, Matching
  <2> QED BY <2>2, <2>3
<1>1. ASSUME NEW f \in Filters, Filter(f) PROVE FleetShape' /\ ListInv'
  <2> DEFINE q == [query EXCEPT !.filter = f, !.offset = 0]
  <2>1. q \in Queries /\ q.offset = 0
    <3>1. DOMAIN q = {"filter", "down", "offset"} /\ q = [x \in DOMAIN q |-> q[x]]
      BY DEF Queries
    <3>2. q.filter = f /\ q.down = query.down /\ q.offset = 0 BY DEF Queries
    <3>3. query.down \in BOOLEAN /\ 0 \in 0..FleetSize BY <1>0 DEF Queries
    <3> HIDE DEF q
    <3> QED BY <3>1, <3>2, <3>3 DEF Queries
  <2>2. Requery(q) /\ ServerUntouched /\ WorkUntouched BY <1>1 DEF Filter, Filtered
  <2> HIDE DEF q
  <2> QED BY <1>e, <2>1, <2>2
<1>2. CASE Sort
  <2> DEFINE q == [query EXCEPT !.down = ~query.down]
  <2>1. q \in Queries /\ q.offset = query.offset /\ q.filter = query.filter BY DEF Queries
  <2>2. Requery(q) /\ ServerUntouched /\ WorkUntouched /\ UNCHANGED shrunk BY <1>2 DEF Sort
  <2> HIDE DEF q
  <2> QED BY <1>e, <2>1, <2>2 DEF ListInv
<1>3. ASSUME NEW offset \in 0..FleetSize, TurnTo(offset) PROVE FleetShape' /\ ListInv'
  <2>1. view.total > PageSize BY <1>3 DEF TurnTo, HasPager
  <2>2. ~shrunk' => Cardinality(Matching(query.filter)) > PageSize BY <1>3, <2>1 DEF TurnTo
  <2> DEFINE q == [query EXCEPT !.offset = offset]
  <2>3. q \in Queries /\ q.offset = offset /\ q.filter = query.filter BY <1>3 DEF Queries
  <2>4. Requery(q) /\ ServerUntouched /\ WorkUntouched BY <1>3 DEF TurnTo
  <2> HIDE DEF q
  <2> QED BY <1>e, <2>2, <2>3, <2>4
<1>4. CASE PreviousPage
  <2> DEFINE o == IF query.offset > PageSize THEN query.offset - PageSize ELSE 0
  <2>1. o \in 0..FleetSize BY <1>0 DEF Queries
  <2>2. TurnTo(o) BY <1>4 DEF PreviousPage
  <2> HIDE DEF o
  <2> QED BY <1>3, <2>1, <2>2
<1>5. CASE NextPage
  <2>1. LastOffset \in 0..FleetSize BY <1>0, LastPage
  <2> DEFINE o == IF query.offset + PageSize < LastOffset THEN query.offset + PageSize ELSE LastOffset
  <2>2. o \in 0..FleetSize BY <1>0, <2>1 DEF Queries
  <2>3. TurnTo(o) BY <1>5 DEF NextPage
  <2> HIDE DEF o
  <2> QED BY <1>3, <2>2, <2>3
<1>6. CASE PollDevices
  <2>1. looked' = [phase |-> "asked", items |-> {}, total |-> 0] /\ looked' # NoLook
    BY <1>6, AsksAgain DEF PollDevices
  <2>2. FleetShape' BY <1>0, <1>6, <2>1 DEF PollDevices, ServerUntouched, WorkUntouched
  <2>3. ListInv' BY <1>b, <1>6, <2>1 DEF PollDevices, ListInv, Matching
  <2> QED BY <2>2, <2>3
<1>7. CASE ListDevices
  <2> DEFINE M == Matching(query.filter)
  <2>1. /\ looked' = [phase |-> "answered", items |-> PageOf(M, query.down, query.offset),
                      total |-> Cardinality(M)]
        /\ UNCHANGED <<query, view, shrunk>> /\ ServerUntouched /\ WorkUntouched
    BY <1>7 DEF ListDevices
  <2>2. PageOf(M, query.down, query.offset) \subseteq Devices BY <1>a DEF PageOf
  <2>3. FleetShape' BY <1>a, <2>1, <2>2 DEF ServerUntouched, WorkUntouched
  <2>4. looked' # NoLook BY <2>1 DEF NoLook
  <2>5. fleet' = fleet /\ off' = off BY <1>b, <2>1
  <2>6. /\ looked'.items = PageOf(Match(fleet', off', query'.filter), query'.down, query'.offset)
        /\ looked'.total = Cardinality(Match(fleet', off', query'.filter))
    BY <2>1, <2>5 DEF Matching
  <2>7. ListInv' BY <2>1, <2>4, <2>5, <2>6 DEF ListInv, UpToDate, Matching
  <2> QED BY <2>3, <2>7
<1>8. CASE ShowDevices
  <2>1. /\ looked.phase = "answered" /\ looked' = NoLook /\ UNCHANGED <<query, shrunk, stale>>
        /\ view' = [items |-> looked.items, total |-> looked.total]
        /\ ServerUntouched /\ WorkUntouched
    BY <1>8 DEF ShowDevices
  <2>2. FleetShape' BY <1>0, <2>1 DEF ServerUntouched, WorkUntouched, NoLook
  <2>3. fleet' = fleet /\ off' = off BY <1>b, <2>1
  <2>4. looked'.phase # "answered" /\ view'.items = looked.items /\ view'.total = looked.total
    BY <2>1 DEF NoLook
  <2>5. ~stale' => /\ view'.items = PageOf(Match(fleet', off', query'.filter), query'.down, query'.offset)
                   /\ view'.total = Cardinality(Match(fleet', off', query'.filter))
    BY <2>1, <2>3, <2>4 DEF ListInv, UpToDate, Matching
  <2>6. ListInv' BY <2>1, <2>3, <2>4, <2>5 DEF ListInv, UpToDate, Matching
  <2> QED BY <2>2, <2>6
<1>9. ASSUME NEW d \in Devices, Tick(d) \/ AskToRemove(d) PROVE FleetShape' /\ ListInv'
  BY <1>c, <1>d, <1>9 DEF Tick, AskToRemove
<1>10. CASE TickPage \/ ClearSelection \/ ConfirmRemove
  BY <1>c, <1>10 DEF TickPage, ClearSelection, ConfirmRemove
<1>11. ASSUME NEW kind \in Kinds, StartBulk(kind) PROVE FleetShape' /\ ListInv'
  BY <1>c, <1>11 DEF StartBulk
<1>12. CASE AskToDisable BY <1>d, <1>12 DEF AskToDisable
<1>13. \A what : CloseIf(what) => modal'.what \in {"none", "disable", "remove"}
  BY DEF CloseIf, NoDialog
<1>14. CASE BulkFails \/ RemoveFails BY <1>d, <1>13, <1>14 DEF BulkFails, RemoveFails
<1>15. CASE CancelDialog BY <1>d, <1>15 DEF CancelDialog, NoDialog
<1>16. CASE BulkSucceeds
  <2>1. /\ looked' = looked \/ looked' = [phase |-> "asked", items |-> {}, total |-> 0]
        /\ UNCHANGED <<query, view, shrunk, stale>> /\ ServerUntouched
        /\ modal'.what \in {"none", "disable", "remove"}
    BY <1>13, <1>16, AsksAgain DEF BulkSucceeds
  <2>2. FleetShape' BY <1>0, <2>1 DEF ServerUntouched
  <2>3. fleet' = fleet /\ off' = off BY <1>b, <2>1
  <2>4. CASE looked' = looked
    <3>1. UNCHANGED <<fleet, off, query, looked, view, shrunk, stale>> BY <2>1, <2>3, <2>4
    <3>2. ListInv' BY <3>1 DEF ListInv, UpToDate, Matching
    <3> QED BY <2>2, <3>2
  <2>5. CASE looked' = [phase |-> "asked", items |-> {}, total |-> 0]
    <3>1. looked' # NoLook /\ looked'.phase = "asked" BY <2>5, AsksAgain
    <3>2. ListInv' BY <2>1, <2>3, <3>1 DEF ListInv, Matching
    <3> QED BY <2>2, <3>2
  <2> QED BY <2>1, <2>2, <2>4, <2>5
<1>17. ASSUME Changed(fleet', off'), UNCHANGED query, FleetShape' PROVE ListInv'
  <2>1. stale' /\ (~shrunk' => query.offset = 0 \/ Cardinality(Matching(query.filter)') > PageSize)
    BY <1>17, Changes
  <2> QED BY <1>17, <2>1 DEF ListInv, Matching
<1>18. CASE BulkStep
  <2>1. /\ Head(bulk.left) \in fleet /\ UNCHANGED <<fleet, query, looked, view, modal>>
        /\ off' = off \/ off' = off \cup {Head(bulk.left)}
        /\ joined' \in {joined, joined \cup {Head(bulk.left)}, joined \ {Head(bulk.left)}}
        /\ Changed(fleet', off')
    BY <1>18 DEF BulkStep
  <2>2. FleetShape' BY <2>1
  <2> QED BY <1>17, <2>1, <2>2
<1>19. CASE Removed
  <2>1. /\ fleet' = fleet \ removal /\ off' = off \ removal /\ joined' = joined \ removal
        /\ Changed(fleet', off') /\ UNCHANGED <<query, view>>
        /\ modal'.what \in {"none", "disable", "remove"}
        /\ looked' = [phase |-> "asked", items |-> {}, total |-> 0]
    BY <1>13, <1>19, AsksAgain DEF Removed, Quits
  <2>2. FleetShape' BY <1>0, <2>1
  <2> QED BY <1>17, <2>1, <2>2
<1>20. CASE OtherOperator
  <2>1. /\ off' \subseteq fleet /\ UNCHANGED <<fleet, joined, query, looked, view, modal>>
        /\ Changed(fleet', off')
    BY <1>20 DEF OtherOperator
  <2>2. FleetShape' BY <2>1
  <2> QED BY <1>17, <2>1, <2>2
<1>21. CASE UNCHANGED fleetVars
  BY <1>c, <1>21 DEF fleetVars, ServerUntouched, ListUntouched
<1> QED
  BY <1>1, <1>2, <1>4, <1>5, <1>6, <1>7, <1>8, <1>9, <1>10, <1>11, <1>12, <1>14, <1>15, <1>16,
     <1>18, <1>19, <1>20, <1>21 DEF FleetNext

\* What is sent first is not sent again.
LEMMA FirstIsGone ==
  ASSUME NEW s \in Seq(Devices), s # << >>,
         \A i, j \in DOMAIN s : i # j => s[i] # s[j]
  PROVE  /\ \A i, j \in DOMAIN Tail(s) : i # j => Tail(s)[i] # Tail(s)[j]
         /\ Range(Tail(s)) \subseteq Range(s) \ {Head(s)}
<1> DEFINE n == Len(s)
<1>1. n \in Nat /\ n > 0 /\ DOMAIN s = 1..n /\ s[1] = Head(s) BY LenProperties
<1>2. Tail(s) \in Seq(Devices) OBVIOUS
<1>3. DOMAIN Tail(s) = 1..(n - 1) /\ \A i \in 1..(n - 1) : Tail(s)[i] = s[i + 1]
  BY <1>2, LenProperties, HeadTailProperties
<1> HIDE DEF n
<1>4. \A i \in 1..(n - 1) : i + 1 \in 1..n /\ i + 1 # 1 BY <1>1
<1>5. ASSUME NEW i \in 1..(n - 1), NEW j \in 1..(n - 1), i # j PROVE Tail(s)[i] # Tail(s)[j]
  <2>1. i + 1 \in 1..n /\ j + 1 \in 1..n /\ i + 1 # j + 1 BY <1>1, <1>5
  <2> QED BY <1>1, <1>3, <2>1
<1>6. ASSUME NEW i \in 1..(n - 1) PROVE Tail(s)[i] \in Range(s) \ {Head(s)}
  <2>1. i + 1 \in 1..n /\ 1 \in 1..n /\ i + 1 # 1 BY <1>1, <1>4
  <2>2. s[i + 1] # s[1] /\ s[i + 1] \in Range(s) BY <1>1, <2>1 DEF Range
  <2> QED BY <1>1, <1>3, <2>2
<1> QED BY <1>3, <1>5, <1>6 DEF Range

\* No request of a bulk action is sent twice.
LEMMA SentOnce ==
  ASSUME BulkInv, SendsOnce, [FleetNext]_fleetVars
  PROVE  SendsOnce'
<1>1. CASE UNCHANGED bulk BY <1>1 DEF SendsOnce
<1>2. ASSUME bulk' = NoBulk PROVE SendsOnce' BY <1>2 DEF SendsOnce, NoBulk, Range
<1>3. ASSUME NEW kind \in Kinds, StartBulk(kind) PROVE SendsOnce'
  <2>1. PICK s \in SetToSeqs(selected) :
          bulk' = [kind |-> kind, asked |-> selected, left |-> s, done |-> {}]
    BY <1>3 DEF StartBulk
  <2>2. \A i, j \in DOMAIN s : i # j => s[i] # s[j] BY DEF SetToSeqs
  <2> QED BY <2>1, <2>2 DEF SendsOnce
<1>4. CASE BulkStep
  <2> DEFINE s == bulk.left
             d == Head(bulk.left)
  <2>1. /\ s # << >>
        /\ bulk' = [bulk EXCEPT !.left = Tail(bulk.left), !.done = bulk.done \cup {d}]
    BY <1>4 DEF BulkStep
  <2>2. bulk'.left = Tail(s) /\ bulk'.done = bulk.done \cup {d} BY <2>1 DEF BulkInv
  <2>3. s \in Seq(Devices) BY DEF BulkInv
  <2>4. \A i, j \in DOMAIN s : i # j => s[i] # s[j] BY DEF SendsOnce
  <2>5. Range(s) \cap bulk.done = {} BY DEF SendsOnce
  <2>6. /\ \A i, j \in DOMAIN Tail(s) : i # j => Tail(s)[i] # Tail(s)[j]
        /\ Range(Tail(s)) \subseteq Range(s) \ {d}
    BY <2>1, <2>3, <2>4, FirstIsGone
  <2> HIDE DEF s, d
  <2>7. Range(Tail(s)) \cap (bulk.done \cup {d}) = {} BY <2>5, <2>6
  <2> QED BY <2>2, <2>6, <2>7 DEF SendsOnce
<1>5. CASE BulkFails \/ BulkSucceeds BY <1>2, <1>5 DEF BulkFails, StopEarly, BulkSucceeds
<1>6. ASSUME NEW f \in Filters, Filter(f) PROVE UNCHANGED bulk
  BY <1>6 DEF Filter, WorkUntouched
<1>7. CASE Sort \/ PreviousPage \/ NextPage \/ PollDevices \/ ListDevices \/ ShowDevices
  BY <1>1, <1>7 DEF Sort, PreviousPage, NextPage, TurnTo, PollDevices, ListDevices, ShowDevices,
     WorkUntouched
<1>8. ASSUME NEW d \in Devices, Tick(d) \/ AskToRemove(d) PROVE UNCHANGED bulk
  BY <1>8 DEF Tick, AskToRemove
<1>9. CASE TickPage \/ ClearSelection \/ AskToDisable \/ CancelDialog \/ ConfirmRemove
           \/ Removed \/ RemoveFails \/ OtherOperator
  BY <1>1, <1>9 DEF TickPage, ClearSelection, AskToDisable, CancelDialog, ConfirmRemove,
     Removed, RemoveFails, OtherOperator
<1>10. CASE UNCHANGED fleetVars BY <1>1, <1>10 DEF fleetVars
<1> QED
  BY <1>1, <1>3, <1>4, <1>5, <1>6, <1>7, <1>8, <1>9, <1>10 DEF FleetNext

FleetInv == FleetShape /\ ListInv /\ BulkInv /\ SendsOnce

THEOREM FleetInductive == FleetSpec => []FleetInv
<1>1. FleetInit => FleetInv BY FleetBegins, BulkInitial DEF FleetInv
<1>2. FleetInv /\ [FleetNext]_fleetVars => FleetInv'
  BY ListMoves, BulkMoves, SentOnce DEF FleetInv, FleetShape, Shown
<1> QED BY <1>1, <1>2, PTL DEF FleetSpec

\* The types of the list of devices (FleetTypeOK); what is left of a bulk action was not
\* sent yet.
THEOREM FleetTyped == FleetSpec => []FleetTypeOK
<1>1. FleetInv => FleetTypeOK
  BY DEF FleetInv, FleetShape, BulkInv, SendsOnce, FleetTypeOK, Shown, Queries
<1> QED BY <1>1, FleetInductive, PTL

\* Devices that match can be reached from a list that shows none of them (RowsAreReachable).
THEOREM RowsReachable == FleetSpec => []RowsAreReachable
<1>1. ASSUME FleetInv PROVE RowsAreReachable
  <2> SUFFICES ASSUME looked = NoLook, ~stale, view.total > 0, Shown = {}, ~shrunk
               PROVE  HasPager
    BY DEF RowsAreReachable
  <2> DEFINE M == Matching(query.filter)
  <2>1. FleetShape /\ PageSize \in Nat \ {0} BY <1>1, FleetAssumption DEF FleetInv
  <2>2. view.items = PageOf(M, query.down, query.offset) /\ view.total = Cardinality(M)
    BY <1>1 DEF FleetInv, ListInv, UpToDate
  <2>3. query.offset = 0 \/ Cardinality(M) > PageSize BY <1>1 DEF FleetInv, ListInv
  <2>4. M \in SUBSET Devices /\ query.down \in BOOLEAN /\ 0 < Cardinality(M)
    BY <2>1, <2>2, MatchesAre DEF FleetShape, Queries
  <2> HIDE DEF M
  <2>5. PICK d \in M : Before(M, d, query.down) = 0 BY <2>4, SomeoneAt
  <2>6. CASE query.offset = 0
    <3>1. 0 \in 0..(0 + PageSize - 1) BY <2>1
    <3>2. d \in PageOf(M, query.down, query.offset) BY <2>5, <2>6, <3>1 DEF PageOf
    <3> QED BY <2>2, <3>2 DEF Shown
  <2>7. CASE Cardinality(M) > PageSize BY <2>2, <2>7 DEF HasPager
  <2> QED BY <2>3, <2>6, <2>7
<1> QED BY <1>1, FleetInductive, PTL

\* A message of success is about devices that were all handled, each once (SuccessIsWhole).
THEOREM WholeSuccess == FleetSpec => SuccessIsWhole
<1> DEFINE Whole == claim' # claim => claim' = bulk.done
<1>1. FleetInv /\ [FleetNext]_fleetVars => [Whole]_fleetVars
  BY BulkMoves DEF FleetInv, FleetShape, Shown
<1>2. FleetSpec => [][Whole]_fleetVars BY <1>1, FleetInductive, PTL DEF FleetSpec
<1> QED BY <1>2 DEF SuccessIsWhole

-----------------------------------------------------------------------------
(* The order of the roles of a group *)

\* An order of assignments, each once.
Plans == {s \in Seq(Assignments) : IsInjective(s)}

LEMMA IndexAt ==
  ASSUME NEW s, NEW i \in DOMAIN s, IsInjective(s)
  PROVE  IndexIn(s, s[i]) = i
BY DEF IndexIn, IsInjective

LEMMA IndexOf ==
  ASSUME NEW s, NEW a \in Range(s)
  PROVE  IndexIn(s, a) \in DOMAIN s /\ s[IndexIn(s, a)] = a
BY DEF IndexIn, Range

\* An element is taken out of a sequence ...
LEMMA TakenOut ==
  ASSUME NEW s \in Seq(Assignments), NEW k \in DOMAIN s
  PROVE  /\ RemoveAt(s, k) \in Seq(Assignments) /\ Len(RemoveAt(s, k)) = Len(s) - 1
         /\ Len(s) - 1 \in Nat
         /\ \A i \in 1..(Len(s) - 1) : RemoveAt(s, k)[i] = IF i < k THEN s[i] ELSE s[i + 1]
<1>1. k \in 1..Len(s) /\ Len(s) \in Nat OBVIOUS
<1> DEFINE l == SubSeq(s, 1, k - 1)
           r == SubSeq(s, k + 1, Len(s))
<1>2. l \in Seq(Assignments) /\ Len(l) = k - 1 /\ \A i \in 1..(k - 1) : l[i] = s[i]
  BY <1>1, SubSeqProperties
<1>3. r \in Seq(Assignments) /\ Len(r) = Len(s) - k /\ \A i \in 1..(Len(s) - k) : r[i] = s[k + i]
  BY <1>1, SubSeqProperties
<1> HIDE DEF l, r
<1>4. /\ l \o r \in Seq(Assignments) /\ Len(l \o r) = Len(s) - 1
      /\ \A i \in 1..(Len(s) - 1) : (l \o r)[i] = IF i < k THEN l[i] ELSE r[i - (k - 1)]
  <2>1. /\ l \o r \in Seq(Assignments) /\ Len(l \o r) = Len(l) + Len(r)
        /\ \A i \in 1..(Len(l) + Len(r)) :
             (l \o r)[i] = IF i <= Len(l) THEN l[i] ELSE r[i - Len(l)]
    BY <1>2, <1>3, ConcatProperties
  <2>2. Len(l) + Len(r) = Len(s) - 1 BY <1>1, <1>2, <1>3
  <2>3. \A i \in 1..(Len(s) - 1) : i <= k - 1 <=> i < k BY <1>1
  <2> QED BY <1>2, <2>1, <2>2, <2>3
<1>5. ASSUME NEW i \in 1..(Len(s) - 1) PROVE (l \o r)[i] = IF i < k THEN s[i] ELSE s[i + 1]
  <2>1. CASE i < k BY <1>1, <1>2, <1>4, <2>1
  <2>2. CASE ~(i < k)
    <3>1. i - (k - 1) \in 1..(Len(s) - k) /\ k + (i - (k - 1)) = i + 1 BY <1>1, <2>2
    <3> QED BY <1>1, <1>3, <1>4, <2>2, <3>1
  <2> QED BY <2>1, <2>2
<1>6. RemoveAt(s, k) = l \o r BY DEF RemoveAt, l, r
<1>7. Len(s) - 1 \in Nat BY <1>1
<1> DEFINE t == l \o r
<1>8. /\ t \in Seq(Assignments) /\ Len(t) = Len(s) - 1 /\ RemoveAt(s, k) = t
      /\ \A i \in 1..(Len(s) - 1) : t[i] = IF i < k THEN s[i] ELSE s[i + 1]
  BY <1>4, <1>5, <1>6
<1> HIDE DEF t
<1> QED BY <1>7, <1>8

\* ... and put into one.
LEMMA PutIn ==
  ASSUME NEW s \in Seq(Assignments), NEW a \in Assignments, NEW k \in 1..(Len(s) + 1)
  PROVE  /\ InsertAt(s, k, a) \in Seq(Assignments) /\ Len(InsertAt(s, k, a)) = Len(s) + 1
         /\ \A i \in 1..(Len(s) + 1) :
              InsertAt(s, k, a)[i] = IF i < k THEN s[i] ELSE IF i = k THEN a ELSE s[i - 1]
<1>1. Len(s) \in Nat OBVIOUS
<1> DEFINE l == SubSeq(s, 1, k - 1)
           r == SubSeq(s, k, Len(s))
           m == l \o <<a>>
<1>2. l \in Seq(Assignments) /\ Len(l) = k - 1 /\ \A i \in 1..(k - 1) : l[i] = s[i]
  BY <1>1, SubSeqProperties
<1>3. r \in Seq(Assignments) /\ Len(r) = Len(s) - k + 1 /\ \A i \in 1..(Len(s) - k + 1) : r[i] = s[k + i - 1]
  BY <1>1, SubSeqProperties
<1> HIDE DEF l, r
<1>4. /\ m \in Seq(Assignments) /\ Len(m) = k
      /\ \A i \in 1..k : m[i] = IF i < k THEN l[i] ELSE a
  <2>1. <<a>> \in Seq(Assignments) /\ Len(<<a>>) = 1 /\ <<a>>[1] = a OBVIOUS
  <2> QED BY <1>1, <1>2, <2>1, ConcatProperties
<1> HIDE DEF m
<1>5. /\ m \o r \in Seq(Assignments) /\ Len(m \o r) = Len(s) + 1
      /\ \A i \in 1..(Len(s) + 1) : (m \o r)[i] = IF i <= k THEN m[i] ELSE r[i - k]
  <2>1. /\ m \o r \in Seq(Assignments) /\ Len(m \o r) = Len(m) + Len(r)
        /\ \A i \in 1..(Len(m) + Len(r)) :
             (m \o r)[i] = IF i <= Len(m) THEN m[i] ELSE r[i - Len(m)]
    BY <1>3, <1>4, ConcatProperties
  <2>2. Len(m) + Len(r) = Len(s) + 1 BY <1>1, <1>3, <1>4
  <2> QED BY <1>4, <2>1, <2>2
<1>6. ASSUME NEW i \in 1..(Len(s) + 1)
      PROVE  (m \o r)[i] = IF i < k THEN s[i] ELSE IF i = k THEN a ELSE s[i - 1]
  <2>1. CASE i <= k BY <1>1, <1>2, <1>4, <1>5, <2>1
  <2>2. CASE ~(i <= k)
    <3>1. i - k \in 1..(Len(s) - k + 1) /\ k + (i - k) - 1 = i - 1 BY <1>1, <2>2
    <3> QED BY <1>1, <1>3, <1>5, <2>2, <3>1
  <2> QED BY <2>1, <2>2
<1> DEFINE t == m \o r
<1>7. /\ t \in Seq(Assignments) /\ Len(t) = Len(s) + 1
      /\ \A i \in 1..(Len(s) + 1) : t[i] = IF i < k THEN s[i] ELSE IF i = k THEN a ELSE s[i - 1]
  BY <1>5, <1>6
<1>8. InsertAt(s, k, a) = t BY DEF InsertAt, l, r, m
<1> HIDE DEF t
<1> QED BY <1>7, <1>8

LEMMA WithoutIs ==
  ASSUME NEW s \in Plans, NEW a
  PROVE  /\ Without(s, a) \in Plans
         /\ Range(Without(s, a)) = Range(s) \ {a}
         /\ \A i, j \in DOMAIN Without(s, a) : i < j =>
              \E m, n \in DOMAIN s : m < n /\ Without(s, a)[i] = s[m] /\ Without(s, a)[j] = s[n]
         /\ a \in Range(s) => Len(Without(s, a)) = Len(s) - 1
<1>1. CASE a \notin Range(s) BY <1>1 DEF Without
<1>2. CASE a \in Range(s)
  <2> DEFINE k == IndexIn(s, a)
             t == RemoveAt(s, k)
             n == Len(s)
  <2>1. k \in DOMAIN s /\ s[k] = a BY <1>2, IndexOf
  <2>2. s \in Seq(Assignments) /\ \A i, j \in DOMAIN s : s[i] = s[j] => i = j
    BY DEF Plans, IsInjective
  <2>3. n \in Nat /\ DOMAIN s = 1..n BY <2>2
  <2> HIDE DEF k
  <2>4. /\ t \in Seq(Assignments) /\ Len(t) = n - 1 /\ n - 1 \in Nat
        /\ \A i \in 1..(n - 1) : t[i] = IF i < k THEN s[i] ELSE s[i + 1]
    BY <2>1, <2>2, TakenOut
  <2>5. DOMAIN t = 1..(n - 1) BY <2>4
  <2> HIDE DEF t, n
  <2>6. \A i, j \in DOMAIN t : t[i] = t[j] => i = j
    <3> SUFFICES ASSUME NEW i \in 1..(n - 1), NEW j \in 1..(n - 1), t[i] = t[j] PROVE i = j
      BY <2>5
    <3> DEFINE x == IF i < k THEN i ELSE i + 1
               y == IF j < k THEN j ELSE j + 1
    <3>1. x \in 1..n /\ y \in 1..n /\ (x = y => i = j) BY <2>1, <2>3
    <3>2. t[i] = s[x] /\ t[j] = s[y] BY <2>4
    <3> HIDE DEF x, y
    <3> QED BY <2>2, <2>3, <3>1, <3>2
  <2>7. Range(t) = Range(s) \ {a}
    <3>1. ASSUME NEW i \in 1..(n - 1) PROVE t[i] \in Range(s) \ {a}
      <4>1. i \in 1..n /\ i + 1 \in 1..n BY <2>3
      <4>2. CASE i < k
        <5>1. t[i] = s[i] /\ i # k BY <2>3, <2>4, <4>2
        <5> QED BY <2>1, <2>2, <2>3, <4>1, <5>1 DEF Range
      <4>3. CASE ~(i < k)
        <5>1. t[i] = s[i + 1] /\ i + 1 # k BY <2>1, <2>3, <2>4, <4>3
        <5> QED BY <2>1, <2>2, <2>3, <4>1, <5>1 DEF Range
      <4> QED BY <4>2, <4>3
    <3>2. ASSUME NEW i \in 1..n, i # k PROVE s[i] \in Range(t)
      <4>1. CASE i < k
        <5>1. i \in 1..(n - 1) /\ t[i] = s[i] BY <2>1, <2>3, <2>4, <4>1
        <5> QED BY <2>5, <5>1 DEF Range
      <4>2. CASE ~(i < k)
        <5>1. i - 1 \in 1..(n - 1) /\ t[i - 1] = s[i] BY <2>1, <2>3, <2>4, <3>2, <4>2
        <5> QED BY <2>5, <5>1 DEF Range
      <4> QED BY <4>1, <4>2
    <3> QED BY <2>1, <2>3, <2>5, <3>1, <3>2 DEF Range
  <2>8. ASSUME NEW i \in DOMAIN t, NEW j \in DOMAIN t, i < j
        PROVE  \E x, y \in DOMAIN s : x < y /\ t[i] = s[x] /\ t[j] = s[y]
    <3> DEFINE x == IF i < k THEN i ELSE i + 1
               y == IF j < k THEN j ELSE j + 1
    <3>1. x \in 1..n /\ y \in 1..n /\ x < y BY <2>1, <2>3, <2>5, <2>8
    <3>2. t[i] = s[x] /\ t[j] = s[y] BY <2>4, <2>5
    <3> HIDE DEF x, y
    <3> QED BY <2>3, <3>1, <3>2
  <2>9. Without(s, a) = t BY <1>2 DEF Without, t, k
  <2>10. t \in Plans BY <2>4, <2>6 DEF Plans, IsInjective
  <2> QED BY <2>4, <2>7, <2>8, <2>9, <2>10 DEF n
<1> QED BY <1>1, <1>2

\* A move keeps the assignments.
LEMMA MovedIs ==
  ASSUME NEW s \in Plans, NEW a \in Range(s), NEW k \in DOMAIN s
  PROVE  Moved(s, a, k) \in Plans /\ Range(Moved(s, a, k)) = Range(s)
<1> DEFINE t == Without(s, a)
           u == InsertAt(t, k, a)
           n == Len(s)
<1>1. t \in Plans /\ Range(t) = Range(s) \ {a} /\ Len(t) = n - 1 BY WithoutIs
<1>2. s \in Seq(Assignments) /\ n \in Nat /\ DOMAIN s = 1..n BY DEF Plans
<1>3. a \in Assignments BY <1>2 DEF Range
<1> HIDE DEF t, n
<1>4. /\ t \in Seq(Assignments) /\ \A i, j \in DOMAIN t : t[i] = t[j] => i = j
      /\ DOMAIN t = 1..(n - 1)
  BY <1>1, <1>2 DEF Plans, IsInjective
<1>5. /\ u \in Seq(Assignments) /\ Len(u) = n
      /\ \A i \in 1..n : u[i] = IF i < k THEN t[i] ELSE IF i = k THEN a ELSE t[i - 1]
  <2>1. Len(t) + 1 = n BY <1>1, <1>2
  <2>2. k \in 1..(Len(t) + 1) BY <1>2, <2>1
  <2>3. t \in Seq(Assignments) BY <1>4
  <2>4. /\ InsertAt(t, k, a) \in Seq(Assignments) /\ Len(InsertAt(t, k, a)) = Len(t) + 1
        /\ \A i \in 1..(Len(t) + 1) :
             InsertAt(t, k, a)[i] = IF i < k THEN t[i] ELSE IF i = k THEN a ELSE t[i - 1]
    BY <1>3, <2>2, <2>3, PutIn
  <2> QED BY <2>1, <2>4
<1>6. DOMAIN u = 1..n BY <1>2, <1>5
<1> HIDE DEF u
<1>7. \A i \in 1..n : \/ i < k /\ i \in DOMAIN t /\ u[i] = t[i]
                      \/ i = k /\ u[i] = a
                      \/ i > k /\ i - 1 \in DOMAIN t /\ u[i] = t[i - 1]
  BY <1>2, <1>4, <1>5
<1>8. \A i \in DOMAIN t : t[i] # a /\ t[i] \in Range(s)
  <2>1. \A i \in DOMAIN t : t[i] \in Range(t) BY DEF Range
  <2> QED BY <1>1, <2>1
<1>9. ASSUME NEW i \in 1..n, NEW j \in 1..n, u[i] = u[j] PROVE i = j
  <2>1. CASE i = k \/ j = k BY <1>7, <1>8, <1>9, <2>1
  <2>2. CASE i # k /\ j # k
    <3> DEFINE x == IF i < k THEN i ELSE i - 1
               y == IF j < k THEN j ELSE j - 1
    <3>1. x \in DOMAIN t /\ y \in DOMAIN t /\ u[i] = t[x] /\ u[j] = t[y]
      BY <1>2, <1>7, <2>2
    <3>2. x = y => i = j BY <1>2, <2>2
    <3> HIDE DEF x, y
    <3> QED BY <1>4, <1>9, <3>1, <3>2
  <2> QED BY <2>1, <2>2
<1>10. Range(u) \subseteq Range(s)
  <2>1. \A i \in 1..n : u[i] \in Range(s) BY <1>7, <1>8
  <2> QED BY <1>6, <2>1 DEF Range
<1>11. Range(s) \subseteq Range(u)
  <2>1. u[k] = a /\ k \in 1..n BY <1>2, <1>5
  <2>2. ASSUME NEW i \in 1..(n - 1) PROVE t[i] \in Range(u)
    <3>1. CASE i < k
      <4>1. i \in 1..n /\ u[i] = t[i] BY <1>2, <1>5, <3>1
      <4> QED BY <1>6, <4>1 DEF Range
    <3>2. CASE ~(i < k)
      <4>1. i + 1 \in 1..n /\ u[i + 1] = t[i] BY <1>2, <1>5, <3>2
      <4> QED BY <1>6, <4>1 DEF Range
    <3> QED BY <3>1, <3>2
  <2>3. \A b \in Range(s) : b = a \/ b \in Range(t) BY <1>1
  <2>4. \A b \in Range(t) : \E i \in 1..(n - 1) : b = t[i] BY <1>4 DEF Range
  <2>5. a \in Range(u) BY <1>6, <2>1 DEF Range
  <2> QED BY <2>2, <2>3, <2>4, <2>5
<1>12. u \in Plans BY <1>5, <1>6, <1>9 DEF Plans, IsInjective
<1> QED BY <1>10, <1>11, <1>12 DEF Moved, t, u

\* The rows hold a plan: its assignments, in its order, or all at the first position.
HoldsPlan(pos, s) ==
  /\ DOMAIN pos = Range(s)
  /\ \A a \in DOMAIN pos : pos[a] \in Nat
  /\ \/ \A i, j \in DOMAIN s : i < j => pos[s[i]] < pos[s[j]]
     \/ \A a \in DOMAIN pos : pos[a] = 0

LEMMA KeptRemoved ==
  ASSUME NEW s \in Plans, NEW pos, HoldsPlan(pos, s), NEW a
  PROVE  HoldsPlan(UnassignRole(pos, a), Without(s, a))
<1> DEFINE t == Without(s, a)
           new == UnassignRole(pos, a)
<1>1. /\ Range(t) = Range(s) \ {a}
      /\ \A i, j \in DOMAIN t : i < j =>
           \E m, n \in DOMAIN s : m < n /\ t[i] = s[m] /\ t[j] = s[n]
  BY WithoutIs
<1>2. DOMAIN new = DOMAIN pos \ {a} /\ \A b \in DOMAIN pos \ {a} : new[b] = pos[b]
  BY DEF UnassignRole
<1> HIDE DEF t, new
<1>3. DOMAIN new = Range(t) /\ \A b \in DOMAIN new : new[b] = pos[b] /\ pos[b] \in Nat
  BY <1>1, <1>2 DEF HoldsPlan
<1>4. ASSUME \A i, j \in DOMAIN s : i < j => pos[s[i]] < pos[s[j]],
             NEW i \in DOMAIN t, NEW j \in DOMAIN t, i < j
      PROVE  new[t[i]] < new[t[j]]
  <2>1. t[i] \in DOMAIN new /\ t[j] \in DOMAIN new BY <1>3 DEF Range
  <2>2. PICK m \in DOMAIN s, n \in DOMAIN s : m < n /\ t[i] = s[m] /\ t[j] = s[n]
    BY <1>1, <1>4
  <2> QED BY <1>3, <1>4, <2>1, <2>2
<1>5. (\A b \in DOMAIN pos : pos[b] = 0) => \A b \in DOMAIN new : new[b] = 0
  BY <1>2, <1>3
<1> QED BY <1>3, <1>4, <1>5 DEF HoldsPlan, t, new

\* The highest position is that of the last assignment, or the first.
LEMMA NextIs ==
  ASSUME NEW s \in Plans, NEW pos, HoldsPlan(pos, s)
  PROVE  /\ NextPosition(pos) \in Nat
         /\ \/ \A b \in DOMAIN pos : pos[b] < NextPosition(pos)
            \/ NextPosition(pos) = 0 /\ \A b \in DOMAIN pos : pos[b] = 0
<1> DEFINE P == {pos[a] : a \in DOMAIN pos}
           Top(p) == \A a \in DOMAIN pos : pos[a] <= p
           top == CHOOSE p \in P : Top(p)
<1>1. CASE DOMAIN pos = {} BY <1>1 DEF NextPosition
<1>2. CASE DOMAIN pos # {}
  <2>1. s \in Seq(Assignments) /\ DOMAIN s = 1..Len(s) /\ Len(s) \in Nat BY DEF Plans
  <2>2. Len(s) # 0
    <3> SUFFICES ASSUME Len(s) = 0 PROVE FALSE OBVIOUS
    <3>1. DOMAIN s = {} BY <2>1
    <3> QED BY <1>2, <3>1 DEF HoldsPlan, Range
  <2>3. \A i \in DOMAIN s : s[i] \in DOMAIN pos /\ pos[s[i]] \in Nat BY DEF HoldsPlan, Range
  <2>4. \A a \in DOMAIN pos : \E i \in DOMAIN s : a = s[i] BY DEF HoldsPlan, Range
  <2>5. \E p \in P : Top(p)
    <3>1. CASE \A i, j \in DOMAIN s : i < j => pos[s[i]] < pos[s[j]]
      <4> DEFINE l == Len(s)
      <4>1. l \in DOMAIN s /\ pos[s[l]] \in P BY <2>1, <2>2, <2>3
      <4>2. ASSUME NEW a \in DOMAIN pos PROVE pos[a] <= pos[s[l]]
        <5>1. PICK i \in DOMAIN s : a = s[i] BY <2>4
        <5>2. i = l \/ i < l BY <2>1
        <5> QED BY <2>3, <3>1, <4>1, <5>1, <5>2
      <4> QED BY <4>1, <4>2
    <3>2. CASE \A a \in DOMAIN pos : pos[a] = 0
      <4>1. PICK a \in DOMAIN pos : TRUE BY <1>2
      <4> QED BY <3>2, <4>1
    <3> QED BY <3>1, <3>2 DEF HoldsPlan
  <2>6. top \in P /\ Top(top) BY <2>5
  <2>7. NextPosition(pos) = IF top = 0 THEN 0 ELSE top + 1 BY <1>2 DEF NextPosition
  <2>8. top \in Nat /\ \A a \in DOMAIN pos : pos[a] \in Nat /\ pos[a] <= top BY <2>6 DEF HoldsPlan
  <2> HIDE DEF top
  <2> QED BY <2>7, <2>8
<1> QED BY <1>1, <1>2

LEMMA KeptAssigned ==
  ASSUME NEW s \in Plans, NEW pos, HoldsPlan(pos, s), NEW a \in Assignments,
         RoleOf(a) \notin RolesOf(Range(s))
  PROVE  Append(s, a) \in Plans /\ HoldsPlan(AssignRole(pos, a), Append(s, a))
<1> DEFINE n == Len(s)
           t == Append(s, a)
           new == AssignRole(pos, a)
           next == NextPosition(pos)
<1>1. s \in Seq(Assignments) /\ n \in Nat /\ DOMAIN s = 1..n BY DEF Plans
<1>2. /\ t \in Seq(Assignments) /\ DOMAIN t = 1..(n + 1)
      /\ t[n + 1] = a /\ \A i \in 1..n : t[i] = s[i]
  BY <1>1
<1>3. a \notin Range(s) /\ DOMAIN pos = Range(s) BY DEF RolesOf, HoldsPlan
<1>4. /\ DOMAIN new = DOMAIN pos \cup {a} /\ new[a] = next
      /\ \A b \in DOMAIN pos : new[b] = pos[b] /\ pos[b] \in Nat
  BY <1>3 DEF AssignRole, HoldsPlan
<1>5. next \in Nat /\ (\/ \A b \in DOMAIN pos : pos[b] < next
                       \/ next = 0 /\ \A b \in DOMAIN pos : pos[b] = 0)
  BY NextIs
<1> HIDE DEF n, t, new, next
<1>6. \A i \in 1..n : s[i] \in Range(s) BY <1>1 DEF Range
<1>7. Range(t) = Range(s) \cup {a}
  <2>1. n + 1 \in 1..(n + 1) /\ \A i \in 1..n : i \in 1..(n + 1) BY <1>1
  <2>2. \A i \in 1..(n + 1) : i = n + 1 \/ i \in 1..n BY <1>1
  <2> QED BY <1>1, <1>2, <2>1, <2>2 DEF Range
<1>8. t \in Plans
  <2> SUFFICES ASSUME NEW i \in 1..(n + 1), NEW j \in 1..(n + 1), t[i] = t[j] PROVE i = j
    BY <1>2 DEF Plans, IsInjective
  <2>1. \A k \in 1..(n + 1) : k = n + 1 \/ k \in 1..n BY <1>1
  <2>2. \A k, m \in 1..n : s[k] = s[m] => k = m BY <1>1 DEF Plans, IsInjective
  <2> QED BY <1>2, <1>3, <1>6, <2>1, <2>2
<1>9. \A i, j \in 1..n : i < j => new[t[i]] = pos[s[i]] /\ new[t[j]] = pos[s[j]]
  BY <1>2, <1>3, <1>4, <1>6
<1>10. CASE next = 0 /\ \A b \in DOMAIN pos : pos[b] = 0
  <2>1. \A b \in DOMAIN new : new[b] = 0 BY <1>4, <1>10
  <2> QED BY <1>3, <1>4, <1>5, <1>7, <1>8, <2>1 DEF HoldsPlan, t, new
<1>11. CASE /\ \A b \in DOMAIN pos : pos[b] < next
            /\ \A i, j \in DOMAIN s : i < j => pos[s[i]] < pos[s[j]]
  <2>1. ASSUME NEW i \in 1..(n + 1), NEW j \in 1..(n + 1), i < j PROVE new[t[i]] < new[t[j]]
    <3>1. i \in 1..n BY <1>1, <2>1
    <3>2. CASE j = n + 1
      <4>1. s[i] \in DOMAIN pos BY <1>3, <1>6, <3>1
      <4> QED BY <1>2, <1>4, <1>11, <3>1, <3>2, <4>1
    <3>3. CASE j \in 1..n BY <1>1, <1>9, <1>11, <2>1, <3>1, <3>3
    <3> QED BY <1>1, <3>2, <3>3
  <2> QED BY <1>2, <1>3, <1>4, <1>5, <1>7, <1>8, <2>1 DEF HoldsPlan, t, new
<1>12. CASE /\ \A b \in DOMAIN pos : pos[b] < next
            /\ \A b \in DOMAIN pos : pos[b] = 0
  \* All at the first position, and the next is another: there is none.
  <2>1. CASE n = 0
    <3>1. \A i, j \in 1..(n + 1) : ~(i < j) BY <2>1
    <3> QED BY <1>2, <1>3, <1>4, <1>5, <1>7, <1>8, <3>1 DEF HoldsPlan, t, new
  <2>2. CASE n # 0
    <3>1. 1 \in 1..n BY <1>1, <2>2
    <3>2. s[1] \in DOMAIN pos BY <1>3, <1>6, <3>1
    <3>3. DOMAIN pos # {} BY <3>2
    <3>4. next = 0
      <4> DEFINE P == {pos[b] : b \in DOMAIN pos}
                 top == CHOOSE p \in P : \A b \in DOMAIN pos : pos[b] <= p
      <4>1. P = {0} BY <1>12, <3>3
      <4>2. \E p \in P : \A b \in DOMAIN pos : pos[b] <= p BY <1>12, <4>1
      <4>3. top \in P BY <4>2
      <4>4. top = 0 BY <4>1, <4>3
      <4> HIDE DEF top
      <4>5. top = (CHOOSE p \in {pos[b] : b \in DOMAIN pos} : \A b \in DOMAIN pos : pos[b] <= p)
        BY DEF top
      <4> QED BY <4>4, <4>5 DEF NextPosition, next
    <3> QED BY <1>12, <3>2, <3>4
  <2> QED BY <2>1, <2>2
<1> QED BY <1>5, <1>10, <1>11, <1>12 DEF HoldsPlan

LEMMA KeptReordered ==
  ASSUME NEW s \in Plans, NEW pos, DOMAIN pos = Range(s)
  PROVE  HoldsPlan(Reorder(pos, s), s)
<1> DEFINE n == Len(s)
           new == Reorder(pos, s)
           before(a) == {i \in 1..(IndexIn(s, a) - 1) : s[i] \in DOMAIN pos}
<1>1. s \in Seq(Assignments) /\ n \in Nat /\ DOMAIN s = 1..n /\ IsInjective(s) BY DEF Plans
<1>2. DOMAIN new = Range(s) /\ \A a \in Range(s) : new[a] = Cardinality(before(a))
  BY DEF Reorder
<1> HIDE DEF n
<1>3. ASSUME NEW i \in 1..n PROVE s[i] \in Range(s) /\ new[s[i]] = i - 1 /\ i - 1 \in Nat
  <2>1. s[i] \in Range(s) /\ IndexIn(s, s[i]) = i BY <1>1, IndexAt DEF Range
  <2>2. \A j \in 1..(i - 1) : j \in 1..n BY <1>1
  <2>3. \A j \in 1..(i - 1) : s[j] \in DOMAIN pos BY <1>1, <2>2 DEF Range
  <2>4. before(s[i]) = 1..(i - 1) BY <2>1, <2>3
  <2>5. Cardinality(1..(i - 1)) = i - 1
    <3>1. 1 \in Int /\ i - 1 \in Int /\ i - 1 >= 0 OBVIOUS
    <3>2. Cardinality(1..(i - 1)) = IF 1 > i - 1 THEN 0 ELSE (i - 1) - 1 + 1 BY <3>1, FS_Interval
    <3> QED BY <3>1, <3>2
  <2> HIDE DEF before, new
  <2> QED BY <1>2, <2>1, <2>4, <2>5
<1> HIDE DEF new
<1>4. \A a \in Range(s) : \E i \in 1..n : a = s[i] BY <1>1 DEF Range
<1> QED BY <1>1, <1>2, <1>3, <1>4 DEF HoldsPlan, new

\* Sorted by its positions, a plan is the only order.
LEMMA OnlyOrder ==
  ASSUME NEW s \in Plans, NEW pos, HoldsPlan(pos, s), ~Tied(pos)
  PROVE  OrdersOf(pos) = {s}
<1> DEFINE n == Len(s)
<1>1. s \in Seq(Assignments) /\ n \in Nat /\ DOMAIN s = 1..n
      /\ \A i, j \in 1..n : s[i] = s[j] => i = j
  BY DEF Plans, IsInjective
<1>2. DOMAIN pos = Range(s) /\ \A a \in Range(s) : pos[a] \in Nat BY DEF HoldsPlan
<1>3. \A i \in 1..n : s[i] \in Range(s) BY <1>1 DEF Range
<1> HIDE DEF n
<1>4. \A i, j \in 1..n : i < j => pos[s[i]] < pos[s[j]]
  <2> SUFFICES ASSUME NEW i \in 1..n, NEW j \in 1..n, i < j PROVE pos[s[i]] < pos[s[j]]
    OBVIOUS
  <2>1. CASE \A a \in DOMAIN pos : pos[a] = 0
    <3>1. s[i] # s[j] BY <1>1
    <3> QED BY <1>2, <1>3, <2>1, <3>1 DEF Tied
  <2> QED BY <1>1, <2>1 DEF HoldsPlan
<1>5. Cardinality(Range(s)) = n /\ s \in [1..n -> Range(s)]
  <2>1. s \in [1..n -> Range(s)] BY <1>1, <1>3
  <2>2. IsFiniteSet(1..n) /\ Cardinality(1..n) = n
    <3>1. 1 \in Int /\ n \in Int BY <1>1
    <3>2. IsFiniteSet(1..n) /\ Cardinality(1..n) = IF 1 > n THEN 0 ELSE n - 1 + 1
      BY <3>1, FS_Interval
    <3> QED BY <1>1, <3>2
  <2>3. s \in Bijection(1..n, Range(s))
    BY <1>1, <2>1 DEF Bijection, Injection, Surjection, IsInjective, Range
  <2> QED BY <2>1, <2>2, <2>3, FS_Bijection DEF ExistsBijection
<1>6. s \in OrdersOf(pos)
  <2>1. \A i, j \in DOMAIN s : i < j => pos[s[i]] <= pos[s[j]] BY <1>1, <1>2, <1>3, <1>4
  <2>2. s \in SetToSeqs(DOMAIN pos) BY <1>1, <1>2, <1>5 DEF SetToSeqs
  <2> QED BY <2>1, <2>2 DEF OrdersOf
<1>7. ASSUME NEW t \in OrdersOf(pos) PROVE t = s
  <2>1. /\ t \in [1..n -> Range(s)]
        /\ \A i, j \in 1..n : i # j => t[i] # t[j]
        /\ \A i, j \in 1..n : i < j => pos[t[i]] <= pos[t[j]]
    BY <1>2, <1>5 DEF OrdersOf, SetToSeqs
  <2>2. \A a \in Range(s) : \E i \in 1..n : t[i] = a
    <3>1. IsFiniteSet(1..n) /\ Cardinality(1..n) = n
      <4>1. 1 \in Int /\ n \in Int BY <1>1
      <4>2. IsFiniteSet(1..n) /\ Cardinality(1..n) = IF 1 > n THEN 0 ELSE n - 1 + 1
        BY <4>1, FS_Interval
      <4> QED BY <1>1, <4>2
    <3>2. IsFiniteSet(Range(s))
      <4>1. s \in Surjection(1..n, Range(s)) BY <1>1, <1>5 DEF Surjection, Range
      <4> QED BY <3>1, <4>1, FS_Surjection
    <3>3. t \in Injection(1..n, Range(s)) BY <2>1 DEF Injection, IsInjective
    <3>4. t \in Surjection(1..n, Range(s)) BY <1>5, <3>1, <3>2, <3>3, FS_Injection
    <3> QED BY <3>4 DEF Surjection
  <2> DEFINE D == {i \in 1..n : t[i] # s[i]}
  <2>3. ASSUME D # {} PROVE FALSE
    <3>1. PICK i \in D : \A m \in D : i <= m
      <4>1. D \in SUBSET Nat OBVIOUS
      <4> HIDE DEF D
      <4> QED BY <2>3, <4>1, LeastNumber
    <3>2. i \in 1..n /\ t[i] # s[i] BY <3>1
    <3>3. \A j \in 1..n : j < i => t[j] = s[j] BY <1>1, <3>1
    <3> HIDE DEF D
    \* The element that t has here stands later in s ...
    <3>4. PICK j \in 1..n : t[i] = s[j] BY <1>1, <2>1, <3>2 DEF Range
    <3>5. i < j
      <4> SUFFICES ASSUME j <= i PROVE FALSE BY <1>1, <3>2, <3>4
      <4>1. j < i BY <1>1, <3>2, <3>4
      <4>2. t[j] = t[i] BY <3>3, <3>4, <4>1
      <4> QED BY <2>1, <3>2, <4>1, <4>2
    \* ... and the one of s later in t.
    <3>6. PICK m \in 1..n : t[m] = s[i] BY <1>3, <2>2, <3>2
    <3>7. i < m
      <4> SUFFICES ASSUME m <= i PROVE FALSE BY <1>1, <3>2, <3>6
      <4>1. m < i BY <1>1, <3>2, <3>6
      <4>2. s[m] = s[i] BY <3>3, <3>6, <4>1
      <4> QED BY <1>1, <3>2, <4>1, <4>2
    <3>8. pos[s[j]] <= pos[s[i]] BY <2>1, <3>2, <3>4, <3>6, <3>7
    <3>9. pos[s[i]] < pos[s[j]] BY <1>4, <3>2, <3>5
    <3>10. pos[s[i]] \in Nat /\ pos[s[j]] \in Nat BY <1>2, <1>3, <3>2
    <3> QED BY <3>8, <3>9, <3>10
  <2>4. \A i \in 1..n : t[i] = s[i] BY <2>3
  <2> HIDE DEF D
  <2>5. s = [i \in 1..n |-> s[i]] /\ t = [i \in 1..n |-> t[i]] BY <1>5, <2>1
  <2>6. [i \in 1..n |-> s[i]] = [i \in 1..n |-> t[i]] BY <2>4
  <2> QED BY <2>5, <2>6
<1> QED BY <1>6, <1>7

RequestKinds == {"order", "assign", "remove"}
RequestPhases == {"sent", "stored", "done", "failed"}
RoleRequest == [kind : RequestKinds, row : Assignments, order : Seq(Assignments),
                phase : RequestPhases]

\* Positions are numbers, and there is a highest.
Rows(pos) ==
  /\ DOMAIN pos \subseteq Assignments /\ IsFiniteSet(DOMAIN pos)
  /\ \E top \in Nat : \A a \in DOMAIN pos : pos[a] \in 0..top

RoleOrderShape ==
  /\ Rows(position)
  /\ listed \in Seq(Assignments) /\ goal \in Seq(Assignments)
  /\ looking \in [phase : {"idle", "asked", "answered"}, order : Seq(Assignments)]
  /\ requests \in Seq(RoleRequest)
  /\ reasons \subseteq {"gap", "overtaken", "failed", "other", "tie"}
  /\ strangers \in Nat

\* What a request makes of a plan.
Follows(q, s, t) ==
  /\ q.kind = "order" => t = q.order /\ Range(t) = Range(s)
  /\ q.kind = "assign" =>
       t = IF RoleOf(q.row) \in RolesOf(Range(s)) THEN s ELSE Append(s, q.row)
  /\ q.kind = "remove" => t = Without(s, q.row)

\* There is a plan after each request, which is the one before with that request; the last
\* is what was asked for, and the rows hold that of the last request that was stored.
Planned(k, plan) ==
  /\ plan[Len(requests)] = goal
  /\ \A i \in 1..Len(requests) :
       /\ Follows(requests[i], plan[i - 1], plan[i])
       /\ requests[i].phase = "sent" <=> i > k
       /\ requests[i].phase # "failed"
  /\ HoldsPlan(position, plan[k])

PlanInv ==
  reasons \subseteq {"tie"} =>
    /\ Tied(position) => "tie" \in reasons
    /\ \E k \in 0..Len(requests) : \E plan \in [0..Len(requests) -> Plans] : Planned(k, plan)

LEMMA GreatestNumber ==
  ASSUME NEW n \in Nat, NEW X \in SUBSET (0..n), X # {}
  PROVE  \E m \in X : \A k \in X : k <= m
<1> DEFINE B == {b \in Nat : \A k \in X : k <= b}
<1>1. n \in B OBVIOUS
<1>2. PICK b \in B : \A c \in B : b <= c
  <2>1. B \in SUBSET Nat /\ B # {} BY <1>1
  <2> HIDE DEF B
  <2> QED BY <2>1, LeastNumber
<1>3. b \in Nat /\ \A k \in X : k <= b BY <1>2
<1>4. b \in X
  <2> SUFFICES ASSUME b \notin X PROVE FALSE OBVIOUS
  <2>1. \A k \in X : k \in Nat /\ k < b BY <1>3
  <2>0. PICK k \in X : TRUE OBVIOUS
  <2>2. b - 1 \in Nat BY <1>3, <2>0, <2>1
  <2>3. b - 1 \in B BY <1>3, <2>1, <2>2
  <2> QED BY <1>2, <1>3, <2>3
<1> QED BY <1>3, <1>4

\* A row that comes in is behind all others.
LEMMA NextTyped ==
  ASSUME NEW pos, Rows(pos)
  PROVE  NextPosition(pos) \in Nat
<1> DEFINE P == {pos[a] : a \in DOMAIN pos}
           top == CHOOSE p \in P : \A a \in DOMAIN pos : pos[a] <= p
<1>1. CASE DOMAIN pos = {} BY <1>1 DEF NextPosition
<1>2. CASE DOMAIN pos # {}
  <2>1. PICK n \in Nat : \A a \in DOMAIN pos : pos[a] \in 0..n BY DEF Rows
  <2>2. P \in SUBSET (0..n) /\ P # {} BY <1>2, <2>1
  <2>3. PICK p \in P : \A k \in P : k <= p
    <3> HIDE DEF P
    <3> QED BY <2>2, GreatestNumber
  <2>4. \A a \in DOMAIN pos : pos[a] <= p BY <2>3
  <2>5. top \in P BY <2>4
  <2>6. NextPosition(pos) = IF top = 0 THEN 0 ELSE top + 1 BY <1>2 DEF NextPosition
  <2> HIDE DEF top
  <2>7. top \in Nat BY <2>1, <2>5
  <2> QED BY <2>6, <2>7
<1> QED BY <1>1, <1>2

LEMMA RowsKept ==
  ASSUME NEW pos, Rows(pos), NEW a \in Assignments
  PROVE  Rows(AssignRole(pos, a)) /\ Rows(UnassignRole(pos, a))
<1>1. PICK top \in Nat : \A b \in DOMAIN pos : pos[b] \in 0..top BY DEF Rows
<1>2. Rows(AssignRole(pos, a))
  <2>1. CASE RoleOf(a) \in RolesOf(DOMAIN pos) BY <2>1 DEF AssignRole
  <2>2. CASE RoleOf(a) \notin RolesOf(DOMAIN pos)
    <3> DEFINE next == NextPosition(pos)
               new == AssignRole(pos, a)
               m == IF next > top THEN next ELSE top
    <3>1. next \in Nat BY NextTyped
    <3>2. DOMAIN new = DOMAIN pos \cup {a}
          /\ \A b \in DOMAIN new : new[b] = IF b = a THEN next ELSE pos[b]
      BY <2>2 DEF AssignRole
    <3> HIDE DEF next, new
    <3>3. m \in Nat /\ \A b \in DOMAIN new : new[b] \in 0..m BY <1>1, <3>1, <3>2
    <3>4. IsFiniteSet(DOMAIN new) BY <3>2, FS_AddElement DEF Rows
    <3> QED BY <3>2, <3>3, <3>4 DEF Rows, new
  <2> QED BY <2>1, <2>2
<1>3. Rows(UnassignRole(pos, a))
  <2> DEFINE new == UnassignRole(pos, a)
  <2>1. DOMAIN new = DOMAIN pos \ {a} /\ \A b \in DOMAIN new : new[b] = pos[b]
    BY DEF UnassignRole
  <2> HIDE DEF new
  <2>2. IsFiniteSet(DOMAIN new) BY <2>1, FS_Subset DEF Rows
  <2>3. \A b \in DOMAIN new : new[b] \in 0..top BY <1>1, <2>1
  <2> QED BY <2>1, <2>2, <2>3 DEF Rows, new
<1> QED BY <1>2, <1>3

LEMMA RowsReordered ==
  ASSUME NEW pos, Rows(pos), NEW s \in Seq(Assignments)
  PROVE  Rows(Reorder(pos, s))
<1> DEFINE n == Len(s)
           new == Reorder(pos, s)
           before(a) == {i \in 1..(IndexIn(s, a) - 1) : s[i] \in DOMAIN pos}
<1>1. n \in Nat /\ DOMAIN s = 1..n OBVIOUS
<1>2. PICK top \in Nat : \A b \in DOMAIN pos : pos[b] \in 0..top BY DEF Rows
<1>3. DOMAIN new = DOMAIN pos
      /\ \A b \in DOMAIN pos : new[b] = IF b \in Range(s) THEN Cardinality(before(b)) ELSE pos[b]
  BY DEF Reorder
<1> HIDE DEF n, new
<1>4. ASSUME NEW a \in Range(s) PROVE Cardinality(before(a)) \in 0..n
  <2>1. IndexIn(s, a) \in 1..n BY <1>1, IndexOf
  <2> DEFINE k == IndexIn(s, a)
             B == before(a)
  <2>2. B \subseteq 1..n BY <1>1, <2>1
  <2>3. IsFiniteSet(1..n) /\ Cardinality(1..n) = n
    <3>1. 1 \in Int /\ n \in Int BY <1>1
    <3>2. IsFiniteSet(1..n) /\ Cardinality(1..n) = IF 1 > n THEN 0 ELSE n - 1 + 1
      BY <3>1, FS_Interval
    <3> QED BY <1>1, <3>2
  <2> HIDE DEF B
  <2>4. Cardinality(B) \in Nat /\ Cardinality(B) <= n BY <2>2, <2>3, FS_Subset, FS_CardinalityType
  <2> QED BY <1>1, <2>4 DEF B
<1> DEFINE m == IF n > top THEN n ELSE top
<1> HIDE DEF before
<1>5. m \in Nat /\ \A b \in DOMAIN new : new[b] \in 0..m BY <1>1, <1>2, <1>3, <1>4
<1> QED BY <1>3, <1>5 DEF Rows, new

\* An order of the rows lists rows.
LEMMA OrdersTyped ==
  ASSUME NEW pos, Rows(pos), NEW s \in OrdersOf(pos)
  PROVE  s \in Seq(Assignments)
<1>1. Cardinality(DOMAIN pos) \in Nat BY FS_CardinalityType DEF Rows
<1>2. s \in [1..Cardinality(DOMAIN pos) -> DOMAIN pos] BY DEF OrdersOf, SetToSeqs
<1>3. DOMAIN pos \subseteq Assignments BY DEF Rows
<1> QED BY <1>1, <1>2, <1>3

LEMMA WithoutTyped ==
  ASSUME NEW s \in Seq(Assignments), NEW a
  PROVE  /\ Without(s, a) \in Seq(Assignments)
         /\ a \in Range(s) => Len(Without(s, a)) = Len(s) - 1
<1>1. CASE a \in Range(s)
  <2>1. IndexIn(s, a) \in DOMAIN s BY <1>1, IndexOf
  <2> QED BY <1>1, <2>1, TakenOut DEF Without
<1>2. CASE a \notin Range(s) BY <1>2 DEF Without
<1> QED BY <1>1, <1>2

LEMMA MovedTyped ==
  ASSUME NEW s \in Seq(Assignments), NEW a \in Range(s), NEW k \in DOMAIN s
  PROVE  Moved(s, a, k) \in Seq(Assignments)
<1> DEFINE t == Without(s, a)
<1>1. t \in Seq(Assignments) /\ Len(t) = Len(s) - 1 BY WithoutTyped
<1>2. a \in Assignments /\ Len(s) \in Nat BY DEF Range
<1> HIDE DEF t
<1>3. k \in 1..(Len(t) + 1) BY <1>1, <1>2
<1>4. InsertAt(t, k, a) \in Seq(Assignments) BY <1>1, <1>2, <1>3, PutIn
<1> QED BY <1>4 DEF Moved, t

\* The initial orders.
LEMMA FirstOrders ==
  ASSUME NEW n \in 0..Len(RoleList)
  PROVE  [i \in 1..n |-> <<RoleList[i], 0>>] \in Plans
<1> DEFINE s == [i \in 1..n |-> <<RoleList[i], 0>>]
<1>1. RoleList \in Seq(Roles) /\ \A i, j \in DOMAIN RoleList : RoleList[i] = RoleList[j] => i = j
  BY RoleOrderAssumption DEF IsInjective
<1>2. n \in Nat /\ \A i \in 1..n : i \in DOMAIN RoleList /\ RoleList[i] \in Roles
  BY <1>1
<1>3. s \in [1..n -> Assignments] BY <1>2 DEF Assignments
<1>4. \A i, j \in 1..n : s[i] = s[j] => i = j BY <1>1, <1>2
<1>5. s \in Seq(Assignments) /\ DOMAIN s = 1..n BY <1>2, <1>3
<1> QED BY <1>4, <1>5 DEF Plans, IsInjective

LEMMA RoleOrderBegins == RoleOrderInit => RoleOrderShape /\ PlanInv
<1> SUFFICES ASSUME RoleOrderInit PROVE RoleOrderShape /\ PlanInv OBVIOUS
<1>1. PICK n \in 0..Len(RoleList) :
        LET order == [i \in 1..n |-> <<RoleList[i], 0>>]
        IN  /\ position = [a \in Range(order) |-> IndexIn(order, a) - 1]
            /\ listed = order /\ goal = order
  BY DEF RoleOrderInit
<1> DEFINE s == [i \in 1..n |-> <<RoleList[i], 0>>]
<1>2. s \in Plans /\ DOMAIN s = 1..n /\ n \in Nat
  <2>1. n \in Nat BY RoleOrderAssumption
  <2> QED BY <2>1, FirstOrders
<1>3. /\ position = [a \in Range(s) |-> IndexIn(s, a) - 1] /\ listed = s /\ goal = s
      /\ looking = [phase |-> "idle", order |-> << >>] /\ requests = << >>
      /\ reasons = {} /\ strangers = 0
  BY <1>1 DEF RoleOrderInit, NotLooking
<1> HIDE DEF s
<1>4. s \in Seq(Assignments) /\ IsInjective(s) /\ \A i \in 1..n : s[i] \in Range(s) /\ s[i] \in Assignments
  BY <1>2 DEF Plans, Range
<1>5. \A i \in 1..n : IndexIn(s, s[i]) = i BY <1>2, <1>4, IndexAt
<1>6. \A i \in 1..n : position[s[i]] = i - 1 BY <1>3, <1>4, <1>5
<1>7. \A a \in Range(s) : \E i \in 1..n : a = s[i] BY <1>2 DEF Range
<1>8. DOMAIN position = Range(s) BY <1>3
<1>9. Rows(position)
  <2>1. IsFiniteSet(Range(s))
    <3>1. s \in Surjection(1..n, Range(s)) BY <1>2, <1>4, <1>7 DEF Surjection, Range
    <3>2. IsFiniteSet(1..n) BY <1>2, FS_Interval
    <3> QED BY <3>1, <3>2, FS_Surjection
  <2>2. \A a \in Range(s) : position[a] \in 0..n BY <1>2, <1>6, <1>7
  <2>3. Range(s) \subseteq Assignments BY <1>4, <1>7
  <2> QED BY <1>2, <1>8, <2>1, <2>2, <2>3 DEF Rows
<1>10. RoleOrderShape
  <2>1. << >> \in Seq(Assignments) /\ << >> \in Seq(RoleRequest) OBVIOUS
  <2> QED BY <1>3, <1>4, <1>9, <2>1 DEF RoleOrderShape
<1>11. HoldsPlan(position, s)
  <2>1. \A a \in Range(s) : position[a] \in Nat BY <1>6, <1>7
  <2>2. \A i, j \in 1..n : i < j => position[s[i]] < position[s[j]] BY <1>6
  <2> QED BY <1>2, <1>8, <2>1, <2>2 DEF HoldsPlan
<1>12. ~Tied(position)
  <2> SUFFICES ASSUME NEW a \in Range(s), NEW b \in Range(s), position[a] = position[b] PROVE a = b
    BY <1>8 DEF Tied
  <2>1. PICK i \in 1..n : a = s[i] BY <1>7
  <2>2. PICK j \in 1..n : b = s[j] BY <1>7
  <2>3. i = j BY <1>6, <2>1, <2>2
  <2> QED BY <2>1, <2>2, <2>3
<1>13. PlanInv
  <2> DEFINE plan == [i \in 0..0 |-> s]
  <2>1. Len(requests) = 0 BY <1>3
  <2>2. plan \in [0..0 -> Plans] /\ plan[0] = s BY <1>2
  <2> HIDE DEF plan
  <2>3. Planned(0, plan) BY <1>3, <1>11, <2>1, <2>2 DEF Planned
  <2> QED BY <1>3, <1>12, <2>1, <2>2, <2>3 DEF PlanInv
<1> QED BY <1>10, <1>13

\* The last order is one of the orders.
LEMMA LastIs ==
  ASSUME requests \in Seq(RoleRequest), Orders # {}
  PROVE  LastOrder \in DOMAIN requests /\ requests[LastOrder] \in RoleRequest
<1>1. DOMAIN requests = 1..Len(requests) /\ Len(requests) \in Nat OBVIOUS
<1>2. Orders \in SUBSET (0..Len(requests)) BY <1>1 DEF Orders
<1>3. \E i \in Orders : \A j \in Orders : j <= i
  <2>1. PICK m \in Orders : \A k \in Orders : k <= m BY <1>1, <1>2, GreatestNumber
  <2> QED BY <2>1
<1>4. LastOrder \in Orders BY <1>3 DEF LastOrder
<1> QED BY <1>4 DEF Orders

LEMMA BaseTyped ==
  ASSUME RoleOrderShape
  PROVE  Base \in Seq(Assignments)
<1>1. CASE OrderPending
  <2>1. requests[LastOrder] \in RoleRequest BY <1>1, LastIs DEF OrderPending, RoleOrderShape
  <2>2. requests[LastOrder].order \in Seq(Assignments) BY <2>1 DEF RoleRequest
  <2> QED BY <1>1, <2>2 DEF Base
<1>2. CASE ~OrderPending BY <1>2 DEF Base, RoleOrderShape
<1> QED BY <1>1, <1>2

\* A step of the operator: a request more.
LEMMA RequestShape ==
  ASSUME RoleOrderShape, NEW kind \in RequestKinds, NEW a \in Assignments,
         NEW s \in Seq(Assignments), Request(kind, a, s), goal' \in Seq(Assignments),
         reasons' \in {reasons, reasons \cup {"gap"}}
  PROVE  RoleOrderShape'
<1> DEFINE q == [kind |-> kind, row |-> a, order |-> s, phase |-> "sent"]
<1>1. q \in RoleRequest BY DEF RoleRequest, RequestPhases
<1>2. requests' = Append(requests, q) /\ UNCHANGED <<position, listed, looking, strangers>>
  BY DEF Request
<1> HIDE DEF q
<1>3. requests' \in Seq(RoleRequest) BY <1>1, <1>2 DEF RoleOrderShape
<1> QED BY <1>2, <1>3 DEF RoleOrderShape, Rows

LEMMA RequestPlanned ==
  ASSUME RoleOrderShape, PlanInv, NEW kind, NEW a, NEW s, Request(kind, a, s),
         reasons' \subseteq {"tie"} => reasons' = reasons /\
           (goal \in Plans => /\ goal' \in Plans
              /\ Follows([kind |-> kind, row |-> a, order |-> s, phase |-> "sent"], goal, goal'))
  PROVE  PlanInv'
<1> DEFINE q == [kind |-> kind, row |-> a, order |-> s, phase |-> "sent"]
           n == Len(requests)
<1>1. requests' = Append(requests, q) /\ UNCHANGED position /\ q.phase = "sent"
  BY DEF Request
<1>2. SUFFICES ASSUME reasons' \subseteq {"tie"}
      PROVE  \E k \in 0..Len(requests') : \E plan \in [0..Len(requests') -> Plans] : Planned(k, plan)'
  BY <1>1 DEF PlanInv, Tied, Planned
<1>3. reasons' = reasons BY <1>2
<1>4. PICK k \in 0..n : \E plan \in [0..n -> Plans] : Planned(k, plan)
  BY <1>2, <1>3 DEF PlanInv
<1>5. PICK plan \in [0..n -> Plans] : Planned(k, plan) BY <1>4
<1>6. n \in Nat /\ requests \in Seq(RoleRequest) BY DEF RoleOrderShape
<1>7. plan[n] = goal /\ goal \in Plans
  <2>1. n \in 0..n BY <1>6
  <2> QED BY <1>5, <2>1 DEF Planned
<1>8. goal' \in Plans /\ Follows(q, goal, goal') BY <1>2, <1>7
<1> HIDE DEF q
<1>9. /\ Len(requests') = n + 1 /\ requests'[n + 1] = q
      /\ \A i \in 1..n : requests'[i] = requests[i]
  BY <1>1, <1>6
<1> HIDE DEF n
<1>10. PICK new \in [0..(n + 1) -> Plans] : new[n + 1] = goal' /\ \A i \in 0..n : new[i] = plan[i]
  <2> DEFINE p == [i \in 0..(n + 1) |-> IF i = n + 1 THEN goal' ELSE plan[i]]
  <2>1. \A i \in 0..(n + 1) : i = n + 1 \/ i \in 0..n BY <1>6
  <2>2. n + 1 \in 0..(n + 1) /\ \A i \in 0..n : i \in 0..(n + 1) /\ i # n + 1 BY <1>6
  <2>3. /\ p \in [0..(n + 1) -> Plans] /\ p[n + 1] = goal'
        /\ \A i \in 0..n : p[i] = plan[i]
    BY <1>5, <1>8, <2>1, <2>2
  <2> HIDE DEF p
  <2> QED BY <2>3
<1>11. k \in 0..(n + 1) /\ k \in Nat /\ k <= n BY <1>4, <1>6
<1>12. Planned(k, new)'
  <2>1. new[Len(requests')] = goal' BY <1>9, <1>10
  <2>2. HoldsPlan(position', new[k]) BY <1>1, <1>4, <1>5, <1>10 DEF Planned
  <2>3. ASSUME NEW i \in 1..(n + 1)
        PROVE  /\ Follows(requests'[i], new[i - 1], new[i])
               /\ requests'[i].phase = "sent" <=> i > k
               /\ requests'[i].phase # "failed"
    <3>1. CASE i \in 1..n
      <4>1. i \in 0..n /\ i - 1 \in 0..n BY <1>6, <3>1
      <4>2. new[i] = plan[i] /\ new[i - 1] = plan[i - 1] /\ requests'[i] = requests[i]
        BY <1>9, <1>10, <3>1, <4>1
      <4>3. /\ Follows(requests[i], plan[i - 1], plan[i])
            /\ requests[i].phase = "sent" <=> i > k
            /\ requests[i].phase # "failed"
        BY <1>5, <3>1 DEF Planned, n
      <4> QED BY <4>2, <4>3
    <3>2. CASE i = n + 1
      <4>1. i - 1 = n /\ n \in 0..n /\ i > k BY <1>6, <1>11, <3>2
      <4>2. new[i] = goal' /\ new[i - 1] = goal /\ requests'[i] = q
        BY <1>7, <1>9, <1>10, <3>2, <4>1
      <4> QED BY <1>1, <1>8, <4>1, <4>2
    <3>3. i \in 1..n \/ i = n + 1 BY <1>6
    <3> QED BY <3>1, <3>2, <3>3, Zenon
  <2> QED BY <1>9, <2>1, <2>2, <2>3 DEF Planned
<1> QED BY <1>9, <1>10, <1>11, <1>12

\* A move without a gap is one of what was asked for.
LEMMA MoveStep ==
  ASSUME RoleOrderShape, PlanInv, NEW a, NEW up \in BOOLEAN, Move(a, up)
  PROVE  RoleOrderShape' /\ PlanInv'
<1> DEFINE to(order) == IF up THEN IndexIn(order, a) - 1 ELSE IndexIn(order, a) + 1
           s == Moved(Base, a, to(Base))
           gap == (~OrderPending /\ listed # goal)
                  \/ (OrderPending /\ requests[LastOrder].order # goal)
<1>1. /\ a \in Range(listed) /\ a \in Range(Base) /\ to(Base) \in DOMAIN Base
      /\ Request("order", a, s)
      /\ goal' = IF a \in Range(goal) /\ to(goal) \in DOMAIN goal
                 THEN Moved(goal, a, to(goal)) ELSE goal
      /\ reasons' = reasons \cup (IF gap THEN {"gap"} ELSE {})
  BY DEF Move
<1>2. Base \in Seq(Assignments) /\ goal \in Seq(Assignments) BY BaseTyped DEF RoleOrderShape
<1>3. s \in Seq(Assignments) BY <1>1, <1>2, MovedTyped
<1>4. goal' \in Seq(Assignments)
  <2>1. CASE a \in Range(goal) /\ to(goal) \in DOMAIN goal
    <3>1. Moved(goal, a, to(goal)) \in Seq(Assignments) BY <1>2, <2>1, MovedTyped
    <3> QED BY <1>1, <2>1, <3>1
  <2>2. CASE ~(a \in Range(goal) /\ to(goal) \in DOMAIN goal) BY <1>1, <1>2, <2>2
  <2> QED BY <2>1, <2>2
<1>5. a \in Assignments BY <1>1, <1>2 DEF Range
<1>6. ~gap => Base = goal BY DEF Base
<1> HIDE DEF gap
<1>7. ~gap /\ goal \in Plans => goal' = s /\ s \in Plans /\ Range(s) = Range(goal)
  <2> SUFFICES ASSUME ~gap, goal \in Plans
               PROVE  goal' = s /\ s \in Plans /\ Range(s) = Range(goal)
    OBVIOUS
  <2>1. Base = goal BY <1>6
  <2>2. a \in Range(goal) /\ to(goal) \in DOMAIN goal BY <1>1, <2>1
  <2>3. goal' = Moved(goal, a, to(goal)) /\ s = Moved(goal, a, to(goal)) BY <1>1, <2>1, <2>2
  <2> QED BY <2>2, <2>3, MovedIs
<1> HIDE DEF s, to
<1>8. RoleOrderShape'
  <2>1. "order" \in RequestKinds BY DEF RequestKinds
  <2>2. reasons' \in {reasons, reasons \cup {"gap"}} BY <1>1
  <2> QED BY <1>1, <1>3, <1>4, <1>5, <2>1, <2>2, RequestShape
<1>9. PlanInv'
  <2> DEFINE q == [kind |-> "order", row |-> a, order |-> s, phase |-> "sent"]
  <2>1. ASSUME reasons' \subseteq {"tie"} PROVE ~gap /\ reasons' = reasons BY <1>1, <2>1
  <2>2. ASSUME ~gap, goal \in Plans PROVE goal' \in Plans /\ Follows(q, goal, goal')
    BY <1>7, <2>2 DEF Follows
  <2> QED BY <1>1, <2>1, <2>2, RequestPlanned
<1> QED BY <1>8, <1>9

LEMMA AssignStep ==
  ASSUME RoleOrderShape, PlanInv, NEW r \in Roles, Assign(r)
  PROVE  RoleOrderShape' /\ PlanInv'
<1> DEFINE a == <<r, Len(requests) + 1>>
           q == [kind |-> "assign", row |-> a, order |-> << >>, phase |-> "sent"]
<1>1. /\ Request("assign", a, << >>) /\ reasons' = reasons
      /\ goal' = IF r \in RolesOf(Range(goal)) THEN goal ELSE Append(goal, a)
  BY DEF Assign
<1>2. a \in Assignments /\ RoleOf(a) = r /\ goal \in Seq(Assignments)
  BY DEF RoleOrderShape, Assignments, RoleOf
<1> HIDE DEF a
<1>3. RoleOrderShape'
  <2>1. "assign" \in RequestKinds /\ << >> \in Seq(Assignments) /\ goal' \in Seq(Assignments)
    BY <1>1, <1>2 DEF RequestKinds
  <2> QED BY <1>1, <1>2, <2>1, RequestShape
<1>4. ASSUME goal \in Plans PROVE goal' \in Plans
  <2>1. CASE r \in RolesOf(Range(goal)) BY <1>1, <1>4, <2>1
  <2>2. CASE r \notin RolesOf(Range(goal))
    <3>1. a \notin Range(goal) BY <1>2, <2>2 DEF RolesOf
    <3> DEFINE n == Len(goal)
    <3>2. n \in Nat /\ DOMAIN goal = 1..n /\ \A i, j \in 1..n : goal[i] = goal[j] => i = j
      BY <1>2, <1>4 DEF Plans, IsInjective
    <3>3. /\ Append(goal, a) \in Seq(Assignments) /\ DOMAIN Append(goal, a) = 1..(n + 1)
          /\ Append(goal, a)[n + 1] = a /\ \A i \in 1..n : Append(goal, a)[i] = goal[i]
      BY <1>2
    <3>4. \A i \in 1..n : goal[i] # a BY <3>1, <3>2 DEF Range
    <3> HIDE DEF n
    <3>5. ASSUME NEW i \in 1..(n + 1), NEW j \in 1..(n + 1), Append(goal, a)[i] = Append(goal, a)[j]
          PROVE  i = j
      <4>1. \A k \in 1..(n + 1) : k = n + 1 \/ k \in 1..n BY <3>2
      <4> QED BY <3>2, <3>3, <3>4, <3>5, <4>1
    <3> QED BY <1>1, <2>2, <3>3, <3>5 DEF Plans, IsInjective
  <2> QED BY <2>1, <2>2
<1>5. Follows(q, goal, goal') BY <1>1, <1>2 DEF Follows
<1> QED BY <1>1, <1>3, <1>4, <1>5, RequestPlanned

LEMMA UnassignStep ==
  ASSUME RoleOrderShape, PlanInv, NEW a, Unassign(a)
  PROVE  RoleOrderShape' /\ PlanInv'
<1> DEFINE q == [kind |-> "remove", row |-> a, order |-> << >>, phase |-> "sent"]
<1>1. /\ a \in Range(listed) /\ Request("remove", a, << >>) /\ reasons' = reasons
      /\ goal' = Without(goal, a)
  BY DEF Unassign
<1>2. a \in Assignments /\ goal \in Seq(Assignments) BY <1>1 DEF RoleOrderShape, Range
<1>3. RoleOrderShape'
  <2>1. "remove" \in RequestKinds /\ << >> \in Seq(Assignments) /\ goal' \in Seq(Assignments)
    BY <1>1, <1>2, WithoutTyped DEF RequestKinds
  <2> QED BY <1>1, <1>2, <2>1, RequestShape
<1>4. goal \in Plans => goal' \in Plans BY <1>1, WithoutIs
<1>5. Follows(q, goal, goal') BY <1>1 DEF Follows
<1> QED BY <1>1, <1>3, <1>4, <1>5, RequestPlanned

\* The server takes the requests in order, or there is a reason.
LEMMA StoreRequestStep ==
  ASSUME RoleOrderShape, PlanInv, NEW i \in DOMAIN requests, StoreRequest(i)
  PROVE  RoleOrderShape' /\ PlanInv'
<1> DEFINE q == requests[i]
           n == Len(requests)
<1>1. /\ q.phase = "sent" /\ UNCHANGED <<listed, looking, goal, strangers>>
      /\ q.kind = "order" => position' = Reorder(position, q.order)
      /\ q.kind = "assign" => position' = AssignRole(position, q.row)
      /\ q.kind = "remove" => position' = UnassignRole(position, q.row)
      /\ requests' = [requests EXCEPT ![i].phase = "stored"]
      /\ reasons' = ((reasons \ {"tie"}) \cup (IF Tied(position') THEN {"tie"} ELSE {}))
                    \cup (IF \E j \in 1..i - 1 : requests[j].phase = "sent"
                          THEN {"overtaken"} ELSE {})
  BY DEF StoreRequest
<1>2. /\ requests \in Seq(RoleRequest) /\ n \in Nat /\ DOMAIN requests = 1..n /\ i \in 1..n
      /\ q \in RoleRequest
  BY DEF RoleOrderShape
<1>3. q.kind \in RequestKinds /\ q.row \in Assignments /\ q.order \in Seq(Assignments)
  BY <1>2 DEF RoleRequest
<1> DEFINE new == [q EXCEPT !.phase = "stored"]
<1>4. /\ new \in RoleRequest /\ new.phase = "stored" /\ new.kind = q.kind /\ new.row = q.row
      /\ new.order = q.order
  BY <1>2 DEF RoleRequest, RequestPhases
<1>5. requests' = [requests EXCEPT ![i] = new] BY <1>1, <1>2
<1> HIDE DEF new
<1>6. /\ requests' \in Seq(RoleRequest) /\ Len(requests') = n
      /\ requests'[i] = new /\ \A j \in 1..n : j # i => requests'[j] = requests[j]
  BY <1>2, <1>4, <1>5
<1> HIDE DEF n, q
<1>7. RoleOrderShape'
  <2>1. Rows(position) BY DEF RoleOrderShape
  <2>2. Rows(position') BY <1>1, <1>3, <2>1, RowsKept, RowsReordered DEF RequestKinds
  <2>3. Rows(position)' BY <2>2 DEF Rows
  <2>4. reasons' \subseteq {"gap", "overtaken", "failed", "other", "tie"}
    BY <1>1 DEF RoleOrderShape
  <2> QED BY <1>1, <1>6, <2>3, <2>4 DEF RoleOrderShape
<1>8. ASSUME reasons' \subseteq {"tie"}
      PROVE  /\ Tied(position') => "tie" \in reasons'
             /\ \E k \in 0..n : \E plan \in [0..n -> Plans] : Planned(k, plan)'
  <2>1. reasons \subseteq {"tie"} /\ \A j \in 1..i - 1 : requests[j].phase # "sent"
    <3>1. "overtaken" \notin reasons' BY <1>8
    <3> QED BY <1>1, <1>8, <3>1
  <2>2. PICK k \in 0..n : \E plan \in [0..n -> Plans] : Planned(k, plan)
    BY <2>1 DEF PlanInv, n
  <2>3. PICK plan \in [0..n -> Plans] : Planned(k, plan) BY <2>2
  <2>4. /\ plan[n] = goal /\ HoldsPlan(position, plan[k])
        /\ \A j \in 1..n : /\ Follows(requests[j], plan[j - 1], plan[j])
                           /\ requests[j].phase = "sent" <=> j > k
                           /\ requests[j].phase # "failed"
    BY <2>3 DEF Planned, n
  <2>5. k \in Nat /\ k + 1 = i
    <3>1. i > k /\ k \in Nat BY <1>1, <1>2, <2>2, <2>4 DEF q
    <3>2. ASSUME k + 1 < i PROVE FALSE
      <4>1. k + 1 \in 1..n /\ k + 1 \in 1..i - 1 /\ k + 1 > k BY <1>2, <3>1, <3>2
      <4> QED BY <2>1, <2>4, <4>1
    <3> QED BY <1>2, <3>1, <3>2
  <2>6. plan[k] \in Plans /\ plan[i] \in Plans /\ i - 1 = k /\ i \in 0..n BY <1>2, <2>2, <2>5
  <2>7. Follows(q, plan[k], plan[i]) BY <1>2, <2>4, <2>6 DEF q
  <2>8. HoldsPlan(position', plan[i])
    <3>1. CASE q.kind = "order"
      <4>1. plan[i] = q.order /\ Range(plan[i]) = Range(plan[k]) BY <2>7, <3>1 DEF Follows
      <4>2. DOMAIN position = Range(plan[i]) BY <2>4, <4>1 DEF HoldsPlan
      <4> QED BY <1>1, <2>6, <3>1, <4>1, <4>2, KeptReordered
    <3>2. CASE q.kind = "assign"
      <4>1. CASE RoleOf(q.row) \in RolesOf(Range(plan[k]))
        <5>1. plan[i] = plan[k] /\ position' = position
          BY <1>1, <2>4, <2>7, <3>2, <4>1 DEF Follows, AssignRole, HoldsPlan
        <5> QED BY <2>4, <5>1
      <4>2. CASE RoleOf(q.row) \notin RolesOf(Range(plan[k]))
        <5>1. plan[i] = Append(plan[k], q.row) BY <2>7, <3>2, <4>2 DEF Follows
        <5> QED BY <1>1, <1>3, <2>4, <2>6, <3>2, <4>2, <5>1, KeptAssigned
      <4> QED BY <4>1, <4>2
    <3>3. CASE q.kind = "remove"
      <4>1. plan[i] = Without(plan[k], q.row) BY <2>7, <3>3 DEF Follows
      <4> QED BY <1>1, <2>4, <2>6, <3>3, <4>1, KeptRemoved
    <3> QED BY <1>3, <3>1, <3>2, <3>3 DEF RequestKinds
  <2>9. ASSUME NEW j \in 1..n
        PROVE  /\ Follows(requests'[j], plan[j - 1], plan[j])
               /\ requests'[j].phase = "sent" <=> j > i
               /\ requests'[j].phase # "failed"
    <3>1. CASE j = i
      <4>1. Follows(requests'[j], plan[j - 1], plan[j])
        BY <1>4, <1>6, <2>6, <2>7, <3>1 DEF Follows
      <4>2. requests'[j].phase = "stored" /\ ~(j > i) BY <1>2, <1>4, <1>6, <3>1
      <4> QED BY <4>1, <4>2
    <3>2. CASE j # i
      <4>1. requests'[j] = requests[j] /\ (j > k <=> j > i) BY <1>2, <1>6, <2>5, <3>2
      <4> QED BY <2>4, <4>1
    <3> QED BY <3>1, <3>2
  <2>10. Planned(i, plan)' BY <1>1, <1>6, <2>4, <2>8, <2>9 DEF Planned
  <2> QED BY <1>1, <2>6, <2>10
<1>9. PlanInv' BY <1>6, <1>8 DEF PlanInv, Tied
<1> QED BY <1>7, <1>9

LEMMA AnswerStep ==
  ASSUME RoleOrderShape, PlanInv, NEW i \in DOMAIN requests, RequestAnswered(i) \/ RequestFailed(i)
  PROVE  RoleOrderShape' /\ PlanInv'
<1> DEFINE n == Len(requests)
<1>1. PICK p \in {"done", "failed"} :
        /\ requests' = [requests EXCEPT ![i].phase = p]
        /\ UNCHANGED <<position, listed, goal, strangers>>
        /\ looking' \in {looking, Looking}
        /\ reasons' = reasons \cup (IF p = "failed" THEN {"failed"} ELSE {})
        /\ p = "done" => requests[i].phase = "stored"
  BY DEF RequestAnswered, RequestFailed
<1>2. /\ requests \in Seq(RoleRequest) /\ n \in Nat /\ DOMAIN requests = 1..n /\ i \in 1..n
      /\ requests[i] \in RoleRequest
  BY DEF RoleOrderShape
<1> DEFINE new == [requests[i] EXCEPT !.phase = p]
<1>3. /\ new \in RoleRequest /\ new.phase = p /\ new.kind = requests[i].kind
      /\ new.row = requests[i].row /\ new.order = requests[i].order
  BY <1>2 DEF RoleRequest, RequestPhases
<1>4. requests' = [requests EXCEPT ![i] = new] BY <1>1, <1>2
<1> HIDE DEF new
<1>5. /\ requests' \in Seq(RoleRequest) /\ Len(requests') = n
      /\ requests'[i] = new /\ \A j \in 1..n : j # i => requests'[j] = requests[j]
  BY <1>2, <1>3, <1>4
<1> HIDE DEF n
<1>6. RoleOrderShape'
  <2>1. Looking \in [phase : {"idle", "asked", "answered"}, order : Seq(Assignments)]
    BY DEF Looking
  <2> QED BY <1>1, <1>5, <2>1 DEF RoleOrderShape, Rows
<1>7. ASSUME reasons' \subseteq {"tie"}
      PROVE  /\ Tied(position') => "tie" \in reasons'
             /\ \E k \in 0..n : \E plan \in [0..n -> Plans] : Planned(k, plan)'
  <2>1. reasons' = reasons /\ p = "done" /\ requests[i].phase = "stored" BY <1>1, <1>7
  <2>2. PICK k \in 0..n : \E plan \in [0..n -> Plans] : Planned(k, plan)
    BY <1>7, <2>1 DEF PlanInv, n
  <2>3. PICK plan \in [0..n -> Plans] : Planned(k, plan) BY <2>2
  <2>4. /\ plan[n] = goal /\ HoldsPlan(position, plan[k])
        /\ \A j \in 1..n : /\ Follows(requests[j], plan[j - 1], plan[j])
                           /\ requests[j].phase = "sent" <=> j > k
                           /\ requests[j].phase # "failed"
    BY <2>3 DEF Planned, n
  <2>5. ASSUME NEW j \in 1..n
        PROVE  /\ Follows(requests'[j], plan[j - 1], plan[j])
               /\ requests'[j].phase = "sent" <=> j > k
               /\ requests'[j].phase # "failed"
    <3>1. CASE j = i
      <4>1. Follows(requests'[j], plan[j - 1], plan[j]) BY <1>3, <1>5, <2>4, <3>1 DEF Follows
      <4>2. requests'[j].phase = "done" /\ ~(j > k) BY <1>3, <1>5, <2>1, <2>4, <3>1
      <4> QED BY <4>1, <4>2
    <3>2. CASE j # i BY <1>5, <2>4, <3>2
    <3> QED BY <3>1, <3>2
  <2>6. Planned(k, plan)' BY <1>1, <1>5, <2>4, <2>5 DEF Planned
  <2>7. Tied(position) => "tie" \in reasons BY <1>7, <2>1 DEF PlanInv
  <2> QED BY <1>1, <2>1, <2>6, <2>7
<1>8. PlanInv' BY <1>5, <1>7 DEF PlanInv, Tied
<1> QED BY <1>6, <1>8

LEMMA RoleOrderStep ==
  ASSUME RoleOrderShape, PlanInv, [RoleOrderNext]_roleOrderVars
  PROVE  RoleOrderShape' /\ PlanInv'
<1>1. ASSUME NEW a \in Range(listed), Move(a, TRUE) \/ Move(a, FALSE) \/ Unassign(a)
      PROVE  RoleOrderShape' /\ PlanInv'
  BY <1>1, MoveStep, UnassignStep
<1>2. ASSUME NEW r \in Roles, Assign(r) PROVE RoleOrderShape' /\ PlanInv'
  BY <1>2, AssignStep
<1>3. ASSUME NEW i \in DOMAIN requests, StoreRequest(i) \/ RequestAnswered(i) \/ RequestFailed(i)
      PROVE  RoleOrderShape' /\ PlanInv'
  BY <1>3, StoreRequestStep, AnswerStep
<1>4. ASSUME UNCHANGED <<position, requests, goal, reasons, strangers>>,
             listed' \in Seq(Assignments),
             looking' \in [phase : {"idle", "asked", "answered"}, order : Seq(Assignments)]
      PROVE  RoleOrderShape' /\ PlanInv'
  <2>1. RoleOrderShape' BY <1>4 DEF RoleOrderShape, Rows
  <2>2. PlanInv' BY <1>4 DEF PlanInv, Planned, Tied
  <2> QED BY <2>1, <2>2
<1>5. CASE PollRoles BY <1>4, <1>5 DEF PollRoles, Looking, RoleOrderShape
<1>6. CASE ReadRoles
  <2>1. PICK s \in OrdersOf(position) : looking' = [phase |-> "answered", order |-> s]
    BY <1>6 DEF ReadRoles
  <2>2. s \in Seq(Assignments) BY <2>1, OrdersTyped DEF RoleOrderShape
  <2> QED BY <1>4, <1>6, <2>1, <2>2 DEF ReadRoles, RoleOrderShape
<1>7. CASE ShowRoles BY <1>4, <1>7 DEF ShowRoles, NotLooking, RoleOrderShape
<1>8. CASE StrangerAssigns
  <2>1. PICK r \in Roles : position' = AssignRole(position, <<r, MaxRequests + strangers'>>)
    BY <1>8 DEF StrangerAssigns
  <2>2. /\ strangers' = strangers + 1 /\ strangers \in Nat /\ reasons' = reasons \cup {"other"}
        /\ UNCHANGED <<listed, looking, requests, goal>>
    BY <1>8 DEF StrangerAssigns, RoleOrderShape
  <2>3. <<r, MaxRequests + strangers'>> \in Assignments
    BY <2>2, RoleOrderAssumption DEF Assignments
  <2>4. Rows(position') BY <2>1, <2>3, RowsKept DEF RoleOrderShape
  <2>5. RoleOrderShape' BY <2>2, <2>4 DEF RoleOrderShape, Rows
  <2>6. PlanInv' BY <2>2 DEF PlanInv
  <2> QED BY <2>5, <2>6
<1>9. CASE UNCHANGED roleOrderVars BY <1>4, <1>9 DEF roleOrderVars, RoleOrderShape
<1> QED BY <1>1, <1>2, <1>3, <1>5, <1>6, <1>7, <1>8, <1>9 DEF RoleOrderNext

THEOREM RoleOrderInductive == RoleOrderSpec => [](RoleOrderShape /\ PlanInv)
BY RoleOrderBegins, RoleOrderStep, PTL DEF RoleOrderSpec

\* The types of the order of roles (RoleOrderTypeOK).
THEOREM RoleOrderTyped == RoleOrderSpec => []RoleOrderTypeOK
<1>1. ASSUME RoleOrderShape PROVE RoleOrderTypeOK
  <2>1. Range(listed) \subseteq Assignments /\ Range(goal) \subseteq Assignments
    BY <1>1 DEF RoleOrderShape, Range
  <2>2. \A i \in DOMAIN requests : requests[i] \in RoleRequest BY <1>1 DEF RoleOrderShape
  <2>3. \A i \in DOMAIN requests : requests[i].kind \in RequestKinds /\ requests[i].phase \in RequestPhases
    BY <2>2 DEF RoleRequest
  <2>4. Assigned \subseteq Assignments /\ \A a \in Assigned : position[a] \in Nat
    BY <1>1 DEF RoleOrderShape, Rows, Assigned
  <2> QED BY <1>1, <2>1, <2>3, <2>4 DEF RoleOrderShape, RoleOrderTypeOK, RequestKinds, RequestPhases
<1> QED BY <1>1, RoleOrderInductive, PTL

\* Quick moves, additions and removals of roles add up to the order that was asked for
\* (MovesAddUp).
THEOREM OrderAddsUp == RoleOrderSpec => []MovesAddUp
<1>1. ASSUME RoleOrderShape, PlanInv PROVE MovesAddUp
  <2> SUFFICES ASSUME \A i \in DOMAIN requests : requests[i].phase = "done", reasons = {}
               PROVE  OrdersOf(position) = {goal}
    BY DEF MovesAddUp
  <2> DEFINE n == Len(requests)
  <2>1. n \in Nat /\ DOMAIN requests = 1..n BY <1>1 DEF RoleOrderShape
  <2>2. ~Tied(position) /\ \E k \in 0..n : \E plan \in [0..n -> Plans] : Planned(k, plan)
    BY <1>1 DEF PlanInv
  <2>3. PICK k \in 0..n : \E plan \in [0..n -> Plans] : Planned(k, plan) BY <2>2
  <2>4. PICK plan \in [0..n -> Plans] : Planned(k, plan) BY <2>3
  <2>5. /\ plan[n] = goal /\ HoldsPlan(position, plan[k])
        /\ \A j \in 1..n : requests[j].phase = "sent" <=> j > k
    BY <2>4 DEF Planned
  <2>6. k = n
    <3> SUFFICES ASSUME k # n PROVE FALSE OBVIOUS
    <3> HIDE DEF n
    <3>1. n \in 1..n /\ n > k BY <2>1, <2>3
    <3> QED BY <2>1, <2>5, <3>1
  <2>7. goal \in Plans BY <2>1, <2>4, <2>5
  <2> QED BY <2>2, <2>5, <2>6, <2>7, OnlyOrder
<1> QED BY <1>1, RoleOrderInductive, PTL

=============================================================================
