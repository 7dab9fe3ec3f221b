----------------------- MODULE JobQueueOutcomes_proofs ----------------------
(***************************************************************************)
(* Theorems about what becomes of jobs, for any number of devices, jobs    *)
(* and attempts:                                                           *)
(*   - OneAtATime: a device never has two automatic applies open;          *)
(*   - Earned: a delivered retry follows a failure of the attempt before;  *)
(*   - Alerted: an apply that used up its attempts has been reported;      *)
(*   - NothingLeftBehind: while nothing is lost and no device is edited, a *)
(*     delivered job is in its agent's hands or its verdict on the way;    *)
(*   - Converged: with one request at a time and no retention, a device    *)
(*     shown as converged did run its present spec last.                   *)
(* The first three hold for every choice of threads, faults, edits and     *)
(* operators.  Two check-ins of one device decide from the same queries    *)
(* and know nothing of each other.  What keeps them apart is the Device    *)
(* row that both write: the one that commits first voids the other         *)
(* (Touches).  Their invariant therefore speaks of the table as each unit  *)
(* of work sees it, and a step is judged by what it leaves of that view.   *)
(***************************************************************************)
EXTENDS JobQueue_proofs

-----------------------------------------------------------------------------
(* Automatic applies and their retries *)

\* r is the row of the same job as s.
SameJob(s, r) ==
  r.dev = s.dev /\ r.type = s.type /\ r.attempt = s.attempt /\ r.auto = s.auto

\* Row r no longer is, and never will be, a delivery on record.
Spent(r) ==
  r.status \in {"ABSENT", "DELETED"} \/ (r.hash = NoHash /\ r.status \in Terminal)

\* Row r was delivered and failed, or it is no longer known how it ended.
Lost(r) == r.hash # NoHash /\ r.status \in {"FAILED", "TIMED_OUT", "DELETED"}

\* In table v, job j was preceded by a failure of the attempt before, and
\* no job in between counts as a delivery of the same attempt.
EarnedIn(v, j) ==
  \E k \in JobId :
    /\ k < j /\ v[k].dev = v[j].dev /\ v[k].attempt = v[j].attempt - 1 /\ Lost(v[k])
    /\ \A i \in JobId : k <= i /\ i < j /\ v[i].dev = v[j].dev
                          /\ v[i].attempt = v[j].attempt => Spent(v[i])

\* An apply that failed for good.
FailsForGood(r) == LastAttempt(r) /\ r.status \in {"FAILED", "TIMED_OUT"}

\* The unit of work of t is to insert job j.
Inserts(t, j) == Dirty(t, j) /\ job[j].status = "ABSENT"

\* Only applies are automatic or retries.
OnlyApplies(r) == r.auto \/ r.attempt > 1 => r.type = "APPLY_CONFIG"

TableInv ==
  /\ \A j \in JobId :
       /\ job[j].status = "ABSENT" =>
            job[j].attempt = 1 /\ job[j].hash = NoHash /\ ~job[j].auto
       /\ OnlyApplies(job[j])
       /\ job[j].attempt > 1 => EarnedIn(job, j)
       /\ FailsForGood(job[j]) => j \in alerts
  /\ OneAutomaticApply

\* An automatic apply that t is to insert is the only open one in its view.
AloneInView(t, j) ==
  \A k \in JobId \ {j} :
    View(t)[k].dev = unit[t].row[j].dev /\ View(t)[k].auto => View(t)[k].status \notin Open

\* What t is to insert is as good as what is in the table; an automatic
\* apply or a retry is inserted by a unit that also writes the Device row.
InsertOK(t, j) ==
  LET r == unit[t].row[j] IN
  /\ OnlyApplies(r)
  /\ r.auto \/ r.attempt > 1 => Touches(t, r.dev)
  /\ r.auto => AloneInView(t, j)
  /\ r.attempt > 1 => /\ EarnedIn(View(t), j)
                      /\ \A k \in JobId : k > j /\ job[k].dev = r.dev => job[k].attempt = 1

UnitOK(t) ==
  \A j \in JobId :
    /\ Dirty(t, j) /\ job[j].status # "ABSENT" => SameJob(job[j], unit[t].row[j])
    /\ Inserts(t, j) => InsertOK(t, j)
    /\ FailsForGood(unit[t].row[j]) => j \in alerts

RetryInv == TableInv /\ \A t \in Workers : UnitOK(t)

-----------------------------------------------------------------------------
(* What a step leaves of a table, and of a view *)

\* Row r is what row s may become without taking part in a decision of drift
\* detection: no delivery reappears and no failure is forgotten.
Succeeds(s, r) ==
  /\ SameJob(s, r)
  /\ r.status \in Open => s.status \in Open
  /\ Spent(s) => Spent(r)
  /\ Lost(s) => Lost(r)

LEMMA SucceedsRefl == ASSUME NEW s PROVE Succeeds(s, s)
BY DEF Succeeds, SameJob

\* A job with another device or attempt 1 may appear anywhere.
Harmless(s, r, d) == s.status = "ABSENT" /\ (r.attempt = 1 \/ r.dev # d)

\* A retry stays earned when the table before it changes in this way.
LEMMA EarnedKept ==
  ASSUME NEW v \in [JobId -> Row], NEW w \in [JobId -> Row], NEW j \in JobId,
         EarnedIn(v, j), v[j].attempt > 1, SameJob(v[j], w[j]),
         \A i \in JobId : i < j => Succeeds(v[i], w[i]) \/ Harmless(v[i], w[i], w[j].dev)
  PROVE  EarnedIn(w, j)
<1>1. PICK k \in JobId :
        /\ k < j /\ v[k].dev = v[j].dev /\ v[k].attempt = v[j].attempt - 1 /\ Lost(v[k])
        /\ \A i \in JobId : k <= i /\ i < j /\ v[i].dev = v[j].dev
                              /\ v[i].attempt = v[j].attempt => Spent(v[i])
  BY DEF EarnedIn
<1>2. Succeeds(v[k], w[k])
  BY <1>1 DEF Harmless, Lost
<1>3. ASSUME NEW i \in JobId, k <= i, i < j, w[i].dev = w[j].dev, w[i].attempt = w[j].attempt
      PROVE  Spent(w[i])
  <2>1. Succeeds(v[i], w[i])
    <3>1. w[i].attempt > 1
      BY <1>3 DEF SameJob
    <3> QED BY <1>3, <3>1 DEF Harmless, Row
  <2> QED
    BY <1>1, <1>3, <2>1 DEF Succeeds, SameJob
<1> QED
  BY <1>1, <1>2, <1>3 DEF EarnedIn, Succeeds, SameJob

\* The unit of work of t keeps what it is to write.
Kept(t) ==
  /\ unit'[t].row = unit[t].row /\ unit'[t].step = unit[t].step
  /\ unit'[t].dev = unit[t].dev

\* The step leaves alone what t is to write, and of what else t saw it only
\* takes jobs further, or adds jobs t has no say about.
Bystander(t) ==
  /\ Kept(t)
  /\ \A j \in JobId :
       IF Dirty(t, j)
         THEN job'[j].status = job[j].status /\ SameJob(job[j], job'[j])
         ELSE \/ Succeeds(job[j], job'[j])
              \/ /\ job[j].status = "ABSENT"
                 /\ (job'[j].attempt = 1 /\ ~job'[j].auto) \/ ~Touches(t, job'[j].dev)

LEMMA BystanderOK ==
  ASSUME TypeOK, TypeOK', RetryInv, alerts \subseteq alerts',
         NEW t \in Workers, Bystander(t)
  PROVE  UnitOK(t)'
<1>0. /\ View(t) \in [JobId -> Row] /\ View(t)' \in [JobId -> Row]
      /\ job \in [JobId -> Row] /\ job' \in [JobId -> Row]
      /\ unit[t].row \in [JobId -> Row] /\ unit'[t].row = unit[t].row
      /\ \A d : Touches(t, d)' = Touches(t, d)
      /\ \A j \in JobId : Dirty(t, j)' = Dirty(t, j)
  <2>1. View(t)' \in [JobId -> Row]
    BY DEF View, TypeOK, Unit
  <2> QED
    BY <2>1, ViewType DEF Bystander, Kept, TypeOK, Unit, Touches, Dirty
<1>1. ASSUME NEW j \in JobId
      PROVE  /\ Dirty(t, j) => View(t)[j] = unit[t].row[j] /\ View(t)'[j] = unit[t].row[j]
             /\ ~Dirty(t, j) => View(t)[j] = job[j] /\ View(t)'[j] = job'[j]
  BY <1>0 DEF View
<1>2. ASSUME NEW j \in JobId, Dirty(t, j), job'[j].status # "ABSENT"
      PROVE  SameJob(job'[j], unit'[t].row[j])
  BY <1>0, <1>2 DEF RetryInv, UnitOK, Bystander, SameJob
<1>3. ASSUME NEW j \in JobId, Inserts(t, j)'
      PROVE  InsertOK(t, j)'
  <2> DEFINE r == unit[t].row[j]
  <2>1. Inserts(t, j) /\ InsertOK(t, j) /\ unit'[t].row[j] = r /\ Dirty(t, j)
    BY <1>0, <1>3 DEF Inserts, Bystander, RetryInv, UnitOK
  <2>2. /\ OnlyApplies(r)
        /\ r.auto \/ r.attempt > 1 => Touches(t, r.dev)
        /\ r.auto => AloneInView(t, j)
        /\ r.attempt > 1 => /\ EarnedIn(View(t), j)
                            /\ \A k \in JobId : k > j /\ job[k].dev = r.dev => job[k].attempt = 1
    BY <2>1 DEF InsertOK
  <2>3. ASSUME r.auto, NEW k \in JobId \ {j}, View(t)'[k].dev = r.dev, View(t)'[k].auto
        PROVE  View(t)'[k].status \notin Open
    <3>1. View(t)[k].dev = r.dev /\ View(t)[k].auto => View(t)[k].status \notin Open
      BY <2>2, <2>3 DEF AloneInView
    <3> QED
      BY <1>1, <2>2, <2>3, <3>1 DEF Bystander, Succeeds, SameJob
  <2>4. ASSUME r.attempt > 1 PROVE EarnedIn(View(t)', j)
    <3>1. View(t)[j] = r /\ View(t)'[j] = r /\ SameJob(View(t)[j], View(t)'[j])
      BY <1>1, <2>1 DEF SameJob
    <3>2. ASSUME NEW i \in JobId
          PROVE  Succeeds(View(t)[i], View(t)'[i]) \/ Harmless(View(t)[i], View(t)'[i], r.dev)
      BY <1>1, <2>2, <2>4, SucceedsRefl DEF Bystander, Harmless
    <3> QED
      BY <1>0, <2>2, <2>4, <3>1, <3>2, EarnedKept
  <2>5. ASSUME r.attempt > 1, NEW k \in JobId, k > j, job'[k].dev = r.dev
        PROVE  job'[k].attempt = 1
    BY <2>2, <2>5 DEF Bystander, Succeeds, SameJob
  <2> QED
    BY <1>0, <2>1, <2>2, <2>3, <2>4, <2>5 DEF InsertOK, AloneInView
<1>4. ASSUME NEW j \in JobId, FailsForGood(unit'[t].row[j])
      PROVE  j \in alerts'
  BY <1>0, <1>4 DEF RetryInv, UnitOK
<1> QED
  BY <1>0, <1>2, <1>3, <1>4 DEF UnitOK

\* A unit of work that has nothing to write is in order.
LEMMA CleanOK ==
  ASSUME NEW t \in Workers, unit'[t].row = Clean
  PROVE  UnitOK(t)'
<1>1. \A j \in JobId : unit'[t].row[j].status = "ABSENT"
  BY NoRowType
<1> QED
  BY <1>1 DEF UnitOK, Dirty, Inserts, FailsForGood

-----------------------------------------------------------------------------
(* Steps that write the table at once *)

\* What a request that is one step may make of row s: it cancels an open
\* job, reports a delivered one, notes the time, deletes a finished one, or
\* inserts a tunnel.
Touched(s, r) ==
  \/ r = s
  \/ /\ SameJob(s, r) /\ r.hash = s.hash
     /\ <<s.status, r.status>> \in
          (Open \X {"CANCELLED"}) \cup (Active \X Active) \cup {<<"PENDING", "PENDING">>}
            \cup (Terminal \X {"DELETED"})
  \/ /\ s.status = "ABSENT" /\ r.status = "PENDING" /\ r.type = "OPEN_TUNNEL"
     /\ r.attempt = 1 /\ ~r.auto

\* Such a step takes the row further or inserts a job of attempt 1.
LEMMA TouchedSucceeds ==
  ASSUME NEW s \in Row, NEW r \in Row, Touched(s, r)
  PROVE  \/ Succeeds(s, r)
         \/ s.status = "ABSENT" /\ r.attempt = 1 /\ ~r.auto
BY DEF Touched, Succeeds, SameJob, Open, Active, Terminal, Spent, Lost

\* A unit of work either keeps its rows, none of which was written, or has
\* nothing left to write.
Passed(t) ==
  \/ /\ Kept(t)
     /\ \A j \in JobId : Dirty(t, j) =>
          job'[j].status = job[j].status /\ SameJob(job[j], job'[j])
  \/ unit'[t].row = Clean

\* A step that does this to the table and to the units keeps the invariant.
LEMMA DirectOK ==
  ASSUME TypeOK, TypeOK', RetryInv, alerts \subseteq alerts',
         \A j \in JobId : Touched(job[j], job'[j]),
         \A t \in Workers : Passed(t)
  PROVE  RetryInv'
<1>0. /\ job \in [JobId -> Row] /\ job' \in [JobId -> Row]
      /\ \A j \in JobId : \/ Succeeds(job[j], job'[j])
                          \/ /\ job[j].status = "ABSENT"
                             /\ job'[j].attempt = 1 /\ ~job'[j].auto
  BY TouchedSucceeds DEF TypeOK
<1>1. ASSUME NEW t \in Workers PROVE UnitOK(t)'
  <2>1. CASE Kept(t) /\ \A j \in JobId : Dirty(t, j) =>
               job'[j].status = job[j].status /\ SameJob(job[j], job'[j])
    <3>1. Bystander(t)
      BY <1>0, <2>1 DEF Bystander
    <3> QED
      BY <3>1, BystanderOK
  <2>2. CASE unit'[t].row = Clean
    BY <2>2, CleanOK
  <2> QED
    BY <2>1, <2>2 DEF Passed
<1>2. ASSUME NEW j \in JobId
      PROVE  /\ job'[j].status = "ABSENT" =>
                  job'[j].attempt = 1 /\ job'[j].hash = NoHash /\ ~job'[j].auto
             /\ OnlyApplies(job'[j])
             /\ FailsForGood(job'[j]) => j \in alerts'
  <2>1. /\ job[j].status = "ABSENT" =>
             job[j].attempt = 1 /\ job[j].hash = NoHash /\ ~job[j].auto
        /\ OnlyApplies(job[j])
        /\ FailsForGood(job[j]) => j \in alerts
        /\ Touched(job[j], job'[j])
    BY DEF RetryInv, TableInv
  <2> QED
    BY <2>1 DEF Touched, OnlyApplies, FailsForGood, LastAttempt, SameJob, Open, Active, Terminal
<1>3. ASSUME NEW j \in JobId, job'[j].attempt > 1
      PROVE  EarnedIn(job', j)
  <2>1. Succeeds(job[j], job'[j]) /\ SameJob(job[j], job'[j])
    BY <1>0, <1>3 DEF Succeeds
  <2>2. EarnedIn(job, j) /\ job[j].attempt > 1
    BY <1>3, <2>1 DEF RetryInv, TableInv, SameJob
  <2>3. \A i \in JobId : Succeeds(job[i], job'[i]) \/ Harmless(job[i], job'[i], job'[j].dev)
    BY <1>0 DEF Harmless
  <2> QED
    BY <1>0, <2>1, <2>2, <2>3, EarnedKept
<1>4. OneAutomaticApply'
  BY <1>0 DEF RetryInv, TableInv, OneAutomaticApply, Succeeds, SameJob
<1> QED
  BY <1>1, <1>2, <1>3, <1>4 DEF RetryInv, TableInv

\* A lost version check leaves the unit with nothing to write; the others
\* write nothing that the step has written.
LEMMA InvalidatePasses ==
  ASSUME TypeOK, NEW S, NEW D, NEW t \in Workers, unit'[t] = Invalidate(S, D)[t],
         \A j \in JobId : j \notin S => job'[j] = job[j]
  PROVE  Passed(t)
BY InvalidateType DEF Passed, Kept, Dirty, SameJob

\* No job moves and no unit of work gets more to write.
LEMMA NothingWritten ==
  ASSUME TypeOK, TypeOK', RetryInv, alerts \subseteq alerts', job' = job,
         \A t \in Workers : Kept(t) \/ unit'[t].row = Clean
  PROVE  RetryInv'
<1>1. \A j \in JobId : Touched(job[j], job'[j])
  BY DEF Touched
<1>2. \A t \in Workers : Passed(t)
  BY DEF Passed, SameJob
<1> QED
  BY <1>1, <1>2, DirectOK

LEMMA WriteOK ==
  ASSUME TypeOK, TypeOK', RetryInv, alerts \subseteq alerts',
         NEW j \in JobId, NEW r, Write(j, r), Touched(job[j], r)
  PROVE  RetryInv'
<1>1. \A k \in JobId : job'[k] = IF k = j THEN r ELSE job[k]
  BY DEF Write, TypeOK
<1>2. \A k \in JobId : Touched(job[k], job'[k])
  BY <1>1 DEF Touched
<1>3. \A t \in Workers : Passed(t)
  BY <1>1, InvalidatePasses DEF Write
<1> QED
  BY <1>2, <1>3, DirectOK

\* Cancelling an open job, deleting a finished one.
LEMMA MoveTouches ==
  ASSUME NEW s \in Row, NEW status,
         \/ s.status \in Open /\ status = "CANCELLED"
         \/ s.status \in Terminal /\ status = "DELETED"
         \/ s.status \in Active /\ status \in Active
  PROVE  Touched(s, Move(s, status)) /\ Touched(s, [s EXCEPT !.status = status])
BY DEF Touched, SameJob, Move, Row

\* The requests and events that are one step.
LEMMA SurroundingsOK ==
  ASSUME TypeOK, TypeOK', QueueInv, RetryInv, Surroundings,
         ~\E d \in Devices, j \in JobId : TunnelFinished(d, j), ~Sweep
  PROVE  RetryInv'
<1>1. ASSUME NEW d \in Devices, Crash(d) PROVE RetryInv'
  <2>1. ASSUME NEW t \in Workers PROVE Kept(t)
    <3>1. unit[t] \in Unit
      BY DEF TypeOK
    <3> QED
      BY <1>1, <3>1 DEF Crash, Kept, Unit
  <2> QED
    BY <1>1, <2>1, NothingWritten DEF Crash
<1>2. ASSUME NEW d \in Devices, OpenTunnel(d) PROVE RetryInv'
  <2> DEFINE r == NewRow(d, "OPEN_TUNNEL", 1, 0, FALSE)
  <2>1. PICK n \in NextId :
          /\ \A j \in JobId : job'[j] = IF j = n THEN r
                                        ELSE IF j \in Expired THEN Move(job[j], "CANCELLED")
                                        ELSE job[j]
          /\ \A t \in Workers : unit'[t] = Invalidate({n} \cup Expired, {})[t]
    BY <1>2 DEF OpenTunnel
  <2>2. n \in JobId /\ job[n].status = "ABSENT"
    <3>1. n \in JobId /\ n >= n
      BY BoundsAssumption DEF NextId, JobId
    <3> QED
      BY <3>1 DEF NextId, Unused
  <2>3. Touched(job[n], r)
    BY <2>2 DEF Touched, NewRow
  <2>4. ASSUME NEW j \in Expired PROVE Touched(job[j], Move(job[j], "CANCELLED"))
    BY <2>4, MoveTouches DEF Expired, TypeOK, Open
  <2>5. \A j \in JobId : Touched(job[j], job'[j])
    <3> HIDE DEF r
    <3> QED BY <2>1, <2>3, <2>4 DEF Touched
  <2>6. ASSUME NEW t \in Workers PROVE Passed(t)
    <3> DEFINE S == {n} \cup Expired
    <3>1. unit'[t] = Invalidate(S, {})[t] /\ \A j \in JobId : j \notin S => job'[j] = job[j]
      BY <2>1
    <3> HIDE DEF S
    <3> QED BY <3>1, InvalidatePasses
  <2> QED
    BY <1>2, <2>5, <2>6, DirectOK DEF OpenTunnel
<1>3. ASSUME NEW d \in Devices, EditDevice(d) PROVE RetryInv'
  <2>1. \A t \in Workers : Passed(t)
    BY <1>3, InvalidatePasses DEF EditDevice
  <2>2. \A j \in JobId : Touched(job[j], job'[j])
    BY <1>3 DEF EditDevice, Touched
  <2> QED
    BY <1>3, <2>1, <2>2, DirectOK DEF EditDevice
<1>4. ASSUME NEW j \in JobId, CancelJob(j) \/ CloseSession(j) PROVE RetryInv'
  <2>1. Touched(job[j], Move(job[j], "CANCELLED"))
    BY <1>4, MoveTouches DEF CancelJob, CloseSession, TypeOK, Open
  <2> QED
    BY <1>4, <2>1, WriteOK DEF CancelJob, CloseSession
<1>5. ASSUME NEW k \in JobId, Prune(k) PROVE RetryInv'
  <2> DEFINE old == {j \in 1..k : job[j].status \in Terminal}
  <2>1. ASSUME NEW j \in JobId PROVE Touched(job[j], job'[j])
    <3>1. \/ job'[j] = job[j]
          \/ job[j].status \in Terminal /\ job'[j] = [job[j] EXCEPT !.status = "DELETED"]
      BY <1>5 DEF Prune
    <3>2. job[j] \in Row
      BY DEF TypeOK
    <3>3. CASE job'[j] = job[j]
      BY <3>3 DEF Touched
    <3> QED
      BY <3>1, <3>2, <3>3, MoveTouches
  <2>2. /\ \A j \in JobId : j \notin old => job'[j] = job[j]
        /\ \A t \in Workers : unit'[t] = Invalidate(old, {})[t]
    BY <1>5 DEF Prune
  <2>3. \A t \in Workers : Passed(t)
    <3> HIDE DEF old
    <3> QED BY <2>2, InvalidatePasses
  <2> QED
    BY <1>5, <2>1, <2>3, DirectOK DEF Prune
<1>6. ASSUME NEW j \in JobId, Elapse(j) PROVE RetryInv'
  <2>1. ASSUME NEW k \in JobId
        PROVE  /\ Touched(job[k], job'[k])
               /\ job'[k].status = job[k].status /\ SameJob(job[k], job'[k])
    <3>1. job[k] \in Row
      BY DEF TypeOK
    <3>2. \/ job'[k] = job[k]
          \/ /\ job[k].status \in Active \cup {"PENDING"}
             /\ job'[k] = [job[k] EXCEPT !.late = TRUE]
      BY <1>6 DEF Elapse, TypeOK
    <3> QED
      BY <3>1, <3>2 DEF Touched, SameJob, Active, Row
  <2>2. \A t \in Workers : Passed(t)
    BY <1>6, <2>1 DEF Elapse, Passed, Kept
  <2> QED
    BY <1>6, <2>1, <2>2, DirectOK DEF Elapse
<1>7. CASE ServerRestart
  <2>1. ASSUME NEW j \in JobId PROVE Touched(job[j], job'[j])
    <3>1. \/ job'[j] = job[j]
          \/ job[j].status = "PENDING" /\ job'[j] = Move(job[j], "CANCELLED")
      BY <1>7 DEF ServerRestart
    <3>2. job[j] \in Row
      BY DEF TypeOK
    <3>3. CASE job'[j] = job[j]
      BY <3>3 DEF Touched
    <3> QED
      BY <3>1, <3>2, <3>3, MoveTouches DEF Open
  <2>2. \A t \in Workers : Passed(t)
    BY <1>7, NoRowType DEF ServerRestart, Passed
  <2> QED
    BY <1>7, <2>1, <2>2, DirectOK DEF ServerRestart
<1>8. ASSUME UNCHANGED <<job, unit, alerts>> PROVE RetryInv'
  BY <1>8, NothingWritten DEF Kept
<1> QED
  BY <1>1, <1>2, <1>3, <1>4, <1>5, <1>6, <1>7, <1>8 DEF Surroundings, ChangeSpec, Tick

\* So is a report that a job was started.
LEMMA StartedOK ==
  ASSUME TypeOK, TypeOK', QueueInv, RetryInv, NEW d \in Devices, Started(d)
  PROVE  RetryInv'
<1> DEFINE j == agent[d].job
<1>1. j \in JobId /\ WasDelivered(j) /\ job[j] \in Row
  <2>1. agent[d].at = "got"
    BY DEF Started
  <2> QED
    BY <2>1, AgentType DEF QueueInv, HeldWasDelivered, Loop, TypeOK
<1>2. ASSUME ~Closed(j) PROVE Touched(job[j], [job[j] EXCEPT !.status = "RUNNING"])
  <2>1. job[j].status \in Active
    BY <1>1, <1>2 DEF Closed, WasDelivered, Row, Status, Open
  <2> QED
    BY <1>1, <2>1, MoveTouches DEF Active
<1>3. CASE UNCHANGED <<job, unit>>
  BY <1>3, NothingWritten DEF Started, Kept
<1> QED
  BY <1>1, <1>2, <1>3, WriteOK DEF Started

-----------------------------------------------------------------------------
(* Steps that open a unit of work *)

\* While no row is written, the step of one unit concerns no other.
LEMMA OnlyUnit ==
  ASSUME TypeOK, TypeOK', RetryInv, job' = job, alerts \subseteq alerts',
         NEW t \in Workers, \A u \in Workers : u # t => unit'[u] = unit[u],
         UnitOK(t)'
  PROVE  RetryInv'
<1>1. ASSUME NEW u \in Workers, u # t PROVE UnitOK(u)'
  <2>1. Bystander(u)
    BY <1>1, SucceedsRefl DEF Bystander, Kept, SameJob
  <2> QED
    BY <2>1, BystanderOK
<1>2. TableInv'
  BY DEF RetryInv, TableInv, OneAutomaticApply
<1> QED
  BY <1>1, <1>2 DEF RetryInv

\* What a new unit of work is to write.
LEMMA OpenUnitRows ==
  ASSUME TypeOK, NEW t \in Workers, NEW step, NEW d, NEW rows, NEW awaited,
         OpenUnit(t, step, d, rows, awaited)
  PROVE  /\ unit'[t].row = rows /\ unit'[t].step = step /\ unit'[t].dev = d
         /\ \A u \in Workers : u # t => unit'[u] = unit[u]
BY DEF OpenUnit, TypeOK

\* A unit that opens to revise jobs it read, or to insert one that an
\* operator asked for.
LEMMA OpensOK ==
  ASSUME TypeOK, TypeOK', RetryInv, job' = job, alerts \subseteq alerts',
         NEW t \in Workers, NEW step, NEW d, NEW rows, NEW awaited,
         OpenUnit(t, step, d, rows, awaited),
         \A j \in JobId : rows[j].status # "ABSENT" =>
           /\ IF job[j].status = "ABSENT"
                THEN rows[j].attempt = 1 /\ ~rows[j].auto
                ELSE SameJob(job[j], rows[j])
           /\ FailsForGood(rows[j]) => j \in alerts'
  PROVE  RetryInv'
<1>1. UnitOK(t)'
  <2>1. ASSUME NEW j \in JobId, rows[j].status = "ABSENT" PROVE ~FailsForGood(rows[j])
    BY <2>1 DEF FailsForGood
  <2>2. \A j \in JobId : unit'[t].row[j] = rows[j]
    BY OpenUnitRows
  <2> QED
    BY <2>1, <2>2 DEF UnitOK, Dirty, Inserts, InsertOK, OnlyApplies
<1> QED
  BY <1>1, OpenUnitRows, OnlyUnit

\* A request of an operator.
LEMMA EnqueueOK ==
  ASSUME TypeOK, TypeOK', RetryInv,
         NEW d \in Devices, NEW type \in JobType, NEW after \in 0..MaxTime,
         NEW grouped \in BOOLEAN, NEW t, Enqueue(d, type, after, grouped, t)
  PROVE  RetryInv'
<1>0. t \in Workers /\ job' = job /\ alerts' = alerts
  BY DEF Enqueue, Workers
<1>1. ASSUME NEW n \in NextId,
             OpenUnit(t, "queued", d,
                      [Clean EXCEPT ![n] = NewRow(d, type, 1, after, FALSE)], FALSE)
      PROVE  RetryInv'
  <2> DEFINE rows == [Clean EXCEPT ![n] = NewRow(d, type, 1, after, FALSE)]
  <2>1. n \in JobId /\ job[n].status = "ABSENT"
    <3>1. n \in JobId /\ n >= n
      BY BoundsAssumption DEF NextId, JobId
    <3> QED
      BY <3>1 DEF NextId, Unused
  <2>2. \A j \in JobId : rows[j].status # "ABSENT" =>
          job[j].status = "ABSENT" /\ rows[j].attempt = 1 /\ ~rows[j].auto /\ ~FailsForGood(rows[j])
    BY <2>1, NoRowType DEF NewRow, FailsForGood
  <2> HIDE DEF rows
  <2> QED
    BY <1>0, <1>1, <2>2, OpensOK DEF rows
<1>2. ASSUME NEW j \in JobId, job[j].status = "PENDING",
             OpenUnit(t, "queued", d,
                      [Clean EXCEPT ![j] = [job[j] EXCEPT !.after = after]], FALSE)
      PROVE  RetryInv'
  <2> DEFINE rows == [Clean EXCEPT ![j] = [job[j] EXCEPT !.after = after]]
  <2>1. job[j] \in Row
    BY DEF TypeOK
  <2>2. \A k \in JobId : rows[k].status # "ABSENT" =>
          job[k].status # "ABSENT" /\ SameJob(job[k], rows[k]) /\ ~FailsForGood(rows[k])
    BY <1>2, <2>1, NoRowType DEF SameJob, FailsForGood, Row
  <2> HIDE DEF rows
  <2> QED
    BY <1>0, <1>2, <2>2, OpensOK DEF rows
<1> QED
  BY <1>1, <1>2 DEF Enqueue

\* The verdict on a job, reported before it is committed.
LEMMA PostFinishedOK ==
  ASSUME TypeOK, TypeOK', RetryInv, job' = job,
         NEW d, NEW j \in JobId, NEW exit \in {0, 1}, NEW awaited,
         WasDelivered(j), PostFinished(d, j, exit, awaited)
  PROVE  RetryInv'
<1>1. CASE UNCHANGED <<unit, alerts>>
  BY <1>1, NothingWritten DEF Kept
<1>2. CASE ~UNCHANGED <<unit, alerts>>
  <2> DEFINE r == Move(job[j], IF exit = 0 THEN "SUCCEEDED" ELSE "FAILED")
             rows == [Clean EXCEPT ![j] = r]
  <2>1. PICK t \in Threads : OpenUnit(t, "finished", d, rows, awaited)
    BY <1>2 DEF PostFinished
  <2>2. job[j] \in Row /\ job[j].status # "ABSENT" /\ t \in Workers
    BY DEF TypeOK, WasDelivered, Workers
  <2>3. /\ alerts' = IF exit # 0 THEN alerts \cup FinalFailures({j}) ELSE alerts
        /\ alerts \subseteq alerts'
    BY <1>2 DEF PostFinished
  <2>4. SameJob(job[j], r) /\ (FailsForGood(r) => j \in alerts')
    BY <2>2, <2>3 DEF SameJob, Move, Row, FailsForGood, LastAttempt, FinalFailures
  <2>5. \A k \in JobId : rows[k].status # "ABSENT" => k = j /\ rows[k] = r
    BY NoRowType
  <2>6. \A k \in JobId : rows[k].status # "ABSENT" =>
          /\ IF job[k].status = "ABSENT"
               THEN rows[k].attempt = 1 /\ ~rows[k].auto
               ELSE SameJob(job[k], rows[k])
          /\ FailsForGood(rows[k]) => k \in alerts'
    <3> HIDE DEF rows, r
    <3> QED BY <2>2, <2>4, <2>5
  <2> HIDE DEF rows
  <2> QED
    BY <2>1, <2>2, <2>3, <2>6, OpensOK
<1> QED
  BY <1>1, <1>2

\* Timing out a job takes it further, and its last failure is reported.
LEMMA TimedOutRevises ==
  ASSUME TypeOK, NEW S \in SUBSET Stuck, NEW j \in JobId, TimedOut(S)[j].status # "ABSENT",
         FinalFailures(S) \subseteq alerts'
  PROVE  /\ job[j].status # "ABSENT" /\ SameJob(job[j], TimedOut(S)[j])
         /\ TimedOut(S)[j].hash = job[j].hash /\ TimedOut(S)[j].status = "TIMED_OUT"
         /\ Succeeds(job[j], TimedOut(S)[j])
         /\ FailsForGood(TimedOut(S)[j]) => j \in alerts'
<1>1. j \in S /\ job[j] \in Row /\ job[j].status \in Active
  BY TimedOutType DEF TypeOK, Stuck
<1>2. TimedOut(S)[j] = Move(job[j], "TIMED_OUT")
  BY <1>1 DEF TimedOut
<1>3. SameJob(job[j], Move(job[j], "TIMED_OUT"))
      /\ Move(job[j], "TIMED_OUT").hash = job[j].hash
      /\ Move(job[j], "TIMED_OUT").status = "TIMED_OUT"
  BY <1>1 DEF SameJob, Move, Row
<1> HIDE DEF Move
<1>4. Succeeds(job[j], Move(job[j], "TIMED_OUT"))
  BY <1>1, <1>3 DEF Succeeds, Spent, Lost, Active, Terminal, Open
<1>5. FailsForGood(Move(job[j], "TIMED_OUT")) => j \in FinalFailures(S)
  BY <1>1, <1>3 DEF FailsForGood, LastAttempt, FinalFailures, SameJob
<1> QED
  BY <1>1, <1>2, <1>3, <1>4, <1>5 DEF Active

LEMMA SweepOK ==
  ASSUME TypeOK, TypeOK', RetryInv, Sweep
  PROVE  RetryInv'
<1>1. FinalFailures(Stuck) \subseteq alerts' /\ alerts \subseteq alerts' /\ job' = job
  BY DEF Sweep
<1>2. \A j \in JobId : TimedOut(Stuck)[j].status # "ABSENT" =>
        /\ job[j].status # "ABSENT" /\ SameJob(job[j], TimedOut(Stuck)[j])
        /\ FailsForGood(TimedOut(Stuck)[j]) => j \in alerts'
  BY <1>1, TimedOutRevises
<1>3. Scheduler \in Workers
  BY DEF Workers
<1>4. OpenUnit(Scheduler, "swept", NoRow.dev, TimedOut(Stuck), FALSE)
  BY DEF Sweep
<1> QED
  BY <1>1, <1>2, <1>3, <1>4, OpensOK

\* What drift detection adds to table view.
LEMMA DriftOK ==
  ASSUME TypeOK, NEW view \in [JobId -> Row], NEW d \in Devices, NEW r \in Drift(view, d)
  PROVE  /\ r.dev = d /\ r.type = "APPLY_CONFIG" /\ r.auto /\ r.status = "PENDING"
         /\ r.attempt \in 1..MaxAttempts
         /\ ~Applying(view, d)
         /\ r.attempt > 1 =>
              \E k \in Newest(Delivered(view, d)) :
                view[k].status \in {"FAILED", "TIMED_OUT"} /\ view[k].attempt = r.attempt - 1
<1>1. ~Applying(view, d)
  BY DEF Drift
<1>2. CASE r = NewRow(d, "APPLY_CONFIG", 1, 0, TRUE)
  BY <1>1, <1>2, Bounds DEF NewRow
<1>3. CASE \E j \in {k \in Newest(Delivered(view, d)) :
                       /\ view[k].status \in {"FAILED", "TIMED_OUT"}
                       /\ view[k].attempt < MaxAttempts} :
             r = NewRow(d, "APPLY_CONFIG", view[j].attempt + 1, 0, TRUE)
  <2>1. PICK j \in Newest(Delivered(view, d)) :
          /\ view[j].status \in {"FAILED", "TIMED_OUT"}
          /\ r = NewRow(d, "APPLY_CONFIG", view[j].attempt + 1, 0, TRUE)
    BY <1>3
  <2>2. view[j].attempt \in 1..MaxAttempts
    BY <2>1 DEF Newest, Delivered, Row
  <2>3. r \in Row
    BY DriftType
  <2>4. r.attempt = view[j].attempt + 1
    BY <2>1 DEF NewRow
  <2>5. r.attempt - 1 = view[j].attempt
    BY <2>2, <2>4
  <2> QED
    BY <1>1, <2>1, <2>3, <2>5 DEF NewRow, Row
<1> QED
  BY <1>2, <1>3 DEF Drift

\* A check-in that saw table view, timed-out jobs included, may insert at n
\* what drift detection found in it.
LEMMA DriftInserts ==
  ASSUME TypeOK, TypeOK', RetryInv, job' = job,
         NEW t \in Workers, NEW d \in Devices, NEW n \in NextId,
         NEW view \in [JobId -> Row], NEW r \in Drift(view, d),
         unit'[t].step = "converged", unit'[t].dev = d, unit'[t].row[n] = r,
         \A j \in JobId : j # n => View(t)'[j] = view[j],
         \A j \in JobId : Succeeds(job[j], view[j])
  PROVE  InsertOK(t, n)'
<1>0. n \in JobId /\ (\A k \in JobId : k >= n => job[k].status = "ABSENT")
  BY DEF NextId, Unused
<1>1. View(t)'[n] = r
  <2>1. r.status = "PENDING" /\ unit'[t].row[n] = r
    BY DriftOK
  <2> QED
    BY <1>0, <2>1 DEF View, Dirty
<1>2. \A j \in JobId : OnlyApplies(view[j])
  BY DEF RetryInv, TableInv, Succeeds, SameJob, OnlyApplies
<1>3. Touches(t, d)'
  BY DEF Touches
<1>4. ASSUME NEW k \in JobId \ {n}, view[k].dev = d, view[k].auto
      PROVE  view[k].status \notin Open
  BY <1>2, <1>4, DriftOK DEF OnlyApplies, Applying
<1>5. \A k \in JobId : k > n => job'[k].attempt = 1
  BY <1>0, BoundsAssumption DEF RetryInv, TableInv, JobId
<1>6. ASSUME r.attempt > 1 PROVE EarnedIn(View(t)', n)
  <2>1. PICK k \in Newest(Delivered(view, d)) :
          view[k].status \in {"FAILED", "TIMED_OUT"} /\ view[k].attempt = r.attempt - 1
    BY <1>6, DriftOK
  <2>2. /\ k \in JobId /\ view[k].dev = d /\ view[k].hash # NoHash /\ Lost(view[k])
        /\ \A i \in JobId : i > k => i \notin Delivered(view, d)
    BY <2>1, BoundsAssumption DEF Newest, Delivered, Lost, JobId
  <2>3. ASSUME k >= n PROVE FALSE
    <3>1. job[k].status = "ABSENT" /\ Spent(job[k]) /\ Succeeds(job[k], view[k])
      BY <1>0, <2>2, <2>3 DEF Spent
    <3>2. job[k].attempt = 1 /\ job[k].hash = NoHash
      BY <2>2, <3>1 DEF RetryInv, TableInv
    <3> QED
      BY <2>1, <2>2, <3>1 DEF Succeeds, Spent
  <2>4. ASSUME NEW i \in JobId, k <= i, i < n, View(t)'[i].dev = d,
               View(t)'[i].attempt = r.attempt
        PROVE  Spent(View(t)'[i])
    <3>1. View(t)'[i] = view[i] /\ i > k
      BY <1>0, <2>1, <2>2, <2>4, BoundsAssumption DEF JobId, Row
    <3>2. view[i].type = "APPLY_CONFIG"
      BY <1>2, <1>6, <2>4, <3>1 DEF OnlyApplies
    <3>3. view[i].status \in Open \cup Terminal \cup {"ABSENT", "DELETED"}
      BY DEF Row, Status
    <3>4. view[i].status \notin Open
      BY <2>4, <3>1, <3>2, DriftOK DEF Applying
    <3>5. i \notin Delivered(view, d)
      BY <2>2, <3>1
    <3> QED
      BY <2>4, <3>1, <3>2, <3>3, <3>4, <3>5 DEF Delivered, Spent
  <2>5. k < n /\ View(t)'[k] = view[k]
    BY <1>0, <2>2, <2>3, BoundsAssumption DEF JobId
  <2> QED
    BY <1>1, <2>1, <2>2, <2>4, <2>5, DriftOK DEF EarnedIn
<1> QED
  BY <1>1, <1>3, <1>4, <1>5, <1>6, DriftOK DEF InsertOK, AloneInView, OnlyApplies

\* The first half of a check-in.
LEMMA CheckinOK ==
  ASSUME TypeOK, TypeOK', RetryInv, NEW d \in Devices, NEW t \in Threads, Checkin(d, t)
  PROVE  RetryInv'
<1> DEFINE stuck == {j \in Stuck : job[j].dev = d}
           view == [j \in JobId |-> IF j \in stuck THEN TimedOut(stuck)[j] ELSE job[j]]
<1>1. /\ stuck \subseteq Stuck /\ stuck \subseteq JobId /\ t \in Workers
      /\ TimedOut(stuck) \in [JobId -> Row]
      /\ FinalFailures(stuck) \subseteq alerts' /\ alerts \subseteq alerts' /\ job' = job
  BY TimedOutType DEF Stuck, Workers, Checkin
<1>2. view \in [JobId -> Row]
  BY <1>1 DEF TypeOK
<1>3. \A j \in JobId : TimedOut(stuck)[j].status # "ABSENT" <=> j \in stuck
  <2> HIDE DEF stuck
  <2> QED BY <1>1, TimedOutType
<1>4. ASSUME NEW j \in JobId, j \in stuck
      PROVE  /\ job[j].status # "ABSENT" /\ SameJob(job[j], TimedOut(stuck)[j])
             /\ Succeeds(job[j], TimedOut(stuck)[j])
             /\ FailsForGood(TimedOut(stuck)[j]) => j \in alerts'
  <2> HIDE DEF stuck
  <2> QED BY <1>1, <1>3, <1>4, TimedOutRevises
<1>5. CASE OpenUnit(t, "converged", d, TimedOut(stuck), TRUE)
  <2> HIDE DEF stuck
  <2> QED BY <1>1, <1>3, <1>4, <1>5, OpensOK
<1>6. ASSUME NEW r \in Drift(view, d), NEW n \in NextId,
             OpenUnit(t, "converged", d, [TimedOut(stuck) EXCEPT ![n] = r], TRUE)
      PROVE  RetryInv'
  <2> DEFINE rows == [TimedOut(stuck) EXCEPT ![n] = r]
  <2>0. n \in JobId /\ job[n].status = "ABSENT" /\ n \notin stuck
    <3>1. n \in JobId /\ n >= n
      BY BoundsAssumption DEF NextId, JobId
    <3>2. job[n].status = "ABSENT"
      BY <3>1 DEF NextId, Unused
    <3> QED
      BY <3>1, <3>2 DEF Stuck, Active
  <2>1. r \in Row /\ r.status = "PENDING"
    BY <1>2, DriftType
  <2>2. /\ unit'[t].row = rows /\ unit'[t].step = "converged" /\ unit'[t].dev = d
        /\ \A u \in Workers : u # t => unit'[u] = unit[u]
    <3> HIDE DEF rows
    <3> QED BY <1>1, <1>6, OpenUnitRows DEF rows
  <2>3. rows[n] = r /\ \A j \in JobId : j # n => rows[j] = TimedOut(stuck)[j]
    BY <1>1, <2>0
  <2>4. \A j \in JobId : j # n => View(t)'[j] = view[j]
    <3> HIDE DEF rows, stuck
    <3> QED BY <1>1, <1>3, <2>2, <2>3 DEF View, Dirty
  <2>5. \A j \in JobId : Succeeds(job[j], view[j])
    BY <1>4, SucceedsRefl
  <2>6. InsertOK(t, n)'
    <3> HIDE DEF view, rows
    <3> QED BY <1>1, <1>2, <1>6, <2>2, <2>3, <2>4, <2>5, DriftInserts
  <2>7. ~FailsForGood(r)
    BY <2>1 DEF FailsForGood
  <2>8. UnitOK(t)'
    <3>1. ASSUME NEW j \in JobId, j # n
          PROVE  /\ Dirty(t, j)' => job'[j].status # "ABSENT" /\ SameJob(job'[j], unit'[t].row[j])
                 /\ FailsForGood(unit'[t].row[j]) => j \in alerts'
      <4>1. unit'[t].row[j] = TimedOut(stuck)[j]
        BY <2>2, <2>3, <3>1
      <4>2. FailsForGood(TimedOut(stuck)[j]) => TimedOut(stuck)[j].status # "ABSENT"
        BY DEF FailsForGood
      <4> HIDE DEF stuck
      <4> QED BY <1>1, <1>3, <1>4, <4>1, <4>2 DEF Dirty
    <3>2. unit'[t].row[n] = r /\ job'[n].status = "ABSENT"
      BY <1>1, <2>0, <2>2, <2>3
    <3> QED
      BY <2>6, <2>7, <3>1, <3>2 DEF UnitOK, Inserts
  <2> QED
    BY <1>1, <2>2, <2>8, OnlyUnit
<1> QED
  BY <1>5, <1>6 DEF Checkin

-----------------------------------------------------------------------------
(* Handing out a job, and the end of a transaction *)

\* A unit of work sees the jobs of the table, or what it is to make of them.
LEMMA ViewRows ==
  ASSUME TypeOK, RetryInv, NEW t \in Workers, NEW j \in JobId
  PROVE  /\ View(t)[j] \in Row
         /\ Dirty(t, j) => View(t)[j] = unit[t].row[j]
         /\ ~Dirty(t, j) => View(t)[j] = job[j]
         /\ job[j].status # "ABSENT" => SameJob(job[j], View(t)[j])
BY ViewType DEF View, RetryInv, UnitOK, SameJob

\* The unit of t, past drift detection, writes row r of job j: a pending job
\* that it cancels or hands out.
LEMMA AnswerOK ==
  ASSUME TypeOK, TypeOK', RetryInv, job' = job, alerts' = alerts,
         NEW t \in Workers, NEW j \in JobId, NEW r \in Row, NEW reply,
         unit[t].step = "converged",
         View(t)[j].status = "PENDING", SameJob(View(t)[j], r),
         r.status \in {"CANCELLED", "DELIVERED"},
         Answer(t, [unit[t].row EXCEPT ![j] = r], reply)
  PROVE  RetryInv'
<1> DEFINE rows == [unit[t].row EXCEPT ![j] = r]
<1>0. /\ unit[t] \in Unit /\ unit[t].row \in [JobId -> Row]
      /\ job \in [JobId -> Row] /\ View(t) \in [JobId -> Row]
  BY ViewType DEF TypeOK, Unit
<1>1. /\ unit'[t].row = rows /\ unit'[t].step = "picked" /\ unit'[t].dev = unit[t].dev
      /\ \A u \in Workers : u # t => unit'[u] = unit[u]
  <2> HIDE DEF rows
  <2> QED BY <1>0 DEF Answer, TypeOK, Unit, rows
<1>2. /\ View(t)'[j] = r
      /\ \A k \in JobId : k # j => View(t)'[k] = View(t)[k]
      /\ View(t)' \in [JobId -> Row]
      /\ unit'[t].row[j] = r
      /\ \A k \in JobId : k # j => unit'[t].row[k] = unit[t].row[k]
  BY <1>0, <1>1 DEF View, Dirty
<1>3. Succeeds(View(t)[j], r)
  BY DEF Succeeds, Spent, Lost, Terminal, Open
<1>4. \A k \in JobId : Succeeds(View(t)[k], View(t)'[k])
  BY <1>2, <1>3, SucceedsRefl
<1>5. ASSUME NEW k \in JobId, Inserts(t, k)'
      PROVE  /\ Inserts(t, k) /\ InsertOK(t, k) /\ View(t)[k] = unit[t].row[k]
             /\ View(t)'[k] = unit'[t].row[k]
  <2>1. Dirty(t, k)
    BY <1>2, <1>5 DEF Inserts, Dirty, View
  <2> QED
    BY <1>5, <2>1 DEF Inserts, RetryInv, UnitOK, View
<1>6. ASSUME NEW k \in JobId, Inserts(t, k)' PROVE InsertOK(t, k)'
  <2> DEFINE s == unit[t].row[k]
             new == unit'[t].row[k]
  <2>1. SameJob(s, new)
    BY <1>4, <1>5, <1>6 DEF Succeeds
  <2>2. \A d : Touches(t, d) => Touches(t, d)'
    BY <1>1 DEF Touches
  <2>3. /\ OnlyApplies(s)
        /\ s.auto \/ s.attempt > 1 => Touches(t, s.dev)
        /\ s.auto => AloneInView(t, k)
        /\ s.attempt > 1 => /\ EarnedIn(View(t), k)
                            /\ \A i \in JobId : i > k /\ job[i].dev = s.dev => job[i].attempt = 1
    BY <1>5, <1>6 DEF InsertOK
  <2>4. s.auto => AloneInView(t, k)'
    BY <1>4, <2>1, <2>3 DEF AloneInView, Succeeds, SameJob
  <2>5. s.attempt > 1 => EarnedIn(View(t)', k)
    BY <1>0, <1>2, <1>4, <1>5, <1>6, <2>1, <2>3, EarnedKept
  <2> QED
    BY <2>1, <2>2, <2>3, <2>4, <2>5 DEF InsertOK, SameJob, OnlyApplies
<1>7. ASSUME NEW k \in JobId, Dirty(t, k)', job'[k].status # "ABSENT"
      PROVE  SameJob(job'[k], unit'[t].row[k])
  BY <1>2, <1>7, ViewRows DEF Dirty, RetryInv, UnitOK, SameJob
<1>8. ASSUME NEW k \in JobId, FailsForGood(unit'[t].row[k]) PROVE k \in alerts'
  BY <1>2, <1>8 DEF FailsForGood, RetryInv, UnitOK
<1>9. UnitOK(t)'
  BY <1>6, <1>7, <1>8 DEF UnitOK
<1> QED
  BY <1>1, <1>9, OnlyUnit

\* The second half of a check-in.
LEMMA PickOK ==
  ASSUME TypeOK, TypeOK', RetryInv, NEW t \in Workers, Pick(t)
  PROVE  RetryInv'
<1> DEFINE view == View(t)
           next == NextPending(view, unit[t].dev)
<1>0. /\ view \in [JobId -> Row] /\ unit[t].step = "converged" /\ unit[t] \in Unit
      /\ job' = job /\ alerts' = alerts /\ unit \in [Workers -> Unit]
  BY ViewType DEF Pick, TypeOK
<1>1. CASE Answer(t, unit[t].row, NoJob)
  <2>1. /\ unit'[t].row = unit[t].row /\ unit'[t].dev = unit[t].dev /\ unit'[t].step = "picked"
        /\ \A u \in Workers : u # t => unit'[u] = unit[u]
    BY <1>0, <1>1 DEF Answer, Unit
  <2>2. \A d : Touches(t, d)' = Touches(t, d)
    BY <1>0, <2>1 DEF Touches
  <2>3. View(t)' = View(t) /\ \A j \in JobId : Dirty(t, j)' = Dirty(t, j)
    BY <1>0, <2>1 DEF View, Dirty
  <2>4. UnitOK(t)'
    BY <1>0, <2>1, <2>2, <2>3
       DEF RetryInv, UnitOK, Inserts, InsertOK, AloneInView, EarnedIn
  <2> QED
    BY <1>0, <2>1, <2>4, OnlyUnit
<1>2. ASSUME NEW j \in next
      PROVE  /\ j \in JobId /\ view[j].status = "PENDING" /\ view[j] \in Row
             /\ Move(view[j], "CANCELLED") \in Row /\ SameJob(view[j], Move(view[j], "CANCELLED"))
             /\ Move(view[j], "CANCELLED").status = "CANCELLED"
  <2>1. j \in JobId /\ view[j].status = "PENDING" /\ view[j] \in Row
    BY <1>0, <1>2 DEF NextPending
  <2> HIDE DEF view
  <2> QED
    BY <2>1, MoveType DEF Move, SameJob, Row, Status, Terminal
<1>3. ASSUME NEW j \in next, ~Undeliverable(view[j])
      PROVE  /\ Handed(view[j]) \in Row /\ SameJob(view[j], Handed(view[j]))
             /\ Handed(view[j]).status = "DELIVERED"
  <2>1. view[j] \in Row
    BY <1>2, <1>3
  <2>2. Handed(view[j]) \in Row /\ Handed(view[j]).status = "DELIVERED"
    BY <1>3, <2>1, HandedType
  <2> HIDE DEF view
  <2> QED
    BY <2>1, <2>2 DEF Handed, Move, SameJob, Row
<1>4. ASSUME NEW j \in next, NEW r \in Row, NEW reply, SameJob(view[j], r),
             r.status \in {"CANCELLED", "DELIVERED"},
             Answer(t, [unit[t].row EXCEPT ![j] = r], reply)
      PROVE  RetryInv'
  BY <1>0, <1>2, <1>4, AnswerOK
<1> QED
  <2> HIDE DEF view, next
  <2> QED BY <1>1, <1>2, <1>3, <1>4 DEF Pick, view, next

\* A unit of work that t's commit leaves alone has nothing in common with t:
\* neither a row nor the Device row.
LEMMA CommitPasses ==
  ASSUME TypeOK, TypeOK', QueueInv, RetryInv, NEW t \in Workers, Commit(t),
         NEW u \in Workers, u # t
  PROVE  Bystander(u) \/ unit'[u].row = Clean
<1> DEFINE S == {j \in JobId : Dirty(t, j)}
           D == {d \in Devices : Touches(t, d)}
<1>1. unit'[u] = Invalidate(S, D)[u] /\ job' = View(t)
  BY InvalidateType DEF Commit
<1>2. CASE unit'[u] = unit[u] /\ (\A j \in S : ~Dirty(u, j)) /\ (\A d \in D : ~Touches(u, d))
  <2>1. ASSUME NEW j \in JobId, Dirty(u, j)
        PROVE  job'[j].status = job[j].status /\ SameJob(job[j], job'[j])
    BY <1>1, <1>2, <2>1 DEF View, SameJob
  <2>2. ASSUME NEW j \in JobId
        PROVE  \/ Succeeds(job[j], job'[j])
               \/ /\ job[j].status = "ABSENT"
                  /\ (job'[j].attempt = 1 /\ ~job'[j].auto) \/ ~Touches(u, job'[j].dev)
    <3>1. CASE ~Dirty(t, j)
      BY <1>1, <3>1, SucceedsRefl DEF View
    <3>2. CASE Inserts(t, j)
      <4>1. InsertOK(t, j) /\ job'[j] = unit[t].row[j] /\ job'[j] \in Row
        BY <1>1, <3>2 DEF RetryInv, UnitOK, Inserts, View, TypeOK
      <4>2. job'[j].dev \in Devices /\ job'[j].auto \in BOOLEAN /\ job'[j].attempt \in 1..MaxAttempts
        BY <4>1 DEF Row
      <4>3. job'[j].auto \/ job'[j].attempt > 1 => ~Touches(u, job'[j].dev)
        BY <1>2, <4>1, <4>2 DEF InsertOK
      <4> QED
        BY <3>2, <4>2, <4>3, Bounds DEF Inserts
    <3>3. CASE Dirty(t, j) /\ job[j].status # "ABSENT"
      <4>1. /\ job'[j] = unit[t].row[j] /\ SameJob(job[j], job'[j])
            /\ Follows(job[j], job'[j])
        BY <1>1, <3>3 DEF RetryInv, UnitOK, View, QueueInv, WritesAreCurrent
      <4>2. job[j].status \in Open /\ ~Spent(job[j]) /\ ~Lost(job[j])
        BY <3>3, <4>1 DEF Follows, Moves, Active, Open, Spent, Lost, Terminal
      <4> QED
        BY <4>1, <4>2 DEF Succeeds
    <3> QED
      BY <3>1, <3>2, <3>3 DEF Inserts
  <2> QED
    BY <1>2, <2>1, <2>2 DEF Bystander, Kept
<1>3. CASE Invalidate(S, D)[u].row = Clean
  BY <1>1, <1>3
<1>4. \/ Invalidate(S, D)[u].row = Clean
      \/ /\ Invalidate(S, D)[u] = unit[u]
         /\ \A j \in S : ~Dirty(u, j)
         /\ \A d \in D : ~Touches(u, d)
  <2>1. unit[u] \in Unit
    BY DEF TypeOK
  <2>2. [unit[u] EXCEPT !.stale = TRUE, !.row = Clean, !.reply = NoJob].row = Clean
    BY <2>1 DEF Unit
  <2> HIDE DEF S, D
  <2> QED
    BY <2>2 DEF Invalidate
<1> QED
  BY <1>1, <1>2, <1>3, <1>4

\* The end of a transaction makes its view the table.
LEMMA CommitOK ==
  ASSUME TypeOK, TypeOK', QueueInv, RetryInv, NEW t \in Workers, Commit(t)
  PROVE  RetryInv'
<1>0. /\ job' = View(t) /\ alerts' = alerts /\ unit'[t] = Idle
      /\ job \in [JobId -> Row] /\ job' \in [JobId -> Row]
  <2>1. unit' = [Invalidate({j \in JobId : Dirty(t, j)}, {d \in Devices : Touches(t, d)})
                   EXCEPT ![t] = Idle]
    BY DEF Commit
  <2>2. unit'[t] = Idle
    BY <2>1 DEF Invalidate
  <2> QED
    BY <2>2 DEF Commit, TypeOK
<1>1. ASSUME NEW u \in Workers PROVE UnitOK(u)'
  <2>1. CASE u = t
    BY <1>0, <2>1, NoRowType, CleanOK
  <2>2. CASE u # t
    BY <1>0, <2>2, CommitPasses, BystanderOK, CleanOK
  <2> QED
    BY <2>1, <2>2
<1>2. ASSUME NEW j \in JobId
      PROVE  \/ /\ ~Inserts(t, j) /\ SameJob(job[j], job'[j]) /\ Succeeds(job[j], job'[j])
             \/ /\ Inserts(t, j) /\ InsertOK(t, j) /\ job[j].status = "ABSENT"
                /\ job'[j] = unit[t].row[j] /\ job'[j].status # "ABSENT"
  <2>1. CASE ~Dirty(t, j)
    BY <1>0, <2>1, SucceedsRefl DEF View, Inserts, SameJob
  <2>2. CASE Inserts(t, j)
    BY <1>0, <2>2 DEF RetryInv, UnitOK, Inserts, View, Dirty
  <2>3. CASE Dirty(t, j) /\ job[j].status # "ABSENT"
    <3>1. /\ job'[j] = unit[t].row[j] /\ SameJob(job[j], job'[j])
          /\ Follows(job[j], job'[j])
      BY <1>0, <2>3 DEF RetryInv, UnitOK, View, QueueInv, WritesAreCurrent
    <3>2. job[j].status \in Open /\ ~Spent(job[j]) /\ ~Lost(job[j])
      BY <2>3, <3>1 DEF Follows, Moves, Active, Open, Spent, Lost, Terminal
    <3> QED
      BY <2>3, <3>1, <3>2 DEF Succeeds, Inserts
  <2> QED
    BY <2>1, <2>2, <2>3 DEF Inserts
<1>3. ASSUME NEW j \in JobId
      PROVE  /\ job'[j].status = "ABSENT" =>
                  job'[j].attempt = 1 /\ job'[j].hash = NoHash /\ ~job'[j].auto
             /\ OnlyApplies(job'[j])
             /\ FailsForGood(job'[j]) => j \in alerts'
  <2>1. job'[j].status = "ABSENT" => job'[j] = job[j]
    BY <1>0 DEF View, Dirty
  <2>2. job'[j] = job[j] \/ job'[j] = unit[t].row[j]
    BY <1>0 DEF View
  <2> QED
    BY <1>0, <1>2, <2>1, <2>2
       DEF RetryInv, TableInv, UnitOK, InsertOK, OnlyApplies, SameJob
<1>4. ASSUME NEW j \in JobId, job'[j].attempt > 1 PROVE EarnedIn(job', j)
  <2>1. CASE Inserts(t, j)
    BY <1>0, <1>2, <1>4, <2>1 DEF InsertOK
  <2>2. CASE ~Inserts(t, j)
    <3>1. SameJob(job[j], job'[j]) /\ job[j].attempt > 1 /\ EarnedIn(job, j)
      BY <1>2, <1>4, <2>2 DEF SameJob, RetryInv, TableInv
    <3>2. ASSUME NEW i \in JobId, i < j
          PROVE  Succeeds(job[i], job'[i]) \/ Harmless(job[i], job'[i], job'[j].dev)
      <4>1. CASE Inserts(t, i) /\ job'[i].attempt > 1
        <5>1. \A k \in JobId : k > i /\ job[k].dev = job'[i].dev => job[k].attempt = 1
          BY <1>2, <4>1 DEF InsertOK
        <5>2. j > i
          BY <3>2, BoundsAssumption DEF JobId
        <5>3. job'[j].dev # job'[i].dev
          BY <3>1, <5>1, <5>2 DEF SameJob
        <5> QED
          BY <1>2, <4>1, <5>3 DEF Harmless
      <4>2. CASE Inserts(t, i) /\ ~(job'[i].attempt > 1)
        <5>1. job'[i].attempt \in 1..MaxAttempts
          BY <1>0 DEF Row
        <5>2. job'[i].attempt = 1
          BY <4>2, <5>1, Bounds
        <5> QED
          BY <4>2, <5>2 DEF Harmless, Inserts
      <4>3. CASE ~Inserts(t, i)
        BY <1>2, <4>3
      <4> QED
        BY <4>1, <4>2, <4>3
    <3> QED
      BY <1>0, <3>1, <3>2, EarnedKept
  <2> QED
    BY <2>1, <2>2
<1>5. ASSUME NEW i \in JobId, NEW j \in JobId, i # j, job'[i].dev = job'[j].dev,
             job'[i].auto, job'[i].status \in Open, job'[j].auto, job'[j].status \in Open
      PROVE  FALSE
  <2>1. CASE Inserts(t, i)
    BY <1>0, <1>2, <1>5, <2>1 DEF InsertOK, AloneInView
  <2>2. CASE Inserts(t, j)
    BY <1>0, <1>2, <1>5, <2>2 DEF InsertOK, AloneInView
  <2>3. CASE ~Inserts(t, i) /\ ~Inserts(t, j)
    BY <1>2, <1>5, <2>3 DEF Succeeds, SameJob, RetryInv, TableInv, OneAutomaticApply
  <2> QED
    BY <2>1, <2>2, <2>3
<1>6. OneAutomaticApply'
  BY <1>5 DEF OneAutomaticApply
<1> QED
  BY <1>1, <1>3, <1>4, <1>6 DEF RetryInv, TableInv

\* Giving up a unit of work, or rolling it back, writes nothing.
LEMMA EndOK ==
  ASSUME TypeOK, TypeOK', RetryInv, NEW t \in Workers, Rollback(t) \/ GiveUp(t)
  PROVE  RetryInv'
<1>1. unit[t] \in Unit /\ unit \in [Workers -> Unit] /\ job' = job /\ alerts' = alerts
  BY DEF TypeOK, Rollback, GiveUp
<1>2. ASSUME NEW u \in Workers PROVE Kept(u) \/ unit'[u].row = Clean
  <2>1. CASE Rollback(t)
    <3>1. unit'[u] = unit[u] \/ unit'[u] = Idle
      BY <1>1, <2>1 DEF Rollback
    <3> QED
      BY <3>1, NoRowType DEF Kept
  <2>2. CASE GiveUp(t)
    BY <1>1, <2>2 DEF GiveUp, Kept, Unit
  <2> QED
    BY <2>1, <2>2
<1> QED
  BY <1>1, <1>2, NothingWritten

-----------------------------------------------------------------------------
(* The theorems about retries *)

LEMMA InitRetry == ASSUME Init PROVE RetryInv
<1>1. /\ \A j \in JobId : job[j] = NoRow
      /\ \A t \in Workers : unit[t].row = Clean
      /\ NoRow.attempt = 1 /\ NoRow.hash = NoHash /\ NoRow.auto = FALSE
      /\ NoRow.status = "ABSENT"
  BY NoRowType DEF Init, Clean, NoRow, NewRow
<1>2. \A t \in Workers, j \in JobId : unit[t].row[j].status = "ABSENT"
  BY <1>1, NoRowType
<1>3. TableInv
  BY <1>1 DEF TableInv, OnlyApplies, FailsForGood, OneAutomaticApply
<1>4. \A t \in Workers : UnitOK(t)
  BY <1>2 DEF UnitOK, Dirty, Inserts, FailsForGood
<1> QED
  BY <1>3, <1>4 DEF RetryInv

LEMMA NextRetry == ASSUME IInv, IInv', RetryInv, [Next]_vars PROVE RetryInv'
<1> USE DEF IInv
<1>1. ASSUME UNCHANGED vars PROVE RetryInv'
  BY <1>1, NothingWritten DEF vars, Kept
<1>2. ASSUME NEW d \in Devices, AgentStep(d) PROVE RetryInv'
  <2>1. CASE Finished(d)
    <3> DEFINE j == agent[d].job
    <3>1. j \in JobId /\ WasDelivered(j) /\ agent[d].exit \in {0, 1}
      <4>1. agent[d].at = "done" /\ agent[d] \in Loop
        BY <2>1, AgentType DEF Finished
      <4> QED
        BY <4>1 DEF QueueInv, HeldWasDelivered, Loop
    <3>2. PostFinished(d, j, agent[d].exit, TRUE) /\ job' = job
      BY <2>1 DEF Finished
    <3> QED
      BY <3>1, <3>2, PostFinishedOK
  <2>2. CASE Prepare(d) \/ Apply(d) \/ Perform(d)
    BY <2>2, NothingWritten DEF Prepare, Apply, Perform, Kept
  <2> QED
    BY <1>2, <2>1, <2>2, StartedOK DEF AgentStep
<1>3. ASSUME NEW d \in Devices, NEW j \in JobId, TunnelFinished(d, j) PROVE RetryInv'
  <2>1. PICK exit \in {0, 1} : PostFinished(d, j, exit, FALSE)
    BY <1>3 DEF TunnelFinished
  <2>2. WasDelivered(j) /\ job' = job
    BY <1>3 DEF TunnelFinished, QueueInv, HeldWasDelivered
  <2> QED
    BY <2>1, <2>2, PostFinishedOK
<1>4. CASE Next
  BY <1>2, <1>3, <1>4, Steps, CheckinOK, EnqueueOK, PickOK, CommitOK, EndOK, SweepOK,
     SurroundingsOK
<1> QED
  BY <1>1, <1>4

LEMMA RetryInvariance == Spec => [](IInv /\ RetryInv)
<1>1. Init => RetryInv
  BY InitRetry
<1>2. IInv /\ IInv' /\ RetryInv /\ [Next]_vars => RetryInv'
  BY NextRetry
<1> QED
  BY <1>1, <1>2, Invariance, PTL DEF Spec

\* Overlapping check-ins of one device never leave it with two open applies
\* that drift detection queued.
THEOREM OneAtATime == Spec => []OneAutomaticApply
<1>1. RetryInv => OneAutomaticApply
  BY DEF RetryInv, TableInv
<1> QED
  BY <1>1, RetryInvariance, PTL

\* An apply that used up its attempts has been reported to the operators,
\* whether its agent, its next check-in or the sweep ended it.
THEOREM Alerted == Spec => []ExhaustedIsAlerted
<1>1. RetryInv => ExhaustedIsAlerted
  BY DEF RetryInv, TableInv, ExhaustedIsAlerted, FailsForGood
<1> QED
  BY <1>1, RetryInvariance, PTL

\* No retry is delivered without a failure of the attempt before it.
THEOREM Earned == Spec => []RetriesAreEarned
<1>1. ASSUME TypeOK, RetryInv PROVE RetriesAreEarned
  <2>1. ASSUME NEW j \in JobId, job[j].attempt > 1
        PROVE  \E k \in 1..(j - 1) :
                 /\ job[k].dev = job[j].dev /\ job[k].hash # NoHash
                 /\ job[k].attempt = job[j].attempt - 1
                 /\ job[k].status \in {"FAILED", "TIMED_OUT", "DELETED"}
                 /\ \A i \in k..(j - 1) : ~(/\ job[i].dev = job[j].dev /\ job[i].hash # NoHash
                                            /\ job[i].attempt = job[j].attempt
                                            /\ job[i].status # "DELETED")
    <3>1. EarnedIn(job, j)
      BY <1>1, <2>1 DEF RetryInv, TableInv
    <3>2. PICK k \in JobId :
            /\ k < j /\ job[k].dev = job[j].dev /\ job[k].attempt = job[j].attempt - 1
            /\ Lost(job[k])
            /\ \A i \in JobId : k <= i /\ i < j /\ job[i].dev = job[j].dev
                                  /\ job[i].attempt = job[j].attempt => Spent(job[i])
      BY <3>1 DEF EarnedIn
    <3>3. k \in 1..(j - 1)
      BY <3>2, BoundsAssumption DEF JobId
    <3>4. ASSUME NEW i \in k..(j - 1), job[i].dev = job[j].dev, job[i].hash # NoHash,
                 job[i].attempt = job[j].attempt
          PROVE  job[i].status = "DELETED"
      <4>1. i \in JobId /\ k <= i /\ i < j
        BY <3>4, BoundsAssumption DEF JobId
      <4>2. job[i].status = "ABSENT" => job[i].hash = NoHash
        BY <1>1, <4>1 DEF RetryInv, TableInv
      <4> QED
        BY <3>2, <3>4, <4>1, <4>2 DEF Spent
    <3> QED
      BY <3>2, <3>3, <3>4 DEF Lost
  <2> QED
    BY <2>1 DEF RetriesAreEarned
<1>2. IInv /\ RetryInv => RetriesAreEarned
  BY <1>1 DEF IInv
<1> QED
  BY <1>2, RetryInvariance, PTL

-----------------------------------------------------------------------------
(* No job is left behind *)

\* The hypothesis of NothingIsStranded: no response, report, agent or server
\* is lost, nobody edits a device, and no tunnel reports in the background.
\* Operators may queue and cancel jobs, retention may delete them, and specs
\* may change.
Quiet == Environment \subseteq {"cancel", "prune"} /\ "OPEN_TUNNEL" \notin OperatorTypes

\* The units of work then: the only row that one hands out is its answer, and
\* its device's; only the units of an agent's own requests are awaited; and a
\* report writes one row.
ShapeOK(u) ==
  /\ \A j \in JobId : u.row[j].type # "OPEN_TUNNEL"
  /\ u.stale => u.row = Clean
  /\ \A j \in JobId : u.row[j].status = "DELIVERED" =>
       u.step = "picked" /\ u.reply = j /\ u.row[j].dev = u.dev
  /\ u.awaited => u.step \in {"converged", "picked", "finished"}
  /\ u.step = "finished" =>
       \A i, j \in JobId : u.row[i].status # "ABSENT" /\ u.row[j].status # "ABSENT" => i = j

\* A unit of work holds the verdict on job j of device d.
Holds(t, d, j) == unit[t].step = "finished" /\ unit[t].dev = d /\ Dirty(t, j)

\* An agent has at most one request open and waits for it, and a delivered
\* job of its device is in its hands or in that request.  Once a reboot was
\* delivered the agent may die at any time and nothing is promised.
InHand(d) ==
  /\ \A t \in Workers : Touches(t, d) => agent[d].at = "waiting" /\ unit[t].awaited
  /\ \A t, u \in Workers : Touches(t, d) /\ Touches(u, d) => t = u
  /\ agent[d].at \in {"idle", "waiting"} => agent[d].job = NoJob
  /\ \A j \in JobId : job[j].dev = d /\ job[j].status \in Active =>
       agent[d].job = j \/ \E t \in Threads : Holds(t, d, j)

HandInv ==
  /\ \A d \in Devices :
       /\ tunnels[d] = {}
       /\ agent[d].at \notin {"idle", "waiting"} => job[agent[d].job].dev = d
       /\ Rebooting(d) \/ InHand(d)
  /\ \A j \in JobId : job[j].type # "OPEN_TUNNEL"
  /\ \A t \in Workers : ShapeOK(unit[t])

\* A reboot stays asked for.
LEMMA RebootingStays ==
  ASSUME Evolution, NEW d \in Devices, Rebooting(d)
  PROVE  Rebooting(d)'
<1>1. PICK j \in JobId : /\ job[j].dev = d /\ job[j].type = "REBOOT"
                         /\ job[j].status \notin {"ABSENT", "PENDING"}
  BY DEF Rebooting
<1>2. Evolves(job[j], job'[j])
  BY DEF Evolution
<1>3. /\ job'[j].dev = d /\ job'[j].type = "REBOOT"
      /\ job'[j].status \notin {"ABSENT", "PENDING"}
  BY <1>1, <1>2 DEF Evolves, Moves, Active, Terminal
<1> QED
  BY <1>3 DEF Rebooting

\* No tunnel is ever inserted, and what was handed to an agent stays its
\* device's.
LEMMA NoTunnelStep ==
  ASSUME TypeOK, QueueInv, HandInv, Evolution,
         \A j \in JobId : job[j].status = "ABSENT" /\ job'[j] # job[j] => job'[j].type # "OPEN_TUNNEL"
  PROVE  \A j \in JobId : job'[j].type # "OPEN_TUNNEL"
BY DEF HandInv, Evolution, Evolves

LEMMA HeldDevStep ==
  ASSUME TypeOK, QueueInv, HandInv, Evolution, NEW d \in Devices,
         agent[d].at \notin {"idle", "waiting"}
  PROVE  job'[agent[d].job].dev = d
<1>1. agent[d].job \in JobId /\ WasDelivered(agent[d].job) /\ job[agent[d].job].dev = d
  BY AgentType DEF QueueInv, HeldWasDelivered, HandInv, Loop
<1> QED
  BY <1>1 DEF Evolution, Evolves, WasDelivered

\* What losing the version check changes of a unit of work.
LEMMA InvalidateShape ==
  ASSUME TypeOK, NEW S, NEW D, NEW t \in Workers
  PROVE  LET u == Invalidate(S, D)[t] IN
         /\ u.step = unit[t].step /\ u.dev = unit[t].dev /\ u.awaited = unit[t].awaited
         /\ ShapeOK(unit[t]) => ShapeOK(u)
         /\ (\A j \in S : ~Dirty(t, j)) /\ (\A d \in D : ~Touches(t, d)) => u = unit[t]
<1> DEFINE v == [unit[t] EXCEPT !.stale = TRUE, !.row = Clean, !.reply = NoJob]
<1>1. unit[t] \in Unit
  BY DEF TypeOK
<1>2. /\ v.step = unit[t].step /\ v.dev = unit[t].dev /\ v.awaited = unit[t].awaited
      /\ v.row = Clean
  BY <1>1 DEF Unit
<1>3. \A j \in JobId : Clean[j].type # "OPEN_TUNNEL" /\ Clean[j].status = "ABSENT"
  BY NoRowType DEF Clean, NoRow, NewRow
<1>4. ShapeOK(unit[t]) => ShapeOK(v)
  <2> HIDE DEF v
  <2> QED BY <1>2, <1>3 DEF ShapeOK
<1>5. Invalidate(S, D)[t] = v \/ Invalidate(S, D)[t] = unit[t]
  BY DEF Invalidate
<1>6. (\A j \in S : ~Dirty(t, j)) /\ (\A d \in D : ~Touches(t, d)) => Invalidate(S, D)[t] = unit[t]
  BY DEF Invalidate
<1> QED
  <2> HIDE DEF v
  <2> QED BY <1>2, <1>4, <1>5, <1>6

LEMMA IdleShape == ShapeOK(Idle)
<1>1. \A j \in JobId : Clean[j].type # "OPEN_TUNNEL" /\ Clean[j].status = "ABSENT"
  BY NoRowType DEF Clean, NoRow, NewRow
<1> QED
  BY <1>1 DEF ShapeOK, Idle

\* The step leaves device d alone: its agent, its open request and the
\* verdict in it; none of its jobs becomes a delivered one.
Aside(d) ==
  /\ agent'[d] = agent[d]
  /\ \A t \in Workers : /\ Touches(t, d)' = Touches(t, d)
                        /\ Touches(t, d) => unit'[t].awaited = unit[t].awaited
  /\ \A j \in JobId : job'[j].dev = d /\ job'[j].status \in Active =>
       /\ job[j].dev = d /\ job[j].status \in Active
       /\ \A t \in Threads : Holds(t, d, j) => Holds(t, d, j)'

LEMMA AsideOK ==
  ASSUME NEW d \in Devices, InHand(d), Aside(d)
  PROVE  InHand(d)'
<1>1. \A t \in Workers : Touches(t, d)' => agent'[d].at = "waiting" /\ unit'[t].awaited
  BY DEF InHand, Aside
<1>2. \A t, u \in Workers : Touches(t, d)' /\ Touches(u, d)' => t = u
  BY DEF InHand, Aside
<1>3. agent'[d].at \in {"idle", "waiting"} => agent'[d].job = NoJob
  BY DEF InHand, Aside
<1>4. ASSUME NEW j \in JobId, job'[j].dev = d, job'[j].status \in Active
      PROVE  agent'[d].job = j \/ \E t \in Threads : Holds(t, d, j)'
  BY <1>4 DEF InHand, Aside
<1> QED
  BY <1>1, <1>2, <1>3, <1>4 DEF InHand

\* What each step is shown to do.
HandStep ==
  /\ \A d \in Devices : tunnels'[d] = {}
  /\ \A t \in Workers : ShapeOK(unit'[t])
  /\ \A d \in Devices : InHand(d) => InHand(d)' \/ Rebooting(d)
  /\ \A d \in Devices : agent'[d].at \notin {"idle", "waiting"} =>
       \/ agent[d].at \notin {"idle", "waiting"} /\ agent'[d].job = agent[d].job
       \/ job'[agent'[d].job].dev = d
  /\ \A j \in JobId : job[j].status = "ABSENT" /\ job'[j] # job[j] => job'[j].type # "OPEN_TUNNEL"

LEMMA HandStepOK ==
  ASSUME TypeOK, QueueInv, HandInv, Evolution, HandStep
  PROVE  HandInv'
<1>1. \A j \in JobId : job'[j].type # "OPEN_TUNNEL"
  BY NoTunnelStep DEF HandStep
<1>2. ASSUME NEW d \in Devices
      PROVE  /\ tunnels'[d] = {}
             /\ agent'[d].at \notin {"idle", "waiting"} => job'[agent'[d].job].dev = d
             /\ Rebooting(d)' \/ InHand(d)'
  BY HeldDevStep, RebootingStays DEF HandStep, HandInv
<1> QED
  BY <1>1, <1>2 DEF HandInv, HandStep

\* The steps that touch neither an agent nor its tunnels nor any open unit.
LEMMA QuietStep ==
  ASSUME TypeOK, HandInv, UNCHANGED <<unit, agent, tunnels>>,
         \A j \in JobId : job'[j].dev = job[j].dev /\ job'[j].type = job[j].type
                            /\ job'[j].status = job[j].status
  PROVE  HandStep
<1>1. ASSUME NEW d \in Devices PROVE Aside(d)
  BY DEF Aside, Touches, Holds, Dirty
<1> QED
  BY <1>1, AsideOK DEF HandStep, HandInv

\* A request of one step that ends jobs, or deletes them: a verdict on
\* another job is not touched.
LEMMA EndsJobs ==
  ASSUME TypeOK, HandInv, NEW S \in SUBSET JobId, UNCHANGED <<agent, tunnels>>,
         \A t \in Workers : unit'[t] = Invalidate(S, {})[t],
         \A j \in JobId : j \notin S => job'[j] = job[j],
         \A j \in S : job[j].status # "ABSENT" /\ job'[j].status \notin Active
  PROVE  HandStep
<1>1. ASSUME NEW t \in Workers
      PROVE  /\ unit'[t].step = unit[t].step /\ unit'[t].dev = unit[t].dev
             /\ unit'[t].awaited = unit[t].awaited /\ ShapeOK(unit'[t])
             /\ (\A j \in S : ~Dirty(t, j)) => unit'[t] = unit[t]
  BY InvalidateShape DEF HandInv
<1>2. ASSUME NEW d \in Devices PROVE Aside(d)
  <2>1. ASSUME NEW j \in JobId, job'[j].status \in Active, NEW t \in Threads, Holds(t, d, j)
        PROVE  Holds(t, d, j)'
    <3>1. t \in Workers /\ j \notin S
      BY <2>1 DEF Workers
    <3>2. \A i \in S : ~Dirty(t, i)
      BY <2>1, <3>1 DEF Holds, Dirty, HandInv, ShapeOK
    <3> QED
      BY <1>1, <2>1, <3>1, <3>2 DEF Holds, Dirty
  <2>2. \A j \in JobId : job'[j].status \in Active => job'[j] = job[j]
    OBVIOUS
  <2> QED
    BY <1>1, <2>1, <2>2 DEF Aside, Touches
<1> QED
  BY <1>1, <1>2, AsideOK DEF HandStep, HandInv

\* A new unit of work that hands out nothing.
LEMMA OpenShape ==
  ASSUME TypeOK, HandInv, NEW t \in Workers, NEW step, NEW d, NEW rows, NEW awaited,
         OpenUnit(t, step, d, rows, awaited),
         \A j \in JobId : rows[j].type # "OPEN_TUNNEL" /\ rows[j].status # "DELIVERED",
         awaited => step \in {"converged", "picked", "finished"},
         step = "finished" =>
           \A i, j \in JobId : rows[i].status # "ABSENT" /\ rows[j].status # "ABSENT" => i = j
  PROVE  \A u \in Workers : ShapeOK(unit'[u])
<1>1. ASSUME NEW u \in Workers, u # t PROVE ShapeOK(unit'[u])
  BY <1>1, OpenUnitRows DEF HandInv
<1>2. /\ unit'[t].step = step /\ unit'[t].row = rows /\ unit'[t].awaited = awaited
      /\ unit'[t].stale = FALSE
  BY DEF OpenUnit, TypeOK
<1>3. ShapeOK(unit'[t])
  BY <1>2 DEF ShapeOK
<1> QED
  BY <1>1, <1>3

\* It belongs to one device, or to none that waits for it.
LEMMA OpenAside ==
  ASSUME TypeOK, HandInv, NEW t \in Workers, NEW step, NEW e, NEW rows, NEW awaited,
         OpenUnit(t, step, e, rows, awaited), job' = job,
         NEW d \in Devices, d # e \/ step \in {"queued", "swept"}, agent'[d] = agent[d]
  PROVE  Aside(d)
<1>1. /\ unit[t].step = "idle"
      /\ unit'[t].step = step /\ unit'[t].dev = e
      /\ \A u \in Workers : u # t => unit'[u] = unit[u]
  <2>1. unit[t].step = "idle"
    BY DEF OpenUnit, Idle
  <2> QED
    BY <2>1, OpenUnitRows
<1>2. ASSUME NEW u \in Workers
      PROVE  /\ Touches(u, d)' = Touches(u, d)
             /\ Touches(u, d) => unit'[u].awaited = unit[u].awaited
             /\ \A j \in JobId : Holds(u, d, j) => Holds(u, d, j)'
  <2>1. CASE u = t
    BY <1>1, <2>1 DEF Touches, Holds
  <2>2. CASE u # t
    BY <1>1, <2>2 DEF Touches, Holds, Dirty
  <2> QED
    BY <2>1, <2>2
<1> QED
  BY <1>2 DEF Aside, Workers

LEMMA TimedOutShape ==
  ASSUME TypeOK, HandInv, NEW S \in SUBSET JobId
  PROVE  \A j \in JobId : /\ TimedOut(S)[j].type # "OPEN_TUNNEL"
                            /\ TimedOut(S)[j].status # "DELIVERED"
<1>1. ASSUME NEW j \in JobId
      PROVE  /\ Move(job[j], "TIMED_OUT").type # "OPEN_TUNNEL"
             /\ Move(job[j], "TIMED_OUT").status # "DELIVERED"
    BY DEF TypeOK, HandInv, Move, Row
<1>2. NoRow.type # "OPEN_TUNNEL" /\ NoRow.status # "DELIVERED"
  BY NoRowType DEF NoRow, NewRow
<1> QED
  BY <1>1, <1>2 DEF TimedOut

\* A check-in begins when its agent has no request open.
LEMMA CheckinHand ==
  ASSUME TypeOK, HandInv, NEW d \in Devices, NEW t \in Threads, Checkin(d, t)
  PROVE  HandStep
<1> DEFINE stuck == {j \in Stuck : job[j].dev = d}
           view == [j \in JobId |-> IF j \in stuck THEN TimedOut(stuck)[j] ELSE job[j]]
<1>1. /\ t \in Workers /\ stuck \subseteq JobId /\ TimedOut(stuck) \in [JobId -> Row]
      /\ job' = job /\ tunnels' = tunnels /\ agent[d].at = "idle"
      /\ agent' = [agent EXCEPT ![d].at = "waiting"] /\ agent \in [Devices -> Loop]
  BY TimedOutType DEF Stuck, Workers, Checkin, TypeOK, Loop
<1>2. view \in [JobId -> Row]
  BY <1>1 DEF TypeOK
<1>3. PICK rows : /\ OpenUnit(t, "converged", d, rows, TRUE)
                  /\ \A j \in JobId : rows[j].type # "OPEN_TUNNEL" /\ rows[j].status # "DELIVERED"
  <2>1. \A j \in JobId : /\ TimedOut(stuck)[j].type # "OPEN_TUNNEL"
                          /\ TimedOut(stuck)[j].status # "DELIVERED"
    <3> HIDE DEF stuck
    <3> QED BY <1>1, TimedOutShape
  <2>2. CASE OpenUnit(t, "converged", d, TimedOut(stuck), TRUE)
    <3> HIDE DEF stuck
    <3> QED BY <2>1, <2>2
  <2>3. ASSUME NEW r \in Drift(view, d), NEW n \in NextId,
               OpenUnit(t, "converged", d, [TimedOut(stuck) EXCEPT ![n] = r], TRUE)
        PROVE  \E rows : /\ OpenUnit(t, "converged", d, rows, TRUE)
                         /\ \A j \in JobId : rows[j].type # "OPEN_TUNNEL" /\ rows[j].status # "DELIVERED"
    <3> DEFINE rows == [TimedOut(stuck) EXCEPT ![n] = r]
    <3>1. r.type = "APPLY_CONFIG" /\ r.status = "PENDING"
      BY <1>2, DriftOK
    <3>2. \A j \in JobId : rows[j] = TimedOut(stuck)[j] \/ rows[j] = r
      BY <1>1
    <3>3. \A j \in JobId : rows[j].type # "OPEN_TUNNEL" /\ rows[j].status # "DELIVERED"
      <4> HIDE DEF rows, stuck
      <4> QED BY <2>1, <3>1, <3>2
    <3>4. OpenUnit(t, "converged", d, rows, TRUE)
      BY <2>3
    <3> HIDE DEF rows
    <3> QED BY <3>3, <3>4
  <2> QED
    <3> HIDE DEF stuck, view
    <3> QED BY <2>2, <2>3, <2>1 DEF Checkin, stuck, view
<1>4. \A u \in Workers : ShapeOK(unit'[u])
  BY <1>1, <1>3, OpenShape
<1>5. ASSUME NEW e \in Devices, e # d, InHand(e) PROVE InHand(e)'
  <2>1. agent'[e] = agent[e]
    BY <1>1, <1>5
  <2> QED
    BY <1>1, <1>3, <1>5, <2>1, OpenAside, AsideOK
<1>6. ASSUME InHand(d) PROVE InHand(d)'
  <2>1. \A u \in Workers : ~Touches(u, d)
    BY <1>1, <1>6 DEF InHand
  <2>2. /\ unit'[t].awaited = TRUE
        /\ \A u \in Workers : u # t => unit'[u] = unit[u]
    BY <1>1, <1>3 DEF OpenUnit, TypeOK
  <2>3. \A u \in Workers : Touches(u, d)' => u = t
    BY <2>1, <2>2 DEF Touches
  <2>4. agent'[d].at = "waiting" /\ agent'[d].job = NoJob
    BY <1>1, <1>6 DEF InHand, Loop
  <2>5. \A j \in JobId : ~(job[j].dev = d /\ job[j].status \in Active)
    <3>1. \A u \in Threads, j \in JobId : ~Holds(u, d, j)
      BY <2>1 DEF Holds, Touches, Workers
    <3>2. agent[d].job = NoJob /\ \A j \in JobId : j # NoJob
      BY <1>1, <1>6, Bounds DEF InHand
    <3> QED
      BY <1>6, <3>1, <3>2 DEF InHand
  <2> QED
    BY <1>1, <2>2, <2>3, <2>4, <2>5 DEF InHand
<1>7. \A e \in Devices : agent'[e].at \notin {"idle", "waiting"} => agent'[e] = agent[e]
  BY <1>1 DEF Loop
<1> QED
  BY <1>1, <1>4, <1>5, <1>6, <1>7 DEF HandStep, HandInv

\* A request of an operator belongs to no agent.
LEMMA EnqueueHand ==
  ASSUME TypeOK, HandInv, NEW d \in Devices, NEW type \in JobType \ {"OPEN_TUNNEL"},
         NEW after \in 0..MaxTime, NEW grouped \in BOOLEAN, NEW t,
         Enqueue(d, type, after, grouped, t)
  PROVE  HandStep
<1>0. \A j \in JobId : Clean[j].type # "OPEN_TUNNEL" /\ Clean[j].status = "ABSENT"
  BY NoRowType DEF Clean, NoRow, NewRow
<1>1. t \in Workers /\ UNCHANGED <<job, agent, tunnels>>
  BY DEF Enqueue, Workers
<1>2. ASSUME NEW n, NEW r, r.type # "OPEN_TUNNEL", r.status # "DELIVERED"
      PROVE  \A j \in JobId : /\ [Clean EXCEPT ![n] = r][j].type # "OPEN_TUNNEL"
                              /\ [Clean EXCEPT ![n] = r][j].status # "DELIVERED"
  BY <1>0, <1>2, NoRowType
<1>4. \A j \in JobId : job[j].status = "PENDING" =>
        /\ [job[j] EXCEPT !.after = after].type # "OPEN_TUNNEL"
        /\ [job[j] EXCEPT !.after = after].status # "DELIVERED"
  BY DEF TypeOK, HandInv, Row
<1>5. PICK rows : /\ OpenUnit(t, "queued", d, rows, FALSE)
                  /\ \A j \in JobId : rows[j].type # "OPEN_TUNNEL" /\ rows[j].status # "DELIVERED"
  <2>1. CASE \E n \in NextId : OpenUnit(t, "queued", d,
               [Clean EXCEPT ![n] = NewRow(d, type, 1, after, FALSE)], FALSE)
    <3>1. PICK n \in NextId : OpenUnit(t, "queued", d,
               [Clean EXCEPT ![n] = NewRow(d, type, 1, after, FALSE)], FALSE)
      BY <2>1
    <3> DEFINE r == NewRow(d, type, 1, after, FALSE)
    <3>2. r.type # "OPEN_TUNNEL" /\ r.status # "DELIVERED"
      BY DEF NewRow
    <3> HIDE DEF r
    <3> QED BY <1>2, <3>1, <3>2 DEF r
  <2>2. CASE \E j \in JobId : /\ job[j].status = "PENDING"
                             /\ OpenUnit(t, "queued", d,
                                  [Clean EXCEPT ![j] = [job[j] EXCEPT !.after = after]], FALSE)
    <3>1. PICK j \in JobId : /\ job[j].status = "PENDING"
                             /\ OpenUnit(t, "queued", d,
                                  [Clean EXCEPT ![j] = [job[j] EXCEPT !.after = after]], FALSE)
      BY <2>2
    <3> DEFINE r == [job[j] EXCEPT !.after = after]
    <3>2. r.type # "OPEN_TUNNEL" /\ r.status # "DELIVERED"
      BY <1>4, <3>1
    <3> HIDE DEF r
    <3> QED BY <1>2, <3>1, <3>2 DEF r
  <2> QED
    BY <2>1, <2>2 DEF Enqueue
<1>6. \A u \in Workers : ShapeOK(unit'[u])
  BY <1>1, <1>5, OpenShape
<1>7. \A e \in Devices : Aside(e)
  BY <1>1, <1>5, OpenAside
<1> QED
  BY <1>1, <1>6, <1>7, AsideOK DEF HandStep, HandInv

\* So does the sweep.
LEMMA SweepHand ==
  ASSUME TypeOK, HandInv, Sweep
  PROVE  HandStep
<1>1. /\ Scheduler \in Workers /\ UNCHANGED <<job, agent, tunnels>>
      /\ OpenUnit(Scheduler, "swept", NoRow.dev, TimedOut(Stuck), FALSE)
  BY DEF Sweep, Workers
<1>2. \A j \in JobId : /\ TimedOut(Stuck)[j].type # "OPEN_TUNNEL"
                       /\ TimedOut(Stuck)[j].status # "DELIVERED"
  BY TimedOutShape DEF Stuck
<1>3. \A u \in Workers : ShapeOK(unit'[u])
  BY <1>1, <1>2, OpenShape
<1>4. \A e \in Devices : Aside(e)
  BY <1>1, OpenAside
<1> QED
  BY <1>1, <1>3, <1>4, AsideOK DEF HandStep, HandInv

\* Choosing the answer of a check-in goes on with the same request.
LEMMA PickHand ==
  ASSUME TypeOK, HandInv, NEW t \in Workers, Pick(t)
  PROVE  HandStep
<1> DEFINE view == View(t)
           next == NextPending(view, unit[t].dev)
<1>0. /\ view \in [JobId -> Row] /\ unit[t].step = "converged" /\ ~unit[t].stale
      /\ unit[t] \in Unit /\ unit[t].row \in [JobId -> Row] /\ UNCHANGED <<job, agent, tunnels>>
      /\ unit \in [Workers -> Unit] /\ ShapeOK(unit[t])
      /\ \A j \in JobId : view[j].type # "OPEN_TUNNEL"
  BY ViewType DEF Pick, TypeOK, HandInv, Unit, View, ShapeOK
<1>1. ASSUME NEW rows \in [JobId -> Row], NEW reply, Answer(t, rows, reply),
             \A j \in JobId : rows[j].type # "OPEN_TUNNEL",
             \A j \in JobId : rows[j].status = "DELIVERED" =>
               reply = j /\ rows[j].dev = unit[t].dev
      PROVE  HandStep
  <2>1. /\ unit'[t].row = rows /\ unit'[t].reply = reply /\ unit'[t].step = "picked"
        /\ unit'[t].dev = unit[t].dev /\ unit'[t].awaited = unit[t].awaited
        /\ unit'[t].stale = FALSE
        /\ \A u \in Workers : u # t => unit'[u] = unit[u]
    BY <1>0, <1>1 DEF Answer, Unit
  <2>2. ShapeOK(unit'[t])
    BY <1>1, <2>1 DEF ShapeOK
  <2>3. ASSUME NEW u \in Workers, NEW d \in Devices
        PROVE  /\ Touches(u, d)' = Touches(u, d) /\ unit'[u].awaited = unit[u].awaited
               /\ \A j \in JobId : Holds(u, d, j) => Holds(u, d, j)'
    <3>1. CASE u = t
      BY <1>0, <2>1, <3>1 DEF Touches, Holds
    <3>2. CASE u # t
      BY <2>1, <3>2 DEF Touches, Holds, Dirty
    <3> QED
      BY <3>1, <3>2
  <2>4. \A d \in Devices : Aside(d)
    BY <1>0, <2>3 DEF Aside, Workers
  <2> QED
    BY <1>0, <2>1, <2>2, <2>4, AsideOK DEF HandStep, HandInv
<1>2. ASSUME NEW j \in next
      PROVE  /\ j \in JobId /\ view[j].dev = unit[t].dev /\ view[j] \in Row
             /\ view[j].type # "OPEN_TUNNEL"
  BY <1>0, <1>2 DEF NextPending
<1>3. \A j \in JobId : /\ unit[t].row[j].type # "OPEN_TUNNEL"
                       /\ unit[t].row[j].status # "DELIVERED"
  BY <1>0 DEF ShapeOK
<1>4. ASSUME NEW j \in next, NEW r \in Row, r.type # "OPEN_TUNNEL", NEW reply,
             r.status = "DELIVERED" => reply = j /\ r.dev = unit[t].dev,
             Answer(t, [unit[t].row EXCEPT ![j] = r], reply)
      PROVE  HandStep
  <2> DEFINE rows == [unit[t].row EXCEPT ![j] = r]
  <2>1. rows \in [JobId -> Row] /\ \A k \in JobId : rows[k] = IF k = j THEN r ELSE unit[t].row[k]
    BY <1>0, <1>4
  <2> HIDE DEF rows, next
  <2> QED BY <1>1, <1>3, <1>4, <2>1 DEF rows
<1>5. CASE Answer(t, unit[t].row, NoJob)
  BY <1>0, <1>1, <1>3, <1>5
<1>6. ASSUME NEW j \in next
      PROVE  /\ Move(view[j], "CANCELLED") \in Row /\ Move(view[j], "CANCELLED").type # "OPEN_TUNNEL"
             /\ Move(view[j], "CANCELLED").status # "DELIVERED"
  <2>1. view[j] \in Row /\ view[j].type # "OPEN_TUNNEL"
    BY <1>2, <1>6
  <2> HIDE DEF view
  <2> QED BY <2>1, MoveType DEF Move, Row, Status, Terminal
<1>7. ASSUME NEW j \in next, ~Undeliverable(view[j])
      PROVE  /\ Handed(view[j]) \in Row /\ Handed(view[j]).type # "OPEN_TUNNEL"
             /\ Handed(view[j]).dev = unit[t].dev
  <2>1. view[j] \in Row /\ view[j].type # "OPEN_TUNNEL" /\ view[j].dev = unit[t].dev
    BY <1>2, <1>7
  <2>2. Handed(view[j]) \in Row
    BY <1>7, <2>1, HandedType
  <2> HIDE DEF view
  <2> QED BY <2>1, <2>2 DEF Handed, Move, Row
<1> QED
  <2> HIDE DEF view, next
  <2> QED BY <1>4, <1>5, <1>6, <1>7 DEF Pick, view, next

\* The end of a request: its agent goes on with what it answered.
LEMMA CommitHand ==
  ASSUME TypeOK, QueueInv, HandInv, NEW t \in Workers, Commit(t)
  PROVE  HandStep
<1> DEFINE S == {j \in JobId : Dirty(t, j)}
           D == {d \in Devices : Touches(t, d)}
<1>0. /\ job' = View(t) /\ tunnels' = tunnels /\ agent \in [Devices -> Loop]
      /\ ~unit[t].stale /\ unit[t] \in Unit /\ ShapeOK(unit[t])
      /\ unit'[t] = Idle
      /\ \A u \in Workers : u # t => unit'[u] = Invalidate(S, D)[u]
  <2>1. unit' = [Invalidate(S, D) EXCEPT ![t] = Idle] /\ Invalidate(S, D) \in [Workers -> Unit]
    BY InvalidateType DEF Commit
  <2> QED
    <3> HIDE DEF S, D
    <3> QED BY <2>1 DEF Commit, TypeOK, Loop, HandInv
<1>1. ASSUME NEW u \in Workers, u # t
      PROVE  /\ unit'[u].step = unit[u].step /\ unit'[u].dev = unit[u].dev
             /\ unit'[u].awaited = unit[u].awaited /\ ShapeOK(unit'[u])
             /\ (\A j \in S : ~Dirty(u, j)) /\ (\A d \in D : ~Touches(u, d)) => unit'[u] = unit[u]
  <2> HIDE DEF S, D
  <2> QED BY <1>0, <1>1, InvalidateShape DEF HandInv
<1>2. \A u \in Workers : ShapeOK(unit'[u])
  BY <1>0, <1>1, IdleShape
<1>3. ASSUME NEW j \in JobId
      PROVE  /\ Dirty(t, j) => job'[j] = unit[t].row[j] /\ Follows(job[j], job'[j])
             /\ ~Dirty(t, j) => job'[j] = job[j]
             /\ Dirty(t, j) /\ job'[j].status \in Active =>
                  /\ unit[t].reply = j /\ job'[j].dev = unit[t].dev
                  /\ Touches(t, unit[t].dev)
  <2>1. /\ Dirty(t, j) => job'[j] = unit[t].row[j] /\ Follows(job[j], job'[j])
        /\ ~Dirty(t, j) => job'[j] = job[j]
    BY <1>0 DEF View, QueueInv, WritesAreCurrent
  <2>2. Dirty(t, j) /\ job'[j].status \in Active => unit[t].row[j].status = "DELIVERED"
    BY <2>1 DEF Follows, Moves, Active
  <2> QED
    BY <1>0, <2>1, <2>2 DEF ShapeOK, Touches
<1>4. ASSUME NEW d \in Devices, Touches(t, d), InHand(d)
      PROVE  InHand(d)'
  <2>1. /\ unit[t].dev = d /\ unit[t].awaited /\ agent[d].at = "waiting" /\ agent[d].job = NoJob
        /\ \A u \in Workers : Touches(u, d) => u = t
    BY <1>4 DEF InHand, Touches
  <2>2. \A u \in Workers : ~Touches(u, d)'
    <3>1. ~Touches(t, d)'
      BY <1>0 DEF Touches, Idle
    <3>2. ASSUME NEW u \in Workers, u # t PROVE ~Touches(u, d)'
      BY <1>1, <2>1, <3>2 DEF Touches
    <3> QED
      BY <3>1, <3>2
  <2>3. agent'[d] = IF unit[t].reply = NoJob THEN Free
                      ELSE [at |-> "got", job |-> unit[t].reply, exit |-> 0]
    BY <1>0, <2>1 DEF Commit
  <2>4. ASSUME NEW j \in JobId, job'[j].dev = d, job'[j].status \in Active
        PROVE  agent'[d].job = j
    <3>1. CASE Dirty(t, j)
      <4>1. unit[t].reply = j /\ j # NoJob
        BY <1>3, <2>4, <3>1, Bounds
      <4> QED
        BY <2>3, <4>1
    <3>2. CASE ~Dirty(t, j)
      <4>1. job[j].dev = d /\ job[j].status \in Active /\ agent[d].job # j
        BY <1>3, <2>1, <2>4, <3>2, Bounds
      <4>2. PICK u \in Threads : Holds(u, d, j)
        BY <1>4, <4>1 DEF InHand
      <4>3. u = t
        BY <2>1, <4>2 DEF Holds, Touches, Workers
      <4> QED
        BY <3>2, <4>2, <4>3 DEF Holds
    <3> QED
      BY <3>1, <3>2
  <2>5. agent'[d].at \in {"idle", "waiting"} => agent'[d].job = NoJob
    BY <2>3 DEF Free
  <2> QED
    BY <2>2, <2>4, <2>5 DEF InHand
<1>5. ASSUME NEW d \in Devices, ~Touches(t, d)
      PROVE  agent'[d] = agent[d]
  <2>1. unit[t].awaited => unit[t].dev # d
    BY <1>0, <1>5 DEF ShapeOK, Touches
  <2> QED
    BY <1>0, <2>1 DEF Commit
<1>6. ASSUME NEW d \in Devices, ~Touches(t, d), InHand(d)
      PROVE  InHand(d)'
  <2>1. ASSUME NEW j \in JobId, job'[j].dev = d, job'[j].status \in Active
        PROVE  ~Dirty(t, j) /\ job'[j] = job[j]
    BY <1>3, <1>6, <2>1
  <2>2. ASSUME NEW j \in JobId, ~Dirty(t, j), NEW u \in Threads, Holds(u, d, j)
        PROVE  Holds(u, d, j)'
    <3>1. u \in Workers /\ u # t /\ Touches(u, d)
      BY <2>2 DEF Holds, Touches, Workers
    <3>2. \A i \in S : ~Dirty(u, i)
      BY <2>2, <3>1 DEF Holds, Dirty, HandInv, ShapeOK
    <3>3. \A e \in D : ~Touches(u, e)
      BY <1>6, <3>1 DEF Touches
    <3> QED
      <4> HIDE DEF S, D
      <4> QED BY <1>1, <2>2, <3>1, <3>2, <3>3 DEF Holds, Dirty
  <2>3. ASSUME NEW u \in Workers
        PROVE  /\ Touches(u, d)' = Touches(u, d)
               /\ Touches(u, d) => unit'[u].awaited = unit[u].awaited
    <3>1. CASE u = t
      BY <1>0, <1>6, <3>1 DEF Touches, Idle
    <3>2. CASE u # t
      BY <1>1, <3>2 DEF Touches
    <3> QED
      BY <3>1, <3>2
  <2>4. Aside(d)
    BY <1>5, <1>6, <2>1, <2>2, <2>3 DEF Aside
  <2> QED
    BY <1>6, <2>4, AsideOK
<1>7. ASSUME NEW d \in Devices, agent'[d].at \notin {"idle", "waiting"}
      PROVE  \/ agent[d].at \notin {"idle", "waiting"} /\ agent'[d].job = agent[d].job
             \/ job'[agent'[d].job].dev = d
  <2>1. CASE ~(unit[t].awaited /\ unit[t].dev = d)
    BY <1>0, <1>7, <2>1 DEF Commit
  <2>2. CASE unit[t].awaited /\ unit[t].dev = d
    <3>1. agent'[d] = IF unit[t].reply = NoJob THEN Free
                        ELSE [at |-> "got", job |-> unit[t].reply, exit |-> 0]
      BY <1>0, <2>2 DEF Commit
    <3>2. unit[t].reply # NoJob /\ agent'[d].job = unit[t].reply
      BY <1>7, <3>1 DEF Free
    <3>3. unit[t].reply \in JobId /\ unit[t].row[unit[t].reply].status = "DELIVERED"
      BY <1>0, <3>2 DEF QueueInv, AnswersAreOffers, Unit
    <3>4. /\ job'[unit[t].reply] = unit[t].row[unit[t].reply]
          /\ unit[t].row[unit[t].reply].dev = unit[t].dev
      BY <1>0, <1>3, <3>3 DEF Dirty, ShapeOK
    <3> QED
      BY <2>2, <3>2, <3>4
  <2> QED
    BY <2>1, <2>2
<1>8. \A j \in JobId : job'[j] # job[j] => job'[j].type # "OPEN_TUNNEL"
  BY <1>0, <1>3 DEF ShapeOK
<1> QED
  BY <1>0, <1>2, <1>4, <1>6, <1>7, <1>8 DEF HandStep, HandInv

\* So does one that lost the version check; it can have held no verdict.
LEMMA RollbackHand ==
  ASSUME TypeOK, HandInv, NEW t \in Workers, Rollback(t)
  PROVE  HandStep
<1>0. /\ job' = job /\ tunnels' = tunnels /\ agent \in [Devices -> Loop]
      /\ unit[t].row = Clean /\ ShapeOK(unit[t]) /\ unit'[t] = Idle
      /\ \A u \in Workers : u # t => unit'[u] = unit[u]
  BY DEF Rollback, TypeOK, Loop, HandInv, ShapeOK
<1>1. \A u \in Workers : ShapeOK(unit'[u])
  BY <1>0, IdleShape DEF HandInv
<1>2. \A j \in JobId : ~Dirty(t, j)
  BY <1>0, NoRowType DEF Dirty
<1>3. ASSUME NEW d \in Devices
      PROVE  agent'[d] = agent[d] \/ (agent'[d] = Free /\ Touches(t, d))
  <2>1. unit[t].awaited /\ unit[t].dev = d => Touches(t, d)
    BY <1>0 DEF ShapeOK, Touches
  <2> QED
    BY <1>0, <2>1 DEF Rollback
<1>4. ASSUME NEW d \in Devices, InHand(d) PROVE InHand(d)'
  <2>1. CASE Touches(t, d)
    <3>1. /\ agent[d].at = "waiting" /\ agent[d].job = NoJob
          /\ \A u \in Workers : Touches(u, d) => u = t
          /\ unit[t].awaited /\ unit[t].dev = d
      BY <1>4, <2>1 DEF InHand, Touches
    <3>2. agent'[d] = Free
      BY <1>0, <3>1 DEF Rollback
    <3>3. \A u \in Workers : ~Touches(u, d)'
      BY <1>0, <3>1 DEF Touches, Idle
    <3>4. \A j \in JobId : ~(job[j].dev = d /\ job[j].status \in Active)
      <4>1. \A u \in Threads, j \in JobId : ~Holds(u, d, j)
        BY <1>2, <3>1 DEF Holds, Touches, Workers
      <4>2. \A j \in JobId : j # agent[d].job
        BY <3>1, Bounds
      <4> QED
        BY <1>4, <4>1, <4>2 DEF InHand
    <3> QED
      BY <1>0, <3>2, <3>3, <3>4 DEF InHand, Free
  <2>2. CASE ~Touches(t, d)
    <3>1. ASSUME NEW u \in Workers
          PROVE  /\ Touches(u, d)' = Touches(u, d)
                 /\ Touches(u, d) => unit'[u].awaited = unit[u].awaited
                 /\ \A j \in JobId : Holds(u, d, j) => Holds(u, d, j)'
      <4>1. CASE u = t
        BY <1>0, <1>2, <2>2, <4>1 DEF Touches, Idle, Holds
      <4>2. CASE u # t
        BY <1>0, <4>2 DEF Touches, Holds, Dirty
      <4> QED
        BY <4>1, <4>2
    <3>2. Aside(d)
      BY <1>0, <1>3, <2>2, <3>1 DEF Aside, Workers
    <3> QED
      BY <1>4, <3>2, AsideOK
  <2> QED
    BY <2>1, <2>2
<1> QED
  BY <1>0, <1>1, <1>3, <1>4 DEF HandStep, HandInv, Free

\* The steps of an agent, none of whose posts are lost.
LEMMA AgentStepHand ==
  ASSUME Quiet, TypeOK, QueueInv, HandInv, NEW d \in Devices, AgentStep(d)
  PROVE  HandStep
<1>1. PICK j \in JobId :
        /\ j = agent[d].job /\ j # NoJob /\ WasDelivered(j) /\ job[j].dev = d /\ job[j] \in Row
        /\ agent[d].at \notin {"idle", "waiting"} /\ agent \in [Devices -> Loop]
        /\ job[j].type # "OPEN_TUNNEL" /\ "lost" \notin Environment
  <2>1. agent[d].at \notin {"idle", "waiting"}
    BY DEF AgentStep, Started, Prepare, Apply, Perform, Finished
  <2> QED
    BY <2>1, AgentType DEF Quiet, QueueInv, HeldWasDelivered, HandInv, Loop, TypeOK
<1>2. ASSUME InHand(d) PROVE \A u \in Workers : ~Touches(u, d)
  BY <1>1, <1>2 DEF InHand
<1>3. CASE Started(d)
  <2>1. /\ tunnels' = tunnels /\ agent' = [agent EXCEPT ![d].at = "running"]
        /\ Write(j, [job[j] EXCEPT !.status = "RUNNING"]) \/ UNCHANGED <<job, unit>>
    BY <1>1, <1>3 DEF Started
  <2>2. /\ \A e \in Devices : e # d => agent'[e] = agent[e]
        /\ agent'[d].at = "running" /\ agent'[d].job = j
    BY <1>1, <2>1 DEF Loop
  <2>3. ASSUME NEW i \in JobId
        PROVE  /\ i # j => job'[i] = job[i]
               /\ job'[i].dev = job[i].dev /\ job'[i].type = job[i].type
    BY <1>1, <2>1 DEF Write, TypeOK, Row
  <2>4. ASSUME NEW u \in Workers
        PROVE  /\ unit'[u].step = unit[u].step /\ unit'[u].dev = unit[u].dev
               /\ unit'[u].awaited = unit[u].awaited /\ ShapeOK(unit'[u])
               /\ ~Dirty(u, j) => unit'[u] = unit[u]
    <3>1. unit'[u] = unit[u] \/ unit'[u] = Invalidate({j}, {})[u]
      BY <2>1 DEF Write
    <3> QED
      BY <3>1, InvalidateShape DEF HandInv
  <2>5. ASSUME NEW e \in Devices, e # d PROVE Aside(e)
    <3>1. ASSUME NEW i \in JobId, job'[i].dev = e, NEW u \in Threads, Holds(u, e, i)
          PROVE  job'[i] = job[i] /\ Holds(u, e, i)'
      <4>1. u \in Workers /\ i # j /\ job'[i] = job[i]
        BY <1>1, <2>3, <2>5, <3>1 DEF Workers
      <4>2. ~Dirty(u, j)
        BY <1>1, <3>1, <4>1 DEF Holds, Dirty, HandInv, ShapeOK
      <4> QED
        BY <2>4, <3>1, <4>1, <4>2 DEF Holds, Dirty
    <3>2. ASSUME NEW i \in JobId, job'[i].dev = e PROVE job'[i] = job[i]
      BY <1>1, <2>3, <2>5, <3>2
    <3>3. \A u \in Workers : /\ Touches(u, e)' = Touches(u, e)
                             /\ Touches(u, e) => unit'[u].awaited = unit[u].awaited
      BY <2>4 DEF Touches
    <3> QED
      BY <2>2, <2>5, <3>1, <3>2, <3>3 DEF Aside
  <2>6. ASSUME InHand(d) PROVE InHand(d)'
    <3>1. \A u \in Workers : ~Touches(u, d) /\ ~Touches(u, d)'
      BY <1>2, <2>4, <2>6 DEF Touches
    <3>2. ASSUME NEW i \in JobId, job'[i].dev = d, job'[i].status \in Active, i # j PROVE FALSE
      <4>1. job[i].dev = d /\ job[i].status \in Active
        BY <2>3, <3>2
      <4>2. \E u \in Threads : Holds(u, d, i)
        BY <1>1, <2>6, <3>2, <4>1 DEF InHand
      <4> QED
        BY <3>1, <4>2 DEF Holds, Touches, Workers
    <3> QED
      BY <2>2, <3>1, <3>2 DEF InHand
  <2>7. \A i \in JobId : job'[i].type # "OPEN_TUNNEL"
    BY <2>3 DEF HandInv
  <2> QED
    BY <1>1, <2>1, <2>2, <2>4, <2>5, <2>6, <2>7, AsideOK DEF HandStep, HandInv
<1>4. ASSUME UNCHANGED <<job, unit, tunnels>>, \A e \in Devices : e # d => agent'[e] = agent[e],
             agent'[d].at \notin {"idle", "waiting"}, agent'[d].job = j
      PROVE  HandStep
  <2>1. ASSUME NEW e \in Devices, e # d PROVE Aside(e)
    BY <1>4, <2>1 DEF Aside, Touches, Holds, Dirty
  <2>2. ASSUME InHand(d) PROVE InHand(d)'
    <3>1. \A u \in Workers : ~Touches(u, d)'
      BY <1>2, <1>4, <2>2 DEF Touches
    <3>2. \A u \in Threads, i \in JobId : Holds(u, d, i) => Holds(u, d, i)'
      BY <1>4 DEF Holds, Dirty
    <3> QED
      BY <1>1, <1>4, <2>2, <3>1, <3>2 DEF InHand
  <2> QED
    BY <1>1, <1>4, <2>1, <2>2, AsideOK DEF HandStep, HandInv
<1>5. CASE Prepare(d)
  <2>1. /\ \A e \in Devices : e # d => agent'[e] = agent[e]
        /\ agent'[d].at \notin {"idle", "waiting"} /\ agent'[d].job = j
    BY <1>1, <1>5 DEF Prepare, Loop
  <2> QED
    BY <1>4, <1>5, <2>1 DEF Prepare
<1>6. CASE Apply(d) \/ Perform(d)
  <2>1. /\ \A e \in Devices : e # d => agent'[e] = agent[e]
        /\ agent'[d].at \notin {"idle", "waiting"} /\ agent'[d].job = j
    BY <1>1, <1>6 DEF Apply, Perform, Loop
  <2> QED
    BY <1>4, <1>6, <2>1 DEF Apply, Perform
<1>7. CASE Finished(d)
  <2>1. /\ PostFinished(d, j, agent[d].exit, TRUE) /\ job' = job
        /\ \A e \in Devices : tunnels'[e] = {}
        /\ \A e \in Devices : e # d => agent'[e] = agent[e]
        /\ agent'[d] = IF unit' = unit THEN Free ELSE [Free EXCEPT !.at = "waiting"]
    BY <1>1, <1>7 DEF Finished, HandInv, TypeOK
  <2>2. agent'[d].at \in {"idle", "waiting"} /\ agent'[d].job = NoJob
    BY <2>1 DEF Free
  <2>3. CASE Closed(j) /\ UNCHANGED <<unit, alerts>>
    <3>1. ASSUME NEW e \in Devices, e # d PROVE Aside(e)
      BY <2>1, <2>3, <3>1 DEF Aside, Touches, Holds, Dirty
    <3>2. ASSUME InHand(d) PROVE InHand(d)'
      <4>1. \A u \in Workers : ~Touches(u, d) /\ ~Touches(u, d)'
        BY <1>2, <2>3, <3>2 DEF Touches
      <4>2. job[j].status \notin Active
        BY <2>3 DEF Closed, Active, Terminal
      <4>3. ASSUME NEW i \in JobId, job[i].dev = d, job[i].status \in Active PROVE FALSE
        <5>1. \E u \in Threads : Holds(u, d, i)
          BY <1>1, <3>2, <4>2, <4>3 DEF InHand
        <5> QED
          BY <4>1, <5>1 DEF Holds, Touches, Workers
      <4> QED
        BY <2>1, <2>2, <4>1, <4>3 DEF InHand
    <3> QED
      BY <2>1, <2>2, <2>3, <3>1, <3>2, AsideOK DEF HandStep, HandInv
  <2>4. CASE ~(Closed(j) /\ UNCHANGED <<unit, alerts>>)
    <3> DEFINE r == Move(job[j], IF agent[d].exit = 0 THEN "SUCCEEDED" ELSE "FAILED")
               rows == [Clean EXCEPT ![j] = r]
    <3>1. PICK t \in Threads : OpenUnit(t, "finished", d, rows, TRUE)
      BY <1>1, <2>1, <2>4 DEF PostFinished
    <3>2. r.type # "OPEN_TUNNEL" /\ r.status \in {"SUCCEEDED", "FAILED"}
      BY <1>1 DEF Move, Row
    <3>3. \A i \in JobId : Clean[i].type # "OPEN_TUNNEL" /\ Clean[i].status = "ABSENT"
      BY NoRowType DEF Clean, NoRow, NewRow
    <3>4. \A i \in JobId : rows[i] = IF i = j THEN r ELSE Clean[i]
      BY NoRowType
    <3> HIDE DEF rows, r
    <3>5. /\ t \in Workers
          /\ \A i \in JobId : rows[i].type # "OPEN_TUNNEL" /\ rows[i].status # "DELIVERED"
          /\ \A i \in JobId : rows[i].status # "ABSENT" <=> i = j
      BY <3>2, <3>3, <3>4 DEF Workers
    <3>6. \A u \in Workers : ShapeOK(unit'[u])
      BY <3>1, <3>5, OpenShape
    <3>7. ASSUME NEW e \in Devices, e # d PROVE Aside(e)
      <4>1. agent'[e] = agent[e] /\ job' = job
        BY <2>1, <3>7
      <4> QED
        BY <3>1, <3>5, <3>7, <4>1, OpenAside
    <3>8. /\ unit'[t].step = "finished" /\ unit'[t].dev = d /\ unit'[t].row = rows
          /\ unit'[t].awaited = TRUE /\ unit[t].step = "idle"
          /\ \A u \in Workers : u # t => unit'[u] = unit[u]
      BY <3>1, <3>5 DEF OpenUnit, TypeOK, Idle
    <3>9. agent'[d].at = "waiting"
      <4>1. unit' # unit
        BY <3>8
      <4> QED
        BY <2>1, <4>1 DEF Free
    <3>10. ASSUME InHand(d) PROVE InHand(d)'
      <4>1. \A u \in Workers : ~Touches(u, d)
        BY <1>2, <3>10
      <4>2. \A u \in Workers : Touches(u, d)' => u = t
        BY <3>8, <4>1 DEF Touches
      <4>3. Holds(t, d, j)'
        BY <1>1, <3>5, <3>8 DEF Holds, Dirty
      <4>4. ASSUME NEW i \in JobId, job[i].dev = d, job[i].status \in Active PROVE i = j
        <5>1. \A u \in Threads : ~Holds(u, d, i)
          BY <4>1 DEF Holds, Touches, Workers
        <5> QED
          BY <1>1, <3>10, <4>4, <5>1 DEF InHand
      <4>5. \A i \in JobId : job'[i].dev = d /\ job'[i].status \in Active =>
              \E u \in Threads : Holds(u, d, i)'
        BY <2>1, <4>3, <4>4
      <4> QED
        BY <2>2, <3>8, <3>9, <4>2, <4>5 DEF InHand
    <3> QED
      BY <2>1, <2>2, <3>6, <3>7, <3>10, AsideOK DEF HandStep, HandInv
  <2> QED
    BY <2>3, <2>4
<1> QED
  BY <1>3, <1>5, <1>6, <1>7 DEF AgentStep

\* What surrounds them: only a delivered reboot stops an agent.
LEMMA SurroundingsHand ==
  ASSUME Quiet, TypeOK, QueueInv, HandInv, Surroundings
  PROVE  HandStep
<1>1. ASSUME NEW d \in Devices, Crash(d) PROVE HandStep
  <2>1. /\ Rebooting(d) /\ job' = job /\ \A e \in Devices : tunnels'[e] = {}
        /\ \A e \in Devices : e # d => agent'[e] = agent[e]
        /\ agent'[d] = Free
    BY <1>1 DEF Crash, Quiet, HandInv, TypeOK
  <2>2. ASSUME NEW u \in Workers
        PROVE  /\ unit'[u].step = unit[u].step /\ unit'[u].dev = unit[u].dev
               /\ unit'[u].row = unit[u].row /\ ShapeOK(unit'[u])
               /\ unit[u].dev # d => unit'[u].awaited = unit[u].awaited
    <3>1. unit[u] \in Unit /\ ShapeOK(unit[u])
      BY DEF TypeOK, HandInv
    <3>2. unit'[u] = IF unit[u].dev = d THEN [unit[u] EXCEPT !.awaited = FALSE] ELSE unit[u]
      BY <1>1 DEF Crash
    <3>3. /\ unit'[u].step = unit[u].step /\ unit'[u].dev = unit[u].dev
          /\ unit'[u].row = unit[u].row /\ unit'[u].reply = unit[u].reply
          /\ unit'[u].stale = unit[u].stale /\ unit'[u].awaited \in {unit[u].awaited, FALSE}
          /\ unit[u].dev # d => unit'[u].awaited = unit[u].awaited
      BY <3>1, <3>2 DEF Unit
    <3> QED
      BY <3>1, <3>3 DEF ShapeOK
  <2>3. ASSUME NEW e \in Devices, e # d PROVE Aside(e)
    BY <2>1, <2>2, <2>3 DEF Aside, Touches, Holds, Dirty, Workers
  <2> QED
    BY <2>1, <2>2, <2>3, AsideOK DEF HandStep, HandInv, Free
<1>2. ASSUME NEW d \in Devices, OpenTunnel(d) \/ EditDevice(d) PROVE FALSE
  BY <1>2 DEF OpenTunnel, EditDevice, Quiet
<1>3. ASSUME NEW d \in Devices, NEW j \in JobId, TunnelFinished(d, j) PROVE FALSE
  BY <1>3 DEF TunnelFinished, HandInv
<1>4. CASE ServerRestart
  BY <1>4 DEF ServerRestart, Quiet
<1>5. ASSUME NEW j \in JobId, CancelJob(j) \/ CloseSession(j) PROVE HandStep
  <2>1. /\ job[j].status # "ABSENT" /\ UNCHANGED <<agent, tunnels>>
        /\ job' = [job EXCEPT ![j] = Move(job[j], "CANCELLED")]
        /\ \A t \in Workers : unit'[t] = Invalidate({j}, {})[t]
    BY <1>5 DEF CancelJob, CloseSession, Write, Open, Active
  <2>2. job[j] \in Row /\ Move(job[j], "CANCELLED").status = "CANCELLED"
    BY DEF TypeOK, Move, Row
  <2>3. /\ \A i \in JobId : i \notin {j} => job'[i] = job[i]
        /\ job'[j].status \notin Active
    BY <2>1, <2>2 DEF TypeOK, Active
  <2> QED
    BY <2>1, <2>3, EndsJobs
<1>6. ASSUME NEW k \in JobId, Prune(k) PROVE HandStep
  <2> DEFINE old == {j \in 1..k : job[j].status \in Terminal}
  <2>1. /\ UNCHANGED <<agent, tunnels>> /\ old \subseteq JobId
        /\ \A t \in Workers : unit'[t] = Invalidate(old, {})[t]
        /\ \A j \in JobId : j \notin old => job'[j] = job[j]
        /\ \A j \in JobId : j \in old => job'[j] = [job[j] EXCEPT !.status = "DELETED"]
    BY <1>6, BoundsAssumption DEF Prune, JobId
  <2>2. ASSUME NEW j \in old PROVE job[j].status # "ABSENT" /\ job'[j].status \notin Active
    <3>1. j \in JobId /\ job[j] \in Row /\ job[j].status \in Terminal
      BY <2>1 DEF TypeOK
    <3>2. job'[j] = [job[j] EXCEPT !.status = "DELETED"]
      BY <2>1, <3>1
    <3> HIDE DEF old
    <3> QED BY <3>1, <3>2 DEF Terminal, Active, Row
  <2> HIDE DEF old
  <2> QED
    BY <2>1, <2>2, EndsJobs
<1>7. ASSUME NEW j \in JobId, Elapse(j) PROVE HandStep
  <2>1. \A k \in JobId : job'[k].dev = job[k].dev /\ job'[k].type = job[k].type
                         /\ job'[k].status = job[k].status
    BY <1>7 DEF Elapse, TypeOK, Row
  <2> QED
    BY <1>7, <2>1, QuietStep DEF Elapse
<1>8. ASSUME UNCHANGED <<job, unit, agent, tunnels>> PROVE HandStep
  BY <1>8, QuietStep
<1> QED
  BY <1>1, <1>2, <1>3, <1>4, <1>5, <1>6, <1>7, <1>8, SweepHand DEF Surroundings, ChangeSpec, Tick

LEMMA InitHand == ASSUME Init PROVE HandInv
<1>1. /\ \A j \in JobId : job[j].status = "ABSENT" /\ job[j].type # "OPEN_TUNNEL"
      /\ \A t \in Workers : unit[t] = Idle
      /\ \A d \in Devices : agent[d] = Free /\ tunnels[d] = {}
  BY NoRowType DEF Init, Clean, NoRow, NewRow
<1>2. \A d \in Devices : InHand(d)
  BY <1>1 DEF InHand, Touches, Idle, Free, Active
<1> QED
  BY <1>1, <1>2, IdleShape DEF HandInv, Free

LEMMA NextHand == ASSUME Quiet, IInv, HandInv, [Next]_vars PROVE HandInv'
<1> USE DEF IInv
<1>1. Evolution
  BY StepEvolves
<1>2. ASSUME NEW t \in Workers, GiveUp(t) PROVE FALSE
  BY <1>2 DEF GiveUp, Quiet
<1>3. CASE UNCHANGED vars
  <2>1. HandStep
    BY <1>3, QuietStep DEF vars
  <2> QED
    BY <1>1, <2>1, HandStepOK
<1>4. CASE Next
  <2>1. HandStep
    BY <1>2, <1>4, Steps, CheckinHand, EnqueueHand, PickHand, CommitHand, RollbackHand,
       AgentStepHand, SurroundingsHand
  <2> QED
    BY <1>1, <2>1, HandStepOK
<1> QED
  BY <1>3, <1>4

\* While no response, report, agent or server is lost, nobody edits the device
\* and no tunnel is open, a delivered job is in the hands of its agent or its
\* verdict is on the way, unless a reboot was delivered to the device.
THEOREM NothingLeftBehind ==
  ASSUME Quiet
  PROVE  Spec => []NothingIsStranded
<1>1. Init => HandInv
  BY InitHand
<1>2. IInv /\ HandInv /\ [Next]_vars => HandInv'
  BY NextHand
<1>3. ASSUME TypeOK, HandInv PROVE NothingIsStranded
  <2>1. \A j \in JobId : job[j].dev \in Devices
    BY <1>3 DEF TypeOK, Row
  <2> QED
    BY <1>3, <2>1 DEF HandInv, InHand, Holds, NothingIsStranded
<1>4. IInv /\ HandInv => NothingIsStranded
  BY <1>3 DEF IInv
<1> QED
  BY <1>1, <1>2, <1>4, Invariance, PTL DEF Spec

-----------------------------------------------------------------------------
(* What the server shows as converged is converged *)

\* The hypothesis of ConvergedIsTrue: the server takes one request at a time,
\* and the deliveries that drift detection looks back to are not deleted.
\* Agents, responses, reports and the server itself may be lost, operators may
\* queue and cancel, specs and devices may be edited.
Serial == (\A t, u \in Threads : t = u) /\ "prune" \notin Environment

\* An apply that waits, that was delivered, or either.
Waits(r) == r.type = "APPLY_CONFIG" /\ r.status = "PENDING"
Hashed(r) == r.type = "APPLY_CONFIG" /\ r.hash # NoHash
Counts(r) == Waits(r) \/ Hashed(r)

\* At most one apply of a device waits, and it is newer than what was
\* delivered to the device.
InOrder(v) ==
  \A j, k \in JobId : j # k /\ Waits(v[j]) /\ Counts(v[k]) /\ v[k].dev = v[j].dev => k < j

\* Job j is the newest apply delivered to device d.
IsLatest(v, d, j) ==
  /\ v[j].dev = d /\ Hashed(v[j])
  /\ \A k \in JobId : v[k].dev = d /\ Hashed(v[k]) => k <= j

\* The agent of d has nothing in hand.
Resting(d) == agent[d].at \in {"idle", "waiting"}

\* The check-in of t answers with apply j, the newest its device will have.
Delivers(t, j) ==
  /\ t \in Threads /\ unit[t].step = "picked"
  /\ unit[t].row[j].status = "DELIVERED"
  /\ IsLatest(View(t), unit[t].dev, j)

\* A success of apply j that is about to be recorded is that of the newest
\* apply of its device, which has run nothing since.
Proven(t, j) ==
  /\ t \in Threads /\ IsLatest(job, job[j].dev, j)
  /\ applied[job[j].dev] = job[j].hash /\ Resting(job[j].dev)

ConvTable ==
  /\ \A j \in JobId : /\ job[j].status # "DELETED"
                      /\ job[j].status \in {"ABSENT", "PENDING"} => job[j].hash = NoHash
  /\ InOrder(job)

ConvUnit(t) ==
  /\ \A j \in JobId : Dirty(t, j) =>
       /\ t \in Threads \/ unit[t].row[j].status = "TIMED_OUT"
       /\ unit[t].row[j].hash = job[j].hash \/ Delivers(t, j)
       /\ unit[t].row[j].status = "SUCCEEDED" /\ unit[t].row[j].type = "APPLY_CONFIG" =>
            Proven(t, j)
  /\ t \in Threads => InOrder(View(t))
  /\ unit[t].step \in {"converged", "picked"} => t \in Threads /\ Resting(unit[t].dev)

\* The apply an agent works on is the newest of its device and has not
\* succeeded yet; and the newest, once it succeeded, is what the device runs.
ConvDevice(d) ==
  /\ ~Resting(d) /\ job[agent[d].job].type = "APPLY_CONFIG" =>
       /\ IsLatest(job, d, agent[d].job) /\ job[agent[d].job].status # "SUCCEEDED"
       /\ agent[d].at = "done" /\ agent[d].exit = 0 => applied[d] = job[agent[d].job].hash
  /\ \A j \in JobId : IsLatest(job, d, j) /\ job[j].status = "SUCCEEDED" =>
       applied[d] = job[j].hash
  /\ \A j \in tunnels[d] : job[j].type = "OPEN_TUNNEL"

ConvInv ==
  ConvTable /\ (\A t \in Workers : ConvUnit(t)) /\ (\A d \in Devices : ConvDevice(d))

\* Row r takes no more part in the order of deliveries than row s did.
Lesser(s, r) ==
  (Waits(r) => Waits(s)) /\ (Counts(r) => Counts(s) /\ r.dev = s.dev)

LEMMA LesserOrder ==
  ASSUME NEW v, NEW w, InOrder(v), \A j \in JobId : Lesser(v[j], w[j])
  PROVE  InOrder(w)
<1>1. ASSUME NEW j \in JobId, NEW k \in JobId, j # k, Waits(w[j]), Counts(w[k]),
             w[k].dev = w[j].dev
      PROVE  k < j
  <2>1. Waits(v[j]) /\ Counts(v[k]) /\ v[k].dev = v[j].dev
    BY <1>1 DEF Lesser, Counts
  <2> QED BY <1>1, <2>1 DEF InOrder
<1> QED BY <1>1 DEF InOrder

\* A waiting apply may be inserted at n when no other of its device waits and
\* nothing was ever delivered above n.
LEMMA InsertOrder ==
  ASSUME NEW v, NEW w, NEW n \in JobId, InOrder(v), ~Hashed(w[n]),
         \A j \in JobId \ {n} : Lesser(v[j], w[j]),
         Waits(w[n]) => \A k \in JobId \ {n} :
           w[k].dev = w[n].dev => ~Waits(w[k]) /\ (Hashed(w[k]) => k < n)
  PROVE  InOrder(w)
<1>1. ASSUME NEW j \in JobId, NEW k \in JobId, j # k, Waits(w[j]), Counts(w[k]),
             w[k].dev = w[j].dev
      PROVE  k < j
  <2>1. CASE j = n
    BY <1>1, <2>1 DEF Counts
  <2>2. CASE k = n
    BY <1>1, <2>2 DEF Counts
  <2>3. CASE j # n /\ k # n
    <3>1. Waits(v[j]) /\ Counts(v[k]) /\ v[k].dev = v[j].dev
      BY <1>1, <2>3 DEF Lesser, Counts
    <3> QED BY <1>1, <3>1 DEF InOrder
  <2> QED BY <2>1, <2>2, <2>3
<1> QED BY <1>1 DEF InOrder

\* There is one newest delivery.
LEMMA OneLatest ==
  ASSUME NEW v, NEW d, NEW i \in JobId, NEW j \in JobId, IsLatest(v, d, i), IsLatest(v, d, j)
  PROVE  i = j
BY BoundsAssumption DEF IsLatest, JobId

-----------------------------------------------------------------------------
(* Steps that deliver nothing and record no success *)

CalmRow(s, r) ==
  /\ r.hash = s.hash /\ r.status # "DELETED"
  /\ r.status = "SUCCEEDED" /\ r.type = "APPLY_CONFIG" => s.status = "SUCCEEDED"
  /\ Waits(r) => Waits(s)
Calm == \A j \in JobId : CalmRow(job[j], job'[j])

\* The unit of t keeps its rows or has none left.
Stays(t) ==
  \/ Kept(t)
  \/ /\ unit'[t].row = Clean
     /\ \/ unit'[t].step = unit[t].step /\ unit'[t].dev = unit[t].dev
        \/ unit'[t].step = "idle"

\* The agent of d goes on with what it has, or ends it.
GoesOn(d) ==
  /\ \/ Resting(d)'
     \/ /\ ~Resting(d) /\ agent'[d].job = agent[d].job
        /\ job[agent[d].job].type = "APPLY_CONFIG" /\ agent'[d].at = "done" /\ agent'[d].exit = 0 =>
             applied'[d] = job[agent[d].job].hash
  /\ applied'[d] = applied[d] \/ (~Resting(d) /\ job[agent[d].job].type = "APPLY_CONFIG")
  /\ \A j \in tunnels'[d] : job[j].type = "OPEN_TUNNEL" /\ job[j].status # "ABSENT"

\* In a calm step the deliveries of every device stay what they are.
LEMMA CalmRows ==
  ASSUME TypeOK, TypeOK', ConvInv, Evolution, Calm, NEW j \in JobId
  PROVE  /\ job[j].status # "ABSENT" => job'[j].dev = job[j].dev /\ job'[j].type = job[j].type
         /\ job[j].status = "ABSENT" => ~Hashed(job[j]) /\ ~Hashed(job'[j])
         /\ Hashed(job'[j]) <=> Hashed(job[j])
         /\ Hashed(job[j]) => job'[j].dev = job[j].dev /\ job'[j].type = job[j].type
         /\ Lesser(job[j], job'[j])
         /\ job'[j].status \in {"ABSENT", "PENDING"} => job'[j].hash = NoHash
<1>1. Evolves(job[j], job'[j]) /\ CalmRow(job[j], job'[j])
  BY DEF Evolution, Calm
<1>2. job[j].status \in {"ABSENT", "PENDING"} => job[j].hash = NoHash
  BY DEF ConvInv, ConvTable
<1>3. job[j].status # "ABSENT" => job'[j].dev = job[j].dev /\ job'[j].type = job[j].type
  BY <1>1 DEF Evolves
<1>4. job'[j].status \in {"ABSENT", "PENDING"} => job[j].status \in {"ABSENT", "PENDING"}
  BY <1>1 DEF Evolves, Moves, Active, Terminal
<1>5. Waits(job[j]) => job[j].status # "ABSENT"
  BY DEF Waits
<1> QED
  BY <1>1, <1>2, <1>3, <1>4, <1>5 DEF CalmRow, Lesser, Counts, Hashed, Waits

LEMMA CalmLatest ==
  ASSUME TypeOK, TypeOK', ConvInv, Evolution, Calm, NEW d, NEW j \in JobId
  PROVE  IsLatest(job', d, j) <=> IsLatest(job, d, j)
<1>1. \A k \in JobId : /\ Hashed(job'[k]) <=> Hashed(job[k])
                       /\ Hashed(job[k]) => job'[k].dev = job[k].dev
  BY CalmRows
<1> QED BY <1>1 DEF IsLatest

LEMMA CalmTable ==
  ASSUME TypeOK, TypeOK', ConvInv, Evolution, Calm
  PROVE  ConvTable'
<1>1. InOrder(job')
  BY CalmRows, LesserOrder DEF ConvInv, ConvTable
<1> QED
  BY <1>1, CalmRows DEF ConvTable, Calm, CalmRow

LEMMA CalmDevice ==
  ASSUME TypeOK, TypeOK', QueueInv, ConvInv, Evolution, Calm, NEW d \in Devices, GoesOn(d)
  PROVE  ConvDevice(d)'
<1>0. ConvDevice(d)
  BY DEF ConvInv
<1>1. ASSUME ~Resting(d)
      PROVE  /\ agent[d].job \in JobId /\ job[agent[d].job].status # "ABSENT"
             /\ job'[agent[d].job].type = job[agent[d].job].type
             /\ job'[agent[d].job].hash = job[agent[d].job].hash
  <2>1. agent[d].job \in JobId /\ WasDelivered(agent[d].job)
    BY <1>1, AgentType DEF QueueInv, HeldWasDelivered, Loop, Resting
  <2> QED
    BY <2>1, CalmRows DEF WasDelivered, Calm, CalmRow
<1>2. ASSUME ~Resting(d)', job'[agent'[d].job].type = "APPLY_CONFIG"
      PROVE  /\ IsLatest(job', d, agent'[d].job) /\ job'[agent'[d].job].status # "SUCCEEDED"
             /\ agent'[d].at = "done" /\ agent'[d].exit = 0 =>
                  applied'[d] = job'[agent'[d].job].hash
  <2>1. ~Resting(d) /\ agent'[d].job = agent[d].job
    BY <1>2 DEF GoesOn
  <2>2. IsLatest(job, d, agent[d].job) /\ job[agent[d].job].status # "SUCCEEDED"
    BY <1>0, <1>1, <1>2, <2>1 DEF ConvDevice
  <2>3. IsLatest(job', d, agent[d].job) /\ job'[agent[d].job].status # "SUCCEEDED"
    BY <1>1, <1>2, <2>1, <2>2, CalmLatest DEF Calm, CalmRow
  <2> QED
    BY <1>1, <1>2, <2>1, <2>3 DEF GoesOn, Resting
<1>3. ASSUME NEW j \in JobId, IsLatest(job', d, j), job'[j].status = "SUCCEEDED"
      PROVE  applied'[d] = job'[j].hash
  <2>1. IsLatest(job, d, j) /\ job'[j].hash = job[j].hash
    BY <1>3, CalmLatest DEF Calm, CalmRow
  <2>2. job[j].status = "SUCCEEDED"
    BY <1>3 DEF Calm, CalmRow, IsLatest, Hashed
  <2>3. ~(~Resting(d) /\ job[agent[d].job].type = "APPLY_CONFIG")
    BY <1>0, <1>1, <2>1, <2>2, OneLatest DEF ConvDevice
  <2> QED
    BY <1>0, <2>1, <2>2, <2>3 DEF ConvDevice, GoesOn
<1>4. ASSUME NEW j \in tunnels'[d] PROVE job'[j].type = "OPEN_TUNNEL"
  <2>1. job[j].type = "OPEN_TUNNEL" /\ job[j].status # "ABSENT" /\ j \in JobId
    BY <1>4 DEF GoesOn, TypeOK
  <2> QED BY <2>1, CalmRows
<1> QED
  BY <1>2, <1>3, <1>4 DEF ConvDevice, Resting

LEMMA CalmUnit ==
  ASSUME TypeOK, TypeOK', ConvInv, Evolution, Calm, \A d \in Devices : GoesOn(d),
         NEW t \in Workers, Stays(t)
  PROVE  ConvUnit(t)'
<1>0. ConvUnit(t) /\ unit[t] \in Unit
  BY DEF ConvInv, TypeOK
<1>1. \A d \in Devices : Resting(d) => Resting(d)' /\ applied'[d] = applied[d]
  BY DEF GoesOn
<1>2. CASE Kept(t)
  <2>1. \A j \in JobId : Dirty(t, j)' = Dirty(t, j)
    BY <1>2 DEF Kept, Dirty
  <2>2. ASSUME NEW j \in JobId
        PROVE  /\ Lesser(View(t)[j], View(t)'[j])
               /\ Hashed(View(t)'[j]) <=> Hashed(View(t)[j])
               /\ Hashed(View(t)[j]) => View(t)'[j].dev = View(t)[j].dev
    <3>1. \/ View(t)'[j] = View(t)[j]
          \/ View(t)[j] = job[j] /\ View(t)'[j] = job'[j]
      BY <1>2, <2>1 DEF View, Kept
    <3> QED
      BY <3>1, CalmRows DEF Lesser
  <2>3. ASSUME NEW j \in JobId, Delivers(t, j) PROVE Delivers(t, j)'
    <3>1. IsLatest(View(t)', unit[t].dev, j)
      BY <2>2, <2>3 DEF Delivers, IsLatest
    <3> QED
      BY <1>2, <2>3, <3>1 DEF Delivers, Kept
  <2>4. ASSUME NEW j \in JobId, Proven(t, j) PROVE Proven(t, j)'
    <3>1. Hashed(job[j]) /\ job[j].dev \in Devices
      BY <2>4 DEF Proven, IsLatest, TypeOK, Row
    <3>2. job'[j].dev = job[j].dev /\ job'[j].hash = job[j].hash
      BY <3>1, CalmRows DEF Calm, CalmRow
    <3>3. IsLatest(job', job[j].dev, j)
      BY <2>4, CalmLatest DEF Proven
    <3> QED
      BY <1>1, <2>4, <3>1, <3>2, <3>3 DEF Proven
  <2>5. ASSUME NEW j \in JobId, Dirty(t, j)'
        PROVE  /\ t \in Threads \/ unit'[t].row[j].status = "TIMED_OUT"
               /\ unit'[t].row[j].hash = job'[j].hash \/ Delivers(t, j)'
               /\ unit'[t].row[j].status = "SUCCEEDED" /\ unit'[t].row[j].type = "APPLY_CONFIG" =>
                    Proven(t, j)'
    BY <1>0, <1>2, <2>1, <2>3, <2>4, <2>5 DEF ConvUnit, Kept, Calm, CalmRow
  <2>6. t \in Threads => InOrder(View(t)')
    BY <1>0, <2>2, LesserOrder DEF ConvUnit
  <2>7. unit'[t].step \in {"converged", "picked"} => t \in Threads /\ Resting(unit[t].dev)'
    BY <1>0, <1>1, <1>2 DEF ConvUnit, Kept, Unit, Resting
  <2> QED
    BY <2>5, <2>6, <2>7 DEF ConvUnit
<1>3. CASE unit'[t].row = Clean
  <2>1. \A j \in JobId : ~Dirty(t, j)'
    BY <1>3, NoRowType DEF Dirty
  <2>2. InOrder(View(t)')
    BY <2>1, CalmTable DEF View, ConvTable, InOrder
  <2>3. unit'[t].step \in {"converged", "picked"} => t \in Threads /\ Resting(unit[t].dev)'
    BY <1>0, <1>1 DEF ConvUnit, Stays, Kept, Unit, Resting
  <2> QED
    BY <2>1, <2>2, <2>3 DEF ConvUnit
<1> QED
  BY <1>2, <1>3 DEF Stays

\* A calm step that leaves every unit but that of t as it is.
LEMMA CalmOK ==
  ASSUME TypeOK, TypeOK', QueueInv, ConvInv, Evolution, Calm,
         \A d \in Devices : GoesOn(d),
         \A t \in Workers : Stays(t) \/ ConvUnit(t)'
  PROVE  ConvInv'
BY CalmTable, CalmDevice, CalmUnit DEF ConvInv

\* A device whose agent and tunnels the step does not touch, or takes away.
LEMMA Undisturbed ==
  ASSUME TypeOK, QueueInv, ConvInv, NEW d \in Devices, applied' = applied,
         agent'[d] = agent[d] \/ Resting(d)', tunnels'[d] \subseteq tunnels[d]
  PROVE  GoesOn(d)
<1>1. ConvDevice(d) /\ \A j \in tunnels[d] : WasDelivered(j)
  BY DEF ConvInv, QueueInv, HeldWasDelivered
<1>2. Resting(d) /\ agent'[d] = agent[d] => Resting(d)'
  BY DEF Resting
<1> QED
  BY <1>1, <1>2 DEF GoesOn, ConvDevice, WasDelivered

\* The table is not written.
LEMMA SameTable ==
  ASSUME TypeOK, ConvInv, job' = job
  PROVE  Calm
BY DEF ConvInv, ConvTable, Calm, CalmRow

LEMMA InvalidateStays ==
  ASSUME TypeOK, NEW S, NEW D, NEW t \in Workers, unit'[t] = Invalidate(S, D)[t]
  PROVE  Stays(t)
<1>1. unit[t] \in Unit
  BY DEF TypeOK
<1>2. CASE unit'[t] = unit[t]
  BY <1>2 DEF Stays, Kept
<1>3. CASE unit'[t] = [unit[t] EXCEPT !.stale = TRUE, !.row = Clean, !.reply = NoJob]
  BY <1>1, <1>3 DEF Stays, Unit
<1> QED
  BY <1>2, <1>3 DEF Invalidate

LEMMA SameRow ==
  ASSUME ConvInv, NEW j \in JobId
  PROVE  CalmRow(job[j], job[j])
BY DEF ConvInv, ConvTable, CalmRow

\* Cancelling a job, reporting that it runs, noting the time.
LEMMA MoveCalm ==
  ASSUME NEW s \in Row, s.status \in Open
  PROVE  /\ CalmRow(s, Move(s, "CANCELLED"))
         /\ CalmRow(s, [s EXCEPT !.status = "RUNNING"])
         /\ CalmRow(s, [s EXCEPT !.late = TRUE])
BY DEF CalmRow, Move, Waits, Row, Open, Active

LEMMA WriteCalm ==
  ASSUME TypeOK, ConvInv, NEW j \in JobId, NEW r, Write(j, r), CalmRow(job[j], r)
  PROVE  Calm /\ \A t \in Workers : Stays(t)
<1>1. \A k \in JobId : job'[k] = IF k = j THEN r ELSE job[k]
  BY DEF Write, TypeOK
<1>2. Calm
  BY <1>1, SameRow DEF Calm
<1>3. \A t \in Workers : Stays(t)
  BY InvalidateStays DEF Write
<1> QED BY <1>2, <1>3

\* The requests of operators that are one step, the faults and the passage of
\* time.
LEMMA SurroundingsConv ==
  ASSUME TypeOK, TypeOK', QueueInv, ConvInv, Evolution, Surroundings, Serial,
         ~\E d \in Devices, j \in JobId : TunnelFinished(d, j), ~Sweep
  PROVE  ConvInv'
<1>0. ASSUME Calm, \A t \in Workers : Stays(t), applied' = applied,
             \A d \in Devices : /\ agent'[d] = agent[d] \/ Resting(d)'
                                /\ tunnels'[d] \subseteq tunnels[d]
      PROVE  ConvInv'
  BY <1>0, Undisturbed, CalmOK
<1>1. ASSUME NEW d \in Devices, Crash(d) PROVE ConvInv'
  <2>1. ASSUME NEW t \in Workers PROVE Stays(t)
    <3>1. unit[t] \in Unit
      BY DEF TypeOK
    <3> QED
      BY <1>1, <3>1 DEF Crash, Stays, Kept, Unit
  <2>2. \A e \in Devices : /\ agent'[e] = agent[e] \/ Resting(e)'
                           /\ tunnels'[e] \subseteq tunnels[e]
    BY <1>1 DEF Crash, Resting, Free, TypeOK
  <2> QED
    BY <1>0, <1>1, <2>1, <2>2, SameTable DEF Crash
<1>2. ASSUME NEW d \in Devices, OpenTunnel(d) PROVE ConvInv'
  <2> DEFINE r == NewRow(d, "OPEN_TUNNEL", 1, 0, FALSE)
  <2>1. PICK n \in NextId :
          /\ \A j \in JobId : job'[j] = IF j = n THEN r
                                        ELSE IF j \in Expired THEN Move(job[j], "CANCELLED")
                                        ELSE job[j]
          /\ \A t \in Workers : unit'[t] = Invalidate({n} \cup Expired, {})[t]
    BY <1>2 DEF OpenTunnel
  <2>2. n \in JobId /\ job[n].status = "ABSENT"
    <3>1. n \in JobId /\ n >= n
      BY BoundsAssumption DEF NextId, JobId
    <3> QED
      BY <3>1 DEF NextId, Unused
  <2>3. CalmRow(job[n], r)
    BY <2>2 DEF CalmRow, NewRow, Waits, ConvInv, ConvTable
  <2>4. ASSUME NEW j \in Expired PROVE CalmRow(job[j], Move(job[j], "CANCELLED"))
    BY <2>4, MoveCalm DEF Expired, TypeOK, Open
  <2>5. Calm
    <3> HIDE DEF r
    <3> QED BY <2>1, <2>3, <2>4, SameRow DEF Calm
  <2>6. \A t \in Workers : Stays(t)
    BY <2>1, InvalidateStays
  <2> QED
    BY <1>0, <1>2, <2>5, <2>6 DEF OpenTunnel
<1>3. ASSUME NEW d \in Devices, EditDevice(d) PROVE ConvInv'
  <2>1. \A t \in Workers : Stays(t)
    BY <1>3, InvalidateStays DEF EditDevice
  <2> QED
    BY <1>0, <1>3, <2>1, SameTable DEF EditDevice
<1>4. ASSUME NEW j \in JobId, CancelJob(j) \/ CloseSession(j) PROVE ConvInv'
  <2>1. CalmRow(job[j], Move(job[j], "CANCELLED"))
    BY <1>4, MoveCalm DEF CancelJob, CloseSession, TypeOK, Open
  <2>2. Write(j, Move(job[j], "CANCELLED"))
    BY <1>4 DEF CancelJob, CloseSession
  <2>3. Calm /\ \A t \in Workers : Stays(t)
    BY <2>1, <2>2, WriteCalm
  <2> QED
    BY <1>0, <1>4, <2>3 DEF CancelJob, CloseSession
<1>5. ~\E k \in JobId : Prune(k)
  BY DEF Prune, Serial
<1>6. ASSUME NEW j \in JobId, Elapse(j) PROVE ConvInv'
  <2>1. Calm
    <3>1. CalmRow(job[j], [job[j] EXCEPT !.late = TRUE])
      BY <1>6, MoveCalm DEF Elapse, TypeOK, Open
    <3>2. \A k \in JobId : job'[k] = IF k = j THEN [job[j] EXCEPT !.late = TRUE] ELSE job[k]
      BY <1>6 DEF Elapse, TypeOK
    <3> QED
      BY <3>1, <3>2, SameRow DEF Calm
  <2>2. \A t \in Workers : Stays(t)
    BY <1>6 DEF Elapse, Stays, Kept
  <2> QED
    BY <1>0, <1>6, <2>1, <2>2 DEF Elapse
<1>7. CASE ServerRestart
  <2>1. Calm
    <3>1. ASSUME NEW j \in JobId PROVE CalmRow(job[j], job'[j])
      <4>1. \/ job'[j] = job[j]
            \/ job[j].status = "PENDING" /\ job'[j] = Move(job[j], "CANCELLED")
        BY <1>7 DEF ServerRestart
      <4>2. job[j] \in Row
        BY DEF TypeOK
      <4>3. CASE job'[j] = job[j]
        BY <4>3, SameRow
      <4> QED
        BY <4>1, <4>2, <4>3, MoveCalm DEF Open
    <3> QED BY <3>1 DEF Calm
  <2>2. \A t \in Workers : Stays(t)
    BY <1>7, NoRowType DEF ServerRestart, Stays, Idle
  <2>3. \A d \in Devices : agent'[d] = agent[d] \/ Resting(d)'
    BY <1>7 DEF ServerRestart, Resting, Free
  <2> QED
    BY <1>0, <1>7, <2>1, <2>2, <2>3 DEF ServerRestart
<1>8. ASSUME UNCHANGED <<job, unit, agent, tunnels, applied>> PROVE ConvInv'
  BY <1>0, <1>8, SameTable DEF Stays, Kept
<1> QED
  BY <1>1, <1>2, <1>3, <1>4, <1>5, <1>6, <1>7, <1>8 DEF Surroundings, ChangeSpec, Tick

\* Giving up a unit of work, or rolling it back.
LEMMA EndConv ==
  ASSUME TypeOK, TypeOK', QueueInv, ConvInv, Evolution,
         NEW t \in Workers, Rollback(t) \/ GiveUp(t)
  PROVE  ConvInv'
<1>1. unit[t] \in Unit /\ unit \in [Workers -> Unit] /\ agent \in [Devices -> Loop]
      /\ job' = job /\ applied' = applied /\ tunnels' = tunnels
  BY AgentType DEF TypeOK, Rollback, GiveUp, Loop
<1>2. ASSUME NEW u \in Workers PROVE Stays(u)
  <2>1. CASE Rollback(t)
    <3>1. unit'[u] = unit[u] \/ unit'[u] = Idle
      BY <1>1, <2>1 DEF Rollback
    <3>2. Idle.row = Clean /\ Idle.step = "idle"
      BY NoRowType DEF Idle
    <3> QED
      BY <3>1, <3>2 DEF Stays, Kept
  <2>2. CASE GiveUp(t)
    BY <1>1, <2>2 DEF GiveUp, Stays, Kept, Unit
  <2> QED
    BY <2>1, <2>2
<1>3. \A d \in Devices : agent'[d] = agent[d] \/ Resting(d)'
  BY <1>1 DEF Rollback, GiveUp, Resting, Free
<1>4. \A d \in Devices : GoesOn(d)
  BY <1>1, <1>3, Undisturbed
<1> QED
  BY <1>1, <1>2, <1>4, SameTable, CalmOK

\* The agent reports the start, prepares and runs what it was given.
LEMMA WorkConv ==
  ASSUME TypeOK, TypeOK', QueueInv, ConvInv, Evolution, NEW d \in Devices,
         Started(d) \/ Prepare(d) \/ Apply(d) \/ Perform(d)
  PROVE  ConvInv'
<1> DEFINE j == agent[d].job
<1>1. /\ j \in JobId /\ WasDelivered(j) /\ job[j] \in Row /\ ~Resting(d)
      /\ agent \in [Devices -> Loop] /\ agent[d] \in Loop
  <2>1. ~Resting(d)
    BY DEF Started, Prepare, Apply, Perform, Resting
  <2> QED
    BY <2>1, AgentType DEF QueueInv, HeldWasDelivered, Loop, Resting, TypeOK
<1>2. ConvDevice(d)
  BY DEF ConvInv
<1>3. Calm /\ \A t \in Workers : Stays(t)
  <2>1. CASE UNCHANGED <<job, unit>>
    BY <2>1, SameTable DEF Stays, Kept
  <2>2. CASE ~UNCHANGED <<job, unit>>
    <3>1. ~Closed(j) /\ Write(j, [job[j] EXCEPT !.status = "RUNNING"])
      BY <2>2 DEF Started, Prepare, Apply, Perform
    <3>2. job[j].status \in Open
      BY <1>1, <3>1 DEF Closed, WasDelivered, Row, Status, Open
    <3> QED
      BY <1>1, <3>1, <3>2, MoveCalm, WriteCalm
  <2> QED BY <2>1, <2>2
<1>4. ASSUME NEW e \in Devices, e # d PROVE GoesOn(e)
  <2>1. agent'[e] = agent[e] /\ tunnels'[e] = tunnels[e] /\ applied'[e] = applied[e]
    BY <1>1, <1>4 DEF Started, Prepare, Apply, Perform, TypeOK
  <2>2. ConvDevice(e) /\ \A i \in tunnels[e] : WasDelivered(i)
    BY DEF ConvInv, QueueInv, HeldWasDelivered
  <2> QED
    BY <2>1, <2>2 DEF GoesOn, ConvDevice, WasDelivered, Resting
<1>5. /\ \A i \in tunnels[d] : job[i].type = "OPEN_TUNNEL" /\ job[i].status # "ABSENT"
      /\ job[j].status # "ABSENT"
  BY <1>1, <1>2 DEF ConvDevice, QueueInv, HeldWasDelivered, WasDelivered
<1>6. GoesOn(d)
  <2>1. CASE Started(d)
    BY <1>1, <1>5, <2>1 DEF Started, GoesOn, Resting, Free, TypeOK, Loop
  <2>2. CASE Prepare(d)
    BY <1>1, <1>5, <2>2 DEF Prepare, GoesOn, Loop, TypeOK
  <2>3. CASE Apply(d)
    BY <1>1, <1>5, <2>3 DEF Apply, GoesOn, Loop, TypeOK
  <2>4. CASE Perform(d)
    BY <1>1, <1>5, <2>4 DEF Perform, GoesOn, Loop
  <2> QED
    BY <2>1, <2>2, <2>3, <2>4
<1> QED
  BY <1>3, <1>4, <1>6, CalmOK

-----------------------------------------------------------------------------
(* Requests that open a unit of work *)

\* While no row is written, the step of one unit concerns no other.
LEMMA OnlyUnitConv ==
  ASSUME TypeOK, TypeOK', QueueInv, ConvInv, Evolution, job' = job,
         \A d \in Devices : GoesOn(d),
         NEW t \in Workers, \A u \in Workers : u # t => unit'[u] = unit[u],
         ConvUnit(t)'
  PROVE  ConvInv'
<1>1. \A u \in Workers : Stays(u) \/ ConvUnit(u)'
  BY DEF Stays, Kept
<1> QED BY <1>1, SameTable, CalmOK

\* The unit revises jobs of the table, and may insert one at n.
LEMMA RowsConv ==
  ASSUME TypeOK, TypeOK', ConvInv, job' = job, NEW t \in Workers, NEW n \in JobId,
         \A j \in JobId : Dirty(t, j)' =>
           /\ t \in Threads \/ unit'[t].row[j].status = "TIMED_OUT"
           /\ unit'[t].row[j].hash = job[j].hash
           /\ unit'[t].row[j].status = "SUCCEEDED" /\ unit'[t].row[j].type = "APPLY_CONFIG" =>
                Proven(t, j)'
           /\ j # n => Lesser(job[j], unit'[t].row[j]),
         ~Hashed(View(t)'[n]) \/ Lesser(job[n], View(t)'[n]),
         Waits(View(t)'[n]) =>
           \/ Lesser(job[n], View(t)'[n])
           \/ \A k \in JobId \ {n} :
                View(t)'[k].dev = View(t)'[n].dev =>
                  ~Waits(View(t)'[k]) /\ (Hashed(View(t)'[k]) => k < n),
         unit'[t].step \in {"converged", "picked"} => t \in Threads /\ Resting(unit[t].dev)'
  PROVE  ConvUnit(t)'
<1>1. \A j \in JobId : j # n => Lesser(job[j], View(t)'[j])
  BY DEF View, Dirty, Lesser
<1>2. InOrder(job)
  BY DEF ConvInv, ConvTable
<1>3. InOrder(View(t)')
  <2>1. CASE Lesser(job[n], View(t)'[n])
    BY <1>1, <1>2, <2>1, LesserOrder
  <2>2. CASE ~Lesser(job[n], View(t)'[n])
    BY <1>1, <1>2, <2>2, InsertOrder
  <2> QED BY <2>1, <2>2
<1> QED
  BY <1>3 DEF ConvUnit

LEMMA TimedOutConv ==
  ASSUME TypeOK, NEW S \in SUBSET Stuck, NEW j \in JobId, TimedOut(S)[j].status # "ABSENT"
  PROVE  /\ j \in S /\ job[j].status \in Active
         /\ TimedOut(S)[j].hash = job[j].hash /\ TimedOut(S)[j].status = "TIMED_OUT"
         /\ TimedOut(S)[j].dev = job[j].dev /\ TimedOut(S)[j].type = job[j].type
         /\ Lesser(job[j], TimedOut(S)[j])
<1>1. j \in S /\ job[j] \in Row /\ job[j].status \in Active
  BY TimedOutType DEF TypeOK, Stuck
<1>2. TimedOut(S)[j] = Move(job[j], "TIMED_OUT")
  BY <1>1 DEF TimedOut
<1> QED
  BY <1>1, <1>2 DEF Move, Row, Lesser, Waits, Counts, Hashed

LEMMA SweepConv ==
  ASSUME TypeOK, TypeOK', QueueInv, ConvInv, Evolution, Sweep
  PROVE  ConvInv'
<1>1. /\ Scheduler \in Workers /\ job' = job /\ 1 \in JobId
      /\ \A d \in Devices : GoesOn(d)
  BY Undisturbed, BoundsAssumption DEF Workers, Sweep, JobId
<1>2. /\ unit'[Scheduler].row = TimedOut(Stuck) /\ unit'[Scheduler].step = "swept"
      /\ \A u \in Workers : u # Scheduler => unit'[u] = unit[u]
  BY <1>1, OpenUnitRows DEF Sweep
<1>3. \A j \in JobId : Dirty(Scheduler, j)' =>
        /\ unit'[Scheduler].row[j].hash = job[j].hash
        /\ unit'[Scheduler].row[j].status = "TIMED_OUT"
        /\ Lesser(job[j], unit'[Scheduler].row[j])
  BY <1>2, TimedOutConv DEF Dirty
<1>4. Lesser(job[1], View(Scheduler)'[1])
  BY <1>1, <1>3 DEF View, Lesser
<1>5. ConvUnit(Scheduler)'
  BY <1>1, <1>2, <1>3, <1>4, RowsConv
<1> QED
  BY <1>1, <1>2, <1>5, OnlyUnitConv

LEMMA EnqueueConv ==
  ASSUME TypeOK, TypeOK', QueueInv, ConvInv, Evolution,
         NEW d \in Devices, NEW type \in JobType, NEW after \in 0..MaxTime,
         NEW grouped \in BOOLEAN, NEW t, Enqueue(d, type, after, grouped, t)
  PROVE  ConvInv'
<1>0. /\ t \in Threads /\ t \in Workers /\ job' = job /\ \A e \in Devices : GoesOn(e)
  BY Undisturbed DEF Enqueue, Workers
<1>1. ASSUME NEW n \in NextId,
             \A j \in JobId : ~(job[j].dev = d /\ job[j].type = type /\ job[j].status = "PENDING"),
             OpenUnit(t, "queued", d,
                      [Clean EXCEPT ![n] = NewRow(d, type, 1, after, FALSE)], FALSE)
      PROVE  ConvInv'
  <2> DEFINE rows == [Clean EXCEPT ![n] = NewRow(d, type, 1, after, FALSE)]
  <2>1. n \in JobId /\ \A k \in JobId : k >= n => job[k].status = "ABSENT"
    BY DEF NextId, Unused
  <2>2. /\ unit'[t].row = rows /\ unit'[t].step = "queued"
        /\ \A u \in Workers : u # t => unit'[u] = unit[u]
    <3>1. OpenUnit(t, "queued", d, rows, FALSE)
      BY <1>1
    <3> HIDE DEF rows
    <3> QED BY <1>0, <3>1, OpenUnitRows
  <2>3. /\ rows[n].dev = d /\ rows[n].type = type /\ rows[n].status = "PENDING"
        /\ rows[n].hash = NoHash /\ ~Hashed(rows[n])
        /\ \A j \in JobId : j # n => rows[j].status = "ABSENT"
    BY <2>1, NoRowType DEF NewRow, Hashed
  <2>4. job[n].status = "ABSENT" /\ job[n].hash = NoHash
    BY <2>1, BoundsAssumption DEF JobId, ConvInv, ConvTable
  <2> HIDE DEF rows
  <2>5. View(t)'[n] = rows[n] /\ \A k \in JobId : k # n => View(t)'[k] = job[k]
    BY <1>0, <2>1, <2>2, <2>3 DEF View, Dirty
  <2>6. ASSUME Waits(rows[n]), NEW k \in JobId \ {n}, job[k].dev = d
        PROVE  ~Waits(job[k]) /\ (Hashed(job[k]) => k < n)
    <3>1. Hashed(job[k]) => ~(k >= n)
      BY <2>1 DEF Hashed, ConvInv, ConvTable
    <3> QED
      BY <1>1, <2>1, <2>3, <2>6, <3>1, BoundsAssumption DEF Waits, JobId
  <2>7. ConvUnit(t)'
    BY <1>0, <2>1, <2>2, <2>3, <2>4, <2>5, <2>6, RowsConv DEF Dirty
  <2> QED
    BY <1>0, <2>2, <2>7, OnlyUnitConv
<1>2. ASSUME NEW j \in JobId, job[j].status = "PENDING",
             OpenUnit(t, "queued", d,
                      [Clean EXCEPT ![j] = [job[j] EXCEPT !.after = after]], FALSE)
      PROVE  ConvInv'
  <2> DEFINE rows == [Clean EXCEPT ![j] = [job[j] EXCEPT !.after = after]]
  <2>1. /\ unit'[t].row = rows /\ unit'[t].step = "queued"
        /\ \A u \in Workers : u # t => unit'[u] = unit[u]
    <3> HIDE DEF rows
    <3> QED BY <1>0, <1>2, OpenUnitRows DEF rows
  <2>2. job[j] \in Row
    BY DEF TypeOK
  <2>3. /\ rows[j].hash = job[j].hash /\ rows[j].status = "PENDING"
        /\ Lesser(job[j], rows[j])
        /\ \A k \in JobId : k # j => rows[k].status = "ABSENT"
    BY <1>2, <2>2, NoRowType DEF Lesser, Waits, Counts, Hashed, Row
  <2> HIDE DEF rows
  <2>4. View(t)'[j] = rows[j]
    BY <2>1, <2>3 DEF View, Dirty
  <2>5. ConvUnit(t)'
    BY <1>0, <2>1, <2>3, <2>4, RowsConv DEF Dirty
  <2> QED
    BY <1>0, <2>1, <2>5, OnlyUnitConv
<1> QED
  BY <1>1, <1>2 DEF Enqueue

\* The first half of a check-in.
LEMMA CheckinConv ==
  ASSUME TypeOK, TypeOK', QueueInv, ConvInv, Evolution,
         NEW d \in Devices, NEW t \in Threads, Checkin(d, t)
  PROVE  ConvInv'
<1> DEFINE stuck == {j \in Stuck : job[j].dev = d}
           view == [j \in JobId |-> IF j \in stuck THEN TimedOut(stuck)[j] ELSE job[j]]
<1>1. /\ stuck \subseteq Stuck /\ t \in Workers /\ job' = job
      /\ 1 \in JobId /\ Resting(d)'
  BY BoundsAssumption, AgentType DEF Workers, Checkin, JobId, Resting, Loop
<1>2. \A e \in Devices : GoesOn(e)
  <2>1. \A e \in Devices : agent'[e] = agent[e] \/ Resting(e)'
    BY <1>1 DEF Checkin, TypeOK
  <2> QED BY <2>1, Undisturbed DEF Checkin
<1>3. /\ view \in [JobId -> Row]
      /\ \A j \in JobId : TimedOut(stuck)[j].status # "ABSENT" <=> j \in stuck
  <2>1. TimedOut(stuck) \in [JobId -> Row]
    BY TimedOutType DEF Stuck
  <2>2. stuck \subseteq JobId
    BY DEF Stuck
  <2>3. view \in [JobId -> Row]
    BY <2>1 DEF TypeOK
  <2> HIDE DEF stuck, view
  <2> QED BY <1>1, <2>2, <2>3, TimedOutType
<1>4. ASSUME NEW j \in JobId, j \in stuck
      PROVE  /\ job[j].status \in Active
             /\ TimedOut(stuck)[j].hash = job[j].hash /\ TimedOut(stuck)[j].status = "TIMED_OUT"
             /\ Lesser(job[j], TimedOut(stuck)[j])
  <2> HIDE DEF stuck
  <2> QED BY <1>1, <1>3, <1>4, TimedOutConv
<1>5. CASE OpenUnit(t, "converged", d, TimedOut(stuck), TRUE)
  <2>1. /\ unit'[t].row = TimedOut(stuck) /\ unit'[t].step = "converged" /\ unit'[t].dev = d
        /\ \A u \in Workers : u # t => unit'[u] = unit[u]
    <3> HIDE DEF stuck
    <3> QED BY <1>1, <1>5, OpenUnitRows
  <2>2. \A j \in JobId : Dirty(t, j)' =>
          /\ unit'[t].row[j].hash = job[j].hash
          /\ unit'[t].row[j].status # "SUCCEEDED"
          /\ Lesser(job[j], unit'[t].row[j])
    <3> HIDE DEF stuck
    <3> QED BY <1>3, <1>4, <2>1 DEF Dirty
  <2>3. Lesser(job[1], View(t)'[1])
    <3> HIDE DEF stuck
    <3> QED BY <1>1, <2>2 DEF View, Lesser
  <2>4. Resting(unit[t].dev)'
    BY <1>1, <2>1 DEF Resting
  <2>5. ConvUnit(t)'
    <3> HIDE DEF stuck
    <3> QED BY <1>1, <2>2, <2>3, <2>4, RowsConv
  <2> QED
    BY <1>1, <1>2, <2>1, <2>5, OnlyUnitConv
<1>6. ASSUME NEW r \in Drift(view, d), NEW n \in NextId,
             OpenUnit(t, "converged", d, [TimedOut(stuck) EXCEPT ![n] = r], TRUE)
      PROVE  ConvInv'
  <2> DEFINE rows == [TimedOut(stuck) EXCEPT ![n] = r]
  <2>1. n \in JobId /\ \A k \in JobId : k >= n => job[k].status = "ABSENT"
    BY DEF NextId, Unused
  <2>2. job[n].status = "ABSENT" /\ job[n].hash = NoHash
    BY <2>1, BoundsAssumption DEF JobId, ConvInv, ConvTable
  <2>3. /\ r.dev = d /\ r.status = "PENDING" /\ ~Applying(view, d)
        /\ r.hash = NoHash /\ ~Hashed(r)
    <3>1. r.hash = NoHash
      <4>1. \E x : r = NewRow(d, "APPLY_CONFIG", x, 0, TRUE)
        <5> HIDE DEF view
        <5> QED BY DEF Drift
      <4> QED BY <4>1 DEF NewRow
    <3> QED
      BY <1>3, <3>1, DriftOK DEF Hashed
  <2>4. /\ unit'[t].row = rows /\ unit'[t].step = "converged" /\ unit'[t].dev = d
        /\ \A u \in Workers : u # t => unit'[u] = unit[u]
    <3>1. OpenUnit(t, "converged", d, rows, TRUE)
      BY <1>6
    <3> HIDE DEF rows
    <3> QED BY <1>1, <3>1, OpenUnitRows
  <2>5. rows[n] = r /\ \A j \in JobId : j # n => rows[j] = TimedOut(stuck)[j]
    BY <2>1 DEF TimedOut
  <2>6. View(t)'[n] = r /\ \A j \in JobId : j # n => View(t)'[j] = view[j]
    <3> HIDE DEF rows, stuck
    <3> QED BY <1>1, <1>3, <2>1, <2>3, <2>4, <2>5 DEF View, Dirty
  <2>7. \A j \in JobId : Dirty(t, j)' =>
          /\ unit'[t].row[j].hash = job[j].hash
          /\ unit'[t].row[j].status # "SUCCEEDED"
          /\ j # n => Lesser(job[j], unit'[t].row[j])
    <3> HIDE DEF rows, stuck
    <3> QED BY <1>3, <1>4, <2>2, <2>3, <2>4, <2>5 DEF Dirty
  <2>8. ASSUME NEW k \in JobId \ {n}, view[k].dev = d
        PROVE  ~Waits(view[k]) /\ (Hashed(view[k]) => k < n)
    <3>1. ~Waits(view[k])
      BY <2>3, <2>8 DEF Waits, Applying, Open
    <3>2. Hashed(view[k]) => job[k].status # "ABSENT"
      <4>1. job[k].status = "ABSENT" => job[k].hash = NoHash
        BY DEF ConvInv, ConvTable
      <4> QED BY <1>4, <4>1 DEF Hashed, Active
    <3> QED
      BY <2>1, <3>1, <3>2, BoundsAssumption DEF JobId
  <2>9. Resting(unit[t].dev)'
    BY <1>1, <2>4 DEF Resting
  <2>10. ConvUnit(t)'
    <3> HIDE DEF view, rows, stuck
    <3> QED BY <1>1, <2>1, <2>3, <2>6, <2>7, <2>8, <2>9, RowsConv
  <2> QED
    BY <1>1, <1>2, <2>4, <2>10, OnlyUnitConv
<1> QED
  BY <1>5, <1>6 DEF Checkin

\* The verdict on a job: a success of an apply is that of the newest one.
LEMMA PostFinishedConv ==
  ASSUME TypeOK, TypeOK', QueueInv, ConvInv, Evolution, job' = job,
         NEW d \in Devices, NEW j \in JobId, NEW exit \in {0, 1}, NEW awaited,
         PostFinished(d, j, exit, awaited), \A e \in Devices : GoesOn(e),
         exit = 0 /\ job[j].type = "APPLY_CONFIG" =>
           IsLatest(job, d, j) /\ applied'[d] = job[j].hash /\ Resting(d)'
  PROVE  ConvInv'
<1>1. CASE UNCHANGED <<unit, alerts>>
  BY <1>1, SameTable, CalmOK DEF Stays, Kept
<1>2. CASE ~UNCHANGED <<unit, alerts>>
  <2> DEFINE r == Move(job[j], IF exit = 0 THEN "SUCCEEDED" ELSE "FAILED")
             rows == [Clean EXCEPT ![j] = r]
  <2>1. PICK t \in Threads : OpenUnit(t, "finished", d, rows, awaited)
    BY <1>2 DEF PostFinished
  <2>2. job[j] \in Row /\ t \in Workers
    BY DEF TypeOK, Workers
  <2>3. /\ r.hash = job[j].hash /\ r.type = job[j].type
        /\ r.status = IF exit = 0 THEN "SUCCEEDED" ELSE "FAILED"
        /\ Lesser(job[j], r)
    BY <2>2 DEF Move, Row, Lesser, Waits, Counts, Hashed
  <2> HIDE DEF r
  <2>4. rows[j] = r /\ \A k \in JobId : k # j => rows[k].status = "ABSENT"
    BY NoRowType
  <2>5. /\ unit'[t].row = rows /\ unit'[t].step = "finished"
        /\ \A u \in Workers : u # t => unit'[u] = unit[u]
    <3> HIDE DEF rows
    <3> QED BY <2>1, <2>2, OpenUnitRows
  <2> HIDE DEF rows
  <2>6. Lesser(job[j], View(t)'[j])
    BY <2>3, <2>4, <2>5 DEF View, Dirty
  <2>7. exit = 0 /\ job[j].type = "APPLY_CONFIG" => Proven(t, j)'
    BY DEF Proven, IsLatest, Resting
  <2>8. \A k \in JobId : Dirty(t, k)' =>
          /\ unit'[t].row[k].hash = job[k].hash
          /\ unit'[t].row[k].status = "SUCCEEDED" /\ unit'[t].row[k].type = "APPLY_CONFIG" =>
               Proven(t, k)'
          /\ k # j => Lesser(job[k], unit'[t].row[k])
    BY <2>3, <2>4, <2>5, <2>7 DEF Dirty
  <2>9. ConvUnit(t)'
    BY <2>2, <2>5, <2>6, <2>8, RowsConv
  <2> QED
    BY <2>2, <2>5, <2>9, OnlyUnitConv
<1> QED
  BY <1>1, <1>2

LEMMA FinishedConv ==
  ASSUME TypeOK, TypeOK', QueueInv, ConvInv, Evolution, NEW d \in Devices, Finished(d)
  PROVE  ConvInv'
<1> DEFINE j == agent[d].job
<1>1. /\ j \in JobId /\ agent[d].exit \in {0, 1} /\ ~Resting(d) /\ agent[d].at = "done"
      /\ agent \in [Devices -> Loop]
  <2>1. agent[d].at = "done" /\ agent[d] \in Loop /\ agent \in [Devices -> Loop]
    BY DEF Finished, TypeOK, Loop
  <2>2. agent[d].job # NoJob
    BY <2>1 DEF QueueInv, HeldWasDelivered
  <2> QED
    BY <2>1, <2>2 DEF Loop, Resting
<1>2. Resting(d)' /\ \A e \in Devices : agent'[e] = agent[e] \/ Resting(e)'
  BY <1>1 DEF Finished, Resting, Free
<1>3. \A e \in Devices : tunnels'[e] \subseteq tunnels[e]
  BY DEF Finished, TypeOK
<1>4. \A e \in Devices : GoesOn(e)
  BY <1>2, <1>3, Undisturbed DEF Finished
<1>5. agent[d].exit = 0 /\ job[j].type = "APPLY_CONFIG" =>
        IsLatest(job, d, j) /\ applied'[d] = job[j].hash
  BY <1>1 DEF Finished, ConvInv, ConvDevice
<1> QED
  BY <1>1, <1>2, <1>4, <1>5, PostFinishedConv DEF Finished

LEMMA TunnelFinishedConv ==
  ASSUME TypeOK, TypeOK', QueueInv, ConvInv, Evolution,
         NEW d \in Devices, NEW j \in JobId, TunnelFinished(d, j)
  PROVE  ConvInv'
<1>1. PICK exit \in {0, 1} : PostFinished(d, j, exit, FALSE)
  BY DEF TunnelFinished
<1>2. job[j].type = "OPEN_TUNNEL"
  BY DEF TunnelFinished, ConvInv, ConvDevice
<1>3. \A e \in Devices : GoesOn(e)
  BY Undisturbed DEF TunnelFinished, TypeOK
<1> QED
  BY <1>1, <1>2, <1>3, PostFinishedConv DEF TunnelFinished

-----------------------------------------------------------------------------
(* Handing out a job, and the end of a transaction *)

\* What t sees of a job that is pending carries no fingerprint.
LEMMA ViewConv ==
  ASSUME TypeOK, QueueInv, ConvInv, NEW t \in Workers, NEW j \in JobId
  PROVE  /\ View(t)[j] \in Row
         /\ View(t)[j].status \in {"ABSENT", "PENDING"} => View(t)[j].hash = NoHash
<1>1. View(t)[j] \in Row
  BY ViewType
<1>2. CASE Dirty(t, j)
  <2>1. /\ View(t)[j] = unit[t].row[j] /\ Follows(job[j], unit[t].row[j])
        /\ unit[t].row[j].hash = job[j].hash \/ unit[t].row[j].status = "DELIVERED"
    BY <1>2 DEF View, QueueInv, WritesAreCurrent, ConvInv, ConvUnit, Delivers
  <2>2. unit[t].row[j].status = "PENDING" => job[j].hash = NoHash
    BY <2>1 DEF Follows, Moves, Active, ConvInv, ConvTable
  <2> QED
    BY <1>1, <1>2, <2>1, <2>2 DEF Dirty
<1>3. CASE ~Dirty(t, j)
  BY <1>1, <1>3 DEF View, ConvInv, ConvTable
<1> QED
  BY <1>1, <1>2, <1>3

\* The unit of t, past drift detection, writes row r of the pending job j.
LEMMA AnswerConv ==
  ASSUME TypeOK, TypeOK', QueueInv, ConvInv, Evolution, job' = job,
         \A e \in Devices : GoesOn(e), agent' = agent,
         NEW t \in Workers, NEW j \in JobId, NEW r \in Row, NEW reply,
         unit[t].step = "converged",
         View(t)[j].status = "PENDING", View(t)[j].dev = unit[t].dev,
         r.dev = View(t)[j].dev, r.type = View(t)[j].type,
         \/ r.status = "CANCELLED" /\ r.hash = View(t)[j].hash
         \/ r.status = "DELIVERED" /\ (r.hash = View(t)[j].hash \/ Hashed(r)),
         Answer(t, [unit[t].row EXCEPT ![j] = r], reply)
  PROVE  ConvInv'
<1> DEFINE rows == [unit[t].row EXCEPT ![j] = r]
<1>0. unit[t] \in Unit /\ ConvUnit(t) /\ View(t)[j].hash = NoHash
  BY ViewConv DEF TypeOK, ConvInv
<1>1. /\ unit'[t].row = rows /\ unit'[t].step = "picked" /\ unit'[t].dev = unit[t].dev
      /\ \A u \in Workers : u # t => unit'[u] = unit[u]
  <2> HIDE DEF rows
  <2> QED BY <1>0 DEF Answer, TypeOK, Unit, rows
<1>2. /\ View(t)'[j] = r /\ \A k \in JobId : k # j => View(t)'[k] = View(t)[k]
      /\ unit'[t].row[j] = r
      /\ \A k \in JobId : k # j => unit'[t].row[k] = unit[t].row[k]
  BY <1>0, <1>1 DEF View, Dirty, Unit
<1>3. t \in Threads /\ Resting(unit[t].dev)'
  BY <1>0, <1>1 DEF ConvUnit, Resting
<1>4. \A k \in JobId : Lesser(View(t)[k], View(t)'[k])
  <2>1. Lesser(View(t)[j], r)
    BY <1>0 DEF Lesser, Waits, Counts, Hashed
  <2> QED
    BY <1>2, <2>1 DEF Lesser
<1>5. InOrder(View(t)) /\ InOrder(View(t)')
  BY <1>0, <1>3, <1>4, LesserOrder DEF ConvUnit
<1>6. ASSUME Hashed(r) PROVE Delivers(t, j)'
  <2>1. Waits(View(t)[j])
    BY <1>6 DEF Hashed, Waits
  <2>2. ASSUME NEW k \in JobId, View(t)'[k].dev = unit[t].dev, Hashed(View(t)'[k])
        PROVE  k <= j
    <3>1. CASE k # j
      BY <1>2, <1>5, <2>1, <2>2, <3>1, BoundsAssumption DEF InOrder, Counts, JobId
    <3> QED BY <3>1, BoundsAssumption DEF JobId
  <2>3. IsLatest(View(t)', unit[t].dev, j)
    BY <1>2, <1>6, <2>2 DEF IsLatest
  <2>4. r.status = "DELIVERED"
    BY <1>0, <1>6 DEF Hashed
  <2> QED
    BY <1>1, <1>2, <1>3, <2>3, <2>4 DEF Delivers
<1>7. job[j].hash = NoHash
  <2>1. ~Delivers(t, j)
    BY DEF Delivers
  <2> QED
    BY <1>0, <2>1 DEF View, ConvUnit
<1>8. ASSUME NEW k \in JobId, Dirty(t, k)'
      PROVE  /\ unit'[t].row[k].hash = job[k].hash \/ Delivers(t, k)'
             /\ unit'[t].row[k].status = "SUCCEEDED" /\ unit'[t].row[k].type = "APPLY_CONFIG" =>
                  Proven(t, k)'
  <2>1. CASE k = j
    BY <1>0, <1>2, <1>6, <1>7, <2>1
  <2>2. CASE k # j
    <3>1. Dirty(t, k) /\ ~Delivers(t, k) /\ unit'[t].row[k] = unit[t].row[k]
      BY <1>2, <1>8, <2>2 DEF Dirty, Delivers
    <3>2. Proven(t, k) => Proven(t, k)'
      <4>1. ASSUME Proven(t, k) PROVE applied'[job[k].dev] = applied[job[k].dev]
        <5>1. job[k].dev \in Devices
          BY DEF TypeOK, Row
        <5> QED BY <4>1, <5>1 DEF Proven, GoesOn
      <4> QED
        BY <4>1 DEF Proven, Resting
    <3> QED
      BY <1>0, <3>1, <3>2 DEF ConvUnit
  <2> QED BY <2>1, <2>2
<1>9. ConvUnit(t)'
  BY <1>1, <1>3, <1>5, <1>8 DEF ConvUnit
<1> QED
  BY <1>1, <1>9, OnlyUnitConv

\* The second half of a check-in.
LEMMA PickConv ==
  ASSUME TypeOK, TypeOK', QueueInv, ConvInv, Evolution, NEW t \in Workers, Pick(t)
  PROVE  ConvInv'
<1> DEFINE view == View(t)
           next == NextPending(view, unit[t].dev)
<1>0. /\ view \in [JobId -> Row] /\ unit[t].step = "converged" /\ unit[t] \in Unit
      /\ job' = job /\ agent' = agent /\ applied' = applied /\ tunnels' = tunnels
      /\ unit \in [Workers -> Unit] /\ spec' = spec
  BY ViewType DEF Pick, TypeOK
<1>1. \A e \in Devices : GoesOn(e)
  BY <1>0, Undisturbed
<1>2. CASE Answer(t, unit[t].row, NoJob)
  <2>1. /\ unit'[t].row = unit[t].row /\ unit'[t].dev = unit[t].dev /\ unit'[t].step = "picked"
        /\ \A u \in Workers : u # t => unit'[u] = unit[u]
    BY <1>0, <1>2 DEF Answer, Unit
  <2>2. /\ View(t)' = View(t) /\ \A j \in JobId : Dirty(t, j)' = Dirty(t, j)
        /\ \A j \in JobId : ~Delivers(t, j) /\ (Proven(t, j) => Proven(t, j)')
    BY <1>0, <2>1 DEF View, Dirty, Delivers, Proven, Resting
  <2>3. ConvUnit(t)
    BY DEF ConvInv
  <2>4. ConvUnit(t)'
    BY <1>0, <2>1, <2>2, <2>3 DEF ConvUnit, Resting
  <2> QED
    BY <1>0, <1>1, <2>1, <2>4, OnlyUnitConv
<1>3. ASSUME NEW j \in next
      PROVE  /\ j \in JobId /\ view[j].status = "PENDING" /\ view[j] \in Row
             /\ view[j].dev = unit[t].dev
             /\ Move(view[j], "CANCELLED") \in Row
             /\ Move(view[j], "CANCELLED").status = "CANCELLED"
             /\ Move(view[j], "CANCELLED").dev = view[j].dev
             /\ Move(view[j], "CANCELLED").type = view[j].type
             /\ Move(view[j], "CANCELLED").hash = view[j].hash
  <2>1. j \in JobId /\ view[j].status = "PENDING" /\ view[j] \in Row /\ view[j].dev = unit[t].dev
    BY <1>0, <1>3 DEF NextPending
  <2> HIDE DEF view
  <2> QED
    BY <2>1, MoveType DEF Move, Row, Status, Terminal
<1>4. ASSUME NEW j \in next, ~Undeliverable(view[j])
      PROVE  /\ Handed(view[j]) \in Row /\ Handed(view[j]).status = "DELIVERED"
             /\ Handed(view[j]).dev = view[j].dev /\ Handed(view[j]).type = view[j].type
             /\ Handed(view[j]).hash = view[j].hash \/ Hashed(Handed(view[j]))
  <2>1. view[j] \in Row
    BY <1>3, <1>4
  <2>2. Handed(view[j]) \in Row /\ Handed(view[j]).status = "DELIVERED"
    BY <1>4, <2>1, HandedType
  <2>3. view[j].type = "APPLY_CONFIG" => spec[view[j].dev] \in Specs
    <3>1. view[j].dev \in Devices
      BY <2>1 DEF Row
    <3> HIDE DEF view
    <3> QED BY <1>4, <3>1 DEF Undeliverable, TypeOK
  <2> HIDE DEF view
  <2> QED
    BY <2>1, <2>2, <2>3, SpecAssumption DEF Handed, Move, Row, Hashed
<1>5. ASSUME NEW j \in next, NEW r \in Row, NEW reply,
             r.dev = view[j].dev, r.type = view[j].type,
             \/ r.status = "CANCELLED" /\ r.hash = view[j].hash
             \/ r.status = "DELIVERED" /\ (r.hash = view[j].hash \/ Hashed(r)),
             Answer(t, [unit[t].row EXCEPT ![j] = r], reply)
      PROVE  ConvInv'
  BY <1>0, <1>1, <1>3, <1>5, AnswerConv
<1> QED
  <2> HIDE DEF view, next
  <2> QED BY <1>2, <1>3, <1>4, <1>5 DEF Pick, view, next

\* What a commit makes of the other units of work, and of the agents.
LEMMA CommitParts ==
  ASSUME TypeOK, NEW t \in Workers, Commit(t)
  PROVE  /\ job' = View(t) /\ applied' = applied /\ tunnels' = tunnels
         /\ unit'[t] = Idle
         /\ \A u \in Workers : u # t => Stays(u)
         /\ \A d \in Devices : \/ agent'[d] = agent[d] \/ Resting(d)'
                               \/ /\ d = unit[t].dev /\ agent'[d].job = unit[t].reply
                                  /\ agent'[d].at = "got" /\ unit[t].reply # NoJob
<1> DEFINE S == {j \in JobId : Dirty(t, j)}
           D == {d \in Devices : Touches(t, d)}
<1>1. unit' = [Invalidate(S, D) EXCEPT ![t] = Idle]
  BY DEF Commit
<1>2. unit'[t] = Idle
  <2> HIDE DEF S, D
  <2> QED BY <1>1 DEF Invalidate
<1>3. ASSUME NEW u \in Workers, u # t PROVE Stays(u)
  <2>1. unit'[u] = Invalidate(S, D)[u]
    <3> HIDE DEF S, D
    <3> QED BY <1>1, <1>3 DEF Invalidate
  <2> HIDE DEF S, D
  <2> QED BY <2>1, InvalidateStays
<1>4. ASSUME NEW d \in Devices
      PROVE  \/ agent'[d] = agent[d] \/ Resting(d)'
             \/ /\ d = unit[t].dev /\ agent'[d].job = unit[t].reply
                /\ agent'[d].at = "got" /\ unit[t].reply # NoJob
  <2>1. agent \in [Devices -> Loop]
    BY DEF TypeOK, Loop
  <2> QED
    BY <2>1 DEF Commit, Resting, Free
<1> QED
  BY <1>2, <1>3, <1>4 DEF Commit

\* The sweep's commit times jobs out; nothing is delivered by it.
LEMMA SweepCommitConv ==
  ASSUME TypeOK, TypeOK', QueueInv, ConvInv, Evolution,
         NEW t \in Workers, t \notin Threads, Commit(t)
  PROVE  ConvInv'
<1>1. ConvUnit(t)
  BY DEF ConvInv
<1>2. ASSUME NEW j \in JobId PROVE CalmRow(job[j], job'[j])
  <2>1. CASE Dirty(t, j)
    <3>1. /\ job'[j] = unit[t].row[j] /\ Follows(job[j], unit[t].row[j])
          /\ unit[t].row[j].hash = job[j].hash
          /\ unit[t].row[j].status = "TIMED_OUT"
      BY <1>1, <2>1, CommitParts
         DEF View, QueueInv, WritesAreCurrent, ConvUnit, Delivers, Proven
    <3> QED
      BY <3>1 DEF CalmRow, Follows, Moves, Active, Waits
  <2>2. CASE ~Dirty(t, j)
    BY <2>2, CommitParts, SameRow DEF View
  <2> QED BY <2>1, <2>2
<1>3. Calm
  BY <1>2 DEF Calm
<1>4. unit[t].reply = NoJob
  <2>1. ASSUME unit[t].reply # NoJob PROVE FALSE
    <3>1. unit[t].reply \in JobId /\ unit[t].row[unit[t].reply].status = "DELIVERED"
      BY <2>1 DEF TypeOK, Unit, QueueInv, AnswersAreOffers
    <3> QED
      BY <1>1, <3>1 DEF ConvUnit, Dirty
  <2> QED BY <2>1
<1>5. \A d \in Devices : GoesOn(d)
  BY <1>4, CommitParts, Undisturbed
<1>6. unit'[t] = Idle /\ Idle.row = Clean /\ Idle.step = "idle"
  BY CommitParts, NoRowType DEF Idle
<1>7. Stays(t)
  BY <1>6 DEF Stays
<1> QED
  BY <1>3, <1>5, <1>7, CommitParts, CalmOK

\* The commit of a request delivers the newest job of its device, or records
\* that the newest one succeeded.
LEMMA RequestCommitConv ==
  ASSUME TypeOK, TypeOK', QueueInv, ConvInv, Evolution, Serial,
         NEW t \in Threads, Commit(t)
  PROVE  ConvInv'
<1>0. /\ t \in Workers /\ job' = View(t) /\ applied' = applied /\ tunnels' = tunnels
      /\ ConvTable /\ ConvUnit(t) /\ unit[t] \in Unit
  BY CommitParts DEF Workers, ConvInv, TypeOK
<1>1. ASSUME NEW j \in JobId
      PROVE  /\ ~Dirty(t, j) => job'[j] = job[j]
             /\ Dirty(t, j) => /\ job'[j] = unit[t].row[j] /\ Follows(job[j], job'[j])
                               /\ job'[j].hash = job[j].hash \/ Delivers(t, j)
                               /\ job'[j].status # "DELETED"
  <2>1. Dirty(t, j) => Follows(job[j], unit[t].row[j])
    BY <1>0 DEF QueueInv, WritesAreCurrent
  <2> QED
    BY <1>0, <2>1 DEF View, ConvUnit, Follows, Moves, Active
<1>2. \A j \in JobId : Hashed(job[j]) =>
        Hashed(job'[j]) /\ job'[j].dev = job[j].dev /\ job'[j].hash = job[j].hash
  BY <1>0 DEF Evolution, Evolves, Hashed, ConvTable
<1>3. ConvTable'
  <2>1. InOrder(job')
    BY <1>0 DEF ConvUnit
  <2>2. \A j \in JobId : job'[j].status # "DELETED"
    BY <1>0, <1>1 DEF ConvTable
  <2>3. \A j \in JobId : job'[j].status \in {"ABSENT", "PENDING"} => job'[j].hash = NoHash
    BY <1>0, ViewConv
  <2> QED
    BY <2>1, <2>2, <2>3 DEF ConvTable
<1>4. ASSUME NEW u \in Workers PROVE ConvUnit(u)'
  <2>1. CASE u = t
    <3>1. unit'[t].row = Clean /\ unit'[t].step = "idle"
      BY <1>0, CommitParts, NoRowType DEF Idle
    <3>2. View(t)' = job' /\ \A j \in JobId : ~Dirty(t, j)'
      BY <3>1, NoRowType DEF View, Dirty, TypeOK
    <3> QED
      BY <1>3, <2>1, <3>1, <3>2 DEF ConvUnit, ConvTable
  <2>2. CASE u # t
    <3>1. u \notin Threads /\ ConvUnit(u) /\ Stays(u)
      BY <1>0, <2>2, CommitParts DEF Serial, ConvInv
    <3>2. ASSUME NEW j \in JobId, Dirty(u, j)'
          PROVE  unit'[u].row[j].status = "TIMED_OUT" /\ unit'[u].row[j].hash = job'[j].hash
      <4>1. Kept(u) /\ Dirty(u, j)
        BY <3>1, <3>2, NoRowType DEF Stays, Dirty, Kept
      <4>2. unit[u].row[j].status = "TIMED_OUT" /\ unit[u].row[j].hash = job[j].hash
        BY <3>1, <4>1 DEF ConvUnit, Delivers
      <4>3. job[j].status \in Active
        BY <4>1, <4>2 DEF QueueInv, WritesAreCurrent, Follows, Moves
      <4>4. job'[j].hash = job[j].hash
        BY <4>3 DEF Evolution, Evolves, Active
      <4> QED
        BY <4>1, <4>2, <4>4 DEF Kept
    <3>3. unit'[u].step \notin {"converged", "picked"}
      BY <3>1 DEF Stays, Kept, ConvUnit
    <3> QED
      BY <3>1, <3>2, <3>3 DEF ConvUnit
  <2> QED BY <2>1, <2>2
<1>5. ASSUME NEW d \in Devices PROVE ConvDevice(d)'
  <2>0. ConvDevice(d)
    BY DEF ConvInv
  \* A job that d holds, and keeps, stays the newest.
  <2>1. ASSUME ~Resting(d), NEW j \in JobId, IsLatest(job, d, j), job[j].status # "SUCCEEDED"
        PROVE  IsLatest(job', d, j) /\ job'[j].status # "SUCCEEDED"
    <3>1. ASSUME NEW k \in JobId, job'[k].dev = d, Hashed(job'[k])
          PROVE  k <= j
      <4>1. ~Delivers(t, k)
        <5>1. ASSUME Delivers(t, k) PROVE unit[t].dev = d /\ unit[t].step = "picked"
          BY <1>0, <3>1, <5>1 DEF Delivers, IsLatest
        <5> QED
          BY <1>0, <2>1, <5>1 DEF ConvUnit
      <4>2. job'[k].hash = job[k].hash
        BY <1>1, <4>1
      <4>3. Hashed(job[k]) /\ job[k].dev = d
        <5>1. job[k].status # "ABSENT"
          BY <1>0, <3>1, <4>2 DEF ConvTable, Hashed
        <5> QED
          BY <3>1, <4>2, <5>1 DEF Evolution, Evolves, Hashed
      <4> QED
        BY <2>1, <4>3 DEF IsLatest
    <3>2. IsLatest(job', d, j)
      BY <1>2, <2>1, <3>1 DEF IsLatest
    <3>3. job'[j].status # "SUCCEEDED"
      <4>1. ~Proven(t, j)
        BY <2>1 DEF Proven, IsLatest
      <4> QED
        BY <1>0, <1>1, <2>1, <3>2, <4>1 DEF ConvUnit, IsLatest, Hashed
    <3> QED BY <3>2, <3>3
  <2>2. ASSUME NEW j \in JobId, IsLatest(job', d, j), job'[j].status = "SUCCEEDED"
        PROVE  applied'[d] = job'[j].hash
    <3>1. CASE ~Dirty(t, j)
      <4>1. job'[j] = job[j]
        BY <1>1, <3>1
      <4>2. IsLatest(job, d, j)
        BY <1>2, <2>2, <4>1 DEF IsLatest
      <4> QED
        BY <1>0, <2>0, <2>2, <4>1, <4>2 DEF ConvDevice
    <3>2. CASE Dirty(t, j)
      <4>1. Proven(t, j) /\ Follows(job[j], job'[j])
        BY <1>0, <1>1, <2>2, <3>2 DEF ConvUnit, IsLatest, Hashed
      <4>2. job[j].status \in Active
        BY <2>2, <4>1 DEF Follows, Moves
      <4>3. job'[j].dev = job[j].dev /\ job'[j].hash = job[j].hash
        BY <4>1, <4>2 DEF Follows, Active
      <4> QED
        BY <1>0, <2>2, <4>1, <4>3 DEF Proven, IsLatest
    <3> QED BY <3>1, <3>2
  <2>3. \A j \in tunnels'[d] : job'[j].type = "OPEN_TUNNEL"
    <3>1. \A j \in tunnels[d] : j \in JobId /\ WasDelivered(j) /\ job[j].type = "OPEN_TUNNEL"
      BY <2>0 DEF ConvDevice, QueueInv, HeldWasDelivered, TypeOK
    <3> QED
      BY <1>0, <3>1 DEF Evolution, Evolves, WasDelivered
  <2>4. ASSUME ~Resting(d)', job'[agent'[d].job].type = "APPLY_CONFIG"
        PROVE  /\ IsLatest(job', d, agent'[d].job) /\ job'[agent'[d].job].status # "SUCCEEDED"
               /\ agent'[d].at = "done" /\ agent'[d].exit = 0 =>
                    applied'[d] = job'[agent'[d].job].hash
    <3>1. CASE agent'[d] = agent[d]
      <4> DEFINE j == agent[d].job
      <4>1. ~Resting(d) /\ j \in JobId /\ WasDelivered(j)
        BY <2>4, <3>1, AgentType DEF Resting, QueueInv, HeldWasDelivered, Loop
      <4>2. job'[j].type = job[j].type
        BY <4>1 DEF Evolution, Evolves, WasDelivered
      <4>3. /\ IsLatest(job, d, j) /\ job[j].status # "SUCCEEDED"
            /\ agent[d].at = "done" /\ agent[d].exit = 0 => applied[d] = job[j].hash
        BY <2>0, <2>4, <3>1, <4>1, <4>2 DEF ConvDevice
      <4>4. job'[j].hash = job[j].hash
        BY <1>2, <4>1, <4>3 DEF IsLatest
      <4> QED
        BY <1>0, <2>1, <3>1, <4>1, <4>3, <4>4
    <3>2. CASE agent'[d] # agent[d]
      <4> DEFINE j == unit[t].reply
      <4>1. d = unit[t].dev /\ agent'[d].job = j /\ agent'[d].at = "got" /\ j \in JobId
        BY <1>0, <2>4, <3>2, CommitParts DEF Unit
      <4>2. unit[t].row[j].status = "DELIVERED" /\ Dirty(t, j)
        BY <1>0, <4>1, Bounds DEF QueueInv, AnswersAreOffers, Dirty
      <4>3. Delivers(t, j)
        <5>1. Follows(job[j], job'[j]) /\ job'[j] = unit[t].row[j]
          BY <1>1, <4>1, <4>2
        <5>2. job'[j].hash # NoHash /\ job[j].status \in {"ABSENT", "PENDING"}
          BY <2>4, <4>1, <4>2, <5>1 DEF Follows, Moves, Active
        <5>3. job[j].hash = NoHash
          BY <1>0, <4>1, <5>2 DEF ConvTable
        <5> QED
          BY <1>1, <4>1, <4>2, <5>2, <5>3
      <4> QED
        BY <1>0, <1>1, <4>1, <4>2, <4>3 DEF Delivers
    <3> QED BY <3>1, <3>2
  <2> QED
    BY <2>2, <2>3, <2>4 DEF ConvDevice, Resting
<1> QED
  BY <1>3, <1>4, <1>5 DEF ConvInv

-----------------------------------------------------------------------------

LEMMA InitConv == ASSUME Init PROVE ConvInv
<1>1. /\ \A j \in JobId : job[j] = NoRow /\ NoRow.hash = NoHash /\ NoRow.status = "ABSENT"
      /\ \A t \in Workers : unit[t].row = Clean /\ unit[t].step = "idle"
  BY NoRowType DEF Init, Clean, NoRow, NewRow, Idle
<1>2. \A t \in Workers, j \in JobId : ~Dirty(t, j) /\ View(t)[j] = job[j]
  BY <1>1, NoRowType DEF Dirty, View
<1>3. \A j \in JobId : ~Waits(job[j]) /\ ~Hashed(job[j])
  BY <1>1 DEF Waits, Hashed
<1>4. ConvTable
  BY <1>1, <1>3 DEF ConvTable, InOrder
<1>5. \A t \in Workers : ConvUnit(t)
  BY <1>1, <1>2, <1>3 DEF ConvUnit, InOrder, Workers
<1>6. \A d \in Devices : ConvDevice(d)
  BY <1>3 DEF ConvDevice, Init, Resting, Free, IsLatest
<1> QED
  BY <1>4, <1>5, <1>6 DEF ConvInv

LEMMA NextConv == ASSUME Serial, IInv, IInv', ConvInv, [Next]_vars PROVE ConvInv'
<1> USE DEF IInv
<1>0. Evolution
  BY StepEvolves
<1>1. CASE UNCHANGED vars
  <2>1. \A d \in Devices : GoesOn(d)
    BY <1>1, Undisturbed DEF vars
  <2>2. \A t \in Workers : Stays(t)
    BY <1>1 DEF vars, Stays, Kept
  <2> QED
    BY <1>0, <1>1, <2>1, <2>2, SameTable, CalmOK DEF vars
<1>2. ASSUME NEW t \in Workers, Commit(t) PROVE ConvInv'
  BY <1>0, <1>2, SweepCommitConv, RequestCommitConv
<1>3. ASSUME NEW d \in Devices, AgentStep(d) PROVE ConvInv'
  BY <1>0, <1>3, WorkConv, FinishedConv DEF AgentStep
<1>4. CASE Surroundings
  BY <1>0, <1>4, SurroundingsConv, TunnelFinishedConv, SweepConv
<1>5. CASE Next
  BY <1>0, <1>2, <1>3, <1>4, <1>5, Steps, CheckinConv, EnqueueConv, PickConv, EndConv
<1> QED
  BY <1>1, <1>5

\* What the server shows as converged is converged: when the newest
\* delivered apply of a device succeeded with the present spec and nothing
\* is open, the device did run that spec last.
THEOREM Converged == ASSUME Serial PROVE Spec => []ConvergedIsTrue
<1>1. Init => ConvInv
  BY InitConv
<1>2. IInv /\ IInv' /\ ConvInv /\ [Next]_vars => ConvInv'
  BY NextConv
<1>3. IInv /\ ConvInv => ConvergedIsTrue
  <2> SUFFICES ASSUME IInv, ConvInv, NEW d \in Devices, NEW j \in Newest(Delivered(job, d)),
                      job[j].status = "SUCCEEDED", job[j].hash = spec[d]
               PROVE  applied[d] = spec[d]
    BY DEF ConvergedIsTrue
  <2>1. j \in JobId /\ job[j].dev = d /\ Hashed(job[j])
    BY DEF Newest, Delivered, Hashed
  <2>2. ASSUME NEW k \in JobId, job[k].dev = d, Hashed(job[k]) PROVE k <= j
    <3>1. k \in Delivered(job, d)
      BY <2>2 DEF Delivered, Hashed, ConvInv, ConvTable
    <3> QED BY <3>1 DEF Newest
  <2> QED
    BY <2>1, <2>2 DEF ConvInv, ConvDevice, IsLatest
<1> QED
  BY <1>1, <1>2, <1>3, Invariance, PTL DEF Spec

=============================================================================
