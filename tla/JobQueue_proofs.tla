--------------------------- MODULE JobQueue_proofs --------------------------
(***************************************************************************)
(* Theorems about JobQueue, for any number of devices, threads, jobs and   *)
(* attempts, and for every choice of faults and edits:                     *)
(*   - TypeCorrect: every variable keeps its type;                         *)
(*   - Inductive: QueueInv, the meaning of the pending writes;             *)
(*   - Finality: a finished job never moves again;                         *)
(*   - Implementation: the queue implements the ledger of WorkQueue.       *)
(* The argument rests on the version check.  A unit of work can only       *)
(* commit if no row it writes was written since it read it, so the write   *)
(* still is a legal move of the job when it commits (QueueInv).            *)
(***************************************************************************)
EXTENDS JobQueue, TLAPS

(* Rows and units of work *)

\* The arithmetic of the bounds.
LEMMA Bounds ==
  /\ MaxJobs \in Nat \ {0} /\ MaxRequests \in 0..MaxJobs
  /\ MaxAttempts \in Nat \ {0} /\ MaxTime \in Nat
  /\ NoJob \notin JobId
  /\ 1 \in 1..MaxAttempts /\ 0 \in 0..MaxTime
BY BoundsAssumption DEF JobId, NoJob

\* A new row is a pending row.
LEMMA NewRowType ==
  ASSUME NEW d \in Devices, NEW type \in JobType, NEW attempt \in 1..MaxAttempts,
         NEW after \in 0..MaxTime, NEW auto \in BOOLEAN
  PROVE  /\ NewRow(d, type, attempt, after, auto) \in Row
         /\ NewRow(d, type, attempt, after, auto).status = "PENDING"
BY DEF NewRow, Row, Status, Open

\* Moving a row changes its status and keeps it a row.
LEMMA MoveType ==
  ASSUME NEW r \in Row, NEW s \in Status
  PROVE  Move(r, s) \in Row /\ Move(r, s).status = s
BY DEF Move, Row

\* The row that stands for no row, and a unit of work without any.
LEMMA NoRowType ==
  /\ NoRow \in Row /\ NoRow.status = "ABSENT"
  /\ Clean \in [JobId -> Row] /\ \A j \in JobId : Clean[j].status = "ABSENT"
  /\ Idle \in Unit /\ Idle.row = Clean /\ Idle.reply = NoJob
<1> DEFINE d == CHOOSE d \in Devices : TRUE
<1>1. d \in Devices
  BY ActorAssumption
<1>2. NewRow(d, "APPLY_CONFIG", 1, 0, FALSE) \in Row
  BY <1>1, NewRowType, Bounds DEF JobType
<1>3. NoRow \in Row /\ NoRow.status = "ABSENT"
  BY <1>2 DEF NoRow, Row, Status
<1>4. Clean \in [JobId -> Row] /\ \A j \in JobId : Clean[j].status = "ABSENT"
  BY <1>3 DEF Clean
<1>5. Idle \in Unit /\ Idle.row = Clean /\ Idle.reply = NoJob
  BY <1>3, <1>4 DEF Idle, Unit, Row
<1> QED
  BY <1>3, <1>4, <1>5

\* Losing the version check leaves a unit of work with nothing to write.
LEMMA InvalidateType ==
  ASSUME TypeOK, NEW S, NEW D
  PROVE  /\ Invalidate(S, D) \in [Workers -> Unit]
         /\ \A t \in Workers :
              \/ Invalidate(S, D)[t] = unit[t] /\ \A j \in S : ~Dirty(t, j)
              \/ Invalidate(S, D)[t].row = Clean /\ Invalidate(S, D)[t].reply = NoJob
<1>1. ASSUME NEW t \in Workers
      PROVE  /\ Invalidate(S, D)[t] \in Unit
             /\ \/ Invalidate(S, D)[t] = unit[t] /\ \A j \in S : ~Dirty(t, j)
                \/ Invalidate(S, D)[t].row = Clean /\ Invalidate(S, D)[t].reply = NoJob
  <2>1. unit[t] \in Unit
    BY <1>1 DEF TypeOK
  <2>2. [unit[t] EXCEPT !.stale = TRUE, !.row = Clean, !.reply = NoJob] \in Unit
    BY <2>1, NoRowType DEF Unit
  <2>3. /\ [unit[t] EXCEPT !.stale = TRUE, !.row = Clean, !.reply = NoJob].row = Clean
        /\ [unit[t] EXCEPT !.stale = TRUE, !.row = Clean, !.reply = NoJob].reply = NoJob
    BY <2>1 DEF Unit
  <2> QED
    BY <1>1, <2>1, <2>2, <2>3 DEF Invalidate
<1> QED
  BY <1>1 DEF Invalidate

\* Timing out jobs writes rows, and only of those jobs.
LEMMA TimedOutType ==
  ASSUME TypeOK, NEW S \in SUBSET JobId
  PROVE  /\ TimedOut(S) \in [JobId -> Row]
         /\ \A j \in JobId : TimedOut(S)[j].status = IF j \in S THEN "TIMED_OUT" ELSE "ABSENT"
<1>1. ASSUME NEW j \in JobId
      PROVE  /\ Move(job[j], "TIMED_OUT") \in Row
             /\ Move(job[j], "TIMED_OUT").status = "TIMED_OUT"
  BY <1>1, MoveType DEF TypeOK, Status, Terminal
<1> QED
  BY <1>1, NoRowType DEF TimedOut

\* What a unit of work sees is a job table.
LEMMA ViewType ==
  ASSUME TypeOK, NEW t \in Workers
  PROVE  View(t) \in [JobId -> Row]
BY DEF View, TypeOK, Unit

\* Drift detection adds pending rows.
LEMMA DriftType ==
  ASSUME TypeOK, NEW view \in [JobId -> Row], NEW d \in Devices,
         NEW r \in Drift(view, d)
  PROVE  r \in Row /\ r.status = "PENDING"
<1> DEFINE last == Newest(Delivered(view, d))
<1>1. CASE r = NewRow(d, "APPLY_CONFIG", 1, 0, TRUE)
  BY <1>1, NewRowType, Bounds DEF JobType
<1>2. CASE \E j \in {k \in last : /\ view[k].status \in {"FAILED", "TIMED_OUT"}
                                  /\ view[k].attempt < MaxAttempts} :
             r = NewRow(d, "APPLY_CONFIG", view[j].attempt + 1, 0, TRUE)
  <2>1. PICK j \in last : /\ view[j].attempt < MaxAttempts
                          /\ r = NewRow(d, "APPLY_CONFIG", view[j].attempt + 1, 0, TRUE)
    BY <1>2
  <2>2. j \in JobId
    BY <2>1 DEF Newest, Delivered
  <2>3. view[j].attempt \in 1..MaxAttempts
    BY <2>2 DEF Row
  <2>4. view[j].attempt + 1 \in 1..MaxAttempts
    BY <2>1, <2>3, Bounds
  <2> QED
    BY <2>1, <2>4, NewRowType, Bounds DEF JobType
<1> QED
  BY <1>1, <1>2 DEF Drift

-----------------------------------------------------------------------------
(* Type correctness *)

\* The state of an agent's main loop.
Loop == [at : {"idle", "waiting", "got", "running", "applying", "done"},
         job : JobId \cup {NoJob}, exit : {0, 1}]

\* An agent with nothing to do is an agent.
LEMMA FreeType == Free \in Loop
BY DEF Free, Loop

\* A request that is one step writes a row and voids units of work.
LEMMA WriteType ==
  ASSUME TypeOK, NEW j \in JobId, NEW r \in Row, Write(j, r)
  PROVE  job' \in [JobId -> Row] /\ unit' \in [Workers -> Unit]
BY InvalidateType DEF Write, TypeOK

\* A unit of work is opened with the rows it will write.
LEMMA OpenUnitType ==
  ASSUME TypeOK, NEW t \in Workers,
         NEW step \in {"idle", "converged", "picked", "finished", "queued", "swept"},
         NEW d \in Devices, NEW rows \in [JobId -> Row], NEW awaited \in BOOLEAN,
         OpenUnit(t, step, d, rows, awaited)
  PROVE  unit' \in [Workers -> Unit]
BY DEF OpenUnit, TypeOK, Unit

\* So is the unit that reports the end of a job.
LEMMA PostFinishedType ==
  ASSUME TypeOK, NEW d \in Devices, NEW j \in JobId, NEW exit \in {0, 1},
         NEW awaited \in BOOLEAN, PostFinished(d, j, exit, awaited)
  PROVE  unit' \in [Workers -> Unit] /\ alerts' \subseteq JobId
<1>1. CASE UNCHANGED <<unit, alerts>>
  BY <1>1 DEF TypeOK
<1>2. CASE ~UNCHANGED <<unit, alerts>>
  <2> DEFINE verdict == Move(job[j], IF exit = 0 THEN "SUCCEEDED" ELSE "FAILED")
             rows == [Clean EXCEPT ![j] = verdict]
  <2>1. PICK t \in Threads : OpenUnit(t, "finished", d, rows, awaited)
    BY <1>2 DEF PostFinished
  <2>2. verdict \in Row
    BY MoveType DEF TypeOK, Status, Terminal
  <2>3. rows \in [JobId -> Row]
    BY <2>2, NoRowType
  <2>4. unit' \in [Workers -> Unit]
    <3> HIDE DEF rows
    <3> QED BY <2>1, <2>3, OpenUnitType DEF Workers
  <2>5. alerts' \subseteq JobId
    BY DEF PostFinished, FinalFailures, TypeOK
  <2> QED
    BY <2>4, <2>5
<1> QED
  BY <1>1, <1>2

\* Handing out a job that can be delivered leaves a delivered row.
LEMMA HandedType ==
  ASSUME TypeOK, NEW r \in Row, ~Undeliverable(r)
  PROVE  Handed(r) \in Row /\ Handed(r).status = "DELIVERED"
<1>1. Move(r, "DELIVERED") \in Row /\ Move(r, "DELIVERED").status = "DELIVERED"
  BY MoveType DEF Status, Open, Active
<1>2. r.type = "APPLY_CONFIG" => spec[r.dev] \in Specs
  BY DEF Undeliverable, TypeOK, Row
<1> QED
  BY <1>1, <1>2 DEF Handed, Row

\* Every agent's job is a row of the table or none.
LEMMA AgentType ==
  ASSUME TypeOK, NEW d \in Devices
  PROVE  agent[d] \in Loop
BY DEF TypeOK, Loop

\* Answering a check-in changes the unit of its thread and no other.
LEMMA AnswerType ==
  ASSUME TypeOK, NEW t \in Workers, NEW rows \in [JobId -> Row],
         NEW reply \in JobId \cup {NoJob}, Answer(t, rows, reply)
  PROVE  /\ unit' \in [Workers -> Unit]
         /\ unit'[t].row = rows /\ unit'[t].reply = reply
         /\ \A w \in Workers : w # t => unit'[w] = unit[w]
<1>1. unit[t] \in Unit
  BY DEF TypeOK
<1> DEFINE new == [unit[t] EXCEPT !.step = "picked", !.row = rows, !.reply = reply]
<1>2. new \in Unit /\ new.row = rows /\ new.reply = reply
  BY <1>1 DEF Unit
<1>3. unit' = [unit EXCEPT ![t] = new] /\ unit \in [Workers -> Unit]
  BY DEF Answer, TypeOK
<1> QED
  <2> HIDE DEF new
  <2> QED BY <1>2, <1>3

\* The steps of the server keep the types.
LEMMA ServerType ==
  ASSUME TypeOK, NEW t \in Workers,
         Pick(t) \/ Commit(t) \/ Rollback(t) \/ GiveUp(t)
  PROVE  TypeOK'
<1> USE DEF Loop
<1>1. unit[t] \in Unit /\ unit[t].dev \in Devices /\ unit[t].row \in [JobId -> Row]
      /\ unit[t].reply \in JobId \cup {NoJob}
  BY DEF TypeOK, Unit
<1>2. CASE Pick(t)
  <2> DEFINE view == View(t)
             next == NextPending(view, unit[t].dev)
  <2>1. view \in [JobId -> Row]
    BY ViewType
  <2>2. next \subseteq JobId
    BY DEF NextPending
  <2>3. unit' \in [Workers -> Unit]
    <3>1. CASE Answer(t, unit[t].row, NoJob)
      BY <1>1, <3>1, AnswerType
    <3>2. ASSUME NEW j \in next,
                 Answer(t, [unit[t].row EXCEPT ![j] = Move(view[j], "CANCELLED")], NoJob)
          PROVE  unit' \in [Workers -> Unit]
      <4>1. Move(view[j], "CANCELLED") \in Row
        BY <2>1, <2>2, <3>2, MoveType DEF Status, Terminal
      <4>2. [unit[t].row EXCEPT ![j] = Move(view[j], "CANCELLED")] \in [JobId -> Row]
        BY <1>1, <4>1
      <4> QED
        BY <3>2, <4>2, AnswerType
    <3>3. ASSUME NEW j \in next, ~Undeliverable(view[j]),
                 Answer(t, [unit[t].row EXCEPT ![j] = Handed(view[j])], j)
          PROVE  unit' \in [Workers -> Unit]
      <4>1. Handed(view[j]) \in Row
        BY <2>1, <2>2, <3>3, HandedType
      <4>2. [unit[t].row EXCEPT ![j] = Handed(view[j])] \in [JobId -> Row]
        BY <1>1, <4>1
      <4> QED
        BY <2>2, <3>3, <4>2, AnswerType
    <3> QED
      BY <1>2, <3>1, <3>2, <3>3 DEF Pick
  <2> QED
    BY <1>2, <2>3 DEF Pick, TypeOK
<1>3. CASE Commit(t)
  <2>1. job' \in [JobId -> Row]
    BY <1>3, ViewType DEF Commit
  <2>2. unit' \in [Workers -> Unit]
    BY <1>3, InvalidateType, NoRowType DEF Commit
  <2>3. agent' \in [Devices -> Loop]
    BY <1>1, <1>3, FreeType DEF Commit, TypeOK
  <2>4. taken' \subseteq JobId
    BY <1>1, <1>3 DEF Commit, TypeOK
  <2> QED
    BY <1>3, <2>1, <2>2, <2>3, <2>4 DEF Commit, TypeOK
<1>4. CASE Rollback(t)
  <2>1. unit' \in [Workers -> Unit]
    BY <1>4, NoRowType DEF Rollback, TypeOK
  <2>2. agent' \in [Devices -> Loop]
    BY <1>1, <1>4, FreeType DEF Rollback, TypeOK
  <2> QED
    BY <1>4, <2>1, <2>2 DEF Rollback, TypeOK
<1>5. CASE GiveUp(t)
  <2>1. unit' \in [Workers -> Unit]
    BY <1>1, <1>5 DEF GiveUp, TypeOK, Unit
  <2>2. agent' \in [Devices -> Loop]
    BY <1>1, <1>5, FreeType DEF GiveUp, TypeOK
  <2> QED
    BY <1>5, <2>1, <2>2 DEF GiveUp, TypeOK
<1> QED
  BY <1>2, <1>3, <1>4, <1>5

\* Moving one agent on.
LEMMA LoopType ==
  ASSUME TypeOK, NEW d \in Devices, NEW exit \in {0, 1},
         NEW at \in {"idle", "waiting", "got", "running", "applying", "done"}
  PROVE  /\ [agent EXCEPT ![d].at = at] \in [Devices -> Loop]
         /\ [agent EXCEPT ![d].at = at, ![d].exit = exit] \in [Devices -> Loop]
<1>1. agent[d] \in Loop /\ agent \in [Devices -> Loop]
  BY DEF TypeOK, Loop
<1>2. [agent EXCEPT ![d].at = at] \in [Devices -> Loop]
  BY <1>1 DEF Loop
<1> DEFINE moved == [agent EXCEPT ![d].at = at]
<1>3. moved \in [Devices -> Loop] /\ moved[d] \in Loop
  BY <1>2
<1>4. [moved EXCEPT ![d].exit = exit] \in [Devices -> Loop]
  <2> HIDE DEF moved
  <2> QED BY <1>3 DEF Loop
<1> QED
  BY <1>2, <1>4

\* The steps of an agent keep the types.  That it holds a job, and that an
\* apply has a fingerprint, is part of the invariant.
LEMMA AgentStepType ==
  ASSUME TypeOK, HeldWasDelivered, NEW d \in Devices, AgentStep(d)
  PROVE  TypeOK'
<1> USE DEF Loop
<1> DEFINE j == agent[d].job
<1>0. /\ [agent EXCEPT ![d].at = "applying"] \in [Devices -> Loop]
      /\ \A exit \in {0, 1} :
           [agent EXCEPT ![d].at = "done", ![d].exit = exit] \in [Devices -> Loop]
  BY LoopType
<1>1. /\ agent[d] \in Loop /\ j \in JobId /\ WasDelivered(j)
      /\ job[j] \in Row /\ tunnels[d] \subseteq JobId
  <2>1. agent[d].at \notin {"idle", "waiting"}
    BY DEF AgentStep, Started, Prepare, Apply, Perform, Finished
  <2>2. j # NoJob /\ WasDelivered(j)
    BY <2>1 DEF HeldWasDelivered
  <2>3. agent[d] \in Loop
    BY AgentType
  <2>4. j \in JobId
    BY <2>2, <2>3
  <2> QED
    BY <2>2, <2>3, <2>4 DEF TypeOK
<1>2. CASE Started(d)
  <2>1. job' \in [JobId -> Row] /\ unit' \in [Workers -> Unit]
    <3>1. CASE Write(j, [job[j] EXCEPT !.status = "RUNNING"])
      <4>1. [job[j] EXCEPT !.status = "RUNNING"] \in Row
        BY <1>1 DEF Row, Status, Open, Active
      <4> QED
        BY <1>1, <3>1, <4>1, WriteType
    <3> QED
      BY <1>2, <3>1 DEF Started, TypeOK
  <2>2. agent' \in [Devices -> Loop] /\ tunnels' \in [Devices -> SUBSET JobId]
    BY <1>1, <1>2, FreeType DEF Started, TypeOK
  <2> QED
    BY <1>2, <2>1, <2>2 DEF Started, TypeOK
<1>3. CASE Prepare(d)
  <2>1. agent' \in [Devices -> Loop]
    <3>1. \/ agent' = [agent EXCEPT ![d].at = "done", ![d].exit = 1]
          \/ agent' = [agent EXCEPT ![d].at = "applying"]
      BY <1>3 DEF Prepare
    <3> QED BY <3>1, <1>0
  <2>2. applied' \in [Devices -> Specs \cup {Unknown}]
    BY <1>3 DEF Prepare, TypeOK
  <2> QED
    BY <1>3, <2>1, <2>2 DEF Prepare, TypeOK
<1>4. CASE Apply(d)
  <2>1. agent' \in [Devices -> Loop]
    <3>1. PICK exit \in {0, 1} : agent' = [agent EXCEPT ![d].at = "done", ![d].exit = exit]
      BY <1>4 DEF Apply
    <3>2. [agent EXCEPT ![d].at = "done", ![d].exit = exit] \in [Devices -> Loop]
      BY <1>0, <3>1
    <3> QED BY <3>1, <3>2
  <2>2. job[j].type = "APPLY_CONFIG" => job[j].hash \in Specs
    BY <1>1 DEF WasDelivered, Row
  <2>3. applied' \in [Devices -> Specs \cup {Unknown}]
    BY <1>4, <2>2 DEF Apply, TypeOK
  <2> QED
    BY <1>4, <2>1, <2>3 DEF Apply, TypeOK
<1>5. CASE Perform(d)
  <2>1. agent' \in [Devices -> Loop]
    <3>1. PICK exit \in {0, 1} : agent' = [agent EXCEPT ![d].at = "done", ![d].exit = exit]
      BY <1>5 DEF Perform
    <3>2. [agent EXCEPT ![d].at = "done", ![d].exit = exit] \in [Devices -> Loop]
      BY <1>0, <3>1
    <3> QED BY <3>1, <3>2
  <2> QED
    BY <1>5, <2>1 DEF Perform, TypeOK
<1>6. CASE Finished(d)
  <2>1. unit' \in [Workers -> Unit] /\ alerts' \subseteq JobId
    <3>1. PostFinished(d, j, agent[d].exit, TRUE) /\ agent[d].exit \in {0, 1}
      BY <1>1, <1>6 DEF Finished
    <3> QED
      BY <1>1, <3>1, PostFinishedType
  <2>2. agent' \in [Devices -> Loop] /\ tunnels' \in [Devices -> SUBSET JobId]
    BY <1>6, FreeType DEF Finished, TypeOK, Free
  <2> QED
    BY <1>6, <2>1, <2>2 DEF Finished, TypeOK
<1> QED
  BY <1>2, <1>3, <1>4, <1>5, <1>6 DEF AgentStep

\* The first half of a check-in keeps the types.
LEMMA CheckinType ==
  ASSUME TypeOK, NEW d \in Devices, NEW t \in Threads, Checkin(d, t)
  PROVE  TypeOK'
<1> USE DEF Loop
<1> DEFINE stuck == {j \in Stuck : job[j].dev = d}
           view == [j \in JobId |-> IF j \in stuck THEN TimedOut(stuck)[j] ELSE job[j]]
<1>1. stuck \subseteq JobId /\ FinalFailures(stuck) \subseteq JobId
  BY DEF Stuck, FinalFailures
<1>2. TimedOut(stuck) \in [JobId -> Row]
  BY <1>1, TimedOutType
<1>3. view \in [JobId -> Row]
  BY <1>2 DEF TypeOK
<1>4. unit' \in [Workers -> Unit]
  <2>1. CASE OpenUnit(t, "converged", d, TimedOut(stuck), TRUE)
    BY <1>2, <2>1, OpenUnitType DEF Workers
  <2>2. ASSUME NEW r \in Drift(view, d), NEW n \in NextId,
               OpenUnit(t, "converged", d, [TimedOut(stuck) EXCEPT ![n] = r], TRUE)
        PROVE  unit' \in [Workers -> Unit]
    <3>1. r \in Row
      BY <1>3, DriftType
    <3>2. [TimedOut(stuck) EXCEPT ![n] = r] \in [JobId -> Row]
      BY <1>2, <3>1
    <3> QED
      BY <2>2, <3>2, OpenUnitType DEF Workers
  <2> QED
    BY <2>1, <2>2 DEF Checkin
<1>5. agent' \in [Devices -> Loop]
  BY DEF Checkin, TypeOK
<1> QED
  BY <1>1, <1>4, <1>5 DEF Checkin, TypeOK

\* A request of an operator keeps the types.
LEMMA EnqueueType ==
  ASSUME TypeOK, NEW d \in Devices, NEW type \in JobType, NEW after \in 0..MaxTime,
         NEW grouped \in BOOLEAN, NEW t, Enqueue(d, type, after, grouped, t)
  PROVE  TypeOK'
<1>1. t \in Workers
  BY DEF Enqueue, Workers
<1>2. ASSUME NEW n \in NextId,
             OpenUnit(t, "queued", d,
                      [Clean EXCEPT ![n] = NewRow(d, type, 1, after, FALSE)], FALSE)
      PROVE  unit' \in [Workers -> Unit]
  <2>1. NewRow(d, type, 1, after, FALSE) \in Row
    BY NewRowType, Bounds
  <2>2. [Clean EXCEPT ![n] = NewRow(d, type, 1, after, FALSE)] \in [JobId -> Row]
    BY <2>1, NoRowType
  <2> QED
    BY <1>1, <1>2, <2>2, OpenUnitType
<1>3. ASSUME NEW j \in JobId,
             OpenUnit(t, "queued", d,
                      [Clean EXCEPT ![j] = [job[j] EXCEPT !.after = after]], FALSE)
      PROVE  unit' \in [Workers -> Unit]
  <2>1. [job[j] EXCEPT !.after = after] \in Row
    <3>1. job[j] \in Row
      BY DEF TypeOK
    <3> QED BY <3>1 DEF Row
  <2>2. [Clean EXCEPT ![j] = [job[j] EXCEPT !.after = after]] \in [JobId -> Row]
    BY <2>1, NoRowType
  <2> QED
    BY <1>1, <1>3, <2>2, OpenUnitType
<1>4. unit' \in [Workers -> Unit]
  BY <1>2, <1>3 DEF Enqueue
<1> QED
  BY <1>4 DEF Enqueue, TypeOK

\* The other requests of operators, the schedulers, the faults and the
\* passage of time keep the types.
Surroundings ==
  \/ \E d \in Devices : Crash(d) \/ OpenTunnel(d) \/ ChangeSpec(d) \/ EditDevice(d)
  \/ \E d \in Devices, j \in JobId : TunnelFinished(d, j)
  \/ \E j \in JobId : CancelJob(j) \/ CloseSession(j) \/ Prune(j) \/ Elapse(j)
  \/ Sweep \/ ServerRestart \/ Tick

LEMMA SurroundingsType ==
  ASSUME TypeOK, Surroundings
  PROVE  TypeOK'
<1> USE DEF Loop
<1>1. ASSUME NEW d \in Devices, Crash(d) PROVE TypeOK'
  <2>1. unit' \in [Workers -> Unit]
    <3>1. ASSUME NEW t \in Workers PROVE [unit[t] EXCEPT !.awaited = FALSE] \in Unit
      <4>1. unit[t] \in Unit
        BY <3>1 DEF TypeOK
      <4> QED BY <4>1 DEF Unit
    <3> QED
      BY <1>1, <3>1 DEF Crash, TypeOK
  <2>2. agent' \in [Devices -> Loop] /\ tunnels' \in [Devices -> SUBSET JobId]
    BY <1>1, FreeType DEF Crash, TypeOK
  <2> QED
    BY <1>1, <2>1, <2>2 DEF Crash, TypeOK
<1>2. ASSUME NEW d \in Devices, OpenTunnel(d) PROVE TypeOK'
  <2>1. NewRow(d, "OPEN_TUNNEL", 1, 0, FALSE) \in Row
    BY NewRowType, Bounds DEF JobType
  <2>2. ASSUME NEW j \in JobId PROVE Move(job[j], "CANCELLED") \in Row
    BY <2>2, MoveType DEF TypeOK, Status, Terminal
  <2>3. job' \in [JobId -> Row]
    BY <1>2, <2>1, <2>2 DEF OpenTunnel, TypeOK
  <2>4. unit' \in [Workers -> Unit]
    BY <1>2, InvalidateType DEF OpenTunnel
  <2> QED
    BY <1>2, <2>3, <2>4 DEF OpenTunnel, TypeOK
<1>3. ASSUME NEW d \in Devices, ChangeSpec(d) PROVE TypeOK'
  BY <1>3 DEF ChangeSpec, TypeOK
<1>4. ASSUME NEW d \in Devices, EditDevice(d) PROVE TypeOK'
  <2>1. unit' \in [Workers -> Unit]
    BY <1>4, InvalidateType DEF EditDevice
  <2>2. spec' \in [Devices -> Specs \cup {NoPlays}]
    BY <1>4 DEF EditDevice, TypeOK
  <2> QED
    BY <1>4, <2>1, <2>2 DEF EditDevice, TypeOK
<1>5. ASSUME NEW d \in Devices, NEW j \in JobId, TunnelFinished(d, j) PROVE TypeOK'
  <2>1. PICK exit \in {0, 1} : PostFinished(d, j, exit, FALSE)
    BY <1>5 DEF TunnelFinished
  <2>2. unit' \in [Workers -> Unit] /\ alerts' \subseteq JobId
    BY <1>5, <2>1, PostFinishedType
  <2>3. tunnels' \in [Devices -> SUBSET JobId]
    BY <1>5 DEF TunnelFinished, TypeOK
  <2> QED
    BY <1>5, <2>2, <2>3 DEF TunnelFinished, TypeOK
<1>6. ASSUME NEW j \in JobId, CancelJob(j) \/ CloseSession(j) PROVE TypeOK'
  <2>1. Move(job[j], "CANCELLED") \in Row
    BY <1>6, MoveType DEF TypeOK, Status, Terminal
  <2> QED
    BY <1>6, <2>1, WriteType DEF CancelJob, CloseSession, TypeOK
<1>7. ASSUME NEW k \in JobId, Prune(k) PROVE TypeOK'
  <2>1. ASSUME NEW j \in JobId PROVE [job[j] EXCEPT !.status = "DELETED"] \in Row
    <3>1. job[j] \in Row
      BY <2>1 DEF TypeOK
    <3> QED BY <3>1 DEF Row, Status
  <2>2. job' \in [JobId -> Row]
    BY <1>7, <2>1 DEF Prune, TypeOK
  <2> QED
    BY <1>7, <2>2, InvalidateType DEF Prune, TypeOK
<1>8. ASSUME NEW j \in JobId, Elapse(j) PROVE TypeOK'
  <2>1. [job[j] EXCEPT !.late = TRUE] \in Row
    <3>1. job[j] \in Row
      BY <1>8 DEF TypeOK
    <3> QED BY <3>1 DEF Row
  <2>2. job' = [job EXCEPT ![j] = [job[j] EXCEPT !.late = TRUE]]
    BY <1>8 DEF Elapse, TypeOK
  <2> QED
    BY <1>8, <2>1, <2>2 DEF Elapse, TypeOK
<1>9. CASE Sweep
  <2>1. Stuck \subseteq JobId /\ FinalFailures(Stuck) \subseteq JobId
    BY DEF Stuck, FinalFailures
  <2>2. TimedOut(Stuck) \in [JobId -> Row]
    BY <2>1, TimedOutType
  <2>3. NoRow.dev \in Devices /\ Scheduler \in Workers
    BY NoRowType DEF Row, Workers
  <2>4. unit' \in [Workers -> Unit]
    BY <1>9, <2>2, <2>3, OpenUnitType DEF Sweep
  <2> QED
    BY <1>9, <2>1, <2>4 DEF Sweep, TypeOK
<1>10. CASE ServerRestart
  <2>1. ASSUME NEW j \in JobId PROVE Move(job[j], "CANCELLED") \in Row
    BY <2>1, MoveType DEF TypeOK, Status, Terminal
  <2>2. job' \in [JobId -> Row]
    BY <1>10, <2>1 DEF ServerRestart, TypeOK
  <2>3. agent' \in [Devices -> Loop] /\ unit' \in [Workers -> Unit]
    BY <1>10, FreeType, NoRowType DEF ServerRestart, TypeOK
  <2> QED
    BY <1>10, <2>2, <2>3 DEF ServerRestart, TypeOK
<1>11. CASE Tick
  BY <1>11, Bounds DEF Tick, TypeOK
<1> QED
  BY <1>1, <1>2, <1>3, <1>4, <1>5, <1>6, <1>7, <1>8, <1>9, <1>10, <1>11 DEF Surroundings

\* The steps of Next by the lemma that treats them.
LEMMA Steps ==
  ASSUME TypeOK, Next
  PROVE  \/ \E d \in Devices, t \in Threads : Checkin(d, t)
         \/ \E d \in Devices, type \in JobType \ {"OPEN_TUNNEL"}, after \in 0..MaxTime,
               grouped \in BOOLEAN, t \in Threads :
              Enqueue(d, type, after, grouped, t)
         \/ \E t \in Workers : Pick(t) \/ Commit(t) \/ Rollback(t) \/ GiveUp(t)
         \/ \E d \in Devices : AgentStep(d)
         \/ Surroundings
<1>1. CASE \E d \in Devices, t \in Threads : Operate(d, t)
  <2>1. PICK d \in Devices, t \in Threads : Operate(d, t)
    BY <1>1
  <2>2. CASE \E type \in OperatorTypes \ {"APPLY_CONFIG", "OPEN_TUNNEL"} :
               Enqueue(d, type, 0, FALSE, t)
    BY <2>2, Bounds, InputAssumption
  <2>3. CASE \E after \in {0} \cup (clock + 1)..MaxTime, grouped \in BOOLEAN :
               Enqueue(d, "APPLY_CONFIG", after, grouped, t)
    <3>1. PICK after \in {0} \cup (clock + 1)..MaxTime, grouped \in BOOLEAN :
            Enqueue(d, "APPLY_CONFIG", after, grouped, t)
      BY <2>3
    <3>2. after \in 0..MaxTime
      BY <3>1, Bounds DEF TypeOK
    <3>3. "APPLY_CONFIG" \in JobType \ {"OPEN_TUNNEL"}
      BY DEF JobType
    <3> QED
      BY <3>1, <3>2, <3>3, Bounds
  <2> QED
    BY <2>1, <2>2, <2>3 DEF Operate
<1>2. CASE \E j \in JobId, t \in Threads : Rerun(j, t)
  <2>1. PICK j \in JobId, t \in Threads : Rerun(j, t)
    BY <1>2
  <2>2. job[j].dev \in Devices
    BY DEF TypeOK, Row
  <2>3. "APPLY_CONFIG" \in JobType \ {"OPEN_TUNNEL"} /\ FALSE \in BOOLEAN
    BY DEF JobType
  <2> QED
    BY <2>1, <2>2, <2>3, Bounds, ActorAssumption DEF Rerun
<1> QED
  BY <1>1, <1>2 DEF Next, Surroundings

\* Types are preserved by every step.
LEMMA TypeStep ==
  ASSUME TypeOK, HeldWasDelivered, [Next]_vars
  PROVE  TypeOK'
<1>1. CASE Next
  BY <1>1, Steps, CheckinType, EnqueueType, ServerType, AgentStepType, SurroundingsType
<1>2. CASE UNCHANGED vars
  BY <1>2 DEF vars, TypeOK
<1> QED
  BY <1>1, <1>2

-----------------------------------------------------------------------------
(* The invariant of the pending writes *)

\* A unit of work that survives the writes of S writes nothing in S.
LEMMA InvalidateKeeps ==
  ASSUME TypeOK, WritesAreCurrent, AnswersAreOffers, NEW S, NEW D,
         NEW t \in Workers, unit'[t] = Invalidate(S, D)[t],
         \A j \in JobId : j \notin S => job'[j] = job[j]
  PROVE  /\ \A j \in JobId : Dirty(t, j)' => Follows(job[j], unit[t].row[j])'
         /\ unit'[t].reply # NoJob => unit'[t].row[unit'[t].reply].status = "DELIVERED"
<1>1. CASE unit'[t] = unit[t] /\ \A j \in S : ~Dirty(t, j)
  <2>1. ASSUME NEW j \in JobId, Dirty(t, j)'
        PROVE  Follows(job[j], unit[t].row[j])'
    <3>1. Dirty(t, j)
      BY <1>1, <2>1 DEF Dirty
    <3>2. job'[j] = job[j] /\ unit'[t].row[j] = unit[t].row[j]
      BY <1>1, <3>1
    <3>3. Follows(job[j], unit[t].row[j])
      BY <3>1 DEF WritesAreCurrent
    <3> QED
      BY <3>2, <3>3 DEF Follows
  <2> QED
    BY <1>1, <2>1 DEF AnswersAreOffers
<1>2. CASE unit'[t].row = Clean /\ unit'[t].reply = NoJob
  BY <1>2, NoRowType DEF Dirty
<1> QED
  BY <1>1, <1>2, InvalidateType

\* A request that is one step leaves every surviving unit current.
LEMMA WriteKeeps ==
  ASSUME TypeOK, WritesAreCurrent, AnswersAreOffers, NEW j \in JobId, NEW r, Write(j, r)
  PROVE  WritesAreCurrent' /\ AnswersAreOffers'
<1>1. \A k \in JobId : k \notin {j} => job'[k] = job[k]
  BY DEF Write, TypeOK
<1>2. \A t \in Workers : unit'[t] = Invalidate({j}, {})[t]
  BY DEF Write
<1> QED
  BY <1>1, <1>2, InvalidateKeeps DEF WritesAreCurrent, AnswersAreOffers

\* A unit of work opens with writes that follow what it read.
LEMMA OpenUnitKeeps ==
  ASSUME TypeOK, WritesAreCurrent, AnswersAreOffers, UNCHANGED job,
         NEW t \in Workers, NEW step, NEW d, NEW rows \in [JobId -> Row], NEW awaited,
         OpenUnit(t, step, d, rows, awaited),
         \A j \in JobId : rows[j].status # "ABSENT" => Follows(job[j], rows[j])
  PROVE  WritesAreCurrent' /\ AnswersAreOffers'
<1> DEFINE new == [step |-> step, dev |-> d, row |-> rows, reply |-> NoJob,
                   awaited |-> awaited, stale |-> FALSE]
<1>0. unit' = [unit EXCEPT ![t] = new] /\ unit \in [Workers -> Unit]
  BY DEF OpenUnit, TypeOK
<1>1. ASSUME NEW w \in Workers
      PROVE  \/ unit'[w] = unit[w]
             \/ w = t /\ unit'[w].row = rows /\ unit'[w].reply = NoJob
  <2>1. CASE w = t
    <3>1. unit'[w] = new
      <4> HIDE DEF new
      <4> QED BY <1>0, <2>1
    <3> QED BY <2>1, <3>1
  <2>2. CASE w # t
    BY <1>0, <2>2
  <2> QED
    BY <2>1, <2>2
<1>2. ASSUME NEW w \in Workers, NEW j \in JobId, Dirty(w, j)'
      PROVE  Follows(job[j], unit[w].row[j])'
  <2>1. Follows(job[j], unit'[w].row[j])
    BY <1>1, <1>2 DEF Dirty, WritesAreCurrent
  <2> QED
    BY <2>1 DEF Follows
<1> QED
  BY <1>1, <1>2 DEF WritesAreCurrent, AnswersAreOffers

\* Units of work that keep their rows stay current while no job moves.
LEMMA SameWrites ==
  ASSUME WritesAreCurrent, AnswersAreOffers,
         \A j \in JobId : /\ job'[j].status = job[j].status /\ job'[j].type = job[j].type
                          /\ job'[j].dev = job[j].dev /\ job'[j].hash = job[j].hash,
         \A t \in Workers : \/ unit'[t].row = unit[t].row /\ unit'[t].reply = unit[t].reply
                            \/ unit'[t] = Idle
  PROVE  WritesAreCurrent' /\ AnswersAreOffers'
<1>1. ASSUME NEW t \in Workers, NEW j \in JobId, Dirty(t, j)'
      PROVE  Follows(job[j], unit[t].row[j])'
  <2>1. unit'[t].row = unit[t].row /\ Dirty(t, j)
    BY <1>1, NoRowType DEF Dirty
  <2>2. Follows(job[j], unit[t].row[j])
    BY <2>1 DEF WritesAreCurrent
  <2> QED
    BY <2>1, <2>2 DEF Follows
<1> QED
  BY <1>1, NoRowType DEF WritesAreCurrent, AnswersAreOffers

\* Every pending write that the server's steps leave is current.
LEMMA ServerKeeps ==
  ASSUME TypeOK, WritesAreCurrent, AnswersAreOffers, NEW t \in Workers,
         Pick(t) \/ Commit(t) \/ Rollback(t) \/ GiveUp(t)
  PROVE  WritesAreCurrent' /\ AnswersAreOffers'
<1>0. unit[t] \in Unit /\ unit[t].row \in [JobId -> Row] /\ unit \in [Workers -> Unit]
  BY DEF TypeOK, Unit
<1>1. CASE Pick(t)
  <2> DEFINE view == View(t)
             next == NextPending(view, unit[t].dev)
  <2>1. view \in [JobId -> Row] /\ next \subseteq JobId
    BY ViewType DEF NextPending
  <2>2. CASE Answer(t, unit[t].row, NoJob)
    <3>1. ASSUME NEW w \in Workers, NEW k \in JobId, Dirty(w, k)'
          PROVE  Follows(job[k], unit'[w].row[k])
      <4>1. unit'[w].row = unit[w].row
        BY <1>0, <2>2, AnswerType
      <4> QED
        BY <3>1, <4>1 DEF Dirty, WritesAreCurrent
    <3>2. job' = job
      BY <1>1 DEF Pick
    <3>3. WritesAreCurrent'
      BY <3>1, <3>2 DEF WritesAreCurrent, Follows
    <3>4. AnswersAreOffers'
      BY <1>0, <2>2, AnswerType DEF AnswersAreOffers
    <3> QED
      BY <3>3, <3>4
  <2>3. ASSUME NEW j \in next, NEW r \in Row,
               \/ r = Move(view[j], "CANCELLED")
               \/ r = Handed(view[j]) /\ ~Undeliverable(view[j])
        PROVE  Follows(job[j], r) /\ r.status \in {"CANCELLED", "DELIVERED"}
    <3>1. j \in JobId /\ view[j] \in Row /\ view[j].status = "PENDING" /\ job[j] \in Row
      BY <2>1, <2>3 DEF NextPending, TypeOK
    <3>2. /\ job[j].status \in {"ABSENT", "PENDING"}
          /\ job[j].status # "ABSENT" => view[j].dev = job[j].dev /\ view[j].type = job[j].type
      <4>1. CASE Dirty(t, j)
        <5>1. view[j] = unit[t].row[j] /\ Follows(job[j], view[j])
          BY <3>1, <4>1 DEF View, WritesAreCurrent
        <5> QED
          BY <3>1, <5>1 DEF Follows, Moves, Active
      <4>2. CASE ~Dirty(t, j)
        BY <3>1, <4>2 DEF View
      <4> QED
        BY <4>1, <4>2
    <3>3. r.status \in {"CANCELLED", "DELIVERED"} /\ r.dev = view[j].dev /\ r.type = view[j].type
      BY <2>3, <3>1 DEF Handed, Move, Row
    <3>4. r.status = "DELIVERED" /\ r.type = "APPLY_CONFIG" => r.hash # NoHash
      <4>1. CASE r = Move(view[j], "CANCELLED")
        BY <3>1, <4>1 DEF Move, Row
      <4>2. CASE r = Handed(view[j]) /\ ~Undeliverable(view[j])
        <5>1. view[j].type = "APPLY_CONFIG" => spec[view[j].dev] \in Specs
          BY <3>1, <4>2 DEF Undeliverable, TypeOK, Row
        <5>2. view[j].type = "APPLY_CONFIG" => r.hash = spec[view[j].dev]
          BY <3>1, <4>2 DEF Handed, Move, Row
        <5> QED
          BY <3>3, <5>1, <5>2, SpecAssumption
      <4> QED
        BY <2>3, <4>1, <4>2
    <3> QED
      BY <3>2, <3>3, <3>4 DEF Follows, Moves, Active
  <2>4. ASSUME NEW j \in next, NEW r \in Row, Follows(job[j], r),
               NEW reply \in {j, NoJob}, reply = j => r.status = "DELIVERED",
               Answer(t, [unit[t].row EXCEPT ![j] = r], reply)
        PROVE  WritesAreCurrent' /\ AnswersAreOffers'
    <3> DEFINE rows == [unit[t].row EXCEPT ![j] = r]
    <3>0. rows \in [JobId -> Row] /\ reply \in JobId \cup {NoJob}
      BY <1>0, <2>1, <2>4
    <3>1. /\ unit'[t].row = rows /\ unit'[t].reply = reply
          /\ \A w \in Workers : w # t => unit'[w] = unit[w]
          /\ job' = job
      <4>1. Answer(t, rows, reply)
        BY <2>4
      <4>2. job' = job
        BY <1>1 DEF Pick
      <4> HIDE DEF rows
      <4> QED BY <3>0, <4>1, <4>2, AnswerType
    <3>2. ASSUME NEW w \in Workers, NEW k \in JobId, Dirty(w, k)'
          PROVE  Follows(job[k], unit'[w].row[k])
      <4>1. CASE w = t /\ k = j
        BY <1>0, <2>4, <3>1, <4>1
      <4>2. CASE w = t /\ k # j
        BY <1>0, <2>1, <3>1, <3>2, <4>2 DEF Dirty, WritesAreCurrent
      <4>3. CASE w # t
        BY <3>1, <3>2, <4>3 DEF Dirty, WritesAreCurrent
      <4> QED
        BY <4>1, <4>2, <4>3
    <3>3. WritesAreCurrent'
      BY <3>1, <3>2 DEF WritesAreCurrent, Follows
    <3>4. ASSUME NEW w \in Workers, unit'[w].reply # NoJob
          PROVE  unit'[w].row[unit'[w].reply].status = "DELIVERED"
      <4>1. CASE w = t
        BY <1>0, <2>1, <2>4, <3>1, <3>4, <4>1
      <4>2. CASE w # t
        BY <3>1, <3>4, <4>2 DEF AnswersAreOffers
      <4> QED
        BY <4>1, <4>2
    <3> QED
      BY <3>3, <3>4 DEF AnswersAreOffers
  <2>5. ASSUME NEW j \in next,
               Answer(t, [unit[t].row EXCEPT ![j] = Move(view[j], "CANCELLED")], NoJob)
        PROVE  WritesAreCurrent' /\ AnswersAreOffers'
    <3> DEFINE r == Move(view[j], "CANCELLED")
    <3>1. r \in Row
      BY <2>1, <2>5, MoveType DEF Status, Terminal
    <3>2. Follows(job[j], r) /\ NoJob # j
      BY <2>1, <2>3, <2>5, <3>1, Bounds
    <3> QED
      <4> HIDE DEF r
      <4> QED BY <2>4, <2>5, <3>1, <3>2 DEF r
  <2>6. ASSUME NEW j \in next, ~Undeliverable(view[j]),
               Answer(t, [unit[t].row EXCEPT ![j] = Handed(view[j])], j)
        PROVE  WritesAreCurrent' /\ AnswersAreOffers'
    <3> DEFINE r == Handed(view[j])
    <3>1. r \in Row /\ r.status = "DELIVERED"
      BY <2>1, <2>6, HandedType
    <3>2. Follows(job[j], r)
      BY <2>3, <2>6, <3>1
    <3> QED
      BY <2>4, <2>6, <3>1, <3>2
  <2> QED
    BY <1>1, <2>2, <2>5, <2>6 DEF Pick
<1>2. CASE Commit(t)
  <2> DEFINE S == {j \in JobId : Dirty(t, j)}
             D == {d \in Devices : Touches(t, d)}
  <2>1. \A j \in JobId : j \notin S => job'[j] = job[j]
    BY <1>2 DEF Commit, View
  <2>2. unit' = [Invalidate(S, D) EXCEPT ![t] = Idle]
    BY <1>2 DEF Commit
  <2>3. ASSUME NEW w \in Workers
        PROVE  /\ \A j \in JobId : Dirty(w, j)' => Follows(job[j], unit[w].row[j])'
               /\ unit'[w].reply # NoJob => unit'[w].row[unit'[w].reply].status = "DELIVERED"
    <3>1. CASE w = t
      <4>1. unit'[w] = Idle
        BY <2>2, <3>1, InvalidateType
      <4> QED
        BY <4>1, NoRowType DEF Dirty
    <3>2. CASE w # t
      <4>1. unit'[w] = Invalidate(S, D)[w]
        BY <2>2, <2>3, <3>2, InvalidateType
      <4> QED
        <5> HIDE DEF S, D
        <5> QED BY <2>1, <2>3, <4>1, InvalidateKeeps
    <3> QED
      BY <3>1, <3>2
  <2> QED
    BY <2>3 DEF WritesAreCurrent, AnswersAreOffers
<1>3. CASE Rollback(t)
  <2>1. \A w \in Workers : unit'[w] = unit[w] \/ unit'[w] = Idle
    BY <1>0, <1>3 DEF Rollback
  <2> QED
    BY <1>3, <2>1, SameWrites DEF Rollback
<1>4. CASE GiveUp(t)
  <2>1. \A w \in Workers : unit'[w].row = unit[w].row /\ unit'[w].reply = unit[w].reply
    BY <1>0, <1>4 DEF GiveUp, Unit
  <2> QED
    BY <1>4, <2>1, SameWrites DEF GiveUp
<1> QED
  BY <1>1, <1>2, <1>3, <1>4

\* A check-in, a request, a report or a sweep reads before it writes.
LEMMA TimedOutFollows ==
  ASSUME TypeOK, NEW S \in SUBSET Stuck, NEW j \in JobId,
         TimedOut(S)[j].status # "ABSENT"
  PROVE  Follows(job[j], TimedOut(S)[j])
<1>1. j \in S /\ job[j] \in Row /\ job[j].status \in Active
  BY TimedOutType DEF TypeOK, Stuck
<1>2. TimedOut(S)[j] = Move(job[j], "TIMED_OUT")
  BY <1>1 DEF TimedOut
<1> QED
  BY <1>1, <1>2 DEF Follows, Move, Moves, Active, Row

\* A new row is of a job that does not exist yet.
LEMMA NewFollows ==
  ASSUME TypeOK, NEW n \in NextId, NEW r, r.status = "PENDING"
  PROVE  n \in JobId /\ Follows(job[n], r)
<1>1. n \in JobId /\ job[n].status = "ABSENT"
  <2>1. n \in JobId /\ n >= n
    BY BoundsAssumption DEF NextId, JobId
  <2> QED
    BY <2>1 DEF NextId, Unused
<1> QED
  BY <1>1 DEF Follows, Moves, Active

\* The pending writes of a check-in are current.
LEMMA CheckinKeeps ==
  ASSUME TypeOK, WritesAreCurrent, AnswersAreOffers,
         NEW d \in Devices, NEW t \in Threads, Checkin(d, t)
  PROVE  WritesAreCurrent' /\ AnswersAreOffers'
<1> DEFINE stuck == {j \in Stuck : job[j].dev = d}
           view == [j \in JobId |-> IF j \in stuck THEN TimedOut(stuck)[j] ELSE job[j]]
<1>1. stuck \subseteq Stuck /\ TimedOut(stuck) \in [JobId -> Row] /\ t \in Workers
  BY TimedOutType DEF Stuck, Workers
<1>2. view \in [JobId -> Row]
  BY <1>1 DEF TypeOK
<1>3. UNCHANGED job
  BY DEF Checkin
<1>4. CASE OpenUnit(t, "converged", d, TimedOut(stuck), TRUE)
  <2> HIDE DEF stuck
  <2> QED BY <1>1, <1>3, <1>4, TimedOutFollows, OpenUnitKeeps
<1>5. ASSUME NEW r \in Drift(view, d), NEW n \in NextId,
             OpenUnit(t, "converged", d, [TimedOut(stuck) EXCEPT ![n] = r], TRUE)
      PROVE  WritesAreCurrent' /\ AnswersAreOffers'
  <2> DEFINE rows == [TimedOut(stuck) EXCEPT ![n] = r]
  <2>1. r \in Row /\ r.status = "PENDING"
    BY <1>2, DriftType
  <2>2. rows \in [JobId -> Row]
    BY <1>1, <2>1
  <2>3. ASSUME NEW j \in JobId, rows[j].status # "ABSENT"
        PROVE  Follows(job[j], rows[j])
    <3>1. CASE j = n
      BY <1>1, <2>1, <3>1, NewFollows
    <3>2. CASE j # n
      <4>1. rows[j] = TimedOut(stuck)[j]
        BY <1>1, <3>2
      <4> HIDE DEF stuck, rows
      <4> QED BY <1>1, <2>3, <4>1, TimedOutFollows
    <3> QED
      BY <3>1, <3>2
  <2>4. OpenUnit(t, "converged", d, rows, TRUE)
    BY <1>5
  <2> HIDE DEF rows
  <2> QED
    BY <1>1, <1>3, <2>2, <2>3, <2>4, OpenUnitKeeps
<1> QED
  BY <1>4, <1>5 DEF Checkin

\* So are those of a request.
LEMMA EnqueueKeeps ==
  ASSUME TypeOK, WritesAreCurrent, AnswersAreOffers,
         NEW d \in Devices, NEW type \in JobType, NEW after \in 0..MaxTime,
         NEW grouped \in BOOLEAN, NEW t, Enqueue(d, type, after, grouped, t)
  PROVE  WritesAreCurrent' /\ AnswersAreOffers'
<1>1. ASSUME NEW j \in JobId, NEW r \in Row, Follows(job[j], r),
             OpenUnit(t, "queued", d, [Clean EXCEPT ![j] = r], FALSE)
      PROVE  WritesAreCurrent' /\ AnswersAreOffers'
  <2> DEFINE rows == [Clean EXCEPT ![j] = r]
  <2>1. rows \in [JobId -> Row]
    BY NoRowType
  <2>2. \A k \in JobId : rows[k].status # "ABSENT" => Follows(job[k], rows[k])
    BY <1>1, NoRowType
  <2>3. OpenUnit(t, "queued", d, rows, FALSE) /\ job' = job /\ t \in Workers
    BY <1>1 DEF Enqueue, Workers
  <2> HIDE DEF rows
  <2> QED
    BY <2>1, <2>2, <2>3, OpenUnitKeeps
<1>2. ASSUME NEW n \in NextId,
             OpenUnit(t, "queued", d,
                      [Clean EXCEPT ![n] = NewRow(d, type, 1, after, FALSE)], FALSE)
      PROVE  WritesAreCurrent' /\ AnswersAreOffers'
  <2> DEFINE r == NewRow(d, type, 1, after, FALSE)
  <2>1. r \in Row /\ r.status = "PENDING"
    BY NewRowType, Bounds
  <2> HIDE DEF r
  <2>2. n \in JobId /\ Follows(job[n], r)
    BY <2>1, NewFollows
  <2> QED
    BY <1>1, <1>2, <2>1, <2>2 DEF r
<1>3. ASSUME NEW j \in JobId, job[j].status = "PENDING",
             OpenUnit(t, "queued", d,
                      [Clean EXCEPT ![j] = [job[j] EXCEPT !.after = after]], FALSE)
      PROVE  WritesAreCurrent' /\ AnswersAreOffers'
  <2>1. job[j] \in Row
    BY DEF TypeOK
  <2>2. [job[j] EXCEPT !.after = after] \in Row
    BY <2>1 DEF Row
  <2>3. Follows(job[j], [job[j] EXCEPT !.after = after])
    BY <1>3, <2>1 DEF Follows, Moves, Active, Row
  <2> QED
    BY <1>1, <1>3, <2>2, <2>3
<1> QED
  BY <1>2, <1>3 DEF Enqueue

\* So is the verdict on a job that was delivered.
LEMMA PostFinishedKeeps ==
  ASSUME TypeOK, WritesAreCurrent, AnswersAreOffers,
         NEW d, NEW j \in JobId, NEW exit \in {0, 1}, NEW awaited,
         WasDelivered(j), PostFinished(d, j, exit, awaited), UNCHANGED job
  PROVE  WritesAreCurrent' /\ AnswersAreOffers'
<1>1. CASE UNCHANGED <<unit, alerts>>
  BY <1>1 DEF WritesAreCurrent, AnswersAreOffers, Dirty, Follows
<1>2. CASE ~UNCHANGED <<unit, alerts>>
  <2> DEFINE r == Move(job[j], IF exit = 0 THEN "SUCCEEDED" ELSE "FAILED")
             rows == [Clean EXCEPT ![j] = r]
  <2>1. PICK t \in Threads : OpenUnit(t, "finished", d, rows, awaited)
    BY <1>2 DEF PostFinished
  <2>2. job[j] \in Row /\ job[j].status \in Active
    BY <1>2 DEF PostFinished, Closed, WasDelivered, TypeOK, Row, Status, Open
  <2>3. r \in Row /\ r.status \in {"SUCCEEDED", "FAILED"}
    BY <2>2, MoveType DEF Status, Terminal
  <2>4. Follows(job[j], r)
    BY <2>2, <2>3 DEF Follows, Moves, Active, Move, Row
  <2>5. rows \in [JobId -> Row] /\ t \in Workers
    BY <2>3, NoRowType DEF Workers
  <2>6. \A k \in JobId : rows[k].status # "ABSENT" => Follows(job[k], rows[k])
    BY <2>4, NoRowType
  <2> HIDE DEF rows
  <2> QED
    BY <2>1, <2>5, <2>6, OpenUnitKeeps
<1> QED
  BY <1>1, <1>2

\* The steps of an agent leave every pending write current.
LEMMA AgentStepKeeps ==
  ASSUME TypeOK, QueueInv, NEW d \in Devices, AgentStep(d)
  PROVE  WritesAreCurrent' /\ AnswersAreOffers'
<1> USE DEF QueueInv
<1> DEFINE j == agent[d].job
<1>1. j \in JobId /\ WasDelivered(j) /\ j # NoJob
  <2>1. agent[d].at \notin {"idle", "waiting"}
    BY DEF AgentStep, Started, Prepare, Apply, Perform, Finished
  <2> QED
    BY <2>1, AgentType DEF HeldWasDelivered, Loop
<1>2. ASSUME UNCHANGED <<job, unit>> PROVE WritesAreCurrent' /\ AnswersAreOffers'
  BY <1>2 DEF WritesAreCurrent, AnswersAreOffers, Dirty, Follows
<1>3. CASE Started(d)
  BY <1>1, <1>2, <1>3, WriteKeeps DEF Started
<1>4. CASE Prepare(d) \/ Apply(d) \/ Perform(d)
  BY <1>2, <1>4 DEF Prepare, Apply, Perform
<1>5. CASE Finished(d)
  <2>1. PostFinished(d, j, agent[d].exit, TRUE) /\ UNCHANGED job
    BY <1>5 DEF Finished
  <2>2. agent[d].exit \in {0, 1}
    BY AgentType DEF Loop
  <2> QED
    BY <1>1, <2>1, <2>2, PostFinishedKeeps
<1> QED
  BY <1>3, <1>4, <1>5 DEF AgentStep

\* So do the other requests, the schedulers, the faults and time.
LEMMA SurroundingsKeeps ==
  ASSUME TypeOK, QueueInv, Surroundings
  PROVE  WritesAreCurrent' /\ AnswersAreOffers'
<1> USE DEF QueueInv
<1>1. ASSUME NEW d \in Devices, Crash(d) PROVE WritesAreCurrent' /\ AnswersAreOffers'
  <2>1. job' = job
    BY <1>1 DEF Crash
  <2>2. ASSUME NEW t \in Workers
        PROVE  unit'[t].row = unit[t].row /\ unit'[t].reply = unit[t].reply
    <3>1. unit[t] \in Unit
      BY <2>2 DEF TypeOK
    <3> QED BY <1>1, <2>2, <3>1 DEF Crash, Unit
  <2> QED
    BY <2>1, <2>2, SameWrites
<1>2. ASSUME NEW d \in Devices, OpenTunnel(d) PROVE WritesAreCurrent' /\ AnswersAreOffers'
  <2>1. PICK n \in NextId :
          /\ \A j \in JobId : j \notin {n} \cup Expired => job'[j] = job[j]
          /\ \A t \in Workers : unit'[t] = Invalidate({n} \cup Expired, {})[t]
    BY <1>2 DEF OpenTunnel
  <2> QED
    BY <2>1, InvalidateKeeps DEF WritesAreCurrent, AnswersAreOffers
<1>3. ASSUME UNCHANGED <<job, unit>> PROVE WritesAreCurrent' /\ AnswersAreOffers'
  BY <1>3 DEF WritesAreCurrent, AnswersAreOffers, Dirty, Follows
<1>4. ASSUME NEW d \in Devices, EditDevice(d) PROVE WritesAreCurrent' /\ AnswersAreOffers'
  <2>1. job' = job /\ \A t \in Workers : unit'[t] = Invalidate({}, {d})[t]
    BY <1>4 DEF EditDevice
  <2> QED
    BY <2>1, InvalidateKeeps DEF WritesAreCurrent, AnswersAreOffers
<1>5. ASSUME NEW d \in Devices, NEW j \in JobId, TunnelFinished(d, j)
      PROVE  WritesAreCurrent' /\ AnswersAreOffers'
  <2>1. PICK exit \in {0, 1} : PostFinished(d, j, exit, FALSE)
    BY <1>5 DEF TunnelFinished
  <2>2. WasDelivered(j) /\ UNCHANGED job
    BY <1>5 DEF TunnelFinished, HeldWasDelivered
  <2> QED
    BY <2>1, <2>2, PostFinishedKeeps
<1>6. ASSUME NEW j \in JobId, CancelJob(j) \/ CloseSession(j)
      PROVE  WritesAreCurrent' /\ AnswersAreOffers'
  BY <1>6, WriteKeeps DEF CancelJob, CloseSession
<1>7. ASSUME NEW k \in JobId, Prune(k) PROVE WritesAreCurrent' /\ AnswersAreOffers'
  <2> DEFINE old == {j \in 1..k : job[j].status \in Terminal}
  <2>1. \A j \in JobId : j \notin old => job'[j] = job[j]
    BY <1>7 DEF Prune
  <2>2. \A t \in Workers : unit'[t] = Invalidate(old, {})[t]
    BY <1>7 DEF Prune
  <2> HIDE DEF old
  <2> QED
    BY <2>1, <2>2, InvalidateKeeps DEF WritesAreCurrent, AnswersAreOffers
<1>8. ASSUME NEW j \in JobId, Elapse(j) PROVE WritesAreCurrent' /\ AnswersAreOffers'
  <2>1. ASSUME NEW k \in JobId
        PROVE  /\ job'[k].status = job[k].status /\ job'[k].type = job[k].type
               /\ job'[k].dev = job[k].dev /\ job'[k].hash = job[k].hash
    <3>1. job[k] \in Row /\ job[j] \in Row
      BY <1>8, <2>1 DEF TypeOK
    <3> QED
      BY <1>8, <3>1 DEF Elapse, TypeOK, Row
  <2>2. unit' = unit
    BY <1>8 DEF Elapse
  <2> QED
    BY <2>1, <2>2, SameWrites
<1>9. CASE Sweep
  <2>1. Stuck \subseteq JobId
    BY DEF Stuck
  <2>2. TimedOut(Stuck) \in [JobId -> Row]
    BY <2>1, TimedOutType
  <2>3. OpenUnit(Scheduler, "swept", NoRow.dev, TimedOut(Stuck), FALSE) /\ job' = job
    BY <1>9 DEF Sweep
  <2>4. \A j \in JobId : TimedOut(Stuck)[j].status # "ABSENT" =>
          Follows(job[j], TimedOut(Stuck)[j])
    BY TimedOutFollows
  <2>5. Scheduler \in Workers
    BY DEF Workers
  <2> QED
    BY <2>2, <2>3, <2>4, <2>5, OpenUnitKeeps
<1>10. CASE ServerRestart
  <2>1. \A t \in Workers : unit'[t] = Idle
    BY <1>10 DEF ServerRestart
  <2> QED
    BY <2>1, NoRowType DEF WritesAreCurrent, AnswersAreOffers, Dirty
<1> QED
  BY <1>1, <1>2, <1>3, <1>4, <1>5, <1>6, <1>7, <1>8, <1>9, <1>10
     DEF Surroundings, ChangeSpec, Tick

-----------------------------------------------------------------------------
(* How the row of a job may change in one step *)

\* Row r is what row s may become.
Evolves(s, r) ==
  \/ r = s
  \/ /\ <<s.status, r.status>> \in Moves
          \cup (Active \X (Active \cup {"CANCELLED"}))
          \cup (Terminal \X {"DELETED"})
     /\ s.status # "ABSENT" => r.dev = s.dev /\ r.type = s.type
     /\ s.status \notin {"ABSENT", "PENDING"} => r.hash = s.hash

\* Every row of the job table evolves.
Evolution == \A j \in JobId : Evolves(job[j], job'[j])

\* A row moved on by a request that is one step.
LEMMA MoveEvolves ==
  ASSUME NEW s \in Row, NEW status,
         \/ s.status \in Open /\ status = "CANCELLED"
         \/ s.status \in Terminal /\ status = "DELETED"
  PROVE  Evolves(s, Move(s, status)) /\ Evolves(s, [s EXCEPT !.status = status])
BY DEF Evolves, Moves, Move, Active, Open, Row

\* Every step lets the job table evolve.
LEMMA StepEvolves ==
  ASSUME TypeOK, QueueInv, [Next]_vars
  PROVE  Evolution
<1> USE DEF QueueInv
<1>0. ASSUME job' = job PROVE Evolution
  BY <1>0 DEF Evolution, Evolves
<1>1. ASSUME NEW j \in JobId, NEW r, Write(j, r), Evolves(job[j], r) PROVE Evolution
  <2>1. \A k \in JobId : job'[k] = IF k = j THEN r ELSE job[k]
    BY <1>1 DEF Write, TypeOK
  <2> QED
    BY <1>1, <2>1 DEF Evolution, Evolves
<1>2. ASSUME NEW t \in Workers, Commit(t) PROVE Evolution
  <2>1. ASSUME NEW j \in JobId PROVE Evolves(job[j], job'[j])
    <3>1. CASE Dirty(t, j)
      <4>1. job'[j] = unit[t].row[j] /\ Follows(job[j], unit[t].row[j])
        BY <1>2, <2>1, <3>1 DEF Commit, View, WritesAreCurrent
      <4>2. job[j].status \in Active => job[j].status \notin {"ABSENT", "PENDING"}
        BY DEF Active
      <4> QED
        BY <4>1, <4>2 DEF Follows, Evolves, Moves, Active
    <3>2. CASE ~Dirty(t, j)
      BY <1>2, <2>1, <3>2 DEF Commit, View, Evolves
    <3> QED
      BY <3>1, <3>2
  <2> QED
    BY <2>1 DEF Evolution
<1>3. ASSUME NEW d \in Devices, AgentStep(d) PROVE Evolution
  <2>1. CASE Started(d)
    <3> DEFINE j == agent[d].job
    <3>1. j \in JobId /\ WasDelivered(j) /\ job[j] \in Row
      <4>1. agent[d].at = "got"
        BY <2>1 DEF Started
      <4> QED
        BY <1>3, <4>1, AgentType DEF HeldWasDelivered, Loop, TypeOK
    <3>2. ASSUME ~Closed(j)
          PROVE  Evolves(job[j], [job[j] EXCEPT !.status = "RUNNING"])
      <4>1. job[j].status \in Active
        BY <3>1, <3>2 DEF Closed, WasDelivered, Row, Status, Open
      <4> QED
        BY <3>1, <4>1 DEF Evolves, Active, Row
    <3> QED
      BY <1>0, <1>1, <2>1, <3>1, <3>2 DEF Started
  <2> QED
    BY <1>0, <1>3, <2>1 DEF AgentStep, Prepare, Apply, Perform, Finished
<1>4. CASE Surroundings
  <2>1. ASSUME NEW d \in Devices, OpenTunnel(d) PROVE Evolution
    <3> DEFINE r == NewRow(d, "OPEN_TUNNEL", 1, 0, FALSE)
    <3>1. PICK n \in NextId :
            \A j \in JobId : job'[j] = IF j = n THEN r
                                       ELSE IF j \in Expired THEN Move(job[j], "CANCELLED")
                                       ELSE job[j]
      BY <2>1 DEF OpenTunnel
    <3>2. n \in JobId /\ r.status = "PENDING"
      BY <2>1, NewRowType, Bounds DEF JobType, NextId
    <3>3. job[n].status = "ABSENT"
      <4>1. n >= n
        BY <3>2 DEF JobId
      <4> QED
        BY <3>2, <4>1 DEF NextId, Unused
    <3>4. Evolves(job[n], r)
      BY <3>2, <3>3 DEF Evolves, Moves
    <3>5. ASSUME NEW j \in Expired PROVE Evolves(job[j], Move(job[j], "CANCELLED"))
      BY <3>5, MoveEvolves DEF Expired, TypeOK, Open
    <3>6. ASSUME NEW j \in JobId PROVE Evolves(job[j], job[j])
      BY DEF Evolves
    <3> HIDE DEF r
    <3> QED
      BY <3>1, <3>4, <3>5, <3>6 DEF Evolution
  <2>2. ASSUME NEW j \in JobId, CancelJob(j) \/ CloseSession(j) PROVE Evolution
    <3>1. Evolves(job[j], Move(job[j], "CANCELLED"))
      BY <2>2, MoveEvolves DEF CancelJob, CloseSession, TypeOK, Open
    <3> QED
      BY <1>1, <2>2, <3>1 DEF CancelJob, CloseSession
  <2>3. ASSUME NEW k \in JobId, Prune(k) PROVE Evolution
    <3>1. ASSUME NEW j \in JobId PROVE Evolves(job[j], job'[j])
      <4>1. job[j] \in Row
        BY <3>1 DEF TypeOK
      <4>2. \/ job'[j] = job[j]
            \/ /\ job[j].status \in Terminal
               /\ job'[j] = [job[j] EXCEPT !.status = "DELETED"]
        BY <2>3, <3>1 DEF Prune
      <4>3. CASE job'[j] = job[j]
        BY <4>3 DEF Evolves
      <4> QED
        BY <4>1, <4>2, <4>3, MoveEvolves
    <3> QED
      BY <3>1 DEF Evolution
  <2>4. ASSUME NEW j \in JobId, Elapse(j) PROVE Evolution
    <3>1. ASSUME NEW k \in JobId PROVE Evolves(job[k], job'[k])
      <4>1. job[k] \in Row /\ job[j] \in Row
        BY <2>4, <3>1 DEF TypeOK
      <4>2. \/ job'[k] = job[k]
            \/ /\ job[k].status \in Active \cup {"PENDING"}
               /\ job'[k] = [job[k] EXCEPT !.late = TRUE]
        BY <2>4, <3>1, <4>1 DEF Elapse, TypeOK
      <4> QED
        BY <4>1, <4>2 DEF Evolves, Moves, Active, Row
    <3> QED
      BY <3>1 DEF Evolution
  <2>5. CASE ServerRestart
    <3>1. ASSUME NEW j \in JobId PROVE Evolves(job[j], job'[j])
      <4>1. job[j] \in Row
        BY <3>1 DEF TypeOK
      <4>2. \/ job'[j] = job[j]
            \/ job[j].status = "PENDING" /\ job'[j] = Move(job[j], "CANCELLED")
        BY <2>5, <3>1 DEF ServerRestart
      <4>3. CASE job'[j] = job[j]
        BY <4>3 DEF Evolves
      <4> QED
        BY <4>1, <4>2, <4>3, MoveEvolves DEF Open
    <3> QED
      BY <3>1 DEF Evolution
  <2> QED
    BY <1>0, <1>4, <2>1, <2>2, <2>3, <2>4, <2>5
       DEF Surroundings, Crash, ChangeSpec, EditDevice, TunnelFinished, Sweep, Tick
<1>5. CASE Next
  <2>1. ASSUME NEW t \in Workers, Pick(t) \/ Rollback(t) \/ GiveUp(t) PROVE Evolution
    BY <1>0, <2>1 DEF Pick, Rollback, GiveUp
  <2>2. ASSUME NEW d, NEW t, Checkin(d, t) PROVE Evolution
    BY <1>0, <2>2 DEF Checkin
  <2>3. ASSUME NEW d, NEW type, NEW after, NEW grouped, NEW t,
               Enqueue(d, type, after, grouped, t)
        PROVE  Evolution
    BY <1>0, <2>3 DEF Enqueue
  <2> QED
    BY <1>2, <1>3, <1>4, <1>5, <2>1, <2>2, <2>3, Steps
<1> QED
  BY <1>0, <1>5 DEF vars

\* What was delivered stays delivered.
LEMMA DeliveredStays ==
  ASSUME Evolution, NEW j \in JobId, WasDelivered(j)
  PROVE  WasDelivered(j)'
<1>1. Evolves(job[j], job'[j])
  BY DEF Evolution
<1> QED
  BY <1>1 DEF Evolves, WasDelivered, Moves, Active, Terminal

\* In this step device d gets nothing to work on but what it has.
KeepsHold(d) ==
  /\ \/ agent'[d].at \in {"idle", "waiting"}
     \/ agent[d].at \notin {"idle", "waiting"} /\ agent'[d].job = agent[d].job
  /\ \/ tunnels'[d] \subseteq tunnels[d]
     \/ agent[d].at = "got" /\ tunnels'[d] = tunnels[d] \cup {agent[d].job}

\* Then it holds delivered jobs.
LEMMA HoldKept ==
  ASSUME TypeOK, QueueInv, Evolution, NEW d \in Devices, KeepsHold(d)
  PROVE  /\ agent'[d].at \notin {"idle", "waiting"} =>
              agent'[d].job # NoJob /\ WasDelivered(agent[d].job)' 
         /\ \A j \in tunnels'[d] : WasDelivered(j)'
<1>1. agent[d] \in Loop /\ tunnels[d] \subseteq JobId
  BY AgentType DEF TypeOK
<1>2. ASSUME agent[d].at \notin {"idle", "waiting"}
      PROVE  agent[d].job # NoJob /\ agent[d].job \in JobId
             /\ \A j \in {agent[d].job} : WasDelivered(j)'
  <2>1. agent[d].job # NoJob /\ WasDelivered(agent[d].job)
    BY <1>2 DEF HeldWasDelivered, QueueInv
  <2>2. agent[d].job \in JobId
    BY <1>1, <2>1 DEF Loop
  <2> QED
    BY <2>1, <2>2, DeliveredStays
<1>3. \A j \in tunnels[d] : WasDelivered(j)'
  BY <1>1, DeliveredStays DEF HeldWasDelivered, QueueInv
<1> QED
  BY <1>2, <1>3 DEF KeepsHold, WasDelivered

\* Steps that hand out no job leave the agents with delivered jobs.
LEMMA AllHoldsKept ==
  ASSUME TypeOK, QueueInv, Evolution, \A d \in Devices : KeepsHold(d)
  PROVE  HeldWasDelivered'
BY HoldKept DEF HeldWasDelivered

\* Agents only ever hold jobs that were delivered.
LEMMA HeldStep ==
  ASSUME TypeOK, QueueInv, [Next]_vars
  PROVE  HeldWasDelivered'
<1>0. Evolution /\ agent \in [Devices -> Loop] /\ tunnels \in [Devices -> SUBSET JobId]
  BY StepEvolves DEF TypeOK, Loop
<1>1. ASSUME UNCHANGED <<agent, tunnels>> PROVE HeldWasDelivered'
  BY <1>0, <1>1, AllHoldsKept DEF KeepsHold
<1>2. ASSUME NEW d \in Devices, NEW a, a.at \in {"idle", "waiting"},
             agent' = [agent EXCEPT ![d] = a], \A e \in Devices : tunnels'[e] \subseteq tunnels[e]
      PROVE  HeldWasDelivered'
  BY <1>0, <1>2, AllHoldsKept DEF KeepsHold
<1>3. Free.at = "idle"
  BY DEF Free
<1>4. ASSUME NEW d \in Devices, NEW t \in Threads, Checkin(d, t) PROVE HeldWasDelivered'
  <2>1. agent' = [agent EXCEPT ![d].at = "waiting"] /\ tunnels' = tunnels
    BY <1>4 DEF Checkin
  <2>2. ASSUME NEW e \in Devices PROVE KeepsHold(e)
    BY <1>0, <2>1, <2>2 DEF KeepsHold, Loop
  <2> QED
    BY <1>0, <2>2, AllHoldsKept
<1>5. ASSUME NEW t \in Workers, Pick(t) \/ Rollback(t) \/ GiveUp(t) PROVE HeldWasDelivered'
  <2>1. unit[t].dev \in Devices
    BY DEF TypeOK, Unit
  <2> QED
    BY <1>1, <1>2, <1>3, <1>5, <2>1 DEF Pick, Rollback, GiveUp
<1>6. ASSUME NEW t \in Workers, Commit(t) PROVE HeldWasDelivered'
  <2>1. PICK d \in Devices, k \in JobId \cup {NoJob} : d = unit[t].dev /\ k = unit[t].reply
    BY DEF TypeOK, Unit
  <2>2. CASE ~unit[t].awaited
    BY <1>1, <1>6, <2>2 DEF Commit
  <2>3. CASE unit[t].awaited /\ k = NoJob
    BY <1>2, <1>3, <1>6, <2>1, <2>3 DEF Commit
  <2>4. CASE unit[t].awaited /\ k # NoJob
    <3>1. /\ agent' = [agent EXCEPT ![d] = [at |-> "got", job |-> k, exit |-> 0]]
          /\ tunnels' = tunnels
      BY <1>6, <2>1, <2>4 DEF Commit
    <3>2. k \in JobId /\ unit[t].row[k].status = "DELIVERED"
      BY <2>1, <2>4 DEF QueueInv, AnswersAreOffers
    <3>3. job'[k] = unit[t].row[k] /\ Follows(job[k], unit[t].row[k])
      BY <1>6, <3>2 DEF Commit, View, Dirty, QueueInv, WritesAreCurrent
    <3>4. WasDelivered(k)'
      BY <3>2, <3>3 DEF Follows, WasDelivered
    <3>5. agent'[d].job = k
      BY <1>0, <3>1
    <3>6. WasDelivered(agent[d].job)'
      BY <3>4, <3>5 DEF WasDelivered
    <3>7. \A j \in tunnels[d] : WasDelivered(j)'
      BY <1>0, DeliveredStays DEF HeldWasDelivered, QueueInv
    <3>8. ASSUME NEW e \in Devices, e # d PROVE KeepsHold(e)
      BY <1>0, <3>1, <3>8 DEF KeepsHold
    <3> QED
      BY <1>0, <2>4, <3>1, <3>5, <3>6, <3>7, <3>8, HoldKept DEF HeldWasDelivered
  <2> QED
    BY <2>2, <2>3, <2>4
<1>7. ASSUME NEW d \in Devices, AgentStep(d) PROVE HeldWasDelivered'
  <2>1. agent[d].at \notin {"idle", "waiting"} /\ agent[d] \in Loop
    BY <1>0, <1>7 DEF AgentStep, Started, Prepare, Apply, Perform, Finished
  <2>2. ASSUME NEW e \in Devices, e # d PROVE KeepsHold(e)
    BY <1>0, <1>7, <2>2
       DEF AgentStep, Started, Prepare, Apply, Perform, Finished, KeepsHold
  <2>3. agent'[d].at \in {"idle", "waiting"} \/ agent'[d].job = agent[d].job
    <3>1. CASE Started(d)
      BY <1>0, <1>3, <2>1, <3>1 DEF Started, Loop
    <3>2. CASE Prepare(d)
      BY <1>0, <2>1, <3>2 DEF Prepare, Loop
    <3>3. CASE Apply(d) \/ Perform(d)
      BY <1>0, <2>1, <3>3 DEF Apply, Perform, Loop
    <3>4. CASE Finished(d)
      BY <1>0, <1>3, <2>1, <3>4 DEF Finished, Free
    <3> QED
      BY <1>7, <3>1, <3>2, <3>3, <3>4 DEF AgentStep
  <2>4. \/ tunnels'[d] \subseteq tunnels[d]
        \/ agent[d].at = "got" /\ tunnels'[d] = tunnels[d] \cup {agent[d].job}
    BY <1>0, <1>7 DEF AgentStep, Started, Prepare, Apply, Perform, Finished
  <2>5. KeepsHold(d)
    BY <2>1, <2>3, <2>4 DEF KeepsHold
  <2>6. \A e \in Devices : KeepsHold(e)
    BY <2>2, <2>5
  <2> QED
    BY <1>0, <2>6, AllHoldsKept
<1>8. CASE Surroundings
  <2>1. ASSUME NEW d \in Devices, Crash(d) PROVE HeldWasDelivered'
    BY <1>0, <1>3, <2>1, AllHoldsKept DEF Crash, KeepsHold
  <2>2. ASSUME NEW d \in Devices, NEW j \in JobId, TunnelFinished(d, j) PROVE HeldWasDelivered'
    BY <1>0, <2>2, AllHoldsKept DEF TunnelFinished, KeepsHold
  <2>3. CASE ServerRestart
    BY <1>0, <1>3, <2>3, AllHoldsKept DEF ServerRestart, KeepsHold
  <2> QED
    BY <1>1, <1>8, <2>1, <2>2, <2>3
       DEF Surroundings, OpenTunnel, ChangeSpec, EditDevice, CancelJob, CloseSession,
           Prune, Elapse, Sweep, Tick
<1>9. CASE Next
  <2>1. ASSUME NEW d, NEW type, NEW after, NEW grouped, NEW t,
               Enqueue(d, type, after, grouped, t)
        PROVE  HeldWasDelivered'
    BY <1>1, <2>1 DEF Enqueue
  <2> QED
    BY <1>4, <1>5, <1>6, <1>7, <1>8, <1>9, <2>1, Steps
<1> QED
  BY <1>1, <1>9 DEF vars

-----------------------------------------------------------------------------
(* The theorems *)

\* The inductive invariant.
IInv == TypeOK /\ QueueInv

\* It holds at the start.
LEMMA InitInv == Init => IInv
<1> SUFFICES ASSUME Init PROVE IInv
  OBVIOUS
<1>1. TypeOK
  BY NoRowType, FreeType, Bounds DEF Init, TypeOK, Loop
<1>2. QueueInv
  BY NoRowType DEF Init, QueueInv, WritesAreCurrent, AnswersAreOffers, HeldWasDelivered, Dirty, Free
<1> QED
  BY <1>1, <1>2 DEF IInv

\* Every step keeps it.
LEMMA NextInv == IInv /\ [Next]_vars => IInv'
<1> SUFFICES ASSUME TypeOK, QueueInv, [Next]_vars PROVE TypeOK' /\ QueueInv'
  BY DEF IInv
<1>1. TypeOK'
  BY TypeStep DEF QueueInv
<1>2. HeldWasDelivered'
  BY HeldStep
<1>3. WritesAreCurrent' /\ AnswersAreOffers'
  <2>1. CASE Next
    <3> USE DEF QueueInv
    <3> QED
      BY <2>1, Steps, CheckinKeeps, EnqueueKeeps, ServerKeeps, AgentStepKeeps, SurroundingsKeeps
  <2>2. CASE UNCHANGED vars
    BY <2>2 DEF QueueInv, WritesAreCurrent, AnswersAreOffers, Dirty, Follows, vars
  <2> QED
    BY <2>1, <2>2
<1> QED
  BY <1>1, <1>2, <1>3 DEF QueueInv

\* IInv is an invariant of the queue.
LEMMA Invariance == Spec => []IInv
BY InitInv, NextInv, PTL DEF Spec

\* Every variable keeps its type, however the requests interleave.
THEOREM TypeCorrect == Spec => []TypeOK
<1>1. IInv => TypeOK
  BY DEF IInv
<1> QED
  BY <1>1, Invariance, PTL

\* No unit of work commits on rows that have changed since it read them, a
\* check-in answers only with a job it delivers, and agents only hold
\* delivered jobs.
THEOREM Inductive == Spec => []QueueInv
<1>1. IInv => QueueInv
  BY DEF IInv
<1> QED
  BY <1>1, Invariance, PTL

\* No event, sweep, cancellation or delivery moves a finished job again.
THEOREM Finality == Spec => TerminalIsFinal
<1>1. ASSUME IInv, [Next]_vars
      PROVE  \A j \in JobId : job[j].status \in Terminal =>
               job'[j] = job[j] \/ job'[j].status = "DELETED"
  <2>1. Evolution
    BY <1>1, StepEvolves DEF IInv
  <2> QED
    BY <2>1 DEF Evolution, Evolves, Moves, Active, Terminal
<1> QED
  BY <1>1, Invariance, PTL DEF Spec, TerminalIsFinal

-----------------------------------------------------------------------------
(* The queue implements WorkQueue *)

\* The phases of a job, status by status.
LEMMA PhaseOf ==
  ASSUME NEW r \in Row
  PROVE  /\ r.status = "ABSENT" => Phase(r) = "none"
         /\ r.status = "PENDING" => Phase(r) = "queued"
         /\ r.status \in Active => Phase(r) = "offered"
         /\ r.status = "DELETED" => Phase(r) = "gone"
         /\ r.status \in Terminal => Phase(r) = r.status
         /\ Phase(r) \in Ledger!Phases
BY DEF Phase, Row, Status, Open, Active, Terminal, Ledger!Phases, Ledger!Verdicts

\* An agent receives a job in the step that delivers it.
LEMMA TakenStep ==
  ASSUME TypeOK, QueueInv, [Next]_vars
  PROVE  /\ taken \subseteq taken' /\ taken' \subseteq JobId
         /\ \A j \in taken' \ taken : /\ job[j].status \in {"ABSENT", "PENDING"}
                                     /\ job'[j].status = "DELIVERED"
<1>1. CASE UNCHANGED taken
  BY <1>1 DEF TypeOK
<1>2. ASSUME NEW t \in Workers, Commit(t)
      PROVE  /\ taken \subseteq taken' /\ taken' \subseteq JobId
             /\ \A j \in taken' \ taken : /\ job[j].status \in {"ABSENT", "PENDING"}
                                         /\ job'[j].status = "DELIVERED"
  <2>1. unit[t].reply \in JobId \cup {NoJob} /\ taken \subseteq JobId
    BY DEF TypeOK, Unit
  <2>2. taken \subseteq taken' /\ taken' \subseteq taken \cup ({unit[t].reply} \ {NoJob})
    BY <1>2 DEF Commit
  <2>3. ASSUME NEW j \in taken' \ taken
        PROVE  job[j].status \in {"ABSENT", "PENDING"} /\ job'[j].status = "DELIVERED"
    <3>1. j = unit[t].reply /\ j # NoJob /\ j \in JobId
      BY <2>1, <2>2, <2>3
    <3>2. unit[t].row[j].status = "DELIVERED" /\ Dirty(t, j)
      BY <3>1 DEF QueueInv, AnswersAreOffers, Dirty
    <3>3. Follows(job[j], unit[t].row[j]) /\ job'[j] = unit[t].row[j]
      BY <1>2, <3>1, <3>2 DEF QueueInv, WritesAreCurrent, Commit, View
    <3> QED
      BY <3>2, <3>3 DEF Follows, Moves, Active
  <2> QED
    BY <2>1, <2>2, <2>3
<1>3. CASE Next /\ ~\E t \in Workers : Commit(t)
  BY <1>1, <1>3, Steps
     DEF Checkin, Enqueue, Pick, Rollback, GiveUp, AgentStep, Started, Prepare, Apply,
         Perform, Finished, Surroundings, Crash, OpenTunnel, ChangeSpec, EditDevice,
         TunnelFinished, CancelJob, CloseSession, Prune, Elapse, Sweep, ServerRestart, Tick
<1> QED
  BY <1>1, <1>2, <1>3 DEF vars

\* Every step of the queue is a step of the ledger or leaves it as it is.
LEMMA LedgerStep ==
  ASSUME TypeOK, TypeOK', QueueInv, [Next]_vars
  PROVE  Ledger!Next
<1> DEFINE phase == [j \in JobId |-> Phase(job[j])]
<1>1. ASSUME NEW j \in JobId
      PROVE  /\ phase[j] = Phase(job[j]) /\ phase'[j] = Phase(job'[j])
             /\ job[j] \in Row /\ job'[j] \in Row
             /\ Evolves(job[j], job'[j])
  BY <1>1, StepEvolves DEF TypeOK, Evolution, Phase
<1>2. phase' \in [JobId -> Ledger!Phases]
  BY <1>1, PhaseOf
<1>3. ASSUME NEW j \in JobId
      PROVE  Ledger!Queue(j) \/ Ledger!Offer(j) \/ Ledger!Decide(j)
               \/ Ledger!Forget(j) \/ Ledger!Keep(j)
  <2> DEFINE s == job[j]
             r == job'[j]
  <2>1. CASE s.status \in {"ABSENT", "PENDING"}
    <3>1. r = s \/ r.status \in {"PENDING", "DELIVERED", "CANCELLED"}
      BY <1>1, <2>1 DEF Evolves, Moves, Active, Terminal
    <3>2. phase[j] \in {"none", "queued"} /\ (s.status = "PENDING" => phase[j] = "queued")
      BY <1>1, <2>1, PhaseOf
    <3>3. CASE r = s
      BY <1>1, <3>3 DEF Ledger!Keep
    <3>4. CASE r.status = "PENDING"
      BY <1>1, <3>2, <3>4, PhaseOf DEF Ledger!Queue, Ledger!Keep
    <3>5. CASE r.status = "DELIVERED"
      BY <1>1, <3>2, <3>5, PhaseOf DEF Ledger!Offer, Active
    <3>6. CASE r.status = "CANCELLED"
      BY <1>1, <3>2, <3>6, PhaseOf DEF Ledger!Decide, Terminal
    <3> QED
      BY <3>1, <3>3, <3>4, <3>5, <3>6
  <2>2. CASE s.status \in Active
    <3>1. r = s \/ r.status \in Active \/ r.status \in Terminal
      BY <1>1, <2>2 DEF Evolves, Moves, Active, Terminal
    <3>2. CASE r = s \/ r.status \in Active
      BY <1>1, <2>2, <3>2, PhaseOf DEF Ledger!Keep
    <3>3. CASE r.status \in Terminal
      BY <1>1, <2>2, <3>3, PhaseOf DEF Ledger!Decide, Ledger!Verdicts, Terminal
    <3> QED
      BY <3>1, <3>2, <3>3
  <2>3. CASE s.status \in Terminal \cup {"DELETED"}
    BY <1>1, <1>3, <2>3, PhaseOf
       DEF Evolves, Moves, Active, Terminal, Ledger!Forget, Ledger!Verdicts, Ledger!Keep
  <2> QED
    BY <1>1, <2>1, <2>2, <2>3 DEF Row, Status, Open
<1>4. ASSUME NEW j \in taken' \ taken PROVE Ledger!Offer(j)
  BY <1>1, <1>4, TakenStep, PhaseOf DEF Ledger!Offer, Active
<1> QED
  BY <1>2, <1>3, <1>4, TakenStep DEF Ledger!Next

\* Whatever is lost, retried or restarted: phases only advance, a verdict is
\* final, and a device takes a job once, at the moment it is delivered.
THEOREM Implementation == Spec => ImplementsWorkQueue
<1>1. Init => Ledger!Init
  <2> SUFFICES ASSUME Init PROVE Ledger!Init
    OBVIOUS
  <2>1. \A j \in JobId : Phase(job[j]) = "none"
    BY NoRowType, PhaseOf DEF Init
  <2> QED
    BY <2>1 DEF Init, Ledger!Init
<1>2. IInv /\ IInv' /\ [Next]_vars =>
        [Ledger!Next]_<<[j \in JobId |-> Phase(job[j])], taken>>
  BY LedgerStep DEF IInv
<1> QED
  BY <1>1, <1>2, Invariance, PTL DEF Spec, ImplementsWorkQueue, Ledger!Spec
=============================================================================
