------------------------------ MODULE JobQueue ------------------------------
(***************************************************************************)
(* The job queue of the Svenager server and the agents that drain it:      *)
(* JobService (queueing, delivery, drift detection, automatic retries,     *)
(* timeouts, events), CheckinService, the tunnel jobs of                   *)
(* RemoteSessionService, the timeout and retention schedulers, and the     *)
(* agent's main loop.                                                      *)
(*                                                                         *)
(* Every request runs in a database transaction at READ COMMITTED with a   *)
(* version column on every row (Hibernate's optimistic lock).  A request   *)
(* that decides from a query and then inserts, or that has an effect       *)
(* outside the database before it commits, is two steps or three: it loads *)
(* into a unit of work, and the unit commits or, when a row it writes was  *)
(* written meanwhile, rolls back.  A request whose reads are all of rows   *)
(* it writes is one atomic step, because the version check admits its      *)
(* commit only when those rows are still the ones it read.                 *)
(***************************************************************************)
EXTENDS Integers, FiniteSets

CONSTANTS
  Devices,        \* enrolled devices
  MaxJobs,        \* bound: job rows ever inserted
  MaxRequests,    \* bound: the last of them that an operator can ask for
  MaxAttempts,    \* svenager.jobs.maxAttempts
  MaxTime,        \* bound: the latest time an apply can be scheduled for
  Threads,        \* request threads of the server
  Scheduler,      \* the thread of JobTimeoutScheduler
  Specs,          \* fingerprints of composed specs that have plays
  NoPlays,        \* the composed spec of a device without roles
  NoHash,         \* specHash is null
  Unknown,        \* a device state that no completed apply produced
  OperatorTypes,  \* job types operators queue
  Edits,          \* pairs <<s, t>>: spec s may be edited into t
  Environment     \* which of the events below can happen

Events == {"cancel", "lost", "crash", "restart", "edit device", "prune"}

JobId == 1..MaxJobs
NoJob == 0
Workers == Threads \cup {Scheduler}

JobType == {"APPLY_CONFIG", "CHECK_CONFIG", "AGENT_UPDATE", "OPEN_TUNNEL", "REBOOT"}
Terminal == {"SUCCEEDED", "FAILED", "TIMED_OUT", "CANCELLED"}
Active == {"DELIVERED", "RUNNING"}
Open == Active \cup {"PENDING"}
\* ABSENT: no such row yet.  DELETED: removed by the retention job.
Status == Open \cup Terminal \cup {"ABSENT", "DELETED"}

ASSUME BoundsAssumption ==
  MaxJobs \in Nat \ {0} /\ MaxRequests \in 0..MaxJobs /\ MaxAttempts \in Nat \ {0} /\ MaxTime \in Nat
ASSUME ActorAssumption == Devices # {} /\ Scheduler \notin Threads
ASSUME SpecAssumption ==
  /\ NoPlays \notin Specs /\ NoHash \notin Specs /\ Unknown \notin Specs
  /\ Edits \subseteq (Specs \cup {NoPlays}) \X (Specs \cup {NoPlays})
ASSUME InputAssumption ==
  /\ OperatorTypes \subseteq JobType
  /\ Environment \subseteq Events

VARIABLES
  job,      \* the job table
  unit,     \* the unit of work of each thread
  agent,    \* the main loop of each device's agent
  tunnels,  \* the tunnels each agent serves in the background
  applied,  \* the spec whose apply last ran to the end on the device
  spec,     \* what composeSpec returns for the device
  clock,    \* scheduled times that have passed
  alerts,   \* history: jobs a failure notification was handed out for
  taken     \* history: jobs an agent received

vars == <<job, unit, agent, tunnels, applied, spec, clock, alerts, taken>>

-----------------------------------------------------------------------------
(* Rows, units of work and the version check *)

\* The columns the queue depends on.  after = 0 is a null runAfter; auto says
\* that ensureConverged queued the row (triggeredBy); late, that its time is
\* up: deliveredAt is before the stuck cutoff, or, while a tunnel is pending,
\* its session has expired.
Row == [dev : Devices, type : JobType, status : Status, attempt : 1..MaxAttempts,
        hash : Specs \cup {NoHash}, after : 0..MaxTime, auto : BOOLEAN,
        late : BOOLEAN]

NewRow(d, type, attempt, after, auto) ==
  [dev |-> d, type |-> type, status |-> "PENDING", attempt |-> attempt,
   hash |-> NoHash, after |-> after, auto |-> auto, late |-> FALSE]

\* The row once the job is finished, or handed out: its time starts anew.
Move(r, status) == [r EXCEPT !.status = status, !.late = FALSE]

NoRow == [NewRow(CHOOSE d \in Devices : TRUE, "APPLY_CONFIG", 1, 0, FALSE)
            EXCEPT !.status = "ABSENT"]
Clean == [j \in JobId |-> NoRow]

\* row holds what the unit will write; a row it does not write is NoRow.
\* awaited: the agent of dev waits for the answer to go on.
Unit == [step : {"idle", "converged", "picked", "finished", "queued", "swept"},
         dev : Devices, row : [JobId -> Row], reply : JobId \cup {NoJob},
         awaited : BOOLEAN, stale : BOOLEAN]

Idle == [step |-> "idle", dev |-> NoRow.dev, row |-> Clean, reply |-> NoJob,
         awaited |-> FALSE, stale |-> FALSE]

Dirty(t, j) == unit[t].row[j].status # "ABSENT"

\* Mutants, before the definition each one replaces, are what it would be
\* after a plausible mistake in the code; PROJECT.json names the property
\* that notices.

\* Mutant of Touches: a check-in leaves the Device row alone.
TouchesNothing(t, d) == FALSE
\* Mutant: an operator's request writes the Device row as well.
TouchesMore(t, d) ==
  unit[t].step \in {"converged", "picked", "finished", "queued"} /\ unit[t].dev = d

\* Check-in writes lastContactAt and a finished event lastJobAt, so both
\* also carry the version of the Device row.
Touches(t, d) ==
  unit[t].step \in {"converged", "picked", "finished"} /\ unit[t].dev = d

\* What the queries of unit t see: committed rows under its own writes.
View(t) == [j \in JobId |-> IF Dirty(t, j) THEN unit[t].row[j] ELSE job[j]]

\* Mutant of Invalidate: the job table has no version column.
InvalidateDevices(S, D) ==
  [t \in Workers |->
     IF \E d \in D : Touches(t, d)
       THEN [unit[t] EXCEPT !.stale = TRUE, !.row = Clean, !.reply = NoJob]
       ELSE unit[t]]

\* Units that lose the version check once the rows in S, and the Device row
\* of the devices in D, have been written by somebody else: whatever such a
\* unit was to write and to answer is void.
Invalidate(S, D) ==
  [t \in Workers |->
     IF (\E j \in S : Dirty(t, j)) \/ (\E d \in D : Touches(t, d))
       THEN [unit[t] EXCEPT !.stale = TRUE, !.row = Clean, !.reply = NoJob]
       ELSE unit[t]]

\* Job ids come from a sequence: a new row is newer than every other one,
\* committed or not.  The set is empty once the bound is reached.
Unused(j) == job[j].status = "ABSENT" /\ \A t \in Workers : ~Dirty(t, j)
NextId == {j \in JobId : /\ \A k \in JobId : k >= j => Unused(k)
                         /\ j > 1 => ~Unused(j - 1)}

\* A request that is one atomic step writes row r of job j.
Write(j, r) ==
  /\ job' = [job EXCEPT ![j] = r]
  /\ unit' = Invalidate({j}, {})

OpenUnit(t, step, d, rows, awaited) ==
  /\ unit[t] = Idle
  /\ unit' = [unit EXCEPT ![t] = [step |-> step, dev |-> d, row |-> rows,
                                  reply |-> NoJob, awaited |-> awaited,
                                  stale |-> FALSE]]

\* The main loop of an agent that is not working on anything.
Free == [at |-> "idle", job |-> NoJob, exit |-> 0]

(* The end of the transaction.  Its answer lets the agent that waits for   *)
(* it go on, with the job that a check-in delivered.                       *)
Commit(t) ==
  /\ unit[t].step \in {"picked", "finished", "queued", "swept"}
  /\ ~unit[t].stale
  /\ job' = View(t)
  /\ unit' = [Invalidate({j \in JobId : Dirty(t, j)},
                         {d \in Devices : Touches(t, d)})
                EXCEPT ![t] = Idle]
  /\ IF unit[t].awaited
       THEN agent' = [agent EXCEPT ![unit[t].dev] =
                        IF unit[t].reply = NoJob
                          THEN Free
                          ELSE [at |-> "got", job |-> unit[t].reply, exit |-> 0]]
       ELSE UNCHANGED agent
  /\ taken' = IF unit[t].awaited THEN taken \cup ({unit[t].reply} \ {NoJob}) ELSE taken
  /\ UNCHANGED <<tunnels, applied, spec, clock, alerts>>

(* A lost version check answers 500 and leaves nothing behind.             *)
Rollback(t) ==
  /\ unit[t].step # "idle"
  /\ unit[t].stale
  /\ unit' = [unit EXCEPT ![t] = Idle]
  /\ agent' = IF unit[t].awaited
                THEN [agent EXCEPT ![unit[t].dev] = Free]
                ELSE agent
  /\ UNCHANGED <<job, tunnels, applied, spec, clock, alerts, taken>>

-----------------------------------------------------------------------------
(* Check-in *)

\* An apply that failed for good: no automatic retry will follow it.
LastAttempt(r) == r.type = "APPLY_CONFIG" /\ r.attempt >= MaxAttempts

\* The writes of markTimedOut for the jobs in S.
TimedOut(S) == [j \in JobId |-> IF j \in S THEN Move(job[j], "TIMED_OUT")
                                ELSE NoRow]
\* Mutant of FinalFailures: one attempt too many is waited for.
FinalFailuresLate(S) == {j \in S : job[j].type = "APPLY_CONFIG" /\ job[j].attempt > MaxAttempts}

\* The notifications it hands to the executor at once, before any commit.
FinalFailures(S) == {j \in S : LastAttempt(job[j])}

\* Mutant of Stuck: only jobs that were reported started are looked at.
StuckRunning == {j \in JobId : job[j].status = "RUNNING" /\ job[j].late}

Stuck == {j \in JobId : job[j].status \in Active /\ job[j].late}

\* The newest apply of d that was delivered, as a set.
Delivered(view, d) ==
  {j \in JobId : /\ view[j].dev = d /\ view[j].type = "APPLY_CONFIG"
                 /\ view[j].status \notin {"ABSENT", "DELETED"}
                 /\ view[j].hash # NoHash}
Newest(S) == {j \in S : \A k \in S : k <= j}

\* An apply of d is open.
Applying(view, d) ==
  \E j \in JobId : /\ view[j].dev = d /\ view[j].type = "APPLY_CONFIG"
                   /\ view[j].status \in Open

\* Mutant of Drift: a failed apply is not retried.
DriftWithoutRetry(view, d) ==
  IF \/ Applying(view, d) \/ spec[d] = NoPlays
     \/ \E j \in Newest(Delivered(view, d)) : view[j].hash = spec[d]
    THEN {}
    ELSE {NewRow(d, "APPLY_CONFIG", 1, 0, TRUE)}

\* Mutant of Drift: the attempts of a retry are not bounded.
DriftWithoutBound(view, d) ==
  LET last == Newest(Delivered(view, d)) IN
  IF Applying(view, d) \/ spec[d] = NoPlays
    THEN {}
    ELSE IF \A j \in last : view[j].hash # spec[d]
      THEN {NewRow(d, "APPLY_CONFIG", 1, 0, TRUE)}
      ELSE {NewRow(d, "APPLY_CONFIG", view[j].attempt + 1, 0, TRUE) :
              j \in {k \in last : view[k].status \in {"FAILED", "TIMED_OUT"}}}

\* Mutant of Drift: the attempts are not counted anew for a changed spec.
DriftWithoutReset(view, d) ==
  LET last == Newest(Delivered(view, d)) IN
  IF Applying(view, d) \/ spec[d] = NoPlays
    THEN {}
    ELSE IF last = {}
      THEN {NewRow(d, "APPLY_CONFIG", 1, 0, TRUE)}
      ELSE {NewRow(d, "APPLY_CONFIG", view[j].attempt + 1, 0, TRUE) :
              j \in {k \in last : /\ \/ view[k].hash # spec[d]
                                     \/ view[k].status \in {"FAILED", "TIMED_OUT"}
                                  /\ view[k].attempt < MaxAttempts}}

\* ensureConverged: the rows it adds, none or one.
Drift(view, d) ==
  LET last == Newest(Delivered(view, d)) IN
  IF Applying(view, d) \/ spec[d] = NoPlays
    THEN {}
    ELSE IF \A j \in last : view[j].hash # spec[d]
      THEN {NewRow(d, "APPLY_CONFIG", 1, 0, TRUE)}
      ELSE {NewRow(d, "APPLY_CONFIG", view[j].attempt + 1, 0, TRUE) :
              j \in {k \in last : /\ view[k].status \in {"FAILED", "TIMED_OUT"}
                                  /\ view[k].attempt < MaxAttempts}}

(* The agent of d checks in: its stuck jobs are timed out and a drifted or *)
(* failed apply is queued.                                                 *)
Checkin(d, t) ==
  LET stuck == {j \in Stuck : job[j].dev = d}
      view  == [j \in JobId |-> IF j \in stuck THEN TimedOut(stuck)[j] ELSE job[j]]
      new   == Drift(view, d)
  IN /\ agent[d].at = "idle"
     /\ t \in Threads
     /\ \/ new = {} /\ OpenUnit(t, "converged", d, TimedOut(stuck), TRUE)
        \/ \E r \in new, n \in NextId :
             OpenUnit(t, "converged", d, [TimedOut(stuck) EXCEPT ![n] = r], TRUE)
     /\ agent' = [agent EXCEPT ![d].at = "waiting"]
     /\ alerts' = alerts \cup FinalFailures(stuck)
     /\ UNCHANGED <<job, tunnels, applied, spec, clock, taken>>

\* nextPending: tunnels jump the queue, otherwise the oldest due job.
NextPending(view, d) ==
  LET due  == {j \in JobId : /\ view[j].dev = d /\ view[j].status = "PENDING"
                             /\ view[j].after <= clock}
      jump == {j \in due : view[j].type = "OPEN_TUNNEL"}
      from == IF jump # {} THEN jump ELSE due
  IN {j \in from : \A k \in from : j <= k}

\* composePayload finds nothing to deliver.
Undeliverable(r) ==
  \/ r.type \in {"APPLY_CONFIG", "CHECK_CONFIG"} /\ spec[r.dev] = NoPlays
  \/ r.type = "OPEN_TUNNEL" /\ r.late

\* Only an apply records the fingerprint of what it delivers.
Handed(r) ==
  [Move(r, "DELIVERED") EXCEPT !.hash = IF r.type = "APPLY_CONFIG" THEN spec[r.dev] ELSE @]

\* The check-in will commit rows and answer with the job reply, if any.
Answer(t, rows, reply) ==
  unit' = [unit EXCEPT ![t] = [@ EXCEPT !.step = "picked", !.row = rows, !.reply = reply]]

\* Mutant of Pick: a job with nothing to deliver is passed over, not cancelled.
PickWithoutCancel(t) ==
  LET view == View(t)
      next == NextPending(view, unit[t].dev)
  IN /\ unit[t].step = "converged" /\ ~unit[t].stale
     /\ \/ /\ \A j \in next : Undeliverable(view[j])
           /\ Answer(t, unit[t].row, NoJob)
        \/ \E j \in next :
             /\ ~Undeliverable(view[j])
             /\ Answer(t, [unit[t].row EXCEPT ![j] = Handed(view[j])], j)
     /\ UNCHANGED <<job, agent, tunnels, applied, spec, clock, alerts, taken>>

(* The second half of the check-in: the next job is delivered, or          *)
(* cancelled when there is nothing to deliver.                             *)
Pick(t) ==
  LET view == View(t)
      next == NextPending(view, unit[t].dev)
  IN /\ unit[t].step = "converged" /\ ~unit[t].stale
     /\ \/ next = {} /\ Answer(t, unit[t].row, NoJob)
        \/ \E j \in next :
             /\ Undeliverable(view[j])
             /\ Answer(t, [unit[t].row EXCEPT ![j] = Move(view[j], "CANCELLED")], NoJob)
        \/ \E j \in next :
             /\ ~Undeliverable(view[j])
             /\ Answer(t, [unit[t].row EXCEPT ![j] = Handed(view[j])], j)
     /\ UNCHANGED <<job, agent, tunnels, applied, spec, clock, alerts, taken>>

(* The agent's HTTP call fails although the request goes on: it timed out  *)
(* after 30 s, or the response was lost.                                   *)
GiveUp(t) ==
  /\ "lost" \in Environment
  /\ unit[t].awaited
  /\ unit' = [unit EXCEPT ![t].awaited = FALSE]
  /\ agent' = [agent EXCEPT ![unit[t].dev] = Free]
  /\ UNCHANGED <<job, tunnels, applied, spec, clock, alerts, taken>>

-----------------------------------------------------------------------------
(* Events and the agent's work.  A post that never arrives is only logged  *)
(* by the agent: eventReporter.send does not retry.                        *)

\* Mutant of Closed: events are accepted for a finished job.
ClosedDeleted(j) == job[j].status = "DELETED"

\* The server no longer accepts events for the job.
Closed(j) == job[j].status \in Terminal \cup {"DELETED"}

(* runJob begins: "started" is posted, and a tunnel moves to the           *)
(* background so that the loop can go on.                                  *)
Started(d) ==
  LET j == agent[d].job IN
  /\ agent[d].at = "got"
  /\ \/ /\ ~Closed(j)
        /\ Write(j, [job[j] EXCEPT !.status = "RUNNING"])
     \/ /\ Closed(j) \/ "lost" \in Environment
        /\ UNCHANGED <<job, unit>>
  /\ IF job[j].type = "OPEN_TUNNEL"
       THEN /\ agent' = [agent EXCEPT ![d] = Free]
            /\ tunnels' = [tunnels EXCEPT ![d] = @ \cup {j}]
       ELSE /\ agent' = [agent EXCEPT ![d].at = "running"]
            /\ UNCHANGED tunnels
  /\ UNCHANGED <<applied, spec, clock, alerts, taken>>

(* An apply or a preview fetches its bundles, which the server refuses     *)
(* for a finished job; an apply then starts to change the device.          *)
Prepare(d) ==
  LET j == agent[d].job IN
  /\ agent[d].at = "running"
  /\ job[j].type \in {"APPLY_CONFIG", "CHECK_CONFIG"}
  /\ \/ /\ Closed(j) \/ "lost" \in Environment
        /\ agent' = [agent EXCEPT ![d].at = "done", ![d].exit = 1]
        /\ UNCHANGED applied
     \/ /\ ~Closed(j)
        /\ agent' = [agent EXCEPT ![d].at = "applying"]
        /\ applied' = IF job[j].type = "APPLY_CONFIG"
                        THEN [applied EXCEPT ![d] = Unknown] ELSE applied
  /\ UNCHANGED <<job, unit, tunnels, spec, clock, alerts, taken>>

\* Mutant of Apply: the agent runs what is composed now, not what the job
\* delivered.
ApplyLatest(d) ==
  LET j == agent[d].job IN
  /\ agent[d].at = "applying"
  /\ \E exit \in {0, 1} :
       /\ agent' = [agent EXCEPT ![d].at = "done", ![d].exit = exit]
       /\ applied' = IF job[j].type = "APPLY_CONFIG" /\ exit = 0 /\ spec[d] # NoPlays
                       THEN [applied EXCEPT ![d] = spec[d]] ELSE applied
  /\ UNCHANGED <<job, unit, tunnels, spec, clock, alerts, taken>>

(* ansible-playbook ends, in check mode without having changed anything.   *)
Apply(d) ==
  LET j == agent[d].job IN
  /\ agent[d].at = "applying"
  /\ \E exit \in {0, 1} :
       /\ agent' = [agent EXCEPT ![d].at = "done", ![d].exit = exit]
       /\ applied' = IF job[j].type = "APPLY_CONFIG" /\ exit = 0
                       THEN [applied EXCEPT ![d] = job[j].hash] ELSE applied
  /\ UNCHANGED <<job, unit, tunnels, spec, clock, alerts, taken>>

(* runSelfUpdate and runReboot.                                            *)
Perform(d) ==
  /\ agent[d].at = "running"
  /\ job[agent[d].job].type \in {"AGENT_UPDATE", "REBOOT"}
  /\ \E exit \in {0, 1} :
       agent' = [agent EXCEPT ![d].at = "done", ![d].exit = exit]
  /\ UNCHANGED <<job, unit, tunnels, applied, spec, clock, alerts, taken>>

\* applyEvent for "finished": the verdict is written with the Device row,
\* and a final failure is broadcast before the commit.
PostFinished(d, j, exit, awaited) ==
  \/ /\ ~Closed(j)
     /\ \E t \in Threads :
          OpenUnit(t, "finished", d,
                   [Clean EXCEPT ![j] = Move(job[j],
                      IF exit = 0 THEN "SUCCEEDED" ELSE "FAILED")], awaited)
     /\ alerts' = IF exit # 0 THEN alerts \cup FinalFailures({j}) ELSE alerts
  \/ /\ Closed(j) \/ "lost" \in Environment
     /\ UNCHANGED <<unit, alerts>>

(* The agent posts "finished", and goes on when it is answered.  After a   *)
(* self-update exec replaces the process and its tunnels, unless it fails. *)
Finished(d) ==
  /\ agent[d].at = "done"
  /\ PostFinished(d, agent[d].job, agent[d].exit, TRUE)
  /\ agent' = [agent EXCEPT ![d] = IF unit' = unit THEN Free ELSE [Free EXCEPT !.at = "waiting"]]
  /\ \/ UNCHANGED tunnels
     \/ /\ job[agent[d].job].type = "AGENT_UPDATE" /\ agent[d].exit = 0
        /\ tunnels' = [tunnels EXCEPT ![d] = {}]
  /\ UNCHANGED <<job, applied, spec, clock, taken>>

(* A background tunnel ends, whatever the loop is doing.                   *)
TunnelFinished(d, j) ==
  /\ j \in tunnels[d]
  /\ tunnels' = [tunnels EXCEPT ![d] = @ \ {j}]
  /\ \E exit \in {0, 1} : PostFinished(d, j, exit, FALSE)
  /\ UNCHANGED <<job, agent, applied, spec, clock, taken>>

\* A reboot takes effect at some time after it was asked for: the agent may
\* have reported it, checked in and received the next job by then.
Rebooting(d) ==
  \E j \in JobId : /\ job[j].dev = d /\ job[j].type = "REBOOT"
                   /\ job[j].status \notin {"ABSENT", "PENDING"}

(* The agent process dies and is restarted with nothing in hand.           *)
Crash(d) ==
  /\ "crash" \in Environment \/ Rebooting(d)
  /\ agent[d].at # "idle" \/ tunnels[d] # {}
  /\ agent' = [agent EXCEPT ![d] = Free]
  /\ tunnels' = [tunnels EXCEPT ![d] = {}]
  /\ unit' = [t \in Workers |-> IF unit[t].dev = d THEN [unit[t] EXCEPT !.awaited = FALSE]
                                ELSE unit[t]]
  /\ UNCHANGED <<job, applied, spec, clock, alerts, taken>>

-----------------------------------------------------------------------------
(* Operators, schedulers and the passage of time *)

(* enqueueApply, enqueuePreview, enqueueAgentUpdate and enqueueReboot: a   *)
(* pending job of the same type is kept, an apply is rescheduled or        *)
(* adopted by the batch of a group (grouped).                              *)
Enqueue(d, type, after, grouped, t) ==
  LET pending == {j \in JobId : /\ job[j].dev = d /\ job[j].type = type
                                /\ job[j].status = "PENDING"}
  IN /\ t \in Threads
     /\ \/ /\ pending = {}
           /\ \E n \in NextId \cap 1..MaxRequests : OpenUnit(t, "queued", d,
                [Clean EXCEPT ![n] = NewRow(d, type, 1, after, FALSE)], FALSE)
        \/ \E j \in pending :
             /\ type = "APPLY_CONFIG"
             /\ grouped \/ after # job[j].after
             /\ OpenUnit(t, "queued", d,
                  [Clean EXCEPT ![j] = [job[j] EXCEPT !.after = after]], FALSE)
     /\ UNCHANGED <<job, agent, tunnels, applied, spec, clock, alerts, taken>>

\* Only an apply is scheduled, or part of a group's batch.
Operate(d, t) ==
  \/ \E type \in OperatorTypes \ {"APPLY_CONFIG", "OPEN_TUNNEL"} : Enqueue(d, type, 0, FALSE, t)
  \/ /\ "APPLY_CONFIG" \in OperatorTypes
     /\ \E after \in {0} \cup (clock + 1)..MaxTime, grouped \in BOOLEAN :
          Enqueue(d, "APPLY_CONFIG", after, grouped, t)

Rerun(j, t) ==
  /\ "APPLY_CONFIG" \in OperatorTypes
  /\ job[j].type = "APPLY_CONFIG" /\ job[j].status \in Terminal
  /\ Enqueue(job[j].dev, "APPLY_CONFIG", 0, FALSE, t)

CancelJob(j) ==
  /\ "cancel" \in Environment
  /\ job[j].status \in Open
  /\ Write(j, Move(job[j], "CANCELLED"))
  /\ UNCHANGED <<agent, tunnels, applied, spec, clock, alerts, taken>>

\* Tunnels nobody picked up before the time limit of their session.
Expired == {j \in JobId : /\ job[j].type = "OPEN_TUNNEL"
                          /\ job[j].status = "PENDING" /\ job[j].late}

(* RemoteSessionService.open closes the expired sessions first.            *)
OpenTunnel(d) ==
  /\ "OPEN_TUNNEL" \in OperatorTypes
  /\ \E n \in NextId \cap 1..MaxRequests :
       /\ job' = [j \in JobId |-> IF j = n THEN NewRow(d, "OPEN_TUNNEL", 1, 0, FALSE)
                                 ELSE IF j \in Expired THEN Move(job[j], "CANCELLED")
                                 ELSE job[j]]
       /\ unit' = Invalidate({n} \cup Expired, {})
  /\ UNCHANGED <<agent, tunnels, applied, spec, clock, alerts, taken>>

(* The end of a session nobody picked up: closed by its operator, or found *)
(* past its time limit by a request that looks at sessions.                *)
CloseSession(j) ==
  /\ job[j].type = "OPEN_TUNNEL" /\ job[j].status = "PENDING"
  /\ Write(j, Move(job[j], "CANCELLED"))
  /\ UNCHANGED <<agent, tunnels, applied, spec, clock, alerts, taken>>

(* A variable, role, group or commit changes what is composed for d.       *)
ChangeSpec(d) ==
  /\ \E s \in Specs \cup {NoPlays} : <<spec[d], s>> \in Edits /\ spec' = [spec EXCEPT ![d] = s]
  /\ UNCHANGED <<job, unit, agent, tunnels, applied, clock, alerts, taken>>

(* A request that writes the Device row: renamed, disabled or enabled by   *)
(* an operator, or marked by the offline sweep.  A rename changes the spec.*)
EditDevice(d) ==
  /\ "edit device" \in Environment
  /\ unit' = Invalidate({}, {d})
  /\ \/ UNCHANGED spec
     \/ \E s \in Specs : <<spec[d], s>> \in Edits /\ spec' = [spec EXCEPT ![d] = s]
  /\ UNCHANGED <<job, agent, tunnels, applied, clock, alerts, taken>>

(* JobTimeoutScheduler.sweep: one transaction for all devices.             *)
Sweep ==
  /\ Stuck # {}
  /\ OpenUnit(Scheduler, "swept", NoRow.dev, TimedOut(Stuck), FALSE)
  /\ alerts' = alerts \cup FinalFailures(Stuck)
  /\ UNCHANGED <<job, agent, tunnels, applied, spec, clock, taken>>

(* JobRetentionScheduler.prune, with a cutoff between jobs k and k + 1.    *)
Prune(k) ==
  LET old == {j \in 1..k : job[j].status \in Terminal} IN
  /\ "prune" \in Environment
  /\ k \in old
  /\ job' = [j \in JobId |-> IF j \in old THEN [job[j] EXCEPT !.status = "DELETED"] ELSE job[j]]
  /\ unit' = Invalidate(old, {})
  /\ UNCHANGED <<agent, tunnels, applied, spec, clock, alerts, taken>>

\* Mutant of ServerRestart: the tunnel jobs are cancelled whatever became of them.
RestartCancelsAll ==
  /\ "restart" \in Environment
  /\ unit' = [t \in Workers |-> Idle]
  /\ job' = [j \in JobId |-> IF job[j].type = "OPEN_TUNNEL" /\ job[j].status \notin {"ABSENT", "DELETED"}
                               THEN Move(job[j], "CANCELLED") ELSE job[j]]
  /\ agent' = [d \in Devices |-> IF agent[d].at = "waiting" THEN Free ELSE agent[d]]
  /\ UNCHANGED <<tunnels, applied, spec, clock, alerts, taken>>

(* The server stops with its transactions open; at boot every session is   *)
(* closed before a request is served.                                      *)
ServerRestart ==
  /\ "restart" \in Environment
  /\ unit' = [t \in Workers |-> Idle]
  /\ job' = [j \in JobId |-> IF job[j].type = "OPEN_TUNNEL" /\ job[j].status = "PENDING"
                               THEN Move(job[j], "CANCELLED") ELSE job[j]]
  /\ agent' = [d \in Devices |-> IF agent[d].at = "waiting" THEN Free ELSE agent[d]]
  /\ UNCHANGED <<tunnels, applied, spec, clock, alerts, taken>>

(* The cutoff of timeoutStuckJobs passes for a delivered job, or the time  *)
(* limit of the session for a tunnel nobody picked up.  Nothing is written.*)
Elapse(j) ==
  /\ \/ job[j].status \in Active
     \/ job[j].type = "OPEN_TUNNEL" /\ job[j].status = "PENDING"
  /\ ~job[j].late
  /\ job' = [job EXCEPT ![j].late = TRUE]
  /\ UNCHANGED <<unit, agent, tunnels, applied, spec, clock, alerts, taken>>

Tick ==
  /\ clock < MaxTime
  /\ clock' = clock + 1
  /\ UNCHANGED <<job, unit, agent, tunnels, applied, spec, alerts, taken>>

-----------------------------------------------------------------------------

Init ==
  /\ job = Clean
  /\ unit = [t \in Workers |-> Idle]
  /\ agent = [d \in Devices |-> Free]
  /\ tunnels = [d \in Devices |-> {}]
  /\ applied = [d \in Devices |-> Unknown]
  /\ spec \in [Devices -> Specs \cup {NoPlays}]
  /\ clock = 0
  /\ alerts = {} /\ taken = {}

AgentStep(d) == Started(d) \/ Prepare(d) \/ Apply(d) \/ Perform(d) \/ Finished(d)

Next ==
  \/ \E d \in Devices, t \in Threads : Checkin(d, t) \/ Operate(d, t)
  \/ \E t \in Workers : Pick(t) \/ Commit(t) \/ Rollback(t) \/ GiveUp(t)
  \/ \E d \in Devices : \/ AgentStep(d) \/ Crash(d)
                        \/ OpenTunnel(d) \/ ChangeSpec(d) \/ EditDevice(d)
  \/ \E d \in Devices, j \in JobId : TunnelFinished(d, j)
  \/ \E j \in JobId, t \in Threads : Rerun(j, t)
  \/ \E j \in JobId : \/ CancelJob(j) \/ CloseSession(j) \/ Prune(j) \/ Elapse(j)
  \/ Sweep \/ ServerRestart \/ Tick

Spec == Init /\ [][Next]_vars

\* Requests end, the sweep runs on its fixed delay and time passes.
ServerFairness ==
  /\ \A t \in Workers : WF_vars(Pick(t)) /\ WF_vars(Commit(t)) /\ WF_vars(Rollback(t))
  /\ WF_vars(Sweep) /\ WF_vars(Tick)
  /\ \A j \in JobId : WF_vars(Elapse(j))

\* An agent checks in for as long as its device runs, and works on what it got.
AgentFairness ==
  \A d \in Devices : /\ WF_vars(\E t \in Threads : Checkin(d, t))
                     /\ WF_vars(AgentStep(d))

FairServerSpec == Spec /\ ServerFairness
FairSpec == Spec /\ ServerFairness /\ AgentFairness

-----------------------------------------------------------------------------
(* Properties *)

\* Every variable has its type.
TypeOK ==
  /\ job \in [JobId -> Row]
  /\ unit \in [Workers -> Unit]
  /\ agent \in [Devices -> [at : {"idle", "waiting", "got", "running", "applying", "done"},
                            job : JobId \cup {NoJob}, exit : {0, 1}]]
  /\ tunnels \in [Devices -> SUBSET JobId]
  /\ applied \in [Devices -> Specs \cup {Unknown}]
  /\ spec \in [Devices -> Specs \cup {NoPlays}]
  /\ clock \in 0..MaxTime
  /\ alerts \subseteq JobId /\ taken \subseteq JobId

\* A finished job stays as it finished, until retention deletes it: no late
\* event, sweep, cancellation or delivery moves it again.
TerminalIsFinal ==
  [][\A j \in JobId : job[j].status \in Terminal =>
       job'[j] = job[j] \/ job'[j].status = "DELETED"]_vars

\* The moves of a job that a unit of work may be about to commit.
Moves ==
  ({"ABSENT", "PENDING"} \X {"PENDING", "DELIVERED", "CANCELLED"})
    \cup (Active \X {"SUCCEEDED", "FAILED", "TIMED_OUT"})

\* Row r is the same job as row s, one move further; an apply is delivered
\* with the fingerprint of what it delivers, and keeps it.
Follows(s, r) ==
  /\ <<s.status, r.status>> \in Moves
  /\ s.status # "ABSENT" => r.dev = s.dev /\ r.type = s.type
  /\ s.status \in Active => r.hash = s.hash
  /\ r.status = "DELIVERED" /\ r.type = "APPLY_CONFIG" => r.hash # NoHash

\* A unit of work that read rows others have since written never counts: each
\* pending write is of the job as it is now.
WritesAreCurrent ==
  \A t \in Workers, j \in JobId : Dirty(t, j) => Follows(job[j], unit[t].row[j])

\* A check-in answers with a job that it delivers.
AnswersAreOffers ==
  \A t \in Workers : unit[t].reply # NoJob =>
    unit[t].row[unit[t].reply].status = "DELIVERED"

\* An agent only holds jobs that were delivered, so that its reports never
\* reach one that was not, and knows what to apply.
WasDelivered(j) ==
  /\ job[j].status \notin {"ABSENT", "PENDING"}
  /\ job[j].type = "APPLY_CONFIG" => job[j].hash # NoHash
HeldWasDelivered ==
  \A d \in Devices :
    /\ agent[d].at \notin {"idle", "waiting"} =>
         agent[d].job # NoJob /\ WasDelivered(agent[d].job)
    /\ \A j \in tunnels[d] : WasDelivered(j)

QueueInv == WritesAreCurrent /\ AnswersAreOffers /\ HeldWasDelivered

\* Overlapping check-ins of one device never leave it with two open applies
\* that drift detection queued.
OneAutomaticApply ==
  \A i, j \in JobId :
    /\ job[i].auto /\ job[i].status \in Open
    /\ job[j].auto /\ job[j].status \in Open
    /\ job[i].dev = job[j].dev
    => i = j

\* A delivered retry was earned: between it and an earlier delivery of the
\* same attempt that is still on record lies a failure of the attempt before.
RetriesAreEarned ==
  \A j \in JobId : job[j].hash # NoHash /\ job[j].attempt > 1 =>
    \E k \in 1..(j - 1) :
      /\ job[k].dev = job[j].dev /\ job[k].hash # NoHash
      /\ job[k].attempt = job[j].attempt - 1
      /\ job[k].status \in {"FAILED", "TIMED_OUT", "DELETED"}
      /\ \A i \in k..(j - 1) : ~(/\ job[i].dev = job[j].dev /\ job[i].hash # NoHash
                                 /\ job[i].attempt = job[j].attempt
                                 /\ job[i].status # "DELETED")

\* While no response, report or agent is lost and nobody edits the device,
\* no job is left behind: a delivered job is in the hands of its agent or its
\* verdict is on the way.  A tunnel, reported in the background, can lose its
\* verdict to a check-in that writes the same Device row, and a reboot takes
\* what the agent has just received.
NothingIsStranded ==
  \A j \in JobId : job[j].status \in Active /\ job[j].type # "OPEN_TUNNEL" =>
    \/ agent[job[j].dev].job = j \/ Rebooting(job[j].dev)
    \/ \E t \in Threads : unit[t].step = "finished" /\ Dirty(t, j)

\* An apply that used up its attempts has been reported to the operators.
ExhaustedIsAlerted ==
  \A j \in JobId :
    LastAttempt(job[j]) /\ job[j].status \in {"FAILED", "TIMED_OUT"} => j \in alerts

\* What the server shows as converged is converged: when the newest
\* delivered apply of a device succeeded with the present spec and nothing
\* is open, the device did run that spec last.
ConvergedIsTrue ==
  \A d \in Devices :
    /\ \E j \in Newest(Delivered(job, d)) :
         job[j].status = "SUCCEEDED" /\ job[j].hash = spec[d]
    /\ ~\E j \in JobId : /\ job[j].dev = d /\ job[j].type = "APPLY_CONFIG"
                         /\ job[j].status \in Open
    => applied[d] = spec[d]

\* The job table read as the ledger of WorkQueue.
Phase(r) ==
  CASE r.status = "ABSENT"  -> "none"
    [] r.status = "PENDING" -> "queued"
    [] r.status \in Active  -> "offered"
    [] r.status = "DELETED" -> "gone"
    [] OTHER                -> r.status

Ledger == INSTANCE WorkQueue WITH Jobs <- JobId, phase <- [j \in JobId |-> Phase(job[j])]

\* The queue implements WorkQueue: phases only advance, a verdict is final
\* and no job reaches an agent twice, whatever is lost, retried or restarted.
ImplementsWorkQueue == Ledger!Spec

\* A delivered job ends even when its device never reports or checks in
\* again: the sweep gets to it although its transactions may lose races.
EveryDeliveryEnds ==
  \A j \in JobId : job[j].status \in Active ~> job[j].status \notin Active

\* Every queued job ends while the agents keep checking in: nothing waits
\* forever behind tunnels, reboots or jobs the device lost.
EveryJobEnds ==
  \A j \in JobId : job[j].status \in Open ~> job[j].status \notin Open

\* The newest apply delivered to d carried its present spec, and it
\* succeeded, used up its attempts, or was called off by an operator.
Settled(d) ==
  /\ ~\E j \in JobId : /\ job[j].dev = d /\ job[j].type = "APPLY_CONFIG"
                       /\ job[j].status \in Open
  /\ \/ spec[d] = NoPlays
     \/ \E j \in Newest(Delivered(job, d)) :
          /\ job[j].hash = spec[d]
          /\ \/ job[j].status \in {"SUCCEEDED", "CANCELLED"}
             \/ job[j].status \in {"FAILED", "TIMED_OUT"} /\ LastAttempt(job[j])

\* Once the edits stop, every device settles and stays settled, however many
\* responses, reports and agents are lost: no edit is forgotten, and the
\* retries come to an end.
DevicesSettle == \A d \in Devices : <>[]Settled(d)

=============================================================================
