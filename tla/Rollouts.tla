------------------------------ MODULE Rollouts ------------------------------
(***************************************************************************)
(* Rollouts: the applies of a group as one batch, with or without a canary.*)
(*                                                                         *)
(* A batch has no list of devices of its own: it is the jobs that point to *)
(* it, and a pending job is adopted by the next batch that wants its       *)
(* device.  The page of a batch polls until the batch is done.  How a job  *)
(* reaches its device is JobQueue's.                                       *)
(***************************************************************************)
EXTENDS Naturals, Sequences, FiniteSets

CONSTANTS
  Hosts,        \* the devices
  MaxBatches, MaxJobs,
  MaxGroupEdits \* bound on changes of the membership, and of the group itself

ASSUME RolloutsAssumption ==
  IsFiniteSet(Hosts) /\ {MaxBatches, MaxJobs, MaxGroupEdits} \subseteq Nat

VARIABLES
  members,    \* the group's devices
  exists,     \* the group does
  batches,    \* JobBatch rows: the stage, and the device chosen first (history)
  jobs,       \* apply jobs: the device, the batch or 0, and the status
  continues,  \* requests to continue: the batch, the devices left, how far it is
  batchPage,  \* the batch whose page is open, or 0
  batchView,  \* its cached summary
  groupEdits

rolloutsVars == <<members, exists, batches, jobs, continues, batchPage, batchView, groupEdits>>

\* FAILED stands for the three failures, which a batch counts together.
Terminal == {"SUCCEEDED", "FAILED"}

JobsOf(b) == {j \in DOMAIN jobs : jobs[j].batch = b}
Count(b, status) == Cardinality({j \in JobsOf(b) : jobs[j].status = status})

\* JobBatchController.summarize.
Summary(b) ==
  [stage |-> batches[b].stage, total |-> Cardinality(JobsOf(b)),
   succeeded |-> Count(b, "SUCCEEDED"), failed |-> Count(b, "FAILED"),
   done |-> \A j \in JobsOf(b) : jobs[j].status \in Terminal]

NoView == [stage |-> "none", total |-> 0, succeeded |-> 0, failed |-> 0, done |-> FALSE]

RolloutsInit ==
  /\ members = Hosts /\ exists = TRUE
  /\ batches = << >> /\ jobs = << >> /\ continues = {}
  /\ batchPage = 0 /\ batchView = NoView /\ groupEdits = 0

-----------------------------------------------------------------------------
(* JobService.                                                             *)

Pending(h) == {j \in DOMAIN jobs : jobs[j].host = h /\ jobs[j].status = "PENDING"}

\* enqueueApply for each host: its pending job is adopted, or a new one is queued.
\* (That two requests may both find none is JobQueue's.)
Enqueued(hosts, b) ==
  LET kept == [j \in DOMAIN jobs |->
                 IF b # 0 /\ \E h \in hosts : j \in Pending(h)
                 THEN [jobs[j] EXCEPT !.batch = b] ELSE jobs[j]]
      Fresh(h) == Pending(h) = {}
      orders == {f \in [1..Cardinality({h \in hosts : Fresh(h)}) -> hosts] :
                   {f[i] : i \in DOMAIN f} = {h \in hosts : Fresh(h)}}
      order == CHOOSE f \in orders : TRUE
  IN  kept \o [i \in DOMAIN order |-> [host |-> order[i], batch |-> b, status |-> "PENDING"]]

NewBatch(stage, first) == Append(batches, [stage |-> stage, first |-> first])

\* A page opens on a batch it has no copy of.
OpensPage(b) == batchPage' = b /\ batchView' = NoView

Room == Len(batches) < MaxBatches /\ Len(jobs) + Cardinality(Hosts) <= MaxJobs

\* GroupDetail, the dialog, GroupController.apply and enqueueBatchForGroup: the canary
\* is the device that was in contact last.
ApplyGroup(canary) ==
  /\ exists /\ Room /\ members # {}
  /\ canary => Cardinality(members) > 1
  /\ \E first \in IF canary THEN {{h} : h \in members} ELSE {members} :
       /\ batches' = NewBatch(IF canary THEN "CANARY" ELSE "none", first)
       /\ jobs' = Enqueued(first, Len(batches) + 1)
  /\ OpensPage(Len(batches) + 1)
  /\ UNCHANGED <<members, exists, continues, groupEdits>>

\* One device alone: its page, a re-run, or drift detection.
ApplyHost(h) ==
  /\ Room /\ Pending(h) = {}
  /\ jobs' = Enqueued({h}, 0)
  /\ UNCHANGED <<members, exists, batches, continues, batchPage, batchView, groupEdits>>

\* Mutant: a canary batch that lost its job counts as successful, as the page shows it.
NoneFailed(b) == \A j \in JobsOf(b) : jobs[j].status = "SUCCEEDED"

CanarySucceeded(b) == JobsOf(b) # {} /\ \A j \in JobsOf(b) : jobs[j].status = "SUCCEEDED"

Rest(b) == members \ {jobs[j].host : j \in JobsOf(b)}

\* continueRollout reads the batch and its jobs; the page, or another operator, asks.
StartContinue(b) ==
  /\ batches[b].stage = "CANARY" /\ exists /\ CanarySucceeded(b)
  /\ Cardinality(continues) < 2
  /\ \E id \in {1, 2} \ {c.id : c \in continues} :
       continues' = continues \cup {[id |-> id, batch |-> b, rest |-> Rest(b), stale |-> FALSE]}
  /\ UNCHANGED <<members, exists, batches, jobs, batchPage, batchView, groupEdits>>

\* Mutant: JobBatch has no version.
AnyVersion(c) == TRUE

SameVersion(c) == ~c.stale

OldContinues(requests, b) == {[c EXCEPT !.stale = c.stale \/ c.batch = b] : c \in requests}

\* The batch is written only if nobody else wrote it; then its jobs are in place.
CommitContinue(c) ==
  /\ SameVersion(c) /\ Len(jobs) + Cardinality(c.rest) <= MaxJobs
  /\ batches' = [batches EXCEPT ![c.batch].stage = "FULL"]
  /\ jobs' = Enqueued(c.rest, c.batch)
  /\ continues' = OldContinues(continues \ {c}, c.batch)
  /\ UNCHANGED <<members, exists, batchPage, batchView, groupEdits>>

FailContinue(c) ==
  /\ continues' = continues \ {c}
  /\ UNCHANGED <<members, exists, batches, jobs, batchPage, batchView, groupEdits>>

\* What failed in a finished batch is retried: by this page, which moves to the new
\* batch, or by somebody else's.
Retry(b, here) ==
  LET hosts == {jobs[j].host : j \in {i \in JobsOf(b) : jobs[i].status = "FAILED"}}
      seen  == IF here THEN batchView ELSE Summary(b)
  IN  /\ here => batchPage = b
      /\ seen.done /\ seen.failed > 0 /\ Room
      /\ batches' = NewBatch("none", {}) /\ jobs' = Enqueued(hosts, Len(batches) + 1)
      /\ IF here THEN OpensPage(Len(batches')) ELSE UNCHANGED <<batchPage, batchView>>
      /\ UNCHANGED <<members, exists, continues, groupEdits>>

-----------------------------------------------------------------------------
(* Jobs and groups go their way.                                           *)

Advance(j, from, to) ==
  /\ jobs[j].status \in from
  /\ jobs' = [jobs EXCEPT ![j].status = to]
  /\ UNCHANGED <<members, exists, batches, continues, batchPage, batchView, groupEdits>>

Deliver(j)   == Advance(j, {"PENDING"}, "RUNNING")
Succeed(j)   == Advance(j, {"RUNNING"}, "SUCCEEDED")
\* Failed, timed out, or cancelled.
FailJob(j)   == Advance(j, {"PENDING", "RUNNING"}, "FAILED")

ChangeMembers ==
  /\ groupEdits < MaxGroupEdits /\ groupEdits' = groupEdits + 1
  /\ exists /\ \E h \in Hosts : members' = IF h \in members THEN members \ {h} ELSE members \cup {h}
  /\ UNCHANGED <<exists, batches, jobs, continues, batchPage, batchView>>

\* Its batches stay, without a group: they are written.
DeleteGroup ==
  /\ groupEdits < MaxGroupEdits /\ groupEdits' = groupEdits + 1
  /\ exists /\ exists' = FALSE /\ members' = {}
  /\ continues' = {[c EXCEPT !.stale = TRUE] : c \in continues}
  /\ UNCHANGED <<batches, jobs, batchPage, batchView>>

-----------------------------------------------------------------------------
(* The page of a batch.                                                    *)

OpenBatch(b) ==
  /\ b # batchPage /\ OpensPage(b)
  /\ UNCHANGED <<members, exists, batches, jobs, continues, groupEdits>>

\* Polled until it is done, and refetched after a request of this page.
PollBatch ==
  /\ batchPage # 0
  /\ ~batchView.done \/ batchView.stage = "CANARY"
  /\ batchView # Summary(batchPage) /\ batchView' = Summary(batchPage)
  /\ UNCHANGED <<members, exists, batches, jobs, continues, batchPage, groupEdits>>

RolloutsNext ==
  \/ ApplyGroup(TRUE) \/ ApplyGroup(FALSE)
  \/ \E h \in Hosts : ApplyHost(h)
  \/ \E b \in DOMAIN batches : StartContinue(b) \/ OpenBatch(b)
                               \/ Retry(b, TRUE) \/ Retry(b, FALSE)
  \/ \E c \in continues : CommitContinue(c) \/ FailContinue(c)
  \/ \E j \in DOMAIN jobs : Deliver(j) \/ Succeed(j) \/ FailJob(j)
  \/ ChangeMembers \/ DeleteGroup \/ PollBatch

RolloutsSpec == RolloutsInit /\ [][RolloutsNext]_rolloutsVars

-----------------------------------------------------------------------------
RolloutsTypeOK ==
  /\ members \subseteq Hosts
  /\ \A b \in DOMAIN batches : /\ batches[b].stage \in {"none", "CANARY", "FULL"}
                               /\ batches[b].first \subseteq Hosts
  /\ \A j \in DOMAIN jobs : /\ jobs[j].host \in Hosts
                            /\ jobs[j].batch \in {0} \cup DOMAIN batches
                            /\ jobs[j].status \in Terminal \cup {"PENDING", "RUNNING"}
  /\ \A c \in continues : c.batch \in DOMAIN batches /\ c.rest \subseteq Hosts
  /\ batchPage \in {0} \cup DOMAIN batches

\* "Canary first - apply to 1 device, continue to the rest only after it succeeded": a
\* batch that went on to the rest has the success of the device that was chosen first,
\* and had it then: a canary whose job another batch took over is never continued.
CanaryGoesFirst ==
  \A b \in DOMAIN batches : batches[b].stage = "FULL" =>
    \E j \in JobsOf(b) : jobs[j].host \in batches[b].first /\ jobs[j].status = "SUCCEEDED"

\* A batch applies no device twice, also when two operators continue it at once, or the
\* group changes, or its jobs move to other batches.
OncePerDevice ==
  \A i, j \in DOMAIN jobs :
    i # j /\ jobs[i].batch = jobs[j].batch /\ jobs[i].batch # 0 => jobs[i].host # jobs[j].host

=============================================================================
