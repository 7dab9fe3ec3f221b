# Svenager in TLA+

This directory holds a formal model of Svenager: TLA+ modules translated from
the server (Groovy/Grails), the device agent (Go) and the web console (React),
TLC configurations that check them on small instances, and theorems about them
checked by TLAPS.

Paths below are relative to the repository; `JobService` stands for
`server/grails-app/services/de/klackwerk/svenager/JobService.groovy`, and so on.

## The system

Svenager manages fleets of Linux devices. The server keeps devices, groups,
roles discovered in Ansible repositories, variables and jobs in PostgreSQL. An
agent on each device polls the server ("check-in"), gets at most one job per
check-in, runs it locally and reports back.

| Part | State | Operations | Talks to |
|---|---|---|---|
| Job queue (`JobService`, `CheckinService`, `Job`) | the `job` table | queue, adopt, re-run, cancel, deliver, detect drift, retry, time out, accept events | every other part that queues work; agents |
| Schedulers (`schedule/`) | none of their own | time out stuck jobs, prune old ones, sync repositories, mark devices offline | job queue, repositories, alerts |
| Agent (`agent/internal/agent`) | the job in hand, background tunnels, the configuration of the device | check in, run jobs, report | server over HTTPS |
| Remote sessions (`RemoteSessionService`, `tunnel/`) | `remote_session` rows, pairs of sockets in memory | open, connect agent and viewer, relay, close, expire | job queue (a tunnel is a job), agent, browser |
| Rollouts (`JobService`, `JobBatch`) | `job_batch` rows, a stage | fan out, canary, continue, retry failed | job queue, groups |
| Enrollment (`EnrollmentService`, `register.go`) | tokens, requests, credentials handed out once | register, approve, reject, poll, save credentials | devices |
| Repositories (`RepoSyncService`, `RepoAnalyzerService`) | working directories, `discovered_role` rows, the last commit | sync, analyse, archive a bundle | job queue (the spec), agents (bundles) |
| Groups and variables (`GroupService`, `composeSpec`) | memberships, role assignments, variables | assign, order, merge | job queue (the spec) |
| Alerts (`AlertService`, `NotificationService`) | an offline flag per device, an executor | sweep, broadcast | job queue, e-mail and webhooks |
| Accounts (`UserService`, `SsoLoginService`, `AccessService`) | users, scopes, mappings | create, demote, delete, log in | every controller |
| Rate limits (`RateLimitService`) | counters in memory | count, prune | public endpoints |
| Web console (`frontend/src`) | cached copies of what the server answered (TanStack Query), unsaved drafts, open dialogs, mutations on their way | edit, select, tick, move, confirm, bulk actions, follow a rollout, view a screen | every controller, over one session cookie |
| Kiosk demo, deployment, audit, dashboard, search | nothing the others depend on | | |

What is hard in this system:

* **Concurrency in the database.** Every request is a transaction at READ
  COMMITTED; the only protection against interleavings is Hibernate's version
  column, which guards rows that are *written*, not queries that found nothing.
* **An unreliable link.** A response that gets lost leaves a job delivered that
  nobody works on; a report that gets lost leaves a finished job running; an
  agent that gives up on a slow response checks in again while the first
  request is still being served.
* **Effects outside the transaction.** Notifications are handed to an executor
  before the commit.
* **Convergence.** Nothing triggers an apply when a variable, role, group or
  commit changes. The server compares, at each check-in, what it would apply
  with the fingerprint of the last delivery, and what it keeps of that delivery
  can be cancelled, timed out, retried or deleted in the meantime.
* **Stale copies.** Every page of the console works on copies that polls, its
  own refetches and other operators replace at any moment, while the requests it
  sends are built on them, often as a whole list that replaces what is stored;
  answers come in any order, and callbacks run for whatever is open by then.
* **Restarts.** An agent may die between a delivery and a report, replace its
  own process, or reboot its device; the server may stop with transactions open.

## Modules

| Module | What it is |
|---|---|
| `WorkQueue` | the abstract specification: a ledger of jobs |
| `JobQueue` | the job queue, the schedulers that touch it, and the agents |
| `JobQueueMC` | constants for TLC |
| `Tunnel` | one remote session: its row, the pairing of its sockets, the threads that work on them |
| `TunnelMC` | constants for TLC |
| `Viewer` | the page of a remote screen or terminal, with the sessions it opens |
| `Variables` | the two editors of a device's or group's variables, and the list they replace |
| `Memberships` | the group checkboxes of a device |
| `RoleOrder` | the roles of a group and the order they run in |
| `Tokens` | enrollment tokens: created, shown once, used, revoked |
| `Approvals` | registration requests: polls of devices, decisions of administrators |
| `Fleet` | the list of devices: filter, pages, selection, bulk actions, removal |
| `Accounts` | users: roles, disabling, passwords, single sign-on |
| `SignIn` | who is signed in, as the console sees it |
| `Rollouts` | batches of applies, with a canary or without |
| `Sources` | one Ansible repository: edits against syncs |
| `Console`, `ConsoleMC` | the ten modules from `Variables` to `Sources` as one specification, and its constants for TLC |
| `JobQueue_proofs`, `JobQueueOutcomes_proofs` | theorems about `JobQueue`: its transactions, and what becomes of its jobs |
| `Tunnel_proofs`, `Viewer_proofs` | theorems about these modules |
| `Enrollment_proofs` | theorems about `Tokens` and `Approvals` |
| `Accounts_proofs` | theorems about `Accounts` and `SignIn` |
| `Configuration_proofs` | theorems about `Memberships`, `RoleOrder`, `Sources`, `Rollouts` and `Fleet` |
| `Console_proofs` | theorems about `Variables`, and about the console as a whole |

### JobQueue: state

| Variable | In the code |
|---|---|
| `job` | the `job` table: device, type, status, attempt, `spec_hash`, `run_after`, whether drift detection queued the row (`triggered_by`), and whether its time is up (`delivered_at` against the cutoff, or `expires_at` of a tunnel's session) |
| `unit` | per server thread: the Hibernate session of the request, with the rows it will write and the job it will answer with |
| `agent` | per device: where the main loop of `agent.go` and `runJob` is |
| `tunnels` | per device: the goroutines that serve tunnels |
| `applied` | per device: the spec that `ansible-playbook` last completed, which no part of the program records |
| `spec` | per device: what `composeSpec` returns, up to its fingerprint |
| `clock` | which scheduled times (`runAfter`) have passed |
| `alerts`, `taken` | history: failure notifications handed out, jobs an agent received |

A job id is also its age: ids come from a sequence, and the id is drawn where
`dateCreated` is set.

### JobQueue: requests as units of work

A request that decides from a query and then inserts, or that has an effect
before it commits, is modelled in steps:

* it **opens** a unit of work: it runs its queries on committed rows and
  computes the rows it will write (`Checkin`, `Enqueue`, `PostFinished`,
  `Sweep`); a check-in continues with `Pick`, which queries again;
* it **commits** (`Commit`): the rows are written, and every other unit that
  was to write one of them, or the same Device row, becomes stale;
* or it **rolls back** (`Rollback`) when it has become stale.

Which requests write the Device row matters: a check-in (`lastContactAt`) and a
finished event (`lastJobAt`) do, an operator's request does not (`Touches`).
This one column is what keeps overlapping check-ins from queueing the same
apply twice.

A request whose reads are all of rows it writes (`CancelJob`, `CloseSession`,
`Started`, `Prune`) is one atomic step, because the version check admits it
only if those rows are unchanged. So is `OpenTunnel`, which decides nothing
from the job table.

`Elapse` and `Tick` are the passage of time; they write nothing. `GiveUp` is
the agent's HTTP timeout: the request goes on without it. `Crash` also stands
for the end of the process when a reboot that was asked for takes effect, which
may be after the agent has checked in again.

### WorkQueue: what the queue promises

A job is queued, offered to its device at most once, decided once, and perhaps
forgotten. A device takes a job only in the step that offers it. The mapping
(`Phase`) forgets attempts, specs, devices, transactions and agents.

### Tunnel

| Variable | In the code |
|---|---|
| `status`, `reason` | the `remote_session` row |
| `late` | `expires_at` has passed |
| `entry` | `TunnelBroker.tunnels[uuid]` |
| `tunnel` | the `Tunnel` objects; one that left the map may still be held by a callback |
| `conn`, `gone` | the sockets, and those whose handler has not been told of their end |
| `handler` | per socket: the point its callback has reached, and the pairing it holds |
| `closer` | the calls of `TunnelBroker.close` in progress, one per thread that can make one |
| `sent`, `out`, `left` | history: frames sent by the device, frames relayed, sockets that ended by themselves |

`agentOpened` is `AgentFetch`, `AgentCheck`, `AgentAttach`, `AgentSchedule` and
the transaction of `agentConnected`; `viewerOpened` is `ViewerCheck`,
`ViewerAttach` and `viewerConnected`; a frame from the device is `Receive` and
`ToViewer`; `close` is `CloseRemove`, `CloseRead` and `CloseWrite`. The only
lock is that of the backlog: it covers `ViewerAttach` and `ToViewer`, and also
the close that a failing relay makes under it. A transaction reads and then
commits if the status is still the one it read; because the status only moves
forward, this is the version check. When it fails the call throws, which ends
the callback and closes its socket.

A session begins with its row: `RemoteSessionService.open` is in `JobQueue`,
where it queues the tunnel's job. What the two modules say of each other fits:
the ledger hands a job out at most once, so that a device normally connects
once, and `Tunnel` says nothing about jobs. Sessions do not meet in the broker,
whose map is keyed by the session, so one session is enough.

### Viewer

| Variable | In the code |
|---|---|
| `session` | the operator's `remote_session` rows for the device: their status |
| `open` | the query of `useOpenRemoteSession` or `useOpenShellSession`, whose fetch is a POST |
| `strays` | POSTs whose query was dropped and which the server may still serve |
| `seen`, `poll` | the cached status (`useRemoteSession`) and its request |
| `ending` | the mutation of `useCloseRemoteSession` |
| `socket` | `rfbRef` or `wsRef`: the session it was made for, and its state |
| `wanted`, `refocused`, `overtaken` | history |

`RemoteView` and `DeviceShell` are one module, because their logic is the same.
The server is reduced to the life of its rows: waiting, used by a viewer,
closed. `Tunnel` has the sockets behind them, and its session is one row here.

### The areas of the console

Each module has the page, its requests and the rows behind them. What they
share in form:

* a **request** is a record with a phase: sent, served or stored by the server,
  answered; it can fail on the way there or back. A transaction that reads in
  one step and writes in another has a phase for what it read, and commits only
  if the row is still that (the version column);
* a **cached copy** is a variable of its own; a poll, a refetch or a focus asks,
  the server answers with what is stored *then*, and the copy is replaced when
  the answer arrives. Asking again while a request is out gives the first up,
  as `invalidateQueries` does;
* the **callbacks** of a mutation are part of the action that delivers its
  answer; those passed to `mutate` only run for its latest call and a page that
  is still there;
* **other operators**, devices and timers act on the rows directly;
* **history** variables record the excuses a property names, such as a click
  that fell into the gap between an answer and the refetch, so that a property
  says exactly under which interleavings the page may be wrong.

| Module | State | In the code |
|---|---|---|
| `Variables` | `stored`, `declared` | `config_variable` rows, and the names the roles declare |
| | `shown`, `roles`, `fetch` | `useDevice` (or `useGroup`) and `useDeviceEffectiveRoles` |
| | `custom`, `form` | the state of `VariablesEditor` and `RoleVariablesForm` |
| | `guard`, `asked`, `put` | `NavigationGuard`, and the mutation that replaces the list |
| `Memberships` | `member`, `ticked`, `reading` | the rows, `useDevice` and its request |
| | `sets`, `busyGroup` | `useSetDeviceGroups` and `pendingGroupId` |
| `RoleOrder` | `position`, `listed`, `looking` | `group_role_assignment` by assignment (a role that is removed and assigned again is another row, with an id that older orders lack), `useGroup` and its request |
| | `requests` | assign, remove and reorder, in the order they were sent |
| `Tokens` | `tokenRow`, `enrolled`, `enrolment` | the tokens, the devices, and requests of `EnrollmentService.enroll` |
| | `creation`, `onDisplay`, `tokenList`, `toRevoke`, `revocation` | the page |
| `Approvals` | `request`, `owner`, `registering`, `identity` | the request row, the devices made from it, polls of `RegisterAndWait`, what an agent saved |
| | `requestList`, `deciding`, `toDeny` | the page, per administrator |
| `Fleet` | `fleet`, `off`, `joined` | the devices, those disabled, those in the group |
| | `query`, `looked`, `view` | the key of `useDevices`, its request, and the data on screen, which stays while the next is fetched |
| | `selected`, `modal`, `bulk`, `removal`, `claim` | the selection, the dialogs, the loop of a bulk mutation, its message |
| `Accounts` | `account`, `password`, `mapping` | the users, for whom each password was typed, the role the mappings grant |
| | `updates`, `target`, `typed` | requests, the password dialog and its field, per administrator |
| `SignIn` | `alive`, `cookie` | the server's session and the browser's |
| | `me`, `meFailed`, `meFetch`, `call`, `login`, `logout` | the query `me` and everything that writes it |
| `Rollouts` | `members`, `batches`, `jobs` | the group, `job_batch`, apply jobs with the batch they point to |
| | `continues`, `batchPage`, `batchView` | transactions of `continueRollout`, and the page |
| `Sources` | `repo`, `holder` | the repository, and the sync that has its row locked |
| | `editing`, `save`, `sync` | the dialog, `RepositoryController.update`, and syncs of a page and of the timer |

`Console` puts them side by side. They write no row and no cached query in
common, so the runs explore one area at a time (`area`); that what holds in each
holds in all of their interleavings is a theorem. Of the areas left alone one initial state
is taken. `Rollouts` and `JobQueue` both have apply jobs: `Rollouts` has only
which batch they point to and how they end, and leaves their delivery to
`JobQueue`, which has no batches.

## Runs

Devices, threads, jobs and attempts are bounded by constants; every bound is
named in the module. `MaxRequests` reserves the remaining job ids for drift
detection, so that operators cannot use them all up.

| Run | Question | Instance |
|---|---|---|
| `overlap` | do overlapping check-ins queue an apply twice, or count a retry twice; is every exhausted apply reported? | 1 device, 2 threads, 4 jobs, 2 attempts, 2 specs, one edit, lost responses, a rename |
| `requests` | is a job left behind although nothing is lost? | 2 threads, 2 jobs of any kind, cancellation, a device whose last role comes and goes |
| `ledger` | do the queue's pending writes stay legal, does anything move a finished job, and does the queue implement `WorkQueue`? | 2 threads, 2 jobs, tunnels, every fault at once |
| `serial` | is a device that is shown as converged converged? | 1 thread, 2 specs edited back and forth, scheduled applies, crashes (which lose responses and reports) |
| `settle` | does every device settle once the edits stop? | fair agents and server, 2 attempts, lost responses and reports |
| `ends` | does every queued job end? | fair agents and server, crashes, tunnels ahead of an apply |
| `sweeps` | does every delivery end when agents fall silent? | 2 devices, fair server only, Device rows edited at any time |
| `pairing` | does the viewer get what the device sent; does every pairing have a timer; does the first end of a session stand? | 1 device connection, 2 browser connections, 3 frames, 1 fits in the backlog, peers leave or are slow, restarts |
| `time_limit` | does the server alone disconnect the device? | 2 device connections, an operator who ends the session, fair threads |
| `viewer` | is a session made that nobody asked for; can a new one be attached; does a page wait forever? | 3 sessions, 3 clicks, 1 failed request, focus, another tab, a dropped socket, leaving the page |
| `console` | see below | one of the ten areas at a time |

The areas of `console`, with their instances:

| Area | Properties | Instance |
|---|---|---|
| variables | `DraftsSurvive`: typing survives what others do. `SavesKeepTheRest`: a save that replaces a list leaves alone what was not touched | 2 devices, 2 names of which roles declare one or none, rows with one name, rows added up to 2, a save, 2 edits, visits or writes of others, values a role refuses |
| memberships | `TogglesAddUp`: quick clicks add up. `TicksAreTrue`: the checkboxes show what is stored | 2 groups, 2 clicks, 1 write of another |
| roleOrder | `MovesAddUp`: quick moves, assignments and removals end in the order asked for | 3 roles, 2 clicks, 1 assignment of another |
| tokens | `UsesAreCounted`, `EveryTokenIsShown` | 2 tokens with one use, 2 machines |
| approvals | `OneDevicePerApproval`, `NoGhosts`, `DecisionsStand` | 2 devices with one request id, 2 administrators, 4 writes of the request, one lost response |
| fleet | `RowsAreReachable`: rows that match can be paged to. `SuccessIsWhole`: a message of success is about every device it counts | 2 devices, pages of one, one action |
| accounts | `AnAdminRemains`, `PasswordsGoWhereTyped` | 2 administrators with the page open, an SSO user, a new user, 2 requests, one sign-in or mapping |
| signIn | `NobodyIsThrownOut`: nobody with a live session sees the login form | 2 sessions, a request besides `me`, 2 failures, expiries or other tabs |
| rollouts | `CanaryGoesFirst`, `OncePerDevice` | 2 devices, 2 batches, 3 jobs, one change of the group |
| sources | `EditsStand`, `AlertedOncePerOutage` | 2 locations, one of them http, an editor, a page and the timer, 2 failing syncs |

`ConsoleTypeOK` is the type invariant of whichever area is looked at.

Each property comes with a mutant of the definition it depends on, written next
to that definition, under which the same run finds the property violated.

Why these bounds are enough to be interesting: two threads are what a race
between two requests of one device needs (the sweep has a thread of its own); a
lost response, the timeout, the retry and its failure fit in two jobs, and an
edit in between in four; two attempts are the smallest number for which
"retry", "last attempt" and "reset" differ; the one run that depends on more
than one device, the sweep's single transaction, has two. Rows of different
devices meet only in that transaction. Where threads are interchangeable and
only safety is checked, the runs use their symmetry.

In `pairing` one device connection is enough for the order of frames, because
a tunnel's job is handed out once; two browser connections are what duplicates
and races need; three frames overflow a backlog of one after another frame was
kept. `time_limit` has two device connections and no browser: the race is about
which of them the pairing serves, and a browser adds nothing to it.

In `console`, two of everything that can meet: two clicks are what "the one
before is still on its way" needs, two devices with pages of one are the
smallest list whose last page can go, two administrators and two clones are
what a race needs, and three roles are the fewest in which two moves differ
from one. In `viewer` three sessions are the one that was opened, the one that
follows it, and the one that should not have been made.

Runs stop when ids run out, so deadlock is not checked; the liveness runs are
built so that the ids reserved for drift detection are enough for what they
claim.

### Disagreements between the code and what it says

One run checks a statement of a comment, and TLC finds a behaviour of the code
that breaks it.

* `duplicate_viewer`: the audit trail says "why the session ended"
  (`RemoteSession` 5-6). A browser that mounts the view twice connects twice;
  the second socket is refused, and closing *it* ends the live session as
  "viewer disconnected", because `viewerClosed` does not look at the socket.

Others were met while modelling and are not runs of the project. On the server:

* "One open apply per device, always" (`JobService` 27-29): two operators press
  Apply at once, and both queries find nothing pending.
* The broker reports "every lifecycle transition" (`TunnelBroker` 20). The
  device leaves while `viewerConnected` is about to commit: the pairing is taken
  down, the close of the row loses the version check, and the session stays open
  without a pairing until its time limit.
* The sweep hands a final-failure notification out before its transaction, which
  may lose to a late report of success; so does a sync with its alert when the
  server stops before the commit.
* With a second thread the instance of `serial` reaches states in which a device
  is shown as converged on a spec it does not run: after two applies were queued
  at once, drift detection takes the one *created* last for the one delivered
  last (`JobService` 201-202, 216-217).
* Two viewers can both find no viewer and attach one after the other
  (`TunnelBroker` 69-74); the first is cut off and nobody closes its socket. A
  browser that attaches to a pairing just removed from the map is not closed
  either; the container's idle limit ends it.
* "Continue to the rest only after it succeeded": the batch keeps to it, but
  drift detection applies the changed configuration to the other members at
  their next check-in (`JobService` 207-229).
* A canary's job that is adopted by another batch leaves its own empty, whose
  page says "The canary device succeeded" (`BatchDetail` 25-27) and offers a
  continuation that the server refuses.
* The second role of a group gets the position of the first (`GroupService` 117:
  `max() ?: -1` takes 0 for nothing), so their order is the database's.
* Two administrators who demote each other at once both count the other; and a
  sign-in through the provider may take the role of the last administrator.

In the console:

* A click that falls between an answer and the refetch is built on the old copy
  and undoes the click before (`DeviceDetail` 96, `GroupDetail` 108).
* A save of the variables form that fails leaves the form with the text it sent,
  unguarded, until the list or the roles change (`RoleVariablesForm` 167-170); the
  next save of either editor stores it.
* A variable whose value a role no longer accepts is in neither editor's list, and
  the next save of the other editor deletes it (`RoleVariablesForm` 142-145).
* A failed refetch of `me`, or of a group, replaces the page by an error and its
  drafts are lost (`App` 70-76). A discard keeps a dirty editor when the next
  page is that of another device, and its text is then that device's draft.
* A 401 that was on its way when somebody signed in signs the new session out.
* The answer to an edit of a repository, and to other dialogs, closes whichever
  dialog is open by then.
* With exactly `PAGE_SIZE` rows left and the offset behind them, the list of
  devices shows neither rows nor a pager (`Devices` 377).
* A password left in the dialog of one user is there in the dialog of the next
  (`Users` 423).
* After a session was ended, the focus of the window refetches the query that
  opens sessions, and makes one (`hooks.ts` 753-764 avoid only the immediate
  refetch).

Each of these is excluded by name in the property it touches: by a history
variable (`excuse`, `reasons`, `overtaken`, `overlap`, `reused`, `shrunk`,
`refocused`, `cutShort`, ...), never by leaving the behaviour out of the model.

Two more observations concern intent, and no run decides them. An apply that is
cancelled *before* delivery has no fingerprint, so the next check-in queues it
again, although a cancelled apply "stays an operator decision" (`JobService`
205). And when retention deletes an apply that used up its attempts, the next
check-in starts over with an unchanged spec (`JobService` 241-242 says it would
not).

## Fairness

`ServerFairness`: a request that can take its next step eventually does, the
sweep runs again and again (`fixedDelay`), and time passes. `AgentFairness`: an
agent that can check in does (the loop of `agent.go` retries forever and
systemd restarts it), and an agent that has a job works on it; `ansible-playbook`
is bounded by the job timeout. Weak fairness is enough everywhere, because
nothing disables these steps again and again except progress. The end of a
background tunnel, operators, edits, crashes and lost messages are never
assumed. `EveryDeliveryEnds` does not assume the agents either.

In `Tunnel`, `ServerFairness` assumes that threads of the server run and that
time passes; peers, operators and requests (which sweep stale sessions) are not
relied on.

`Viewer` assumes that a request to open a session is served and its answer
arrives, that the interval of the status query fires as long as it is set, that
a handshake gets an answer, and that the server's time limit passes. It assumes
neither that devices connect, nor that operators click, nor that a request
which may fail does not (a failure ends the waiting with a message). `console`
is checked for safety only.

## Proofs

The theorems hold for every value of the constants that satisfies the named
assumptions of the modules (bounds are numbers and positive, the scheduler is
not a request thread, special values are none of the ordinary ones, a role is
listed once, an administrator was bootstrapped before anybody opens a page),
all of which TLC evaluates in the runs. Two theorems have a hypothesis of their
own, given below.

Each property that is not inductive has an inductive invariant. Those were
model-checked before they were proved, most of them on larger instances than
the runs have.

### The job queue

`JobQueue_proofs`: `TypeCorrect`, `Inductive` (`QueueInv`), `Finality`
(`TerminalIsFinal`), `Implementation` (`ImplementsWorkQueue`).

The inductive invariant is `TypeOK /\ QueueInv`. Neither finality nor the
refinement is inductive: a commit may do whatever the unit of work computed
when it was opened, and other requests have committed since. `QueueInv` says
that this is harmless: every row a unit will write is one legal move
(`Follows`) away from the row as it is *now*. It is preserved because a commit
or an atomic write voids every unit that would write the same row
(`InvalidateKeeps`), and established because each request only opens a unit
with moves that follow what it read. Its other conjuncts say that an answer
carries a job that its unit delivers, and that an agent only holds jobs that
were delivered, so that its reports never reach a job that was not. From the
invariant, `StepEvolves` shows that every step moves each row along `Evolves`;
finality and the refinement follow from this alone, with `TakenStep` for the
jobs that agents receive.

`JobQueueOutcomes_proofs` has the properties that depend on the history of a
device.

| Theorem | Property | Inductive invariant, and why it is needed |
|---|---|---|
| `OneAtATime`, `Earned`, `Alerted` | `OneAutomaticApply`, `RetriesAreEarned`, `ExhaustedIsAlerted` | `RetryInv`. Two check-ins of a device decide from the same queries and know nothing of each other. The invariant speaks of the table as each unit of work *sees* it (`View`: what is committed, with what the unit will write): an automatic apply to be inserted is alone in that view, a retry is earned in it, and both belong to a unit that also writes the Device row. A commit either leaves the view of another unit as it was, in what matters, or has written that Device row too and voids the unit |
| `NothingLeftBehind` | `NothingIsStranded` | `HandInv`: an agent has one request open and waits for it, and a job that was delivered is in its hands or in that request |
| `Converged` | `ConvergedIsTrue` | `ConvInv`: at most one apply of a device waits, and it is newer than everything delivered; the apply an agent works on is the newest; a success about to be recorded is that of the newest, and the device has run nothing since |

`NothingLeftBehind` assumes `Quiet`: nothing is lost, nobody edits a Device row,
and no tunnel reports in the background. Otherwise the property is false, as it
should be: a lost response leaves a job with nobody, which is what the timeout is
for. Cancellation, retention, changing specs and any number of operators remain.
`Converged` assumes `Serial`: the server takes one request at a time and
retention deletes nothing. The section on disagreements says what a second
thread does to it, and retention deletes the rows that drift detection looks
back to. Lost messages, crashes, reboots, edits and cancellation remain. The
runs `requests` and `serial` are instances of these hypotheses.

Proving `Earned` corrected the property. It said that a failure lies between a
retry and *every* earlier delivery of the same attempt. An apply that was
scheduled by an operator is delivered after younger ones, so ids are not the
order of delivery, and once retention has deleted a row there is nothing it
counts for; the property is now about deliveries that are still on record.

### Tunnel

`Tunnel_proofs`, for any number of connections, frames and closing threads:

* `AuditTrail` (`AuditStands`): the invariant it needs is in the types. A closer
  only ever saw an open status, so that a close that passes the version check is
  the first;
* `Timers` (`EveryPairingIsTimed`): the property is not inductive. A pairing may
  be without a timer because its callback is yet to start it, and a callback may
  come to a pairing that another one created, or that has left the map. The
  invariant says this of every pairing, in the map or not (`Timed`), that a
  callback only runs on a connected socket (`Begun`), and that nothing refers to
  a connection's pairing before it is created (`Fresh`), which is why a new
  pairing has no spent timer;
* `TunnelTyped` (`TypeOK`), with the limit of the backlog (`Bounded`);
* `FramesKeepOrder` (`FramesInOrder`): what a pairing relayed and kept is a
  sequence to which threads append and from which a closing thread cuts the end
  (the frames an attaching viewer did not get any more). `Orderly` says of every
  pairing that each device's frames are in it in order and from the first on;
  that none is missing holds until a thread closes it under the lock of the
  backlog, after which nothing more is relayed (`Unlocked`, `Locked`). The
  connections that have not attached have sent nothing (`Silent`), so that a
  frame never comes from elsewhere.

### The console

| Module | Theorems | Inductive invariant, and why it is needed |
|---|---|---|
| `Viewer_proofs` | `AlwaysReady`, `OpenedForAReason` | `Purpose`: while nobody wants a session, no POST is on its way and the query is not asked again. `Ready` says of every status on its way, shown or cached, whose it is |
| `Enrollment_proofs` | `UsesAddUp`, `ValuesAreShown` | A transaction that may still commit has read the row as it is, with a use left; the number of devices is the count in the row. A commit adds one to both, which needs the cardinality of a set with one element more |
| | `OneDevice`, `NoGhostDevices`, `Decided` | `Issued`: there is a device only once the request is completed. `Told`: who is told "approved" owns it |
| `Accounts_proofs` | `StaysSignedIn` | `Honest`: without an overtaking, every request on its way carries the present cookie, so that a refusal says the truth about it. `Opened`: session numbers are not used twice |
| | `AdminRemains`, `PasswordsStay` | `CheckedHolds`: without an overlap, what a transaction has checked still holds when it commits. `TypedHere`: the text in a dialog was typed for the user it is open for |
| `Configuration_proofs` | `ClicksAddUp`, `TicksTellTheTruth` | `Wished`: without an excuse, the latest click carries all that was asked for. `ClicksInOrder`: the server has taken the clicks in order, so the last one is what is stored. `ReadingTrue`: the copy is what is stored, unless an answer is due that will be |
| | `OrderAddsUp` | `PlanInv`: there is a plan after each request, which is the plan before with that request; the last is what was asked for, and the rows hold the plan of the last request that was stored. The rows are positions and the plan is a sequence: `HoldsPlan` relates them, and each kind of request keeps it. That only one sequence lists rows with different positions is an induction over its length |
| | `EditsAreKept`, `OneAlertPerOutage` | `ReadsFresh`: what was read and not written since is what is stored. `LockHeld`: the one sync that holds the row has it as it is, so that its write and its alert are about the present status |
| | `CanaryFirst`, `AppliedOnce` | `CanaryInv`: a batch that waits has jobs of its canary only, and who continues it has seen their success. `OnceInv`: a device has one pending job, and who continues a batch that nobody else has written queues jobs only for devices it has none of |
| | `RowsReachable`, `WholeSuccess` | `ListInv`: what is shown, or about to be, is the page that is asked for, unless the list changed; and an offset that no pager of an older list set is within the list as long as no rows left. `BulkInv` and `SendsOnce`: what was asked is done or left to send, once |
| `Console_proofs` | `TypingIsKept` | `DraftsInv`: the guard only asks about another page, so that its Discard leaves the page |
| | `RestIsKept` | `SavesInv`. The list that a save stores is the product of what two drafts made of two cached copies, at a time when either may be old; the property speaks of a step that comes long after. The invariant carries the claim back to where the drafts began: a calm draft differs from the stored list where it was touched only (`CustomCalm`, `FormCalm`), a calm request has one entry for each row it must keep, with its value or none for a secret (`PutCalm`, `KeptBy`), and only secrets are ever without a value (`PlainHasValue`). The lemmas on the operators say what a page shows of a row (`RowsAre`, `OverrideOfOne`), that the two editors between them send it once (`SentKept`), and that the server keeps it then (`KeptRows`) |

`VariablesTyped`, `MembershipsTyped`, `RoleOrderTyped`, `TokensTyped`,
`ApprovalsTyped`, `FleetTyped`, `AccountsTyped`, `SignInTyped`, `RolloutsTyped` and
`SourcesTyped` are the type invariants of the areas, `ConsoleTyped` is that of the
console (`ConsoleTypeOK`), and `ViewerTyped` that of `Viewer`.

`Console_proofs` composes them. `TogetherSpec` lets all areas interleave; it
implements each area (`ImplementsAreas`), and so all of these properties hold of
it (`TogetherIsSafe`). The runs check `ConsoleSpec`, which looks at one area at a
time and implements `TogetherSpec` (`ImplementsTogether`).

The attempt to prove `MovesAddUp` found an error in an earlier form of
`RoleOrder`, whose positions were kept by role: a move, a removal and a new
assignment of the same role, and another move, ended in an order nobody asked
for. In the code an order is a list of assignment ids, of which the new row has
another, and unknown ids are passed over; the module has assignments now. (TLC
needs four requests for that, and `console` has two.)

The attempt to prove `SavesKeepTheRest` corrected `Variables` four times. Names
were keys of the list; in the code nothing keeps them distinct, and an editor may
be shown two rows of one name of which the server updates one. A value that a role
no longer accepts is not sent by the form, so that the other editor's save drops
it. Text typed for one device is still in the form when its page becomes that of
another. And a form whose save has failed keeps the text it sent, no longer
counts as edited, and sends it along with the next save of either editor. The
module has all four, and the property excludes each by name.

The provers cannot do induction over a predicate. Where a proof needs one, it
takes the set of the numbers for which the statement holds, or fails, and its
least element (`LeastNumber`).

### Model-checked only

* The liveness properties `DevicesSettle`, `EveryJobEnds`, `EveryDeliveryEnds`,
  `LimitEnforced` and `WaitingEnds`: fairness and ENABLED are out of the prover's
  reach.

## Not modelled

* `PING` jobs, which nothing queues; log chunks.
* In `JobQueue`, batches: an apply that is adopted by a batch is the only trace
  of them. In `Rollouts`, scheduled rollouts and the removal of old batches.
* In `JobQueue`, the deletion of devices, and disabling them (a disabled device
  is refused at check-in: it is a device that does not check in). In `Fleet`,
  the jobs that go with a device.
* What happens inside `ansible-playbook`, downloads, self-update and the
  relay: an outcome is chosen.
* The byte counts and origins of a session, and the frames from the browser
  towards the device, of which only a failure changes anything.
* `dateCreated` and ids are taken to agree; a sequence that is cached per node
  would not, but the server runs as one process.
* In `Variables`, the types of fields and the wording of errors: a field is
  valid or not. In `Fleet`, what is searched for: two filters that split the
  list stand for all.
* In `Accounts`, the device groups that mappings grant, and sessions of users
  who were disabled.
* In `Sources`, adding and removing repositories, the roles found, and bundles.
* Lists that are only shown (jobs, audit, dashboard, search) and forms with one
  request and nothing that can come in between (alerting, renaming).
* The parts listed as not modelled in `PROJECT.json`, each with its reason.

## Plan

1. `JobQueue`, `WorkQueue` and their proofs (done: every safety property of the
   runs is proved, two of them under a hypothesis that their run shares).
2. `Tunnel` and its proofs (done).
3. `Viewer` and the areas of the console, and their proofs (done).
4. `Rollouts` together with `JobQueue`: a spec that several devices share, and
   drift detection beside a canary.
5. Small modules: offline alerts, rate limits, bundles against syncs, and
   `composeSpec` as operators checked against a reference definition.
