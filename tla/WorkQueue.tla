----------------------------- MODULE WorkQueue ------------------------------
(***************************************************************************)
(* What the job queue promises, without transactions, devices or agents: a *)
(* ledger of jobs.  A job is queued, offered to its device once, and gets  *)
(* one verdict that is never revised; its device takes it only at the      *)
(* moment it is offered, so no job is executed twice.                      *)
(***************************************************************************)
CONSTANT Jobs

VARIABLES
  phase,  \* the phase of each job
  taken   \* the jobs whose device received them

Verdicts == {"SUCCEEDED", "FAILED", "TIMED_OUT", "CANCELLED"}
Phases == {"none", "queued", "offered", "gone"} \cup Verdicts

Init == phase = [j \in Jobs |-> "none"] /\ taken = {}

Queue(j) == phase[j] = "none" /\ phase'[j] = "queued"

\* A job may be offered in the very step that creates it.
Offer(j) == phase[j] \in {"none", "queued"} /\ phase'[j] = "offered"

\* Only a job that was offered can succeed, fail or time out.
Decide(j) ==
  \/ phase[j] = "offered" /\ phase'[j] \in Verdicts
  \/ phase[j] \in {"none", "queued"} /\ phase'[j] = "CANCELLED"

Forget(j) == phase[j] \in Verdicts /\ phase'[j] = "gone"

Keep(j) == phase'[j] = phase[j]

\* One transaction can move several jobs.
Next ==
  /\ phase' \in [Jobs -> Phases]
  /\ \A j \in Jobs : Queue(j) \/ Offer(j) \/ Decide(j) \/ Forget(j) \/ Keep(j)
  /\ taken \subseteq taken' /\ taken' \subseteq Jobs
  /\ \A j \in taken' \ taken : Offer(j)

Spec == Init /\ [][Next]_<<phase, taken>>
=============================================================================
