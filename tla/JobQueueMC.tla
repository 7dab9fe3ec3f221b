----------------------------- MODULE JobQueueMC -----------------------------
(* Constants for checking JobQueue with TLC.                               *)
EXTENDS JobQueue, TLC

CONSTANTS d1, d2, t1, t2, A, B

NoEdits == {}
\* One edit, so that the spec settles.
OneEdit == {<<A, B>>}
\* Edits that come back to an earlier spec.
BackAndForth == {<<A, B>>, <<B, A>>}
\* The last role of a device is removed and assigned again.
Unassigned == {<<A, NoPlays>>, <<NoPlays, A>>}

ThreadSymmetry == Permutations(Threads)
=============================================================================
