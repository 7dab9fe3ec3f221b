------------------------------ MODULE Sources ------------------------------
(***************************************************************************)
(* An Ansible repository: edited on the page Ansible sources, synced by    *)
(* "Sync now", by "Save & sync" and by a timer.                            *)
(*                                                                         *)
(* A sync is one transaction around git: it writes the row first, which    *)
(* locks it until the end.  An edit reads the row, then writes it.  Both   *)
(* fail if the row was written since they read it (its version).           *)
(***************************************************************************)
EXTENDS Naturals

CONSTANTS
  Places,       \* the locations (Git URL and ref) that are configured in turn
  HttpPlaces,   \* those with an http(s) URL
  Editors,      \* the administrators with the page open
  MaxEdits, MaxSyncs  \* bounds on edits that are sent and on syncs that fail

ASSUME SourcesAssumption ==
  HttpPlaces \subseteq Places /\ {MaxEdits, MaxSyncs} \subseteq Nat

VARIABLES
  repo,       \* the row: place, auth, cred (whether a secret is stored), status
  editing,    \* each editor's dialog: the row it was opened on
  save,       \* each editor's updateRepository: its draft and how far it is
  sync,       \* the syncs of a page and of the timer: the row they read, how far
  holder,     \* the sync that has the row locked
  alerts, outages,   \* alerts sent, and syncs that failed after one that had not
  accepted,   \* the place of the last edit that was accepted (history)
  cutShort,   \* a restart came between an alert and its commit (history)
  sent, failed       \* edits sent and syncs failed (bounds)

sourcesVars == <<repo, editing, save, sync, holder, alerts, outages,
                 accepted, cutShort, sent, failed>>

Workers == {"page", "timer"}
Auths == {"NONE", "HTTPS_TOKEN", "SSH_KEY"}
Draft == [place : Places, auth : Auths, secret : {"keep", "new"}]

NoSave == [phase |-> "none", draft |-> {}, row |-> {}, stale |-> FALSE]
NoSync == [phase |-> "none", row |-> {}, stale |-> FALSE]
Unheld == "nobody"

\* A repository that was added, with or without a credential (RepositoryController.save).
\* (The status NEVER is to what follows what OK is.)
SourcesInit ==
  /\ \E p \in Places, auth \in Auths :
       /\ auth # "NONE" => (auth = "HTTPS_TOKEN") = (p \in HttpPlaces)
       /\ repo = [place |-> p, auth |-> auth, cred |-> auth # "NONE", status |-> "OK"]
  /\ editing = [c \in Editors |-> {}] /\ save = [c \in Editors |-> NoSave]
  /\ sync = [w \in Workers |-> NoSync] /\ holder = Unheld
  /\ alerts = 0 /\ outages = 0 /\ accepted = repo.place /\ cutShort = FALSE
  /\ sent = 0 /\ failed = 0

-----------------------------------------------------------------------------
(* The dialog.                                                             *)

\* The list is not polled: a dialog on an old copy is one that was opened earlier.
OpenEdit(c) ==
  /\ sent < MaxEdits
  /\ editing[c] = {} /\ editing' = [editing EXCEPT ![c] = {repo}]
  /\ UNCHANGED <<repo, save, sync, holder, alerts, outages, accepted,
                 cutShort, sent, failed>>

\* AuthFields: only a secret of the same kind, stored when the dialog opened, is kept.
MayKeep(from, auth) == from.auth = auth /\ (from.cred \/ auth = "NONE")

\* "Save & sync", after any edits of the fields; the button waits for the last save.
SubmitEdit(c) ==
  /\ sent < MaxEdits /\ sent' = sent + 1
  /\ save[c].phase = "none"
  /\ \E from \in editing[c], draft \in Draft :
       /\ IF draft.secret = "keep" THEN MayKeep(from, draft.auth) ELSE draft.auth # "NONE"
       /\ save' = [save EXCEPT ![c] = [NoSave EXCEPT !.phase = "sent", !.draft = {draft}]]
  /\ UNCHANGED <<repo, editing, sync, holder, alerts, outages, accepted, cutShort, failed>>

CancelEdit(c) ==
  /\ editing[c] # {} /\ editing' = [editing EXCEPT ![c] = {}]
  /\ UNCHANGED <<repo, save, sync, holder, alerts, outages, accepted,
                 cutShort, sent, failed>>

-----------------------------------------------------------------------------
(* RepositoryController.update.                                            *)

\* gitUrlError and applyAuth: the kind must fit the URL, and a token must be there.
Refused(row, draft) ==
  \/ draft.auth = "SSH_KEY" /\ draft.place \in HttpPlaces
  \/ draft.auth = "HTTPS_TOKEN" /\ draft.place \notin HttpPlaces
  \/ draft.auth = "HTTPS_TOKEN" /\ draft.secret = "keep" /\ row.auth # draft.auth

ReadForUpdate(c) ==
  /\ save[c].phase = "sent"
  /\ \E draft \in save[c].draft :
       save' = [save EXCEPT ![c] = IF Refused(repo, draft) THEN [@ EXCEPT !.phase = "refused"]
                                   ELSE [@ EXCEPT !.phase = "read", !.row = {repo}]]
  /\ UNCHANGED <<repo, editing, sync, holder, alerts, outages, accepted,
                 cutShort, sent, failed>>

\* Mutant: the row has no version.
AnyRow(txn) == TRUE

RowAsRead(txn) == ~txn.stale

\* Whoever has read the row has now read an old one.
OldSaves(saves) == [c \in Editors |-> [saves[c] EXCEPT !.stale = @ \/ saves[c].phase = "read"]]
OldSyncs(syncs) == [w \in Workers |-> [syncs[w] EXCEPT !.stale = @ \/ syncs[w].phase = "read"]]

\* Another kind drops what is stored; an SSH key that is missing is made.
CommitEdit(c) ==
  /\ save[c].phase = "read" /\ RowAsRead(save[c]) /\ holder = Unheld
  /\ \E draft \in save[c].draft, row \in save[c].row :
       /\ repo' = [row EXCEPT !.place = draft.place, !.auth = draft.auth,
                              !.cred = (draft.auth # "NONE")]
       /\ accepted' = draft.place
  /\ save' = OldSaves([save EXCEPT ![c] = [@ EXCEPT !.phase = "saved", !.row = {repo'}]])
  /\ sync' = OldSyncs(sync)
  /\ UNCHANGED <<editing, holder, alerts, outages, cutShort, sent, failed>>

\* Refused, in conflict, or not reached: the dialog stays open with a message.
EditFails(c) ==
  /\ save[c].phase \in {"sent", "refused"} \/ (save[c].phase = "read" /\ save[c].stale)
  /\ save' = [save EXCEPT ![c] = NoSave]
  /\ UNCHANGED <<repo, editing, sync, holder, alerts, outages, accepted,
                 cutShort, sent, failed>>

\* The answer: it closes the dialog, whichever is open by now, and syncs - unless the
\* page is gone.
EditSaved(c) ==
  /\ save[c].phase = "saved"
  /\ save' = [save EXCEPT ![c] = NoSave] /\ editing' = [editing EXCEPT ![c] = {}]
  /\ sync' \in {sync, IF sync["page"] = NoSync
                      THEN [sync EXCEPT !["page"] = [NoSync EXCEPT !.phase = "asked"]] ELSE sync}
  /\ UNCHANGED <<repo, holder, alerts, outages, accepted, cutShort, sent, failed>>

-----------------------------------------------------------------------------
(* RepoSyncService.sync and RepoSyncScheduler.                             *)

\* The button waits for the page's sync; the timer runs one at a time.
AskSync(w) ==
  /\ sync[w] = NoSync
  /\ sync' = [sync EXCEPT ![w] = [NoSync EXCEPT !.phase = "asked"]]
  /\ UNCHANGED <<repo, editing, save, holder, alerts, outages, accepted,
                 cutShort, sent, failed>>

ReadForSync(w) ==
  /\ sync[w].phase = "asked"
  /\ sync' = [sync EXCEPT ![w] = [@ EXCEPT !.phase = "read", !.row = {repo}]]
  /\ UNCHANGED <<repo, editing, save, holder, alerts, outages, accepted,
                 cutShort, sent, failed>>

\* SYNCING is written but not committed: nobody sees it, and the row is locked.
LockForSync(w) ==
  /\ sync[w].phase = "read" /\ RowAsRead(sync[w]) /\ holder = Unheld
  /\ holder' = w /\ sync' = [sync EXCEPT ![w].phase = "locked"]
  /\ UNCHANGED <<repo, editing, save, alerts, outages, accepted, cutShort,
                 sent, failed>>

\* The row was written in between: a failed request, or a line in the timer's log.
SyncRefused(w) ==
  /\ sync[w].phase = "read" /\ sync[w].stale
  /\ sync' = [sync EXCEPT ![w] = NoSync]
  /\ UNCHANGED <<repo, editing, save, holder, alerts, outages, accepted,
                 cutShort, sent, failed>>

EndSync(w, row) ==
  /\ repo' = row /\ holder' = Unheld
  /\ sync' = OldSyncs([sync EXCEPT ![w] = NoSync]) /\ save' = OldSaves(save)

\* git, the analyzer and upsertRoles, for the place that was read.
SyncSucceeds(w) ==
  /\ sync[w].phase = "locked"
  /\ \E row \in sync[w].row : EndSync(w, [row EXCEPT !.status = "OK"])
  /\ UNCHANGED <<editing, alerts, outages, accepted, cutShort, sent, failed>>

\* Mutant: every failure raises an alert.
Always(row) == TRUE

IsNews(row) == row.status # "ERROR"

\* "Alert once per transition": it is sent before the transaction ends.
SyncAlerts(w) ==
  /\ failed < MaxSyncs /\ failed' = failed + 1
  /\ sync[w].phase = "locked"
  /\ sync' = [sync EXCEPT ![w].phase = "failing"]
  /\ \E row \in sync[w].row : alerts' = IF IsNews(row) THEN alerts + 1 ELSE alerts
  /\ UNCHANGED <<repo, editing, save, holder, outages, accepted, cutShort, sent>>

SyncFails(w) ==
  /\ sync[w].phase = "failing"
  /\ \E row \in sync[w].row : EndSync(w, [row EXCEPT !.status = "ERROR"])
  /\ outages' = IF repo.status # "ERROR" THEN outages + 1 ELSE outages
  /\ UNCHANGED <<editing, alerts, accepted, cutShort, sent, failed>>

\* The server restarts: what was not committed is undone.
ServerRestarts ==
  /\ \E w \in Workers : sync[w].phase \in {"locked", "failing"}
  /\ cutShort' = (cutShort \/ \E w \in Workers : sync[w].phase = "failing")
  /\ sync' = [w \in Workers |-> NoSync] /\ holder' = Unheld
  /\ save' = [c \in Editors |-> IF save[c].phase = "saved" THEN save[c] ELSE NoSave]
  /\ UNCHANGED <<repo, editing, alerts, outages, accepted, sent, failed>>

SourcesNext ==
  \/ \E c \in Editors : \/ OpenEdit(c) \/ SubmitEdit(c) \/ CancelEdit(c) \/ ReadForUpdate(c)
                        \/ CommitEdit(c) \/ EditFails(c) \/ EditSaved(c)
  \/ \E w \in Workers : \/ AskSync(w) \/ ReadForSync(w) \/ LockForSync(w) \/ SyncRefused(w)
                        \/ SyncSucceeds(w) \/ SyncAlerts(w) \/ SyncFails(w)
  \/ ServerRestarts

SourcesSpec == SourcesInit /\ [][SourcesNext]_sourcesVars

-----------------------------------------------------------------------------
RepoRow == [place : Places, auth : Auths, cred : BOOLEAN,
            status : {"OK", "ERROR"}]

SourcesTypeOK ==
  /\ repo \in RepoRow
  /\ \A c \in Editors : /\ editing[c] \subseteq RepoRow
                        /\ save[c].phase \in {"none", "sent", "refused", "read", "saved"}
                        /\ save[c].draft \subseteq Draft /\ save[c].row \subseteq RepoRow
  /\ \A w \in Workers : /\ sync[w].phase \in {"none", "asked", "read", "locked", "failing"}
                        /\ sync[w].row \subseteq RepoRow
  /\ holder \in Workers \cup {Unheld}

\* An edit that was accepted stands: a sync or another edit that read the row before
\* never writes the old place back, however long git took.
EditsStand == repo.place = accepted

\* "Alert once per transition, not on every scheduled re-try": also when a page and the
\* timer sync at the same time; a restart before the commit may repeat it.
AlertedOncePerOutage ==
  cutShort \/ alerts = outages + (IF \E w \in Workers : sync[w].phase = "failing"
                                                        /\ repo.status # "ERROR" THEN 1 ELSE 0)

=============================================================================
