------------------------------ MODULE Variables ------------------------------
(***************************************************************************)
(* The variables of a device or group, edited on its page.                 *)
(*                                                                         *)
(* Two editors show one list: RoleVariablesForm has the names that the     *)
(* roles declare, VariablesEditor all others and the secrets.  Each saves  *)
(* with the same PUT, which replaces the whole list, so that a save sends  *)
(* the live entries of the other editor along.  The page works on a cached *)
(* copy that is polled, and refetched after a save; the roles are a query  *)
(* of their own.  Other operators may write the same list.                 *)
(*                                                                         *)
(* A list is a set of rows of which several may have one name, because     *)
(* nothing keeps the names distinct; the editors show rows in the order of *)
(* their names.  The text of a field and its type are one datum: a field   *)
(* is valid or not, and a valid one is what is stored.                     *)
(***************************************************************************)
EXTENDS Naturals, Sequences, FiniteSets, SequencesExt, FiniteSetsExt

CONSTANTS
  Scopes,      \* the devices (or groups) whose pages are opened
  Names,       \* the names of variables
  Values,      \* the texts of a field that are valid
  Empty,       \* the valid text of a field nobody typed in
  Unfit,       \* a valid text, but of no type that a role accepts
  Bad,         \* a text that is not valid
  Null,        \* the JSON null
  Blank,       \* the name of a new row
  Absent,      \* no such override
  NotLoaded,   \* the query has no data yet
  NoPage,      \* another page is open
  RoleNames,   \* the sets of names that roles may declare
  Awaits,      \* a save is pending until the refetch (devices), or not (groups)
  MaxRows, MaxSaves,  \* bounds on the rows and on the saves
  MaxActs             \* bound on edits, visits and writes of others, together

Texts   == Values \cup {Empty, Unfit, Bad}
Stored  == Values \cup {Empty, Unfit, Null}
Entry   == [name : Names, secret : BOOLEAN, value : Stored]
RowKeys == (Names \cup {Blank}) \X (Nat \ {0})
Row     == [name : Names \cup {Blank}, secret : BOOLEAN, text : Texts, untouched : BOOLEAN]
Variable == [secret : BOOLEAN, value : Stored]
List    == [Names -> Seq(Variable)]

ASSUME VariablesAssumption ==
  /\ IsFiniteSet(Names) /\ RoleNames \subseteq SUBSET Names
  /\ Awaits \in BOOLEAN
  /\ {MaxRows, MaxSaves, MaxActs} \subseteq Nat
  /\ Blank \notin Names /\ NoPage \notin Scopes /\ Scopes # {}
  /\ NotLoaded \notin List /\ NotLoaded \notin RoleNames
  /\ Absent \notin Texts /\ Null \notin Texts
  /\ Bad \notin Values \cup {Empty, Unfit} /\ Unfit \notin Values \cup {Empty}

VARIABLES
  stored,    \* the config_variable rows, per scope
  declared,  \* the names declared by the effective roles, per scope
  page,      \* the scope whose page is mounted
  shown,     \* the cached copy of the list
  roles,     \* the cached names of the effective roles
  fetch,     \* the request for the list, per scope, and the answer on its way
  custom,    \* the state of VariablesEditor
  form,      \* the state of RoleVariablesForm
  guard,     \* the editor whose NavigationGuard the router asks
  asked,     \* where the operator wants to go, while the guard asks back
  put,       \* the replaceVariables mutation
  count      \* what operators did so far (for the bounds)

variablesVars == <<stored, declared, page, shown, roles, fetch, custom, form,
                   guard, asked, put, count>>

-----------------------------------------------------------------------------
(* The server.                                                             *)

\* Mutant: a null is stored, whether a secret is kept or not.
StoresNull(entry) == FALSE

\* "An untouched secret arrives without a value - keep the stored one."
KeepsValue(entry) == entry.secret /\ entry.value = Null

\* A row after the entries of its name, one after the other.
Updated(row, entries) ==
  LET given == {i \in DOMAIN entries : ~KeepsValue(entries[i])}
  IN  [secret |-> Last(entries).secret,
       value |-> IF given = {} THEN row.value ELSE entries[Max(given)].value]

\* The rows of one name: its entries update one of them (byName), or insert a row each
\* if there was none when the request began; without an entry they are deleted.
Replaced(rows, entries) ==
  IF entries = << >> THEN {<< >>}
  ELSE IF rows # << >> THEN {[rows EXCEPT ![b] = Updated(@, entries)] : b \in DOMAIN rows}
  ELSE {[i \in DOMAIN entries |-> [secret |-> entries[i].secret, value |-> entries[i].value]]}

Named(entries, n) == {k \in DOMAIN entries : entries[k].name = n}

\* GroupService.replaceVariables.  (Which entry of a name comes first is left open.)
Outcomes(list, entries, n) ==
  UNION {Replaced(list[n], [i \in DOMAIN s |-> entries[s[i]]]) : s \in SetToSeqs(Named(entries, n))}

ReplaceVariables(list, entries) ==
  {new \in [Names -> UNION {Outcomes(list, entries, n) : n \in Names}] :
     \A n \in Names : new[n] \in Outcomes(list, entries, n)}

\* GroupService.listVariables: the values of secrets are not returned.
Listed(list) ==
  [n \in Names |-> [i \in DOMAIN list[n] |->
     IF list[n][i].secret THEN [secret |-> TRUE, value |-> Null] ELSE list[n][i]]]

-----------------------------------------------------------------------------
(* What the editors show and send.                                         *)

Managed(s) == IF roles[s] = NotLoaded THEN {} ELSE roles[s]

\* A stored value as a text: the text of a null is not a valid one for its field.
TextOf(value) == IF value = Null THEN Empty ELSE value

\* The keys of the rows: a name and a number for what was listed, then the added rows.
CustomKeys(list, managed) ==
  {k \in UNION {{n} \X DOMAIN list[n] : n \in Names} :
     list[k[1]][k[2]].secret \/ k[1] \notin managed}

ToRows(list, managed) ==
  [k \in CustomKeys(list, managed) |->
     LET variable == list[k[1]][k[2]]
     IN  [name |-> k[1], secret |-> variable.secret,
          text |-> IF variable.secret THEN Empty ELSE TextOf(variable.value),
          untouched |-> variable.secret]]

\* The last of a name is the override of its field.
ToOverrides(list, managed) ==
  [n \in Names |->
     LET plain == {i \in DOMAIN list[n] : ~list[n][i].secret}
     IN  IF n \in managed /\ plain # {} THEN TextOf(list[n][Max(plain)].value) ELSE Absent]

RowValid(row) == row.untouched \/ row.text # Bad

\* A clean editor shows the cached list; its effect runs at every render of the page.
CustomRows == IF custom.dirty THEN custom.rows ELSE ToRows(shown[page], Managed(page))

CustomOwned == {k \in DOMAIN CustomRows : CustomRows[k].name # Blank /\ RowValid(CustomRows[k])}

FieldValid(text) == text \notin {Bad, Unfit}

FormOwned == {n \in Managed(page) : form.over[n] # Absent /\ FieldValid(form.over[n])}

\* Each save sends what both editors own; the form's entries have number 0.
Entries ==
  [k \in CustomOwned \cup (FormOwned \X {0}) |->
     IF k \in CustomOwned
     THEN LET row == CustomRows[k]
          IN  [name |-> row.name, secret |-> row.secret,
               value |-> IF row.secret /\ row.untouched THEN Null ELSE row.text]
     ELSE [name |-> k[1], secret |-> FALSE, value |-> form.over[k[1]]]]

Clean == [dirty |-> FALSE, rows |-> << >>, touched |-> {}, from |-> NoPage, calm |-> FALSE]
NoForm == [dirty |-> FALSE, over |-> [n \in Names |-> Absent], touched |-> {},
           from |-> NoPage, calm |-> FALSE]
NoPut == [phase |-> "none", scope |-> NoPage, entries |-> << >>, touched |-> {}, calm |-> FALSE]

\* Mutant: the form follows the server even while it is being edited.
ResetAnyway(f, list, managed) == [NoForm EXCEPT !.over = ToOverrides(list, managed)]

\* The effect of RoleVariablesForm on [variables, roles].
ResetForm(f, list, managed) ==
  IF f.dirty THEN f ELSE [NoForm EXCEPT !.over = ToOverrides(list, managed)]

Idle  == [phase |-> "idle", list |-> NotLoaded]
Asked == [phase |-> "asked", list |-> NotLoaded]

Mounted == page # NoPage /\ shown[page] # NotLoaded
PageUsable == Mounted /\ asked = NoPage     \* the dialog of the guard covers the page

\* What the page shows is what is stored, and nobody changes either (a history value).
Calm(s) == shown[s] = Listed(stored[s]) /\ Managed(s) = declared[s] /\ roles[s] # NotLoaded

\* A page has just been opened.
VariablesInit ==
  /\ \E there \in [Names -> {<< >>, <<[secret |-> FALSE, value |-> Empty]>>,
                                  <<[secret |-> TRUE, value |-> Empty]>>}] :
       stored = [s \in Scopes |-> there]
  /\ \E managed \in RoleNames : declared = [s \in Scopes |-> managed]
  /\ page = (CHOOSE s \in Scopes : TRUE) /\ shown = [s \in Scopes |-> NotLoaded]
  /\ roles = [s \in Scopes |-> NotLoaded]
  /\ fetch = [s \in Scopes |-> IF s = page THEN Asked ELSE Idle]
  /\ custom = Clean /\ form = NoForm
  /\ guard = "custom" /\ asked = NoPage /\ put = NoPut
  /\ count = [acts |-> 0, saves |-> 0]

-----------------------------------------------------------------------------
(* Editing.                                                                *)

Acts == count.acts < MaxActs /\ count' = [count EXCEPT !.acts = @ + 1]

Edited == PageUsable /\ Acts

\* The draft goes on, or begins from what is shown.
CustomDraft(rows, names) ==
  custom' = IF custom.dirty
            THEN [custom EXCEPT !.rows = rows, !.touched = @ \cup names]
            ELSE [dirty |-> TRUE, rows |-> rows, touched |-> names, from |-> page,
                  calm |-> Calm(page)]

UnchangedByEdit == UNCHANGED <<stored, declared, page, shown, roles, fetch, guard, asked, put>>

\* update(): a new text, and with it a new type, makes a secret a touched one.
TypeText ==
  /\ Edited
  /\ \E k \in DOMAIN CustomRows, t \in Values \cup {Bad} :
        /\ CustomDraft([CustomRows EXCEPT ![k] = [@ EXCEPT !.text = t, !.untouched = FALSE]],
                       {CustomRows[k].name})
        /\ UNCHANGED form /\ UnchangedByEdit

Rename ==
  /\ Edited
  /\ \E k \in DOMAIN CustomRows, n \in Names :
        /\ CustomRows[k].name # n
        /\ CustomDraft([CustomRows EXCEPT ![k].name = n], {CustomRows[k].name, n})
        /\ UNCHANGED form /\ UnchangedByEdit

SwitchSecret ==
  /\ Edited
  /\ \E k \in DOMAIN CustomRows :
        /\ CustomDraft([CustomRows EXCEPT
                          ![k] = [@ EXCEPT !.secret = ~CustomRows[k].secret, !.untouched = FALSE]],
                       {CustomRows[k].name})
        /\ UNCHANGED form /\ UnchangedByEdit

RemoveRow ==
  /\ Edited
  /\ \E k \in DOMAIN CustomRows :
        /\ CustomDraft([other \in DOMAIN CustomRows \ {k} |-> CustomRows[other]],
                       {CustomRows[k].name})
        /\ UNCHANGED form /\ UnchangedByEdit

NewRow == [name |-> Blank, secret |-> FALSE, text |-> Empty, untouched |-> FALSE]

AddRow ==
  LET added == {k[2] : k \in {k \in DOMAIN CustomRows : k[1] = Blank}}
      next  == <<Blank, 1 + Max(added \cup {0})>>
  IN  /\ Edited /\ Cardinality(DOMAIN CustomRows) < MaxRows
      /\ CustomDraft([k \in DOMAIN CustomRows \cup {next} |->
                        IF k = next THEN NewRow ELSE CustomRows[k]], {})
      /\ UNCHANGED form /\ UnchangedByEdit

EditCustom == TypeText \/ Rename \/ SwitchSecret \/ RemoveRow \/ AddRow

\* The form shows the list but for what was touched.  (While it is clean this fails only
\* after it sent a draft that is older than the list: its texts stay until the list or
\* the roles change.)
FormFresh ==
  \A n \in Names \ form.touched : form.over[n] = ToOverrides(shown[page], Managed(page))[n]

FormDraft(n, text) ==
  form' = IF form.dirty
          THEN [form EXCEPT !.over[n] = text, !.touched = @ \cup {n}]
          ELSE [dirty |-> TRUE, over |-> [form.over EXCEPT ![n] = text],
                touched |-> form.touched \cup {n}, from |-> page,
                calm |-> Calm(page) /\ FormFresh]

\* setOverride() and reset(), which drops the override.
SetOverride ==
  /\ Edited
  /\ \E n \in Managed(page), text \in Values \cup {Bad, Absent} :
        /\ form.over[n] # text
        /\ FormDraft(n, text)
        /\ UNCHANGED custom /\ UnchangedByEdit

-----------------------------------------------------------------------------
(* Saving.                                                                 *)

\* (History: the save is calm if what is shown is what is stored, and drafts began there.)
Send ==
  /\ count.saves < MaxSaves
  /\ count' = [count EXCEPT !.saves = @ + 1]
  /\ put' = [phase |-> "sent", scope |-> page, entries |-> Entries,
             touched |-> custom.touched \cup form.touched,
             calm |-> /\ Calm(page)
                      /\ custom.dirty => custom.calm /\ custom.from = page
                      /\ IF form.dirty THEN form.calm /\ form.from = page ELSE FormFresh]
  /\ UNCHANGED <<stored, declared, page, shown, roles, fetch, guard, asked>>

\* The rows fall back to the cached list at once, before the answer.
SaveCustom ==
  /\ PageUsable /\ custom.dirty /\ put.phase = "none"
  /\ \A k \in DOMAIN custom.rows : custom.rows[k].name = Blank \/ RowValid(custom.rows[k])
  /\ Send
  /\ custom' = Clean
  /\ UNCHANGED form

\* The overrides stay as they are until the list or the roles change.
SaveForm ==
  /\ PageUsable /\ form.dirty /\ put.phase = "none" /\ Managed(page) # {}
  /\ \A n \in Managed(page) : FieldValid(form.over[n])
  /\ Send
  /\ form' = [form EXCEPT !.dirty = FALSE, !.from = NoPage]
  /\ UNCHANGED custom

\* Something wrote the list of a scope: no draft or request for it is calm.
Disturb(s) ==
  /\ custom' = IF custom.from = s THEN [custom EXCEPT !.calm = FALSE] ELSE custom
  /\ form' = IF form.from = s THEN [form EXCEPT !.calm = FALSE] ELSE form

Commit ==
  /\ put.phase = "sent"
  /\ \E list \in ReplaceVariables(stored[put.scope], put.entries) :
       stored' = [stored EXCEPT ![put.scope] = list]
  /\ put' = [put EXCEPT !.phase = "done"]
  /\ Disturb(put.scope)
  /\ UNCHANGED <<declared, page, shown, roles, fetch, guard, asked, count>>

\* The hook invalidates; only a device's waits for the refetch.  An invalidation
\* cancels a request on its way and asks again.
Answer ==
  /\ put.phase = "done"
  /\ IF page = NoPage
     THEN put' = NoPut /\ UNCHANGED fetch
     ELSE /\ fetch' = [fetch EXCEPT ![page] = Asked]
          /\ put' = IF Awaits THEN [NoPut EXCEPT !.phase = "settling"] ELSE NoPut
  /\ UNCHANGED <<stored, declared, page, shown, roles, custom, form, guard, asked, count>>

\* The server refuses the list, or the answer is lost: an alert, and nothing else.
Fail ==
  /\ put.phase \in {"sent", "done"}
  /\ put' = NoPut
  /\ UNCHANGED <<stored, declared, page, shown, roles, fetch, custom, form, guard,
                 asked, count>>

-----------------------------------------------------------------------------
(* The cache.                                                              *)

Poll ==
  /\ page # NoPage /\ fetch[page] = Idle
  /\ fetch' = [fetch EXCEPT ![page] = Asked]
  /\ UNCHANGED <<stored, declared, page, shown, roles, custom, form, guard, asked, put, count>>

Read(s) ==
  /\ fetch[s] = Asked
  /\ fetch' = [fetch EXCEPT ![s] = [phase |-> "answered", list |-> Listed(stored[s])]]
  /\ UNCHANGED <<stored, declared, page, shown, roles, custom, form, guard, asked, put, count>>

Settled == IF put.phase = "settling" THEN NoPut ELSE put

\* The router asks the guard that was registered last (external).
GuardAfter(managed, managedAfter) ==
  IF managedAfter = {} THEN "custom" ELSE IF managed = {} THEN "form" ELSE guard

Arrive(s) ==
  /\ fetch[s].phase = "answered"
  /\ shown' = [shown EXCEPT ![s] = fetch[s].list]
  /\ fetch' = [fetch EXCEPT ![s] = Idle]
  /\ put' = IF s = page THEN Settled ELSE put
  /\ form' = IF s = page /\ shown[s] # fetch[s].list
             THEN ResetForm(form, fetch[s].list, Managed(s)) ELSE form
  /\ guard' = IF s = page /\ shown[s] = NotLoaded THEN "custom" ELSE guard
  /\ UNCHANGED <<stored, declared, page, roles, custom, asked, count>>

FetchFails(s) ==
  /\ fetch[s] # Idle
  /\ fetch' = [fetch EXCEPT ![s] = Idle]
  /\ put' = IF s = page THEN Settled ELSE put
  /\ UNCHANGED <<stored, declared, page, shown, roles, custom, form, guard, asked, count>>

RolesArrive ==
  /\ page # NoPage /\ roles[page] # declared[page]
  /\ roles' = [roles EXCEPT ![page] = declared[page]]
  /\ form' = IF shown[page] = NotLoaded THEN form
             ELSE ResetForm(form, shown[page], declared[page])
  /\ guard' = IF Mounted THEN GuardAfter(Managed(page), declared[page]) ELSE guard
  /\ UNCHANGED <<stored, declared, page, shown, fetch, custom, asked, put, count>>

-----------------------------------------------------------------------------
(* Other operators, who write lists and assign roles.                      *)

Other ==
  /\ Acts
  /\ \E s \in Scopes :
        /\ \/ \E n \in Names,
                 v \in {<< >>} \cup {<<[secret |-> FALSE, value |-> w]>> : w \in {Empty, Unfit}} :
                 /\ stored[s][n] # v
                 /\ stored' = [stored EXCEPT ![s][n] = v]
                 /\ UNCHANGED declared
           \/ \E managed \in RoleNames \ {declared[s]} :
                 /\ declared' = [declared EXCEPT ![s] = managed]
                 /\ UNCHANGED stored
        /\ Disturb(s)
        /\ put' = IF put.scope = s THEN [put EXCEPT !.calm = FALSE] ELSE put
  /\ UNCHANGED <<page, shown, roles, fetch, guard, asked>>

-----------------------------------------------------------------------------
(* Navigation.                                                             *)

\* The route of another device renders the same component.  Its editors stay if
\* the list is in the cache; otherwise the spinner takes their place.
Enter(s) ==
  LET stay == Mounted /\ shown[s] # NotLoaded
  IN  /\ page' = s
      /\ custom' = IF stay THEN custom ELSE Clean
      /\ form' = IF shown[s] = NotLoaded THEN NoForm
                 ELSE ResetForm(IF stay THEN form ELSE NoForm, shown[s], Managed(s))
      /\ guard' = IF stay THEN GuardAfter(Managed(page), Managed(s)) ELSE "custom"

\* Opening a page asks for its list, unless a request is on its way.
Go(s) ==
  /\ Acts
  /\ Enter(s)
  /\ fetch' = [fetch EXCEPT ![s] = IF @ = Idle THEN Asked ELSE @]
  /\ UNCHANGED <<stored, declared, shown, roles, put>>

Blocked == Mounted /\ (IF guard = "custom" THEN custom.dirty ELSE form.dirty)

Navigate ==
  /\ asked = NoPage
  /\ \E s \in Scopes \ {page} :
        IF Blocked
        THEN asked' = s /\ UNCHANGED <<stored, declared, page, shown, roles, fetch, custom,
                                       form, guard, put, count>>
        ELSE Go(s) /\ UNCHANGED asked

Discard == asked # NoPage /\ Go(asked) /\ asked' = NoPage

Stay ==
  /\ asked # NoPage /\ asked' = NoPage
  /\ UNCHANGED <<stored, declared, page, shown, roles, fetch, custom, form, guard, put, count>>

\* Another page, the login or an error takes the place of this page for good.
Unmount ==
  /\ page # NoPage
  /\ page' = NoPage /\ asked' = NoPage /\ custom' = Clean /\ form' = NoForm
  /\ put' = Settled
  /\ count' = [count EXCEPT !.acts = MaxActs]
  /\ UNCHANGED <<stored, declared, shown, roles, fetch, guard>>

VariablesNext ==
  \/ EditCustom \/ SetOverride
  \/ SaveCustom \/ SaveForm \/ Commit \/ Answer \/ Fail
  \/ Poll \/ RolesArrive \/ Other \/ Navigate \/ Discard \/ Stay \/ Unmount
  \/ \E s \in Scopes : Read(s) \/ Arrive(s) \/ FetchFails(s)

VariablesSpec == VariablesInit /\ [][VariablesNext]_variablesVars

-----------------------------------------------------------------------------
(* Properties.                                                             *)

VariablesTypeOK ==
  /\ stored \in [Scopes -> List] /\ declared \in [Scopes -> RoleNames]
  /\ page \in Scopes \cup {NoPage} /\ asked \in Scopes \cup {NoPage}
  /\ shown \in [Scopes -> List \cup {NotLoaded}]
  /\ roles \in [Scopes -> RoleNames \cup {NotLoaded}]
  /\ fetch \in [Scopes -> {Idle, Asked} \cup [phase : {"answered"}, list : List]]
  /\ DOMAIN custom.rows \subseteq RowKeys
  /\ \A k \in DOMAIN custom.rows : custom.rows[k] \in Row
  /\ form.over \in [Names -> Texts \cup {Absent}]
  /\ guard \in {"custom", "form"}
  /\ put.phase \in {"none", "sent", "done", "settling"}
  /\ \A k \in DOMAIN put.entries : put.entries[k] \in Entry

\* What is being typed changes by the operator's hands only: polls, refetches, other
\* operators, and the saves of the other editor leave an unsaved draft alone, until it
\* is saved or its page is left (useEffect ... if (!dirty)).
DraftsSurvive ==
  [][/\ (custom.dirty /\ custom'.rows # custom.rows) => EditCustom \/ SaveCustom \/ page' # page
     /\ (form.dirty /\ form'.over # form.over) => SetOverride \/ page' # page]_variablesVars

\* A save that was begun on a fresh page, with nobody else writing, changes nothing the
\* operator did not touch, although it replaces the whole list: neither the other
\* editor's variables nor the secrets, which the page never saw.  (Of rows with one name
\* an editor may show the last only, a value that a role no longer accepts is not sent by
\* its form, and what the form kept of a save that failed is sent by the next: each of
\* them changes what nobody touched.)
Replaceable(rows, managed) ==
  /\ Len(rows) <= 1
  /\ managed => \A i \in DOMAIN rows : rows[i].secret \/ rows[i].value # Unfit

SavesKeepTheRest ==
  [][Commit /\ put.calm =>
       \A n \in Names \ put.touched :
         Replaceable(stored[put.scope][n], n \in declared[put.scope]) =>
           stored'[put.scope][n] = stored[put.scope][n]]_variablesVars

=============================================================================
