--------------------------- MODULE Console_proofs ---------------------------
(***************************************************************************)
(* The editors of variables, their drafts and their saves, and what the    *)
(* theorems about the areas say of the console as a whole: every behaviour *)
(* of the console is one of each of its areas, as seen by the variables of *)
(* that area.                                                              *)
(***************************************************************************)
EXTENDS Console, Enrollment_proofs, Accounts_proofs, Configuration_proofs

-----------------------------------------------------------------------------
(* Drafts of variables *)

\* The parts of the two editors' states.
EditorFields ==
  /\ custom = [dirty |-> custom.dirty, rows |-> custom.rows, touched |-> custom.touched,
               from |-> custom.from, calm |-> custom.calm]
  /\ form = [dirty |-> form.dirty, over |-> form.over, touched |-> form.touched,
             from |-> form.from, calm |-> form.calm]

\* The guard asks about a page other than the one that is open, so that its Discard
\* always leaves the page (Navigate offers no other).
DraftsInv ==
  /\ EditorFields
  /\ asked # NoPage => asked # page

LEMMA DraftsInitial == VariablesInit => DraftsInv
BY DEF VariablesInit, DraftsInv, EditorFields, Clean, NoForm

\* What DraftsSurvive says of a step.
CustomKept == (custom.dirty /\ custom'.rows # custom.rows) => EditCustom \/ SaveCustom \/ page' # page
FormKept == (form.dirty /\ form'.over # form.over) => SetOverride \/ page' # page

\* Editing, saving and the answers stay on the page.
LEMMA DraftEdits ==
  ASSUME DraftsInv, EditCustom \/ SetOverride \/ SaveCustom \/ SaveForm
  PROVE  DraftsInv' /\ CustomKept /\ FormKept
<1>1. ASSUME EditCustom PROVE DraftsInv' /\ FormKept
  <2>1. UNCHANGED <<form, asked, page>> /\ \E rows, names : CustomDraft(rows, names)
    BY <1>1 DEF EditCustom, TypeText, Rename, SwitchSecret, RemoveRow, AddRow, UnchangedByEdit
  <2>2. PICK rows, names : CustomDraft(rows, names)
    BY <2>1
  <2>3. CASE custom.dirty
    <3> DEFINE all == custom.touched \cup names
    <3>1. custom' = [custom EXCEPT !.rows = rows, !.touched = all]
      BY <2>2, <2>3 DEF CustomDraft
    <3> HIDE DEF all
    <3> QED BY <2>1, <3>1 DEF DraftsInv, EditorFields, FormKept
  <2>4. CASE ~custom.dirty
    BY <2>1, <2>2, <2>4 DEF CustomDraft, DraftsInv, EditorFields, FormKept
  <2> QED BY <2>3, <2>4
<1>2. ASSUME SetOverride PROVE DraftsInv' /\ CustomKept
  <2>1. UNCHANGED <<custom, asked, page>> /\ \E n, text : FormDraft(n, text)
    BY <1>2 DEF SetOverride, UnchangedByEdit
  <2>2. PICK n, text : FormDraft(n, text)
    BY <2>1
  <2> DEFINE over == [form.over EXCEPT ![n] = text]
             all == form.touched \cup {n}
  <2>3. \/ form' = [form EXCEPT !.over = over, !.touched = all]
        \/ form' = [dirty |-> TRUE, over |-> over, touched |-> all, from |-> page,
                    calm |-> Calm(page) /\ FormFresh]
    BY <2>2 DEF FormDraft
  <2> HIDE DEF over, all
  <2> QED BY <2>1, <2>3 DEF DraftsInv, EditorFields, CustomKept
<1>3. ASSUME SaveCustom PROVE DraftsInv' /\ FormKept
  BY <1>3 DEF SaveCustom, Send, DraftsInv, EditorFields, Clean, FormKept
<1>4. ASSUME SaveForm PROVE DraftsInv' /\ CustomKept /\ FormKept
  BY <1>4 DEF SaveForm, Send, DraftsInv, EditorFields, CustomKept, FormKept
<1> QED BY <1>1, <1>2, <1>3, <1>4 DEF CustomKept, FormKept

\* Requests, answers and other operators touch no draft.
LEMMA DraftsRest ==
  ASSUME DraftsInv,
         \/ Commit \/ Answer \/ Fail \/ Poll \/ RolesArrive \/ Other
         \/ \E s \in Scopes : Read(s) \/ Arrive(s) \/ FetchFails(s)
  PROVE  DraftsInv' /\ CustomKept /\ FormKept
<1>1. ASSUME NEW s, Disturb(s), UNCHANGED <<page, asked>>
      PROVE  DraftsInv' /\ CustomKept /\ FormKept
  BY <1>1 DEF Disturb, DraftsInv, EditorFields, CustomKept, FormKept
<1>2. ASSUME UNCHANGED <<page, asked, custom>>, form.dirty => form' = form,
             form' = form \/ \E list, managed : form' = ResetForm(form, list, managed)
      PROVE  DraftsInv' /\ CustomKept /\ FormKept
  BY <1>2 DEF ResetForm, NoForm, DraftsInv, EditorFields, CustomKept, FormKept
<1>3. CASE Commit
  BY <1>1, <1>3 DEF Commit
<1>4. CASE Other
  BY <1>1, <1>4 DEF Other
<1>5. CASE Answer \/ Fail \/ Poll \/ \E s \in Scopes : Read(s) \/ FetchFails(s)
  BY <1>2, <1>5 DEF Answer, Fail, Poll, Read, FetchFails
<1>6. CASE RolesArrive
  BY <1>2, <1>6 DEF RolesArrive, ResetForm
<1>7. CASE \E s \in Scopes : Arrive(s)
  BY <1>2, <1>7 DEF Arrive, ResetForm
<1> QED BY <1>3, <1>4, <1>5, <1>6, <1>7

\* Another page begins with no draft or keeps the editors of the last.
LEMMA DraftsMove ==
  ASSUME DraftsInv, Navigate \/ Discard \/ Stay \/ Unmount
  PROVE  DraftsInv' /\ CustomKept /\ FormKept
<1>1. ASSUME NEW s, s # page, Enter(s), asked' = NoPage
      PROVE  DraftsInv' /\ CustomKept /\ FormKept
  <2>1. page' = s
    BY <1>1 DEF Enter
  <2>2. custom' \in {custom, Clean}
    BY <1>1 DEF Enter
  <2>3. form' \in {form, NoForm} \/ \E list, managed : form' = ResetForm(form, list, managed)
                                  \/ form' = ResetForm(NoForm, list, managed)
    BY <1>1 DEF Enter
  <2> QED BY <1>1, <2>1, <2>2, <2>3 DEF ResetForm, NoForm, Clean, DraftsInv, EditorFields,
                                        CustomKept, FormKept
<1>2. ASSUME Navigate PROVE DraftsInv' /\ CustomKept /\ FormKept
  <2>1. PICK s \in Scopes \ {page} :
          IF Blocked THEN asked' = s /\ UNCHANGED <<page, custom, form>>
          ELSE Go(s) /\ UNCHANGED asked
    BY <1>2 DEF Navigate
  <2>2. CASE Blocked
    BY <2>1, <2>2 DEF DraftsInv, EditorFields, CustomKept, FormKept
  <2>3. CASE ~Blocked
    BY <1>1, <1>2, <2>1, <2>3 DEF Navigate, Go
  <2> QED BY <2>2, <2>3
<1>3. ASSUME Discard PROVE DraftsInv' /\ CustomKept /\ FormKept
  BY <1>1, <1>3 DEF Discard, Go, DraftsInv
<1>4. ASSUME Stay \/ Unmount PROVE DraftsInv' /\ CustomKept /\ FormKept
  BY <1>4 DEF Stay, Unmount, DraftsInv, EditorFields, Clean, NoForm, CustomKept, FormKept
<1> QED BY <1>2, <1>3, <1>4

LEMMA DraftsStep ==
  ASSUME DraftsInv, [VariablesNext]_variablesVars
  PROVE  DraftsInv' /\ [CustomKept /\ FormKept]_variablesVars
<1>1. CASE UNCHANGED variablesVars
  BY <1>1 DEF variablesVars, DraftsInv, EditorFields
<1>2. CASE VariablesNext
  BY <1>2, DraftEdits, DraftsRest, DraftsMove DEF VariablesNext
<1> QED BY <1>1, <1>2

\* What is being typed in an editor of variables changes by the operator's hands only, or
\* when its page is left (DraftsSurvive): neither a poll or refetch, nor another operator,
\* nor a save of the other editor takes an unsaved draft away.
THEOREM TypingIsKept == VariablesSpec => DraftsSurvive
<1> DEFINE Kept ==
      /\ (custom.dirty /\ custom'.rows # custom.rows) => EditCustom \/ SaveCustom \/ page' # page
      /\ (form.dirty /\ form'.over # form.over) => SetOverride \/ page' # page
<1>1. DraftsInv /\ [VariablesNext]_variablesVars => DraftsInv' /\ [Kept]_variablesVars
  BY DraftsStep DEF CustomKept, FormKept
<1>2. VariablesSpec => [][Kept]_variablesVars
  BY <1>1, DraftsInitial, PTL DEF VariablesSpec
<1> QED BY <1>2 DEF DraftsSurvive

-----------------------------------------------------------------------------
(* Saves of variables: the operators *)

LEMMA MaxIsGreatest ==
  ASSUME NEW S \in SUBSET Nat, IsFiniteSet(S), S # {}
  PROVE  Max(S) \in S /\ \A i \in S : i <= Max(S)
<1> DEFINE Above == {{j \in S : i <= j} : i \in S}
<1>1. Above \subseteq FiniteSubsetsOf(Nat) /\ Above # {}
  <2>1. \A i \in S : IsFiniteSet({j \in S : i <= j}) /\ {j \in S : i <= j} \in SUBSET Nat
    <3> TAKE i \in S
    <3>1. {j \in S : i <= j} \in SUBSET S
      OBVIOUS
    <3> QED BY <3>1, FS_Subset
  <2> QED BY <2>1 DEF FiniteSubsetsOf
<1>2. IsWellFoundedOn(StrictSubsetOrdering(Nat), FiniteSubsetsOf(Nat))
  BY FS_StrictSubsetOrderingWellFounded
<1> HIDE DEF Above
<1>3. PICK s \in Above : \A t \in Above : <<t, s>> \notin StrictSubsetOrdering(Nat)
  BY <1>1, <1>2, WFMin
<1>4. PICK g \in S : s = {j \in S : g <= j}
  BY <1>3 DEF Above
<1>5. ASSUME NEW i \in S, ~(g >= i) PROVE FALSE
  <2> DEFINE t == {j \in S : i <= j}
  <2>1. t \in Above
    BY DEF Above
  <2>2. t \subseteq s /\ g \in s /\ g \notin t /\ s \in SUBSET Nat /\ t \in SUBSET Nat
    <3>1. g \in Nat /\ i \in Nat /\ g < i /\ \A j \in S : j \in Nat
      BY <1>5
    <3>2. \A j \in S : i <= j => g <= j
      BY <3>1
    <3>3. g <= g /\ ~(i <= g)
      BY <3>1
    <3>4. g \in s /\ g \notin t
      BY <1>4, <3>3
    <3>5. t \subseteq s
      BY <1>4, <3>2
    <3>6. s \subseteq S /\ t \subseteq S
      BY <1>4
    <3> QED BY <3>1, <3>4, <3>5, <3>6
  <2> HIDE DEF t
  <2>3. <<t, s>> \in StrictSubsetOrdering(Nat)
    BY <2>2 DEF StrictSubsetOrdering
  <2> QED BY <1>3, <2>1, <2>3
<1>6. Max(S) \in S /\ \A i \in S : Max(S) >= i
  BY <1>5, Zenon DEF Max
<1> QED BY <1>6

LEMMA MaxOfInterval ==
  ASSUME NEW m \in Nat, NEW S \in SUBSET (1..m), S # {}
  PROVE  Max(S) \in S /\ \A i \in S : i <= Max(S)
<1>1. IsFiniteSet(1..m)
  BY FS_Interval
<1>2. IsFiniteSet(S)
  BY <1>1, FS_Subset
<1>3. S \in SUBSET Nat
  OBVIOUS
<1> QED BY <1>2, <1>3, MaxIsGreatest

LEMMA FunctionIsSequence ==
  ASSUME NEW X, NEW m \in Nat, NEW f \in [1..m -> X]
  PROVE  f \in Seq(X) /\ Len(f) = m /\ DOMAIN f = 1..m
<1>1. f \in Seq(X)
  BY SeqDef
<1> QED BY <1>1, LenProperties

LEMMA ListedIs ==
  ASSUME NEW list \in List
  PROVE  /\ Listed(list) \in List
         /\ \A n \in Names :
              /\ Len(Listed(list)[n]) = Len(list[n]) /\ DOMAIN Listed(list)[n] = DOMAIN list[n]
              /\ \A i \in DOMAIN list[n] :
                   Listed(list)[n][i] = IF list[n][i].secret THEN [secret |-> TRUE, value |-> Null]
                                        ELSE list[n][i]
<1>1. ASSUME NEW n \in Names
      PROVE  /\ Listed(list)[n] \in Seq(Variable) /\ Len(Listed(list)[n]) = Len(list[n])
             /\ DOMAIN Listed(list)[n] = DOMAIN list[n]
             /\ \A i \in DOMAIN list[n] :
                  Listed(list)[n][i] = IF list[n][i].secret THEN [secret |-> TRUE, value |-> Null]
                                       ELSE list[n][i]
  <2> DEFINE new == [i \in DOMAIN list[n] |->
                       IF list[n][i].secret THEN [secret |-> TRUE, value |-> Null] ELSE list[n][i]]
  <2>1. list[n] \in Seq(Variable)
    BY DEF List
  <2>2. \A i \in DOMAIN list[n] : new[i] \in Variable
    <3>1. \A i \in DOMAIN list[n] : list[n][i] \in Variable
      BY <2>1
    <3>2. [secret |-> TRUE, value |-> Null] \in Variable
      BY DEF Variable, Stored
    <3> QED BY <3>1, <3>2
  <2>3. Listed(list)[n] = new
    BY DEF Listed
  <2>4. new \in [1..Len(list[n]) -> Variable] /\ Len(list[n]) \in Nat
    <3>1. DOMAIN list[n] = 1..Len(list[n]) /\ Len(list[n]) \in Nat
      BY <2>1, LenProperties
    <3>2. new \in [DOMAIN list[n] -> Variable]
      <4> DEFINE d == DOMAIN list[n]
      <4> HIDE DEF d
      <4> QED BY <2>2 DEF d
    <3> QED BY <3>1, <3>2
  <2>5. new \in Seq(Variable) /\ Len(new) = Len(list[n])
    <3> HIDE DEF new
    <3> QED BY <2>4, FunctionIsSequence
  <2> QED BY <2>1, <2>3, <2>5
<1>2. Listed(list) \in List
  BY <1>1 DEF List, Listed
<1> QED BY <1>1, <1>2

LEMMA KeysAre ==
  ASSUME NEW list \in List, NEW managed
  PROVE  /\ CustomKeys(list, managed) \subseteq Names \X (Nat \ {0})
         /\ IsFiniteSet(CustomKeys(list, managed))
         /\ \A k \in CustomKeys(list, managed) : k[1] \in Names /\ k[2] \in DOMAIN list[k[1]]
         /\ \A n \in Names, i \in Nat :
              <<n, i>> \in CustomKeys(list, managed) <=>
                i \in DOMAIN list[n] /\ (list[n][i].secret \/ n \notin managed)
<1> DEFINE keys == [n \in Names |-> {n} \X DOMAIN list[n]]
           all  == {{n} \X DOMAIN list[n] : n \in Names}
<1>1. \A n \in Names : list[n] \in Seq(Variable) /\ DOMAIN list[n] = 1..Len(list[n]) /\ Len(list[n]) \in Nat
  BY DEF List
<1>2. IsFiniteSet(UNION all)
  <2>1. IsFiniteSet(all)
    <3>1. keys \in Surjection(Names, all)
      BY DEF Surjection
    <3> HIDE DEF keys, all
    <3> QED BY <3>1, VariablesAssumption, FS_Surjection
  <2>2. \A n \in Names : IsFiniteSet({n} \X DOMAIN list[n])
    <3>1. \A n \in Names : IsFiniteSet(DOMAIN list[n]) /\ IsFiniteSet({n})
      BY <1>1, FS_Interval, FS_Singleton
    <3> QED BY <3>1, FS_Product
  <2>3. \A keysOfOne \in all : IsFiniteSet(keysOfOne)
    BY <2>2
  <2> HIDE DEF all
  <2> QED BY <2>1, <2>3, FS_UNION
<1>3. CustomKeys(list, managed) = {k \in UNION all : list[k[1]][k[2]].secret \/ k[1] \notin managed}
  BY DEF CustomKeys
<1>4. IsFiniteSet(CustomKeys(list, managed))
  <2> HIDE DEF all
  <2>1. CustomKeys(list, managed) \in SUBSET UNION all
    BY <1>3
  <2> QED BY <1>2, <2>1, FS_Subset
<1>5. \A k : k \in UNION all <=> \E n \in Names : \E i \in DOMAIN list[n] : k = <<n, i>>
  OBVIOUS
<1> HIDE DEF all
<1> QED BY <1>1, <1>3, <1>4, <1>5

LEMMA RowsAre ==
  ASSUME NEW list \in List, NEW managed
  PROVE  /\ DOMAIN ToRows(list, managed) = CustomKeys(list, managed)
         /\ \A k \in CustomKeys(list, managed) :
              /\ ToRows(list, managed)[k] \in Row
              /\ ToRows(list, managed)[k].name = k[1]
<1> SUFFICES ASSUME NEW k \in CustomKeys(list, managed)
             PROVE  ToRows(list, managed)[k] \in Row /\ ToRows(list, managed)[k].name = k[1]
  BY DEF ToRows
<1>1. k[1] \in Names /\ list[k[1]] \in Seq(Variable) /\ k[2] \in DOMAIN list[k[1]]
  BY KeysAre DEF List
<1>2. list[k[1]][k[2]] \in Variable
  BY <1>1
<1> QED BY <1>1, <1>2 DEF ToRows, Row, Variable, Stored, Texts, TextOf

LEMMA OverridesAre ==
  ASSUME NEW list \in List, NEW managed
  PROVE  ToOverrides(list, managed) \in [Names -> Texts \cup {Absent}]
<1> SUFFICES ASSUME NEW n \in Names PROVE ToOverrides(list, managed)[n] \in Texts \cup {Absent}
  BY DEF ToOverrides
<1> DEFINE plain == {i \in DOMAIN list[n] : ~list[n][i].secret}
<1>1. list[n] \in Seq(Variable) /\ plain \in SUBSET (1..Len(list[n])) /\ Len(list[n]) \in Nat
  BY DEF List
<1>2. ToOverrides(list, managed)[n] =
        IF n \in managed /\ plain # {} THEN TextOf(list[n][Max(plain)].value) ELSE Absent
  BY DEF ToOverrides
<1>3. CASE plain # {}
  <2>1. Max(plain) \in plain
    <3> DEFINE m == Len(list[n])
    <3>1. m \in Nat /\ plain \in SUBSET (1..m)
      BY <1>1
    <3> HIDE DEF plain, m
    <3> QED BY <1>3, <3>1, MaxOfInterval
  <2>2. Max(plain) \in DOMAIN list[n]
    BY <2>1
  <2>3. list[n][Max(plain)] \in Variable
    <3> HIDE DEF plain
    <3> QED BY <1>1, <2>2, ElementOfSeq, LenProperties
  <2> QED BY <1>2, <2>3 DEF Variable, Stored, Texts, TextOf
<1> QED BY <1>2, <1>3

\* A list with at most one row of a name: what the editors make of it.
LEMMA OverrideOfOne ==
  ASSUME NEW list \in List, NEW managed, NEW n \in Names, Len(list[n]) <= 1
  PROVE  ToOverrides(list, managed)[n] =
           IF n \in managed /\ list[n] # << >> /\ ~list[n][1].secret
           THEN TextOf(list[n][1].value) ELSE Absent
<1> DEFINE plain == {i \in DOMAIN list[n] : ~list[n][i].secret}
<1>1. list[n] \in Seq(Variable) /\ DOMAIN list[n] = 1..Len(list[n]) /\ Len(list[n]) \in {0, 1}
  <2>1. list[n] \in Seq(Variable)
    BY DEF List
  <2>2. Len(list[n]) \in Nat /\ DOMAIN list[n] = 1..Len(list[n])
    BY <2>1, LenProperties
  <2>3. \A l \in Nat : l <= 1 => l \in {0, 1}
    OBVIOUS
  <2> QED BY <2>1, <2>2, <2>3
<1>2. ToOverrides(list, managed)[n] =
        IF n \in managed /\ plain # {} THEN TextOf(list[n][Max(plain)].value) ELSE Absent
  BY DEF ToOverrides
<1>3. plain = IF list[n] # << >> /\ ~list[n][1].secret THEN {1} ELSE {}
  BY <1>1
<1>4. Max({1}) = 1
  BY DEF Max
<1> QED BY <1>2, <1>3, <1>4

-----------------------------------------------------------------------------
(* Saves of variables: the invariant *)

PlainHasValue(list) ==
  \A n \in Names : \A i \in DOMAIN list[n] : list[n][i].secret \/ list[n][i].value # Null

\* The types, with what the value of a request needs: only secrets are sent without one.
VariablesShape ==
  /\ VariablesTypeOK
  /\ put = [phase |-> put.phase, scope |-> put.scope, entries |-> put.entries,
            touched |-> put.touched, calm |-> put.calm]
  /\ put.phase = "sent" => put.scope \in Scopes
  /\ IsFiniteSet(DOMAIN custom.rows) /\ IsFiniteSet(DOMAIN put.entries)
  /\ \A s \in Scopes : PlainHasValue(stored[s])
  /\ \A k \in DOMAIN custom.rows : custom.rows[k].untouched => custom.rows[k].secret
  /\ \A k \in DOMAIN put.entries : put.entries[k].secret \/ put.entries[k].value # Null

\* The rows of a name are those that the list has.
Matches(rows, list, managed, n) ==
  \A k \in DOMAIN rows \cup CustomKeys(list, managed) :
    /\ (k \in DOMAIN rows /\ rows[k].name = n) <=> (k \in CustomKeys(list, managed) /\ k[1] = n)
    /\ k \in CustomKeys(list, managed) /\ k[1] = n => rows[k] = ToRows(list, managed)[k]

\* A draft that began on a fresh page, with no other writer since, differs from the list
\* where it was touched only.
CustomCalm ==
  custom.dirty /\ custom.calm =>
    /\ custom.from \in Scopes
    /\ \A n \in Names \ custom.touched :
         Matches(custom.rows, Listed(stored[custom.from]), declared[custom.from], n)

FormCalm ==
  form.dirty /\ form.calm =>
    /\ form.from \in Scopes
    /\ \A n \in Names \ form.touched :
         form.over[n] = ToOverrides(Listed(stored[form.from]), declared[form.from])[n]

\* An entry that leaves the row of its name as it is, and none for a name without a row.
KeptBy(entries, rows, n) ==
  IF rows = << >> THEN Named(entries, n) = {}
  ELSE \E k \in DOMAIN entries :
         /\ Named(entries, n) = {k} /\ entries[k].secret = rows[1].secret
         /\ KeepsValue(entries[k]) \/ entries[k].value = rows[1].value

PutCalm ==
  put.phase = "sent" /\ put.calm =>
    \A n \in Names \ put.touched :
      Replaceable(stored[put.scope][n], n \in declared[put.scope]) =>
        KeptBy(put.entries, stored[put.scope][n], n)

SavesInv == VariablesShape /\ CustomCalm /\ FormCalm /\ PutCalm

\* A request that sends one entry for a row, or none for no row, keeps the row.
LEMMA KeptRows ==
  ASSUME NEW list \in List, NEW entries, NEW n \in Names, Len(list[n]) <= 1,
         KeptBy(entries, list[n], n), NEW new \in ReplaceVariables(list, entries)
  PROVE  new[n] = list[n]
<1>1. PICK s \in SetToSeqs(Named(entries, n)) : new[n] \in Replaced(list[n], [i \in DOMAIN s |-> entries[s[i]]])
  BY DEF ReplaceVariables, Outcomes
<1>2. s \in [1..Cardinality(Named(entries, n)) -> Named(entries, n)]
  BY <1>1 DEF SetToSeqs
<1>3. list[n] \in Seq(Variable) /\ DOMAIN list[n] = 1..Len(list[n]) /\ Len(list[n]) \in Nat
  BY LenProperties DEF List
<1>4. CASE list[n] = << >>
  <2>1. Cardinality(Named(entries, n)) = 0
    BY <1>4, FS_EmptySet DEF KeptBy
  <2>2. DOMAIN s = {}
    BY <1>2, <2>1
  <2>3. [i \in DOMAIN s |-> entries[s[i]]] = << >>
    BY <2>2
  <2> QED BY <1>1, <1>4, <2>3 DEF Replaced
<1>5. CASE list[n] # << >>
  <2>1. PICK k \in DOMAIN entries :
          /\ Named(entries, n) = {k} /\ entries[k].secret = list[n][1].secret
          /\ KeepsValue(entries[k]) \/ entries[k].value = list[n][1].value
    BY <1>5 DEF KeptBy
  <2>2. DOMAIN s = {1} /\ s[1] = k
    <3>1. Cardinality(Named(entries, n)) = 1
      BY <2>1, FS_Singleton
    <3>2. s \in [1..1 -> {k}]
      BY <1>2, <2>1, <3>1
    <3>3. 1..1 = {1}
      OBVIOUS
    <3> QED BY <3>2, <3>3
  <2> DEFINE one == [i \in {1} |-> entries[k]]
  <2>3. new[n] \in Replaced(list[n], one)
    <3>1. [i \in DOMAIN s |-> entries[s[i]]] = one
      BY <2>2
    <3> QED BY <1>1, <3>1
  <2>4. one # << >> /\ Len(one) = 1 /\ DOMAIN one = {1} /\ one[1] = entries[k]
    <3>1. one \in [1..1 -> {entries[k]}]
      OBVIOUS
    <3> HIDE DEF one
    <3>2. Len(one) = 1
      BY <3>1, FunctionIsSequence
    <3> QED BY <3>1, <3>2 DEF one
  <2>5. DOMAIN list[n] = {1}
    <3>1. Len(list[n]) # 0
      BY <1>3, <1>5, EmptySeq
    <3>2. \A l \in Nat : l # 0 /\ l <= 1 => 1..l = {1}
      OBVIOUS
    <3> QED BY <1>3, <3>1, <3>2
  <2>6. list[n][1] = [secret |-> list[n][1].secret, value |-> list[n][1].value]
    <3>1. list[n][1] \in Variable
      BY <1>3, <2>5, ElementOfSeq
    <3> QED BY <3>1 DEF Variable
  <2>7. Updated(list[n][1], one) = list[n][1]
    <3> DEFINE given == {i \in DOMAIN one : ~KeepsValue(one[i])}
    <3>1. given = IF KeepsValue(entries[k]) THEN {} ELSE {1}
      BY <2>4
    <3>2. Max({1}) = 1
      BY DEF Max
    <3>3. Updated(list[n][1], one) =
            [secret |-> entries[k].secret,
             value |-> IF given = {} THEN list[n][1].value ELSE one[Max(given)].value]
      BY <2>4 DEF Updated, Last
    <3> HIDE DEF one, given
    <3> QED BY <2>1, <2>4, <2>6, <3>1, <3>2, <3>3
  <2>8. new[n] = [list[n] EXCEPT ![1] = Updated(list[n][1], one)]
    <3> HIDE DEF one
    <3> QED BY <1>5, <2>3, <2>4, <2>5 DEF Replaced
  <2> HIDE DEF one
  <2> QED BY <1>3, <2>7, <2>8
<1> QED BY <1>4, <1>5

\* What a request makes of a list is a list, and only secrets are without a value.
LEMMA ReplacedTyped ==
  ASSUME NEW list \in List, PlainHasValue(list), NEW entries, IsFiniteSet(DOMAIN entries),
         \A k \in DOMAIN entries :
           entries[k] \in Entry /\ (entries[k].secret \/ entries[k].value # Null),
         NEW new \in ReplaceVariables(list, entries)
  PROVE  new \in List /\ PlainHasValue(new)
<1>1. ASSUME NEW n \in Names
      PROVE  /\ new[n] \in Seq(Variable)
             /\ \A i \in DOMAIN new[n] : new[n][i].secret \/ new[n][i].value # Null
  <2> DEFINE c == Cardinality(Named(entries, n))
             fit(v) == v \in Variable /\ (v.secret \/ v.value # Null)
  <2>1. PICK s \in SetToSeqs(Named(entries, n)) : new[n] \in Replaced(list[n], [i \in DOMAIN s |-> entries[s[i]]])
    BY DEF ReplaceVariables, Outcomes
  <2>2. c \in Nat
    <3>1. IsFiniteSet(Named(entries, n))
      BY FS_Subset DEF Named
    <3> QED BY <3>1, FS_CardinalityType
  <2>3. s \in [1..c -> Named(entries, n)]
    BY <2>1 DEF SetToSeqs
  <2> HIDE DEF c
  <2> DEFINE es == [i \in DOMAIN s |-> entries[s[i]]]
  <2>4. es \in [1..c -> Entry] /\ \A i \in 1..c : es[i].secret \/ es[i].value # Null
    <3>1. \A i \in 1..c : s[i] \in DOMAIN entries
      BY <2>3 DEF Named
    <3> QED BY <2>3, <3>1
  <2>5. new[n] \in Replaced(list[n], es)
    BY <2>1
  <2> HIDE DEF es
  <2>6. Len(es) = c /\ DOMAIN es = 1..c /\ (es = << >> <=> c = 0)
    <3>1. es \in Seq(Entry) /\ Len(es) = c /\ DOMAIN es = 1..c
      BY <2>2, <2>4, FunctionIsSequence
    <3> QED BY <3>1, EmptySeq
  <2>7. list[n] \in Seq(Variable) /\ DOMAIN list[n] = 1..Len(list[n]) /\ Len(list[n]) \in Nat
    BY LenProperties DEF List
  <2>8. \A i \in DOMAIN list[n] : fit(list[n][i])
    <3>1. \A i \in DOMAIN list[n] : list[n][i] \in Variable
      BY <2>7, ElementOfSeq
    <3> QED BY <3>1 DEF PlainHasValue
  <2>9. CASE es = << >>
    <3>1. new[n] = << >>
      BY <2>5, <2>9 DEF Replaced
    <3> QED BY <3>1
  <2>10. CASE es # << >> /\ list[n] # << >>
    <3>1. PICK b \in DOMAIN list[n] : new[n] = [list[n] EXCEPT ![b] = Updated(list[n][b], es)]
      BY <2>5, <2>10 DEF Replaced
    <3>2. fit(Updated(list[n][b], es))
      <4> DEFINE given == {i \in DOMAIN es : ~KeepsValue(es[i])}
      <4>1. Updated(list[n][b], es) =
              [secret |-> es[c].secret,
               value |-> IF given = {} THEN list[n][b].value ELSE es[Max(given)].value]
        BY <2>6 DEF Updated, Last
      <4>2. c \in 1..c /\ es[c] \in Entry
        <5>1. c # 0
          BY <2>6, <2>10
        <5>2. \A l \in Nat : l # 0 => l \in 1..l
          OBVIOUS
        <5> QED BY <2>2, <2>4, <5>1, <5>2
      <4>3. given \in SUBSET (1..c)
        BY <2>6
      <4>4. CASE given = {}
        <5>1. es[c].secret
          BY <2>6, <4>2, <4>4 DEF KeepsValue
        <5> QED BY <2>8, <4>1, <4>2, <4>4, <5>1 DEF Variable, Entry
      <4>5. CASE given # {}
        <5>1. Max(given) \in given /\ \A i \in given : i <= Max(given)
          <6> HIDE DEF given
          <6> QED BY <2>2, <4>3, <4>5, MaxOfInterval
        <5>2. Max(given) \in 1..c /\ es[Max(given)] \in Entry
          BY <2>4, <4>3, <5>1
        <5>3. ~es[c].secret => Max(given) = c
          <6>1. ASSUME ~es[c].secret PROVE c \in given
            BY <2>6, <4>2, <6>1 DEF KeepsValue
          <6> QED BY <2>2, <5>1, <5>2, <6>1
        <5>4. es[c].secret \/ es[Max(given)].value # Null
          BY <2>4, <4>2, <5>3
        <5> HIDE DEF given
        <5> QED BY <4>1, <4>2, <4>5, <5>2, <5>4 DEF Variable, Entry
      <4> QED BY <4>4, <4>5
    <3> QED BY <2>7, <2>8, <3>1, <3>2, ExceptSeq
  <2>11. CASE es # << >> /\ list[n] = << >>
    <3> DEFINE rows == [i \in DOMAIN es |-> [secret |-> es[i].secret, value |-> es[i].value]]
    <3>1. new[n] = rows
      BY <2>5, <2>11 DEF Replaced
    <3>2. \A i \in 1..c : fit([secret |-> es[i].secret, value |-> es[i].value])
      BY <2>4 DEF Variable, Entry
    <3>3. rows \in [1..c -> Variable] /\ \A i \in 1..c : rows[i].secret \/ rows[i].value # Null
      BY <2>6, <3>2
    <3> HIDE DEF rows
    <3>4. rows \in Seq(Variable) /\ DOMAIN rows = 1..c
      BY <2>2, <3>3, FunctionIsSequence
    <3> QED BY <3>1, <3>3, <3>4
  <2> QED BY <2>9, <2>10, <2>11
<1>2. new \in [Names -> UNION {Outcomes(list, entries, n) : n \in Names}]
  BY DEF ReplaceVariables
<1> QED BY <1>1, <1>2 DEF List, PlainHasValue

\* The rows that an editor shows.
LEMMA CustomRowsAre ==
  ASSUME VariablesShape, Mounted
  PROVE  /\ page \in Scopes /\ shown[page] \in List
         /\ IsFiniteSet(DOMAIN CustomRows) /\ DOMAIN CustomRows \subseteq RowKeys
         /\ \A k \in DOMAIN CustomRows :
              CustomRows[k] \in Row /\ (CustomRows[k].untouched => CustomRows[k].secret)
<1>1. page \in Scopes /\ shown[page] \in List
  BY DEF VariablesShape, VariablesTypeOK, Mounted
<1>2. CASE custom.dirty
  BY <1>1, <1>2 DEF VariablesShape, VariablesTypeOK, CustomRows
<1>3. CASE ~custom.dirty
  <2> DEFINE list == shown[page]
             managed == Managed(page)
  <2> HIDE DEF list, managed
  <2>1. CustomRows = ToRows(list, managed) /\ list \in List
    BY <1>1, <1>3 DEF CustomRows, list, managed
  <2>2. \A k \in CustomKeys(list, managed) : ToRows(list, managed)[k].untouched => ToRows(list, managed)[k].secret
    BY DEF ToRows
  <2> QED BY <1>1, <2>1, <2>2, RowsAre, KeysAre DEF RowKeys
<1> QED BY <1>2, <1>3

LEMMA EntriesTyped ==
  ASSUME VariablesShape, Mounted
  PROVE  /\ IsFiniteSet(DOMAIN Entries)
         /\ \A k \in DOMAIN Entries :
              Entries[k] \in Entry /\ (Entries[k].secret \/ Entries[k].value # Null)
<1>1. /\ IsFiniteSet(DOMAIN CustomRows)
      /\ \A k \in DOMAIN CustomRows :
           CustomRows[k] \in Row /\ (CustomRows[k].untouched => CustomRows[k].secret)
  BY CustomRowsAre
<1>2. DOMAIN Entries = CustomOwned \cup (FormOwned \X {0})
  BY DEF Entries
<1>3. FormOwned \subseteq Names
  BY VariablesAssumption, CustomRowsAre DEF FormOwned, Managed, VariablesShape, VariablesTypeOK
<1>4. IsFiniteSet(DOMAIN Entries)
  <2>1. IsFiniteSet(CustomOwned)
    <3>1. CustomOwned \in SUBSET DOMAIN CustomRows
      BY DEF CustomOwned
    <3> QED BY <1>1, <3>1, FS_Subset
  <2>2. IsFiniteSet(FormOwned)
    BY <1>3, VariablesAssumption, FS_Subset
  <2> DEFINE fields == FormOwned \X {0}
  <2>3. IsFiniteSet(fields)
    BY <2>2, FS_Singleton, FS_Product
  <2>4. DOMAIN Entries = CustomOwned \cup fields
    BY <1>2
  <2> HIDE DEF fields
  <2> QED BY <2>1, <2>3, <2>4, FS_Union
<1>5. ASSUME NEW k \in CustomOwned
      PROVE  Entries[k] \in Entry /\ (Entries[k].secret \/ Entries[k].value # Null)
  <2> DEFINE row == CustomRows[k]
  <2>1. row \in Row /\ (row.untouched => row.secret) /\ row.name # Blank /\ RowValid(row)
    BY <1>1 DEF CustomOwned
  <2>2. Entries[k] = [name |-> row.name, secret |-> row.secret,
                      value |-> IF row.secret /\ row.untouched THEN Null ELSE row.text]
    BY DEF Entries
  <2> HIDE DEF row
  <2>3. (row.secret /\ row.untouched) \/ row.text \in Values \cup {Empty, Unfit}
    BY <2>1 DEF RowValid, Row, Texts
  <2> QED BY <2>1, <2>2, <2>3, VariablesAssumption DEF Row, Entry, Stored, Texts
<1>6. ASSUME NEW k \in DOMAIN Entries, k \notin CustomOwned
      PROVE  Entries[k] \in Entry /\ (Entries[k].secret \/ Entries[k].value # Null)
  <2>1. k[1] \in FormOwned /\ Entries[k] = [name |-> k[1], secret |-> FALSE, value |-> form.over[k[1]]]
    BY <1>2, <1>6 DEF Entries
  <2>2. form.over[k[1]] \in Values \cup {Empty}
    BY <1>3, <2>1 DEF FormOwned, FieldValid, VariablesShape, VariablesTypeOK, Texts
  <2> QED BY <1>3, <2>1, <2>2, VariablesAssumption DEF Entry, Stored, Texts
<1> QED BY <1>2, <1>4, <1>5, <1>6

\* A save from a fresh page sends what was not touched as it is stored.
LEMMA SentKept ==
  ASSUME SavesInv, Mounted, Calm(page),
         custom.dirty => custom.calm /\ custom.from = page,
         IF form.dirty THEN form.calm /\ form.from = page ELSE FormFresh,
         NEW n \in Names, n \notin custom.touched \cup form.touched,
         Replaceable(stored[page][n], n \in declared[page])
  PROVE  KeptBy(Entries, stored[page][n], n)
<1> DEFINE list == stored[page]
           seen == Listed(list)
           managed == declared[page]
<1>1. /\ page \in Scopes /\ list \in List /\ PlainHasValue(list)
      /\ shown[page] = seen /\ Managed(page) = managed /\ seen \in List
  BY CustomRowsAre, ListedIs DEF SavesInv, VariablesShape, VariablesTypeOK, Calm
<1>2. list[n] \in Seq(Variable) /\ DOMAIN list[n] = 1..Len(list[n]) /\ Len(list[n]) \in Nat
      /\ Len(list[n]) <= 1
  BY <1>1, LenProperties DEF List, Replaceable
<1>3. /\ seen[n] \in Seq(Variable) /\ Len(seen[n]) = Len(list[n]) /\ DOMAIN seen[n] = DOMAIN list[n]
      /\ \A i \in DOMAIN list[n] : seen[n][i] = IF list[n][i].secret THEN [secret |-> TRUE, value |-> Null]
                                                ELSE list[n][i]
  BY <1>1, ListedIs DEF List
<1> HIDE DEF seen
<1>4. Matches(CustomRows, seen, managed, n)
  <2>1. CASE custom.dirty
    BY <2>1 DEF SavesInv, CustomCalm, CustomRows, seen
  <2>2. CASE ~custom.dirty
    <3>1. CustomRows = ToRows(seen, managed)
      BY <1>1, <2>2 DEF CustomRows
    <3> QED BY <1>1, <3>1, RowsAre DEF Matches
  <2> QED BY <2>1, <2>2
<1>5. form.over[n] = IF n \in managed /\ seen[n] # << >> /\ ~seen[n][1].secret
                     THEN TextOf(seen[n][1].value) ELSE Absent
  <2>1. form.over[n] = ToOverrides(seen, managed)[n]
    BY <1>1 DEF SavesInv, FormCalm, FormFresh, seen
  <2> QED BY <1>1, <1>2, <1>3, <2>1, OverrideOfOne
<1> HIDE DEF list, managed
<1>6. \A m : <<m, 0>> \notin CustomOwned
  BY CustomRowsAre DEF CustomOwned, RowKeys, SavesInv
<1>7. \A k : k \in Named(Entries, n) <=>
               \/ k \in CustomOwned /\ CustomRows[k].name = n
               \/ k = <<n, 0>> /\ n \in FormOwned
  BY <1>6 DEF Named, Entries
<1>8. \A k : k \in CustomOwned /\ CustomRows[k].name = n <=>
               k \in CustomKeys(seen, managed) /\ k[1] = n /\ RowValid(ToRows(seen, managed)[k])
  BY <1>4, VariablesAssumption DEF Matches, CustomOwned
<1>9. CASE list[n] = << >>
  <2>1. DOMAIN list[n] = {} /\ seen[n] = << >>
    BY <1>2, <1>3, <1>9, EmptySeq
  <2>2. \A k \in CustomKeys(seen, managed) : k[1] # n
    BY <1>1, <1>3, <2>1, KeysAre
  <2>3. n \notin FormOwned
    BY <1>5, <2>1 DEF FormOwned
  <2>4. Named(Entries, n) = {}
    BY <1>7, <1>8, <2>2, <2>3
  <2> QED BY <1>9, <2>4 DEF KeptBy, list
<1>10. CASE list[n] # << >>
  <2> DEFINE row == list[n][1]
  <2>1. DOMAIN list[n] = {1} /\ seen[n] # << >>
    <3>1. Len(list[n]) # 0
      BY <1>2, <1>10, EmptySeq
    <3>2. \A l \in Nat : l # 0 /\ l <= 1 => 1..l = {1}
      OBVIOUS
    <3> QED BY <1>2, <1>3, <3>1, <3>2
  <2>2. row \in Variable /\ (row.secret \/ row.value # Null)
    BY <1>1, <1>2, <2>1, ElementOfSeq DEF PlainHasValue
  <2>3. seen[n][1] = IF row.secret THEN [secret |-> TRUE, value |-> Null] ELSE row
    BY <1>3, <2>1
  <2>4. \A k : k \in CustomKeys(seen, managed) /\ k[1] = n <=> k = <<n, 1>> /\ (row.secret \/ n \notin managed)
    <3>1. \A k \in CustomKeys(seen, managed) : k[1] = n => k = <<n, 1>>
      BY <1>1, <1>3, <2>1, KeysAre
    <3>2. <<n, 1>> \in CustomKeys(seen, managed) <=> row.secret \/ n \notin managed
      <4>1. <<n, 1>> \in CustomKeys(seen, managed) <=>
              1 \in DOMAIN seen[n] /\ (seen[n][1].secret \/ n \notin managed)
        BY <1>1, KeysAre
      <4> QED BY <1>3, <2>1, <2>3, <4>1
    <3> QED BY <3>1, <3>2
  <2>5. ~row.secret => TextOf(row.value) = row.value /\ row.value \in Values \cup {Empty, Unfit}
    BY <2>2 DEF Variable, Stored, TextOf
  <2>6. CASE row.secret \/ n \notin managed
    <3> DEFINE key == <<n, 1>>
    <3>1. key \in CustomKeys(seen, managed) /\ key[1] = n
      BY <2>4, <2>6
    <3>2. ToRows(seen, managed)[key] =
            [name |-> n, secret |-> row.secret, text |-> IF row.secret THEN Empty ELSE row.value,
             untouched |-> row.secret]
      <4>1. seen[n][1].secret = row.secret /\ (~row.secret => seen[n][1] = row)
        <5>1. row.secret \in BOOLEAN
          BY <2>2 DEF Variable
        <5>2. row.secret => row.secret = TRUE
          <6> HIDE DEF row
          <6> QED BY <5>1, Zenon
        <5> HIDE DEF row
        <5>3. row.secret => seen[n][1].secret = TRUE
          BY <2>3
        <5> QED BY <2>3, <5>2, <5>3, Zenon
      <4> QED BY <2>5, <3>1, <4>1 DEF ToRows
    <3>3. RowValid(ToRows(seen, managed)[key])
      BY <2>5, <3>2, VariablesAssumption DEF RowValid
    <3>4. key \in CustomOwned /\ CustomRows[key].name = n
      BY <1>8, <3>1, <3>3
    <3>5. CustomRows[key] = ToRows(seen, managed)[key]
      BY <1>4, <3>1 DEF Matches
    <3>6. Entries[key] = [name |-> n, secret |-> row.secret,
                          value |-> IF row.secret THEN Null ELSE row.value]
      BY <2>2, <3>2, <3>4, <3>5 DEF Entries, Variable
    <3>7. n \notin FormOwned
      BY <1>5, <2>3, <2>6 DEF FormOwned
    <3>8. Named(Entries, n) = {key}
      BY <1>7, <1>8, <2>4, <3>4, <3>7
    <3>9. key \in DOMAIN Entries
      BY <3>4 DEF Entries
    <3> HIDE DEF key
    <3> QED BY <1>10, <3>6, <3>8, <3>9 DEF KeptBy, KeepsValue, list
  <2>7. CASE ~row.secret /\ n \in managed
    <3> DEFINE key == <<n, 0>>
    <3>1. form.over[n] = row.value
      BY <1>5, <2>1, <2>3, <2>5, <2>7
    <3>2. row.value \in Values \cup {Empty}
      BY <2>1, <2>5, <2>7 DEF Replaceable, list, managed
    <3>3. n \in FormOwned
      BY <1>1, <2>7, <3>1, <3>2, VariablesAssumption DEF FormOwned, FieldValid, Texts
    <3>4. Named(Entries, n) = {key}
      BY <1>7, <1>8, <2>4, <2>7, <3>3
    <3>5. key \in DOMAIN Entries /\ Entries[key] = [name |-> n, secret |-> FALSE, value |-> row.value]
      BY <1>6, <3>1, <3>3 DEF Entries
    <3>6. row.secret = FALSE
      <4>1. row.secret \in BOOLEAN
        BY <2>2 DEF Variable
      <4> HIDE DEF row
      <4> QED BY <2>7, <4>1, Zenon
    <3>7. Entries[key].secret = row.secret /\ Entries[key].value = row.value
      <4>1. Entries[key].secret = FALSE /\ Entries[key].value = row.value
        BY <3>5
      <4> HIDE DEF key, row
      <4> QED BY <3>6, <4>1, Zenon
    <3> HIDE DEF key
    <3> QED BY <1>10, <3>4, <3>5, <3>7, Zenon DEF KeptBy, list
  <2> QED BY <2>6, <2>7
<1> QED BY <1>9, <1>10

\* The rows that an edit leaves alone.
SameRows(rows, names) ==
  \A n \in Names \ names : \A k \in DOMAIN rows \cup DOMAIN CustomRows :
    /\ (k \in DOMAIN rows /\ rows[k].name = n) <=> (k \in DOMAIN CustomRows /\ CustomRows[k].name = n)
    /\ k \in DOMAIN rows /\ rows[k].name = n => rows[k] = CustomRows[k]

\* Rows that can be shown.
RowsTyped(rows) ==
  /\ IsFiniteSet(DOMAIN rows) /\ DOMAIN rows \subseteq RowKeys
  /\ \A k \in DOMAIN rows : rows[k] \in Row /\ (rows[k].untouched => rows[k].secret)

LEMMA CustomDraftStep ==
  ASSUME DraftsInv, SavesInv, PageUsable, NEW rows, NEW names, CustomDraft(rows, names),
         UNCHANGED form, UnchangedByEdit, RowsTyped(rows), SameRows(rows, names)
  PROVE  SavesInv'
<1>1. /\ custom'.rows = rows /\ custom'.dirty = TRUE
      /\ custom'.touched = IF custom.dirty THEN custom.touched \cup names ELSE names
      /\ custom'.from = IF custom.dirty THEN custom.from ELSE page
      /\ custom'.calm = IF custom.dirty THEN custom.calm ELSE Calm(page)
  <2> DEFINE all == custom.touched \cup names
  <2> HIDE DEF all
  <2>1. CASE custom.dirty
    <3>1. custom' = [custom EXCEPT !.rows = rows, !.touched = all]
      BY <2>1 DEF CustomDraft, all
    <3>2. custom.dirty = TRUE
      BY <2>1, <3>1 DEF DraftsInv, EditorFields
    <3> QED BY <2>1, <3>1, <3>2 DEF DraftsInv, EditorFields, all
  <2>2. CASE ~custom.dirty
    BY <2>2 DEF CustomDraft
  <2> QED BY <2>1, <2>2
<1>2. VariablesShape'
  BY <1>1 DEF SavesInv, VariablesShape, VariablesTypeOK, UnchangedByEdit, RowsTyped
<1>3. CustomCalm'
  <2>1. ASSUME custom.dirty, custom.calm, NEW n \in Names \ (custom.touched \cup names)
        PROVE  Matches(rows, Listed(stored[custom.from]), declared[custom.from], n)
    <3>1. Matches(CustomRows, Listed(stored[custom.from]), declared[custom.from], n)
      BY <2>1 DEF SavesInv, CustomCalm, CustomRows
    <3> QED BY <2>1, <3>1 DEF Matches, SameRows
  <2>2. ASSUME ~custom.dirty, Calm(page), NEW n \in Names \ names
        PROVE  Matches(rows, Listed(stored[page]), declared[page], n)
    <3> DEFINE seen == Listed(stored[page])
               managed == declared[page]
    <3>1. CustomRows = ToRows(seen, managed) /\ seen \in List
      BY <2>2, CustomRowsAre DEF CustomRows, Calm, PageUsable, SavesInv
    <3> HIDE DEF seen, managed
    <3>2. Matches(CustomRows, seen, managed, n)
      BY <3>1, RowsAre DEF Matches
    <3>3. Matches(rows, seen, managed, n)
      BY <2>2, <3>2 DEF Matches, SameRows
    <3> QED BY <3>3 DEF seen, managed
  <2>3. page \in Scopes
    BY CustomRowsAre DEF PageUsable, SavesInv
  <2>4. CASE custom.dirty
    BY <1>1, <2>1, <2>4 DEF CustomCalm, SavesInv, UnchangedByEdit
  <2>5. CASE ~custom.dirty
    BY <1>1, <2>2, <2>3, <2>5 DEF CustomCalm, UnchangedByEdit
  <2> QED BY <2>4, <2>5
<1>4. FormCalm' /\ PutCalm'
  BY DEF SavesInv, FormCalm, PutCalm, UnchangedByEdit
<1> QED BY <1>2, <1>3, <1>4 DEF SavesInv

\* A new row in place of one: only the names of the two are touched.
LEMMA RowChanged ==
  ASSUME DraftsInv, SavesInv, PageUsable, NEW k \in DOMAIN CustomRows, NEW row \in Row,
         row.untouched => row.secret, NEW names, CustomRows[k].name \in names, row.name \in names,
         CustomDraft([CustomRows EXCEPT ![k] = row], names), UNCHANGED form, UnchangedByEdit
  PROVE  SavesInv'
<1> DEFINE rows == [CustomRows EXCEPT ![k] = row]
<1>1. DOMAIN rows = DOMAIN CustomRows /\ \A l \in DOMAIN rows : rows[l] = IF l = k THEN row ELSE CustomRows[l]
  BY CustomRowsAre DEF CustomRows, ToRows
<1>2. CustomDraft(rows, names)
  OBVIOUS
<1> HIDE DEF rows
<1>3. RowsTyped(rows)
  BY <1>1, CustomRowsAre DEF RowsTyped, SavesInv, PageUsable
<1>4. SameRows(rows, names)
  BY <1>1 DEF SameRows
<1> QED BY <1>2, <1>3, <1>4, CustomDraftStep

LEMMA EditsKeepCalm ==
  ASSUME DraftsInv, SavesInv, EditCustom
  PROVE  SavesInv'
<1>1. ASSUME PageUsable
      PROVE  \A k \in DOMAIN CustomRows :
               CustomRows[k] \in Row /\ (CustomRows[k].untouched => CustomRows[k].secret)
  BY <1>1, CustomRowsAre DEF SavesInv, PageUsable
<1>2. CASE TypeText
  <2>1. PICK k \in DOMAIN CustomRows, t \in Values \cup {Bad} :
          /\ CustomDraft([CustomRows EXCEPT ![k] = [CustomRows[k] EXCEPT !.text = t, !.untouched = FALSE]],
                         {CustomRows[k].name})
          /\ UNCHANGED form /\ UnchangedByEdit /\ PageUsable
    BY <1>2 DEF TypeText, Edited
  <2> DEFINE row == [CustomRows[k] EXCEPT !.text = t, !.untouched = FALSE]
             names == {CustomRows[k].name}
  <2>2. row \in Row /\ (row.untouched => row.secret) /\ row.name \in names
    BY <1>1, <2>1 DEF Row, Texts
  <2>3. CustomDraft([CustomRows EXCEPT ![k] = row], names) /\ CustomRows[k].name \in names
    BY <2>1
  <2> HIDE DEF row, names
  <2> QED BY <2>1, <2>2, <2>3, RowChanged
<1>3. CASE Rename
  <2>1. PICK k \in DOMAIN CustomRows, n \in Names :
          /\ CustomDraft([CustomRows EXCEPT ![k] = [CustomRows[k] EXCEPT !.name = n]],
                         {CustomRows[k].name, n})
          /\ UNCHANGED form /\ UnchangedByEdit /\ PageUsable
    BY <1>3 DEF Rename, Edited
  <2> DEFINE row == [CustomRows[k] EXCEPT !.name = n]
             names == {CustomRows[k].name, n}
  <2>2. row \in Row /\ (row.untouched => row.secret) /\ row.name \in names
    BY <1>1, <2>1 DEF Row
  <2>3. CustomDraft([CustomRows EXCEPT ![k] = row], names) /\ CustomRows[k].name \in names
    BY <2>1
  <2> HIDE DEF row, names
  <2> QED BY <2>1, <2>2, <2>3, RowChanged
<1>4. CASE SwitchSecret
  <2>1. PICK k \in DOMAIN CustomRows :
          /\ CustomDraft([CustomRows EXCEPT ![k] =
                            [CustomRows[k] EXCEPT !.secret = ~CustomRows[k].secret, !.untouched = FALSE]],
                         {CustomRows[k].name})
          /\ UNCHANGED form /\ UnchangedByEdit /\ PageUsable
    BY <1>4 DEF SwitchSecret, Edited
  <2> DEFINE row == [CustomRows[k] EXCEPT !.secret = ~CustomRows[k].secret, !.untouched = FALSE]
             names == {CustomRows[k].name}
  <2>2. row \in Row /\ (row.untouched => row.secret) /\ row.name \in names
    BY <1>1, <2>1 DEF Row
  <2>3. CustomDraft([CustomRows EXCEPT ![k] = row], names) /\ CustomRows[k].name \in names
    BY <2>1
  <2> HIDE DEF row, names
  <2> QED BY <2>1, <2>2, <2>3, RowChanged
<1>5. CASE RemoveRow
  <2>1. PICK k \in DOMAIN CustomRows :
          /\ CustomDraft([other \in DOMAIN CustomRows \ {k} |-> CustomRows[other]], {CustomRows[k].name})
          /\ UNCHANGED form /\ UnchangedByEdit /\ PageUsable
    BY <1>5 DEF RemoveRow, Edited
  <2> DEFINE rows == [other \in DOMAIN CustomRows \ {k} |-> CustomRows[other]]
             names == {CustomRows[k].name}
  <2>2. DOMAIN rows = DOMAIN CustomRows \ {k} /\ \A l \in DOMAIN rows : rows[l] = CustomRows[l]
    OBVIOUS
  <2>3. CustomDraft(rows, names)
    BY <2>1
  <2> HIDE DEF rows
  <2>4. RowsTyped(rows)
    <3>1. IsFiniteSet(DOMAIN rows)
      BY <2>1, <2>2, CustomRowsAre, FS_Subset DEF SavesInv, PageUsable
    <3> QED BY <2>1, <2>2, <3>1, CustomRowsAre DEF RowsTyped, SavesInv, PageUsable
  <2>5. SameRows(rows, names)
    BY <2>2 DEF SameRows
  <2> QED BY <2>1, <2>3, <2>4, <2>5, CustomDraftStep
<1>6. CASE AddRow
  <2> DEFINE added == {k[2] : k \in {k \in DOMAIN CustomRows : k[1] = Blank}}
             next  == <<Blank, 1 + Max(added \cup {0})>>
             rows  == [k \in DOMAIN CustomRows \cup {next} |-> IF k = next THEN NewRow ELSE CustomRows[k]]
  <2>1. PageUsable /\ CustomDraft(rows, {}) /\ UNCHANGED form /\ UnchangedByEdit
    BY <1>6 DEF AddRow, Edited
  <2>2. IsFiniteSet(DOMAIN CustomRows) /\ DOMAIN CustomRows \subseteq RowKeys
    BY <2>1, CustomRowsAre DEF SavesInv, PageUsable
  <2>3. Max(added \cup {0}) \in Nat /\ \A i \in added : i <= Max(added \cup {0})
    <3>1. added \in SUBSET Nat
      BY <2>2 DEF RowKeys
    <3>2. IsFiniteSet(added)
      <4> DEFINE keys == {k \in DOMAIN CustomRows : k[1] = Blank}
                 second == [k \in keys |-> k[2]]
      <4>1. IsFiniteSet(keys)
        BY <2>2, FS_Subset
      <4>2. second \in Surjection(keys, added)
        BY DEF Surjection
      <4> HIDE DEF keys, second, added
      <4> QED BY <4>1, <4>2, FS_Surjection
    <3> DEFINE all == added \cup {0}
    <3>3. IsFiniteSet(all) /\ all \in SUBSET Nat /\ all # {}
      <4> HIDE DEF added
      <4> QED BY <3>1, <3>2, FS_AddElement
    <3> HIDE DEF all
    <3>4. Max(all) \in all /\ \A i \in all : i <= Max(all)
      BY <3>3, MaxIsGreatest
    <3> QED BY <3>3, <3>4 DEF all
  <2>4. next \in RowKeys /\ next \notin DOMAIN CustomRows
    <3>1. ASSUME next \in DOMAIN CustomRows PROVE FALSE
      <4> DEFINE g == Max(added \cup {0})
      <4> HIDE DEF g
      <4>1. 1 + g \in added
        <5> DEFINE key == <<Blank, 1 + g>>
        <5>1. key \in DOMAIN CustomRows /\ key[1] = Blank /\ key[2] = 1 + g
          BY <3>1 DEF g
        <5> HIDE DEF key
        <5> QED BY <5>1
      <4> HIDE DEF added, g
      <4>2. g \in Nat /\ 1 + g <= g
        BY <2>3, <4>1 DEF g
      <4> QED BY <4>2
    <3> QED BY <2>3, <3>1 DEF RowKeys
  <2> HIDE DEF added, next
  <2>5. DOMAIN rows = DOMAIN CustomRows \cup {next} /\ rows[next] = NewRow
        /\ \A k \in DOMAIN CustomRows : rows[k] = CustomRows[k]
    BY <2>4
  <2> HIDE DEF rows
  <2>6. NewRow \in Row /\ ~NewRow.untouched /\ NewRow.name = Blank
    BY DEF NewRow, Row, Texts
  <2>7. RowsTyped(rows)
    <3>1. IsFiniteSet(DOMAIN rows)
      BY <2>2, <2>5, FS_AddElement
    <3> QED BY <1>1, <2>1, <2>2, <2>4, <2>5, <2>6, <3>1 DEF RowsTyped
  <2>8. SameRows(rows, {})
    BY <2>4, <2>5, <2>6, VariablesAssumption DEF SameRows
  <2> QED BY <2>1, <2>7, <2>8, CustomDraftStep
<1> QED BY <1>2, <1>3, <1>4, <1>5, <1>6 DEF EditCustom

LEMMA OverridesKeepCalm ==
  ASSUME DraftsInv, SavesInv, SetOverride
  PROVE  SavesInv'
<1>1. PICK n \in Managed(page), text \in Values \cup {Bad, Absent} : FormDraft(n, text)
  BY DEF SetOverride
<1>2. PageUsable /\ UNCHANGED custom /\ UnchangedByEdit
  BY DEF SetOverride, Edited
<1>3. page \in Scopes /\ shown[page] \in List /\ n \in Names
  BY <1>2, CustomRowsAre, VariablesAssumption
     DEF SavesInv, PageUsable, VariablesShape, VariablesTypeOK, Managed
<1> DEFINE over == [form.over EXCEPT ![n] = text]
           all == form.touched \cup {n}
<1>4. over \in [Names -> Texts \cup {Absent}] /\ \A m \in Names : m # n => over[m] = form.over[m]
  BY <1>3 DEF SavesInv, VariablesShape, VariablesTypeOK, Texts
<1>5. /\ form'.over = over /\ form'.touched = all
      /\ form'.from = IF form.dirty THEN form.from ELSE page
      /\ form'.calm = IF form.dirty THEN form.calm ELSE Calm(page) /\ FormFresh
  <2>1. CASE form.dirty
    <3>1. form' = [form EXCEPT !.over = over, !.touched = all]
      BY <1>1, <2>1 DEF FormDraft
    <3> HIDE DEF over, all
    <3> QED BY <2>1, <3>1 DEF DraftsInv, EditorFields
  <2>2. CASE ~form.dirty
    <3>1. form' = [dirty |-> TRUE, over |-> over, touched |-> all, from |-> page,
                   calm |-> Calm(page) /\ FormFresh]
      BY <1>1, <2>2 DEF FormDraft
    <3> HIDE DEF over, all
    <3> QED BY <2>2, <3>1
  <2> QED BY <2>1, <2>2
<1> HIDE DEF over
<1>6. VariablesShape'
  BY <1>2, <1>4, <1>5 DEF SavesInv, VariablesShape, VariablesTypeOK, UnchangedByEdit
<1>7. FormCalm'
  <2>1. CASE form.dirty
    BY <1>2, <1>4, <1>5, <2>1 DEF SavesInv, FormCalm, UnchangedByEdit
  <2>2. CASE ~form.dirty
    <3>1. ASSUME form'.calm
          PROVE  \A m \in Names \ form'.touched :
                   form'.over[m] = ToOverrides(Listed(stored[page]), declared[page])[m]
      <4>1. Calm(page) /\ FormFresh
        BY <1>5, <2>2, <3>1
      <4> QED BY <1>4, <1>5, <4>1 DEF Calm, FormFresh
    <3>2. form'.from = page
      BY <1>5, <2>2
    <3> QED BY <1>2, <1>3, <3>1, <3>2 DEF FormCalm, UnchangedByEdit
  <2> QED BY <2>1, <2>2
<1>8. CustomCalm' /\ PutCalm'
  BY <1>2 DEF SavesInv, CustomCalm, PutCalm, UnchangedByEdit
<1> QED BY <1>6, <1>7, <1>8 DEF SavesInv

LEMMA SendsAreCalm ==
  ASSUME DraftsInv, SavesInv, SaveCustom \/ SaveForm
  PROVE  SavesInv'
<1>1. Mounted /\ Send
  BY DEF SaveCustom, SaveForm, PageUsable
<1>2. page \in Scopes
  BY <1>1, CustomRowsAre DEF SavesInv
<1>3. /\ put'.phase = "sent" /\ put'.scope = page /\ put'.entries = Entries
      /\ put'.touched = custom.touched \cup form.touched
      /\ put'.calm => /\ Calm(page) /\ (custom.dirty => custom.calm /\ custom.from = page)
                      /\ IF form.dirty THEN form.calm /\ form.from = page ELSE FormFresh
      /\ put' = [phase |-> put'.phase, scope |-> put'.scope, entries |-> put'.entries,
                 touched |-> put'.touched, calm |-> put'.calm]
  BY <1>1 DEF Send
<1>4. UNCHANGED <<stored, declared, page, shown, roles, fetch, guard, asked>>
  BY <1>1 DEF Send
<1>5. /\ custom' \in {custom, Clean}
      /\ form' = form \/ (form'.over = form.over /\ form'.dirty = FALSE)
  BY DEF SaveCustom, SaveForm, DraftsInv, EditorFields
<1>6. VariablesShape'
  <2>1. /\ IsFiniteSet(DOMAIN put'.entries) /\ \A k \in DOMAIN put'.entries :
             put'.entries[k] \in Entry /\ (put'.entries[k].secret \/ put'.entries[k].value # Null)
    BY <1>1, <1>3, EntriesTyped DEF SavesInv
  <2>2. IsFiniteSet(DOMAIN custom'.rows) /\ DOMAIN custom'.rows \subseteq RowKeys
        /\ \A k \in DOMAIN custom'.rows :
             custom'.rows[k] \in Row /\ (custom'.rows[k].untouched => custom'.rows[k].secret)
    BY <1>5, FS_EmptySet DEF SavesInv, VariablesShape, VariablesTypeOK, Clean
  <2> QED BY <1>2, <1>3, <1>4, <1>5, <2>1, <2>2 DEF SavesInv, VariablesShape, VariablesTypeOK
<1>7. CustomCalm'
  BY <1>4, <1>5 DEF SavesInv, CustomCalm, Clean
<1>8. FormCalm'
  BY <1>4, <1>5 DEF SavesInv, FormCalm
<1>9. PutCalm'
  BY <1>1, <1>3, <1>4, SentKept DEF PutCalm
<1> QED BY <1>6, <1>7, <1>8, <1>9 DEF SavesInv

\* A write of one list leaves the drafts of the others calm, and those of that list not.
LEMMA DisturbKeepsCalm ==
  ASSUME DraftsInv, SavesInv, NEW s \in Scopes, Disturb(s),
         \A other \in Scopes \ {s} : stored'[other] = stored[other] /\ declared'[other] = declared[other]
  PROVE  /\ custom'.rows = custom.rows /\ form'.over = form.over
         /\ CustomCalm' /\ FormCalm'
<1>1. /\ custom'.rows = custom.rows /\ custom'.dirty = custom.dirty /\ custom'.touched = custom.touched
      /\ custom'.from = custom.from
      /\ custom'.calm = IF custom.from = s THEN FALSE ELSE custom.calm
  BY DEF Disturb, DraftsInv, EditorFields
<1>2. /\ form'.over = form.over /\ form'.dirty = form.dirty /\ form'.touched = form.touched
      /\ form'.from = form.from
      /\ form'.calm = IF form.from = s THEN FALSE ELSE form.calm
  BY DEF Disturb, DraftsInv, EditorFields
<1> QED BY <1>1, <1>2 DEF SavesInv, CustomCalm, FormCalm

LEMMA CommitKeepsCalm ==
  ASSUME DraftsInv, SavesInv, Commit
  PROVE  SavesInv'
<1> DEFINE s == put.scope
<1>1. PICK list \in ReplaceVariables(stored[s], put.entries) : stored' = [stored EXCEPT ![s] = list]
  BY DEF Commit
<1>2. s \in Scopes /\ stored \in [Scopes -> List] /\ PlainHasValue(stored[s])
  BY DEF Commit, SavesInv, VariablesShape, VariablesTypeOK
<1>3. list \in List /\ PlainHasValue(list)
  BY <1>1, <1>2, ReplacedTyped DEF SavesInv, VariablesShape, VariablesTypeOK
<1>4. stored' \in [Scopes -> List] /\ \A other \in Scopes :
                                        stored'[other] = IF other = s THEN list ELSE stored[other]
  BY <1>1, <1>2, <1>3
<1>5. /\ put'.phase = "done" /\ put'.scope = put.scope /\ put'.entries = put.entries
      /\ put' = [phase |-> put'.phase, scope |-> put'.scope, entries |-> put'.entries,
                 touched |-> put'.touched, calm |-> put'.calm]
  BY DEF Commit, SavesInv, VariablesShape
<1>6. Disturb(s) /\ UNCHANGED <<declared, page, shown, roles, fetch, guard, asked>>
  BY DEF Commit
<1>7. custom'.rows = custom.rows /\ form'.over = form.over /\ CustomCalm' /\ FormCalm'
  BY <1>2, <1>4, <1>6, DisturbKeepsCalm
<1>8. VariablesShape'
  BY <1>3, <1>4, <1>5, <1>6, <1>7 DEF SavesInv, VariablesShape, VariablesTypeOK
<1>9. PutCalm'
  BY <1>5 DEF PutCalm
<1> QED BY <1>7, <1>8, <1>9 DEF SavesInv

LEMMA OthersKeepCalm ==
  ASSUME DraftsInv, SavesInv, Other
  PROVE  SavesInv'
<1>1. PICK s \in Scopes :
        /\ \/ \E n \in Names, v \in {<< >>} \cup {<<[secret |-> FALSE, value |-> w]>> : w \in {Empty, Unfit}} :
                 stored' = [stored EXCEPT ![s][n] = v] /\ UNCHANGED declared
           \/ \E managed \in RoleNames \ {declared[s]} :
                 declared' = [declared EXCEPT ![s] = managed] /\ UNCHANGED stored
        /\ Disturb(s)
        /\ put' = IF put.scope = s THEN [put EXCEPT !.calm = FALSE] ELSE put
  BY DEF Other
<1>2. stored \in [Scopes -> List] /\ declared \in [Scopes -> RoleNames]
  BY DEF SavesInv, VariablesShape, VariablesTypeOK
<1>3. /\ stored' \in [Scopes -> List] /\ declared' \in [Scopes -> RoleNames]
      /\ \A other \in Scopes : PlainHasValue(stored'[other])
      /\ \A other \in Scopes \ {s} : stored'[other] = stored[other] /\ declared'[other] = declared[other]
  <2>1. ASSUME NEW n \in Names, NEW v \in {<< >>} \cup {<<[secret |-> FALSE, value |-> w]>> : w \in {Empty, Unfit}},
               stored' = [stored EXCEPT ![s][n] = v], UNCHANGED declared
        PROVE  <1>3!1 /\ <1>3!2 /\ <1>3!3
    <3>1. v \in Seq(Variable) /\ \A i \in DOMAIN v : v[i].secret \/ v[i].value # Null
      <4>1. CASE v = << >>
        BY <4>1
      <4>2. ASSUME NEW w \in {Empty, Unfit}, v = <<[secret |-> FALSE, value |-> w]>>
            PROVE  v \in Seq(Variable) /\ \A i \in DOMAIN v : v[i].secret \/ v[i].value # Null
        <5>1. w \in Stored /\ w # Null
          BY VariablesAssumption DEF Stored, Texts
        <5> QED BY <4>2, <5>1 DEF Variable
      <4> QED BY <4>1, <4>2
    <3>2. [stored[s] EXCEPT ![n] = v] \in List /\ PlainHasValue([stored[s] EXCEPT ![n] = v])
      BY <1>2, <3>1 DEF List, PlainHasValue, SavesInv, VariablesShape
    <3>3. stored' = [stored EXCEPT ![s] = [stored[s] EXCEPT ![n] = v]]
      BY <2>1
    <3> QED BY <1>2, <2>1, <3>2, <3>3 DEF SavesInv, VariablesShape
  <2>2. ASSUME NEW managed \in RoleNames, declared' = [declared EXCEPT ![s] = managed], UNCHANGED stored
        PROVE  <1>3!1 /\ <1>3!2 /\ <1>3!3
    BY <1>2, <2>2 DEF SavesInv, VariablesShape
  <2> QED BY <1>1, <2>1, <2>2
<1>4. custom'.rows = custom.rows /\ form'.over = form.over /\ CustomCalm' /\ FormCalm'
  BY <1>1, <1>3, DisturbKeepsCalm
<1>5. UNCHANGED <<page, shown, roles, fetch, guard, asked>>
  BY DEF Other
<1>6. /\ put'.phase = put.phase /\ put'.scope = put.scope /\ put'.entries = put.entries
      /\ put'.touched = put.touched /\ put'.calm = IF put.scope = s THEN FALSE ELSE put.calm
      /\ put' = [phase |-> put'.phase, scope |-> put'.scope, entries |-> put'.entries,
                 touched |-> put'.touched, calm |-> put'.calm]
  BY <1>1 DEF SavesInv, VariablesShape
<1>7. VariablesShape'
  BY <1>3, <1>4, <1>5, <1>6 DEF SavesInv, VariablesShape, VariablesTypeOK
<1>8. PutCalm'
  BY <1>3, <1>6 DEF SavesInv, VariablesShape, PutCalm
<1> QED BY <1>4, <1>7, <1>8 DEF SavesInv

\* Answers, requests for the list and navigation: drafts stay as they are or go, and a form
\* is only ever filled from a list.
LEMMA RestKeepsCalm ==
  ASSUME DraftsInv, SavesInv,
         \/ Answer \/ Fail \/ Poll \/ RolesArrive \/ Navigate \/ Discard \/ Stay \/ Unmount
         \/ \E s \in Scopes : Read(s) \/ Arrive(s) \/ FetchFails(s)
  PROVE  SavesInv'
<1>1. UNCHANGED <<stored, declared>>
  BY DEF Answer, Fail, Poll, RolesArrive, Navigate, Discard, Stay, Unmount, Read, Arrive,
         FetchFails, Go
<1>2. custom' \in {custom, Clean}
  BY DEF Answer, Fail, Poll, RolesArrive, Navigate, Discard, Stay, Unmount, Read, Arrive,
         FetchFails, Go, Enter
<1>3. \A f, list, managed : ResetForm(f, list, managed) = f
                         \/ ResetForm(f, list, managed) = [NoForm EXCEPT !.over = ToOverrides(list, managed)]
  BY DEF ResetForm
<1>4. \/ form' \in {form, NoForm}
      \/ \E list \in List : \E managed : form' = [NoForm EXCEPT !.over = ToOverrides(list, managed)]
  <2>1. ASSUME NEW s \in Scopes, Enter(s)
        PROVE  \/ form' \in {form, NoForm}
               \/ \E list \in List : \E managed : form' = [NoForm EXCEPT !.over = ToOverrides(list, managed)]
    <3>1. CASE shown[s] = NotLoaded
      BY <2>1, <3>1 DEF Enter
    <3>2. CASE shown[s] # NotLoaded
      <4>1. shown[s] \in List
        BY <3>2 DEF SavesInv, VariablesShape, VariablesTypeOK
      <4>2. \E f \in {form, NoForm} : form' = ResetForm(f, shown[s], Managed(s))
        BY <2>1, <3>2 DEF Enter
      <4> QED BY <1>3, <4>1, <4>2
    <3> QED BY <3>1, <3>2
  <2>2. CASE Answer \/ Fail \/ Poll \/ Stay \/ Unmount \/ \E s \in Scopes : Read(s) \/ FetchFails(s)
    BY <2>2 DEF Answer, Fail, Poll, Stay, Unmount, Read, FetchFails
  <2>3. CASE RolesArrive
    <3>1. page \in Scopes /\ (shown[page] # NotLoaded => shown[page] \in List)
      BY <2>3 DEF RolesArrive, SavesInv, VariablesShape, VariablesTypeOK
    <3> QED BY <1>3, <2>3, <3>1 DEF RolesArrive
  <2>4. ASSUME NEW s \in Scopes, Arrive(s)
        PROVE  \/ form' \in {form, NoForm}
               \/ \E list \in List : \E managed : form' = [NoForm EXCEPT !.over = ToOverrides(list, managed)]
    <3>1. fetch[s].list \in List
      BY <2>4 DEF Arrive, Idle, Asked, SavesInv, VariablesShape, VariablesTypeOK
    <3>2. form' = form \/ form' = ResetForm(form, fetch[s].list, Managed(s))
      BY <2>4 DEF Arrive
    <3>3. CASE form' = ResetForm(form, fetch[s].list, Managed(s))
      <4>1. \/ form' = form
            \/ form' = [NoForm EXCEPT !.over = ToOverrides(fetch[s].list, Managed(s))]
        BY <1>3, <3>3
      <4> QED BY <3>1, <4>1
    <3> QED BY <3>2, <3>3
  <2>5. CASE Navigate \/ Discard
    <3>1. form' = form \/ \E s \in Scopes : Enter(s)
      BY <2>5 DEF Navigate, Discard, Go, SavesInv, VariablesShape, VariablesTypeOK
    <3> QED BY <2>1, <3>1
  <2> QED BY <2>2, <2>3, <2>4, <2>5
<1>5. /\ form'.over \in [Names -> Texts \cup {Absent}]
      /\ form' = form \/ form'.dirty = FALSE
  <2>1. ASSUME NEW list \in List, NEW managed, form' = [NoForm EXCEPT !.over = ToOverrides(list, managed)]
        PROVE  form'.over \in [Names -> Texts \cup {Absent}] /\ form'.dirty = FALSE
    BY <2>1, OverridesAre DEF NoForm
  <2>2. NoForm.over \in [Names -> Texts \cup {Absent}] /\ NoForm.dirty = FALSE
    BY DEF NoForm
  <2> QED BY <1>4, <2>1, <2>2 DEF SavesInv, VariablesShape, VariablesTypeOK
<1>6. put' = put \/ (/\ put'.phase \in {"none", "settling"} /\ put'.entries = << >>
                     /\ put' = [phase |-> put'.phase, scope |-> put'.scope, entries |-> put'.entries,
                                touched |-> put'.touched, calm |-> put'.calm])
  BY DEF Answer, Fail, Poll, RolesArrive, Navigate, Discard, Stay, Unmount, Read, Arrive,
         FetchFails, Go, Settled, NoPut
<1>7. /\ page' \in Scopes \cup {NoPage} /\ asked' \in Scopes \cup {NoPage}
      /\ guard' \in {"custom", "form"}
  <2>1. \A s : Enter(s) => page' = s /\ guard' \in {"custom", "form"}
    BY DEF Enter, GuardAfter, SavesInv, VariablesShape, VariablesTypeOK
  <2>2. CASE Navigate \/ Discard
    BY <2>1, <2>2 DEF Navigate, Discard, Go, SavesInv, VariablesShape, VariablesTypeOK
  <2>3. CASE ~(Navigate \/ Discard)
    BY <2>3 DEF Answer, Fail, Poll, RolesArrive, Stay, Unmount, Read, Arrive, FetchFails,
                GuardAfter, SavesInv, VariablesShape, VariablesTypeOK
  <2> QED BY <2>2, <2>3
<1>8. /\ shown' \in [Scopes -> List \cup {NotLoaded}]
      /\ roles' \in [Scopes -> RoleNames \cup {NotLoaded}]
      /\ fetch' \in [Scopes -> {Idle, Asked} \cup [phase : {"answered"}, list : List]]
  <2> DEFINE Answers == {Idle, Asked} \cup [phase : {"answered"}, list : List]
  <2>1. /\ shown \in [Scopes -> List \cup {NotLoaded}] /\ roles \in [Scopes -> RoleNames \cup {NotLoaded}]
        /\ declared \in [Scopes -> RoleNames] /\ fetch \in [Scopes -> Answers]
        /\ stored \in [Scopes -> List]
    BY DEF SavesInv, VariablesShape, VariablesTypeOK
  <2>2. ASSUME NEW s \in Scopes, Read(s)
        PROVE  fetch' \in [Scopes -> Answers] /\ UNCHANGED <<shown, roles>>
    <3>1. [phase |-> "answered", list |-> Listed(stored[s])] \in Answers
      BY <2>1, ListedIs
    <3>2. fetch' = [fetch EXCEPT ![s] = [phase |-> "answered", list |-> Listed(stored[s])]]
      BY <2>2 DEF Read
    <3> HIDE DEF Answers
    <3> QED BY <2>1, <2>2, <3>1, <3>2 DEF Read
  <2>3. ASSUME NEW s \in Scopes, Arrive(s)
        PROVE  shown' \in [Scopes -> List \cup {NotLoaded}] /\ fetch' \in [Scopes -> Answers]
               /\ UNCHANGED roles
    <3>1. fetch[s].list \in List
      BY <2>1, <2>3 DEF Arrive, Idle, Asked
    <3>2. Idle \in Answers
      OBVIOUS
    <3> HIDE DEF Answers
    <3> QED BY <2>1, <2>3, <3>1, <3>2 DEF Arrive
  <2>4. Idle \in Answers /\ Asked \in Answers
    OBVIOUS
  <2> HIDE DEF Answers
  <2>5. ASSUME RolesArrive
        PROVE  /\ UNCHANGED <<shown, fetch>> /\ roles' \in [Scopes -> RoleNames \cup {NotLoaded}]
    BY <2>1, <2>5 DEF RolesArrive
  <2>6. ASSUME \/ Answer \/ Fail \/ Poll \/ Navigate \/ Discard \/ Stay \/ Unmount
               \/ \E s \in Scopes : FetchFails(s)
        PROVE  fetch' \in [Scopes -> Answers] /\ UNCHANGED <<shown, roles>>
    <3>1. UNCHANGED <<shown, roles>>
      BY <2>6 DEF Answer, Fail, Poll, Navigate, Discard, Stay, Unmount, FetchFails, Go
    <3>2. \/ fetch' = fetch
          \/ \E s \in Scopes, answer \in Answers : fetch' = [fetch EXCEPT ![s] = answer]
      <4>1. page \in Scopes \cup {NoPage} /\ asked \in Scopes \cup {NoPage}
        BY DEF SavesInv, VariablesShape, VariablesTypeOK
      <4>2. CASE Answer \/ Poll
        BY <2>4, <4>1, <4>2 DEF Answer, Poll
      <4>3. CASE Fail \/ Stay \/ Unmount
        BY <4>3 DEF Fail, Stay, Unmount
      <4>4. CASE \E s \in Scopes : FetchFails(s)
        BY <2>4, <4>4 DEF FetchFails
      <4>5. ASSUME NEW s \in Scopes, Go(s)
            PROVE  \E answer \in Answers : fetch' = [fetch EXCEPT ![s] = answer]
        <5>1. fetch[s] \in Answers
          BY <2>1
        <5>2. fetch' = [fetch EXCEPT ![s] = IF fetch[s] = Idle THEN Asked ELSE fetch[s]]
          BY <4>5 DEF Go
        <5> QED BY <2>4, <5>1, <5>2
      <4>6. CASE Navigate \/ Discard
        <5>1. fetch' = fetch \/ \E s \in Scopes : Go(s)
          BY <4>1, <4>6 DEF Navigate, Discard
        <5> QED BY <4>5, <5>1
      <4> QED BY <2>6, <4>2, <4>3, <4>4, <4>6
    <3> QED BY <2>1, <3>1, <3>2
  <2> DEFINE Typed == /\ shown' \in [Scopes -> List \cup {NotLoaded}]
                      /\ roles' \in [Scopes -> RoleNames \cup {NotLoaded}]
                      /\ fetch' \in [Scopes -> Answers]
  <2>7. ASSUME NEW s \in Scopes, Read(s) \/ Arrive(s)
        PROVE  Typed
    BY <2>1, <2>2, <2>3, <2>7
  <2>8. ASSUME \/ Answer \/ Fail \/ Poll \/ Navigate \/ Discard \/ Stay \/ Unmount
               \/ \E s \in Scopes : FetchFails(s)
        PROVE  Typed
    BY <2>1, <2>6, <2>8
  <2>9. Typed
    BY <2>1, <2>5, <2>7, <2>8
  <2> QED BY <2>9 DEF Answers
<1>9. VariablesShape'
  <2>1. /\ IsFiniteSet(DOMAIN custom'.rows) /\ DOMAIN custom'.rows \subseteq RowKeys
        /\ \A k \in DOMAIN custom'.rows :
             custom'.rows[k] \in Row /\ (custom'.rows[k].untouched => custom'.rows[k].secret)
    BY <1>2, FS_EmptySet DEF SavesInv, VariablesShape, VariablesTypeOK, Clean
  <2>2. /\ put'.phase \in {"none", "sent", "done", "settling"} /\ (put'.phase = "sent" => put'.scope \in Scopes)
        /\ IsFiniteSet(DOMAIN put'.entries)
        /\ \A k \in DOMAIN put'.entries :
             put'.entries[k] \in Entry /\ (put'.entries[k].secret \/ put'.entries[k].value # Null)
    BY <1>6, FS_EmptySet DEF SavesInv, VariablesShape, VariablesTypeOK
  <2> QED BY <1>1, <1>5, <1>6, <1>7, <1>8, <2>1, <2>2 DEF SavesInv, VariablesShape, VariablesTypeOK
<1>10. CustomCalm'
  BY <1>1, <1>2 DEF SavesInv, CustomCalm, Clean
<1>11. FormCalm'
  BY <1>1, <1>5 DEF SavesInv, FormCalm
<1>12. PutCalm'
  BY <1>1, <1>6 DEF SavesInv, PutCalm
<1> QED BY <1>9, <1>10, <1>11, <1>12 DEF SavesInv

LEMMA SavesInitial == VariablesInit => SavesInv
<1> SUFFICES ASSUME VariablesInit PROVE SavesInv
  OBVIOUS
<1>1. stored \in [Scopes -> List] /\ \A s \in Scopes : PlainHasValue(stored[s])
  <2>1. PICK there \in [Names -> {<< >>, <<[secret |-> FALSE, value |-> Empty]>>,
                                  <<[secret |-> TRUE, value |-> Empty]>>}] :
          stored = [s \in Scopes |-> there]
    BY DEF VariablesInit
  <2>2. /\ << >> \in Seq(Variable)
        /\ <<[secret |-> FALSE, value |-> Empty]>> \in Seq(Variable)
        /\ <<[secret |-> TRUE, value |-> Empty]>> \in Seq(Variable)
    BY DEF Variable, Stored
  <2>3. there \in List
    BY <2>2 DEF List
  <2>4. \A n \in Names, i \in Nat : i \in DOMAIN there[n] => there[n][i].secret \/ there[n][i].value # Null
    BY VariablesAssumption DEF Texts
  <2>5. PlainHasValue(there)
    <3>1. \A n \in Names : \A i \in DOMAIN there[n] : i \in Nat
      BY <2>3 DEF List
    <3> QED BY <2>4, <3>1 DEF PlainHasValue
  <2> QED BY <2>1, <2>3, <2>5
<1>2. declared \in [Scopes -> RoleNames] /\ page \in Scopes
  BY VariablesAssumption DEF VariablesInit
<1>3. VariablesShape
  BY <1>1, <1>2, FS_EmptySet
     DEF VariablesInit, VariablesShape, VariablesTypeOK, Clean, NoForm, NoPut, Idle, Asked
<1> QED BY <1>3 DEF VariablesInit, SavesInv, CustomCalm, FormCalm, PutCalm, Clean, NoForm, NoPut

LEMMA SavesStep ==
  ASSUME DraftsInv, SavesInv, [VariablesNext]_variablesVars
  PROVE  DraftsInv' /\ SavesInv'
<1>1. DraftsInv'
  BY DraftsStep
<1>2. CASE UNCHANGED variablesVars
  <2>1. VariablesShape'
    BY <1>2 DEF variablesVars, SavesInv, VariablesShape, VariablesTypeOK
  <2>2. CustomCalm'
    BY <1>2 DEF variablesVars, SavesInv, CustomCalm
  <2>3. FormCalm'
    BY <1>2 DEF variablesVars, SavesInv, FormCalm
  <2>4. PutCalm'
    BY <1>2 DEF variablesVars, SavesInv, PutCalm
  <2> QED BY <1>1, <2>1, <2>2, <2>3, <2>4 DEF SavesInv
<1>3. CASE VariablesNext
  <2>1. CASE EditCustom
    BY <1>1, <2>1, EditsKeepCalm
  <2>2. CASE SetOverride
    BY <1>1, <2>2, OverridesKeepCalm
  <2>3. CASE SaveCustom \/ SaveForm
    BY <1>1, <2>3, SendsAreCalm
  <2>4. CASE Commit
    BY <1>1, <2>4, CommitKeepsCalm
  <2>5. CASE Other
    BY <1>1, <2>5, OthersKeepCalm
  <2>6. CASE \/ Answer \/ Fail \/ Poll \/ RolesArrive \/ Navigate \/ Discard \/ Stay \/ Unmount
             \/ \E s \in Scopes : Read(s) \/ Arrive(s) \/ FetchFails(s)
    BY <1>1, <2>6, RestKeepsCalm
  <2> QED BY <1>3, <2>1, <2>2, <2>3, <2>4, <2>5, <2>6 DEF VariablesNext
<1> QED BY <1>1, <1>2, <1>3

\* The types of the editors, the cached lists and the requests.
THEOREM VariablesTyped == VariablesSpec => []VariablesTypeOK
<1>1. VariablesSpec => [](DraftsInv /\ SavesInv)
  BY DraftsInitial, SavesInitial, SavesStep, PTL DEF VariablesSpec
<1>2. SavesInv => VariablesTypeOK
  BY DEF SavesInv, VariablesShape
<1> QED BY <1>1, <1>2, PTL

\* A save that was begun on a fresh page, with nobody else writing, changes nothing the
\* operator did not touch, although it replaces the whole list (SavesKeepTheRest): whatever
\* was edited, discarded, polled, answered or carried to another page before.
THEOREM RestIsKept == VariablesSpec => SavesKeepTheRest
<1> DEFINE Kept ==
      Commit /\ put.calm =>
        \A n \in Names \ put.touched :
          Replaceable(stored[put.scope][n], n \in declared[put.scope]) =>
            stored'[put.scope][n] = stored[put.scope][n]
<1>1. SavesInv => [Kept]_variablesVars
  <2> SUFFICES ASSUME SavesInv, Commit, put.calm, NEW n \in Names \ put.touched,
                      Replaceable(stored[put.scope][n], n \in declared[put.scope])
               PROVE  stored'[put.scope][n] = stored[put.scope][n]
    OBVIOUS
  <2>1. PICK list \in ReplaceVariables(stored[put.scope], put.entries) :
          stored' = [stored EXCEPT ![put.scope] = list]
    BY DEF Commit
  <2>2. put.scope \in Scopes /\ stored \in [Scopes -> List]
    BY DEF Commit, SavesInv, VariablesShape, VariablesTypeOK
  <2>3. KeptBy(put.entries, stored[put.scope][n], n)
    BY DEF Commit, SavesInv, PutCalm
  <2>4. list[n] = stored[put.scope][n]
    BY <2>1, <2>2, <2>3, KeptRows DEF Replaceable
  <2> QED BY <2>1, <2>2, <2>4
<1>2. VariablesSpec => [](DraftsInv /\ SavesInv)
  BY DraftsInitial, SavesInitial, SavesStep, PTL DEF VariablesSpec
<1>3. VariablesSpec => [][Kept]_variablesVars
  BY <1>1, <1>2, PTL DEF VariablesSpec
<1> QED BY <1>3 DEF SavesKeepTheRest

-----------------------------------------------------------------------------
(* The console as a whole *)

\* A step of any area is one of that area, and stutters in the others.
LEMMA AreasStep ==
  [TogetherNext]_areasVars =>
    /\ [VariablesNext]_variablesVars /\ [MembershipsNext]_membershipsVars
    /\ [RoleOrderNext]_roleOrderVars /\ [TokensNext]_tokensVars
    /\ [ApprovalsNext]_approvalsVars /\ [FleetNext]_fleetVars
    /\ [AccountsNext]_accountsVars /\ [SignInNext]_signInVars
    /\ [RolloutsNext]_rolloutsVars /\ [SourcesNext]_sourcesVars
<1>1. CASE UNCHANGED areasVars
  BY <1>1 DEF areasVars
<1>2. CASE TogetherNext
  <2>1. PICK name \in Areas : StepOf(name)
    BY <1>2 DEF TogetherNext
  <2> QED BY <2>1 DEF StepOf
<1> QED BY <1>1, <1>2

\* The areas together, in any interleaving, implement every one of them: what is proved
\* of an area by itself holds of the console.
THEOREM ImplementsAreas ==
  TogetherSpec =>
    /\ VariablesSpec /\ MembershipsSpec /\ RoleOrderSpec /\ TokensSpec /\ ApprovalsSpec
    /\ FleetSpec /\ AccountsSpec /\ SignInSpec /\ RolloutsSpec /\ SourcesSpec
<1>1. TogetherInit =>
        /\ VariablesInit /\ MembershipsInit /\ RoleOrderInit /\ TokensInit /\ ApprovalsInit
        /\ FleetInit /\ AccountsInit /\ SignInInit /\ RolloutsInit /\ SourcesInit
  BY DEF TogetherInit
<1> QED
  BY <1>1, AreasStep, PTL
     DEF TogetherSpec, VariablesSpec, MembershipsSpec, RoleOrderSpec, TokensSpec,
         ApprovalsSpec, FleetSpec, AccountsSpec, SignInSpec, RolloutsSpec, SourcesSpec

AreaKnown == area \in Areas

\* Looking at one area at a time, as a run does, is one way for the areas to interleave.
THEOREM ImplementsTogether == ConsoleSpec => TogetherSpec
<1>1. ConsoleInit => TogetherInit /\ AreaKnown
  BY DEF AreaKnown, ConsoleInit, TogetherInit
<1>2. AreaKnown /\ [ConsoleNext]_vars => AreaKnown' /\ [TogetherNext]_areasVars
  BY DEF AreaKnown, ConsoleNext, TogetherNext, vars
<1> QED BY <1>1, <1>2, PTL DEF ConsoleSpec, TogetherSpec

\* The safety of the console: what is ticked, listed, counted, typed or decided on its
\* pages stays true of the rows behind them, however the areas interleave.
THEOREM TogetherIsSafe ==
  TogetherSpec =>
    /\ DraftsSurvive /\ SavesKeepTheRest /\ DecisionsStand /\ SuccessIsWhole
    /\ [](/\ TicksAreTrue /\ TogglesAddUp /\ MovesAddUp /\ RowsAreReachable
          /\ UsesAreCounted /\ EveryTokenIsShown /\ OneDevicePerApproval /\ NoGhosts
          /\ AnAdminRemains /\ PasswordsGoWhereTyped /\ NobodyIsThrownOut
          /\ CanaryGoesFirst /\ OncePerDevice /\ EditsStand /\ AlertedOncePerOutage)
BY ImplementsAreas, TypingIsKept, RestIsKept, Decided, TicksTellTheTruth, ClicksAddUp, UsesAddUp,
   ValuesAreShown, OneDevice, NoGhostDevices, AdminRemains, PasswordsStay, StaysSignedIn,
   CanaryFirst, AppliedOnce, EditsAreKept, OneAlertPerOutage, OrderAddsUp, RowsReachable,
   WholeSuccess, PTL

\* Whatever area is looked at keeps its types: rows, cached copies, dialogs, drafts and
\* requests on their way (ConsoleTypeOK).
THEOREM ConsoleTyped == ConsoleSpec => []ConsoleTypeOK
<1>1. /\ VariablesTypeOK /\ MembershipsTypeOK /\ RoleOrderTypeOK /\ TokensTypeOK
      /\ ApprovalsTypeOK /\ FleetTypeOK /\ AccountsTypeOK /\ SignInTypeOK
      /\ RolloutsTypeOK /\ SourcesTypeOK
      => ConsoleTypeOK
  BY DEF ConsoleTypeOK
<1> QED
  BY <1>1, ImplementsTogether, ImplementsAreas, VariablesTyped, MembershipsTyped,
     RoleOrderTyped, TokensTyped, ApprovalsTyped, FleetTyped, AccountsTyped, SignInTyped,
     RolloutsTyped, SourcesTyped, PTL

=============================================================================
