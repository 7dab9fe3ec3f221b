-------------------------------- MODULE Fleet -------------------------------
(***************************************************************************)
(* The page Devices: a filtered and sorted list, a page at a time, with a  *)
(* selection that outlives filter and page, and bulk actions on it.        *)
(*                                                                         *)
(* A bulk action is one mutation that sends a request per device, one      *)
(* after the other, and stops at the first that fails.                     *)
(***************************************************************************)
EXTENDS Integers, Sequences, FiniteSets, SequencesExt

CONSTANTS
  FleetSize,    \* devices 1..FleetSize, in the order of the sort column
  PageSize,     \* PAGE_SIZE
  MaxActions    \* bound on bulk actions, removals and changes of others

ASSUME FleetAssumption == FleetSize \in Nat /\ PageSize \in Nat \ {0} /\ MaxActions \in Nat

VARIABLES
  fleet,       \* the Device rows
  off,         \* devices with status DISABLED
  joined,      \* devices in the group of the bulk actions
  query,       \* the key of the list: filter, direction and offset
  looked,      \* the list's request: idle, asked, or the answer on its way
  view,        \* the data shown, of this key or of the one before
  selected,    \* the ticked devices
  modal,      \* the dialog that is open, and its device
  bulk,        \* the bulk action: what was asked, is left to send, was done
  removal,     \* deleteDevice on its way
  claim,       \* devices that the last success message is about
  shrunk,      \* rows left the filtered list since the page was turned, or it was
               \* turned by the pager of an older list (history)
  stale,       \* the list changed and nothing asked for it again (history)
  actions

fleetVars == <<fleet, off, joined, query, looked, view, selected, modal, bulk, removal,
               claim, shrunk, stale, actions>>

Devices == 1..FleetSize
Kinds   == {"join", "leave", "apply", "disable"}
Filters == {"all", "disabled", "enabled"}

NoLook   == [phase |-> "idle", items |-> {}, total |-> 0]
NoDialog == [what |-> "none", device |-> 0]
NoBulk   == [kind |-> "none", asked |-> {}, left |-> << >>, done |-> {}]

\* DeviceController.index: the rows that match, and the page of them, in the order of the
\* sort column, that begins at an offset.
Match(rows, disabled, filter) ==
  {d \in rows : CASE filter = "disabled" -> d \in disabled
                  [] filter = "enabled" -> d \notin disabled [] OTHER -> TRUE}

Matching(filter) == Match(fleet, off, filter)

Before(S, d, down) == Cardinality({e \in S : IF down THEN e > d ELSE e < d})

PageOf(S, down, offset) ==
  {d \in S : Before(S, d, down) \in offset..(offset + PageSize - 1)}

FleetInit ==
  /\ fleet = Devices /\ off \in SUBSET Devices /\ joined = Devices \cap {1}
  /\ query = [filter |-> "all", down |-> FALSE, offset |-> 0]
  /\ looked = NoLook
  /\ view = [items |-> PageOf(Devices, FALSE, 0), total |-> FleetSize]
  /\ selected = {} /\ modal = NoDialog /\ bulk = NoBulk /\ removal = {} /\ claim = {}
  /\ shrunk = FALSE /\ stale = FALSE /\ actions = 0

Shown == view.items

ServerUntouched == UNCHANGED <<fleet, off, joined>>
ListUntouched   == UNCHANGED <<query, looked, view, shrunk, stale>>
WorkUntouched   == UNCHANGED <<selected, modal, bulk, removal, claim, actions>>

-----------------------------------------------------------------------------
(* The list.                                                               *)

LookAgain == [NoLook EXCEPT !.phase = "asked"]

\* A new key gives up the request of the old one; its data stays on the screen.
Requery(q) == query' = q /\ looked' = LookAgain /\ UNCHANGED <<view, stale>>

\* Mutant: the offset outlives the filter.
KeepOffset(filter) == [query EXCEPT !.filter = filter]

\* "A changed filter always starts back at the first page."
Filtered(filter) == [query EXCEPT !.filter = filter, !.offset = 0]

Filter(filter) ==
  /\ filter # query.filter /\ modal = NoDialog
  /\ Requery(Filtered(filter)) /\ shrunk' = FALSE
  /\ ServerUntouched /\ WorkUntouched

Sort ==
  /\ modal = NoDialog
  /\ Requery([query EXCEPT !.down = ~query.down])
  /\ UNCHANGED shrunk /\ ServerUntouched /\ WorkUntouched

\* The pager counts the data shown, which may still be that of another filter.
HasPager   == view.total > PageSize
LastOffset == ((IF view.total > 0 THEN view.total - 1 ELSE 0) \div PageSize) * PageSize

TurnTo(offset) ==
  /\ HasPager /\ modal = NoDialog
  /\ Requery([query EXCEPT !.offset = offset])
  /\ shrunk' = (view.total # Cardinality(Matching(query.filter)))
  /\ ServerUntouched /\ WorkUntouched

PreviousPage ==
  query.offset # 0 /\ TurnTo(IF query.offset > PageSize THEN query.offset - PageSize ELSE 0)

NextPage ==
  /\ query.offset < LastOffset
  /\ TurnTo(IF query.offset + PageSize < LastOffset THEN query.offset + PageSize ELSE LastOffset)

PollDevices ==
  /\ looked.phase = "idle" /\ looked' = LookAgain
  /\ UNCHANGED <<query, view, shrunk, stale>> /\ ServerUntouched /\ WorkUntouched

ListDevices ==
  /\ looked.phase = "asked"
  /\ looked' = [phase |-> "answered",
                items |-> PageOf(Matching(query.filter), query.down, query.offset),
                total |-> Cardinality(Matching(query.filter))]
  /\ stale' = FALSE
  /\ UNCHANGED <<query, view, shrunk>> /\ ServerUntouched /\ WorkUntouched

ShowDevices ==
  /\ looked.phase = "answered" /\ looked' = NoLook
  /\ view' = [items |-> looked.items, total |-> looked.total]
  /\ UNCHANGED <<query, shrunk, stale>> /\ ServerUntouched /\ WorkUntouched

-----------------------------------------------------------------------------
(* The selection, made while there are actions left (bound).               *)

Tick(d) ==
  /\ actions < MaxActions /\ d \in Shown /\ modal = NoDialog
  /\ selected' = IF d \in selected THEN selected \ {d} ELSE selected \cup {d}
  /\ UNCHANGED <<modal, bulk, removal, claim, actions>> /\ ServerUntouched /\ ListUntouched

\* "Select all devices on this page": all of them, or none if all were.
TickPage ==
  /\ actions < MaxActions /\ Shown # {} /\ modal = NoDialog
  /\ selected' = IF Shown \subseteq selected THEN selected \ Shown ELSE selected \cup Shown
  /\ UNCHANGED <<modal, bulk, removal, claim, actions>> /\ ServerUntouched /\ ListUntouched

ClearSelection ==
  /\ actions < MaxActions /\ selected # {} /\ modal = NoDialog /\ selected' = {}
  /\ UNCHANGED <<modal, bulk, removal, claim, actions>> /\ ServerUntouched /\ ListUntouched

-----------------------------------------------------------------------------
(* Bulk actions.                                                           *)

Acting == actions < MaxActions /\ actions' = actions + 1

\* The requests go in the order of the selection; "disable" asks first.
StartBulk(kind) ==
  /\ selected # {} /\ bulk = NoBulk /\ Acting
  /\ modal.what = (IF kind = "disable" THEN "disable" ELSE "none")
  /\ \E s \in SetToSeqs(selected) : 
       bulk' = [kind |-> kind, asked |-> selected, left |-> s, done |-> {}]
  /\ UNCHANGED <<selected, modal, removal, claim>> /\ ServerUntouched /\ ListUntouched

AskToDisable ==
  /\ actions < MaxActions /\ selected # {} /\ bulk = NoBulk /\ modal = NoDialog
  /\ modal' = [what |-> "disable", device |-> 0]
  /\ UNCHANGED <<selected, bulk, removal, claim, actions>> /\ ServerUntouched /\ ListUntouched

\* Rows of the filtered list may go, and the list is behind until it is read again.
Changed(rows, disabled) ==
  /\ shrunk' = (shrunk \/ ~(Matching(query.filter) \subseteq Match(rows, disabled, query.filter)))
  /\ stale' = TRUE

\* One request of the loop succeeds.
BulkStep ==
  /\ bulk.left # << >>
  /\ LET d == Head(bulk.left)
     IN  /\ d \in fleet
         /\ off' = IF bulk.kind = "disable" THEN off \cup {d} ELSE off
         /\ joined' = CASE bulk.kind = "join" -> joined \cup {d}
                        [] bulk.kind = "leave" -> joined \ {d} [] OTHER -> joined
         /\ bulk' = [bulk EXCEPT !.left = Tail(bulk.left), !.done = bulk.done \cup {d}]
  /\ Changed(fleet, off')
  /\ UNCHANGED <<fleet, query, looked, view, selected, modal, removal, claim, actions>>

CloseIf(what) == modal' = IF modal.what = what THEN NoDialog ELSE modal

\* Mutant: a request that fails is skipped.
SkipAndGoOn == [bulk EXCEPT !.left = Tail(bulk.left)]

StopEarly == NoBulk

\* A device is gone, or the request fails: an error message, and no invalidation.
BulkFails ==
  /\ bulk.left # << >>
  /\ bulk' = StopEarly
  /\ CloseIf("disable")
  /\ UNCHANGED <<selected, removal, claim, actions>> /\ ServerUntouched /\ ListUntouched

\* The message counts what the click asked for; useBulkApply has nothing to refetch here.
BulkSucceeds ==
  /\ bulk.kind # "none" /\ bulk.left = << >>
  /\ claim' = bulk.asked
  /\ bulk' = NoBulk /\ CloseIf("disable")
  /\ looked' = IF bulk.kind = "apply" THEN looked ELSE LookAgain
  /\ UNCHANGED <<query, view, shrunk, stale, selected, removal, actions>> /\ ServerUntouched

-----------------------------------------------------------------------------
(* Removing one device.                                                    *)

AskToRemove(d) ==
  /\ actions < MaxActions /\ d \in Shown /\ modal = NoDialog
  /\ modal' = [what |-> "remove", device |-> d]
  /\ UNCHANGED <<selected, bulk, removal, claim, actions>> /\ ServerUntouched /\ ListUntouched

\* A dialog can be cancelled, also while its request is on its way.
CancelDialog ==
  /\ modal # NoDialog /\ modal' = NoDialog
  /\ UNCHANGED <<selected, bulk, removal, claim, actions>> /\ ServerUntouched /\ ListUntouched

ConfirmRemove ==
  /\ modal.what = "remove" /\ removal = {} /\ Acting /\ removal' = {modal.device}
  /\ UNCHANGED <<selected, modal, bulk, claim>> /\ ServerUntouched /\ ListUntouched

\* Mutant: the memberships of a device outlive it.
Stays == joined

Quits == joined \ removal

\* The device leaves the list and its groups; the selection keeps it.
Removed ==
  /\ removal # {} /\ removal \subseteq fleet /\ removal' = {}
  /\ fleet' = fleet \ removal /\ off' = off \ removal /\ joined' = Quits
  /\ Changed(fleet', off')
  /\ CloseIf("remove") /\ looked' = LookAgain
  /\ UNCHANGED <<query, view, selected, bulk, claim, actions>>

RemoveFails ==
  /\ removal # {} /\ removal' = {} /\ CloseIf("remove")
  /\ UNCHANGED <<selected, bulk, claim, actions>> /\ ServerUntouched /\ ListUntouched

\* Another operator disables or enables a device.
OtherOperator ==
  /\ Acting /\ \E d \in fleet : off' = IF d \in off THEN off \ {d} ELSE off \cup {d}
  /\ Changed(fleet, off')
  /\ UNCHANGED <<fleet, joined, query, looked, view, selected, modal, bulk, removal, claim>>

FleetNext ==
  \/ \E f \in Filters : Filter(f)
  \/ Sort \/ PreviousPage \/ NextPage \/ PollDevices \/ ListDevices \/ ShowDevices
  \/ \E d \in Devices : Tick(d) \/ AskToRemove(d)
  \/ TickPage \/ ClearSelection
  \/ \E kind \in Kinds : StartBulk(kind)
  \/ AskToDisable \/ BulkStep \/ BulkFails \/ BulkSucceeds
  \/ CancelDialog \/ ConfirmRemove \/ Removed \/ RemoveFails \/ OtherOperator

FleetSpec == FleetInit /\ [][FleetNext]_fleetVars

-----------------------------------------------------------------------------
FleetTypeOK ==
  /\ fleet \subseteq Devices /\ off \subseteq fleet /\ joined \subseteq fleet
  /\ query.filter \in Filters /\ query.offset \in 0..FleetSize
  /\ Shown \subseteq Devices /\ selected \subseteq Devices
  /\ modal.what \in {"none", "disable", "remove"}
  /\ Range(bulk.left) \cap bulk.done = {}

\* Devices that match can be reached: a list that has some but shows none has its pager,
\* unless rows went after the page was turned, or an older list's pager turned it.  (With
\* PAGE_SIZE rows left and the offset behind them there is neither a row nor a pager.)
RowsAreReachable ==
  looked = NoLook /\ ~stale /\ view.total > 0 /\ Shown = {} => HasPager \/ shrunk

\* "Added 3 devices to ...": a message of success is about devices that were all handled,
\* each by a request of its own that the server answered; a failure stops the rest.
SuccessIsWhole == [][claim' # claim => claim' = bulk.done]_fleetVars

=============================================================================
