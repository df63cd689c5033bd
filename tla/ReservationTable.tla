-------------------------- MODULE ReservationTable --------------------------
(***************************************************************************)
(* The reservation table of one signed-in tab (static/app.js): the chips   *)
(* and the search box that filter it, the loads that fill it, the rows     *)
(* ticked for a bulk decision, and the poll that reloads it when the inbox *)
(* brings news of a reservation.                                           *)
(*                                                                         *)
(* JavaScript runs one callback at a time, so what the code does between   *)
(* two awaits is one step.  A load is three: it is sent, the server        *)
(* computes the answer, the answer arrives.  What the server holds changes *)
(* meanwhile, and nothing numbers the loads: whichever arrives last stays. *)
(* Of the filters the model keeps the status chip and one text; scope and  *)
(* dates enter the query the same way as these two.  A row is what matters *)
(* of it here: an id and the status the API shows.                         *)
(***************************************************************************)
EXTENDS Naturals, Sequences, FiniteSets, SequencesExt

CONSTANTS
  Id,          \* reservations the user may see
  Text,        \* what may stand in the search box
  NoText,      \* the empty search box, an element of Text
  Matching,    \* the reservations that contain a text
  Place,       \* the place of each reservation in the order of their starts
  PageSize,    \* how many rows one answer holds at most, 100 in the code
  Chip,        \* the status chips of the surface
  FirstChip,   \* the one pressed at sign-in, defaultStatusForRole()
  CanBulk,     \* bulkSelectionEnabled(): the admin surface of one who decides
  Trouble,     \* what may come in the way in this instance
  MaxLoads, MaxPosts, MaxClicks, MaxNews    \* bounds: loads and decisions in flight,
                                            \* filter clicks, news

Troubles ==
  {"reordered",   \* answers may overtake one another
   "lost",        \* a load may fail
   "inbox"}       \* notifications are also loaded apart from the poll
Closed  == {"returned", "rejected", "cancelled"}
Status  == {"pending", "approved", "checked_out"} \cup Closed
Chips   == {"open", "all"} \cup Status

ASSUME TroubleAssumption == Trouble \subseteq Troubles
ASSUME ChipAssumption    == Chip \subseteq Chips /\ FirstChip \in Chip
ASSUME TextAssumption    ==
  NoText \in Text /\ Matching \in [Text -> SUBSET Id] /\ Matching[NoText] = Id
ASSUME PageAssumption    == Place \in [Id -> Nat] /\ PageSize \in Nat \ {0}
ASSUME BulkAssumption    == CanBulk \in BOOLEAN
ASSUME BoundAssumption   == MaxLoads \in Nat \ {0} /\ {MaxPosts, MaxClicks, MaxNews} \subseteq Nat

VARIABLES
  db,        \* the reservations at the server, with the status the API shows
  news,      \* how many lifecycle notifications the user has been sent
  seen,      \* how many of them are in state.notifications
  poll,      \* the poll under way: how many were known when it began, or idle
  filter,    \* state.status and state.reservationSearch
  input,     \* the search box, and whether its debounce timer runs
  loads,     \* loads in flight, in the order they were sent
  table,     \* state.reservations and its loading flag; asked, at and failed are history
  selected,  \* state.selectedReservationIds
  bulk,      \* the dialog of a bulk decision, and the decisions posted
  clicks     \* filter clicks so far (bounded)

listVars == <<filter, input, loads, table, selected>>
newsVars == <<news, seen, poll>>
vars == <<db, newsVars, listVars, bulk, clicks>>

Filter == [status : Chip, search : Text]
Rows   == SUBSET (Id \X Status)
\* rows is {} until the server has answered.
\* at is history: the news there were when it was answered.
Load   == [filter : Filter, answered : BOOLEAN, rows : Rows, at : Nat]

Decision == [verdict : {"approved", "rejected"}, ids : SUBSET Id]
Post     == [decision : Decision, phase : {"posted", "answered", "refreshing"}]

TypeOK ==
  /\ db \in [Id -> Status]
  /\ news \in Nat /\ seen \in Nat
  /\ poll \in [known : Nat, got : Nat, phase : {"idle", "asked", "answered"}]
  /\ filter \in Filter
  /\ input \in [search : Text, timer : BOOLEAN]
  /\ loads \in Seq(Load)
  /\ table \in [rows : Rows, loading : BOOLEAN, asked : Filter, at : Nat, failed : BOOLEAN]
  /\ selected \subseteq Id
  /\ bulk \in [dialog : SUBSET Decision, posts : SUBSET Post]
  /\ Cardinality(bulk.dialog) <= 1
  /\ clicks \in Nat

Init ==
  /\ db = [r \in Id |-> "pending"]
  /\ news = 0 /\ seen = 0
  /\ poll = [known |-> 0, got |-> 0, phase |-> "idle"]
  /\ filter = [status |-> FirstChip, search |-> NoText]
  /\ table = [rows |-> {}, loading |-> TRUE, asked |-> filter, at |-> 0, failed |-> FALSE]
  /\ loads = <<[filter |-> filter, answered |-> FALSE, rows |-> {}, at |-> 0]>>
  /\ input = [search |-> NoText, timer |-> FALSE]
  /\ selected = {}
  /\ bulk = [dialog |-> {}, posts |-> {}]
  /\ clicks = 0
-----------------------------------------------------------------------------
(* Reading the table *)

PendingShown == {r \in Id : <<r, "pending">> \in table.rows}

\* What GET /reservations answers: the first rows by start of those asked for.
\* The status filter goes to the server unless it is "all" or "open".
Answer(f) ==
  LET asked      == {r \in Matching[f.search] : f.status \in {"all", "open", db[r]}}
      Earlier(r) == {k \in asked : Place[k] < Place[r]}
  IN  {<<r, db[r]>> : r \in {k \in asked : Cardinality(Earlier(k)) < PageSize}}

\* What loadReservations keeps of an answer, by the chip pressed when it comes.
\* Settled rows have taken their places in the answer before they are left out.
Kept(rows, chip) == IF chip = "open" THEN {row \in rows : row[2] \notin Closed} ELSE rows

\* Mutant: a render forgets syncBulkSelection.
MutantSynced(ids, rows) == ids

\* syncBulkSelection, part of every render of the table.
Synced(ids, rows) == IF CanBulk THEN {r \in ids : <<r, "pending">> \in rows} ELSE {}
-----------------------------------------------------------------------------
(* Loading the table *)

\* Mutant: the query is built before the inputs are read.
MutantStartLoad(chip, text) ==
  LET f == [status |-> chip, search |-> filter.search]
  IN  /\ Len(loads) < MaxLoads
      /\ filter' = [f EXCEPT !.search = text]
      /\ loads' = Append(loads, [filter |-> f, answered |-> FALSE, rows |-> {}, at |-> 0])
      /\ table' = [table EXCEPT !.loading = TRUE]

\* loadReservations up to its fetch.  reservationQueryParams reads the search
\* box whether or not its timer has fired.
StartLoad(chip, text) ==
  LET f == [status |-> chip, search |-> text]
  IN  /\ Len(loads) < MaxLoads
      /\ filter' = f
      /\ loads' = Append(loads, [filter |-> f, answered |-> FALSE, rows |-> {}, at |-> 0])
      /\ table' = [table EXCEPT !.loading = TRUE]

Serve(i) ==
  /\ ~loads[i].answered
  /\ loads' = [loads EXCEPT ![i].answered = TRUE, ![i].at = news,
                                ![i].rows = Answer(loads[i].filter)]
  /\ UNCHANGED <<db, newsVars, filter, input, table, selected, bulk, clicks>>

InTurn(i) == "reordered" \in Trouble \/ i = 1

\* The answer arrives: the rows are replaced, the flag is lowered even if
\* another load is still out, and the table is drawn.
Arrive(i) ==
  LET rows == Kept(loads[i].rows, filter.status)
  IN  /\ InTurn(i)
      /\ loads[i].answered
      /\ loads' = RemoveAt(loads, i)
      /\ table' = [rows |-> rows, loading |-> FALSE, failed |-> FALSE,
                   asked |-> loads[i].filter, at |-> loads[i].at]
      /\ selected' = Synced(selected, rows)
      /\ UNCHANGED <<db, newsVars, filter, input, bulk, clicks>>

\* The load throws: the finally block lowers the flag over the old rows.
Fail(i) ==
  /\ "lost" \in Trouble
  /\ InTurn(i)
  /\ loads' = RemoveAt(loads, i)
  /\ table' = [table EXCEPT !.loading = FALSE, !.failed = TRUE]
  /\ selected' = Synced(selected, table.rows)
  /\ UNCHANGED <<db, newsVars, filter, input, bulk, clicks>>
-----------------------------------------------------------------------------
(* The filters *)

Click == clicks < MaxClicks /\ clicks' = clicks + 1

\* wireToolbar: a chip is pressed.
ChooseStatus(chip) ==
  /\ Click
  /\ StartLoad(chip, input.search)
  /\ UNCHANGED <<db, newsVars, input, selected, bulk>>

\* A key in the search box restarts the debounce timer of 250 ms.
Type(text) ==
  /\ Click
  /\ input' = [search |-> text, timer |-> TRUE]
  /\ UNCHANGED <<db, newsVars, filter, loads, table, selected, bulk>>

\* scheduleReservationFilterRefresh, when the time is up.
FilterTimer ==
  /\ input.timer
  /\ input' = [input EXCEPT !.timer = FALSE]
  /\ StartLoad(filter.status, input.search)
  /\ UNCHANGED <<db, newsVars, selected, bulk, clicks>>

ClearFilters ==
  /\ Click
  /\ input' = [search |-> NoText, timer |-> FALSE]
  /\ StartLoad(filter.status, NoText)
  /\ UNCHANGED <<db, newsVars, selected, bulk>>
-----------------------------------------------------------------------------
(* The bulk selection *)

\* A modal dialog is open: nothing else can be clicked.
Free == bulk.dialog = {}

\* setReservationSelected: the checkboxes of pending rows, not drawn while loading.
Tick(r) ==
  /\ CanBulk /\ Free /\ ~table.loading
  /\ r \in PendingShown
  /\ selected' = IF r \in selected THEN selected \ {r} ELSE selected \cup {r}
  /\ UNCHANGED <<db, newsVars, filter, input, loads, table, bulk, clicks>>

\* setAllPendingReservationsSelected, from the select-all box and the rail.
TickAll(on) ==
  /\ CanBulk /\ Free /\ ~table.loading
  /\ PendingShown # {}
  /\ selected' = IF on THEN PendingShown ELSE {}
  /\ UNCHANGED <<db, newsVars, filter, input, loads, table, bulk, clicks>>

\* bulkReservationDecision up to its dialog: the ids are taken here and not
\* looked at again.  A decision under way disables its own button only, and any
\* drawing of the table enables it again.
AskBulk(verdict) ==
  /\ CanBulk /\ Free /\ ~table.loading
  /\ selected # {}
  /\ bulk' = [bulk EXCEPT !.dialog = {[verdict |-> verdict, ids |-> selected]}]
  /\ UNCHANGED <<db, newsVars, listVars, clicks>>

CloseBulkDialog(confirmed) ==
  /\ bulk.dialog # {} /\ Cardinality(bulk.posts) < MaxPosts
  /\ LET posted == {[decision |-> d, phase |-> "posted"] : d \in bulk.dialog}
     IN  bulk' = [dialog |-> {}, posts |-> bulk.posts \cup IF confirmed THEN posted ELSE {}]
  /\ UNCHANGED <<db, newsVars, listVars, clicks>>

Without(post) == bulk.posts \ {post}

\* POST /reservations/bulk-...: rows no longer pending are skipped.
ServeBulk(post) ==
  /\ post.phase = "posted"
  /\ db' = [r \in Id |-> IF r \in post.decision.ids /\ db[r] = "pending" THEN post.decision.verdict ELSE db[r]]
  /\ bulk' = [bulk EXCEPT !.posts = Without(post) \cup {[post EXCEPT !.phase = "answered"]}]
  /\ UNCHANGED <<newsVars, listVars, clicks>>

\* The answer: the selection of the moment is dropped, also what was ticked
\* while the call was out, and refreshData asks for the cars.
FinishBulk(post) ==
  /\ post.phase = "answered"
  /\ selected' = {}
  /\ bulk' = [bulk EXCEPT !.posts = Without(post) \cup {[post EXCEPT !.phase = "refreshing"]}]
  /\ UNCHANGED <<db, newsVars, filter, input, loads, table, clicks>>

\* The cars are in: refreshData goes on to the table.
EndBulk(post) ==
  /\ post.phase = "refreshing"
  /\ StartLoad(filter.status, input.search)
  /\ bulk' = [bulk EXCEPT !.posts = Without(post)]
  /\ UNCHANGED <<db, newsVars, input, selected, clicks>>

\* The call fails, before or after the server has acted, and the selection stays;
\* or the cars do.  A message, and no load of the table.
FailBulk(post) ==
  /\ "lost" \in Trouble
  /\ bulk' = [bulk EXCEPT !.posts = Without(post)]
  /\ UNCHANGED <<db, newsVars, listVars, clicks>>
-----------------------------------------------------------------------------
(* News *)

\* Mutant: the status the page shows for an approved trip is also the API's.
MutantNext1(status) ==
  CASE status = "pending"  -> {"awaiting_pickup", "rejected", "cancelled"}
    [] status = "approved" -> {"checked_out", "cancelled"}
    [] OTHER               -> {}

\* The transitions of routers/reservations.py.
Next1(status) ==
  CASE status = "pending"     -> {"approved", "rejected", "cancelled"}
    [] status = "approved"    -> {"checked_out", "cancelled"}
    [] status = "checked_out" -> {"returned"}
    [] OTHER                  -> {}

\* Somebody else moves a reservation on; the notification is inserted in the
\* same transaction.
OthersAct(r) ==
  /\ news < MaxNews
  /\ \E status \in Next1(db[r]) : db' = [db EXCEPT ![r] = status]
  /\ news' = news + 1
  /\ UNCHANGED <<seen, poll, listVars, bulk, clicks>>

\* startNotificationPolling, every 30 s: the known ids are remembered first.
StartPoll ==
  /\ poll.phase = "idle"
  /\ poll' = [known |-> seen, got |-> 0, phase |-> "asked"]
  /\ UNCHANGED <<db, news, seen, listVars, bulk, clicks>>

ServePoll ==
  /\ poll.phase = "asked"
  /\ poll' = [poll EXCEPT !.got = news, !.phase = "answered"]
  /\ UNCHANGED <<db, news, seen, listVars, bulk, clicks>>

\* Mutant: the poll refreshes the inbox and the counts only, as it once did.
MutantEndPoll ==
  /\ poll.phase = "answered"
  /\ seen' = poll.got
  /\ poll' = [poll EXCEPT !.phase = "idle", !.known = 0, !.got = 0]
  /\ UNCHANGED <<db, news, listVars, bulk, clicks>>

\* hasNewReservationSignal compares with the ids of the poll's beginning.
EndPoll ==
  /\ poll.phase = "answered"
  /\ seen' = poll.got
  /\ poll' = [poll EXCEPT !.phase = "idle", !.known = 0, !.got = 0]
  /\ IF poll.got > poll.known
       THEN StartLoad(filter.status, input.search)
       ELSE UNCHANGED <<filter, loads, table>>
  /\ UNCHANGED <<db, news, input, selected, bulk, clicks>>

\* markNotificationRead and markAllRead load the inbox and look for no signal.
ReadInbox ==
  /\ "inbox" \in Trouble
  /\ Click
  /\ seen' = news
  /\ UNCHANGED <<db, news, poll, listVars, bulk>>
-----------------------------------------------------------------------------
Network ==
  \/ \E i \in DOMAIN loads : Serve(i) \/ Arrive(i) \/ Fail(i)
  \/ \E post \in bulk.posts : ServeBulk(post) \/ FailBulk(post)
  \/ ServePoll

Callbacks ==
  \/ FilterTimer \/ StartPoll \/ EndPoll
  \/ \E post \in bulk.posts : FinishBulk(post) \/ EndBulk(post)

UserActs ==
  \/ \E chip \in Chip : ChooseStatus(chip)
  \/ \E text \in Text : Type(text)
  \/ ClearFilters
  \/ \E r \in Id : Tick(r)
  \/ \E on \in BOOLEAN : TickAll(on) \/ CloseBulkDialog(on)
  \/ \E verdict \in {"approved", "rejected"} : AskBulk(verdict)
  \/ ReadInbox

Next == Network \/ Callbacks \/ UserActs \/ \E r \in Id : OthersAct(r)

Spec == Init /\ [][Next]_vars

\* The browser fires its timers and hands over answers, and the server answers.
FairSpec ==
  /\ Spec
  /\ WF_vars(\E i \in DOMAIN loads : Serve(i))
  /\ WF_vars(\E i \in DOMAIN loads : Arrive(i))
  /\ WF_vars(\E post \in bulk.posts : ServeBulk(post))
  /\ WF_vars(\E post \in bulk.posts : FinishBulk(post))
  /\ WF_vars(\E post \in bulk.posts : EndBulk(post))
  /\ WF_vars(ServePoll) /\ WF_vars(StartPoll) /\ WF_vars(EndPoll) /\ WF_vars(FilterTimer)
-----------------------------------------------------------------------------
(* Properties *)

\* Whatever is ticked is a pending row the table shows: a bulk decision never
\* takes in a row that scrolled out with a filter or that a reload showed to be
\* decided.
SelectionIsOnScreen == selected \subseteq PendingShown

\* When no load is out and no timer runs, the table is the answer to the chip and
\* the text the user sees.
SettledTableFollowsFilter ==
  loads = <<>> /\ ~input.timer /\ ~table.failed =>
    /\ table.asked = filter
    /\ filter.search = input.search
    /\ ~table.loading

\* A poll that finds news in the inbox is followed by a table at least as new as
\* the news, or by a load that failed, whatever the user clicks meanwhile.
SignalReloadsTable ==
  \A n \in 1 .. MaxNews :
    poll.phase = "answered" /\ poll.got = n /\ n > poll.known
      ~> table.at >= n \/ table.failed
-----------------------------------------------------------------------------
(* What the documents say and the code does not do *)

\* Employee notification polling reloads the reservations when a notification of
\* an approval, start, return or cancellation comes in: the table ends up showing
\* what the server holds, without a manual refresh.
PollCatchesUp == []<>(table.rows = Kept(Answer(filter), filter.status))
=============================================================================
