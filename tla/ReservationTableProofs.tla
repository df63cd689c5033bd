------------------------ MODULE ReservationTableProofs ------------------------
(***************************************************************************)
(* What holds of the reservation table for any filters and any number of   *)
(* loads and decisions in flight: it is well formed; the rows ticked for a *)
(* bulk decision are pending rows on the screen, whatever order the        *)
(* answers come in; and when nothing is under way it shows what the chips  *)
(* say, as long as answers do not overtake one another.                    *)
(***************************************************************************)
EXTENDS ReservationTable, SequenceTheorems, FiniteSetTheorems, TLAPS

\* The inductive invariant: the table is a record, and the ticks are on it.
TicksOnTable == "rows" \in DOMAIN table /\ SelectionIsOnScreen

\* What is left of a selection after a render is pending in the rows rendered.
LEMMA SyncedIsShown ==
  ASSUME NEW ids, NEW rows, NEW r \in Synced(ids, rows)
  PROVE  <<r, "pending">> \in rows
BY DEF Synced

\* Sending a load raises the flag of the table and leaves its rows.
LEMMA StartLoadKeepsRows ==
  ASSUME NEW chip, NEW text, StartLoad(chip, text), "rows" \in DOMAIN table
  PROVE  "rows" \in DOMAIN table' /\ table'.rows = table.rows
BY DEF StartLoad

\* A step that leaves the rows may drop ticks and set ticks on pending rows.
LEMMA TicksStay ==
  ASSUME TicksOnTable, "rows" \in DOMAIN table', table'.rows = table.rows,
         selected' \subseteq selected \cup PendingShown
  PROVE  TicksOnTable'
BY DEF TicksOnTable, SelectionIsOnScreen, PendingShown

LEMMA InitTicks == Init => TicksOnTable
BY DEF Init, TicksOnTable, SelectionIsOnScreen

LEMMA NextTicks == TicksOnTable /\ [Next]_vars => TicksOnTable'
<1> SUFFICES ASSUME TicksOnTable, [Next]_vars PROVE TicksOnTable'
  OBVIOUS
<1>1. CASE \E i \in DOMAIN loads : Arrive(i)
  <2>1. PICK i \in DOMAIN loads : Arrive(i)
    BY <1>1
  <2> DEFINE rows == Kept(loads[i].rows, filter.status)
  <2>2. "rows" \in DOMAIN table' /\ table'.rows = rows /\ selected' = Synced(selected, rows)
    BY <2>1 DEF Arrive
  <2>3. \A r \in selected' : <<r, "pending">> \in table'.rows /\ r \in selected
    BY <2>2, SyncedIsShown DEF Synced
  <2>4. selected \subseteq Id
    BY DEF TicksOnTable, SelectionIsOnScreen, PendingShown
  <2> QED BY <2>2, <2>3, <2>4 DEF TicksOnTable, SelectionIsOnScreen, PendingShown
<1>2. CASE \E i \in DOMAIN loads : Fail(i)
  <2>1. "rows" \in DOMAIN table' /\ table'.rows = table.rows
    BY <1>2 DEF Fail, TicksOnTable
  <2>2. selected' \subseteq selected
    BY <1>2 DEF Fail, Synced
  <2> QED BY <2>1, <2>2, TicksStay
<1>3. ASSUME UNCHANGED table, selected' \subseteq selected \cup PendingShown
      PROVE  TicksOnTable'
  BY <1>3, TicksStay DEF TicksOnTable
<1>4. CASE (\E r \in Id : Tick(r)) \/ (\E on \in BOOLEAN : TickAll(on))
  BY <1>3, <1>4 DEF Tick, TickAll
<1>5. ASSUME NEW chip, NEW text, StartLoad(chip, text), selected' \subseteq selected
      PROVE  TicksOnTable'
  BY <1>5, StartLoadKeepsRows, TicksStay DEF TicksOnTable
<1>6. CASE FilterTimer \/ ClearFilters \/ \E chip \in Chip : ChooseStatus(chip)
  BY <1>5, <1>6 DEF FilterTimer, ClearFilters, ChooseStatus
<1>7. CASE EndPoll
  <2>1. CASE poll.got > poll.known
    BY <1>5, <1>7, <2>1 DEF EndPoll
  <2>2. CASE ~(poll.got > poll.known)
    BY <1>3, <1>7, <2>2 DEF EndPoll
  <2> QED BY <2>1, <2>2
<1>8. CASE \E post \in bulk.posts : FinishBulk(post) \/ EndBulk(post)
  BY <1>3, <1>5, <1>8 DEF FinishBulk, EndBulk
<1>9. CASE \/ \E i \in DOMAIN loads : Serve(i)
           \/ \E post \in bulk.posts : ServeBulk(post) \/ FailBulk(post)
           \/ ServePoll \/ StartPoll \/ ReadInbox
           \/ \E text \in Text : Type(text)
           \/ \E on \in BOOLEAN : CloseBulkDialog(on)
           \/ \E verdict \in {"approved", "rejected"} : AskBulk(verdict)
           \/ \E r \in Id : OthersAct(r)
           \/ UNCHANGED vars
  <2>1. UNCHANGED <<table, selected>>
    BY <1>9 DEF Serve, ServeBulk, FailBulk, ServePoll, StartPoll, ReadInbox, Type,
                CloseBulkDialog, AskBulk, OthersAct, listVars, newsVars, vars
  <2> QED BY <2>1, <1>3
<1> QED BY <1>1, <1>2, <1>4, <1>6, <1>7, <1>8, <1>9 DEF Next, Network, Callbacks, UserActs

\* A bulk decision never takes in a row that left the table with a filter or that
\* a reload showed to be decided: syncBulkSelection runs in every render.
THEOREM TicksAreOnScreen == Spec => []SelectionIsOnScreen
<1>1. TicksOnTable => SelectionIsOnScreen
  BY DEF TicksOnTable
<1> QED BY InitTicks, NextTicks, <1>1, PTL DEF Spec
-----------------------------------------------------------------------------
(* Types *)

TableState == [rows : Rows, loading : BOOLEAN, asked : Filter, at : Nat, failed : BOOLEAN]

LEMMA RemoveAtProperties ==
  ASSUME NEW S, NEW s \in Seq(S), NEW i \in 1 .. Len(s)
  PROVE  /\ RemoveAt(s, i) \in Seq(S)
         /\ Len(RemoveAt(s, i)) = Len(s) - 1
         /\ \A j \in 1 .. Len(s) - 1 : RemoveAt(s, i)[j] = s[IF j < i THEN j ELSE j + 1]
<1> DEFINE front == SubSeq(s, 1, i - 1)
           back  == SubSeq(s, i + 1, Len(s))
<1>1. Len(s) \in Nat /\ \A j \in 1 .. Len(s) : s[j] \in S
  BY LenProperties, ElementOfSeq
<1>2. /\ front \in Seq(S) /\ Len(front) = i - 1
      /\ \A j \in 1 .. i - 1 : front[j] = s[j]
  <2>1. 1 \in Int /\ i - 1 \in Int /\ \A j \in 1 .. i - 1 : s[j] \in S
    BY <1>1
  <2>2. /\ front \in Seq(S) /\ Len(front) = (IF 1 <= i - 1 THEN i - 1 - 1 + 1 ELSE 0)
        /\ \A j \in 1 .. i - 1 - 1 + 1 : front[j] = s[1 + j - 1]
    BY <2>1, SubSeqProperties
  <2> HIDE DEF front
  <2> QED BY <1>1, <2>2
<1>3. /\ back \in Seq(S) /\ Len(back) = Len(s) - i
      /\ \A j \in 1 .. Len(s) - i : back[j] = s[i + j]
  <2>1. i + 1 \in Int /\ Len(s) \in Int /\ \A j \in i + 1 .. Len(s) : s[j] \in S
    BY <1>1
  <2>2. /\ back \in Seq(S)
        /\ Len(back) = (IF i + 1 <= Len(s) THEN Len(s) - (i + 1) + 1 ELSE 0)
        /\ \A j \in 1 .. Len(s) - (i + 1) + 1 : back[j] = s[i + 1 + j - 1]
    BY <2>1, SubSeqProperties
  <2> HIDE DEF back
  <2> QED BY <1>1, <2>2
<1> HIDE DEF front, back
<1>4. /\ front \o back \in Seq(S)
      /\ Len(front \o back) = Len(s) - 1
      /\ \A j \in 1 .. Len(front) : (front \o back)[j] = front[j]
      /\ \A j \in 1 .. Len(back) : (front \o back)[Len(front) + j] = back[j]
  <2>1. Len(front) + Len(back) = Len(s) - 1
    BY <1>1, <1>2, <1>3
  <2>2. /\ front \o back \in Seq(S)
        /\ Len(front \o back) = Len(front) + Len(back)
        /\ \A j \in 1 .. Len(front) + Len(back) : (front \o back)[j] =
              IF j <= Len(front) THEN front[j] ELSE back[j - Len(front)]
    BY <1>2, <1>3, ConcatProperties
  <2>3. \A j \in 1 .. Len(front) : j \in 1 .. Len(front) + Len(back) /\ j <= Len(front)
    BY <1>1, <1>2, <1>3
  <2>4. \A j \in 1 .. Len(back) : /\ Len(front) + j \in 1 .. Len(front) + Len(back)
                                  /\ ~(Len(front) + j <= Len(front))
                                  /\ (Len(front) + j) - Len(front) = j
    BY <1>1, <1>2, <1>3
  <2> QED BY <2>1, <2>2, <2>3, <2>4
<1>5. ASSUME NEW j \in 1 .. Len(s) - 1
      PROVE  (front \o back)[j] = s[IF j < i THEN j ELSE j + 1]
  <2>1. CASE j < i
    BY <1>1, <1>2, <1>4, <2>1
  <2>2. CASE ~(j < i)
    <3>1. j - (i - 1) \in 1 .. Len(back) /\ Len(front) + (j - (i - 1)) = j
      BY <1>1, <1>2, <1>3, <2>2
    <3>2. (front \o back)[j] = back[j - (i - 1)]
      BY <1>4, <3>1
    <3>3. back[j - (i - 1)] = s[i + (j - (i - 1))] /\ i + (j - (i - 1)) = j + 1
      BY <1>1, <1>3, <3>1
    <3> QED BY <2>2, <3>2, <3>3
  <2> QED BY <2>1, <2>2
<1> QED BY <1>4, <1>5 DEF RemoveAt, front, back

\* The types as the step proofs use them.
LEMMA Types ==
  ASSUME TypeOK
  PROVE  /\ filter.status \in Chip /\ filter.search \in Text
         /\ input.search \in Text /\ input.timer \in BOOLEAN
         /\ loads \in Seq(Load) /\ Len(loads) \in Nat /\ DOMAIN loads = 1 .. Len(loads)
         /\ \A i \in DOMAIN loads : loads[i] \in Load
         /\ table \in TableState
BY LenProperties, ElementOfSeq DEF TypeOK, Filter, TableState

LEMMA NewLoadTyped ==
  ASSUME NEW f \in Filter
  PROVE  [filter |-> f, answered |-> FALSE, rows |-> {}, at |-> 0] \in Load
BY DEF Load, Rows

LEMMA StartLoadTyped ==
  ASSUME TypeOK, NEW chip \in Chip, NEW text \in Text, StartLoad(chip, text)
  PROVE  filter' \in Filter /\ loads' \in Seq(Load) /\ table' \in TableState
<1> DEFINE f == [status |-> chip, search |-> text]
           load == [filter |-> f, answered |-> FALSE, rows |-> {}, at |-> 0]
<1>1. f \in Filter
  BY DEF Filter
<1>2. load \in Load
  BY <1>1, NewLoadTyped
<1>3. filter' = f /\ loads' = Append(loads, load) /\ table' = [table EXCEPT !.loading = TRUE]
  BY DEF StartLoad
<1> HIDE DEF f, load
<1>4. table' \in TableState
  BY <1>3, Types DEF TableState
<1> QED BY <1>1, <1>2, <1>3, <1>4, Types, AppendProperties

LEMMA AnswerTyped ==
  ASSUME TypeOK, NEW f \in Filter PROVE Answer(f) \in Rows
<1>1. Matching[f.search] \subseteq Id /\ db \in [Id -> Status]
  BY TextAssumption DEF TypeOK, Filter
<1>2. \A r \in Matching[f.search] : <<r, db[r]>> \in Id \X Status
  BY <1>1
<1> QED BY <1>2 DEF Answer, Rows

LEMMA ServeTyped ==
  ASSUME TypeOK, NEW i \in DOMAIN loads, Serve(i) PROVE loads' \in Seq(Load)
<1>1. loads[i] \in Load /\ i \in 1 .. Len(loads) /\ news \in Nat
  BY Types DEF TypeOK
<1>2. Answer(loads[i].filter) \in Rows
  BY <1>1, AnswerTyped DEF Load
<1> DEFINE load == [loads[i] EXCEPT !.answered = TRUE, !.at = news, !.rows = Answer(loads[i].filter)]
<1>3. load \in Load
  BY <1>1, <1>2 DEF Load
<1>4. loads' = [loads EXCEPT ![i] = load]
  BY DEF Serve
<1> HIDE DEF load
<1> QED BY <1>1, <1>3, <1>4, Types, ExceptSeq

\* The table and the selection as they are after each step that touches them.
LEMMA ListTyped ==
  ASSUME TypeOK, [Next]_vars
  PROVE  /\ filter' \in Filter /\ input' \in [search : Text, timer : BOOLEAN]
         /\ loads' \in Seq(Load) /\ table' \in TableState /\ selected' \subseteq Id
<1> DEFINE Goal == /\ filter' \in Filter /\ input' \in [search : Text, timer : BOOLEAN]
                   /\ loads' \in Seq(Load) /\ table' \in TableState /\ selected' \subseteq Id
<1>1. /\ filter \in Filter /\ input \in [search : Text, timer : BOOLEAN]
      /\ loads \in Seq(Load) /\ table \in TableState /\ selected \subseteq Id
  BY DEF TypeOK, TableState
<1>2. CASE UNCHANGED listVars
  BY <1>1, <1>2 DEF listVars
<1>3. ASSUME NEW chip \in Chip, NEW text \in Text, StartLoad(chip, text),
             input' \in [search : Text, timer : BOOLEAN], selected' \subseteq selected
      PROVE  Goal
  BY <1>1, <1>3, StartLoadTyped
<1>4. ASSUME NEW i \in DOMAIN loads, Serve(i) PROVE Goal
  BY <1>1, <1>4, ServeTyped DEF Serve
<1>5. ASSUME NEW i \in DOMAIN loads, Arrive(i) PROVE Goal
  <2> DEFINE rows == Kept(loads[i].rows, filter.status)
  <2>1. loads[i] \in Load /\ i \in 1 .. Len(loads)
    BY Types
  <2>2. rows \in Rows
    BY <2>1 DEF Kept, Load, Rows
  <2>3. table' \in TableState
    BY <1>5, <2>1, <2>2 DEF Arrive, TableState, Load
  <2>4. loads' \in Seq(Load)
    BY <1>5, <2>1, Types, RemoveAtProperties DEF Arrive
  <2> QED BY <1>1, <1>5, <2>3, <2>4 DEF Arrive, Synced
<1>6. ASSUME NEW i \in DOMAIN loads, Fail(i) PROVE Goal
  <2>1. loads' \in Seq(Load)
    BY <1>6, Types, RemoveAtProperties DEF Fail
  <2>2. table' \in TableState
    BY <1>6, Types DEF Fail, TableState
  <2> QED BY <1>1, <1>6, <2>1, <2>2 DEF Fail, Synced
<1>7. CASE \/ \E post \in bulk.posts : ServeBulk(post) \/ FailBulk(post)
           \/ ServePoll \/ StartPoll \/ ReadInbox
           \/ \E on \in BOOLEAN : CloseBulkDialog(on)
           \/ \E verdict \in {"approved", "rejected"} : AskBulk(verdict)
           \/ \E r \in Id : OthersAct(r)
           \/ UNCHANGED vars
  BY <1>2, <1>7 DEF ServeBulk, FailBulk, ServePoll, StartPoll, ReadInbox, CloseBulkDialog, AskBulk,
                    OthersAct, vars
<1>8. CASE (\E r \in Id : Tick(r)) \/ (\E on \in BOOLEAN : TickAll(on))
  BY <1>1, <1>8 DEF Tick, TickAll, PendingShown
<1>9. CASE \E text \in Text : Type(text)
  BY <1>1, <1>9 DEF Type
<1>10. CASE FilterTimer \/ ClearFilters \/ \E chip \in Chip : ChooseStatus(chip)
  <2>1. CASE FilterTimer
    <3>1. input' \in [search : Text, timer : BOOLEAN]
      BY <1>1, <2>1 DEF FilterTimer
    <3> QED BY <1>3, <2>1, <3>1, Types DEF FilterTimer
  <2>2. CASE ClearFilters
    <3>1. input' \in [search : Text, timer : BOOLEAN]
      BY <2>2, TextAssumption DEF ClearFilters
    <3> QED BY <1>3, <2>2, <3>1, Types, TextAssumption DEF ClearFilters
  <2>3. CASE \E chip \in Chip : ChooseStatus(chip)
    BY <1>1, <1>3, <2>3, Types DEF ChooseStatus
  <2> QED BY <1>10, <2>1, <2>2, <2>3
<1>11. CASE EndPoll \/ \E post \in bulk.posts : FinishBulk(post) \/ EndBulk(post)
  BY <1>1, <1>3, <1>11, Types DEF EndPoll, FinishBulk, EndBulk
<1> QED
  BY <1>4, <1>5, <1>6, <1>7, <1>8, <1>9, <1>10, <1>11 DEF Next, Network, Callbacks, UserActs

LEMMA BulkTyped ==
  ASSUME TypeOK, [Next]_vars
  PROVE  bulk' \in [dialog : SUBSET Decision, posts : SUBSET Post] /\ Cardinality(bulk'.dialog) <= 1
<1>1. /\ bulk \in [dialog : SUBSET Decision, posts : SUBSET Post] /\ Cardinality(bulk.dialog) <= 1
      /\ selected \subseteq Id
  BY DEF TypeOK
<1>2. CASE UNCHANGED bulk
  BY <1>1, <1>2
<1>3. ASSUME NEW verdict \in {"approved", "rejected"}, AskBulk(verdict)
      PROVE  bulk' \in [dialog : SUBSET Decision, posts : SUBSET Post] /\ Cardinality(bulk'.dialog) <= 1
  <2> DEFINE decision == [verdict |-> verdict, ids |-> selected]
  <2>1. decision \in Decision
    BY <1>1 DEF Decision
  <2>2. bulk' = [bulk EXCEPT !.dialog = {decision}]
    BY <1>3 DEF AskBulk
  <2> HIDE DEF decision
  <2>3. bulk'.dialog = {decision}
    BY <1>1, <2>2
  <2> QED BY <1>1, <2>1, <2>2, <2>3, FS_Singleton
<1>4. ASSUME NEW on \in BOOLEAN, CloseBulkDialog(on)
      PROVE  bulk' \in [dialog : SUBSET Decision, posts : SUBSET Post] /\ Cardinality(bulk'.dialog) <= 1
  <2> DEFINE posted == {[decision |-> d, phase |-> "posted"] : d \in bulk.dialog}
             posts == bulk.posts \cup IF on THEN posted ELSE {}
  <2>1. posted \subseteq Post
    <3>1. \A d \in Decision : [decision |-> d, phase |-> "posted"] \in Post
      BY DEF Post
    <3>2. bulk.dialog \subseteq Decision
      BY <1>1
    <3> HIDE DEF Post
    <3> QED BY <3>1, <3>2
  <2>2. bulk' = [dialog |-> {}, posts |-> posts]
    BY <1>4 DEF CloseBulkDialog
  <2>3. posts \subseteq Post
    BY <1>1, <2>1
  <2> HIDE DEF posts
  <2> QED BY <2>2, <2>3, FS_EmptySet
<1>5. ASSUME NEW post \in bulk.posts,
             ServeBulk(post) \/ FinishBulk(post) \/ EndBulk(post) \/ FailBulk(post)
      PROVE  bulk' \in [dialog : SUBSET Decision, posts : SUBSET Post] /\ Cardinality(bulk'.dialog) <= 1
  <2>1. \A phase \in {"answered", "refreshing"} : [post EXCEPT !.phase = phase] \in Post
    BY <1>1 DEF Post
  <2>2. \/ bulk' = [bulk EXCEPT !.posts = Without(post) \cup {[post EXCEPT !.phase = "answered"]}]
        \/ bulk' = [bulk EXCEPT !.posts = Without(post) \cup {[post EXCEPT !.phase = "refreshing"]}]
        \/ bulk' = [bulk EXCEPT !.posts = Without(post)]
    BY <1>5 DEF ServeBulk, FinishBulk, EndBulk, FailBulk
  <2> QED BY <1>1, <2>1, <2>2 DEF Without
<1> QED
  BY <1>2, <1>3, <1>4, <1>5
     DEF Next, Network, Callbacks, UserActs, Serve, Arrive, Fail, ServePoll, FilterTimer, StartPoll,
         EndPoll, ChooseStatus, Type, ClearFilters, Tick, TickAll, ReadInbox, OthersAct, vars

LEMMA NewsTyped ==
  ASSUME TypeOK, [Next]_vars
  PROVE  /\ db' \in [Id -> Status]
         /\ news' \in Nat /\ seen' \in Nat /\ clicks' \in Nat
         /\ poll' \in [known : Nat, got : Nat, phase : {"idle", "asked", "answered"}]
<1>1. /\ db \in [Id -> Status] /\ news \in Nat /\ seen \in Nat /\ clicks \in Nat
      /\ poll \in [known : Nat, got : Nat, phase : {"idle", "asked", "answered"}]
      /\ bulk.posts \subseteq Post
  BY DEF TypeOK
<1>2. CASE UNCHANGED <<db, newsVars>> /\ (UNCHANGED clicks \/ Click)
  BY <1>1, <1>2 DEF newsVars, Click
<1>3. CASE \E post \in bulk.posts : ServeBulk(post)
  <2>1. PICK post \in bulk.posts : ServeBulk(post)
    BY <1>3
  <2>2. post.decision.verdict \in Status
    BY <1>1 DEF Post, Decision, Status, Closed
  <2> QED BY <1>1, <2>1, <2>2 DEF ServeBulk, newsVars
<1>4. CASE \E r \in Id : OthersAct(r)
  <2>1. \A status \in Status : Next1(status) \subseteq Status
    BY DEF Next1, Status, Closed
  <2> QED BY <1>1, <1>4, <2>1 DEF OthersAct
<1>5. CASE ServePoll \/ StartPoll \/ EndPoll \/ ReadInbox
  <2>1. CASE ServePoll
    BY <1>1, <2>1 DEF ServePoll
  <2>2. CASE StartPoll
    BY <1>1, <2>2 DEF StartPoll
  <2>3. CASE EndPoll
    <3>1. poll.got \in Nat
      BY <1>1
    <3>2. poll' \in [known : Nat, got : Nat, phase : {"idle", "asked", "answered"}]
      BY <1>1, <2>3 DEF EndPoll
    <3>3. seen' = poll.got /\ UNCHANGED <<db, news, clicks>>
      BY <2>3 DEF EndPoll
    <3> QED BY <1>1, <3>1, <3>2, <3>3
  <2>4. CASE ReadInbox
    BY <1>1, <2>4 DEF ReadInbox, Click
  <2> QED BY <1>5, <2>1, <2>2, <2>3, <2>4
<1>6. CASE \/ \E i \in DOMAIN loads : Serve(i) \/ Arrive(i) \/ Fail(i)
           \/ \E post \in bulk.posts : FailBulk(post) \/ FinishBulk(post) \/ EndBulk(post)
           \/ FilterTimer
           \/ \E chip \in Chip : ChooseStatus(chip)
           \/ \E text \in Text : Type(text)
           \/ ClearFilters
           \/ \E r \in Id : Tick(r)
           \/ \E on \in BOOLEAN : TickAll(on) \/ CloseBulkDialog(on)
           \/ \E verdict \in {"approved", "rejected"} : AskBulk(verdict)
           \/ UNCHANGED vars
  BY <1>2, <1>6 DEF Serve, Arrive, Fail, FailBulk, FinishBulk, EndBulk, FilterTimer, ChooseStatus,
                    Type, ClearFilters, Tick, TickAll, CloseBulkDialog, AskBulk, vars
<1> QED BY <1>3, <1>4, <1>5, <1>6 DEF Next, Network, Callbacks, UserActs

LEMMA InitTyped == Init => TypeOK
<1> SUFFICES ASSUME Init PROVE TypeOK
  OBVIOUS
<1>1. filter \in Filter
  BY ChipAssumption, TextAssumption DEF Init, Filter
<1>2. loads \in Seq(Load)
  <2> DEFINE load == [filter |-> filter, answered |-> FALSE, rows |-> {}, at |-> 0]
  <2>1. load \in Load /\ loads = <<load>>
    BY <1>1, NewLoadTyped DEF Init
  <2> HIDE DEF load
  <2> QED BY <2>1
<1>3. bulk \in [dialog : SUBSET Decision, posts : SUBSET Post] /\ Cardinality(bulk.dialog) <= 1
  BY FS_EmptySet DEF Init
<1> QED BY <1>1, <1>2, <1>3, TextAssumption DEF Init, TypeOK, Status, Rows

LEMMA TypeStep == TypeOK /\ [Next]_vars => TypeOK'
BY ListTyped, BulkTyped, NewsTyped DEF TypeOK, TableState

\* No click, answer, timer or decision makes the tab's lists anything but lists
\* of reservations and filters: a row never gets a status the API does not have.
THEOREM TypeCorrect == Spec => []TypeOK
BY InitTyped, TypeStep, PTL DEF Spec
-----------------------------------------------------------------------------
(* The settled table *)

\* The newest load asks for what the chips say; while none is out the rows are
\* the answer to it, unless a load failed; and the box differs from the filter
\* only while its timer runs.
Following ==
  /\ loads # <<>> => loads[Len(loads)].filter = filter
  /\ loads = <<>> => table.failed \/ table.asked = filter
  /\ table.loading => loads # <<>>
  /\ input.timer \/ filter.search = input.search

InOrder == "reordered" \notin Trouble

LEMMA StartLoadFollows ==
  ASSUME TypeOK, NEW chip \in Chip, NEW text \in Text, StartLoad(chip, text),
         input'.timer \/ input'.search = text
  PROVE  Following'
<1> DEFINE f == [status |-> chip, search |-> text]
           load == [filter |-> f, answered |-> FALSE, rows |-> {}, at |-> 0]
<1>1. filter' = f /\ loads' = Append(loads, load)
  BY DEF StartLoad
<1>2. load \in Load
  BY NewLoadTyped DEF Filter
<1>3. load.filter = f /\ f.search = text
  OBVIOUS
<1> HIDE DEF f, load
<1>4. /\ loads' \in Seq(Load) /\ Len(loads') = Len(loads) + 1 /\ Len(loads) \in Nat
      /\ loads'[Len(loads) + 1] = load
  BY <1>1, <1>2, Types, AppendProperties
<1>5. loads' # <<>>
  BY <1>4, EmptySeq
<1> QED BY <1>1, <1>3, <1>4, <1>5 DEF Following

\* In order, the load that ends is the oldest one.
LEMMA OldestEnds ==
  ASSUME InOrder, TypeOK, Following, NEW i \in DOMAIN loads, InTurn(i), loads' = RemoveAt(loads, i),
         filter' = filter, input' = input, table'.loading = FALSE,
         table'.failed \/ table'.asked = loads[i].filter
  PROVE  Following'
<1>1. i = 1 /\ i \in 1 .. Len(loads) /\ Len(loads) \in Nat
  BY Types DEF InTurn, InOrder
<1>2. /\ loads' \in Seq(Load) /\ Len(loads') = Len(loads) - 1
      /\ \A j \in 1 .. Len(loads) - 1 : loads'[j] = loads[IF j < i THEN j ELSE j + 1]
  BY <1>1, Types, RemoveAtProperties
<1>3. loads # <<>> /\ loads[Len(loads)].filter = filter
  BY <1>1, EmptySeq DEF Following
<1>4. CASE Len(loads) = 1
  BY <1>1, <1>2, <1>3, <1>4, EmptySeq DEF Following
<1>5. CASE Len(loads) > 1
  <2>1. Len(loads') \in 1 .. Len(loads) - 1 /\ loads'[Len(loads')] = loads[Len(loads)]
    BY <1>1, <1>2, <1>5
  <2>2. loads' # <<>>
    BY <2>1, EmptySeq
  <2> QED BY <1>3, <2>1, <2>2 DEF Following
<1>6. Len(loads) = 1 \/ Len(loads) > 1
  <2>1. \A n \in Nat : 1 \in 1 .. n => n = 1 \/ n > 1
    OBVIOUS
  <2> QED BY <1>1, <2>1
<1> QED BY <1>4, <1>5, <1>6

LEMMA ServeFollows ==
  ASSUME TypeOK, Following, NEW i \in DOMAIN loads, Serve(i) PROVE Following'
<1> DEFINE load == [loads[i] EXCEPT !.answered = TRUE, !.at = news, !.rows = Answer(loads[i].filter)]
<1>1. loads[i] \in Load /\ i \in 1 .. Len(loads) /\ Len(loads) \in Nat /\ loads \in Seq(Load)
  BY Types
<1>2. load.filter = loads[i].filter
  BY <1>1 DEF Load
<1>3. loads' = [loads EXCEPT ![i] = load]
  BY DEF Serve
<1> HIDE DEF load
<1>4. /\ DOMAIN loads' = DOMAIN loads /\ Len(loads') = Len(loads)
      /\ \A j \in 1 .. Len(loads) : loads'[j].filter = loads[j].filter
  BY <1>1, <1>2, <1>3
<1>5. Len(loads) \in 1 .. Len(loads) /\ loads # <<>> /\ loads' # <<>>
  BY <1>1, <1>4, EmptySeq
<1> QED BY <1>4, <1>5 DEF Following, Serve

LEMMA NextFollows ==
  ASSUME InOrder, TypeOK, Following, [Next]_vars PROVE Following'
<1>1. CASE UNCHANGED <<loads, table, filter, input>>
  BY <1>1 DEF Following
<1>2. CASE \/ \E post \in bulk.posts : ServeBulk(post) \/ FailBulk(post)
           \/ ServePoll \/ StartPoll \/ ReadInbox
           \/ \E r \in Id : Tick(r)
           \/ \E on \in BOOLEAN : TickAll(on) \/ CloseBulkDialog(on)
           \/ \E verdict \in {"approved", "rejected"} : AskBulk(verdict)
           \/ \E r \in Id : OthersAct(r)
           \/ UNCHANGED vars
  BY <1>1, <1>2 DEF ServeBulk, FailBulk, ServePoll, StartPoll, ReadInbox, CloseBulkDialog, AskBulk,
                    OthersAct, Tick, TickAll, vars, listVars
<1>3. ASSUME NEW i \in DOMAIN loads, Serve(i) PROVE Following'
  BY <1>3, ServeFollows
<1>4. ASSUME NEW i \in DOMAIN loads, Arrive(i) PROVE Following'
  BY <1>4, OldestEnds DEF Arrive
<1>5. ASSUME NEW i \in DOMAIN loads, Fail(i) PROVE Following'
  BY <1>5, Types, OldestEnds DEF Fail, TableState
<1>6. CASE \E text \in Text : Type(text)
  BY <1>6 DEF Type, Following
<1>7. CASE FilterTimer \/ ClearFilters \/ \E chip \in Chip : ChooseStatus(chip)
  <2>1. CASE FilterTimer
    BY <2>1, Types, StartLoadFollows DEF FilterTimer, TypeOK
  <2>2. CASE ClearFilters
    BY <2>2, Types, TextAssumption, StartLoadFollows DEF ClearFilters
  <2>3. CASE \E chip \in Chip : ChooseStatus(chip)
    BY <2>3, Types, StartLoadFollows DEF ChooseStatus
  <2> QED BY <1>7, <2>1, <2>2, <2>3
<1>8. CASE EndPoll
  <2>1. CASE poll.got > poll.known
    BY <1>8, <2>1, Types, StartLoadFollows DEF EndPoll
  <2>2. CASE ~(poll.got > poll.known)
    BY <1>1, <1>8, <2>2 DEF EndPoll
  <2> QED BY <2>1, <2>2
<1>9. CASE \E post \in bulk.posts : FinishBulk(post) \/ EndBulk(post)
  BY <1>1, <1>9, Types, StartLoadFollows DEF FinishBulk, EndBulk
<1> QED BY <1>2, <1>3, <1>4, <1>5, <1>6, <1>7, <1>8, <1>9 DEF Next, Network, Callbacks, UserActs

\* As long as answers come in the order of their questions, a table with nothing
\* under way is the answer to the chip and the text on the screen, however the
\* loads of clicks, timers, polls and decisions overlapped.
THEOREM SettledTableIsTheFilters == ASSUME InOrder PROVE Spec => []SettledTableFollowsFilter
<1>1. Init => Following
  <2> SUFFICES ASSUME Init PROVE Following
    OBVIOUS
  <2> DEFINE load == [filter |-> filter, answered |-> FALSE, rows |-> {}, at |-> 0]
  <2>1. loads = <<load>> /\ load.filter = filter
    BY DEF Init
  <2> HIDE DEF load
  <2>2. Len(loads) = 1 /\ loads[1] = load /\ loads # <<>>
    BY <2>1
  <2> QED BY <2>1, <2>2 DEF Init, Following
<1>2. Following /\ TypeOK => SettledTableFollowsFilter
  BY Types DEF Following, SettledTableFollowsFilter, TableState
<1> QED BY <1>1, <1>2, InitTyped, TypeStep, NextFollows, PTL DEF Spec
=============================================================================
