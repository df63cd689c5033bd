------------------------------ MODULE PageSession ------------------------------
(***************************************************************************)
(* The loads and the forms of one page (static/app.js), from sign-in to    *)
(* sign-out and the next sign-in in the same tab: refreshData and what its *)
(* loads do when they are refused or lost, the spinners, the forms that    *)
(* lock their button and end in a refresh, the message strip, and          *)
(* handleLogout, which clears what is shown in two parts around a request. *)
(*                                                                         *)
(* What a part of the page shows is whose data it shows; the contents are  *)
(* the business of ReservationTable, Desk and BookingForm.  A step is what *)
(* JavaScript runs between two awaits, after which the browser may paint.  *)
(***************************************************************************)
EXTENDS Naturals, Sequences, FiniteSets

CONSTANTS
  User, Nobody,
  FirstRole,     \* the role of each user
  Watched,       \* the sets of parts to look at; each behaviour looks at one
  Surface,       \* the pages: "employee", "admin" or both
  Forms,         \* the forms in use
  Crossing,      \* whether a sign-in or sign-out may cross unfinished work
  MaxSignIns, MaxPosts, MaxRuns    \* bounds: sign-ins, forms sent, refreshes at a time

Admins == {"fleet_admin"}
Office == {"fleet_admin", "fleet_approver", "fleet_reception"}
Role   == Office \cup {"employee"}

(* The parts, by the guard of the load that fills them *)
OpenParts   == {"cars", "overview"}
SignedParts == {"reservations", "notifications"}
AdminParts  == {"blackouts", "users", "intelligence", "netfleet", "telemetry", "readiness",
                "audit"}
QuietParts  == {"intelligence", "netfleet", "telemetry", "readiness"}
OwnParts    == {"preferences", "suggested"}
TripParts   == {"pickup", "handoff"}    \* loaded only if there is a trip to ask about
Part == OpenParts \cup SignedParts \cup AdminParts \cup OwnParts \cup TripParts \cup {"pulse"}

\* The loads whose failure refreshData hears of; the others blank their part.
Loud == {"cars", "blackouts", "reservations", "pulse", "notifications", "users", "audit"}

\* handleHandoff calls setSubmitBusy too, but behind an await, where
\* event.currentTarget is null and there is no button to lock.  Each button of
\* "bulk" is disabled meanwhile too, but any drawing of the table sets it by what is
\* ticked: the lock is the bar's, see ReservationTable.
LockedForms == {"reservation", "quick", "password", "netfleet", "user", "import", "car",
                "blackout"}
OpenForms   == {"handoff", "toggle", "role", "contact", "reset", "close", "notes", "test",
                "decide", "bulk"}
Form == LockedForms \cup OpenForms

ASSUME UserAssumption    == Nobody \notin User /\ FirstRole \in [User -> Role]
ASSUME SurfaceAssumption == Surface \subseteq {"employee", "admin"}
ASSUME WatchedAssumption == Watched \subseteq SUBSET Part
ASSUME FormsAssumption   == Forms \subseteq Form /\ Crossing \in BOOLEAN
ASSUME BoundAssumption   == {MaxSignIns, MaxPosts, MaxRuns} \subseteq Nat

VARIABLES
  surface,   \* the page this behaviour is on
  watched,   \* the parts it looks at
  grant,     \* the role of each user at the server
  user,      \* state.currentUser, or Nobody
  role,      \* state.currentRole; "none" for Nobody
  shown,     \* whose data each part shows, Nobody's if it is blank
  spin,      \* state.loading: the parts with a spinner
  calls,     \* loads in flight
  runs,      \* refreshes under way: what is still to load, what is awaited
  posts,     \* forms posted, and what has become of them
  locked,    \* the forms whose button is locked
  banner,    \* the message strip
  tail,      \* where handleLogout is
  spent,     \* how much of each bound is used
  crossed,   \* history: a sign-in or the end of a session has crossed unfinished work
  failed     \* history: a load has failed since the page was last at rest

page   == <<shown, spin, calls, runs>>
forms  == <<posts, locked>>
setting == <<surface, watched>>
vars   == <<setting, grant, user, role, page, forms, banner, tail, spent, crossed, failed>>

Login == "login"    \* the sign-in, among the forms
Call == [part : Part, by : User \cup {Nobody}, run : Nat]
\* todo are the stages of the plan still to come.
Run  == [no : Nat, form : Form \cup {Login}, todo : SUBSET Nat, waits : SUBSET Part]
Post == [form : Form, by : User, no : Nat, fate : {"posted", "accepted", "refused"}]

TypeOK ==
  /\ surface \in Surface /\ watched \in Watched /\ grant \in [User -> Role]
  /\ user \in User \cup {Nobody} /\ role \in Role \cup {"none"}
  /\ (user = Nobody) <=> (role = "none")
  /\ shown \in [watched -> User \cup {Nobody}]
  /\ spin \subseteq watched
  /\ calls \subseteq Call /\ runs \subseteq Run /\ posts \subseteq Post
  /\ \A p \in spin : \E c \in calls : c.part = p
  /\ \A r \in runs, p \in Part : p \in r.waits =>
       \E c \in calls : c.part = p /\ c.run = r.no
  /\ \A f \in locked : f \in LockedForms /\ \E x \in posts \cup runs : x.form = f
  /\ banner \in {"none", "success", "error"}
  /\ tail \in {"idle", "posted", "cleared"}
  /\ spent \in [signIns : 0 .. MaxSignIns, posts : 0 .. MaxPosts, runs : Nat]
  /\ crossed \in BOOLEAN /\ failed \in BOOLEAN

Init ==
  /\ surface \in Surface /\ watched \in Watched /\ grant = FirstRole
  /\ user = Nobody /\ role = "none"
  /\ shown = [p \in watched |-> Nobody] /\ spin = {}
  /\ calls = {} /\ runs = {} /\ posts = {} /\ locked = {}
  /\ banner = "none" /\ tail = "idle"
  /\ spent = [signIns |-> 0, posts |-> 0, runs |-> 0]
  /\ crossed = FALSE /\ failed = FALSE
-----------------------------------------------------------------------------
(* What is loaded for whom *)

\* Mutant: preferences are asked for by everybody signed in.
MutantWanted(r) ==
  OpenParts \cup (IF r = "none" THEN {} ELSE SignedParts \cup {"preferences"})
            \cup (IF r \in Office THEN {"pulse"} ELSE {})
            \cup (IF r \in Admins THEN AdminParts ELSE {"audit"})

\* The guards at the head of the loads.  loadUserAudit has none, it follows an
\* admin's form.
Wanted(r) == OpenParts \cup (IF r = "none" THEN {} ELSE SignedParts)
                       \cup (IF r \in Office THEN {"pulse"} ELSE {})
                       \cup (IF r \in Admins THEN AdminParts ELSE {})
                       \cup (IF r = "employee" THEN OwnParts ELSE {})
                       \cup {"audit"}

\* Those of them that also need a trip, or its absence.
Maybe(r) == IF r = "employee" THEN {"pickup", "suggested"}
            ELSE IF r \in {"fleet_admin", "fleet_reception"} THEN {"handoff"} ELSE {}

\* The dependencies of the endpoints.
Allowed(r) == OpenParts \cup TripParts
               \cup (IF r = "none" THEN {} ELSE SignedParts \cup {"pulse"})
               \cup (IF r \in Admins THEN AdminParts ELSE {})
               \cup (IF r = "employee" THEN OwnParts ELSE {})

RoleAtServer(u) == IF u = Nobody THEN "none" ELSE grant[u]

\* Mutant: a new load is never called from refreshData.
MutantRefresh ==
  << {"cars"}, {"blackouts"},
     {"reservations", "overview", "intelligence", "netfleet", "readiness",
      "telemetry", "preferences", "notifications", "users"},
     {"pickup"}, {"suggested"}, {"handoff"} >>

\* refreshData: the cars, then their blackouts, ten loads side by side, and
\* the three that read what those have brought.
Refresh ==
  << {"cars"}, {"blackouts"},
     {"reservations", "pulse", "overview", "intelligence", "netfleet", "readiness",
      "telemetry", "preferences", "notifications", "users"},
     {"pickup"}, {"suggested"}, {"handoff"} >>

\* What each form loads when its POST has succeeded.
After(f) ==
  CASE f \in {"password", "notes"} -> << >>
    [] f = "netfleet"              -> << {"telemetry"} >>
    [] f = "test"                  -> << {"notifications"} >>
    [] f = "reset"                 -> << {"audit"} >>
    [] f \in {"role", "contact"}   -> Refresh \o << {"audit"} >>
    [] OTHER                       -> Refresh

OfferedTo(f, r) == CASE f = "password"    -> r # "none"
                     [] f = "decide"      -> r \in Role
                     [] f \in {"reservation", "quick"} -> r = "employee"
                     [] f = "bulk"        -> r \in {"fleet_admin", "fleet_approver"}
                     [] OTHER             -> r \in Admins
-----------------------------------------------------------------------------
(* Refreshing *)

\* What a run loads, stage by stage.
Plan(f) == IF f = Login THEN Refresh ELSE After(f)

NewRun(f) == [no |-> spent.runs + 1, form |-> f, waits |-> {},
              todo |-> {i \in DOMAIN Plan(f) : Plan(f)[i] \cap watched # {}}]

\* The next loads of a run: those the role wants are sent, the parts of the
\* others are blanked.
NextLoads(r) ==
  /\ r.waits = {}
  /\ \E i \in r.todo :
       LET now == Plan(r.form)[i] \cap watched
       IN  /\ \A j \in r.todo : i <= j
           /\ \E skipped \in SUBSET (Maybe(role) \cap now) :
                LET asked == (now \cap (Wanted(role) \cup Maybe(role))) \ skipped
                IN  /\ calls' = calls \cup {[part |-> p, by |-> user, run |-> r.no] : p \in asked}
                    /\ spin' = spin \cup asked
                    /\ shown' = [p \in watched |-> IF p \in now \ asked THEN Nobody ELSE shown[p]]
                    /\ runs' = (runs \ {r}) \cup {[r EXCEPT !.todo = @ \ {i}, !.waits = asked]}
  /\ UNCHANGED <<setting, grant, user, role, forms, banner, tail, spent, crossed, failed>>

\* Mutant: the spinner stops on success only.
MutantStopped(c, ok) == IF ok THEN spin \ {c.part} ELSE spin

\* setLoading(part, false) in the finally branch: it stops the spinner of every
\* load of the part.
Stopped(c, ok) == spin \ {c.part}

Heard(c) == {IF r.no = c.run THEN [r EXCEPT !.waits = @ \ {c.part}] ELSE r : r \in runs}

Arrive(c) ==
  /\ c.part \in Allowed(RoleAtServer(c.by))
  /\ calls' = calls \ {c}
  /\ shown' = [shown EXCEPT ![c.part] = c.by]
  /\ spin' = Stopped(c, TRUE)
  /\ runs' = Heard(c)
  /\ UNCHANGED <<setting, grant, user, role, forms, banner, tail, spent, crossed, failed>>

\* apiFetch, once a call is refused: a 401 that no refresh and retry mends ends the
\* session, and so does a new token that names an employee on the admin's page.
\* What is shown stays.
SessionKeptOrEnded ==
  \/ UNCHANGED <<user, role, crossed>>
  \/ user' = Nobody /\ role' = "none" /\ crossed' = TRUE

\* A quiet load is refused or lost: its part is blank.
FailQuietly(c) ==
  /\ c.part \notin Loud
  /\ calls' = calls \ {c}
  /\ shown' = [shown EXCEPT ![c.part] = Nobody]
  /\ spin' = Stopped(c, FALSE)
  /\ runs' = Heard(c)
  /\ failed' = TRUE
  /\ SessionKeptOrEnded
  /\ UNCHANGED <<setting, grant, forms, banner, tail, spent>>

\* A loud one: its run gives up what it had to load, the message strip says so,
\* and the other loads go on unheard.  An audit still to come is loaded.
FailLoudly(c) ==
  /\ c.part \in Loud
  /\ calls' = calls \ {c}
  /\ spin' = Stopped(c, FALSE)
  /\ runs' = {IF r.no = c.run
              THEN [r EXCEPT !.waits = {}, !.todo = {i \in @ : Plan(r.form)[i] = {"audit"}}]
              ELSE r : r \in runs}
  /\ banner' = IF \E r \in runs : r.no = c.run THEN "error" ELSE banner
  /\ failed' = TRUE
  /\ SessionKeptOrEnded
  /\ UNCHANGED <<setting, grant, shown, forms, tail, spent>>

\* The run is over, and with it the handler that awaited it.  A sign-in ends
\* with its success on the strip, whatever the loads have said there.
EndRun(r) ==
  /\ r.waits = {} /\ r.todo = {}
  /\ runs' = runs \ {r}
  /\ locked' = locked \ {r.form}
  /\ banner' = IF r.form = Login THEN "success" ELSE banner
  /\ UNCHANGED <<setting, grant, user, role, shown, spin, calls, posts, tail, spent, crossed,
                 failed>>
-----------------------------------------------------------------------------
(* Signing in and out *)

Unfinished == calls # {} \/ runs # {} \/ posts # {}
AtRest     == ~Unfinished /\ tail = "idle"

\* loginWith, from the answer of /auth/me on: employees have a page of their
\* own, and whoever is on the wrong one is sent to the other.
SignIn(u) ==
  /\ (grant[u] = "employee") <=> (surface = "employee")
  /\ user = Nobody /\ spent.signIns < MaxSignIns /\ Cardinality(runs) < MaxRuns
  /\ Crossing \/ AtRest
  /\ user' = u /\ role' = grant[u]
  /\ runs' = runs \cup {NewRun(Login)}
  /\ spent' = [spent EXCEPT !.runs = @ + 1, !.signIns = @ + 1]
  /\ banner' = "none"
  /\ crossed' = (crossed \/ ~AtRest) /\ failed' = FALSE
  /\ UNCHANGED <<setting, grant, shown, spin, calls, forms, tail>>

LogOut ==
  /\ user # Nobody /\ tail = "idle"
  /\ Crossing \/ ~Unfinished
  /\ tail' = "posted"
  /\ UNCHANGED <<setting, grant, user, role, page, forms, banner, spent, crossed, failed>>

Blanked(parts) == [p \in watched |-> IF p \in parts THEN Nobody ELSE shown[p]]

\* The logout is answered, or fails: the session ends, and three lists with it.
LogOutAnswered ==
  /\ tail = "posted" /\ tail' = "cleared"
  /\ user' = Nobody /\ role' = "none"
  /\ shown' = Blanked({"notifications", "reservations", "pulse"})
  /\ crossed' = (crossed \/ Unfinished)
  /\ UNCHANGED <<setting, grant, spin, calls, runs, forms, banner, spent, failed>>

\* ... and the rest, when the public pages have been loaded.  Nothing asks
\* whether somebody has signed in meanwhile.
LogOutEnds ==
  /\ tail = "cleared" /\ tail' = "idle"
  /\ shown' = Blanked({"telemetry", "handoff", "intelligence", "netfleet", "pickup",
                       "preferences", "suggested", "users", "audit", "blackouts"})
  /\ banner' = "success"
  /\ UNCHANGED <<setting, grant, user, role, spin, calls, runs, forms, spent, crossed, failed>>
-----------------------------------------------------------------------------
(* The forms *)

Send(f) ==
  /\ OfferedTo(f, role) /\ f \notin locked
  /\ spent.posts < MaxPosts
  /\ locked' = IF f \in LockedForms THEN locked \cup {f} ELSE locked
  /\ posts' = posts \cup {[form |-> f, by |-> user, no |-> spent.posts, fate |-> "posted"]}
  /\ spent' = [spent EXCEPT !.posts = @ + 1]
  /\ UNCHANGED <<setting, grant, user, role, page, banner, tail, crossed, failed>>

\* The server decides.  A handoff makes another user admin and may make an
\* employee of the one who hands over.
Decide(x) ==
  /\ x.fate = "posted"
  /\ \/ /\ OfferedTo(x.form, grant[x.by])
        /\ posts' = (posts \ {x}) \cup {[x EXCEPT !.fate = "accepted"]}
        /\ IF x.form = "handoff"
           THEN \E other \in User \ {x.by}, own \in {"fleet_admin", "employee"} :
                  grant' = [grant EXCEPT ![other] = "fleet_admin", ![x.by] = own]
           ELSE UNCHANGED grant
     \/ /\ posts' = (posts \ {x}) \cup {[x EXCEPT !.fate = "refused"]}
        /\ UNCHANGED grant
  /\ UNCHANGED <<setting, user, role, page, locked, banner, tail, spent, crossed, failed>>

\* Mutant: a handler that returns early on a refusal and leaves its button.
MutantReleased(x) == IF x.fate = "accepted" THEN locked \ {x.form} ELSE locked

\* releaseSubmit, in the finally branch.
Released(x) == locked \ {x.form}

\* The handler says that it succeeded and goes on to refreshData, which begins
\* by hiding the message strip.
Succeed(x) ==
  /\ x.fate = "accepted" /\ Cardinality(runs) < MaxRuns
  /\ posts' = posts \ {x}
  /\ LET r == NewRun(x.form)
     IN  IF After(x.form) = << >>
         THEN /\ banner' = "success" /\ locked' = Released(x)
              /\ UNCHANGED <<runs, spent>>
         ELSE /\ banner' = IF Len(After(x.form)) > 1 THEN "none" ELSE "success"
              /\ runs' = runs \cup {r} /\ spent' = [spent EXCEPT !.runs = @ + 1]
              /\ UNCHANGED locked
  /\ failed' = (failed /\ (Len(After(x.form)) <= 1 \/ posts # {x} \/ calls # {} \/ runs # {}))
  /\ UNCHANGED <<setting, grant, user, role, shown, spin, calls, tail, crossed>>

\* Mutant: the catch branch only logs.
MutantRefused(x) == banner

Refused(x) == "error"

\* Refused, or the answer is lost whatever became of it.
Fail(x) ==
  /\ posts' = posts \ {x}
  /\ banner' = Refused(x)
  /\ locked' = Released(x)
  /\ SessionKeptOrEnded
  /\ UNCHANGED <<setting, grant, page, tail, spent, failed>>

Next ==
  \/ \E r \in runs  : NextLoads(r) \/ EndRun(r)
  \/ \E c \in calls : Arrive(c) \/ FailQuietly(c) \/ FailLoudly(c)
  \/ \E u \in User  : SignIn(u)
  \/ LogOut \/ LogOutAnswered \/ LogOutEnds
  \/ \E f \in Forms : Send(f)
  \/ \E x \in posts : Decide(x) \/ Succeed(x) \/ Fail(x)

Spec == Init /\ [][Next]_vars

\* A request is answered or fails, and a handler that may go on does.  The user
\* owes nothing.
FairSpec ==
  /\ Spec
  /\ WF_vars(\E c \in calls : Arrive(c) \/ FailQuietly(c) \/ FailLoudly(c))
  /\ WF_vars(\E r \in runs : NextLoads(r) \/ EndRun(r))
  /\ WF_vars(\E x \in posts : Decide(x) \/ Succeed(x) \/ Fail(x))
  /\ WF_vars(LogOutAnswered) /\ WF_vars(LogOutEnds)
-----------------------------------------------------------------------------
(* Properties *)

\* A load the server refuses fails the whole refresh or blanks a panel; as long
\* as the page knows the user's role, no load it sends is one the server
\* refuses: the guards of app.js and the dependencies of the routers agree.
RefreshIsAllowed ==
  \A c \in calls :
    (c.by = user /\ user # Nobody /\ role = grant[user]) => c.part \in Allowed(role)

\* At rest, with no load failed and no sign-in or sign-out across unfinished
\* work, the page is the user's: all the role may see is there, and nothing of
\* a role or a user who was there before.
SettledPageIsMine ==
  (AtRest /\ user # Nobody /\ ~failed /\ ~crossed) =>
    \A p \in watched :
      shown[p] \in IF p \in Maybe(role) \cup {"audit"} THEN {user, Nobody}
                  ELSE IF p \in Wanted(role) THEN {user} ELSE {Nobody}

\* A spinner stops, whatever becomes of its loads and of the refresh that sent
\* them.
SpinnersStop == \A p \in Part : (p \in spin) ~> (p \notin spin)

\* A locked button is released: no refusal, lost answer or failed refresh
\* leaves a form dead.
LocksEnd == \A f \in LockedForms : (f \in locked) ~> (f \notin locked)

\* When the last is heard of a form, and the browser paints, a refusal stands
\* on the message strip.
RefusalIsTold ==
  [][\A x \in posts : (x.fate = "refused" /\ ~\E y \in posts' : y.no = x.no)
       => banner' = "error"]_vars

\* The same for every outcome, success too.  A refresh hides it at once.
FeedbackIsSeen ==
  [][\A x \in posts : (~\E y \in posts' : y.no = x.no) => banner' # "none"]_vars

\* SettledPageIsMine without the condition on crossing.
PageIsMine ==
  (AtRest /\ user # Nobody /\ ~failed) =>
    \A p \in watched : p \in Wanted(role) \ (Maybe(role) \cup {"audit"}) => shown[p] = user
=============================================================================
