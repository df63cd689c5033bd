--------------------------- MODULE PageSessionProofs ---------------------------
(***************************************************************************)
(* What holds of one page for any users, roles, forms and bounds: it is    *)
(* well formed, it sends no load its user is not allowed, at rest it shows *)
(* its user's data and nobody else's, and a refused form says so.          *)
(***************************************************************************)
EXTENDS PageSession, SequenceTheorems, FiniteSetTheorems, TLAPS

(* The stages of a run *)

LEMMA RefreshStages ==
  /\ Refresh \in Seq(SUBSET Part) /\ Len(Refresh) = 6 /\ DOMAIN Refresh = 1 .. 6
  /\ \A i \in 1 .. 6 : "audit" \notin Refresh[i]
  /\ \A p \in Part \ {"audit"} : \E i \in 1 .. 6 : p \in Refresh[i]
<1>1. /\ Refresh[1] = {"cars"} /\ Refresh[2] = {"blackouts"}
      /\ Refresh[3] = {"reservations", "pulse", "overview", "intelligence", "netfleet", "readiness",
                       "telemetry", "preferences", "notifications", "users"}
      /\ Refresh[4] = {"pickup"} /\ Refresh[5] = {"suggested"} /\ Refresh[6] = {"handoff"}
      /\ Len(Refresh) = 6 /\ DOMAIN Refresh = 1 .. 6
  BY DEF Refresh
<1>2. /\ {"cars"} \subseteq Part /\ {"blackouts"} \subseteq Part /\ {"pickup"} \subseteq Part
      /\ {"suggested"} \subseteq Part /\ {"handoff"} \subseteq Part
      /\ {"reservations", "pulse", "overview", "intelligence", "netfleet", "readiness",
          "telemetry", "preferences", "notifications", "users"} \subseteq Part
  BY DEF Part, OpenParts, SignedParts, AdminParts, OwnParts, TripParts
<1>3. Refresh \in Seq(SUBSET Part)
  BY <1>2 DEF Refresh
<1>4. \A i \in 1 .. 6 : i = 1 \/ i = 2 \/ i = 3 \/ i = 4 \/ i = 5 \/ i = 6
  OBVIOUS
<1>5. \A i \in 1 .. 6 : "audit" \notin Refresh[i]
  BY <1>1, <1>4
<1>6. \A p \in Part \ {"audit"} :
        p \in Refresh[1] \/ p \in Refresh[2] \/ p \in Refresh[3] \/ p \in Refresh[4]
          \/ p \in Refresh[5] \/ p \in Refresh[6]
  BY <1>1 DEF Part, OpenParts, SignedParts, AdminParts, OwnParts, TripParts
<1>7. 1 \in 1 .. 6 /\ 2 \in 1 .. 6 /\ 3 \in 1 .. 6 /\ 4 \in 1 .. 6 /\ 5 \in 1 .. 6 /\ 6 \in 1 .. 6
  OBVIOUS
<1> QED BY <1>1, <1>3, <1>5, <1>6, <1>7

\* The audit trail of a user is loaded after an admin's form about that user.
AuditForms == {"reset", "role", "contact"}

LEMMA PlanStages ==
  ASSUME NEW f \in Form \cup {Login}
  PROVE  /\ DOMAIN Plan(f) \subseteq Nat
         /\ \A i \in DOMAIN Plan(f) : /\ Plan(f)[i] \subseteq Part
                                      /\ "audit" \in Plan(f)[i] => f \in AuditForms
         /\ ~(Len(Plan(f)) <= 1) \/ f = Login =>
              \A p \in Part \ {"audit"} : \E i \in DOMAIN Plan(f) : p \in Plan(f)[i]
<1> DEFINE audit == <<{"audit"}>>
<1>1. /\ audit \in Seq(SUBSET Part) /\ Len(audit) = 1 /\ audit[1] = {"audit"}
  BY DEF Part, AdminParts
<1> HIDE DEF audit
<1>2. DOMAIN Refresh = 1 .. 6 /\ 1 .. 6 \subseteq Nat /\ \A i \in 1 .. 6 : Refresh[i] \subseteq Part
  <2>1. \A i \in 1 .. Len(Refresh) : Refresh[i] \in SUBSET Part
    BY RefreshStages, ElementOfSeq
  <2> QED BY <2>1, RefreshStages
<1>3. CASE Plan(f) = Refresh
  BY <1>2, <1>3, RefreshStages
<1>4. CASE Plan(f) = << >>
  <2>1. DOMAIN << >> = {} /\ Len(<< >>) = 0
    OBVIOUS
  <2>2. f # Login
    <3>1. Refresh # << >>
      BY RefreshStages, EmptySeq
    <3> QED BY <1>4, <3>1 DEF Plan
  <2> QED BY <1>4, <2>1, <2>2
<1>5. CASE \E s \in SUBSET (Part \ {"audit"}) : Plan(f) = <<s>> /\ f # Login
  <2>1. PICK s \in SUBSET (Part \ {"audit"}) : Plan(f) = <<s>> /\ f # Login
    BY <1>5
  <2>2. DOMAIN <<s>> = {1} /\ <<s>>[1] = s /\ Len(<<s>>) = 1
    OBVIOUS
  <2> QED BY <2>1, <2>2
<1>6. CASE Plan(f) = audit /\ f \in AuditForms /\ f # Login
  <2>1. DOMAIN audit = {1} /\ {"audit"} \subseteq Part
    BY <1>1 DEF audit, Part, AdminParts
  <2>2. Len(audit) <= 1
    BY <1>1
  <2>3. DOMAIN audit \subseteq Nat /\ \A i \in DOMAIN audit : audit[i] \subseteq Part
    BY <1>1, <2>1
  <2>4. Plan(f) = audit /\ f \in AuditForms /\ Len(Plan(f)) <= 1 /\ f # Login
    BY <1>6, <2>2
  <2> QED BY <2>3, <2>4
<1>7. CASE Plan(f) = Refresh \o audit /\ f \in AuditForms
  <2>0. /\ Refresh \in Seq(SUBSET Part) /\ Len(Refresh) = 6 /\ Len(audit) = 1
        /\ audit \in Seq(SUBSET Part)
    BY <1>1, RefreshStages
  <2>4. /\ Refresh \o audit \in Seq(SUBSET Part)
        /\ Len(Refresh \o audit) = Len(Refresh) + Len(audit)
        /\ \A i \in 1 .. Len(Refresh) + Len(audit) : (Refresh \o audit)[i] =
             IF i <= Len(Refresh) THEN Refresh[i] ELSE audit[i - Len(Refresh)]
    BY <2>0, ConcatProperties
  <2>1. /\ Refresh \o audit \in Seq(SUBSET Part) /\ Len(Refresh \o audit) = 7
        /\ \A i \in 1 .. 6 : (Refresh \o audit)[i] = Refresh[i]
    BY <2>0, <2>4
  <2>2. DOMAIN (Refresh \o audit) = 1 .. 7 /\ 1 .. 7 \subseteq Nat /\ 1 .. 6 \subseteq 1 .. 7
    BY <2>1, LenProperties
  <2>3. \A i \in 1 .. 7 : (Refresh \o audit)[i] \subseteq Part
    BY <2>1, <2>2, ElementOfSeq
  <2> QED BY <1>7, <2>1, <2>2, <2>3, RefreshStages
<1>8. \/ Plan(f) = Refresh \/ Plan(f) = << >>
      \/ \E s \in SUBSET (Part \ {"audit"}) : Plan(f) = <<s>> /\ f # Login
      \/ Plan(f) = audit /\ f \in AuditForms /\ f # Login
      \/ Plan(f) = Refresh \o audit /\ f \in AuditForms
  <2>1. {"telemetry"} \subseteq Part \ {"audit"} /\ {"notifications"} \subseteq Part \ {"audit"}
    BY DEF Part, AdminParts, SignedParts
  <2>2. f # Login => Plan(f) = After(f)
    BY DEF Plan
  <2>3. f = Login => Plan(f) = Refresh
    BY DEF Plan
  <2>4. \/ After(f) = << >> \/ After(f) = <<{"telemetry"}>> \/ After(f) = <<{"notifications"}>>
        \/ After(f) = audit /\ f \in AuditForms
        \/ After(f) = Refresh \o audit /\ f \in AuditForms
        \/ After(f) = Refresh
    BY DEF After, AuditForms, audit
  <2> QED BY <2>1, <2>2, <2>3, <2>4
<1> QED BY <1>3, <1>4, <1>5, <1>6, <1>7, <1>8
-----------------------------------------------------------------------------
(* Types *)

LEMMA RoleNames == "none" \notin Role /\ \A r \in Role : r # "none"
BY DEF Role, Office

LEMMA InitTyped == Init => TypeOK
<1> SUFFICES ASSUME Init PROVE TypeOK
  OBVIOUS
<1>1. shown \in [watched -> User \cup {Nobody}]
  BY DEF Init
<1>2. spent \in [signIns : 0 .. MaxSignIns, posts : 0 .. MaxPosts, runs : Nat]
  BY BoundAssumption DEF Init
<1> QED BY <1>1, <1>2, UserAssumption DEF Init, TypeOK

\* The types as the step proofs use them.
LEMMA Types ==
  ASSUME TypeOK
  PROVE  /\ watched \subseteq Part
         /\ DOMAIN shown = watched
         /\ \A r \in runs : r \in Run /\ r.form \in Form \cup {Login} /\ r.todo \subseteq Nat
         /\ \A c \in calls : c \in Call /\ c.part \in Part
         /\ \A x \in posts : x \in Post /\ x.form \in Form /\ x.by \in User
BY WatchedAssumption DEF TypeOK, Run, Call, Post

LEMMA NewRunTyped ==
  ASSUME TypeOK, NEW f \in Form \cup {Login}
  PROVE  NewRun(f) \in Run /\ NewRun(f).form = f /\ NewRun(f).waits = {}
<1>1. spent.runs + 1 \in Nat
  BY DEF TypeOK
<1>2. {i \in DOMAIN Plan(f) : Plan(f)[i] \cap watched # {}} \subseteq Nat
  BY PlanStages
<1> QED BY <1>1, <1>2 DEF NewRun, Run

LEMMA HeardTyped ==
  ASSUME TypeOK, NEW c \in calls
  PROVE  /\ Heard(c) \subseteq Run
         /\ \A s \in Heard(c) : \E r \in runs :
              /\ s.no = r.no /\ s.form = r.form /\ s.todo = r.todo /\ s.waits \subseteq r.waits
              /\ s.no = c.run => c.part \notin s.waits
         /\ \A r \in runs : \E s \in Heard(c) :
              s.form = r.form /\ s.todo = r.todo
<1> DEFINE Less(r) == [r EXCEPT !.waits = @ \ {c.part}]
<1>1. \A r \in Run : /\ Less(r) \in Run /\ Less(r).no = r.no /\ Less(r).form = r.form
                     /\ Less(r).todo = r.todo /\ Less(r).waits = r.waits \ {c.part}
  BY DEF Run
<1>2. Heard(c) = {IF r.no = c.run THEN Less(r) ELSE r : r \in runs} /\ runs \subseteq Run
  BY Types DEF Heard
<1> HIDE DEF Less
<1> QED BY <1>1, <1>2

Quitted(r) == [r EXCEPT !.waits = {}, !.todo = {i \in @ : Plan(r.form)[i] = {"audit"}}]

LEMMA QuittedTyped ==
  ASSUME NEW r \in Run
  PROVE  /\ Quitted(r) \in Run /\ Quitted(r).no = r.no /\ Quitted(r).form = r.form
         /\ Quitted(r).waits = {} /\ Quitted(r).todo \subseteq r.todo
BY DEF Run, Quitted

\* The requests, the runs that wait for them and the spinners they turn.
PageTyped ==
  /\ shown \in [watched -> User \cup {Nobody}]
  /\ spin \subseteq watched
  /\ calls \subseteq Call /\ runs \subseteq Run
  /\ \A p \in spin : \E c \in calls : c.part = p
  /\ \A r \in runs, p \in Part : p \in r.waits =>
       \E c \in calls : c.part = p /\ c.run = r.no

\* The forms, the buttons they lock and whoever is signed in.
FormsTyped ==
  /\ grant \in [User -> Role]
  /\ user \in User \cup {Nobody} /\ role \in Role \cup {"none"}
  /\ (user = Nobody) <=> (role = "none")
  /\ posts \subseteq Post
  /\ \A f \in locked : f \in LockedForms /\ \E x \in posts \cup runs : x.form = f
  /\ banner \in {"none", "success", "error"}
  /\ tail \in {"idle", "posted", "cleared"}
  /\ spent \in [signIns : 0 .. MaxSignIns, posts : 0 .. MaxPosts, runs : Nat]
  /\ crossed \in BOOLEAN /\ failed \in BOOLEAN

SettingTyped == surface \in Surface /\ watched \in Watched

LEMMA NextLoadsTyped ==
  ASSUME TypeOK, NEW r \in runs, NextLoads(r) PROVE TypeOK'
<1>1. PICK i \in r.todo : \E skipped \in SUBSET (Maybe(role) \cap (Plan(r.form)[i] \cap watched)) :
        LET now   == Plan(r.form)[i] \cap watched
            asked == (now \cap (Wanted(role) \cup Maybe(role))) \ skipped
        IN  /\ calls' = calls \cup {[part |-> p, by |-> user, run |-> r.no] : p \in asked}
            /\ spin' = spin \cup asked
            /\ shown' = [p \in watched |-> IF p \in now \ asked THEN Nobody ELSE shown[p]]
            /\ runs' = (runs \ {r}) \cup {[r EXCEPT !.todo = @ \ {i}, !.waits = asked]}
  BY DEF NextLoads
<1> DEFINE now   == Plan(r.form)[i] \cap watched
<1>0. PICK skipped \in SUBSET (Maybe(role) \cap now) :
        LET asked == (now \cap (Wanted(role) \cup Maybe(role))) \ skipped
        IN  /\ calls' = calls \cup {[part |-> p, by |-> user, run |-> r.no] : p \in asked}
            /\ spin' = spin \cup asked
            /\ shown' = [p \in watched |-> IF p \in now \ asked THEN Nobody ELSE shown[p]]
            /\ runs' = (runs \ {r}) \cup {[r EXCEPT !.todo = @ \ {i}, !.waits = asked]}
  BY <1>1
<1> DEFINE asked == (now \cap (Wanted(role) \cup Maybe(role))) \ skipped
           new   == {[part |-> p, by |-> user, run |-> r.no] : p \in asked}
           next  == [r EXCEPT !.todo = @ \ {i}, !.waits = asked]
<1>2. /\ r \in Run /\ asked \subseteq watched /\ watched \subseteq Part
      /\ user \in User \cup {Nobody} /\ r.no \in Nat
  BY Types DEF TypeOK, Run
<1>3. new \subseteq Call
  BY <1>2 DEF Call
<1>4. next \in Run /\ next.no = r.no /\ next.form = r.form /\ next.waits = asked
  BY <1>2 DEF Run
<1>5. \A p \in asked : \E c \in new : c.part = p /\ c.run = r.no
  <2> SUFFICES ASSUME NEW p \in asked
               PROVE  [part |-> p, by |-> user, run |-> r.no] \in new
    OBVIOUS
  <2> QED OBVIOUS
<1>6. /\ calls' = calls \cup new /\ spin' = spin \cup asked /\ runs' = (runs \ {r}) \cup {next}
      /\ shown' = [p \in watched |-> IF p \in now \ asked THEN Nobody ELSE shown[p]]
  BY <1>0
<1>7. UNCHANGED <<setting, grant, user, role, forms, banner, tail, spent, crossed, failed>>
  BY DEF NextLoads
<1> HIDE DEF now, asked, new, next
<1>8. PageTyped'
  <2>1. shown' \in [watched' -> User \cup {Nobody}]
    BY <1>6, <1>7 DEF TypeOK, setting
  <2>2. spin' \subseteq watched' /\ calls' \subseteq Call /\ runs' \subseteq Run
    BY <1>2, <1>3, <1>4, <1>6, <1>7 DEF TypeOK, setting
  <2>3. \A p \in spin' : \E c \in calls' : c.part = p
    BY <1>5, <1>6 DEF TypeOK
  <2>4. \A s \in runs', p \in Part : p \in s.waits => \E c \in calls' : c.part = p /\ c.run = s.no
    BY <1>4, <1>5, <1>6 DEF TypeOK
  <2> QED BY <2>1, <2>2, <2>3, <2>4 DEF PageTyped
<1>9. \A f \in locked' : f \in LockedForms /\ \E x \in posts' \cup runs' : x.form = f
  BY <1>4, <1>6, <1>7 DEF TypeOK, forms
<1> QED BY <1>7, <1>8, <1>9
    DEF TypeOK, SettingTyped, PageTyped, FormsTyped, forms, setting

\* The session a refused call leaves is one, or none.
LEMMA SessionTyped ==
  ASSUME TypeOK, SessionKeptOrEnded
  PROVE  /\ user' \in User \cup {Nobody} /\ role' \in Role \cup {"none"}
         /\ (user' = Nobody) <=> (role' = "none")
         /\ crossed' \in BOOLEAN
BY DEF SessionKeptOrEnded, TypeOK

\* Whether an answer arrives or a quiet load fails, a part is drawn and the run
\* waits for one load less.
LEMMA AnswerTyped ==
  ASSUME TypeOK, NEW c \in calls, Arrive(c) \/ FailQuietly(c) PROVE TypeOK'
<1>1. /\ calls' = calls \ {c} /\ spin' = spin \ {c.part} /\ runs' = Heard(c)
      /\ shown' = [shown EXCEPT ![c.part] = c.by] \/ shown' = [shown EXCEPT ![c.part] = Nobody]
      /\ UNCHANGED <<setting, grant, forms, banner, tail, spent>>
      /\ failed' \in BOOLEAN
      /\ SessionKeptOrEnded
  BY DEF Arrive, FailQuietly, Stopped, TypeOK, SessionKeptOrEnded
<1>2. c.by \in User \cup {Nobody} /\ calls \subseteq Call
  BY DEF TypeOK, Call
<1>3. /\ Heard(c) \subseteq Run
      /\ \A s \in Heard(c) : \E r \in runs :
           /\ s.no = r.no /\ s.form = r.form /\ s.todo = r.todo /\ s.waits \subseteq r.waits
           /\ s.no = c.run => c.part \notin s.waits
      /\ \A r \in runs : \E s \in Heard(c) : s.form = r.form /\ s.todo = r.todo
  BY HeardTyped
<1>4. shown' \in [watched -> User \cup {Nobody}]
  BY <1>1, <1>2 DEF TypeOK
<1>5. \A s \in runs', p \in Part : p \in s.waits => \E d \in calls' : d.part = p /\ d.run = s.no
  BY <1>1, <1>3 DEF TypeOK
<1>6. \A f \in locked' : f \in LockedForms /\ \E x \in posts' \cup runs' : x.form = f
  BY <1>1, <1>3 DEF TypeOK, forms
<1>7. PageTyped'
  BY <1>1, <1>2, <1>3, <1>4, <1>5 DEF TypeOK, PageTyped, setting
<1> QED BY <1>1, <1>6, <1>7, SessionTyped
    DEF TypeOK, SettingTyped, PageTyped, FormsTyped, forms, setting

LEMMA FailLoudlyTyped ==
  ASSUME TypeOK, NEW c \in calls, FailLoudly(c) PROVE TypeOK'
<1>1. /\ calls' = calls \ {c} /\ spin' = spin \ {c.part}
      /\ runs' = {IF r.no = c.run THEN Quitted(r) ELSE r : r \in runs}
      /\ banner' \in {"error", banner} /\ failed' = TRUE
      /\ SessionKeptOrEnded
      /\ UNCHANGED <<setting, grant, shown, forms, tail, spent>>
  BY DEF FailLoudly, Stopped, Quitted
<1>2. \A r \in runs : /\ Quitted(r) \in Run /\ Quitted(r).no = r.no /\ Quitted(r).form = r.form
                      /\ Quitted(r).waits = {}
  BY Types, QuittedTyped
<1>3. \A s \in runs' : \E r \in runs :
        /\ s \in Run /\ s.no = r.no /\ s.form = r.form /\ s.waits \subseteq r.waits
        /\ s.no = c.run => s.waits = {}
  BY <1>1, <1>2, Types
<1>4. \A r \in runs : \E s \in runs' : s.form = r.form
  BY <1>1, <1>2
<1>5. \A s \in runs', p \in Part : p \in s.waits => \E d \in calls' : d.part = p /\ d.run = s.no
  BY <1>1, <1>3 DEF TypeOK
<1>6. \A f \in locked' : f \in LockedForms /\ \E x \in posts' \cup runs' : x.form = f
  BY <1>1, <1>4 DEF TypeOK, forms
<1>7. PageTyped'
  BY <1>1, <1>3, <1>5 DEF TypeOK, PageTyped, setting
<1> QED BY <1>1, <1>6, <1>7, SessionTyped
    DEF TypeOK, SettingTyped, PageTyped, FormsTyped, forms, setting

LEMMA EndRunTyped ==
  ASSUME TypeOK, NEW r \in runs, EndRun(r) PROVE TypeOK'
<1>1. /\ runs' = runs \ {r} /\ locked' = locked \ {r.form} /\ banner' \in {"success", banner}
      /\ UNCHANGED <<setting, grant, user, role, shown, spin, calls, posts, tail, spent, crossed,
                     failed>>
  BY DEF EndRun
<1>2. PageTyped'
  BY <1>1 DEF TypeOK, PageTyped, setting
<1>3. \A f \in locked' : f \in LockedForms /\ \E x \in posts' \cup runs' : x.form = f
  BY <1>1 DEF TypeOK
<1> QED BY <1>1, <1>2, <1>3
    DEF TypeOK, SettingTyped, PageTyped, FormsTyped, setting

\* One more run leaves the others and the requests as they are.
LEMMA MoreRunsTyped ==
  ASSUME TypeOK, NEW f \in Form \cup {Login}, runs' = runs \cup {NewRun(f)},
         UNCHANGED <<setting, shown, spin, calls>>
  PROVE  SettingTyped' /\ PageTyped'
BY NewRunTyped DEF TypeOK, SettingTyped, PageTyped, setting

LEMMA SignInTyped ==
  ASSUME TypeOK, NEW u \in User, SignIn(u) PROVE TypeOK'
<1>1. SettingTyped' /\ PageTyped'
  BY MoreRunsTyped DEF SignIn
<1>2. grant[u] \in Role /\ u # Nobody /\ grant[u] # "none"
  BY UserAssumption, RoleNames DEF TypeOK
<1>3. spent' \in [signIns : 0 .. MaxSignIns, posts : 0 .. MaxPosts, runs : Nat]
  <2>1. spent.signIns + 1 \in 0 .. MaxSignIns /\ spent.runs + 1 \in Nat
    BY BoundAssumption DEF SignIn, TypeOK
  <2> QED BY <2>1 DEF SignIn, TypeOK
<1>4. FormsTyped'
  BY <1>2, <1>3 DEF SignIn, TypeOK, FormsTyped, AtRest, Unfinished, forms
<1> QED BY <1>1, <1>4
    DEF TypeOK, SettingTyped, PageTyped, FormsTyped

LEMMA LogOutTyped ==
  ASSUME TypeOK, LogOut \/ LogOutAnswered \/ LogOutEnds PROVE TypeOK'
<1>1. shown' \in [watched -> User \cup {Nobody}]
  BY DEF LogOut, LogOutAnswered, LogOutEnds, TypeOK, Blanked, page
<1>2. PageTyped' /\ SettingTyped'
  BY <1>1 DEF LogOut, LogOutAnswered, LogOutEnds, TypeOK, PageTyped, SettingTyped, page, setting
<1>3. FormsTyped'
  BY DEF LogOut, LogOutAnswered, LogOutEnds, TypeOK, FormsTyped, page, forms, Unfinished
<1> QED BY <1>2, <1>3
    DEF TypeOK, SettingTyped, PageTyped, FormsTyped

LEMMA OfferedToSomebody == ASSUME NEW f, OfferedTo(f, "none") PROVE FALSE
BY RoleNames DEF OfferedTo, Admins

LEMMA SendTyped ==
  ASSUME TypeOK, NEW f \in Forms, Send(f) PROVE TypeOK'
<1> DEFINE x == [form |-> f, by |-> user, no |-> spent.posts, fate |-> "posted"]
<1>1. user \in User
  BY OfferedToSomebody DEF Send, TypeOK
<1>2. f \in Form /\ spent.posts \in Nat
  BY FormsAssumption DEF TypeOK
<1>3. x \in Post /\ x.form = f
  BY <1>1, <1>2 DEF Post
<1>4. /\ posts' = posts \cup {x}
      /\ locked' = locked \/ (locked' = locked \cup {f} /\ f \in LockedForms)
  BY DEF Send
<1> HIDE DEF x
<1>5. spent' \in [signIns : 0 .. MaxSignIns, posts : 0 .. MaxPosts, runs : Nat]
  <2>1. spent.posts + 1 \in 0 .. MaxPosts
    BY BoundAssumption DEF Send, TypeOK
  <2> QED BY <2>1 DEF Send, TypeOK
<1>6. \A g \in locked' : g \in LockedForms /\ \E y \in posts' \cup runs' : y.form = g
  BY <1>3, <1>4 DEF Send, TypeOK, page
<1>7. FormsTyped'
  BY <1>3, <1>4, <1>5, <1>6 DEF Send, TypeOK, FormsTyped
<1> QED BY <1>7
    DEF TypeOK, SettingTyped, PageTyped, FormsTyped, Send, page, setting

\* A post that is decided stays the same post.
LEMMA FateTyped ==
  ASSUME NEW x \in Post, NEW fate \in {"posted", "accepted", "refused"}
  PROVE  /\ [x EXCEPT !.fate = fate] \in Post
         /\ [x EXCEPT !.fate = fate].form = x.form /\ [x EXCEPT !.fate = fate].no = x.no
         /\ [x EXCEPT !.fate = fate].fate = fate /\ [x EXCEPT !.fate = fate].by = x.by
BY DEF Post

LEMMA DecideTyped ==
  ASSUME TypeOK, NEW x \in posts, Decide(x) PROVE TypeOK'
<1>1. PICK fate \in {"accepted", "refused"} : posts' = (posts \ {x}) \cup {[x EXCEPT !.fate = fate]}
  BY DEF Decide
<1>2. x \in Post /\ x.by \in User
  BY Types
<1>3. [x EXCEPT !.fate = fate] \in Post /\ [x EXCEPT !.fate = fate].form = x.form
  BY <1>2, FateTyped
<1>4. grant' \in [User -> Role]
  <2>1. "fleet_admin" \in Role /\ "employee" \in Role
    BY DEF Role, Office
  <2>2. \/ UNCHANGED grant
        \/ \E other \in User, own \in {"fleet_admin", "employee"} :
             grant' = [grant EXCEPT ![other] = "fleet_admin", ![x.by] = own]
    BY DEF Decide
  <2> QED BY <1>2, <2>1, <2>2 DEF TypeOK
<1>5. \A f \in locked' : f \in LockedForms /\ \E y \in posts' \cup runs' : y.form = f
  BY <1>1, <1>3 DEF Decide, TypeOK, page
<1>6. FormsTyped'
  BY <1>1, <1>3, <1>4, <1>5 DEF Decide, TypeOK, FormsTyped
<1> QED BY <1>6
    DEF TypeOK, SettingTyped, PageTyped, FormsTyped, Decide, page, setting

LEMMA SucceedTyped ==
  ASSUME TypeOK, NEW x \in posts, Succeed(x) PROVE TypeOK'
<1>1. x.form \in Form \cup {Login}
  BY Types
<1>2. /\ posts' = posts \ {x}
      /\ banner' \in {"none", "success"} /\ failed' \in BOOLEAN
      /\ UNCHANGED <<setting, grant, user, role, shown, spin, calls, tail, crossed>>
  BY DEF Succeed
<1>3. CASE UNCHANGED <<runs, spent>> /\ locked' = locked \ {x.form}
  <2>1. FormsTyped'
    BY <1>2, <1>3 DEF TypeOK, FormsTyped
  <2> QED BY <1>2, <1>3, <2>1
    DEF TypeOK, SettingTyped, PageTyped, FormsTyped, setting
<1>4. CASE /\ runs' = runs \cup {NewRun(x.form)} /\ UNCHANGED locked
           /\ spent' = [spent EXCEPT !.runs = @ + 1]
  <2>1. SettingTyped' /\ PageTyped'
    BY <1>1, <1>2, <1>4, MoreRunsTyped
  <2>2. \A f \in locked' : f \in LockedForms /\ \E y \in posts' \cup runs' : y.form = f
    BY <1>1, <1>2, <1>4, NewRunTyped DEF TypeOK
  <2>3. spent' \in [signIns : 0 .. MaxSignIns, posts : 0 .. MaxPosts, runs : Nat]
    BY <1>4 DEF TypeOK
  <2>4. FormsTyped'
    BY <1>2, <2>2, <2>3 DEF TypeOK, FormsTyped
  <2> QED BY <2>1, <2>4
    DEF TypeOK, SettingTyped, PageTyped, FormsTyped
<1> QED BY <1>3, <1>4 DEF Succeed, Released

LEMMA FailTyped ==
  ASSUME TypeOK, NEW x \in posts, Fail(x) PROVE TypeOK'
<1>1. /\ posts' = posts \ {x} /\ locked' = locked \ {x.form} /\ banner' = "error"
      /\ SessionKeptOrEnded
      /\ UNCHANGED <<setting, grant, page, tail, spent, failed>>
  BY DEF Fail, Released, Refused
<1>2. FormsTyped'
  BY <1>1, SessionTyped DEF TypeOK, FormsTyped, page
<1> QED BY <1>1, <1>2, SessionTyped
    DEF TypeOK, SettingTyped, PageTyped, FormsTyped, page, setting

LEMMA TypeStep == TypeOK /\ [Next]_vars => TypeOK'
<1> SUFFICES ASSUME TypeOK, [Next]_vars PROVE TypeOK'
  OBVIOUS
<1>1. CASE UNCHANGED vars
  BY <1>1 DEF vars, setting, page, forms, TypeOK
<1> QED
  BY <1>1, NextLoadsTyped, EndRunTyped, AnswerTyped, FailLoudlyTyped, SignInTyped, LogOutTyped,
     SendTyped, DecideTyped, SucceedTyped, FailTyped
  DEF Next

LEMMA TypeHolds == Spec => []TypeOK
BY InitTyped, TypeStep, PTL DEF Spec

\* No spinner turns without a load, no refresh waits for a load that is not out,
\* and no button is locked without a form or a refresh that will release it.
THEOREM TypeCorrect == Spec => []TypeOK
BY TypeHolds
-----------------------------------------------------------------------------
(* Refusals *)

\* The steps that leave the posts as they are.
LEMMA PostsStay ==
  ASSUME [Next]_vars
  PROVE  \/ UNCHANGED posts
         \/ \E f \in Forms : Send(f)
         \/ \E x \in posts : Decide(x) \/ Succeed(x) \/ Fail(x)
<1>1. CASE UNCHANGED vars
  BY <1>1 DEF vars, forms
<1> QED
  BY <1>1 DEF Next, NextLoads, EndRun, Arrive, FailQuietly, FailLoudly, SignIn, LogOut,
              LogOutAnswered, LogOutEnds, forms

LEMMA RefusalStep ==
  ASSUME TypeOK, [Next]_vars,
         NEW x \in posts, x.fate = "refused", ~\E y \in posts' : y.no = x.no
  PROVE  banner' = "error"
<1>1. x \notin posts'
  OBVIOUS
<1>2. ~\E f \in Forms : Send(f)
  BY <1>1 DEF Send
<1>3. ASSUME NEW z \in posts, Decide(z) PROVE FALSE
  BY <1>1, <1>3 DEF Decide
<1>4. ASSUME NEW z \in posts, Succeed(z) PROVE FALSE
  BY <1>1, <1>4 DEF Succeed
<1>5. ASSUME NEW z \in posts, Fail(z) PROVE banner' = "error"
  BY <1>5 DEF Fail, Refused
<1> QED BY <1>1, <1>2, <1>3, <1>4, <1>5, PostsStay

\* A form never disappears in silence once the server has refused it: whatever
\* happens meanwhile, the step that ends its handler writes on the strip.
THEOREM RefusalsAreTold == Spec => RefusalIsTold
<1>1. TypeOK /\ [Next]_vars =>
        [\A x \in posts : (x.fate = "refused" /\ ~\E y \in posts' : y.no = x.no)
           => banner' = "error"]_vars
  BY RefusalStep
<1> QED BY <1>1, TypeHolds, PTL DEF Spec, RefusalIsTold
-----------------------------------------------------------------------------
(* What the loads and the runs may be *)

\* What a run sends next, without the spinners.
LEMMA LoadsSent ==
  ASSUME TypeOK, NEW r \in runs, NextLoads(r)
  PROVE  \E i \in r.todo, asked \in SUBSET watched :
           /\ asked \subseteq Plan(r.form)[i] \cap (Wanted(role) \cup Maybe(role))
           /\ \A p \in (Plan(r.form)[i] \cap watched) \ asked :
                p \in Maybe(role) \/ p \notin Wanted(role) \cup Maybe(role)
           /\ calls' = calls \cup {[part |-> p, by |-> user, run |-> r.no] : p \in asked}
           /\ shown' = [p \in watched |->
                          IF p \in (Plan(r.form)[i] \cap watched) \ asked THEN Nobody ELSE shown[p]]
           /\ \E next \in Run : /\ runs' = (runs \ {r}) \cup {next}
                                /\ next.form = r.form /\ next.todo = r.todo \ {i}
<1>1. PICK i \in r.todo : \E skipped \in SUBSET (Maybe(role) \cap (Plan(r.form)[i] \cap watched)) :
        LET now   == Plan(r.form)[i] \cap watched
            asked == (now \cap (Wanted(role) \cup Maybe(role))) \ skipped
        IN  /\ calls' = calls \cup {[part |-> p, by |-> user, run |-> r.no] : p \in asked}
            /\ shown' = [p \in watched |-> IF p \in now \ asked THEN Nobody ELSE shown[p]]
            /\ runs' = (runs \ {r}) \cup {[r EXCEPT !.todo = @ \ {i}, !.waits = asked]}
  BY DEF NextLoads
<1> DEFINE now == Plan(r.form)[i] \cap watched
<1>2. PICK skipped \in SUBSET (Maybe(role) \cap now) :
        LET asked == (now \cap (Wanted(role) \cup Maybe(role))) \ skipped
        IN  /\ calls' = calls \cup {[part |-> p, by |-> user, run |-> r.no] : p \in asked}
            /\ shown' = [p \in watched |-> IF p \in now \ asked THEN Nobody ELSE shown[p]]
            /\ runs' = (runs \ {r}) \cup {[r EXCEPT !.todo = @ \ {i}, !.waits = asked]}
  BY <1>1
<1> DEFINE asked == (now \cap (Wanted(role) \cup Maybe(role))) \ skipped
           next  == [r EXCEPT !.todo = @ \ {i}, !.waits = asked]
<1>3. r \in Run /\ watched \subseteq Part
  BY Types
<1>4. next \in Run /\ next.form = r.form /\ next.todo = r.todo \ {i}
  BY <1>3 DEF Run
<1>5. /\ calls' = calls \cup {[part |-> p, by |-> user, run |-> r.no] : p \in asked}
      /\ shown' = [p \in watched |-> IF p \in now \ asked THEN Nobody ELSE shown[p]]
      /\ runs' = (runs \ {r}) \cup {next}
  BY <1>2
<1>6. /\ asked \in SUBSET watched
      /\ asked \subseteq Plan(r.form)[i] \cap (Wanted(role) \cup Maybe(role))
      /\ \A p \in now \ asked : p \in Maybe(role) \/ p \notin Wanted(role) \cup Maybe(role)
  OBVIOUS
<1> HIDE DEF asked, next
<1> QED BY <1>4, <1>5, <1>6

\* An answer, a refusal or a loss leaves nothing more to do than there was.
LEMMA LoadHeard ==
  ASSUME TypeOK, NEW c \in calls, Arrive(c) \/ FailQuietly(c) \/ FailLoudly(c)
  PROVE  /\ calls' = calls \ {c}
         /\ \A s \in runs' : \E r \in runs : s.form = r.form /\ s.todo \subseteq r.todo
         /\ SessionKeptOrEnded
         /\ UNCHANGED <<surface, watched, posts, tail>>
<1>1. \A r \in runs : Quitted(r).form = r.form /\ Quitted(r).todo \subseteq r.todo
  BY Types, QuittedTyped
<1>2. FailLoudly(c) => runs' = {IF r.no = c.run THEN Quitted(r) ELSE r : r \in runs}
  BY DEF FailLoudly, Quitted
<1>3. \A s \in Heard(c) : \E r \in runs : s.form = r.form /\ s.todo \subseteq r.todo
  BY HeardTyped
<1>4. FailLoudly(c) => \A s \in runs' : \E r \in runs : s.form = r.form /\ s.todo \subseteq r.todo
  BY <1>1, <1>2
<1> QED BY <1>3, <1>4 DEF Arrive, FailQuietly, FailLoudly, SessionKeptOrEnded, setting, forms

LEMMA NewRunPlan ==
  ASSUME TypeOK, NEW f \in Form \cup {Login}
  PROVE  /\ NewRun(f).form = f /\ NewRun(f).todo \subseteq DOMAIN Plan(f)
         /\ \A i \in DOMAIN Plan(f), p \in watched : p \in Plan(f)[i] => i \in NewRun(f).todo
BY DEF NewRun

\* Somebody is signed in and no sign-in or sign-out has crossed unfinished work,
\* or none can.
Untroubled == user # Nobody /\ ~(Crossing /\ crossed)

\* While somebody is signed in, the loads in flight are those of the role and
\* the admins' forms are an admin's.
Lawful ==
  /\ \A r \in runs : r.todo \subseteq DOMAIN Plan(r.form)
  /\ Untroubled =>
       /\ \A c \in calls : /\ c.part \in Wanted(role) \cup Maybe(role)
                           /\ c.part = "audit" => role \in Admins
       /\ \A x \in runs \cup posts : x.form \in AuditForms => role \in Admins

LEMMA LawfulLoads ==
  ASSUME TypeOK, Lawful, NEW r \in runs, NextLoads(r) PROVE Lawful'
<1>1. UNCHANGED <<user, role, crossed, posts>>
  BY DEF NextLoads, forms
<1>2. PICK i \in r.todo, asked \in SUBSET watched :
        /\ asked \subseteq Plan(r.form)[i] \cap (Wanted(role) \cup Maybe(role))
        /\ calls' = calls \cup {[part |-> p, by |-> user, run |-> r.no] : p \in asked}
        /\ \E next \in Run : /\ runs' = (runs \ {r}) \cup {next}
                             /\ next.form = r.form /\ next.todo = r.todo \ {i}
  BY LoadsSent
<1>3. i \in DOMAIN Plan(r.form) /\ r.form \in Form \cup {Login}
  BY Types DEF Lawful
<1>4. "audit" \in asked => r.form \in AuditForms
  BY <1>2, <1>3, PlanStages
<1>5. \A s \in runs' : \E q \in runs : s.form = q.form /\ s.todo \subseteq q.todo
  BY <1>2
<1>6. ASSUME Untroubled', NEW c \in calls'
      PROVE  c.part \in Wanted(role) \cup Maybe(role) /\ (c.part = "audit" => role \in Admins)
  <2>1. Untroubled
    BY <1>1, <1>6 DEF Untroubled
  <2>2. CASE c \in calls
    BY <2>1, <2>2 DEF Lawful
  <2>3. CASE \E p \in asked : c.part = p
    BY <1>2, <1>4, <2>1, <2>3 DEF Lawful
  <2> QED BY <1>2, <1>6, <2>2, <2>3
<1> QED BY <1>1, <1>5, <1>6 DEF Lawful, Untroubled

LEMMA LawfulSignIn ==
  ASSUME TypeOK, Lawful, NEW u \in User, SignIn(u) PROVE Lawful'
<1>1. Login \in Form \cup {Login} /\ Login \notin AuditForms
  BY DEF Login, AuditForms
<1>2. runs' = runs \cup {NewRun(Login)} /\ UNCHANGED <<calls, posts>>
  BY DEF SignIn, forms
<1>3. \A r \in runs' : r.todo \subseteq DOMAIN Plan(r.form)
  BY <1>1, <1>2, NewRunPlan DEF Lawful
<1>4. Untroubled' => calls = {} /\ posts = {} /\ runs = {}
  BY DEF SignIn, Untroubled, AtRest, Unfinished
<1>5. NewRun(Login).form = Login
  BY <1>1, NewRunPlan
<1> QED BY <1>1, <1>2, <1>3, <1>4, <1>5 DEF Lawful

LEMMA LawfulSucceed ==
  ASSUME TypeOK, Lawful, NEW x \in posts, Succeed(x) PROVE Lawful'
<1>1. x.form \in Form \cup {Login}
  BY Types
<1>2. /\ posts' = posts \ {x} /\ UNCHANGED <<user, role, crossed, calls>>
      /\ runs' = runs \/ runs' = runs \cup {NewRun(x.form)}
  BY DEF Succeed
<1>3. NewRun(x.form).form = x.form /\ NewRun(x.form).todo \subseteq DOMAIN Plan(x.form)
  BY <1>1, NewRunPlan
<1> QED BY <1>2, <1>3 DEF Lawful, Untroubled

LEMMA LawfulStep == TypeOK /\ Lawful /\ [Next]_vars => Lawful'
<1> SUFFICES ASSUME TypeOK, Lawful, [Next]_vars PROVE Lawful'
  OBVIOUS
<1>1. CASE UNCHANGED vars
  BY <1>1 DEF vars, page, forms, Lawful, Untroubled
<1>2. ASSUME NEW r \in runs, EndRun(r) PROVE Lawful'
  BY <1>2 DEF EndRun, Lawful, Untroubled
<1>3. ASSUME NEW c \in calls, Arrive(c) \/ FailQuietly(c) \/ FailLoudly(c) PROVE Lawful'
  BY <1>3, LoadHeard DEF Lawful, Untroubled, SessionKeptOrEnded
<1>4. CASE LogOut \/ LogOutEnds
  BY <1>4 DEF LogOut, LogOutEnds, page, forms, Lawful, Untroubled
<1>5. CASE LogOutAnswered
  BY <1>5 DEF LogOutAnswered, Lawful, Untroubled
<1>6. ASSUME NEW f \in Forms, Send(f) PROVE Lawful'
  <2>1. f \in AuditForms => role \in Admins
    BY <1>6 DEF Send, OfferedTo, AuditForms
  <2>2. \A x \in posts' : x \in posts \/ x.form = f
    BY <1>6 DEF Send
  <2> QED BY <1>6, <2>1, <2>2 DEF Send, page, Lawful, Untroubled
<1>7. ASSUME NEW x \in posts, Decide(x) PROVE Lawful'
  <2>1. \A fate \in {"accepted", "refused"} : [x EXCEPT !.fate = fate].form = x.form
    BY Types, FateTyped
  <2>2. \A y \in posts' : \E z \in posts : y.form = z.form
    BY <1>7, <2>1 DEF Decide
  <2> QED BY <1>7, <2>2 DEF Decide, page, Lawful, Untroubled
<1>8. ASSUME NEW x \in posts, Fail(x) PROVE Lawful'
  BY <1>8 DEF Fail, page, Lawful, Untroubled, SessionKeptOrEnded
<1> QED
  BY <1>1, <1>2, <1>3, <1>4, <1>5, <1>6, <1>7, <1>8, LawfulLoads, LawfulSignIn, LawfulSucceed
  DEF Next

LEMMA LawfulHolds == Spec => []Lawful
<1>1. Init => Lawful
  BY DEF Init, Lawful, Untroubled
<1> QED BY <1>1, LawfulStep, TypeHolds, PTL DEF Spec

\* What the role may load, the routers allow it: the guards of app.js against
\* the dependencies of the endpoints, role by role.
LEMMA GuardsAgree ==
  ASSUME NEW r \in Role, NEW p \in Wanted(r) \cup Maybe(r), p = "audit" => r \in Admins
  PROVE  p \in Allowed(r)
BY DEF Wanted, Maybe, Allowed, Role, Office, Admins, OpenParts, SignedParts, AdminParts, OwnParts,
       TripParts

LEMMA LawfulAllowed ==
  TypeOK /\ Lawful /\ ~(Crossing /\ crossed) => RefreshIsAllowed
<1> SUFFICES ASSUME TypeOK, Lawful, ~(Crossing /\ crossed), user # Nobody, NEW c \in calls
             PROVE  c.part \in Allowed(role)
  BY DEF RefreshIsAllowed
<1>1. role \in Role
  BY DEF TypeOK
<1>2. c.part \in Wanted(role) \cup Maybe(role) /\ (c.part = "audit" => role \in Admins)
  BY DEF Lawful, Untroubled
<1> QED BY <1>1, <1>2, GuardsAgree

\* Where the page is left and entered at rest, a refresh asks for nothing the
\* server refuses to a role it still agrees on: the guards of the loads, the
\* forms an audit trail follows and the dependencies of the routers fit.
THEOREM RefreshesAreAllowed == ASSUME ~Crossing PROVE Spec => []RefreshIsAllowed
<1>1. TypeOK /\ Lawful => RefreshIsAllowed
  BY LawfulAllowed
<1> QED BY <1>1, TypeHolds, LawfulHolds, PTL

\* The same where they may cross, until they do.
THEOREM AllowedUntilCrossed == Spec => [](crossed \/ RefreshIsAllowed)
<1>1. TypeOK /\ Lawful => crossed \/ RefreshIsAllowed
  BY LawfulAllowed
<1> QED BY <1>1, TypeHolds, LawfulHolds, PTL
-----------------------------------------------------------------------------
(* Whose page it is *)

Fine(p) == shown[p] \in IF p \in Maybe(role) \cup {"audit"} THEN {user, Nobody}
                        ELSE IF p \in Wanted(role) THEN {user} ELSE {Nobody}

\* A load of the part is out or still to be sent.
Pending(p) == \/ \E c \in calls : c.part = p
              \/ \E r \in runs : \E i \in r.todo : p \in Plan(r.form)[i]

\* Until a sign-in or a sign-out crosses unfinished work: nothing is under way
\* for nobody, every load is the user's, the audit trail is the user's or blank,
\* and every part is as it should be or about to be loaded.
OwnPage ==
  /\ \A c \in calls : c.part \in watched
  /\ ~crossed =>
       /\ user = Nobody => calls = {} /\ runs = {} /\ posts = {}
       /\ \A c \in calls : c.by = user
       /\ tail = "cleared" => user = Nobody
       /\ "audit" \in watched =>
            /\ user # Nobody => Fine("audit")
            /\ user = Nobody /\ tail = "idle" => shown["audit"] = Nobody
       /\ user # Nobody /\ ~failed => \A p \in watched : Fine(p) \/ Pending(p)

LEMMA OwnPageLoads ==
  ASSUME TypeOK, OwnPage, NEW r \in runs, NextLoads(r) PROVE OwnPage'
<1>1. UNCHANGED <<watched, user, role, posts, tail, crossed, failed>>
  BY DEF NextLoads, forms, setting
<1>2. PICK i \in r.todo, asked \in SUBSET watched :
        /\ asked \subseteq Plan(r.form)[i] \cap (Wanted(role) \cup Maybe(role))
        /\ \A p \in (Plan(r.form)[i] \cap watched) \ asked :
             p \in Maybe(role) \/ p \notin Wanted(role) \cup Maybe(role)
        /\ calls' = calls \cup {[part |-> p, by |-> user, run |-> r.no] : p \in asked}
        /\ shown' = [p \in watched |->
                       IF p \in (Plan(r.form)[i] \cap watched) \ asked THEN Nobody ELSE shown[p]]
        /\ \E next \in Run : /\ runs' = (runs \ {r}) \cup {next}
                             /\ next.form = r.form /\ next.todo = r.todo \ {i}
  BY LoadsSent
<1> DEFINE now == Plan(r.form)[i] \cap watched
<1>3. "audit" \in Wanted(role)
  BY DEF Wanted
<1>4. \A p \in now \ asked : shown'[p] = Nobody
  BY <1>2
<1>5. \A p \in watched \ (now \ asked) : shown'[p] = shown[p]
  BY <1>2
<1>6. \A p \in now \ asked : Fine(p)'
  BY <1>1, <1>2, <1>3, <1>4 DEF Fine
<1>7. \A p \in watched \ (now \ asked) : Fine(p) => Fine(p)'
  BY <1>1, <1>5 DEF Fine
<1>8. \A p \in asked : \E c \in calls' : c.part = p
  <2> SUFFICES ASSUME NEW p \in asked
               PROVE  [part |-> p, by |-> user, run |-> r.no] \in calls'
    OBVIOUS
  <2> QED BY <1>2
<1>9. \A c \in calls' : c \in calls \/ (c.part \in watched /\ c.by = user)
  BY <1>2
<1>10. \A q \in runs : \A j \in q.todo : (q = r /\ j = i) \/ \E s \in runs' : s.form = q.form /\ j \in s.todo
  BY <1>2
<1>11. \A p \in watched : Pending(p) => p \in now \/ Pending(p)'
  <2>1. ASSUME NEW p \in watched, NEW c \in calls, c.part = p PROVE Pending(p)'
    BY <1>2, <2>1 DEF Pending
  <2>2. ASSUME NEW p \in watched, NEW q \in runs, NEW j \in q.todo, p \in Plan(q.form)[j]
        PROVE  p \in now \/ Pending(p)'
    BY <1>10, <2>2 DEF Pending
  <2> QED BY <2>1, <2>2 DEF Pending
<1> HIDE DEF now
<1>12. \A p \in watched : Fine(p) \/ Pending(p) => Fine(p)' \/ Pending(p)'
  BY <1>6, <1>7, <1>8, <1>11 DEF Pending
<1>13. "audit" \notin now \ asked \/ shown'["audit"] = Nobody
  BY <1>4
<1>14. "audit" \in watched => shown'["audit"] \in {shown["audit"], Nobody}
  BY <1>4, <1>5
<1> QED BY <1>1, <1>6, <1>7, <1>9, <1>12, <1>14 DEF OwnPage

LEMMA OwnPageArrive ==
  ASSUME TypeOK, Lawful, OwnPage, NEW c \in calls, Arrive(c) PROVE OwnPage'
<1>1. /\ calls' = calls \ {c} /\ shown' = [shown EXCEPT ![c.part] = c.by] /\ runs' = Heard(c)
      /\ UNCHANGED <<watched, user, role, posts, tail, crossed, failed>>
  BY DEF Arrive, setting, forms
<1>2. c.part \in watched /\ DOMAIN shown = watched
  BY Types DEF OwnPage
<1>3. \A p \in watched : shown'[p] = IF p = c.part THEN c.by ELSE shown[p]
  BY <1>1, <1>2
<1>4. \A p \in watched \ {c.part} : Fine(p) => Fine(p)'
  BY <1>1, <1>3 DEF Fine
<1>5. ~crossed => c.by = user /\ user # Nobody
  BY DEF OwnPage
<1>6. ~crossed => c.part \in Wanted(role) \cup Maybe(role)
  BY <1>5 DEF Lawful, Untroubled
<1>7. ~crossed => Fine(c.part)'
  BY <1>1, <1>2, <1>3, <1>5, <1>6 DEF Fine
<1>8. \A p \in watched \ {c.part} : Pending(p) => Pending(p)'
  <2>1. \A r \in runs : \E s \in runs' : s.form = r.form /\ s.todo = r.todo
    BY <1>1, HeardTyped
  <2> QED BY <1>1, <2>1 DEF Pending
<1>9. ~crossed => \A p \in watched : Fine(p) \/ Pending(p) => Fine(p)' \/ Pending(p)'
  BY <1>4, <1>7, <1>8
<1>10. ~crossed /\ "audit" \in watched => (Fine("audit") => Fine("audit")')
  BY <1>4, <1>7
<1> QED BY <1>1, <1>5, <1>9, <1>10 DEF OwnPage

\* A load that fails may blank its part.  What else is to come no longer counts.
LEMMA OwnPageFailed ==
  ASSUME TypeOK, OwnPage, NEW c \in calls, FailQuietly(c) \/ FailLoudly(c) PROVE OwnPage'
<1>1. /\ calls' = calls \ {c} /\ failed' = TRUE
      /\ shown' = [shown EXCEPT ![c.part] = Nobody] \/ shown' = shown
      /\ SessionKeptOrEnded
      /\ UNCHANGED <<watched, posts, tail>>
  BY DEF FailQuietly, FailLoudly, setting, forms
<1>2. DOMAIN shown = watched
  BY Types
<1>3. "audit" \in watched => shown'["audit"] \in {shown["audit"], Nobody}
  BY <1>1, <1>2
<1>4. ~crossed => user # Nobody
  BY DEF OwnPage
<1>5. CASE UNCHANGED <<user, role, crossed>>
  <2>1. "audit" \in watched => (Fine("audit") => Fine("audit")')
    BY <1>1, <1>3, <1>5 DEF Fine
  <2> QED BY <1>1, <1>4, <1>5, <2>1 DEF OwnPage
<1>6. CASE crossed'
  BY <1>1, <1>6 DEF OwnPage
<1> QED BY <1>1, <1>5, <1>6 DEF SessionKeptOrEnded

LEMMA OwnPageSignIn ==
  ASSUME TypeOK, OwnPage, NEW u \in User, SignIn(u) PROVE OwnPage'
<1>1. /\ user = Nobody /\ user' = u /\ role' = grant[u] /\ runs' = runs \cup {NewRun(Login)}
      /\ crossed' = (crossed \/ ~AtRest)
      /\ UNCHANGED <<watched, shown, calls, posts, tail>>
  BY DEF SignIn, setting, forms
<1>2. u # Nobody
  BY UserAssumption
<1>3. ASSUME ~crossed' PROVE ~crossed /\ calls = {} /\ posts = {} /\ runs = {} /\ tail = "idle"
  BY <1>1, <1>3 DEF AtRest, Unfinished
<1>4. "audit" \in watched /\ ~crossed' => Fine("audit")'
  BY <1>1, <1>3 DEF OwnPage, Fine
<1>5. \A p \in watched \ {"audit"} : Pending(p)'
  <2> SUFFICES ASSUME NEW p \in watched \ {"audit"} PROVE Pending(p)'
    OBVIOUS
  <2>1. Login \in Form \cup {Login} /\ p \in Part
    BY Types
  <2>2. PICK i \in DOMAIN Plan(Login) : p \in Plan(Login)[i]
    BY <2>1, PlanStages
  <2>3. NewRun(Login).form = Login /\ i \in NewRun(Login).todo
    BY <2>1, <2>2, NewRunPlan
  <2> QED BY <1>1, <2>2, <2>3 DEF Pending
<1> QED BY <1>1, <1>2, <1>3, <1>4, <1>5 DEF OwnPage

LEMMA OwnPageLogOut ==
  ASSUME TypeOK, OwnPage, LogOutAnswered \/ LogOutEnds PROVE OwnPage'
<1>1. CASE LogOutAnswered
  BY <1>1 DEF LogOutAnswered, OwnPage, Unfinished, setting, forms
<1>2. CASE LogOutEnds
  <2>1. "audit" \in watched => shown'["audit"] = Nobody
    BY <1>2 DEF LogOutEnds, Blanked
  <2>2. tail = "cleared" /\ tail' = "idle"
        /\ UNCHANGED <<watched, user, role, calls, runs, posts, failed, crossed>>
    BY <1>2 DEF LogOutEnds, setting, forms
  <2> QED BY <2>1, <2>2 DEF OwnPage
<1> QED BY <1>1, <1>2

\* A form that succeeds may begin a refresh, which makes good what has failed.
LEMMA OwnPageSucceed ==
  ASSUME TypeOK, OwnPage, NEW x \in posts, Succeed(x) PROVE OwnPage'
<1>1. /\ posts' = posts \ {x}
      /\ \/ Plan(x.form) = << >> /\ runs' = runs
         \/ Plan(x.form) # << >> /\ runs' = runs \cup {NewRun(x.form)}
      /\ failed' = (failed /\ (Len(Plan(x.form)) <= 1 \/ posts # {x} \/ calls # {} \/ runs # {}))
      /\ UNCHANGED <<watched, user, role, shown, calls, tail, crossed>>
  <2>1. x.form # Login
    <3>1. Login \notin Form
      BY DEF Form, LockedForms, OpenForms, Login
    <3> QED BY <3>1, Types
  <2>2. Plan(x.form) = After(x.form)
    BY <2>1 DEF Plan
  <2> QED BY <2>2 DEF Succeed, setting
<1>2. \A p : (Fine(p) <=> Fine(p)') /\ (Pending(p) => Pending(p)')
  BY <1>1 DEF Fine, Pending
<1>3. ~crossed => user # Nobody
  BY DEF OwnPage
<1>4. ASSUME failed, ~failed', ~crossed, NEW p \in watched PROVE Fine(p)' \/ Pending(p)'
  <2>1. CASE p = "audit"
    BY <1>2, <1>3, <1>4, <2>1 DEF OwnPage
  <2>2. CASE p # "audit"
    <3>1. x.form \in Form \cup {Login} /\ p \in Part
      BY Types
    <3>2. ~(Len(Plan(x.form)) <= 1) /\ runs' = runs \cup {NewRun(x.form)}
      <4>1. Len(<< >>) <= 1
        OBVIOUS
      <4> QED BY <1>1, <1>4, <4>1
    <3>3. PICK i \in DOMAIN Plan(x.form) : p \in Plan(x.form)[i]
      BY <2>2, <3>1, <3>2, PlanStages
    <3>4. NewRun(x.form).form = x.form /\ i \in NewRun(x.form).todo
      BY <3>1, <3>3, NewRunPlan
    <3> QED BY <3>2, <3>3, <3>4 DEF Pending
  <2> QED BY <2>1, <2>2
<1> QED BY <1>1, <1>2, <1>3, <1>4 DEF OwnPage

LEMMA OwnPageStep == TypeOK /\ Lawful /\ OwnPage /\ [Next]_vars => OwnPage'
<1> SUFFICES ASSUME TypeOK, Lawful, OwnPage, [Next]_vars PROVE OwnPage'
  OBVIOUS
<1>1. CASE UNCHANGED vars
  BY <1>1 DEF vars, page, forms, setting, OwnPage, Fine, Pending
<1>2. ASSUME NEW r \in runs, EndRun(r) PROVE OwnPage'
  <2>1. tail' = tail /\ UNCHANGED <<watched, user, role, shown, calls, posts, crossed, failed>>
        /\ runs' = runs \ {r} /\ r.todo = {}
    BY <1>2 DEF EndRun, setting
  <2> QED BY <2>1 DEF OwnPage, Fine, Pending
<1>3. CASE LogOut
  BY <1>3 DEF LogOut, page, forms, setting, OwnPage, Fine, Pending
<1>4. ASSUME NEW f \in Forms, Send(f) PROVE OwnPage'
  <2>1. user # Nobody
    BY <1>4, OfferedToSomebody DEF Send, TypeOK
  <2> QED BY <1>4, <2>1 DEF Send, page, setting, OwnPage, Fine, Pending
<1>5. ASSUME NEW x \in posts, Decide(x) \/ Fail(x) PROVE OwnPage'
  <2>1. ~crossed => user # Nobody
    BY DEF OwnPage
  <2>2. CASE UNCHANGED <<user, role, crossed>>
    BY <1>5, <2>1, <2>2 DEF Decide, Fail, page, setting, OwnPage, Fine, Pending
  <2>3. CASE crossed'
    BY <1>5, <2>3 DEF Decide, Fail, page, setting, OwnPage
  <2> QED BY <1>5, <2>2, <2>3 DEF Decide, Fail, SessionKeptOrEnded
<1> QED
  BY <1>1, <1>2, <1>3, <1>4, <1>5, OwnPageLoads, OwnPageArrive, OwnPageFailed, OwnPageSignIn,
     OwnPageLogOut, OwnPageSucceed
  DEF Next

\* At rest the page is the user's, whoever was there before and however often
\* roles, refreshes and lost loads came between, unless a sign-in or sign-out
\* crossed work under way: then a second user may find the first one's data.
THEOREM SettledPagesAreMine == Spec => []SettledPageIsMine
<1>1. Init => OwnPage
  BY DEF Init, OwnPage
<1>2. TypeOK /\ OwnPage => SettledPageIsMine
  BY DEF OwnPage, SettledPageIsMine, Fine, Pending, AtRest, Unfinished
<1> QED BY <1>1, <1>2, OwnPageStep, LawfulHolds, TypeHolds, PTL DEF Spec
=============================================================================
