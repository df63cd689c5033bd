# FleetFlow in TLA+

FleetFlow (the repository beside this directory) books a company's cars: a
FastAPI application over SQLite or PostgreSQL and a browser client in plain
JavaScript. Employees ask for a car, approvers decide, the reception hands the
car over and takes it back, admins look after cars, maintenance windows
("blackouts") and accounts.

This directory holds specifications of the server's core and of the client, translated from the source,
the TLC configurations that check small instances of them, and proofs of what
matters most for instances of any size. `PROJECT.json` lists the components,
the source lines every definition stands for, the runs, the hazards and the
theorems.

    tlc -workers 2 -config MCReservationsBooking.cfg MCReservations
    tlapm ReservationsProofs.tla

## 1. Inventory

| Component | State | Operations | What is hard | What makes it correct |
|---|---|---|---|---|
| Reservation lifecycle (`routers/reservations.py`) | `reservations`, `audit_log`, `notifications` | create, quick book, approve, reject, bulk decisions, start, return, cancel | concurrent creates; single decisions against bulk ones; UPDATEs by id after a check; who is to be told depends on the roles of the moment | a slot is held once; the trail is one path of the lifecycle and says what the status says; a settled reservation stays settled; the requester hears of every foreign move, nobody twice |
| Cars and blackouts (`routers/cars.py`) | `cars`, `car_blackouts` | create, (de)activate cars; create, edit, deactivate blackouts | check and write in separate autocommit statements; edits onto booked slots | no booking inside an active blackout; a blackout never disturbs a held slot |
| Roles and auth context (`security.py`) | none of its own; reads `users` | `get_auth_context`, `require_*` | a handler acts on a role read before it ran | authority is that of the request's start |
| Sessions (`routers/auth.py`, `static/app.js`) | `refresh_tokens`; per browser the cookie jar, `state.token` and the calls in flight | login, refresh, logout; `apiFetch`, `refreshAccessToken`, `restoreSessionFromCookie`, `handleLogout` | rotation with replay protection against parallel, late, lost and repeated refreshes; logout racing a refresh | the tokens of a login form a chain; a session outlives its access tokens; every call ends |
| User administration (`routers/users.py`) | `users`, `user_audit_log` | create, import, role, contact, password reset, deactivate, activate, handoff | last-admin checks against concurrent changes; rows and audit rows in separate statements; crashes between them | there is an admin; every change leaves a trace |
| Public pages (`app.py`) | none | overview counts, public calendar | counts of different things combined | the figures are counts |
| Admin bootstrap (`routers/auth.py`, `bootstrap_tokens.py`) | the one-shot token, in memory | bootstrap, provision at start | consumed before the INSERT; restarts; concurrent requests in dev | the token is used once; one first admin |
| Rate limiter (`rate_limit.py`) | a deque of timestamps per key | check | timestamp taken before the lock | at most `attempts` per window |
| In-app notifications (`routers/notifications.py`) | `notifications.read_at` | list, read, read all | | reading is idempotent and one's own |
| Outbound dispatch (`notifications_service.py`) | `notification_deliveries` | e-mail, Slack, Teams after the response | crash before it runs; a failing channel | best effort: at most once per channel and notification |
| Database adapters (`db.py`) | | `get_conn`, `transaction` | `BEGIN IMMEDIATE` on SQLite, plain `BEGIN` at READ COMMITTED on PostgreSQL | |
| Fleet intelligence (`fleet_intelligence/`) | none | metrics and rules over rows | boundaries of scores and windows | scores stay in range |
| Reservation table (`static/app.js`) | `state.reservations`, its filters, `selectedReservationIds`, the inbox | chips, search, loads, ticks, bulk decisions, polling | loads are not numbered; a debounce timer; a modal dialog; ticks of rows that go; a list cut at 100 rows | a table at rest answers the filter on screen; ticks are pending rows on screen; news reloads the table |
| Desk (`static/app.js`) | two copies of the reservations, what was last drawn | buttons, rails, summary, heroes, car cards, KPIs, calendar | copies of different moments and lengths (100 rows, 500 rows), each redrawn by some of the calls; loads that fail; cards drawn up to a limit | buttons are ones the server accepts; what a button promises is in the list it opens, as far as the list reaches; counts agree with cards |
| Booking form (`static/app.js`) | the form, its preview, the car select | edits, conflict preview, offered slot, submit, quick booking | debounced questions that overtake one another; reloads rebuild the select under the user; form, preview and endpoint check by halves | the verdict is about the form; a free window the form lets pass can be booked |
| Page session (`static/app.js`) | who is signed in, what each part shows, spinners, locks, messages | sign-in, `refreshData`, forms, sign-out | thirteen loads of which any may fail or end the session; a sign-out in two parts | a page at rest is its user's; nothing spins or stays locked for ever; outcomes are told |
| Telemetry, settings, presentation, operations | | | | not modelled, see section 6 |

They interact through the database and through HTTP. `users` is read by every
request (`get_auth_context`, on a connection of its own before the handler's)
and by the handlers that compute whom to notify. Handlers write
`notifications` in their own transaction and pass the ids to a background task
that dispatches them after the response. The client calls the API with an
access token and replaces it through `/auth/refresh`. Within the client the
parts share `state`: `refreshData` loads everything after each change a user
makes, the poll and the chips load the table, and each part is drawn from what
`state` holds when its call ends.

## 2. Modules

| Module | Models | Notes |
|---|---|---|
| `FleetVocabulary` | roles, stored and presented status, overlap of windows | shared by all |
| `CarCalendar` | abstract specification: slots of a car are taken when free and given back | what `Reservations` implements |
| `Reservations` | reservation lifecycle, cars, blackouts, auth contexts | the core |
| `PublicPages` | `/public/overview` over the state of `Reservations` | |
| `Sessions` | refresh tokens, browsers, calls in flight | |
| `UserAdmin` | accounts and their audit trail | |
| `ReservationTable` | the client's table: filters, loads, ticks, bulk decisions, poll | |
| `DeskViews` | what a tab draws from its copies of the reservations | pure operators |
| `Desk` | a tab at work on these views against the server | |
| `BookingForm` | the reservation form and its conflict preview | |
| `PageSession` | sign-in, refresh, forms, messages and sign-out of one page | |
| `MC...` | instances for TLC | each extends the module of its name |
| `ReservationsProofs`, `SessionsProofs`, `UserAdminProofs`, `ReservationTableProofs`, `DeskProofs`, `BookingFormProofs`, `PageSessionProofs` | theorems | extend the module they are about |
| `Extrema` | lemmas on `Min`, `Max` and `Cardinality` | used by `DeskProofs` and `BookingFormProofs` |

The four client modules cut `static/app.js` by what can interfere. JavaScript
runs one callback at a time, so in all of them a step is what runs between two
awaits. They look at the same calls with different eyes: `ReservationTable` keeps
the loads of one list and their order, `Desk` what is drawn from lists, in
`BookingForm` a load is the rebuilding of the car select, in `PageSession` a
part that shows somebody's data.

Definitions whose name begins with `Mutant` are the bugs the properties were
tried against: each is the definition after it with one plausible mistake, and
nothing else refers to them. The properties are rejected by TLC when the
mistake is put in.

### Reservations

A row of `reservations` is a record; its position is its id. `checkedOut` and
`returned` say whether `checked_out_at` and `returned_at` are set. `auditLog[r]`
and `notifications[r]` are the rows of those tables that name reservation `r`;
one entry of `notifications[r]` is one call of `create_notifications`.

On SQLite `transaction()` issues `BEGIN IMMEDIATE`: the body of a transaction
runs with the write lock held, so a transactional handler is one action
(`CreateReservation`, `Decide`, `BulkDecide`, `StartTrip`, `ReturnTrip`,
`Cancel`). A handler that raises rolls back, which is a stutter. Three things
are not atomic in the code and are not here:

- the `AuthContext` of a request is read earlier: `contexts` holds every context
  some request in flight may still act on, and every handler picks one of it;
- `create_blackout` and `update_blackout` check and write in two statements:
  `CheckNewBlackout`/`CheckBlackoutEdit`, then `InsertBlackout`/`UpdateBlackout`
  (`blackoutWrite` is what the request still has to write);
- the clock is read before the write lock is waited for; 0 is the present, and
  a window has only to have been ahead of its request.

Decisions and trips look at no car, window or blackout again, and neither do
the actions.

### Sessions

A grant is a pair of an access and a refresh token, numbered in the order of
issue, which is the order of expiry: `accessExpired` and `refreshExpired` are
the numbers up to which they have expired. Each grant records the login it
descends from and the grant it replaced; both are history the table does not
have but the properties need. `RotateRefreshToken` is one transaction: the
conditional UPDATE and its row count decide, so it is one step on PostgreSQL
too. Login is two (`CheckPassword`, `StoreRefreshToken`), because the account is
read on one connection and the token stored on another.

A call of `apiFetch` goes through the phases asked, refreshing, granted or
denied, retrying. Between a server's step and the browser's (`ReceiveGrant`,
`ReceiveDenial`) anything else may happen: that is the delay of the response.
`Trouble` chooses what may go wrong in an instance: logouts, refresh tokens that
expire, deactivated accounts, reloads, lost responses, retries answered with an
error other than 401. A restored page asks `loadMe` with its new token; when that
is refused or lost, the page drops the token (`ReceiveAnswer`, `LoseResponse`).

A browser is one tab with its own cookie jar; the login form is there only while
the tab has no session. The answer to a login or a logout is
handled in the step that computes it. `sessionStorage` redirects between the
employee and the admin page, which reload the page with its token, are left out.

### UserAdmin

Transactional endpoints are one action. The three others are requests in
stages: `deactivate_user` counts the admins, then updates, then logs;
`create_user` and `activate_user` update, then log. `Crash` drops what is in
flight and keeps what is committed. A user's name, contact data and password are
left out, so `update_user_contact` and `reset_user_password` write the trail
only. `ImportEmployees` takes any set of accounts: which ones a pasted table
matches is decided by names.

### ReservationTable

A load is sent (`StartLoad`), answered at the server (`Serve`) and handled
(`Arrive`, `Fail`); `loads` keeps the order of sending, and only with
`"reordered"` in `Trouble` may one overtake another. The query reads the search
box whether or not its debounce timer has fired, and the status chip pressed when
the answer comes filters it once more (`Kept`). A bulk decision takes the ids
when its dialog opens (`AskBulk`), posts when it is closed, and drops whatever is
ticked when the answer comes; the refresh behind it awaits the cars before it loads
the table (`FinishBulk`, `EndBulk`). An answer holds the first `PageSize` rows by start of those
asked for, 100 in the code, and "open" is taken out of it afterwards (`Answer`,
`Kept`): settled rows use up places. The properties here say what the table is
relative to that answer; what the cut hides is `Desk`'s matter. `StartPoll`, `ServePoll` and `EndPoll` are the 30 s
poll; news it brings reloads the table. Of the filters the status and one text
are kept: scope and dates enter the query the same way.

### DeskViews and Desk

`DeskViews` holds what `app.js` computes from its copies: `ReservationActions`
and the rails for the buttons (`Offers`), `OperationalFocus` and `EmployeeFocus`
for the summary, `CarLabel` and `AvailableCars`, the month and the timeline. A
list that is cut to a few cards is a `Rail`: those shown and those counted. `Desk`
gives the tab a server with other users: `Press` is any button drawn,
`FollowFocus` the summary's own button, `Draw` the end of the call that asked for
a drawing, which is when the summary changes. The server's guards are `Accepts`.
`at` is the clock when a copy was last drawn; nothing is redrawn because time passes.

The server cuts what it answers at the first rows by start (`Page`): `TableLimit`
for the table, which sends no limit and gets 100, `PulseLimit` for the pulse,
which asks for 500. Rows that start at one moment come in the order of their ids; the
query leaves their order open. A refresh loads the cars before it sends for the copies
(`LoadCars`). Any of its loads may fail (`LoseCopy`, `LoseRest`): the copies that
did arrive are there, the summary is not drawn again, and `gaveUp` records it
until a summary is drawn with nothing out. Two loads of one copy that are out together are
one here; how they overtake one another is `ReservationTable`.

### BookingForm

Every edit restarts the 250 ms timer; `TimerFires` gives the preview the next
`requestId` and asks, `ServeCall` computes the conflicts, `Answer` and `FailCall`
handle what still is `Current`. `ShowCars` is the rebuilding of the select, which
moves it to the first car. `rebuilt` marks that this has happened since the
timer was last set; `preview.of` and `preview.at`, what the verdict is about and
how much was taken when the server looked, are history as well.

`Valid` is `validateReservationForm`, `Accepts` the checks of `POST /reservations`,
`Conflicts` what the preview asks. The first two refuse a window that has begun, the
third does not ask; and only `Accepts` asks whether the car is in service. `Tick`
begins an hour, at any point, also between a question and its answer or between
the validation and the POST. Tab and server read one clock: that a user's clock
may be wrong is left out.

### PageSession

What a part of the page shows is whose data it shows. `Refresh` is the order of
the loads in `refreshData`, and `Plan` that of every handler that loads: a run is
the set of stages it still has before it and of the parts it waits for. `NextLoads`
sends the first stage or blanks the parts the role does not load; a loud load
that fails ends its refresh, a quiet one blanks its part. A form is posted, decided, and then told of (`Succeed`, `Fail`).
`LogOutAnswered` and `LogOutEnds` are the two parts of `handleLogout`. Each button of the bar of bulk decisions
is disabled while its decision is out, but any drawing of the table sets it by what is ticked, so
`"bulk"` is among the `OpenForms`.

A load that is refused with 401 goes through `refreshAccessToken`. When no new token
comes, or the new one names an employee on the admin page, the session ends in the
middle of its refresh, whose other loads go on (`SessionKeptOrEnded`, in
`FailQuietly`, `FailLoudly` and `Fail`); what was on screen stays. A new token
that names another role which the page serves leaves the page where it is; the role
is taken over at the next sign-in here. A behaviour
watches one group of parts, so that TLC need not multiply them all.

## 3. Runs

| Run | Configuration | Question | Distinct states |
|---|---|---|---|
| booking | `MCReservationsBooking` | can two bookings share a slot, a trail leave the lifecycle, a settled row move; is the calendar implemented | 420,609 |
| surroundings | `MCReservationsSurroundings` | the same calendar against blackouts and role changes; who is told what | 570,822 |
| sessions_server | `MCSessionsServer` | one login, one chain of tokens, in all trouble at once | 591,804 |
| sessions_recovery | `MCSessionsRecovery` | without trouble, is a session ever lost | 756 |
| sessions_calls_end | `MCSessionsCallsEnd` | does every call end | 44,206 |
| user_admin | `MCUserAdmin` | can roles cost the last admin, can a change go untraced | 709,200 |
| reservation_table | `MCReservationTable` | does the table follow its filter and the news, and stay the ticks on screen | 273,115 |
| desk | `MCDesk` | are the buttons, rails, counts and the summary true, and complete as far as the copies reach | 985,790 |
| booking_form | `MCBookingForm` | is the preview about the form, and with the form's own check right | 1,234,388 |
| page_session | `MCPageSession` | is a page its user's, and does it come to rest | 102,421 |
| parallel_refresh | `MCParallelRefresh` | violated: see section 4 | |
| feedback_is_seen | `MCFeedback` | violated | |

Bounds, and why they are enough:

- *booking*: two reservations are a conflict, two cars tell a conflict from a
  coincidence, four moments give windows that are apart, adjacent, nested and
  overlapping by a part; a third user makes the actor of a handover differ from
  the requester and the decider. Batches range over all subsets of the ids.
- *surroundings*: one reservation meets two blackouts (an edit has another to
  collide with), one writer between its check and its write, and one change of a
  role or an active flag. A second writer only matters between blackouts, which
  is `MCBlackoutRace`.
- *sessions_server*: three grants are a login and two refreshes, or two logins
  and a refresh; two calls are what it takes to use one cookie twice. Calls are
  interchangeable (`SYMMETRY`; no liveness is checked there).
- *sessions_recovery*: two browsers of one user, four grants. `CookieKeepsUp`
  and `SilentRecovery` are about one call at a time on a network that loses
  nothing, with users who do not sign out and accounts that stay active; what
  happens otherwise is in section 4.
- *sessions_calls_end*: two grants, so that both calls can be refreshing with
  one cookie; reloads are left out because a page that is reloaded for ever never
  ends its restore.
- *user_admin*: three changes are an appointment and two changes by either of
  two admins; two requests interleave their statements, and imports take any
  set of accounts.

- *reservation_table*: one reservation, two chips and a text are enough for every
  order of filter, load, tick and decision; two loads may be out at once, and while
  one decision is, the next is ticked and its dialog opened. Answers come in the order of their questions, and a load may fail.
  With one reservation a page of one row cuts nothing off; what a cut list does to
  those who read it is in *desk*, and the proofs are for any `PageSize`.
- *desk*: three bookings, two of one car and apart by an empty day, and a retired
  car. A table of one row and a pulse of two, so that one row is behind the table's
  end and one behind the pulse's; rails of one card, so that a second is only counted. Three
  histories to begin with (a trip behind an old one, two handovers behind a trip that
  is out, two requests), every operational role and an employee, and two moves of
  others, lost loads or clicks. The two requests are left to those with one rail at
  most: an admin's decision rail is the approver's, and his mixture of both rails is in the
  other two.
- *booking_form*: a reservation with a blackout nested in it, and another car
  with a blackout; two edits, so that a question can be overtaken; one booking
  sent, one reload and one change by others, each of which also rebuilds the
  select or changes the answer. Hours 0 to 5 give apart, adjacent and nested windows;
  the page opens on a window that has begun, and one more hour begins meanwhile, which is the
  start of another.
- *page_session*: an admin, an approver and an employee, two sign-ins on either
  page, two refreshes at once, any load that may end the session, and one form of
  each kind of ending. Sign-ins and
  sign-outs wait for unfinished loads here; what happens otherwise is
  `MCLogoutTail`.

Counters are bounded in the guards of the actions that raise them
(`MaxReservations`, `MaxBlackouts`, `MaxTime`, `MaxUserChanges`, `MaxGrants`,
`MaxChanges`, `MaxLoads`, `MaxPosts`, `MaxClicks`, `MaxNews`, `MaxSteps`,
`MaxEdits`, `MaxSends`, `MaxClock`, `MaxSignIns`, `MaxRuns`; `Clock` bounds the clock of `Desk`).
`TableLimit`, `PulseLimit` and `PageSize` are the code's own limits with small
values (1 and 2 for 100 and 500). `CHECK_DEADLOCK FALSE` stands where a bound stops an instance for
good.

### Fairness

`CallsEnd`, `SignalReloadsTable`, `PreviewSettles`, `SpinnersStop` and `LocksEnd`
need it. In `Sessions`, `FairSpec` asks for weak fairness of `Proceed(b, c)`,
per browser and call: a request that was sent is answered, and the answer is
handled by the event loop. Nobody has to click, log in or out. A lost response
ends the call too (`fetch` rejects). The code sets no timeout on `fetch`; a
server that never answers would leave the call open, and that is excluded. The
client modules ask the same of their requests, timers and callbacks.

## 4. Where the code and its documents part

Two runs end in a violation on purpose: each checks what a document of the
repository says.

- Two calls that meet an expired access token sign the user out everywhere
  (`SilentRecovery`): each refreshes for itself, the second is taken for a replay.
- Nobody sees that an action succeeded (`FeedbackIsSeen`): handlers show the
  success message and call `refreshData`, which hides the strip in the same task.
  The rows an import skipped and the details of a bulk decision go with it. The
  end-to-end tests read the text of the hidden strip.

More can be reproduced with configurations that are no runs of their own:

| Configuration (module) | Shows |
|---|---|
| `MCCancelAfterPickup` (`MCReservations`) | a car that is out can be cancelled, `CancelOnlyBeforePickup` |
| `MCBlackoutRace`, `MCBlackoutEdit` (`MCReservations`) | overlapping blackouts of two requests; an edit moves a blackout onto an approved reservation |
| `MCOverviewCounts` (`MCReservations`) | two trips of one car at once; the public overview shows -1 cars to hand over |
| `MCStaleAuthority` (`MCReservations`) | a decision by somebody who has just lost the role |
| `MCTrailOrder`, `MCUntraced` (`MCUserAdmin`) | audit rows in the wrong order, or lost in a crash |
| `MCLogoutRace`, `MCLogoutElsewhere`, `MCLateDenial`, `MCRejectedRetry` (`MCSessions`) | a refresh survives a logout; a logout ends sessions elsewhere; the answer to an old call or to a retry ends a session |
| `MCDeactivationRace`, `MCImportDemotes` (`MCUserAdmin`) | two deactivations, or an import, leave no admin |
| `MCLateTable`, `MCMissedSignal` (`MCReservationTable`) | an older answer overwrites a newer one; news that the user's own reading of the inbox brought in never reloads the table, `PollCatchesUp` |
| `MCFreeDesk` (`MCDesk`) | "no active engagement" is said under a chip that hides the employee's open reservation, `FreeDeskMeansFree` |
| `MCCutLists` (`MCDesk`) | what a rail counts lies behind the table's last row, `CountedWorkIsInTheList`; with that line taken out, a calm summary over work behind the pulse's last row, `CalmDeskIsIdle` |
| `MCPreviewFollowsForm` (`MCBookingForm`) | a window that has begun is shown as free, `ClearWindowIsFree`; with that line taken out, a verdict about another car after a reload |
| `MCNextSlot` (`MCBookingForm`) | a "next free slot" that is taken |
| `MCLogoutTail` (`MCPageSession`) | a sign-in during the second part of a sign-out loses its lists, `PageIsMine` |

Two things met on the way have no property: `handleHandoff` reads
`event.currentTarget` after an await, when it is null, so its button is never
locked; and an admin who demotes himself keeps the admin page, whose next refresh
is refused.

## 5. Proofs

For every value of the constants that satisfies the named assumptions:

| Theorem | Says |
|---|---|
| `ReservationsProofs!TypeCorrect` | the tables and the writes in flight stay well formed |
| `ReservationsProofs!BookingIsExclusive` | `NoDoubleBooking` |
| `ReservationsProofs!ReservationsImplementCalendar` | `Spec => Calendar!Spec`: the refinement |
| `ReservationsProofs!SettledStaysSettled` | `SettledIsFinal` |
| `ReservationsProofs!AuditTellsTheStatus`, `AuditFollowsTheLifecycle` | `AuditMatchesStatus`, `AuditIsALifecycle` |
| `ReservationsProofs!RequesterIsInformed` | `RequesterInformed` |
| `ReservationsProofs!NobodyIsToldTwice` | `NoDuplicateNotification` |
| `SessionsProofs!TypeCorrect` | nothing refers to a token that was not issued |
| `SessionsProofs!LoginsAreChains` | `RotationIsAChain`, in any trouble |
| `SessionsProofs!JarsKeepUp` | `CookieKeepsUp`, under `Calm`: one call at a time, and nothing goes wrong but retries |
| `SessionsProofs!RecoveryIsSilent` | `SilentRecovery`, with one call at a time and `Trouble = {}` |
| `UserAdminProofs!TypeCorrect` | accounts, trails and requests stay well formed |
| `UserAdminProofs!RolesKeepTheLastAdmin` | `RolesKeepAnAdmin` |
| `UserAdminProofs!NothingChangesUntraced` | `ChangesAreTraced` |
| `ReservationTableProofs!TypeCorrect` | rows, filters, loads and dialogs stay what they are |
| `ReservationTableProofs!TicksAreOnScreen` | `SelectionIsOnScreen`, whatever order the answers come in |
| `ReservationTableProofs!SettledTableIsTheFilters` | `SettledTableFollowsFilter`, under `InOrder`: no answer overtakes another |
| `DeskProofs!TypeCorrect` | copies, chips, days and summaries stay what they are |
| `DeskProofs!SpecRowsAreTrue` | a row of either copy carries the owner of the reservation it names |
| `DeskProofs!SpecOffersAreAccepted` | `OffersAreAccepted` |
| `DeskProofs!NoHandoffForgotten`, `CountedWorkIsReached` | `NoHandoffIsForgotten`; `CountedWorkIsOneClickAway`: counted work is in the list behind the button, or that list is full of work of the same kind that starts before it; for rails and limits of any length |
| `DeskProofs!CalmDesksHaveNoWork`, `TripsAreInFocus` | `CalmDeskHasNoWork`, unless a load has failed since; `TripIsInFocus`, for trips among the first `TableLimit` of the employee's reservations |
| `DeskProofs!FreeCarsArePromised` | `FreeCarsAreFree`, for any finite fleet |
| `DeskProofs!NextDaysSkipNothing` | `NextBusyDaySkipsNothing` |
| `BookingFormProofs!TypeCorrect` | among others, at most one call answers the question the preview waits for |
| `BookingFormProofs!PreviewIsOfTheForm` | `EditedFormIsChecked` |
| `BookingFormProofs!ClearMeansBookable` | `ClearWindowIsBookable`: at any hour, what the preview calls free and `Valid` lets pass |
| `BookingFormProofs!SlotAvoidsConflicts` | `SlotAvoidsShownConflicts` |
| `PageSessionProofs!TypeCorrect` | spinners, runs and locks have the load or form that ends them |
| `PageSessionProofs!RefusalsAreTold` | `RefusalIsTold` |
| `PageSessionProofs!RefreshesAreAllowed` | `RefreshIsAllowed`, where sign-ins and sign-outs wait for unfinished work (`~Crossing`); `AllowedUntilCrossed`: otherwise until one did not |
| `PageSessionProofs!SettledPagesAreMine` | `SettledPageIsMine` |

The arguments:

- *Exclusive booking.* `NoDoubleBooking` is inductive with the type invariant:
  a new row is checked against every row that holds its slot, and no other
  transition makes a row hold a slot it did not hold. That second half is also
  what the refinement needs: every handler but `CreateReservation` maps to
  `GiveBack` or `Maintain`.
- *The trail.* `AuditIsALifecycle` is not inductive: whether the next row may
  follow depends on what the last one was. With `AuditMatchesStatus` it is,
  because the guards of the handlers are about the status and the last row says
  what it is.
- *Requester.* `RequesterInformed` is about all moves so far; a step adds one
  move and its fan-out and takes no earlier notification away.
- *Told once.* `NoDuplicateNotification` is about the rows of one table, and what
  makes it true is in another: `KindsSoFar` reads off the reservation which kinds
  it may have caused, and the guard that rules out a second transition keeps its
  kinds out of that set. `OnceInv` says that no kind is there twice and none of a
  transition still to come.
- *Chains.* The invariant `Orderly` of the table adds to `RotationIsAChain` that
  a token is numbered after the login and after the token it comes from. A token
  that is refreshed is unrevoked, hence the newest of its chain, so no other
  token of the chain has it for a parent; a new login has a number no token
  carries. `RevokeAll` and `Revoked` only ever set `revoked`.
- *Undisturbed sessions.* `CalmInv` adds to `IInv` what the jar and the call
  in flight know of each other: a refresh carries the cookie the jar still has,
  and while its answer is on the way (`granted`) the jar is one token behind, whose
  successor works. A second call, a logout or a lost answer breaks exactly this,
  which is what the configurations of section 4 show; so the theorems assume that
  there is none, and nothing about the number of browsers, users and grants.
- *Admins.* A role is taken from an active admin only when the count is above
  one, so another one stays (`Cardinality` of a finite set); a handoff makes an
  admin of an active account in the same step.

- *Ticks.* Every step that replaces the rows runs `Synced` over them; the others
  leave the rows and add only ticks of pending rows.
- *The settled table.* `Following`: the newest load asks for what the chips say,
  and while none is out the rows answer it or a load has failed. The last answer is
  that of the newest load only if none overtakes it, hence `InOrder`;
  `MCLateTable` is the counterexample without.
- *Buttons.* A button carries the row it was drawn from. That the server accepts it
  while the row's status is the server's follows from the role and the status;
  only cancelling also asks for the owner, hence `RowsAreTrue`, which holds because
  both copies are made of answers.
- *Preview.* A call in flight that carries the newest number asked what the preview
  stands for (`Asked`), so an answer that passes `Current` changes nothing else.
  For a free window, `Seen` keeps a witness: the part of what is taken now that
  the server saw. As large as the whole, it is the whole (`FS_Subset`). What the preview leaves unasked is in `Valid`
  (the hour) or in the property (the car's service).

- *Rails and counts.* A rail loses nothing (`RailIsWhole`), and the lists the rails
  are cut from are those the chips' filters let through. `CalmDeskHasNoWork` relates
  what was drawn to what is loaded now: `DrawnIsTrue` keeps that a pulse is loaded
  only by a refresh that will draw the summary, so that between refreshes the
  summary speaks of the pulse the tab still has; a refresh that gives up sets `gaveUp`.
  A row that was asked for and is not on a page has `limit` rows before it, and then the
  page is full of rows before it (`PageIsFull`, from `CutIsFull`): the rank is an
  injection of a finite set of N rows into the N places, so every place up to the cut
  is taken.
- *Free cars and busy days.* A car in service whose card is not free has a trip in
  the pulse, and there are no fewer trips than cars they name (`ImageCardinality`), so
  `AvailableCars` subtracts enough, if a trip per car too many. The next busy day is
  the least of a set, and what is less is not in it. `Min` and `Max` are `CHOOSE`
  expressions; that the chosen element exists is proved in `Extrema` from the
  well-foundedness of `<` and of strict inclusion on finite sets (`WFMin`).
- *Slot.* The slot begins at the maximum of the conflicts' ends. That is a fact about
  the answer, and `PreviewTyped` carries it: whatever is shown as a conflict has
  ended by `preview.slot.from`.
- *Page.* `TypeOK` of `PageSession` is not about types alone: a spinner turns only
  for a load, a run waits only for loads that are out, a lock has its form or
  run. `Lawful` says that while somebody is signed in, all loads in flight are of
  parts his role loads, and a run that will load the audit trail is an admin's.
  `OwnPage` says that until something crosses, every load is the user's, and every
  part of a page on which no load failed is his, blank if it must be, or being
  loaded. Both hold only until a sign-in or a sign-out crosses
  unfinished work: `crossed` records that, and `MCLogoutTail` shows what comes then.

The assumptions on constants are those the modules name. Three of them are there for
the proofs and true of the code: reservations and cars are finite in number
(`IdAssumption`, `CarAssumption` of `Desk`), and every chip the page presses of
itself is one it has (`ChipAssumption`). The hypotheses `Calm`, `InOrder` and
`~Crossing` are about `Trouble`, `Call` and `Crossing`, and the constants of the
passing runs of these properties satisfy them.

Every invariant and action property of the passing runs has a theorem. Only
model-checked are the liveness properties (`CallsEnd`, `SignalReloadsTable`,
`PreviewSettles`, `SpinnersStop`, `LocksEnd`): weak fairness is defined by ENABLED,
which is beyond the proof system.

## 6. Not modelled

Password hashing, token signatures, input validation and normalisation of
strings are data the properties do not tell apart. Styles, templates, markup and
translations have no state; of the client's dialogs only the one before a bulk
decision matters. `netfleet_service.py`, `app_settings.py`, the car suggestions
and fleet intelligence read rows and compute figures nothing else depends on.
The rate limiter and the bootstrap token guard single endpoints. Outbound
messages are best effort. Migrations, readiness checks, deployment and
secret-scanning scripts run by hand or once at a start. PostgreSQL's READ COMMITTED
would need the transactional handlers split into statements.

What could come next, in the order of its weight: `Reservations` under READ
COMMITTED; the bootstrap token across restarts, composed with `UserAdmin`; an
abstract specification of the client's table and desk (a view of the server that
catches up), with `ReservationTable` shown to implement it.
