# Study Tracker: TLA+ models and proofs

This directory models the repository's native application and the Cloudflare Worker it
talks to, as far as their behaviour can go wrong over time: the timer and what it
writes to disk, the network thread, verified study sessions, the Social tab, the
academic data, the games, the updater, and the Worker's handlers. Each module follows
the Rust or TypeScript source named in `PROJECT.json` (`map`), definition by definition.
TLC checks the modules on small instances; TLAPS proves the invariants listed under
*Proofs* for every value of the constants.

Paths below are relative to `src/native-prototype/`; `core` is
`crates/study-tracker-core/src`, `index.ts` is `src/cloudflare/src/index.ts`.

## 1. Inventory

| Component | State it keeps | Operations | Interacts with |
|---|---|---|---|
| Study timer, `core/timer/state.rs` | phase, deadline, monotonic anchor, segments of the block | start, pause, resume, reset, set mode, complete, observe time | hands `SessionRangeReady` and `PersistenceRequested` to its controller |
| Restore, `core/timer/persistence.rs` | none (a function of a snapshot and the clock) | restore a snapshot, repair it, recover an expired or abandoned block | the controller at start-up |
| Timer controller and `AppModel` | the timer, the two clocks, the outbox of notifications | `apply`, `restore`, `reinitialize`, poll | writes the timer section, then routes ranges to the academic controller |
| Session service | study sessions and lifetime totals | split a range at local midnight, name and insert sessions | writes the academic section |
| Store, ports, import, `persistence/` | one JSON file, a section per domain | load, read-modify-write, atomic replace, import of a production backup | every controller |
| Academic domain and planner | semesters, courses, tasks, timetable, calendar entries, to-dos | add, remove with cascades, toggle an occurrence, count occurrences | store; the Dashboard reads it |
| Dashboard | none | minutes, streak, timeline with milestones, workload | sessions and planner |
| Network worker, `net/worker.rs`, `app_net.rs` | two bounded queues, one lazily started thread, a cancel flag per job | submit, cancel, execute, post the reply, shut down | every controller that talks to the Worker |
| Social controller, four files | identity, pending requests by token, outbox, cached feeds, squad, flags of what is on its way | sync, refreshes, bootstrap, feed, votes, squads, profile, notices | network worker, social store, credentials |
| Verified sessions, client: `core/social/verified.rs`, `social_controller_background.rs` | eligible, generation, held session, persisted anchor, three flags | observe the Timer, heartbeat, start, reconcile, reconnect | Timer (observed), network worker |
| Verified sessions, Worker: `index.ts` 543-845 | sessions, two tables of credited minutes, the audit of reconciliations | start, heartbeat, finish, reconcile, settle | D1 statements, one at a time |
| Rest of the Worker | accounts, friends, squads, feed, Skribbl, scores, flags | about fifty routes and a nightly job | D1, R2, KV |
| Break room: economy, Durak, daily games, rest room | unlocked games, badges; a game or puzzle each | unlock, play, moves, guesses, daily reset | store, study sessions |
| Skribbl modal | phase, gallery, votes, thumbnails | open, draw, submit, vote, page | network worker, image cache |
| Updater | a notice; staged files | check, download, verify, stage | threads, files |
| Platform, user interface, website, desktop (Tauri) application | presentation; the production application being ported | | |

What is hard here: two clocks and rounding (timer); two writes with a crash between them
(tracker, store); a thread, a condition variable and flags read without the lock
(network); replies that arrive after the state moved on (verified sessions, Social,
Skribbl); D1 statements of several calls in any order, none of them in a transaction
(Worker); a date that changes while something is open (games, Skribbl, planner); threads
that nobody serialises (updater). `PROJECT.json` lists every component with its status,
and under `hazards` the line at which each difficulty bites with the properties that
watch it.

## 2. Modules

| Module | Models | Uses |
|---|---|---|
| `StudyLedger` | abstract: ticks of work credited to a ledger, block by block | |
| `Timer` | `core/timer/state.rs`: one action per command | `StudyLedger` |
| `TimerRestore` | `restore_timer` | `Timer` |
| `SessionSplit` | the daily split of a range | |
| `StudyTracker` | timer controller, model, its two sections, crash and restart | `TimerRestore`, `SessionSplit` |
| `NetWorker` | queues, thread, condition variable, UI loop, shutdown | |
| `VerifiedServer` | the Worker's verified-session routes, statement by statement | |
| `VerifiedSession` | Timer state, `VerifiedMachine`, wire and Worker composed | `VerifiedServer` |
| `SocialController`, `SocialFeed`, `SocialSquad`, `SocialClient` | the Social controller, as operators from state to state | each the one before |
| `Social` | controller, user, timers, store, queue and Worker composed | `SocialClient` |
| `AccountServer`, `SquadServer`, `FeedServer`, `SkribblServer`, `SquadScores` | the Worker's handlers and its nightly job, statement by statement | |
| `NativeStore` | the store file, its ports and the import | |
| `Planner`, `Academic`, `Dashboard` | planner arithmetic; the academic state and its controller; the Dashboard's numbers | `Planner` |
| `BreakRoom`, `RestRoom`, `DailyGames`, `Durak`, `DurakSolver` | unlocks, badges, achievements; rest timers; four daily games; the card game and the search for its deals | `DurakSolver` uses `Durak` |
| `SkribblClient` | the modal, its controller and the thumbnail cache | |
| `Updater` | checks, downloads, staging, relaunch, order of versions | |
| `TimerProofs`, `StudyTrackerProofs`, `NetWorkerProofs`, `VerifiedServerProofs`, `VerifiedSessionProofs` | theorems about the module each is named for | that module |
| `SocialServerProofs` | theorems about the squads and about the feed | `SquadServer`, `FeedServer` |
| `WorkerProofs` | theorems about the scores, the accounts and Skribbl | `MCWorker`, for `SyncKept` |
| `LocalProofs` | theorems about the store and about the updater | `NativeStore`, `Updater` |
| `MC*`, `SessionSplitCheck` | instances for TLC | |

An operator marked `\* slip` is a plausible bug that shows a property has teeth; no
action uses it. Variables described as history are read by properties only.

**Timer.** `timer` is the `TimerState` record; `wall` and `mono` are the two clocks
of `ClockObservation`, counted in ticks of 1/`Tps` second so that the places where the
code truncates or rounds lose fractions here too. `Tick` moves both clocks: within a
process `AppModel::clock` derives the wall time from the monotonic one. `range` is the
event of the last command, `logged` the history of every segment handed over.
`ObserveTime` is the poll; it is separate from the tick since the UI may poll late.

**StudyTracker.** A command is two steps, as in `apply_timer_command`: the timer
section is written (or the write fails and is only logged), `pc` becomes `"routing"`,
then the sessions are inserted and the academic section written. `Crash` may fall
between them, and an ordinary quit writes nothing, so it is the same action. `Restart`
is `restore_timer` plus the write that follows it; `LoadAcademic` routes what was
recovered. `handed`, `worked`, `diverged` are history.

**NetWorker.** `ui.at` and `worker.at` are the program counters of the two threads,
with a step between any two points where the lock is not held. `posted` is the
event-loop queue of `slint::invoke_from_event_loop`. `WakeSpuriously` and `GiveUp`
(the shutdown timeout) are the environment.

**Worker modules.** `calls[c]` is the call in slot `c`: the place it has reached between
two D1 statements or R2 calls, and what it read so far. Each statement, or batch, is one
step; a `...Fault` action is a failing statement, which ends its call as the handler's
`catch` does. In `VerifiedServer`, `finishVerifiedSession` is `FinishRow` (the row as
its caller selected it), `Update` (guarded by `status = 'active'`) and `Credit`; a minute
is the unit of time, and a credit is the set of minutes it covers, not a count by date.

**VerifiedSession.** The request at the head of `outbox` is on the wire, because one
network thread sends them in order (`NetWorker`, `InTurn`). `NotSent` and `TimeOut` are
the two network failures: after a time-out the Worker goes on with the call in the
other slot. `Deliver` runs `track_connectivity` before the reply's own handler, as
`on_reply` does. A beat may be late, which is how a sleeping computer makes a gap.

**Social.** A method of the controller takes `&mut self` and calls others, so it is an
operator from the state before to the state after; the actions in `Social` pick the
method. The state `s` carries the bounded API queue (a request it refuses is answered
as cancelled) and the event loop that brings replies back, so replies come late but in
order. `Execute` is the Worker: it does what is asked, refuses, or does it and the
answer is lost. What the Worker knows is reduced to what the controller can tell.

**NativeStore.** A save is read, replace one section, create the `.tmp`, fill it, rename.
The process may end between any two steps, each may fail, and between two runs the file
may be damaged or replaced by a newer build's. A section is a version number.

**Planner, Academic, Dashboard.** Dates are numbers, weeks have `WeekLength` days. The
cascades and the unit synchronisation are applied after every edit, as the controller
does, and saved; the save may fail.

**Games.** A Durak hand is a sequence, for the CPU breaks ties by hand order;
`AcceptedDeals` are all deals of the small deck that the solver's search accepts. A
word is a sequence of letters, a country a number, hashes are constant tables with
equal entries included. In `RestRoom`, `owed` is what a rest still owes its user.

**Updater.** Every check and every download is a thread; `caveats` remembers that two
downloads overlapped or that a cleanup failed.

## 3. Runs

All bounds are named constants and appear in guards only.

| Run | Shows | Instance |
|---|---|---|
| `timer` | structure, no early or short countdown, no double logging, monotone display, refinement of `StudyLedger`, countdowns end | a tick is half a second; countdowns with and without a break, an exam, a stopwatch; 8 ticks, so a block can be paused between seconds, completed and followed by its break |
| `tracker_recovery` | sessions durable and disjoint; what is missing from the file is one block at most for each crash or failed write; nothing unworked is credited; a countdown left running on disk is settled | two crashes, one failed write, five ticks; alive gap (0) < block (2) <= abandonment (2), so live, stale and abandoned restores all occur |
| `net` | bounds, cancellation final, order, one answer per handler, no lost wakeup, the quit completes | four workloads of API calls, images and a local job with queues of two and one; a spawn that fails |
| `verified_session` | the client's flags say which calls are under way; studying leads to a held session after a request was lost | two starts of the Timer, one request unsent, one timed out, one restart, a gap longer than the grace |
| `worker` | the Worker's handlers under overlapping calls and a failing statement: minutes credited once, squads, feed, Skribbl, scores and accounts kept; deletes in R2 fail unnoticed | two calls at a time; which operations meet is chosen at the start (`SessionMeetings`, `SquadMeetings`, `FeedMeetings`, ...), three to five calls in all; all five session routes meet in `verified_session`; squads of two, three users |
| `social` | every spinner has a request, posts are kept, the account is whole, votes settle, local changes reach the Worker | fourteen works: a starting point, the kinds of clicks, and their number (one to three); one fault of any kind; three posts, outbox of two, queue of three |
| `local` | the parts that need no network, one at a time | two days, two games, three daily answers of six countries, every block of three segments, three edits of four imported calendars, histories of three sessions, two saves and two mishaps, two checks and two faults over four releases, six Skribbl requests with a cache of one |
| `tracker_lost_block`, `tracker_stale_restart`, `session_tiers`, `session_retry`, `store_future` | findings, below | |

The Worker's parts share three things that one writes and another reads. The month's
count of writes to R2 is checked and raised by post images, avatars and drawings and
raised unchecked by the nightly purge: `FeedServer` has the others as calls of any cost
(`SpendElsewhere`, `CountElsewhere`, `PurgeDrawing`). Scores are computed from the
minutes that verified sessions credit: `SquadScores` has a finish, a settlement and a
reconciliation as calls that credit any amount. The squads' history is what the scores
sum over: `SquadScores` has one member and no squads. The parts of `local` meet only
where a module already composes them (`StudyTracker`, `NativeStore`). So a behaviour of
these two runs chooses its part first and leaves the others idle, which makes one run of
what would otherwise be a product of state spaces. A property there speaks of the part's
variables and holds trivially in the others. Conjunctions such as `SquadsKept` or
`DurakKept` name the parts they consist of, each with its own comment.

`TrackerAssumption` requires that no preset is longer than the abandonment limit; the
presets of `default_modes` run at most two hours against six. The clock never goes back
across a restart in the model. `worker` uses symmetry in the call slots, which no
definition distinguishes.

Why the bounds are enough: every race in the code is between a read and a later write
of one call, and another call that fits between them; two slots and one more call
before or after give every such pair with a successor that notices the damage. On the
client each flag is set by one click and released by one reply, so two or three clicks
reach every pair of overlapping requests.

`CHECK_DEADLOCK FALSE` is set where time, calls or clicks are bounded and the system may
rest; `net` is checked for deadlock.

**Fairness.** *Timer*: the clock ticks and the UI polls `observe_time` (a repeated Slint
timer, `main.rs` 798-826). *Tracker*: also, what a process has begun is worked off
(`Works`), and the student opens the application again some time (`Reopens`), both
written over `pc`, which those steps alone change so; no fairness on commands, crashes
or failures. *Network*: the event loop and the worker thread keep running and a
transport call ends, because it has a timeout; nothing is assumed of asks, cancels, the
quit, spurious wakeups or `GiveUp`. *Session*: the outbox and the Worker make progress
and the periodic sync is made again; nothing is assumed of the Timer, the heartbeat or
the clock. `StudyIsWitnessed` uses no heartbeat: the sync alone brings the start about,
through `connectivity_restored`; it excepts a behaviour with a time-out or a restart,
where the retried start can meet the insert of the one that timed out and is refused by
the unique index (the client ignores such a 500 by design). *Social*: the network thread
answers, the event loop delivers (`RepliesDelivered`, written over the loop's queue),
and the timers that run fire (the hourly one, and time passing for a debounce or a
retry); no click is assumed, and since faults are bounded a sync succeeds some time.

## 4. Findings

* `tracker_lost_block`. A crash between the timer's write and the sessions' loses the
  completed block; the stage 16 document says it is recoverable.
* `tracker_stale_restart`. `last_alive_at` moves only with a command, so a countdown
  that has run undisturbed is stale at a restart and loses its deadline; the stage 15
  document says the remaining time is always recomputable from `ends_at`.
* `session_tiers`. A session that was silent for longer than the two-hour grace but is
  younger than four hours is resumed, not settled. The client reconciles the gap into
  the offline tier, and the finish later credits the whole span, the gap included, to
  the normal one. The comment at `index.ts:755` excludes that.
* `session_retry`. A start that failed offline waits with the 15-minute schedule off:
  `StopHeartbeats` turns it off, and only a start that succeeds turns it on. So the
  branch of `heartbeat_due` that would make the start again is never reached with such a
  start waiting, and only `connectivity_restored` makes it again; `verified.rs:29-31`,
  `:168` and `:290` say that the heartbeat cadence does too.
* `store_future`. A port that meets a file of a newer schema logs it and saves a fresh
  envelope over it; `store.rs:53` says such a file is not touched.

## 5. Observed while modelling

Met as counterexamples to a first form of a property, which states the exception it
makes. First, what a comment of the repository does not intend. It has no violation run
of its own; the property says in its comment what the code does instead.

* *Import* (`SectionsKept`). When the read-back fails and the roll back's own save fails
  too, which `let _ =` ignores (`migration.rs:518`, `:533`), the import stays written and
  reports an error. A roll back that succeeds puts the sections back without a timer or
  academic section that did not parse. `migration.rs:458-460` and the stage 15 document
  say the destination is left exactly as it was found.
* *Updater* (`StagedIsWhole`). Downloading the version that is staged already removes the
  staged file before the new one takes its place (`staging.rs:55-58`): if that download
  fails or is killed between, the staged update is gone. `service.rs:93-94` says a failed
  download leaves it intact. The daily check turns "downloading" back into "available",
  so a second download can start; two at once may tear a shared `.part`, against
  `staging.rs:12-13`, and an older one that ends later removes the newer staged file
  while the notice still offers it, against `staging.rs:14`.
* *Membership* (`SpinnersHaveRequests`). A reply of a friend request or of a sync clears
  `syncing` while a membership action is on its way, so its buttons come back and a
  second action can overlap the first; the comment at `social_controller_squad.rs:223`
  says that a second click is ignored.

What follows, no document of the repository contradicts.

*Timer and sessions.* `NoInstantInTwoSessions` needs `~diverged`: when the timer section
cannot be written during live use and the block then completes, a restart recovers it a
second time under its recovered id. `GapCreditedOnce` needs reconciliations of an anchor
to come one at a time, as `VerifiedMachine.reconciling` sends them. Recovering a session
older than the retention of 365 days counts it in the lifetime totals although the
session itself is pruned.

*Social.* A cancelled request leaves a profile loading, or a profile being restored
(`SpinnersHaveRequests` leaves the two out). Deleting a queued post, or editing it,
while the sync that carries it is on the wire leaves the Worker with the old one. The
image of a new post is uploaded before the post exists when another sync was already
running. A failed upload for a new post re-enables the editor of another one. A picked
image arrives at whichever post is being edited by then. A refused vote restores what
was shown before it, which may itself be a vote that is refused later. The outbox is cut
at 25 posts: a post that finds it full pushes the oldest out, sent or not, and
`PostsKept` excepts that one (`crowded`).

*Squads.* Two last members who leave at once leave an empty squad; a leader and the
successor who leave at once leave a squad without a leader; two departures can leave
two leaders; a role call that read an old role can demote the new leader; a kick that
overlaps a departure and a return can leave an open history without membership. So
`OneLeaderInTurn` is stated for calls that came one after the other, while size, consent
and single open history hold under any overlap. The last matters since `scoreSquadDate`
sums over history rows.

*Verified credit.* The session is marked finished before its credits are written, so a
statement that fails between the two loses them (`index.ts:576-595`): `CreditedExactlyOnce`
asks for every minute only where none has failed.

*Feed and Skribbl, Worker.* A delete in R2 that fails is ignored, so the object stays
and no row names it. The nightly purge of drawings adds to the month's count of writes
without a check, so the limit can be passed by as many. Overlapping calls of one author
can leave an object in R2 that no post names; two overlapping votes of a user can both
stay. A theme or submission call that spans midnight, and a purge that fails between the
votes and the drawings, can change what a finished day shows.

*Skribbl modal.* "Try again" reloads the theme, and its reply sets the phase to the
introduction even while the user draws or submits: the drawing is lost, or the modal
stays submitting. A request that the full network queue refuses is answered as
cancelled, and `on_reply` forgets it without telling the session: the theme, a page or a
submission stays under way until the modal is closed. A gallery page that crosses a vote
shows a score and a vote that disagree.

*Scores and accounts.* A score is computed from credited minutes
(`competitive_daily_stats`), but what queues a day again is a sync whose `daily_stats`
differ. So credit that comes after the day was scored and after the last such sync, as
that of a late finish or reconciliation, is in no score, and a sync that overlaps the
nightly job can have its day taken off the queue unscored. `ScoresFollowCredit` says
that this is all that can be missing, in calls one after another. The throttle reads its
counter and puts it back, so calls at once pass together. A sync that fails between
`upsertUser` and the reconciliation leaves a total below the account's days until the
next one.

*Academic.* Unticking a calendar entry takes back a unit that was clamped when it was
ticked. The units of a scheduled task are always those of its calendar, so the path that
lowers them by hand has no lasting effect.

*Store.* A typed section that does not parse is dropped by any other port's save. A
start-up read that fails once lets the next save of that port replace a good section by
a fresh one.

*Durak.* A day's first puzzle is taken to be found; a later one may be `None`, as
`find_daily_puzzle` may return, and leaves the game as it is. Opening the puzzle of a
new day keeps the indexes selected in the game before: an attack may then hold cards of
two ranks (`AttackOfOneRank`, stated at the end of `Durak.tla` and in no run), and a
click while the first index is past the end of the new hand panics (`ClickPanics`). No
card is lost or doubled by it.

## 6. Proofs

A theorem here holds for every value of the constants that the module's `ASSUME`
allows: any number of calls, users, releases, segments, ticks and failures. TLC checked
each inductive invariant as an invariant of a run before it was proved. Each proof goes
the same way: the initial states satisfy it, one lemma per action keeps it, and the
property follows. The theorems are about a component's own `Spec`; where an MC module
composes the component or limits what it is asked (`MCNetWorker`, `MCLocal`,
`MCWorker`), the composed steps are steps of that `Spec` or leave its variables alone.

**Timer** (`TimerProofs`, from `TimerAssumption` and `NoneAssumption`: the marker for
"no value" is none of the values).

* `TypeCorrect`. The sums and filters over segments are recursive functions; the lemmas
  at the head derive that they are defined, and keep their type, from the least-number
  principle, since no theorem over an operator can be used.
* `SegmentsStayWellFormed`, `NeverEndsEarly`, `LoggedOnce`. None is inductive alone.
  `IInv` adds `DeadlineSync`, which ties the deadline to the anchor: `ends_at + mono =
  wall + value * Tps + anchor.mono`. Expiry is decided on the monotonic side and dated
  on the wall side; without the equation a countdown could be found expired before its
  deadline, which would close a segment in the future. `LoggedInPast` says logged
  segments end by now, so that a block that starts now is disjoint from all of them.
* `TimerKeepsTheLedger`: `Spec => LedgerSpec`, the refinement of `StudyLedger`. A lemma
  for each command names the ledger's action it is (`StartIsWork`, `PauseIsHold`,
  `CompleteIsSave`, `ObserveIsExpire`, ...); under them, `ClosingCoversTheSame` and
  `BlockIsCredited` say that closing segments changes no tick of a block and that a
  range carries exactly the block's ticks.
* `DisplayNeverTurnsBack`: `DisplayMonotone`. The display has three sources (field,
  anchor, segments). For a countdown, `DeadlineSync` makes them agree; for the stopwatch
  the proof needs `StopwatchInOrder`, that the field is at most what the segments add
  up to, and that a sum of floors grows when a segment is extended.
* `CountdownsAreWorkedOut`: `FullCountdown`. The invariant `CountsDown`: the ticks worked
  before the deadline and the time left are together at least the preset. A pause
  rounds the time left up to a second (`PauseGivesTime`), a resume makes the rounded
  value the new deadline, so the sum never falls.

**Network worker** (`NetWorkerProofs`, from `NetAssumption`).

* `NetTypeCorrect`, `QueuesStayBounded`.
* `NobodyForgotten`: `EveryHandlerHasOneAnswer`. The inductive `Accounted` says where a
  request can be - either queue, the thread, dropped, posted - that no queue holds it
  twice, that it is in one place at most, and in one exactly when its handler is
  registered. `PlacesCounted` turns the places into the cardinality that the property
  counts.
* `SentInTheOrderAsked`: `SentAsAsked`. `SentIInv` adds the orders: each queue is ordered
  as asked, what has left it was asked before what is in it, nothing unstarted has been
  sent, and no result is in hand or posted for a request that was stopped.

**Verified sessions at the Worker** (`VerifiedServerProofs`, from `ServerAssumption`).

* `ServerTypeCorrect`, `MinutesCreditedOnce`, `GapMinutesCreditedOnce`. `ServerIInv`: the
  sessions of a user follow one another in time and only the last can be active
  (`SessionsInOrder`); the credits of a finished row are owed by one call
  (`OneCreditor`: the guarded `UPDATE` lets one caller through); the minutes credited
  for a gap lie before the end of what is recorded, or before the present while the one
  reconciliation on its way has to record it (`GapsCovered`, `OneReconciler`).

**The client of a verified session** (`VerifiedSessionProofs`, from `SessionAssumption`).

* `FlagsStayTrue`: `FlagsMatchCalls`. `Fits(m, q)` relates the machine to the queue: every
  start in it is of the present generation or of an earlier one, of the present one there
  is none of a stopped Timer and one exactly while the machine is starting, which it is
  only without a session. Each method keeps `Fits` for the queue with what the method
  sends behind it, each reply for the queue without its head (`TakesStart`,
  `TakesReconcile`, `TakesOther`); `OnReplyFits` puts the two together in the order of
  `on_reply`. The one thing needed of the Worker is that a start which succeeds names a
  session: for that, the call on the wire is that of the queue's head (`OnWire`), no
  statement changes a call's route, and a time-out takes call and head away together.

**Squads** (`SocialServerProofs`, from `SquadAssumption`, finitely many users).

* `SquadTypeCorrect`, `SquadsStayKept`. The bounds (no squad over its limit, nobody in
  two) hold whatever interleaves. What holds of calls one after another - a squad exists
  while it has members, one leader, one open stretch of history per member - is
  `InTurn`: `InTurnAt(c)` says it *between the statements* of the call `c`, with what
  `c` has closed or left leaderless already, and that what `c` has read is still so.

**Feed** (`SocialServerProofs`, from `FeedAssumption`, finitely many slots).

* `FeedTypeCorrect`, `FeedStaysKept`. The month's count of writes to R2, the other
  parts' calls included, is over its limit by at most what the calls between check and
  count can add and what the purge has added unchecked: `BudgetInOrder` adds to the
  count the number of calls that will spend. `VotesInOrder` holds between a vote's
  delete and insert; `ImagesInOrder` says of every key minted whether its object is in
  the bucket: exactly while the row names it or an upload holds it, unless dropped, or
  left there by a delete that failed.

**Scores and accounts** (`WorkerProofs`, from `ScoreAssumption` and `AccountAssumption`).

* `ScoresStayTrue`, `AccountsStayKept`, and the two together, `SyncStaysKept`: `SyncKept`.
  Scores: while no calls have overlapped, the one under way knows how to get a day back
  to where its score is that of the minutes credited when it was last scored or
  announced (`OnTheWay`, place by place). Accounts: whoever
  has left a total behind its days, or reasons without their flag, is still to come by to
  set that right (`TotalKept`, `FlagKept`), however calls overlap; the limit of a window
  holds of calls one after another, the counter being ahead of the rows by the sync that
  was let in and has not written its own (`Throttled`).

**Skribbl** (`WorkerProofs`, from `SkribblAssumption`).

* `SkribblStaysKept` and `SkribblRoomStaysKept`: `SkribblKept`, from any theme and any
  finitely many drawings of the first day. A call knows the day on which it read the
  clock, and whoever is under way since an earlier day has spanned each midnight since
  (`Since`); so a day that is over and that nobody spanned is touched by purges alone,
  and there is one purge at a time. Over such a day `WinnersKept` says that its votes
  still elect who had won it, or nobody once its rows are gone, except between the purge
  of the votes and that of the rows. `ImagesKept`: an image without a row has its
  submission under way, a row without an image the purge that deletes it.

**Store** (`LocalProofs`, from `StoreAssumption`).

* `StoreTypeCorrect`, `NoSectionIsLost`: `SectionsKept`, through torn temporary files,
  crashes, failing writes and an import that is committed, rolled back, or stuck because
  its roll back failed. `StoreIInv` relates the
  envelope a job is writing, the one it would restore, the file and the memory, each to
  what was saved, outside the sections known to be lost or behind.

**Updater** (`LocalProofs`, from `UpdaterAssumption`).

* `UpdaterTypeCorrect`, and `StagedStaysWhole`: `ReleasesInOrder` implies `UpdaterSpec =>
  []StagedIsWhole`. The hypothesis says the feed's releases are listed in the order of
  their versions; it is about the feed, so it is a hypothesis of the theorem and not an
  assumption of the module; `MCLocal`'s releases satisfy it. The invariant: while no two
  downloads have overlapped, one is under way at most, it writes only what is newer than
  the process, and each of its steps finds the files as the step before left them; what
  was put in place last stays whole (`kept`) until a download of that version removes it.

**Application** (`StudyTrackerProofs`, from the assumptions of `Timer`, `TimerRestore`,
`SessionSplit` and `StudyTracker`).

* `RestoredBlocksAreWellFormed`, `RestoredNeverEndEarly`, `OnlyWorkIsCredited`
  (`CreditedWasWorked`) and `SessionsStayOnDisk` (`SessionsDurable`). What the timer's own
  proof establishes from `Init` has to be re-established by every restart, so `TrackerIInv`
  says of the *file* what `Sane` says of the timer: `SaneOnDisk`, a snapshot whose segments
  are well formed as of its last sign of life and whose countdown has a deadline.
  `RestoredIsFine` takes `restore_timer` return by return and shows that each gives a sane
  timer back, and that the range it recovers and the block it keeps are within `Owed`: what
  the snapshot had when it was written, and for a running countdown what has gone by since,
  up to its deadline. While no write has failed, `Owed` was worked, because a countdown that
  runs in the file runs in memory too (`NothingUnworked`); the live commands keep that since
  each is followed by the write of the section. `FileIsKnown` (the running program knows
  every session in the file) is what keeps the second write from dropping any.
* `InstantsAreBookedOnce`: `NoInstantInTwoSessions`. `Booked` compares what the sessions
  hold, in memory and in the file, with what may still be booked: the block of the timer,
  the range in hand, the block of the snapshot in the file. What is booked lies in the
  past and apart from the block in progress. The range in hand and the snapshot may hold
  booked instants, since a crash between the two writes leaves both, but only as what
  their recovery books again under the same id (`RecoveredFrom`): so the second booking
  is the first one. That a block recovered twice has the same end both times needs that
  a countdown is no longer than the inactivity that abandons it (`WithinPreset`), which
  every command and every restart keeps.

**Only model-checked.** Liveness, and what needs `ENABLED` (out of the prover's reach).
Of the application, `LossAccountedFor` (of a block handed over, what is not in the file
is in a write that failed or a crash between two) and `SplitIsExact`: both need that the
pieces of a split, which are built by folds, cover the whole range, and what a fold
computes for every input would need induction over data. Of the Social client,
`SpinnersHaveRequests`, `PostsKept`, `AccountWhole` and `VotesSettle`: a step there is a
handler built from a dozen operators on one state of thirty fields, and its leaves were
beyond the time a proof may take. `ModalSettles`, the academic state and the Dashboard,
whose timelines are folds too; the daily games, the break room, and Durak, whose search
is a `RECURSIVE` operator that `MCLocal` reaches.

## 7. Not modelled

Formatting, logging, view adapters and the user interface; the HTTP and JSON codecs; the
decoding and scaling of images; the desktop application that is being ported and the
website; the Social mock, a test double; tray, notifications and single instance, which
are the operating system's. At the Worker: authentication, rate limits of ordinary
routes, leaderboards and the snapshot's queries, moderation pages and profile pictures.
In the modelled parts: notifications; labels and context of a timer; session retention;
the Skribbl lightbox; counts by calendar date, and with them the session that ends
exactly at midnight (`index.ts:592`); the plausibility cap, which a claim of disjoint
intervals shorter than a day cannot reach; two devices of one account in a verified
session (`index.ts:629`); clock skew; comments; exams; canvas strokes; country and word
data; a second process writing the store.

The map covers about 15% of the implementation's lines. What is left is mostly
Slint adapters, codecs, mock data, word and country tables, and the desktop front end
with its own copy of the same rules, none of which has behaviour over time that
the modules above do not already show.

## 8. Plan

Done: all the components above with status *modelled* or *partly*. Left, in order:

1. Proofs: `LossAccountedFor`, on top of `BookingIInv`; `RestNotCutShort`; the Social
   client's invariants, handler by handler.
2. Two devices in `VerifiedSession`; a calendar split in `VerifiedServer`.
3. The desktop application's own synchronisation, where it differs from the native one.

## 9. Running

    tlc -config MCTimer.cfg MCTimer.tla
    tlapm TimerProofs.tla

`PROJECT.json` pairs every run with its module and configuration, and every checked
property with a mutant of the model that breaks it.
