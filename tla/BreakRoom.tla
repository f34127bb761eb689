------------------------------ MODULE BreakRoom ------------------------------
(***************************************************************************)
(* The Break Room: unlocks paid for with the day's study, badges counted    *)
(* once a day, achievements dated when they turn earned                    *)
(* (break_room/{state,achievements}.rs), the controller that owns the      *)
(* record (break_room_controller.rs) and the section of the store it is    *)
(* kept in (persistence/break_room_port.rs).                               *)
(*                                                                         *)
(* Study is counted in tokens: one unit is MINUTES_PER_TOKEN minutes.  The *)
(* garden badges stand for all that is derived from the sessions and may   *)
(* dip again, the rock for all that is counted up to a threshold.  The     *)
(* puzzles behind the cards are modules Durak's and DailyGames'.           *)
(***************************************************************************)
EXTENDS Integers, FiniteSets

CONSTANTS
    Games,          \* the catalogue of six
    Hours,          \* the hours of the day at which a game is played
    Offset,         \* local time less UTC, in hours
    OnFireAt,       \* unlock streak of On Fire: 3
    VeteranAt,      \* unlocks of Veteran: 10
    RockAt,         \* pats of a milestone of the rock
    GardenAt,       \* tokens of a day at which the garden badge is earned
    LastDate,       \* bound: the last day
    MaxUnits,       \* bound: units studied in a day
    MaxLostWrites,    \* bound: writes that fail
    MaxLaunches,    \* bound: times the program is started
    Never

VARIABLES
    date,           \* the local calendar day
    studied,        \* units studied on each day: [all, longest]
    revision,       \* AcademicState's revision
    up,             \* the program runs
    control,        \* BreakRoomController, but for its record
    record,         \* BreakRoomController.record
    disk,           \* the break_room section of the store
    spent           \* how much of each bound is used up

breakVars == <<date, studied, revision, up, control, record, disk, spent>>

Badges == {"full-house", "early-bird", "night-owl", "speedrunner", "perfectionist"}
Achievements == Badges \cup {"first-break", "on-fire", "explorer", "veteran", "rock", "garden"}
GameCount == Cardinality(Games)
Days == 0..LastDate

NoRecord ==
    [unlocked |-> {}, unlockedOn |-> Never, played |-> {}, playedOn |-> Never,
     total |-> 0, streak |-> 0, lastUnlock |-> Never, speedrunner |-> FALSE,
     allTime |-> {}, counts |-> [b \in Badges |-> 0],
     countedOn |-> [b \in Badges |-> Never], pats |-> 0,
     dates |-> [a \in Achievements |-> Never]]

(* Before the first sync of a launch: no inputs, no baseline.              *)
NewControl(today, unlocked) ==
    [key |-> Never, today |-> today, units |-> 0, longest |-> 0, baseline |-> Never,
     unlocked |-> unlocked]
-----------------------------------------------------------------------------
(* The economy: BreakRoomState.                                            *)

UnlockedToday(r, today) == IF r.unlockedOn = today THEN r.unlocked ELSE {}
PlayedToday(r, today) == IF r.playedOn = today THEN r.played ELSE {}
Tokens(units) == IF units < GameCount THEN units ELSE GameCount
CanUnlockMore(r, today, units) == Cardinality(UnlockedToday(r, today)) < Tokens(units)

(* Local midnight of today against UTC midnight of the last unlock.        *)
NewStreak(r, today) ==
    IF r.lastUnlock = Never THEN 1
    ELSE CASE 24 * (today - r.lastUnlock) - Offset = 24 -> r.streak + 1
           [] 24 * (today - r.lastUnlock) - Offset = 0  -> r.streak
           [] OTHER -> 1

UnlockGame(r, game, today, inOneSession) ==
    LET fresh == UnlockedToday(r, today)
    IN [r EXCEPT !.unlocked = fresh \cup {game}, !.unlockedOn = today, !.total = @ + 1,
                 !.speedrunner = \/ r.lastUnlock = today /\ @
                                 \/ fresh = {} /\ inOneSession,
                 !.streak = NewStreak(r, today), !.lastUnlock = today]

LogPlayed(r, game, hour, today) ==
    [r EXCEPT !.played = PlayedToday(r, today) \cup {<<game, hour>>},
              !.playedOn = today, !.allTime = @ \cup {game}]

(* slip: a badge is counted each time it is seen earned.                   *)
CountEverySight(r, hits, today) ==
    [r EXCEPT !.counts = [b \in Badges |-> @[b] + IF b \in hits THEN 1 ELSE 0]]

(* count_daily_badges.                                                     *)
CountDailyBadges(r, hits, today) ==
    LET counted == {b \in hits : r.countedOn[b] # today}
    IN [r EXCEPT !.counts = [b \in Badges |-> @[b] + IF b \in counted THEN 1 ELSE 0],
                 !.countedOn = [b \in Badges |-> IF b \in counted THEN today ELSE @[b]]]
-----------------------------------------------------------------------------
(* The achievements.                                                       *)

(* BreakFlags::compute and daily_hits.                                     *)
DailyHits(r, today) ==
    LET all == UnlockedToday(r, today) = Games
        hours == {p[2] : p \in PlayedToday(r, today)}
    IN {b \in Badges :
        CASE b = "full-house"    -> all
          [] b = "early-bird"    -> \E h \in hours : h < 9
          [] b = "night-owl"     -> \E h \in hours : h >= 22
          [] b = "speedrunner"   -> r.speedrunner /\ r.lastUnlock = today
          [] b = "perfectionist" -> all /\ {p[1] : p \in PlayedToday(r, today)} = Games}

(* evaluate: what is earned; a daily badge once counted stays earned.      *)
Earned(r, today, units) ==
    DailyHits(r, today)
    \cup {b \in Badges : r.counts[b] > 0}
    \cup {a \in Achievements \ Badges :
            CASE a = "first-break" -> r.total >= 1
              [] a = "on-fire"     -> r.streak >= OnFireAt
              [] a = "explorer"    -> r.allTime = Games
              [] a = "veteran"     -> r.total >= VeteranAt
              [] a = "rock"        -> r.pats >= RockAt
              [] a = "garden"      -> units >= GardenAt}

(* slip: an achievement earned again is dated again.                       *)
ObserveAgain(r, baseline, earned, today) ==
    IF baseline = Never THEN r
    ELSE [r EXCEPT !.dates = [a \in Achievements |->
            IF a \in earned \ baseline THEN today ELSE @[a]]]

(* EarnedDateTracker::observe: the first evaluation after a launch dates   *)
(* nothing.                                                                *)
Observe(r, baseline, earned, today) ==
    IF baseline = Never THEN r
    ELSE [r EXCEPT !.dates = [a \in Achievements |->
            IF a \in earned \ baseline /\ @[a] = Never THEN today ELSE @[a]]]

(* derive: the record and the controller after it.                         *)
DerivedRecord(r, c) ==
    LET counted == CountDailyBadges(r, DailyHits(r, c.today), c.today)
    IN Observe(counted, c.baseline, Earned(counted, c.today, c.units), c.today)
DerivedControl(r, c) ==
    [c EXCEPT !.unlocked = UnlockedToday(r, c.today),
              !.baseline = Earned(DerivedRecord(r, c), c.today, c.units)]
-----------------------------------------------------------------------------
BreakInit ==
    /\ date = 0 /\ revision = 0
    /\ studied = [d \in Days |-> [all |-> 0, longest |-> 0]]
    /\ up = FALSE /\ control = NewControl(0, {})
    /\ record = NoRecord /\ disk = NoRecord
    /\ spent = [failures |-> 0, launches |-> 0]

(* FileBreakRoomPort::persist: a write that fails is logged, and the       *)
(* record goes on in memory.                                               *)
PersistBreak(r) ==
    /\ record' = r
    /\ \/ disk' = r /\ UNCHANGED spent
       \/ /\ spent.failures < MaxLostWrites
          /\ disk' = disk /\ spent' = [spent EXCEPT !.failures = @ + 1]

(* A study session of so many units ends, and the history has it.          *)
Study(n) ==
    /\ studied[date].all + n <= MaxUnits
    /\ studied' = [studied EXCEPT ![date].all = @ + n,
                                  ![date].longest = IF n > @ THEN n ELSE @]
    /\ revision' = revision + 1
    /\ UNCHANGED <<date, up, control, record, disk, spent>>

(* slip: on a new day the inputs of the day before are kept.               *)
ResyncedKeepingInputs ==
    [control EXCEPT !.key = <<revision, date>>, !.today = date,
                    !.units = IF control.today = date THEN studied[date].all ELSE @,
                    !.longest = IF control.today = date THEN studied[date].longest ELSE @]

Resynced ==
    [control EXCEPT !.key = <<revision, date>>, !.today = date,
                    !.units = studied[date].all, !.longest = studied[date].longest]

(* sync, after a change of the academic state or of the day.               *)
SyncBreak ==
    /\ up /\ control.key # <<revision, date>>
    /\ control' = DerivedControl(record, Resynced)
    /\ LET derived == DerivedRecord(record, Resynced)
       IN IF derived = record THEN UNCHANGED <<record, disk, spent>>
          ELSE PersistBreak(derived)
    /\ UNCHANGED <<date, studied, revision, up>>

(* changed, after an action of the user: derive, then persist.             *)
Changed(r, c) ==
    /\ control' = DerivedControl(r, c)
    /\ PersistBreak(DerivedRecord(r, c))
    /\ UNCHANGED <<date, studied, revision, up>>

Unlock(game) ==
    /\ up
    /\ CanUnlockMore(record, control.today, control.units)
    /\ game \notin UnlockedToday(record, control.today)
    /\ Changed(UnlockGame(record, game, control.today, control.longest >= 1), control)

Play(game, hour) ==
    /\ up /\ game \in control.unlocked
    /\ Changed(LogPlayed(record, game, hour, control.today), control)

PatRock ==
    /\ up /\ record.pats < RockAt
    /\ Changed([record EXCEPT !.pats = @ + 1], control)

Midnight ==
    /\ date < LastDate /\ date' = date + 1
    /\ UNCHANGED <<studied, revision, up, control, record, disk, spent>>

(* BreakRoomController::load; what is not on disk is forgotten.            *)
Launch ==
    /\ ~up /\ spent.launches < MaxLaunches
    /\ up' = TRUE /\ record' = disk
    /\ control' = NewControl(date, UnlockedToday(disk, date))
    /\ spent' = [spent EXCEPT !.launches = @ + 1]
    /\ UNCHANGED <<date, studied, revision, disk>>

Leave ==
    /\ up /\ up' = FALSE
    /\ control' = NewControl(0, {}) /\ record' = NoRecord
    /\ UNCHANGED <<date, studied, revision, disk, spent>>

BreakNext ==
    \/ \E n \in 1..2 : Study(n)
    \/ SyncBreak \/ PatRock \/ Midnight \/ Launch \/ Leave
    \/ \E g \in Games : Unlock(g) \/ \E h \in Hours : Play(g, h)

BreakSpec == BreakInit /\ [][BreakNext]_breakVars
-----------------------------------------------------------------------------
(* What was unlocked on a day was paid for with the study of that day,     *)
(* whatever midnight, a sync still to come or a restart lay between.       *)
UnlocksPaidFor ==
    \A r \in {record, disk} :
        r.unlockedOn # Never =>
            Cardinality(r.unlocked) <= Tokens(studied[r.unlockedOn].all)

(* "badges counted once per day": no badge has more counts than days       *)
(* began, over any number of evaluations, restarts and failed writes.      *)
BadgeOncePerDay ==
    \A r \in {record, disk} : \A b \in Badges :
        r.counts[b] <= date + 1 /\ (r.counts[b] > 0 => r.countedOn[b] # Never)

(* "a later dip and re-earn keeps its first date": a date on disk is never *)
(* changed nor lost again.                                                 *)
DatesStand ==
    [][\A a \in Achievements :
        disk.dates[a] # Never => disk'.dates[a] = disk.dates[a]]_breakVars
=============================================================================
