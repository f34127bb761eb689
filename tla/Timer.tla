------------------------------- MODULE Timer -------------------------------
(***************************************************************************)
(* The study timer of study-tracker-core (timer/state.rs): one TimerState, *)
(* one action per TimerCommand, in one run of the process.                 *)
(*                                                                         *)
(* Time is counted in ticks, Tps ticks to the second, so that the places   *)
(* where the code rounds (whole elapsed seconds on the monotonic clock,    *)
(* whole seconds of a segment) lose fractions here too.  `wall` is the     *)
(* wall clock the caller passes in, `mono` the monotonic one, which is 0   *)
(* when the process starts; AppModel::clock derives the first from the     *)
(* second, so within a run they advance together.                          *)
(*                                                                         *)
(* Abstracted: the preset label and the TimerContext, which every command  *)
(* carries along unread; logged_split_seconds, which no command sets to    *)
(* anything but 0; saturation at the ends of i64 and u64.                  *)
(***************************************************************************)
EXTENDS Integers, Sequences, SequencesExt

CONSTANTS
    Tps,        \* ticks per second
    Configs,    \* the timer configurations (presets)
    None,       \* Option::None
    MaxWall,    \* bound: the wall clock stops here
    MaxStart,   \* bound: no Start or Resume after this tick
    MaxSegments \* bound: segments of one block

Modes == {"Focus", "Exam", "Endless"}
Phases == {"Idle", "Study", "Break", "Exam", "Stopwatch"}
StudyPhases == {"Study", "Exam", "Stopwatch"}
Countdowns == {"Study", "Break", "Exam"}
Reasons == {"CountdownElapsed", "ManualSave", "AbandonedRecovery"}

TimerConfig ==
    [mode : Modes, study_seconds : Nat, break_seconds : Nat, exam_seconds : Nat]

ASSUME TimerAssumption ==
    /\ Tps \in Nat \ {0}
    /\ Configs \subseteq TimerConfig
    /\ None \notin Int
    /\ MaxWall \in Nat
    /\ MaxStart \in Nat
    /\ MaxSegments \in Nat

VARIABLES
    timer,      \* the TimerState
    wall,       \* ClockObservation.wall
    mono,       \* ClockObservation.monotonic_millis
    range,      \* the SessionRangeReady event of the last command, or None
    logged      \* every segment a SessionRangeReady has carried (history)

vars == <<timer, wall, mono, range, logged>>
----------------------------------------------------------------------------
(* Types.                                                                  *)

Segment == [started_at : Nat, ended_at : Nat \cup {None}]
ClosedSegment == [started_at : Nat, ended_at : Nat]
RuntimeAnchor == [mono : Nat, value : Nat]
SessionRange == [phase : Phases, reason : Reasons, segments : Seq(ClosedSegment)]

TimerState ==
    [phase : Phases, running : BOOLEAN, remaining_seconds : Nat,
     active_segments : Seq(Segment), started_at : Nat \cup {None},
     ends_at : Nat \cup {None}, last_alive_at : Nat \cup {None},
     config : TimerConfig, anchor : RuntimeAnchor \cup {None}]

ASSUME NoneAssumption == None \notin RuntimeAnchor /\ None \notin SessionRange
----------------------------------------------------------------------------
(* Pure helpers.                                                           *)

PlusSeconds(t, s) == t + s * Tps

(* seconds_until, clamped at 0 as every caller does: the ceiling.          *)
SecondsUntil(end, t) == IF end <= t THEN 0 ELSE (end - t + Tps - 1) \div Tps

(* segment_seconds and seconds_between: the floor, 0 for an inverted pair. *)
SegmentSeconds(s, e) == IF e <= s THEN 0 ELSE (e - s) \div Tps

IsOpen(s) == s.ended_at = None
EndOr(s, t) == IF IsOpen(s) THEN t ELSE s.ended_at
OpenSegment(t) == [started_at |-> t, ended_at |-> None]

CloseOpenSegments(segs, t) ==
    [i \in DOMAIN segs |-> [segs[i] EXCEPT !.ended_at = EndOr(segs[i], t)]]

(* closed_segments, in the form whose type can be proved: a recursive      *)
(* function, as the sum below.                                             *)
ClosedSegments(segs) ==
    LET kept[n \in 0..Len(segs)] ==
            IF n = 0 THEN <<>>
            ELSE IF IsOpen(segs[n]) THEN kept[n - 1] ELSE Append(kept[n - 1], segs[n])
    IN  kept[Len(segs)]

Total(a, n) ==
    LET sum[i \in 0..n] == IF i = 0 THEN 0 ELSE sum[i - 1] + a[i]
    IN  sum[n]

SumSeconds(segs, t) ==
    Total([i \in DOMAIN segs |-> SegmentSeconds(segs[i].started_at, EndOr(segs[i], t))],
          Len(segs))

IdleSeconds(c) ==
    CASE c.mode = "Focus" -> c.study_seconds
      [] c.mode = "Exam" -> c.exam_seconds
      [] c.mode = "Endless" -> 0

ConfiguredSeconds(t) ==
    CASE t.phase = "Exam" -> t.config.exam_seconds
      [] t.phase = "Break" -> t.config.break_seconds
      [] t.phase = "Stopwatch" -> t.remaining_seconds
      [] OTHER -> t.config.study_seconds

\* slip: a plain subtraction
MinusUnclamped(a, b) == a - b
Greater(a, b) == IF a <= b THEN b ELSE a
Minus(a, b) == IF a <= b THEN 0 ELSE a - b      \* saturating_sub

\* slip: the elapsed time rounded up
RemainingRoundedDown(t) ==
    IF t.anchor = None
    THEN IF t.ends_at = None THEN t.remaining_seconds
         ELSE SecondsUntil(t.ends_at, wall)
    ELSE Minus(t.anchor.value, (Minus(mono, t.anchor.mono) + Tps - 1) \div Tps)

RemainingFromRuntime(t) ==
    IF t.anchor = None
    THEN IF t.ends_at = None THEN t.remaining_seconds
         ELSE SecondsUntil(t.ends_at, wall)
    ELSE Minus(t.anchor.value, Minus(mono, t.anchor.mono) \div Tps)

ActiveSeconds(t) ==
    LET total == SumSeconds(t.active_segments, wall)
    IN  IF t.phase \notin StudyPhases THEN 0
        ELSE IF total > 0 THEN total
        ELSE IF t.phase = "Stopwatch" THEN t.remaining_seconds
        ELSE Minus(ConfiguredSeconds(t), t.remaining_seconds)

DisplaySeconds(t) ==
    IF ~t.running THEN t.remaining_seconds
    ELSE IF t.phase = "Stopwatch" THEN ActiveSeconds(t)
    ELSE RemainingFromRuntime(t)

NewTimer(c) ==
    [phase |-> "Idle", running |-> FALSE, remaining_seconds |-> IdleSeconds(c),
     active_segments |-> <<>>, started_at |-> None, ends_at |-> None,
     last_alive_at |-> None, config |-> c, anchor |-> None]

(* reset_to_idle_preserving_context: last_alive_at is left alone.          *)
ResetToIdle(t) == [NewTimer(t.config) EXCEPT !.last_alive_at = t.last_alive_at]

(* session_events: a block without a closed segment carries no range.      *)
RangeOf(phase, reason, segs) ==
    IF segs = <<>> THEN None
    ELSE [phase |-> phase, reason |-> reason, segments |-> segs]

(* Every closed segment of a range, as the set the history keeps.          *)
Elements(segs) == {segs[i] : i \in DOMAIN segs}

(* The event a command hands to the application, kept in the history.      *)
Emit(r) ==
    /\ range' = r
    /\ logged' = logged \cup (IF r = None THEN {} ELSE Elements(r.segments))
----------------------------------------------------------------------------
(* The commands.  A command whose guard fails changes nothing and emits    *)
(* nothing; every step below emits PersistenceRequested.                   *)

Init ==
    /\ \E c \in Configs : timer = NewTimer(c)
    /\ wall = 0
    /\ mono = 0
    /\ range = None
    /\ logged = {}

Tick ==
    /\ wall < MaxWall
    /\ wall' = wall + 1
    /\ mono' = mono + 1
    /\ range' = None
    /\ UNCHANGED <<timer, logged>>

PhaseOfMode(m) ==
    CASE m = "Focus" -> "Study" [] m = "Exam" -> "Exam" [] m = "Endless" -> "Stopwatch"

(* start, of an idle timer; started in another phase it is Resume.         *)
Start ==
    LET endless == timer.config.mode = "Endless"
        total == IF endless THEN 0 ELSE Greater(timer.remaining_seconds, 1)
    IN  /\ timer.phase = "Idle"
        /\ ~timer.running
        /\ wall <= MaxStart
        /\ timer' = [timer EXCEPT
                !.phase = PhaseOfMode(timer.config.mode),
                !.running = TRUE,
                !.started_at = wall,
                !.ends_at = IF endless THEN None ELSE PlusSeconds(wall, total),
                !.remaining_seconds = total,
                !.active_segments = <<OpenSegment(wall)>>,
                !.anchor = [mono |-> mono, value |-> total]]
        /\ Emit(None)
        /\ UNCHANGED <<wall, mono>>

\* slip: the open segment is left open
PauseKeepsOpen ==
    /\ timer.phase # "Idle"
    /\ timer.running
    /\ timer' = [timer EXCEPT !.remaining_seconds = DisplaySeconds(timer),
                             !.running = FALSE, !.ends_at = None, !.anchor = None]
    /\ Emit(None)
    /\ UNCHANGED <<wall, mono>>

(* pause, and TogglePaused of a running timer.                             *)
Pause ==
    /\ timer.phase # "Idle"
    /\ timer.running
    /\ timer' = [timer EXCEPT
            !.remaining_seconds = DisplaySeconds(timer),
            !.running = FALSE,
            !.ends_at = None,
            !.active_segments = CloseOpenSegments(@, wall),
            !.anchor = None]
    /\ Emit(None)
    /\ UNCHANGED <<wall, mono>>

\* slip: a resumed countdown starts over
TimeRestarted(t) == ConfiguredSeconds(t)

(* What a resumed timer counts from: seconds left, or seconds elapsed.     *)
TimeOnResume(t) ==
    IF t.phase = "Stopwatch" THEN Greater(ActiveSeconds(t), t.remaining_seconds)
    ELSE t.remaining_seconds

(* resume, and TogglePaused of a paused timer: also of a paused Break,     *)
(* which is how a Break comes to hold segments.                            *)
Resume ==
    LET stopwatch == timer.phase = "Stopwatch"
        left == TimeOnResume(timer)
    IN  /\ timer.phase # "Idle"
        /\ ~timer.running
        /\ wall <= MaxStart
        /\ Len(timer.active_segments) < MaxSegments
        /\ timer' = [timer EXCEPT
                !.running = TRUE,
                !.started_at = wall,
                !.remaining_seconds = left,
                !.ends_at = IF stopwatch THEN None ELSE PlusSeconds(wall, left),
                !.anchor = [mono |-> mono, value |-> left],
                !.active_segments = Append(@, OpenSegment(wall))]
        /\ Emit(None)
        /\ UNCHANGED <<wall, mono>>

(* reset: a timer that is already fresh emits nothing.                     *)
Reset ==
    /\ timer.phase # "Idle" \/ timer.running \/ timer.active_segments # <<>>
       \/ timer.remaining_seconds # IdleSeconds(timer.config)
    /\ timer' = ResetToIdle(timer)
    /\ Emit(None)
    /\ UNCHANGED <<wall, mono>>

SetMode(m) ==
    /\ timer.phase = "Idle"
    /\ ~timer.running
    /\ timer' = [timer EXCEPT
            !.config.mode = m,
            !.remaining_seconds = IdleSeconds([timer.config EXCEPT !.mode = m])]
    /\ Emit(None)
    /\ UNCHANGED <<wall, mono>>

\* slip: the block is saved and stays open
SaveAndContinue ==
    /\ timer.phase \in StudyPhases
    /\ ActiveSeconds(timer) > 0
    /\ timer' = [timer EXCEPT !.running = FALSE, !.ends_at = None, !.anchor = None,
                             !.active_segments = CloseOpenSegments(@, wall)]
    /\ Emit(RangeOf(timer.phase, "ManualSave", timer'.active_segments))
    /\ UNCHANGED <<wall, mono>>

CompleteManually ==
    LET segs == IF timer.running THEN CloseOpenSegments(timer.active_segments, wall)
                ELSE timer.active_segments
    IN  /\ timer.phase \in StudyPhases
        /\ ActiveSeconds(timer) > 0
        /\ timer' = ResetToIdle(timer)
        /\ Emit(RangeOf(timer.phase, "ManualSave", ClosedSegments(segs)))
        /\ UNCHANGED <<wall, mono>>

(* The break that follows a Focus block starts where the block ended, not  *)
(* where its end was noticed.                                              *)
BreakStart(t, segs) ==
    IF segs # <<>> /\ ~IsOpen(Last(segs)) THEN Last(segs).ended_at
    ELSE IF t.started_at # None THEN t.started_at ELSE 0

StartBreak(t, start) ==
    [t EXCEPT !.phase = "Break", !.running = TRUE, !.started_at = start,
              !.ends_at = PlusSeconds(start, t.config.break_seconds),
              !.remaining_seconds = t.config.break_seconds,
              !.active_segments = <<>>, !.anchor = None]

\* slip: a countdown without an anchor is never looked at
AnchoredExpired == /\ timer.running
                   /\ timer.phase # "Stopwatch"
                   /\ timer.anchor # None
                   /\ DisplaySeconds(timer) = 0

Expired == /\ timer.running
           /\ timer.phase # "Stopwatch"
           /\ DisplaySeconds(timer) = 0

\* slip: the block ends when its end is noticed
EndWhenNoticed(t) == wall
BlockEnd(t) == IF t.ends_at = None THEN wall ELSE t.ends_at

(* observe_time, the only command the clock sends: it acts once the        *)
(* countdown has run out, and ends the block where the countdown ended.    *)
ObserveTime ==
    LET end == BlockEnd(timer)
        segs == CloseOpenSegments(timer.active_segments, end)
        rests == timer.phase = "Study" /\ timer.config.mode = "Focus"
                 /\ timer.config.break_seconds > 0
    IN  /\ Expired
        /\ timer' = IF rests THEN StartBreak(timer, BreakStart(timer, segs))
                    ELSE ResetToIdle(timer)
        /\ Emit(IF timer.phase = "Break" THEN None
                ELSE RangeOf(timer.phase, "CountdownElapsed", ClosedSegments(segs)))
        /\ UNCHANGED <<wall, mono>>

Command ==
    \/ Start \/ Pause \/ Resume \/ Reset \/ CompleteManually \/ ObserveTime
    \/ \E m \in Modes : SetMode(m)

Next == Tick \/ Command

(* The clock advances and the application polls it twice a second; nothing *)
(* obliges the student to do anything.                                     *)
Fairness == WF_vars(Tick) /\ WF_vars(ObserveTime)

Spec == Init /\ [][Next]_vars
FairSpec == Spec /\ Fairness
----------------------------------------------------------------------------
(* Properties.                                                             *)

(* Every variable has the type its Rust declaration gives it.              *)
TypeOK ==
    /\ timer \in TimerState
    /\ wall \in Nat
    /\ mono \in Nat
    /\ range \in SessionRange \cup {None}
    /\ logged \subseteq ClosedSegment

(* s is over by the time t starts.                                         *)
Before(s, t) == s.ended_at # None /\ s.ended_at <= t.started_at

(* The segments of a block are consecutive stretches of the past, and one  *)
(* is open exactly while a running timer accumulates: what start, pause,   *)
(* resume and the closing calls together leave of active_segments.         *)
SegmentsWellFormed ==
    LET segs == timer.active_segments
        n == Len(segs)
    IN  /\ \A i, j \in 1..n : i < j => Before(segs[i], segs[j])
        /\ \A i \in 1..n : /\ segs[i].started_at <= wall
                           /\ ~IsOpen(segs[i]) =>
                                /\ segs[i].started_at <= segs[i].ended_at
                                /\ segs[i].ended_at <= wall
        /\ n > 0 => (IsOpen(segs[n]) <=> timer.running)
        /\ timer.phase \in StudyPhases => n > 0
        /\ timer.phase = "Idle" => n = 0 /\ ~timer.running

(* observe_time decides on the monotonic clock and dates the end on the    *)
(* wall clock: a countdown is never found expired before its own ends_at,  *)
(* so no range ends in the future.                                         *)
NeverEarly == Expired => timer.ends_at # None /\ timer.ends_at <= wall

(* No instant reaches the history in two ranges, nor is one of the block   *)
(* in progress already there: whatever order of pauses, saves, resets and  *)
(* expiries the student and the clock find.                                *)
NoInstantLoggedTwice ==
    /\ \A s, t \in logged : s = t \/ Before(s, t) \/ Before(t, s)
    /\ \A s \in logged : \A i \in DOMAIN timer.active_segments :
            Before(s, timer.active_segments[i])

Ticks(s, end) == {t \in s.started_at..(end - 1) : t < EndOr(s, end)}
TicksOf(segs, end) == UNION {Ticks(segs[i], end) : i \in DOMAIN segs}

(* A countdown that runs out was studied to the last tick, however often   *)
(* it was paused: rounding the remaining time to whole seconds at a pause  *)
(* (pause, remaining_from_runtime) only ever gives time, it takes none.    *)
FullCountdown ==
    range # None /\ range.reason = "CountdownElapsed" =>
        Cardinality(TicksOf(range.segments, wall))
            >= Tps * Greater(IdleSeconds(timer.config), 1)

(* Through pauses and resumes of one block the countdown shown never goes  *)
(* up and the stopwatch never goes down: display_seconds switches between  *)
(* three sources (the field, the anchor, the segments) that must agree.    *)
DisplayMonotone ==
    [][timer.phase = timer'.phase /\ timer.phase # "Idle" =>
         IF timer.phase = "Stopwatch"
         THEN DisplaySeconds(timer)' >= DisplaySeconds(timer)
         ELSE DisplaySeconds(timer)' <= DisplaySeconds(timer)]_vars

(* A deadline does not stand for ever: a running countdown, the break      *)
(* without an anchor included, completes or is stopped.                    *)
CountdownEnds ==
    \A e \in 0..MaxWall :
        (timer.running /\ timer.ends_at = e) ~> timer.ends_at # e

(* What the ledger's reader sees of the timer.                             *)
AtWork == timer.running /\ timer.phase \in StudyPhases
OpenDeadline == IF timer.phase \in StudyPhases THEN timer.ends_at ELSE None
WorkedTicks ==
    IF timer.phase \in StudyPhases THEN TicksOf(timer.active_segments, wall) ELSE {}
CreditedTicks == UNION {s.started_at..(s.ended_at - 1) : s \in logged}
LastNotice ==
    IF range = None THEN "none"
    ELSE IF range.reason = "ManualSave" THEN "saved" ELSE "expired"

(* The timer implements the ledger: `block` is what its segments cover,    *)
(* `ledger` what the ranges it handed over cover.  Break time, paused time *)
(* and the time after a missed deadline are nowhere in it.                 *)
Ledger == INSTANCE StudyLedger WITH
    now <- wall, counting <- AtWork, deadline <- OpenDeadline,
    block <- WorkedTicks, ledger <- CreditedTicks, notice <- LastNotice
LedgerSpec == Ledger!Spec
=============================================================================
