---------------------------- MODULE StudyTracker ----------------------------
(***************************************************************************)
(* The native application around the timer: TimerController and AppModel   *)
(* drive the core, each persisted command is followed by the bridge that   *)
(* turns a completed range into study sessions, and both live in two       *)
(* sections of one store file.  The process may die between any two writes *)
(* and starts again from the file; a write may fail, which both ports only *)
(* log.  An ordinary quit writes nothing, so it is a crash too.            *)
(*                                                                         *)
(* Within a step the timer section is written before the academic section  *)
(* is touched (AppModel::apply_timer_command; with_timer_persistence at a  *)
(* start), and each write is atomic (NativeStore::save renames a complete  *)
(* file into place).                                                       *)
(*                                                                         *)
(* Abstracted: the rest of the academic state; the retention of old        *)
(* sessions; the notification outbox; the wall clock stepping back while   *)
(* the process is down.                                                    *)
(***************************************************************************)
EXTENDS TimerRestore, SessionSplit

CONSTANTS
    DefaultConfig,  \* the preset of a fresh profile
    MaxCrashes,     \* bound: crashes and quits
    MaxFailures     \* bound: writes that fail

ASSUME TrackerAssumption ==
    /\ DefaultConfig \in Configs
    /\ MaxCrashes \in Nat
    /\ MaxFailures \in Nat
    \* the presets of default_modes run at most two hours
    /\ \A c \in Configs : c.study_seconds <= AbandonAfter
                          /\ c.exam_seconds <= AbandonAfter

VARIABLES
    sessions,   \* AcademicState.sessions, in memory
    disk,       \* the store file: its timer section and its sessions
    pc,         \* "ready", "routing" (between the two writes), "loading", "down"
    made,       \* fresh_session_id's counter, one per process
    crashes, failures,
    handed,     \* history: the instants of every study range handed over
    worked,     \* history: every instant at which study time was running
    diverged    \* history: a timer write of a live command has failed

store == <<sessions, disk, made>>
history == <<handed, worked, diverged>>
allVars == <<timer, wall, mono, range, logged, sessions, disk, pc, made,
             crashes, failures, handed, worked, diverged>>
----------------------------------------------------------------------------
IsStudyRange(r) == r # None /\ r.phase \in StudyPhases

(* session_kind_for_phase: a break's range makes no session.               *)
RangeInstants(r) == IF IsStudyRange(r) THEN TicksOf(r.segments, wall) ELSE {}

\* slip: recovered sessions get fresh ids too
FreshSessionId(r, bucket, now, nth) == <<"session", now, nth>>

SessionId(r, bucket, now, nth) ==
    IF r.reason = "AbandonedRecovery"
    THEN <<"recovered", r.phase, bucket.start, bucket.end>>
    ELSE <<"session", now, nth>>

(* The sessions of a range, with the instants each one stands for.         *)
SessionsOf(r, now, n) ==
    IF ~IsStudyRange(r) THEN {}
    ELSE LET buckets == Buckets(r.segments)
         IN  {[id |-> SessionId(r, buckets[i], now, n + i - 1),
               started_at |-> buckets[i].start, ended_at |-> buckets[i].end,
               active |-> buckets[i].active,
               instants |-> {t \in RangeInstants(r) : LocalDay(t) = buckets[i].day}]
                : i \in DOMAIN buckets}

(* add_study_sessions: a session whose id is known already is skipped.     *)
NewSessions(known, candidates) ==
    {s \in candidates : \A k \in known : k.id # s.id}

(* A write reaches the file, or fails and is only logged.                  *)
Write(section, value) ==
    \/ disk' = [disk EXCEPT ![section] = value] /\ UNCHANGED failures
    \/ failures < MaxFailures /\ failures' = failures + 1 /\ UNCHANGED disk

(* The timer section, written for a live command.                          *)
PersistTimer(alive) ==
    /\ Write("timer", Snapshot(timer', alive))
    /\ diverged' = (diverged \/ failures' # failures)

Hand(r) == handed' = handed \cup ({RangeInstants(r)} \ {{}})

TrackerInit ==
    /\ timer = NewTimer(DefaultConfig)
    /\ wall = 0 /\ mono = 0 /\ range = None /\ logged = {}
    /\ sessions = {}
    /\ disk = [timer |-> None, sessions |-> {}]
    /\ pc = "ready"
    /\ made = 0 /\ crashes = 0 /\ failures = 0
    /\ handed = {} /\ worked = {} /\ diverged = FALSE
----------------------------------------------------------------------------
(* The clock advances while the process waits for input, and while it is   *)
(* down.  A countdown on disk then still runs, up to its deadline.         *)
CountingUp == timer.running /\ timer.phase \in StudyPhases
CountingDown ==
    /\ disk.timer # None
    /\ RunningCountdown(disk.timer)
    /\ wall < disk.timer.ends_at

TickUp ==
    /\ pc = "ready"
    /\ Tick
    /\ worked' = IF CountingUp THEN worked \cup {wall} ELSE worked
    /\ UNCHANGED <<store, pc, crashes, failures, handed, diverged>>

TickDown ==
    /\ pc = "down"
    /\ wall < MaxWall
    /\ wall' = wall + 1
    /\ worked' = IF CountingDown THEN worked \cup {wall} ELSE worked
    /\ UNCHANGED <<timer, mono, range, logged, store, pc, crashes, failures,
                   handed, diverged>>

(* AppModel::apply_timer_command, up to the first write.                   *)
Apply(command, alive) ==
    /\ pc = "ready"
    /\ command
    /\ PersistTimer(alive)
    /\ Hand(range')
    /\ pc' = IF range' = None THEN "ready" ELSE "routing"
    /\ UNCHANGED <<sessions, made, crashes, worked>>

AppStart == Apply(Start, wall)
AppPause == Apply(Pause, wall)
AppResume == Apply(Resume, wall)
AppComplete == Apply(CompleteManually, wall)
AppRefresh == Apply(ObserveTime, wall)
(* The reset button passes the instant the process started at.             *)
AppReset == Apply(Reset, wall - mono)

(* AppCommand::SetMode builds a new timer and writes nothing.              *)
AppSetMode(c) ==
    /\ pc = "ready"
    /\ timer.phase = "Idle"
    /\ ~timer.running
    /\ timer' = NewTimer(c)
    /\ range' = None
    /\ UNCHANGED <<wall, mono, logged, store, pc, crashes, failures, history>>

\* slip: the sessions of a range replace those before
InsertAlone(known) ==
    LET new == NewSessions(known, SessionsOf(range, wall, made))
    IN  /\ sessions' = new
        /\ IF new = {} THEN UNCHANGED <<disk, failures>>
           ELSE Write("sessions", sessions')

\* slip: the memory is updated and the file is not
InsertUnsaved(known) ==
    /\ sessions' = known \cup NewSessions(known, SessionsOf(range, wall, made))
    /\ UNCHANGED <<disk, failures>>

(* route_timer_effects, the second write: of the whole academic state, and *)
(* only when a session is new.                                             *)
Insert(known) ==
    LET new == NewSessions(known, SessionsOf(range, wall, made))
    IN  /\ sessions' = known \cup new
        /\ IF new = {} THEN UNCHANGED <<disk, failures>>
           ELSE Write("sessions", sessions')

(* Every bucket of a live range takes a number, inserted or not.            *)
MadeIds(r) ==
    IF IsStudyRange(r) /\ r.reason # "AbandonedRecovery" THEN Len(Buckets(r.segments)) ELSE 0

Route ==
    /\ pc = "routing"
    /\ Insert(sessions)
    /\ made' = made + MadeIds(range)
    /\ pc' = "ready"
    /\ range' = None
    /\ UNCHANGED <<timer, wall, mono, logged, crashes, history>>

(* The process dies or quits: what was only in memory is gone.             *)
Crash ==
    /\ pc # "down"
    /\ crashes < MaxCrashes
    /\ crashes' = crashes + 1
    /\ pc' = "down"
    /\ timer' = NewTimer(DefaultConfig)
    /\ sessions' = {}
    /\ range' = None
    /\ mono' = 0
    /\ made' = 0
    /\ UNCHANGED <<wall, logged, disk, failures, history>>

(* with_timer_persistence: the timer section is read, restored and written *)
(* back at once (force_persist); without one the profile is fresh.         *)
Restart ==
    LET outcome == RestoreTimer(disk.timer, wall)
    IN  /\ pc = "down"
        /\ pc' = "loading"
        /\ IF disk.timer = None
           THEN /\ timer' = NewTimer(DefaultConfig)
                /\ Emit(None)
                /\ UNCHANGED <<disk, failures>>
           ELSE /\ timer' = outcome.timer
                /\ Emit(outcome.range)
                /\ Write("timer", Snapshot(outcome.timer, wall))
        /\ Hand(range')
        /\ UNCHANGED <<wall, mono, sessions, made, crashes, worked, diverged>>

(* load_or_new, and the route of what the restore has recovered.           *)
LoadAcademic ==
    /\ pc = "loading"
    /\ Insert(disk.sessions)
    /\ pc' = "ready"
    /\ range' = None
    /\ UNCHANGED <<timer, wall, mono, logged, made, crashes, history>>

Live ==
    \/ AppStart \/ AppPause \/ AppResume \/ AppComplete \/ AppRefresh \/ AppReset
    \/ \E c \in Configs : AppSetMode(c)
    \/ Route

TrackerNext == TickUp \/ TickDown \/ Live \/ Crash \/ Restart \/ LoadAcademic

TrackerSpec == TrackerInit /\ [][TrackerNext]_allVars

(* Route and LoadAcademic, and Restart, as what they do to pc.             *)
Works == pc \in {"routing", "loading"} /\ pc' = "ready"
Reopens == pc = "down" /\ pc' = "loading"

(* The clock goes on, the process works off what it has begun and polls    *)
(* the timer, and the student opens the application again some time.       *)
TrackerFairness ==
    /\ WF_allVars(TickUp)
    /\ WF_allVars(AppRefresh)
    /\ WF_pc(Works)
    /\ WF_pc(Reopens)

TrackerFairSpec == TrackerSpec /\ TrackerFairness
----------------------------------------------------------------------------
(* Properties.                                                             *)

InstantsOf(ss) == UNION {s.instants : s \in ss}

(* Every variable has its type, and the counters stay within their bounds. *)
TrackerTypeOK ==
    /\ timer \in TimerState
    /\ disk.timer \in TimerState \cup {None}
    /\ disk.timer # None => disk.timer.anchor = None
    /\ range \in SessionRange \cup {None}
    /\ pc \in {"ready", "routing", "loading", "down"}
    /\ crashes \in 0..MaxCrashes /\ failures \in 0..MaxFailures
    /\ pc # "down" => mono <= wall
    /\ \A s \in sessions \cup disk.sessions :
          s.started_at <= s.ended_at /\ s.active = Cardinality(s.instants)

(* No instant of study time is in two sessions, live or recovered, however *)
(* often the process dies and whether or not the write that follows a      *)
(* restore succeeds: the deterministic ids of recovered_session_id make a  *)
(* second recovery of the same block the same session.  It takes that      *)
(* every live command has reached the file: a block that completes while   *)
(* the timer section cannot be written is recovered once more.             *)
NoInstantInTwoSessions ==
    ~diverged =>
        \A s, t \in sessions \cup disk.sessions :
            s.id # t.id => s.instants \cap t.instants = {}

(* The sessions on disk lack a completed block only for a crash between    *)
(* the two writes, or for a failed write: one block each at most.          *)
LossAccountedFor ==
    pc = "ready" =>
        Cardinality({h \in handed : ~ h \subseteq InstantsOf(disk.sessions)})
            <= crashes + failures

(* No session holds an instant at which no study time was running: pauses, *)
(* breaks, and the time a stopwatch was down for are never credited, by    *)
(* whichever of its paths restore_timer comes back.                        *)
CreditedWasWorked ==
    failures = 0 => InstantsOf(sessions \cup disk.sessions) \subseteq worked

(* A session in the file stays in the file, through crashes, restarts and  *)
(* writes of either section.                                               *)
SessionsDurable ==
    [][\A s \in disk.sessions : s \in disk'.sessions]_allVars

RunningOnDisk ==
    disk.timer # None /\ disk.timer.running /\ disk.timer.ends_at # None

(* A countdown that the file says is running is not running there for      *)
(* ever, though the process die: it is held, or credited, or taken up      *)
(* again and completed, its break after it.  It takes that the writes      *)
(* succeed: the file goes on saying so when the one that settles it fails. *)
LeftRunningIsSettled == RunningOnDisk ~> (~RunningOnDisk \/ failures > 0)

(* docs/stage16-academic-domain.md, section 19, on a crash between the two *)
(* writes: a completed timer whose session is not yet written is           *)
(* "recoverable", a later restart "would still recreate it".               *)
CompletedBlockIsRecorded ==
    pc = "ready" => UNION handed \subseteq InstantsOf(sessions)

(* docs/stage15-persistence-migration.md, section 10: "a running timer's   *)
(* remaining time is always correctly recomputable from `ends_at`          *)
(* regardless of how long ago the last write happened".                    *)
DeadlineSurvivesRestart ==
    [][/\ pc = "down" /\ pc' = "loading"
       /\ disk.timer # None
       /\ RunningCountdown(disk.timer)
       /\ disk.timer.ends_at > wall
       => timer'.running /\ timer'.ends_at = disk.timer.ends_at]_allVars
=============================================================================
