------------------------------ MODULE Academic ------------------------------
(***************************************************************************)
(* Semesters, courses, tasks and the calendar: the state, its cascades and *)
(* marks (academic/state.rs) behind the controller that derives the units  *)
(* of scheduled tasks and writes the section after every change            *)
(* (academic_controller.rs, academic_port.rs).  Names, colours, notes,     *)
(* exams and the times of marks are left out; the study sessions of the    *)
(* same section are StudyTracker's.                                        *)
(***************************************************************************)
EXTENDS Planner, Functions

CONSTANTS
    Profiles,       \* what an import from the desktop application may leave
    NewCourse, NewSemester, NewHoliday,     \* what the user adds
    Pressures,      \* points the exams of a course take from its health
    MaxEdits,       \* bound: changes made
    MaxFailedSaves  \* bound: writes of the section that fail

VARIABLES academic, stored, edits, failedSaves, unsaved

academicVars == <<academic, stored, edits, failedSaves, unsaved>>

WithoutKeys(f, S) == Restrict(f, DOMAIN f \ S)
With(f, x, v) == [y \in DOMAIN f \cup {x} |-> IF y = x THEN v ELSE f[y]]
----------------------------------------------------------------------------
UnitEvents(a, t) ==
    {e \in DOMAIN a.events : a.events[e].task = t /\ a.events[e].kind # "SheetRelease"}
CountCompletedUnitOccurrences(a, t) ==
    FoldSet(LAMBDA e, n : n + Cardinality(a.events[e].ticked), 0, UnitEvents(a, t))

SyncedTask(a, t) ==
    LET task == a.tasks[t]
        events == UnitEvents(a, t)
        ranged == /\ task.semester \in DOMAIN a.semesters
                  /\ a.semesters[task.semester].start # NoDate
                  /\ a.semesters[task.semester].end # NoDate
        Occurrences(e) ==
            CountEventOccurrenceDates(a.events[e], a.holidays, task.semester,
                a.semesters[task.semester].start, a.semesters[task.semester].end)
        Ticked(e) == {o \in Occurrences(e) : Done(a.events[e], o)}
        Sum(F(_)) == FoldSet(LAMBDA e, n : n + F(e), 0, events)
    IN  IF events = {} THEN task
        ELSE IF task.prep
             THEN [task EXCEPT !.completed =
                     LeastOf(CountCompletedUnitOccurrences(a, t), task.total)]
        ELSE IF ranged
             THEN [task EXCEPT !.total = Sum(LAMBDA e : Cardinality(Occurrences(e))),
                               !.completed = Sum(LAMBDA e : Cardinality(Ticked(e)))]
        ELSE [task EXCEPT !.total = Cardinality(events),
                          !.completed = Cardinality({e \in events : a.events[e].ticked # {}})]
SyncTaskUnitsFromSchedule(a) ==
    [a EXCEPT !.tasks = [t \in DOMAIN @ |-> SyncedTask(a, t)]]
----------------------------------------------------------------------------
(* The cascades.                                                           *)
\* slip: the calendar entries of the semester's tasks stay
RemoveSemesterKeepingEntries(a, s) ==
    [a EXCEPT
        !.semesters = WithoutKeys(@, {s}),
        !.courses = WithoutKeys(@, {c \in DOMAIN @ : @[c] = s}),
        !.tasks = WithoutKeys(@, {t \in DOMAIN @ : @[t].semester = s}),
        !.events = WithoutKeys(@, {e \in DOMAIN @ : @[e].semester = s}),
        !.holidays = {h \in @ : h.semester # s}]

RemoveSemesterFrom(a, s) ==
    LET gone == {t \in DOMAIN a.tasks : a.tasks[t].semester = s}
    IN  [a EXCEPT
            !.semesters = WithoutKeys(@, {s}),
            !.courses = WithoutKeys(@, {c \in DOMAIN @ : @[c] = s}),
            !.tasks = WithoutKeys(@, gone),
            !.entries = WithoutKeys(@, {n \in DOMAIN @ : @[n].task \in gone}),
            !.events = WithoutKeys(@, {e \in DOMAIN @ : @[e].semester = s}),
            !.holidays = {h \in @ : h.semester # s}]

RemoveCourseFrom(a, c) ==
    LET gone == {t \in DOMAIN a.tasks : a.tasks[t].course = c}
    IN  [a EXCEPT
            !.courses = WithoutKeys(@, {c}),
            !.tasks = WithoutKeys(@, gone),
            !.entries = WithoutKeys(@, {n \in DOMAIN @ : @[n].task \in gone}),
            !.events = WithoutKeys(@, {e \in DOMAIN @ : @[e].course = c})]

RemoveTaskFrom(a, t) ==
    [a EXCEPT !.tasks = WithoutKeys(@, {t}),
              !.entries = WithoutKeys(@, {n \in DOMAIN @ : @[n].task = t}),
              !.events = WithoutKeys(@, {e \in DOMAIN @ : @[e].task = t})]
----------------------------------------------------------------------------
(* The marks.                                                              *)
Flipped(ticked, date) == IF date \in ticked THEN ticked \ {date} ELSE ticked \cup {date}
Moved(task, delta) ==
    [task EXCEPT !.completed = LeastOf(GreatestOf(@ + delta, 0), task.total)]
MoveTask(a, t, delta) ==
    IF t \in DOMAIN a.tasks THEN [a EXCEPT !.tasks[t] = Moved(@, delta)] ELSE a

WholeUnits(a, t) ==
    FoldSet(LAMBDA n, q : q + a.entries[n].quarters, 0,
            {n \in DOMAIN a.entries : a.entries[n].done /\ a.entries[n].task = t}) \div 4
ToggleEntryIn(a, n) ==
    LET t == a.entries[n].task
        after == [a EXCEPT !.entries[n].done = ~@]
    IN  MoveTask(after, t, WholeUnits(after, t) - WholeUnits(a, t))

UnitDecrementFor(before, total, removed) ==
    GreatestOf(removed - GreatestOf(before - total, 0), 0)
ToggleOccurrenceIn(a, e, date) ==
    LET event == a.events[e]
        after == [a EXCEPT !.events[e].ticked = Flipped(@, date)]
        before == CountCompletedUnitOccurrences(a, event.task)
    IN  IF event.kind = "SheetRelease" \/ event.task \notin DOMAIN a.tasks THEN after
        ELSE MoveTask(after, event.task,
                 IF date \in event.ticked
                 THEN 0 - UnitDecrementFor(before, a.tasks[event.task].total, 1) ELSE 1)

ToggleTodoIn(a, d, date) ==
    IF a.todos[d].weekly THEN [a EXCEPT !.todos[d].ticked = Flipped(@, date)]
                         ELSE [a EXCEPT !.todos[d].done = ~@]
----------------------------------------------------------------------------
AcademicInit ==
    /\ stored \in Profiles
    /\ academic = SyncTaskUnitsFromSchedule(stored)
    /\ edits = 0 /\ failedSaves = 0 /\ unsaved = FALSE

(* Every change goes through AcademicController::persist; a save that      *)
(* fails is only logged.                                                   *)
Persist(changed) ==
    /\ edits < MaxEdits /\ edits' = edits + 1
    /\ academic' = SyncTaskUnitsFromSchedule(changed)
    /\ \/ stored' = academic' /\ unsaved' = FALSE /\ UNCHANGED failedSaves
       \/ /\ failedSaves < MaxFailedSaves
          /\ failedSaves' = failedSaves + 1 /\ unsaved' = TRUE /\ UNCHANGED stored

AddSemester ==
    /\ NewSemester \notin DOMAIN academic.semesters
    /\ Persist([academic EXCEPT !.semesters = With(@, NewSemester,
            [start |-> NoDate, end |-> NoDate, archived |-> FALSE, phase |-> "Semester"])])
RemoveSemester ==
    \E s \in DOMAIN academic.semesters : Persist(RemoveSemesterFrom(academic, s))
AddCourse ==
    /\ NewCourse \notin DOMAIN academic.courses
    /\ \E s \in DOMAIN academic.semesters :
         Persist([academic EXCEPT !.courses = With(@, NewCourse, s)])
RemoveCourse ==
    \E c \in DOMAIN academic.courses : Persist(RemoveCourseFrom(academic, c))
RemoveTask ==
    \E t \in DOMAIN academic.tasks : Persist(RemoveTaskFrom(academic, t))
AddHoliday ==
    /\ NewHoliday \notin academic.holidays
    /\ NewHoliday.semester \in DOMAIN academic.semesters
    /\ Persist([academic EXCEPT !.holidays = @ \cup {NewHoliday}])
RemoveHoliday ==
    \E h \in academic.holidays : Persist([academic EXCEPT !.holidays = @ \ {h}])
RemoveTimetableEvent ==
    \E e \in DOMAIN academic.events :
        Persist([academic EXCEPT !.events = WithoutKeys(@, {e})])
ToggleCalendarEntry ==
    \E n \in DOMAIN academic.entries : Persist(ToggleEntryIn(academic, n))

(* A mark belongs to a row of the Dashboard: an occurrence on its date.    *)
Rows(event) ==
    IF event.weekly
    THEN {Landing(event, b) : b \in ExpandWeekdayFrom(event.date, 0, LastPlanned) \ event.skipped}
    ELSE {event.date}
ToggleTimetableOccurrence ==
    \E e \in DOMAIN academic.events : \E date \in Rows(academic.events[e]) :
        Persist(ToggleOccurrenceIn(academic, e, date))
ToggleDailyTodoOccurrence ==
    \E d \in DOMAIN academic.todos : \E date \in Dates :
        /\ TodoOccursOn(academic.todos[d], date)
        /\ Persist(ToggleTodoIn(academic, d, date))

(* The program ends and is started again: a load never writes.             *)
Reload ==
    /\ academic' = SyncTaskUnitsFromSchedule(stored)
    /\ unsaved' = FALSE
    /\ UNCHANGED <<stored, edits, failedSaves>>

AcademicNext ==
    \/ AddSemester \/ RemoveSemester \/ AddCourse \/ RemoveCourse \/ RemoveTask
    \/ AddHoliday \/ RemoveHoliday \/ RemoveTimetableEvent
    \/ ToggleCalendarEntry \/ ToggleTimetableOccurrence \/ ToggleDailyTodoOccurrence
    \/ Reload
----------------------------------------------------------------------------
NothingDangles(a) ==
    /\ \A c \in DOMAIN a.courses : a.courses[c] \in DOMAIN a.semesters
    /\ \A t \in DOMAIN a.tasks : /\ a.tasks[t].course \in DOMAIN a.courses
                                /\ a.tasks[t].semester \in DOMAIN a.semesters
    /\ \A e \in DOMAIN a.events : a.events[e].task \in DOMAIN a.tasks
    /\ \A n \in DOMAIN a.entries : a.entries[n].task \in DOMAIN a.tasks
    /\ \A h \in a.holidays : h.semester \in DOMAIN a.semesters

MarkTwice(a, e, date) ==
    LET Once1(b) == SyncTaskUnitsFromSchedule(ToggleOccurrenceIn(b, e, date))
    IN  Once1(Once1(a))

(* Whatever is removed, in whatever order, takes all that belongs to it    *)
(* along; what is on the screen is what the next start shows, unless the   *)
(* last save failed; and a mark set by mistake is undone by a second one   *)
(* (the cascades, AcademicController::persist, toggle_timetable_occurrence)*)
AcademicKept ==
    /\ NothingDangles(academic)
    /\ ~unsaved => SyncTaskUnitsFromSchedule(stored) = academic
    /\ \A e \in DOMAIN academic.events : \A date \in Rows(academic.events[e]) :
         MarkTwice(academic, e, date) = academic

(* The two projections of the calendar agree: the units the controller     *)
(* stores with a scheduled task are the ones the Dashboard counts for it;  *)
(* and marking a unit as done never lowers the health of its course.       *)
ProgressIsTheCalendars ==
    \A t \in DOMAIN academic.tasks :
        LET task == academic.tasks[t]
            semester == academic.semesters[task.semester]
            units == ScheduledUnits(academic, t, 0)
        IN  (/\ UnitEvents(academic, t) # {} /\ ~task.prep
             /\ IsScheduleActive(semester)
             /\ semester.start # NoDate /\ semester.end # NoDate)
            => /\ task.total = Cardinality(units)
               /\ task.completed = Cardinality({u \in units : u.done})
TickingNeverHurts ==
    \A e \in DOMAIN academic.events, today \in Dates, p \in Pressures :
        LET event == academic.events[e]
            Score(a) == ScheduleScore(a, event.course, today, p)
        IN  \A date \in Rows(event) \ event.ticked :
              Score(academic) <= Score(ToggleOccurrenceIn(academic, e, date))
ScheduleShowsProgress == ProgressIsTheCalendars /\ TickingNeverHurts
=============================================================================
