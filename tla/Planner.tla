------------------------------ MODULE Planner ------------------------------
(***************************************************************************)
(* What the calendar asks for: the occurrences of a timetable event, the   *)
(* units of a task they make up, and the health the Dashboard shows for    *)
(* them (dashboard/schedule.rs, and the counting part of                   *)
(* academic/state.rs, which is written a second time from production's     *)
(* plannerSchedule.ts).  A date is a natural number, its weekday the       *)
(* number modulo WeekLength; an occurrence of a weekly event is named by   *)
(* the date of the series it stands for, whatever date it was moved to.    *)
(***************************************************************************)
EXTENDS Integers, FiniteSetsExt

CONSTANTS
    WeekLength,     \* days of a week
    LastPlanned,    \* the dates of an instance are 0..LastPlanned
    PlanHorizon,    \* how far the Dashboard looks past today (400 days)
    NoDate          \* a date that is not set

Dates == 0..LastPlanned

LeastOf(a, b) == IF a <= b THEN a ELSE b
GreatestOf(a, b) == IF a >= b THEN a ELSE b
EndOr(date, end) == IF date = NoDate THEN end ELSE LeastOf(date, end)
StartOr(date, start) == IF date = NoDate THEN start ELSE GreatestOf(date, start)

IsHoliday(holidays, semester, date) ==
    \E h \in holidays : h.semester = semester /\ h.first <= date /\ date <= h.last

ExpandWeekdayFrom(anchor, first, last) ==
    {d \in GreatestOf(anchor, first)..last : d % WeekLength = anchor % WeekLength}

(* An occurrence that was neither skipped nor moved out of the range or    *)
(* onto a holiday, with the date it takes place on.                        *)
Landing(event, base) ==
    IF base \in DOMAIN event.moved THEN event.moved[base] ELSE base
WeeklyOccurrences(event, holidays, semester, first, last) ==
    LET series == ExpandWeekdayFrom(event.date, first, EndOr(event.until, last))
    IN  {[base |-> b, date |-> Landing(event, b)] :
            b \in {b \in series \ event.skipped :
                     /\ Landing(event, b) \in first..last
                     /\ ~IsHoliday(holidays, semester, Landing(event, b))}}
Once(event, first, last) ==
    IF event.date \in first..last THEN {[base |-> event.date, date |-> event.date]} ELSE {}

\* slip: a series that was ended goes on to the end of the semester
CountPastItsEnd(event, holidays, semester, first, last) ==
    IF event.weekly
    THEN WeeklyOccurrences([event EXCEPT !.until = NoDate], holidays, semester, first, last)
    ELSE Once(event, first, last)

(* A one-off event takes place on a holiday too.                           *)
CountEventOccurrenceDates(event, holidays, semester, first, last) ==
    IF event.weekly THEN WeeklyOccurrences(event, holidays, semester, first, last)
                    ELSE Once(event, first, last)

IsCounted(event) == event.kind \in {"Occurrence", "SheetDeadline"}
IsScheduleActive(semester) == ~semester.archived /\ semester.phase = "Semester"

(* Neither before the semester nor after it, and nothing of one that is    *)
(* archived or in its exam period.                                         *)
ExpandTimetableEvents(event, holidays, id, semester, first, last) ==
    LET from == StartOr(semester.start, first)
        to == EndOr(semester.end, last)
    IN  IF ~IsScheduleActive(semester) \/ from > to THEN {}
        ELSE IF event.weekly
             THEN {o \in {[base |-> b, date |-> Landing(event, b)] :
                            b \in ExpandWeekdayFrom(event.date, from,
                                      EndOr(event.until, to)) \ event.skipped} :
                      o.date \in from..to /\ ~IsHoliday(holidays, id, o.date)}
             ELSE Once(event, from, to)

Done(event, o) == o.date \in event.ticked

(* Every unit of work the calendar asks of a task, as the Dashboard sees   *)
(* it on the day `today`.                                                  *)
ScheduledUnits(a, task, today) ==
    UNION {{[event |-> e, base |-> o.base, date |-> o.date, done |-> Done(a.events[e], o)] :
              o \in ExpandTimetableEvents(a.events[e], a.holidays, a.events[e].semester,
                        a.semesters[a.events[e].semester], 0, today + PlanHorizon)} :
           e \in {e \in DOMAIN a.events :
                    a.events[e].task = task /\ IsCounted(a.events[e])}}
----------------------------------------------------------------------------
(* The health of a course measured against its calendar, out of 100 and    *)
(* rounded half up; `pressure` is what its exams take away.                *)
SoonDays == 3
CourseOccurrences(a, course, today) ==
    UNION {{[event |-> e, base |-> o.base, date |-> o.date, done |-> Done(a.events[e], o),
             due |-> a.events[e].kind = "SheetDeadline"] :
              o \in ExpandTimetableEvents(a.events[e], a.holidays, a.events[e].semester,
                        a.semesters[a.events[e].semester], 0, today + SoonDays)} :
           e \in {e \in DOMAIN a.events :
                    a.events[e].course = course /\ IsCounted(a.events[e])}}

Rounded(numerator, denominator) ==
    (2 * numerator + denominator) \div (2 * denominator)
ScheduleScore(a, course, today, pressure) ==
    LET units == CourseOccurrences(a, course, today)
        past == {u \in units : u.date < today}
        missed == Cardinality({u \in past : ~u.done})
        soon == Cardinality({u \in units \ past : u.due /\ ~u.done})
        all == GreatestOf(Cardinality(past), 1)
        score == Rounded((100 - 4 * missed - 2 * soon - pressure) * all - 70 * missed, all)
    IN  LeastOf(GreatestOf(score, 0), 100)

(* A to-do that is repeated every week takes place on the weekday of its   *)
(* date, until its end and where it is not skipped.                        *)
TodoOccursOn(todo, date) ==
    IF ~todo.weekly THEN todo.date = date
    ELSE /\ date \in ExpandWeekdayFrom(todo.date, date, EndOr(todo.until, date))
         /\ date \notin todo.skipped
============================================================================
