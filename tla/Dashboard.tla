----------------------------- MODULE Dashboard -----------------------------
(***************************************************************************)
(* What the Dashboard makes of the study history: the minutes of a day and *)
(* of the last week, the streak (dashboard/metrics.rs) and the timeline of *)
(* the chosen range with its milestones (dashboard/focus.rs).  A session   *)
(* counts for the local day it ended on; dates, week and NoDate are the    *)
(* Planner's.                                                              *)
(***************************************************************************)
EXTENDS Planner, Sequences

CONSTANTS
    Minutes,        \* how long a session may be
    CourseIds,      \* courses that exist, of those sessions name
    General,        \* the layer of sessions without a course
    Milestones,     \* minutes at which a milestone is reached
    Ranges,         \* lengths of the rolling ranges on offer
    Week,           \* the range of the calendar week
    LastStudyDay,   \* bound: sessions end on 0..LastStudyDay
    MaxSessions     \* bound: sessions of a history

VARIABLE history

DashboardInit == history = <<>>

(* A session is added; its course may be one that was removed since.  The  *)
(* history stands in the order the sessions ended in, in which the         *)
(* timeline reads it, and which decides only between equal layers.         *)
RecordSession ==
    /\ Len(history) < MaxSessions
    /\ \E day \in 0..LastStudyDay, m \in Minutes, c \in CourseIds \cup {"removed"} :
         /\ \A i \in DOMAIN history : history[i].day <= day
         /\ history' = Append(history, [day |-> day, minutes |-> m, course |-> c])

DashboardNext == RecordSession
----------------------------------------------------------------------------
SumMinutes(S) == FoldSet(LAMBDA i, n : n + history[i].minutes, 0, S)
EndedOn(day) == {i \in DOMAIN history : history[i].day = day}
MinutesOn(day) == SumMinutes(EndedOn(day))
DaySet == {history[i].day : i \in DOMAIN history}

WeeklyActivity(today) == [d \in (today - WeekLength + 1)..today |-> MinutesOn(d)]
WeeklyTotal(today) ==
    LET week == WeeklyActivity(today)
    IN  FoldSet(LAMBDA d, n : n + week[d], 0, DOMAIN week)

(* The days of a streak are counted back from today, or from yesterday     *)
(* while today has no session.                                             *)
StreakDays(today) ==
    LET last == IF today \in DaySet THEN today ELSE today - 1
        back[d \in (0 - 1)..LastStudyDay] == IF d \in DaySet THEN 1 + back[d - 1] ELSE 0
    IN  back[last]

(* The timeline of a range: a column for each of its days.  Sundays are    *)
(* the dates that are 0 modulo WeekLength; the calendar week begins on a   *)
(* Monday.                                                                 *)
DayCount(range) == IF range = Week THEN WeekLength ELSE range
RangeStart(range, today) ==
    IF range # Week THEN today - range + 1
    ELSE today + 1 - (IF today % WeekLength = 0 THEN WeekLength ELSE (today % WeekLength))
Columns(range, today) ==
    RangeStart(range, today)..(RangeStart(range, today) + DayCount(range) - 1)

CumulativeTo(range, today, day) ==
    SumMinutes({i \in DOMAIN history : history[i].day < RangeStart(range, today)})
        + FoldSet(LAMBDA d, n : n + MinutesOn(d), 0, RangeStart(range, today)..day)
\* slip: a milestone is hit on every day that ends above it
MilestoneHitsWhileAbove(range, today) ==
    {h \in [milestone : Milestones, day : Columns(range, today)] :
        /\ MinutesOn(h.day) > 0
        /\ h.milestone <= CumulativeTo(range, today, h.day)}

MilestoneHits(range, today) ==
    {h \in [milestone : Milestones, day : Columns(range, today)] :
        LET reached == CumulativeTo(range, today, h.day)
        IN  reached - MinutesOn(h.day) < h.milestone /\ h.milestone <= reached}

Layer(i) == IF history[i].course \in CourseIds THEN history[i].course ELSE General
Layers(day) ==
    [c \in {Layer(i) : i \in EndedOn(day)} |->
        SumMinutes({i \in EndedOn(day) : Layer(i) = c})]
Legend(range, today) ==
    [c \in UNION {DOMAIN Layers(d) : d \in Columns(range, today)} |->
        FoldSet(LAMBDA d, n : n + (IF c \in DOMAIN Layers(d) THEN Layers(d)[c] ELSE 0), 0,
                Columns(range, today))]
VisibleMinutes(range, today) ==
    FoldSet(LAMBDA d, n : n + MinutesOn(d), 0, Columns(range, today))
----------------------------------------------------------------------------
(* The numbers of one screen agree: two ranges show the same running total *)
(* and the same milestones on the days they share, a milestone is found on *)
(* one day; the legend's courses make up the minutes of the range; the     *)
(* rolling week is the range of seven days; and the streak is the longest  *)
(* stretch of days with a session up to today, or to yesterday             *)
(* (focus_timeline, weekly_activity, streak_days).                         *)
TimelinesAgree ==
    LET Offered == Ranges \cup {Week}
        Hits(range, today, days) == {h \in MilestoneHits(range, today) : h.day \in days}
        Run(from, to) == from..to \subseteq DaySet
    IN  history # <<>> => \A today \in 0..LastStudyDay :
         /\ \A r, s \in Offered :
              LET shared == Columns(r, today) \cap Columns(s, today)
              IN  /\ \A d \in shared :
                       CumulativeTo(r, today, d) = CumulativeTo(s, today, d)
                  /\ Hits(r, today, shared) = Hits(s, today, shared)
         /\ \A r \in Offered :
              /\ \A g, h \in MilestoneHits(r, today) : g.milestone = h.milestone => g = h
              /\ LET legend == Legend(r, today)
                 IN  FoldSet(LAMBDA c, n : n + legend[c], 0, DOMAIN legend)
                        = VisibleMinutes(r, today)
         /\ WeeklyTotal(today) = VisibleMinutes(WeekLength, today)
         /\ LET n == StreakDays(today)
            IN  \/ n = 0 /\ {today, today - 1} \cap DaySet = {}
                \/ \E to \in {today, today - 1} :
                     /\ n > 0 /\ Run(to - n + 1, to) /\ to - n \notin DaySet
                     /\ to # today => today \notin DaySet
============================================================================
