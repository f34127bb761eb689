------------------------- MODULE StudyTrackerProofs -------------------------
(***************************************************************************)
(* Theorems about the application around the timer, for all presets, day   *)
(* lengths and offsets, any number of crashes and of failing writes.       *)
(*                                                                         *)
(* What the file says is a sane timer as of its last sign of life, and     *)
(* stands for study time that was worked: then whichever way restore_timer *)
(* comes back, the timer is sane again and the range it recovers holds     *)
(* nothing that was not worked.                                            *)
(*                                                                         *)
(* No instant of study time is in two sessions, however often the process  *)
(* is killed between a write and the next (InstantsAreBookedOnce, at the   *)
(* end): what a session holds is past, and is disjoint from what the timer,*)
(* its snapshot on disk and the range in hand still stand for.             *)
(***************************************************************************)
EXTENDS StudyTracker, TimerProofs

(* A timer whose segments are consecutive stretches of the past, and whose *)
(* countdown has a deadline: SegmentsWellFormed and DeadlineSync of a      *)
(* timer that may be in the file.                                          *)
WellFormedAt(t, now) ==
    LET segs == t.active_segments
        n == Len(segs)
    IN  /\ \A i, j \in 1..n : i < j => Before(segs[i], segs[j])
        /\ \A i \in 1..n : /\ segs[i].started_at <= now
                           /\ ~IsOpen(segs[i]) =>
                                /\ segs[i].started_at <= segs[i].ended_at
                                /\ segs[i].ended_at <= now
        /\ n > 0 => (IsOpen(segs[n]) <=> t.running)
        /\ t.phase \in StudyPhases => n > 0
        /\ t.phase = "Idle" => n = 0 /\ ~t.running

HasDeadline(t) ==
    /\ t.running /\ t.phase \in Countdowns => t.ends_at # None
    /\ t.ends_at # None => \A i \in 1..Len(t.active_segments) :
           t.active_segments[i].started_at <= t.ends_at

(* A snapshot in the file: as of the last sign of life.                    *)
SaneOnDisk(t, now) ==
    /\ t \in TimerState /\ t.anchor = None
    /\ t.last_alive_at \in Nat /\ t.last_alive_at <= now
    /\ WellFormedAt(t, t.last_alive_at) /\ HasDeadline(t)

(* Study time a snapshot stands for: what it had when it was written, and  *)
(* of a running countdown what has gone by since, up to its deadline.      *)
CountedUntil(t, now) == IF now <= t.ends_at THEN now ELSE t.ends_at
Owed(t, now) ==
    IF t.phase \notin StudyPhases THEN {}
    ELSE TicksOf(t.active_segments, t.last_alive_at)
         \cup (IF RunningCountdown(t) THEN TicksOf(t.active_segments, CountedUntil(t, now))
               ELSE {})

NothingUnworked ==
    /\ WorkedTicks \subseteq worked
    /\ RangeInstants(range) \subseteq worked
    /\ InstantsOf(sessions \cup disk.sessions) \subseteq worked
    /\ disk.timer # None =>
          /\ Owed(disk.timer, wall) \subseteq worked
          /\ pc # "down" /\ RunningCountdown(disk.timer) => CountingUp

(* While the program runs it knows every session in the file.              *)
FileIsKnown == pc \in {"ready", "routing"} => disk.sessions \subseteq sessions

TrackerIInv ==
    /\ Sane
    /\ pc \in {"ready", "routing", "loading", "down"}
    /\ pc = "down" => timer = NewTimer(DefaultConfig) /\ range = None
    /\ mono <= wall
    /\ disk = [timer |-> disk.timer, sessions |-> disk.sessions]
    /\ disk.timer # None => SaneOnDisk(disk.timer, wall)
    /\ failures \in Nat
    /\ failures = 0 => NothingUnworked
    /\ FileIsKnown
----------------------------------------------------------------------------
(* What a block covers, as time goes on and as its segments are closed.    *)

LEMMA TicksGrow ==
    ASSUME NEW segs \in Seq(Segment), NEW a \in Nat, NEW b \in Nat, a <= b
    PROVE  TicksOf(segs, a) \subseteq TicksOf(segs, b)
<1>1. ASSUME NEW i \in 1..Len(segs), NEW t \in Int, Covers(segs[i], t, a)
      PROVE  Covers(segs[i], t, b)
  BY <1>1 DEF Covers, EndOr
<1>2. \A t : /\ t \in TicksOf(segs, a)
                  <=> t \in Int /\ \E i \in 1..Len(segs) : Covers(segs[i], t, a)
             /\ t \in TicksOf(segs, b)
                  <=> t \in Int /\ \E i \in 1..Len(segs) : Covers(segs[i], t, b)
  BY TicksOfFacts
<1> QED  BY <1>1, <1>2

LEMMA TickAdds ==
    ASSUME NEW segs \in Seq(Segment), NEW a \in Nat
    PROVE  TicksOf(segs, a + 1) \subseteq TicksOf(segs, a) \cup {a}
<1>1. ASSUME NEW i \in 1..Len(segs), NEW t \in Int, Covers(segs[i], t, a + 1), t # a
      PROVE  Covers(segs[i], t, a)
  <2>1. t < a
    BY <1>1 DEF Covers
  <2> QED  BY <1>1, <2>1 DEF Covers, EndOr
<1>2. a + 1 \in Nat
  OBVIOUS
<1>3. \A t : /\ t \in TicksOf(segs, a)
                  <=> t \in Int /\ \E i \in 1..Len(segs) : Covers(segs[i], t, a)
             /\ t \in TicksOf(segs, a + 1)
                  <=> t \in Int /\ \E i \in 1..Len(segs) : Covers(segs[i], t, a + 1)
  BY <1>2, TicksOfFacts
<1> QED  BY <1>1, <1>3

(* Segments that are over by a cover nothing more later on.                *)
LEMMA OverIsOver ==
    ASSUME NEW segs \in Seq(ClosedSegment), NEW a \in Nat, NEW b \in Nat,
           \A i \in 1..Len(segs) : segs[i].ended_at <= a
    PROVE  TicksOf(segs, b) \subseteq TicksOf(segs, a)
<1>1. segs \in Seq(Segment)
  <2>1. ClosedSegment \subseteq Segment
    BY DEF ClosedSegment, Segment
  <2> QED  BY <2>1
<1>2. ASSUME NEW i \in 1..Len(segs) PROVE segs[i].ended_at \in Nat /\ ~IsOpen(segs[i])
  <2>1. segs[i] \in ClosedSegment
    OBVIOUS
  <2> QED  BY <2>1, TimerAssumption DEF ClosedSegment, IsOpen
<1>3. ASSUME NEW i \in 1..Len(segs), NEW t \in Int, Covers(segs[i], t, b)
      PROVE  Covers(segs[i], t, a)
  BY <1>2, <1>3 DEF Covers, EndOr
<1>4. \A t : /\ t \in TicksOf(segs, a)
                  <=> t \in Int /\ \E i \in 1..Len(segs) : Covers(segs[i], t, a)
             /\ t \in TicksOf(segs, b)
                  <=> t \in Int /\ \E i \in 1..Len(segs) : Covers(segs[i], t, b)
  BY <1>1, TicksOfFacts
<1> QED  BY <1>3, <1>4

(* A block whose segments are closed at a covers from then on what it      *)
(* covered at a.                                                           *)
LEMMA ClosedCoversNoMore ==
    ASSUME NEW segs \in Seq(Segment), NEW closed \in Seq(ClosedSegment),
           NEW a \in Nat, NEW b \in Nat, Len(closed) = Len(segs),
           \A i \in 1..Len(segs) : /\ closed[i].started_at = segs[i].started_at
                                   /\ closed[i].ended_at = EndOr(segs[i], a)
                                   /\ closed[i].ended_at <= a
    PROVE  TicksOf(closed, b) \subseteq TicksOf(segs, a)
<1>1. closed \in Seq(Segment)
  <2>1. ClosedSegment \subseteq Segment
    BY DEF ClosedSegment, Segment
  <2> QED  BY <2>1
<1>2. TicksOf(closed, a) = TicksOf(segs, a)
  BY <1>1, ClosingCoversTheSame
<1>3. TicksOf(closed, b) \subseteq TicksOf(closed, a)
  BY OverIsOver
<1> QED  BY <1>2, <1>3
----------------------------------------------------------------------------
(* Reading a snapshot drops no segment of a sane one.                      *)
LEMMA NormalizedIsTheSame ==
    ASSUME NEW segs \in Seq(Segment),
           \A i \in 1..Len(segs) : ~IsOpen(segs[i]) => segs[i].started_at <= segs[i].ended_at
    PROVE  NormalizeSegments(segs) = segs
<1> DEFINE n == Len(segs)
           Fine(i) == IsOpen(segs[i]) \/ segs[i].ended_at >= segs[i].started_at
           V == Seq(Segment)
           step == [i \in 1..n |-> [v \in V |-> Append(v, segs[i])]]
           kept[i \in 0..n] ==
               IF i = 0 THEN <<>>
               ELSE IF Fine(i) THEN Append(kept[i - 1], segs[i]) ELSE kept[i - 1]
<1>1. /\ n \in Nat /\ DOMAIN segs = 1..n /\ <<>> \in V
      /\ \A i \in 1..n : segs[i] \in Segment
  OBVIOUS
<1>2. \A i \in 1..n : Fine(i)
  <2>1. ASSUME NEW i \in 1..n PROVE Fine(i)
    <3>1. CASE IsOpen(segs[i])
      BY <3>1
    <3>2. CASE ~IsOpen(segs[i])
      <4>1. segs[i].started_at \in Nat /\ segs[i].ended_at \in Nat
        BY <1>1, <3>2 DEF Segment, IsOpen
      <4> QED  BY <3>2, <4>1
    <3> QED  BY <3>1, <3>2
  <2> QED  BY <2>1
<1>3. step \in [1..n -> [V -> V]]
  <2>1. ASSUME NEW i \in 1..n, NEW v \in V PROVE Append(v, segs[i]) \in V
    BY <1>1
  <2> HIDE DEF V
  <2> QED  BY <2>1
<1>4. \A i \in 1..n : \A v \in V : step[i][v] = Append(v, segs[i])
  OBVIOUS
<1> HIDE DEF step, V, Fine
<1>5. PICK f \in [0..n -> V] : Iterates(f, n, <<>>, step)
  BY <1>1, <1>3, RecursionExists, Zenon
<1>6. ASSUME NEW i \in 1..n PROVE i - 1 \in 0..n /\ f[i - 1] \in V /\ f[i] = Append(f[i - 1], segs[i])
  <2>1. i - 1 \in 0..n /\ i \in 0..n /\ i # 0
    BY <1>1
  <2>2. f[i - 1] \in V
    BY <2>1
  <2>3. f[i] = step[i][f[i - 1]]
    BY <2>1, <1>5 DEF Iterates
  <2> QED  BY <2>1, <2>2, <2>3, <1>4
<1>7. f[0] = <<>>
  BY <1>1, <1>5 DEF Iterates
<1>8. f = [i \in 0..n |-> IF i = 0 THEN <<>>
             ELSE IF Fine(i) THEN Append(f[i - 1], segs[i]) ELSE f[i - 1]]
  <2>1. ASSUME NEW i \in 0..n
        PROVE  f[i] = IF i = 0 THEN <<>>
                      ELSE IF Fine(i) THEN Append(f[i - 1], segs[i]) ELSE f[i - 1]
    <3>1. CASE i = 0
      BY <3>1, <1>7
    <3>2. CASE i # 0
      <4>1. i \in 1..n
        BY <3>2, <1>1
      <4> QED  BY <4>1, <1>2, <1>6, <3>2
    <3> QED  BY <3>1, <3>2
  <2> QED  BY <2>1
<1>9. kept = [i \in 0..n |-> IF i = 0 THEN <<>>
             ELSE IF Fine(i) THEN Append(kept[i - 1], segs[i]) ELSE kept[i - 1]]
  BY <1>8
<1>10. NormalizeSegments(segs) = kept[n]
  BY DEF NormalizeSegments, Fine
<1> HIDE DEF kept
<1>11. \A i \in 1..n : kept[i] = Append(kept[i - 1], segs[i])
  <2>1. ASSUME NEW i \in 1..n PROVE kept[i] = Append(kept[i - 1], segs[i])
    <3>1. i \in 0..n /\ i # 0 /\ Fine(i)
      BY <1>1, <1>2
    <3> QED  BY <3>1, <1>9
  <2> QED  BY <2>1
<1>12. kept[0] = <<>>
  <2>1. 0 \in 0..n
    BY <1>1
  <2> QED  BY <2>1, <1>9
<1> DEFINE Same(k) == /\ kept[k] \in Seq(Segment) /\ Len(kept[k]) = k
                      /\ \A i \in 1..k : kept[k][i] = segs[i]
           Bad == {k \in 0..n : ~Same(k)}
<1>13. Bad = {}
  <2> SUFFICES ASSUME Bad # {} PROVE FALSE
    OBVIOUS
  <2>1. Bad \subseteq Nat
    BY <1>1
  <2>2. PICK m \in Bad : \A k \in Bad : m <= k
    <3> HIDE DEF Bad
    <3> QED  BY <2>1, LeastNat, Zenon
  <2>3. m # 0
    <3>1. Same(0)
      BY <1>12
    <3> QED  BY <2>2, <3>1
  <2>4. m - 1 \in 0..n /\ m \in 1..n /\ Same(m - 1)
    <3> HIDE DEF Same
    <3>1. m \in 0..n
      BY <2>2
    <3>2. m - 1 \in 0..n /\ m \in 1..n /\ ~(m <= m - 1)
      BY <1>1, <2>3, <3>1
    <3> QED  BY <2>2, <3>2
  <2>5. Same(m)
    <3>1. PICK t : t = kept[m - 1]
      OBVIOUS
    <3>2. t \in Seq(Segment) /\ Len(t) = m - 1 /\ \A i \in 1..(m - 1) : t[i] = segs[i]
      BY <2>4, <3>1
    <3>3. kept[m] = Append(t, segs[m]) /\ segs[m] \in Segment
      BY <1>1, <1>11, <2>4, <3>1
    <3>4. PICK u : u = Append(t, segs[m])
      OBVIOUS
    <3>5. u \in Seq(Segment) /\ Len(u) = m /\ \A i \in 1..m : u[i] = segs[i]
      BY <2>4, <3>2, <3>3, <3>4
    <3> QED  BY <3>3, <3>4, <3>5
  <2> QED  BY <2>2, <2>5
<1>14. Same(n)
  BY <1>1, <1>13
<1>15. PICK t : t = kept[n]
  OBVIOUS
<1>16. t \in Seq(Segment) /\ Len(t) = n /\ \A i \in 1..n : t[i] = segs[i]
  BY <1>14, <1>15
<1>17. t = segs
  BY ONLY <1>16, segs \in Seq(Segment)
<1> QED  BY <1>10, <1>15, <1>17
----------------------------------------------------------------------------
(* Well-formed blocks.                                                     *)

LEMMA BlockTyped ==
    ASSUME NEW t \in TimerState
    PROVE  /\ t.active_segments \in Seq(Segment) /\ Len(t.active_segments) \in Nat
           /\ DOMAIN t.active_segments = 1..Len(t.active_segments)
           /\ \A i \in 1..Len(t.active_segments) :
                /\ t.active_segments[i] \in Segment
                /\ t.active_segments[i].started_at \in Nat
                /\ ~IsOpen(t.active_segments[i]) => t.active_segments[i].ended_at \in Nat
<1>1. t.active_segments \in Seq(Segment)
  BY DEF TimerState
<1>2. ASSUME NEW i \in 1..Len(t.active_segments)
      PROVE  /\ t.active_segments[i] \in Segment
             /\ t.active_segments[i].started_at \in Nat
             /\ ~IsOpen(t.active_segments[i]) => t.active_segments[i].ended_at \in Nat
  <2>1. t.active_segments[i] \in Segment
    BY <1>1
  <2> QED  BY <2>1 DEF Segment, IsOpen
<1> QED  BY <1>1, <1>2

LEMMA LaterIsWellFormed ==
    ASSUME NEW t \in TimerState, NEW a \in Nat, NEW b \in Nat, a <= b, WellFormedAt(t, a)
    PROVE  WellFormedAt(t, b)
<1>1. ASSUME NEW i \in 1..Len(t.active_segments)
      PROVE  /\ t.active_segments[i].started_at <= b
             /\ ~IsOpen(t.active_segments[i]) =>
                  /\ t.active_segments[i].started_at <= t.active_segments[i].ended_at
                  /\ t.active_segments[i].ended_at <= b
  BY BlockTyped DEF WellFormedAt
<1> QED  BY <1>1 DEF WellFormedAt

LEMMA OnlyTheLastIsOpen ==
    ASSUME NEW t \in TimerState, NEW a \in Nat, WellFormedAt(t, a),
           NEW i \in 1..Len(t.active_segments), i < Len(t.active_segments)
    PROVE  ~IsOpen(t.active_segments[i])
<1>1. Len(t.active_segments) \in 1..Len(t.active_segments)
  BY BlockTyped
<1> QED  BY <1>1 DEF WellFormedAt, Before, IsOpen

(* Closed at a, a block well formed at a stays so, and is over by then.    *)
LEMMA ClosedIsWellFormed ==
    ASSUME NEW t \in TimerState, NEW a \in Nat, WellFormedAt(t, a),
           NEW closed, closed = CloseOpenSegments(t.active_segments, a),
           NEW u, u.active_segments = closed, u.phase = t.phase, u.running = FALSE
    PROVE  /\ closed \in Seq(ClosedSegment) /\ Len(closed) = Len(t.active_segments)
           /\ ClosedSegments(closed) = closed
           /\ \A i \in 1..Len(closed) :
                /\ closed[i].started_at = t.active_segments[i].started_at
                /\ closed[i].ended_at = EndOr(t.active_segments[i], a)
                /\ closed[i].ended_at <= a
           /\ WellFormedAt(u, a)
<1> DEFINE old == t.active_segments
           n == Len(old)
<1>a. /\ old \in Seq(Segment) /\ n \in Nat /\ DOMAIN old = 1..n
      /\ \A i \in 1..n : /\ old[i] \in Segment /\ old[i].started_at \in Nat
                         /\ ~IsOpen(old[i]) => old[i].ended_at \in Nat
  BY BlockTyped
<1>1. /\ closed \in Seq(ClosedSegment) /\ Len(closed) = n
      /\ \A i \in 1..n : /\ closed[i].started_at = old[i].started_at
                         /\ closed[i].ended_at = EndOr(old[i], a)
  BY <1>a, CloseOpenSegmentsFacts
<1>2. ClosedSegments(closed) = closed
  BY <1>1, AllClosedAreKept
<1>3. ASSUME NEW i \in 1..n
      PROVE  /\ closed[i].started_at <= closed[i].ended_at /\ closed[i].ended_at <= a
             /\ closed[i].started_at <= a /\ ~IsOpen(closed[i])
  <2>1. CASE IsOpen(old[i])
    BY <2>1, <1>1, <1>a, TimerAssumption DEF EndOr, IsOpen, WellFormedAt
  <2>2. CASE ~IsOpen(old[i])
    BY <2>2, <1>1, <1>a DEF EndOr, IsOpen, WellFormedAt
  <2> QED  BY <2>1, <2>2
<1>4. ASSUME NEW i \in 1..n, NEW j \in 1..n, i < j PROVE Before(closed[i], closed[j])
  <2>1. Before(old[i], old[j]) /\ ~IsOpen(old[i])
    BY <1>4 DEF WellFormedAt, Before, IsOpen
  <2> QED  BY <2>1, <1>1 DEF Before, EndOr
<1>5. n > 0 => ~IsOpen(closed[n])
  BY <1>3, <1>a
<1>6. WellFormedAt(u, a)
  <2>1. /\ t.phase \in StudyPhases => n > 0
        /\ t.phase = "Idle" => n = 0
    BY DEF WellFormedAt
  <2> HIDE DEF n
  <2> QED  BY <1>1, <1>3, <1>4, <1>5, <2>1 DEF WellFormedAt
<1> QED  BY <1>1, <1>2, <1>3, <1>6

(* A running block has ended nothing past its deadline.                    *)
LEMMA EndedByDeadline ==
    ASSUME NEW t \in TimerState, NEW a \in Nat, WellFormedAt(t, a), HasDeadline(t),
           t.running, t.phase \in StudyPhases, t.ends_at \in Nat,
           NEW i \in 1..Len(t.active_segments)
    PROVE  EndOr(t.active_segments[i], t.ends_at) <= t.ends_at
<1> DEFINE old == t.active_segments
           n == Len(old)
<1>1. n \in 1..n /\ IsOpen(old[n]) /\ i \in Nat /\ n \in Nat
  BY BlockTyped DEF WellFormedAt
<1>2. CASE IsOpen(old[i])
  BY <1>2 DEF EndOr
<1>3. CASE ~IsOpen(old[i])
  <2>1. i < n
    BY <1>1, <1>3
  <2>2. Before(old[i], old[n])
    BY <1>1, <2>1 DEF WellFormedAt
  <2>3. old[n].started_at <= t.ends_at
    BY <1>1, TimerAssumption DEF HasDeadline
  <2>4. old[i].ended_at \in Nat /\ old[n].started_at \in Nat
    BY <1>1, <1>3, BlockTyped
  <2> QED  BY <1>3, <2>2, <2>3, <2>4 DEF Before, EndOr
<1> QED  BY <1>2, <1>3

(* close_stale_open_segments closes what is open at the last sign of life. *)
LEMMA StaleIsClosed ==
    ASSUME NEW t \in TimerState, t.last_alive_at \in Nat, WellFormedAt(t, t.last_alive_at),
           NEW u, u.active_segments = t.active_segments, u.last_alive_at = t.last_alive_at
    PROVE  CloseStaleOpenSegments(u) = CloseOpenSegments(t.active_segments, t.last_alive_at)
<1> DEFINE old == t.active_segments
           n == Len(old)
           a == t.last_alive_at
           First(i) == IsOpen(old[i]) /\ \A j \in 1..(i - 1) : ~IsOpen(old[j])
           Stale(i) == IF First(i)
                       THEN [old[i] EXCEPT !.ended_at = Greater(a, old[i].started_at)]
                       ELSE old[i]
<1>a. /\ DOMAIN old = 1..n /\ n \in Nat
      /\ \A i \in 1..n : old[i] \in Segment /\ old[i].started_at \in Nat
  BY BlockTyped
<1>1. ASSUME NEW i \in 1..n
      PROVE  Stale(i) = [old[i] EXCEPT !.ended_at = EndOr(old[i], a)]
  <2>1. CASE IsOpen(old[i])
    <3>1. \A j \in 1..(i - 1) : ~IsOpen(old[j])
      BY <1>a, OnlyTheLastIsOpen
    <3>2. Greater(a, old[i].started_at) = a
      <4>1. old[i].started_at <= a
        BY DEF WellFormedAt
      <4> QED  BY <4>1, <1>a DEF Greater
    <3> QED  BY <2>1, <3>1, <3>2 DEF EndOr
  <2>2. CASE ~IsOpen(old[i])
    <3>1. old[i] \in Segment
      BY <1>a
    <3>2. [old[i] EXCEPT !.ended_at = old[i].ended_at] = old[i]
      BY <3>1 DEF Segment
    <3> QED  BY <2>2, <3>2 DEF EndOr
  <2> QED  BY <2>1, <2>2
<1>2. CloseStaleOpenSegments(u) = [i \in 1..n |-> Stale(i)]
  BY <1>a DEF CloseStaleOpenSegments
<1>3. CloseOpenSegments(old, a) = [i \in 1..n |-> [old[i] EXCEPT !.ended_at = EndOr(old[i], a)]]
  BY <1>a DEF CloseOpenSegments
<1> HIDE DEF Stale, a, n, old
<1> QED  BY <1>1, <1>2, <1>3 DEF old, a
----------------------------------------------------------------------------
(* What restore_timer makes of a sane snapshot, return by return.          *)

RestoredFine(o, t) ==
    /\ o.timer \in TimerState /\ o.timer.anchor = None
    /\ WellFormedAt(o.timer, wall) /\ HasDeadline(o.timer)
    /\ o.range \in SessionRange \cup {None}
    /\ o.timer.phase \in StudyPhases => TicksOf(o.timer.active_segments, wall) \subseteq Owed(t, wall)
    /\ RangeInstants(o.range) \subseteq Owed(t, wall)

LEMMA FromSnapshotIsTheSame ==
    ASSUME NEW t, NEW now, SaneOnDisk(t, now)
    PROVE  FromSnapshot(t) = t
<1>1. t \in TimerState /\ WellFormedAt(t, t.last_alive_at)
  BY DEF SaneOnDisk
<1>2. NormalizeSegments(t.active_segments) = t.active_segments
  BY <1>1, BlockTyped, NormalizedIsTheSame DEF WellFormedAt
<1>3. t = [t EXCEPT !.active_segments = t.active_segments]
  BY <1>1 DEF TimerState
<1> QED  BY <1>2, <1>3 DEF FromSnapshot

(* A recovered range holds what its segments cover.                        *)
LEMMA RecoveredIsFine ==
    ASSUME TypeOK, NEW t, NEW u \in TimerState, NEW closed \in Seq(ClosedSegment),
           u.phase \in StudyPhases => TicksOf(closed, wall) \subseteq Owed(t, wall)
    PROVE  RestoredFine(Recovered(u, closed), t)
<1> DEFINE r == RangeOf(u.phase, "AbandonedRecovery", closed)
           o == Recovered(u, closed)
<1>1. ClosedSegments(closed) = closed
  BY AllClosedAreKept
<1>2. o.timer = ResetToIdle(u) /\ o.range = r
  BY <1>1 DEF Recovered, Outcome
<1>3. r \in SessionRange \cup {None}
  BY RangeOfType DEF TimerState, Reasons
<1>4. RangeInstants(r) \subseteq Owed(t, wall)
  <2>1. CASE closed = <<>>
    BY <2>1 DEF RangeOf, RangeInstants, IsStudyRange
  <2>2. CASE closed # <<>>
    <3>1. r.phase = u.phase /\ r.segments = closed
      BY <2>2 DEF RangeOf
    <3> QED  BY <3>1 DEF RangeInstants, IsStudyRange
  <2> QED  BY <2>1, <2>2
<1>5. /\ o.timer \in TimerState /\ o.timer.anchor = None /\ o.timer.phase = "Idle"
      /\ o.timer.running = FALSE /\ o.timer.active_segments = <<>> /\ o.timer.ends_at = None
  BY <1>2, ResetToIdleType
<1>6. WellFormedAt(o.timer, wall)
  <2>1. Len(o.timer.active_segments) = 0
    BY <1>5
  <2> QED  BY <1>5, <2>1 DEF WellFormedAt, StudyPhases
<1>7. HasDeadline(o.timer)
  BY <1>5 DEF HasDeadline
<1>8. o.timer.phase \notin StudyPhases
  BY <1>5 DEF StudyPhases
<1> HIDE DEF r, o
<1> QED  BY <1>2, <1>3, <1>4, <1>5, <1>6, <1>7, <1>8 DEF RestoredFine, o

(* The countdown ran out while nobody looked.                              *)
LEMMA RanOutIsFine ==
    ASSUME TypeOK, NEW t, SaneOnDisk(t, wall), RanOut(t, wall)
    PROVE  RestoredFine(Recovered(t, CloseOpenSegments(t.active_segments, t.ends_at)), t)
<1> DEFINE closed == CloseOpenSegments(t.active_segments, t.ends_at)
           n == Len(t.active_segments)
<1>a. /\ t \in TimerState /\ wall \in Nat /\ t.running /\ t.phase \in StudyPhases
      /\ t.active_segments \in Seq(Segment) /\ n \in Nat
      /\ WellFormedAt(t, t.last_alive_at) /\ HasDeadline(t) /\ t.last_alive_at \in Nat
  BY BlockTyped DEF TypeOK, SaneOnDisk, RanOut, RunningCountdown, StudyPhases
<1>b. t.ends_at \in Nat /\ t.ends_at <= wall
  BY <1>a DEF RanOut, RunningCountdown, TimerState
<1>1. /\ closed \in Seq(ClosedSegment) /\ Len(closed) = n
      /\ \A i \in 1..n : /\ closed[i].started_at = t.active_segments[i].started_at
                         /\ closed[i].ended_at = EndOr(t.active_segments[i], t.ends_at)
  BY <1>a, <1>b, CloseOpenSegmentsFacts
<1>2. \A i \in 1..n : closed[i].ended_at <= t.ends_at
  BY <1>1, <1>a, <1>b, EndedByDeadline
<1> HIDE DEF closed
<1>3. TicksOf(closed, wall) \subseteq TicksOf(t.active_segments, t.ends_at)
  BY <1>1, <1>2, <1>a, <1>b, ClosedCoversNoMore
<1>4. CountedUntil(t, wall) = t.ends_at
  BY <1>a, <1>b DEF CountedUntil
<1>5. TicksOf(t.active_segments, t.ends_at) \subseteq Owed(t, wall)
  BY <1>4, <1>a DEF Owed, RanOut
<1>6. TicksOf(closed, wall) \subseteq Owed(t, wall)
  BY <1>3, <1>5
<1> QED  BY <1>1, <1>6, <1>a, RecoveredIsFine DEF closed

(* It goes on.                                                             *)
LEMMA ResumedIsFine ==
    ASSUME TypeOK, NEW t, SaneOnDisk(t, wall), RunningCountdown(t), ~RanOut(t, wall)
    PROVE  RestoredFine(Outcome([t EXCEPT !.remaining_seconds = SecondsUntil(t.ends_at, wall)],
                                None), t)
<1> DEFINE left == SecondsUntil(t.ends_at, wall)
           u == [t EXCEPT !.remaining_seconds = left]
<1>a. /\ t \in TimerState /\ wall \in Nat /\ t.running /\ t.phase \in StudyPhases
      /\ t.active_segments \in Seq(Segment) /\ t.anchor = None
      /\ WellFormedAt(t, t.last_alive_at) /\ HasDeadline(t)
      /\ t.last_alive_at \in Nat /\ t.last_alive_at <= wall
  BY BlockTyped DEF TypeOK, SaneOnDisk, RunningCountdown, StudyPhases
<1>b. t.ends_at \in Nat /\ wall < t.ends_at
  BY <1>a DEF RanOut, RunningCountdown, TimerState
<1>1. left \in Nat
  <2>1. t.ends_at - wall \in Nat \ {0} /\ ~(t.ends_at <= wall)
    BY <1>a, <1>b
  <2>2. (t.ends_at - wall + Tps - 1) \div Tps \in Nat
    BY <2>1, CeilingPositive, TimerAssumption
  <2> QED  BY <2>1, <2>2 DEF SecondsUntil
<1> HIDE DEF left
<1>2. u \in TimerState
  BY <1>1, <1>a DEF TimerState
<1>3. /\ u.phase = t.phase /\ u.running = t.running /\ u.ends_at = t.ends_at
      /\ u.active_segments = t.active_segments /\ u.anchor = None
  BY <1>a DEF TimerState
<1> HIDE DEF u
<1>4. WellFormedAt(t, wall)
  BY <1>a, LaterIsWellFormed
<1>5. WellFormedAt(u, wall) /\ HasDeadline(u)
  BY <1>3, <1>4, <1>a DEF WellFormedAt, HasDeadline
<1>6. CountedUntil(t, wall) = wall
  BY <1>a, <1>b DEF CountedUntil
<1>7. TicksOf(u.active_segments, wall) \subseteq Owed(t, wall)
  BY <1>3, <1>6, <1>a DEF Owed
<1>8. RangeInstants(None) = {}
  BY DEF RangeInstants, IsStudyRange
<1>9. Outcome(u, None).timer = u /\ Outcome(u, None).range = None
  BY DEF Outcome
<1> QED  BY <1>2, <1>3, <1>5, <1>7, <1>8, <1>9 DEF RestoredFine, u, left

(* It is idle, or a break that goes on: nothing is owed.                   *)
LEMMA RestingIsFine ==
    ASSUME TypeOK, NEW t, SaneOnDisk(t, wall), NEW u, u = t \/ (u = Held(t) /\ t.phase = "Idle"),
           t.phase \in {"Idle", "Break"}
    PROVE  RestoredFine(Outcome(u, None), t)
<1>a. /\ t \in TimerState /\ wall \in Nat /\ t.anchor = None
      /\ WellFormedAt(t, t.last_alive_at) /\ HasDeadline(t)
      /\ t.last_alive_at \in Nat /\ t.last_alive_at <= wall
  BY DEF TypeOK, SaneOnDisk
<1>1. WellFormedAt(t, wall)
  BY <1>a, LaterIsWellFormed
<1>2. u \in TimerState /\ u.phase \notin StudyPhases /\ u.anchor = None
  BY <1>a DEF Held, TimerState, StudyPhases
<1>3. WellFormedAt(u, wall) /\ HasDeadline(u)
  <2>1. CASE u = t
    BY <2>1, <1>1, <1>a
  <2>2. CASE u = Held(t) /\ t.phase = "Idle"
    <3>1. /\ u.phase = "Idle" /\ ~u.running /\ u.active_segments = t.active_segments
          /\ u.ends_at = None
      BY <2>2, <1>a DEF Held, TimerState
    <3>2. Len(t.active_segments) = 0
      BY <2>2, <1>1 DEF WellFormedAt
    <3> QED  BY <3>1, <3>2 DEF WellFormedAt, HasDeadline, StudyPhases
  <2> QED  BY <2>1, <2>2
<1>4. RangeInstants(None) = {}
  BY DEF RangeInstants, IsStudyRange
<1>5. Outcome(u, None).timer = u /\ Outcome(u, None).range = None
  BY DEF Outcome
<1> QED  BY <1>2, <1>3, <1>4, <1>5 DEF RestoredFine

(* It is held, closed at the last sign of life.                            *)
LEMMA HeldFacts ==
    ASSUME TypeOK, NEW t, SaneOnDisk(t, wall), NEW p, p = Repaired(Held(t))
    PROVE  /\ p \in TimerState /\ p.phase = t.phase /\ p.running = FALSE
           /\ p.ends_at = None /\ p.anchor = None
           /\ p.active_segments \in Seq(ClosedSegment)
           /\ WellFormedAt(p, wall)
           /\ TicksOf(p.active_segments, wall)
                \subseteq TicksOf(t.active_segments, t.last_alive_at)
<1> DEFINE a == t.last_alive_at
           h == Held(t)
           closed == CloseOpenSegments(t.active_segments, a)
<1>a. /\ t \in TimerState /\ wall \in Nat /\ t.anchor = None
      /\ WellFormedAt(t, a) /\ a \in Nat /\ a <= wall
      /\ t.active_segments \in Seq(Segment)
  BY BlockTyped DEF TypeOK, SaneOnDisk
<1>1. /\ h \in TimerState /\ h.phase = t.phase /\ h.running = FALSE
      /\ h.ends_at = None /\ h.anchor = None
      /\ h.active_segments = t.active_segments /\ h.last_alive_at = a
  BY <1>a DEF Held, TimerState
<1> HIDE DEF h
<1>2. CloseStaleOpenSegments(h) = closed
  BY <1>1, <1>a, StaleIsClosed
<1>3. p = [h EXCEPT !.active_segments = closed]
  BY <1>2 DEF Repaired, h
<1>4. p.active_segments = closed /\ p.phase = t.phase /\ p.running = FALSE
      /\ p.ends_at = None /\ p.anchor = None
  BY <1>1, <1>3 DEF TimerState
<1>5. /\ closed \in Seq(ClosedSegment) /\ Len(closed) = Len(t.active_segments)
      /\ \A i \in 1..Len(closed) :
           /\ closed[i].started_at = t.active_segments[i].started_at
           /\ closed[i].ended_at = EndOr(t.active_segments[i], a)
           /\ closed[i].ended_at <= a
      /\ WellFormedAt(p, a)
  <2>1. closed = CloseOpenSegments(t.active_segments, a)
    OBVIOUS
  <2> HIDE DEF closed, a
  <2>2. /\ t \in TimerState /\ a \in Nat /\ WellFormedAt(t, a)
        /\ p.active_segments = closed /\ p.phase = t.phase /\ p.running = FALSE
    BY <1>a, <1>4
  <2>3. /\ closed \in Seq(ClosedSegment) /\ Len(closed) = Len(t.active_segments)
        /\ ClosedSegments(closed) = closed
        /\ \A i \in 1..Len(closed) :
             /\ closed[i].started_at = t.active_segments[i].started_at
             /\ closed[i].ended_at = EndOr(t.active_segments[i], a)
             /\ closed[i].ended_at <= a
        /\ WellFormedAt(p, a)
    BY ONLY <2>1, <2>2, ClosedIsWellFormed
  <2> QED  BY <2>3
<1> HIDE DEF closed
<1>6. p \in TimerState
  <2>1. closed \in Seq(Segment)
    <3>1. ClosedSegment \subseteq Segment
      BY DEF ClosedSegment, Segment
    <3> QED  BY <3>1, <1>5
  <2> QED  BY <1>1, <1>3, <2>1 DEF TimerState
<1>7. WellFormedAt(p, wall)
  BY <1>5, <1>6, <1>a, LaterIsWellFormed
<1>8. TicksOf(closed, wall) \subseteq TicksOf(t.active_segments, a)
  BY <1>5, <1>a, ClosedCoversNoMore
<1> QED  BY <1>4, <1>5, <1>6, <1>7, <1>8

LEMMA HeldIsFine ==
    ASSUME TypeOK, NEW t, SaneOnDisk(t, wall), NEW p, p = Repaired(Held(t)),
           NEW u \in TimerState, u.phase = p.phase, u.running = FALSE, u.ends_at = None,
           u.anchor = None, u.active_segments = p.active_segments
    PROVE  RestoredFine(Outcome(u, None), t)
<1>1. /\ p.phase = t.phase /\ p.running = FALSE /\ WellFormedAt(p, wall)
      /\ TicksOf(p.active_segments, wall) \subseteq TicksOf(t.active_segments, t.last_alive_at)
  BY HeldFacts
<1>2. WellFormedAt(u, wall) /\ HasDeadline(u)
  BY <1>1 DEF WellFormedAt, HasDeadline
<1>3. u.phase \in StudyPhases => TicksOf(u.active_segments, wall) \subseteq Owed(t, wall)
  BY <1>1 DEF Owed
<1>4. RangeInstants(None) = {}
  BY DEF RangeInstants, IsStudyRange
<1>5. Outcome(u, None).timer = u /\ Outcome(u, None).range = None
  BY DEF Outcome
<1> QED  BY <1>2, <1>3, <1>4, <1>5 DEF RestoredFine

LEMMA RestoredIsFine ==
    ASSUME TypeOK, NEW t, SaneOnDisk(t, wall)
    PROVE  RestoredFine(RestoreTimer(t, wall), t)
<1> DEFINE p == Repaired(Held(t))
           o == RestoreTimer(t, wall)
           goesOn == RunningCountdown(t) /\ ~RanOut(t, wall) /\ ~IsStale(t, wall)
           resting == t.phase = "Break" /\ t.running /\ t.ends_at # None
<1>1. FromSnapshot(t) = t
  BY FromSnapshotIsTheSame
<1>2. o = CASE RanOut(t, wall) ->
                 Recovered(t, CloseOpenSegments(t.active_segments, t.ends_at))
            [] goesOn ->
                 Outcome([t EXCEPT !.remaining_seconds = SecondsUntil(t.ends_at, wall)], None)
            [] t.phase = "Idle" -> Outcome(Held(t), None)
            [] resting -> Outcome(t, None)
            [] t.phase = "Stopwatch" -> Outcome(RestoredStopwatch(t), None)
            [] OTHER ->
                 IF Abandoned(p, wall) THEN Recovered(p, p.active_segments)
                 ELSE Outcome(p, None)
  BY <1>1 DEF RestoreTimer
<1>3. RanOut(t, wall) => RunningCountdown(t)
  BY DEF RanOut
<1>4. RunningCountdown(t) => t.phase \in {"Study", "Exam"}
  BY DEF RunningCountdown
<1> HIDE DEF o, p
<1>5. CASE RanOut(t, wall)
  <2>1. o = Recovered(t, CloseOpenSegments(t.active_segments, t.ends_at))
    BY <1>2, <1>3, <1>4, <1>5
  <2> QED  BY <2>1, <1>5, RanOutIsFine DEF o
<1>6. CASE goesOn
  <2>1. o = Outcome([t EXCEPT !.remaining_seconds = SecondsUntil(t.ends_at, wall)], None)
    BY <1>2, <1>4, <1>6
  <2> QED  BY <2>1, <1>6, ResumedIsFine DEF o
<1>7. CASE t.phase = "Idle"
  <2>1. o = Outcome(Held(t), None)
    BY <1>2, <1>3, <1>4, <1>7
  <2> QED  BY <2>1, <1>7, RestingIsFine DEF o
<1>8. CASE resting
  <2>1. o = Outcome(t, None)
    BY <1>2, <1>3, <1>4, <1>8
  <2> QED  BY <2>1, <1>8, RestingIsFine DEF o
<1>9. CASE t.phase = "Stopwatch"
  <2>1. o = Outcome(RestoredStopwatch(t), None)
    BY <1>2, <1>3, <1>4, <1>9
  <2> DEFINE u == RestoredStopwatch(t)
             total == SumSeconds(ClosedSegments(p.active_segments), 0)
  <2>2. /\ p \in TimerState /\ p.phase = t.phase /\ p.running = FALSE
        /\ p.ends_at = None /\ p.anchor = None
        /\ p.active_segments \in Seq(ClosedSegment)
    BY HeldFacts DEF p
  <2>3. total \in Nat
    <3>1. ClosedSegments(p.active_segments) = p.active_segments
      BY <2>2, AllClosedAreKept
    <3>2. p.active_segments \in Seq(Segment)
      BY <2>2 DEF TimerState
    <3> QED  BY <3>1, <3>2, SumSecondsType
  <2>4. u = [p EXCEPT !.remaining_seconds = total]
    BY DEF RestoredStopwatch, p
  <2> HIDE DEF total, u
  <2>5. /\ u \in TimerState /\ u.phase = p.phase /\ u.running = FALSE /\ u.ends_at = None
        /\ u.anchor = None /\ u.active_segments = p.active_segments
    BY <2>2, <2>3, <2>4 DEF TimerState
  <2> QED  BY <2>1, <2>5, HeldIsFine DEF o, p, u
<1>10. CASE ~RanOut(t, wall) /\ ~goesOn /\ t.phase # "Idle" /\ ~resting /\ t.phase # "Stopwatch"
  <2>1. o = IF Abandoned(p, wall) THEN Recovered(p, p.active_segments) ELSE Outcome(p, None)
    BY <1>2, <1>10
  <2>2. /\ p \in TimerState /\ p.phase = t.phase /\ p.running = FALSE
        /\ p.ends_at = None /\ p.anchor = None
        /\ p.active_segments \in Seq(ClosedSegment)
        /\ TicksOf(p.active_segments, wall) \subseteq TicksOf(t.active_segments, t.last_alive_at)
    BY HeldFacts DEF p
  <2>3. p.phase \in StudyPhases => TicksOf(p.active_segments, wall) \subseteq Owed(t, wall)
    BY <2>2 DEF Owed
  <2>4. RestoredFine(Recovered(p, p.active_segments), t)
    BY <2>2, <2>3, RecoveredIsFine
  <2>5. RestoredFine(Outcome(p, None), t)
    BY <2>2, HeldIsFine DEF p
  <2> QED  BY <2>1, <2>4, <2>5 DEF o
<1> QED  BY <1>5, <1>6, <1>7, <1>8, <1>9, <1>10
----------------------------------------------------------------------------
(* The state after a step, said of the values its variables then have.     *)

LEMMA DiskPrimed ==
    /\ SaneOnDisk(disk.timer, wall)' <=> SaneOnDisk(disk'.timer, wall')
    /\ Owed(disk.timer, wall)' = Owed(disk'.timer, wall')
    /\ RunningCountdown(disk.timer)' <=> RunningCountdown(disk'.timer)
  BY DEF SaneOnDisk, WellFormedAt, HasDeadline, Owed, CountedUntil, RunningCountdown,
     TicksOf, Ticks, EndOr, IsOpen, Before

LEMMA RangePrimed ==
    /\ wall' = wall => RangeInstants(range)' = RangeInstants(range')
    /\ range' = None => RangeInstants(range)' = {}
  BY DEF RangeInstants, IsStudyRange, TicksOf, Ticks, EndOr, IsOpen

LEMMA TimerPrimed ==
    /\ SegmentsWellFormed <=> WellFormedAt(timer, wall)
    /\ SegmentsWellFormed' <=> WellFormedAt(timer', wall')
    /\ WorkedTicks' = IF timer'.phase \in StudyPhases
                      THEN TicksOf(timer'.active_segments, wall') ELSE {}
<1>1. SegmentsWellFormed <=> WellFormedAt(timer, wall)
  BY DEF SegmentsWellFormed, WellFormedAt
<1>2. SegmentsWellFormed' <=> WellFormedAt(timer', wall')
  BY DEF SegmentsWellFormed, WellFormedAt, Before, IsOpen
<1>3. WorkedTicks' = IF timer'.phase \in StudyPhases
                     THEN TicksOf(timer'.active_segments, wall') ELSE {}
  BY DEF WorkedTicks, TicksOf, Ticks, EndOr, IsOpen
<1> QED  BY <1>1, <1>2, <1>3
----------------------------------------------------------------------------
(* Snapshots.                                                              *)

LEMMA SnapshotIsSane ==
    ASSUME TypeOK, NEW t \in TimerState, NEW alive \in Nat, alive <= wall,
           WellFormedAt(t, alive), HasDeadline(t),
           NEW s, s = Snapshot(t, alive)
    PROVE  /\ SaneOnDisk(s, wall)
           /\ RunningCountdown(s) <=> RunningCountdown(t)
           /\ s.phase = t.phase /\ s.running = t.running
           /\ t.phase \notin StudyPhases => Owed(s, wall) = {}
           /\ t.phase \in StudyPhases => Owed(s, wall) \subseteq TicksOf(t.active_segments, wall)
<1>1. DisplaySeconds(t) \in Nat /\ wall \in Nat
  BY DisplayOfType DEF TypeOK
<1>2. s = [t EXCEPT !.remaining_seconds = DisplaySeconds(t),
                    !.last_alive_at = alive, !.anchor = None]
  BY DEF Snapshot
<1>3. /\ s \in TimerState /\ s.phase = t.phase /\ s.running = t.running
      /\ s.ends_at = t.ends_at /\ s.active_segments = t.active_segments
      /\ s.last_alive_at = alive /\ s.anchor = None
  BY <1>1, <1>2 DEF TimerState
<1>4. WellFormedAt(s, alive) /\ HasDeadline(s)
  BY <1>3 DEF WellFormedAt, HasDeadline
<1>5. SaneOnDisk(s, wall)
  BY <1>3, <1>4 DEF SaneOnDisk
<1>6. RunningCountdown(s) <=> RunningCountdown(t)
  BY <1>3 DEF RunningCountdown
<1>7. ASSUME t.phase \in StudyPhases
      PROVE  Owed(s, wall) \subseteq TicksOf(t.active_segments, wall)
  <2>1. t.active_segments \in Seq(Segment)
    BY BlockTyped
  <2>2. TicksOf(s.active_segments, s.last_alive_at) \subseteq TicksOf(t.active_segments, wall)
    BY <2>1, <1>1, <1>3, TicksGrow
  <2>3. ASSUME RunningCountdown(s)
        PROVE  TicksOf(s.active_segments, CountedUntil(s, wall))
                  \subseteq TicksOf(t.active_segments, wall)
    <3>1. s.ends_at \in Nat
      BY <2>3, <1>3 DEF RunningCountdown, TimerState
    <3>2. CountedUntil(s, wall) \in Nat /\ CountedUntil(s, wall) <= wall
      BY <3>1, <1>1 DEF CountedUntil
    <3> QED  BY <3>2, <2>1, <1>1, <1>3, TicksGrow
  <2> QED  BY <2>2, <2>3 DEF Owed
<1>8. t.phase \notin StudyPhases => Owed(s, wall) = {}
  BY <1>3 DEF Owed
<1> QED  BY <1>3, <1>5, <1>6, <1>7, <1>8

(* As the clock goes on a snapshot stays sane, and stands for one tick     *)
(* more at most, while its countdown runs.                                 *)
LEMMA SnapshotLater ==
    ASSUME NEW t, NEW now \in Nat, SaneOnDisk(t, now)
    PROVE  /\ SaneOnDisk(t, now + 1)
           /\ Owed(t, now + 1) \subseteq Owed(t, now)
                \cup (IF RunningCountdown(t) /\ now < t.ends_at THEN {now} ELSE {})
<1>1. /\ t \in TimerState /\ t.active_segments \in Seq(Segment)
      /\ t.last_alive_at \in Nat /\ t.last_alive_at <= now /\ now + 1 \in Nat
  BY BlockTyped DEF SaneOnDisk
<1>2. SaneOnDisk(t, now + 1)
  <2>1. t.last_alive_at <= now + 1
    BY <1>1
  <2> QED  BY <2>1 DEF SaneOnDisk
<1>3. ASSUME RunningCountdown(t)
      PROVE  TicksOf(t.active_segments, CountedUntil(t, now + 1))
               \subseteq TicksOf(t.active_segments, CountedUntil(t, now))
                  \cup (IF now < t.ends_at THEN {now} ELSE {})
  <2>1. t.ends_at \in Nat
    BY <1>1, <1>3 DEF RunningCountdown, TimerState
  <2>2. CASE now < t.ends_at
    <3>1. CountedUntil(t, now) = now /\ CountedUntil(t, now + 1) = now + 1
      BY <2>1, <2>2 DEF CountedUntil
    <3>2. TicksOf(t.active_segments, now + 1) \subseteq TicksOf(t.active_segments, now) \cup {now}
      BY <1>1, TickAdds
    <3> QED  BY <3>1, <3>2, <2>2
  <2>3. CASE ~(now < t.ends_at)
    <3>1. CountedUntil(t, now) = t.ends_at /\ CountedUntil(t, now + 1) = t.ends_at
      BY <2>1, <2>3 DEF CountedUntil
    <3> QED  BY <3>1
  <2> QED  BY <2>2, <2>3
<1>4. Owed(t, now + 1) \subseteq Owed(t, now)
        \cup (IF RunningCountdown(t) /\ now < t.ends_at THEN {now} ELSE {})
  <2>1. CASE t.phase \in StudyPhases /\ RunningCountdown(t)
    BY <2>1, <1>3 DEF Owed
  <2>2. CASE t.phase \in StudyPhases /\ ~RunningCountdown(t)
    BY <2>2 DEF Owed
  <2>3. CASE t.phase \notin StudyPhases
    BY <2>3 DEF Owed
  <2> QED  BY <2>1, <2>2, <2>3
<1> QED  BY <1>2, <1>4
----------------------------------------------------------------------------
(* Commands and writes.                                                    *)

(* A command works nothing, and hands over nothing but work.               *)
LEMMA CommandsWorkNothing ==
    ASSUME Sane, Command
    PROVE  /\ wall' = wall /\ mono' = mono
           /\ WorkedTicks' \subseteq WorkedTicks
           /\ RangeInstants(range') \subseteq WorkedTicks
<1> DEFINE old == timer.active_segments
           n == Len(old)
<1>a. /\ timer \in TimerState /\ wall \in Nat /\ old \in Seq(Segment) /\ n \in Nat
  BY BlockTyped DEF Sane, TypeOK
<1>b. RangeInstants(None) = {}
  BY DEF RangeInstants, IsStudyRange
<1>c. ASSUME Emit(None) PROVE RangeInstants(range') \subseteq WorkedTicks
  BY <1>b, <1>c DEF Emit
<1>d. /\ ResetToIdle(timer).phase = "Idle" /\ "Idle" \notin StudyPhases /\ "Break" \notin StudyPhases
  BY <1>a, ResetToIdleType DEF StudyPhases
<1>e. ASSUME timer'.phase \notin StudyPhases PROVE WorkedTicks' \subseteq WorkedTicks
  BY <1>e, TimerPrimed
<1>f. WorkedTicks = IF timer.phase \in StudyPhases THEN TicksOf(old, wall) ELSE {}
  BY DEF WorkedTicks
<1>g. ASSUME timer.phase \in StudyPhases, NEW end \in Nat, end <= wall,
             NEW closed \in Seq(ClosedSegment), closed # <<>>, Len(closed) = n,
             \A i \in 1..Len(closed) :
                 /\ closed[i].started_at = old[i].started_at
                 /\ closed[i].ended_at = EndOr(old[i], end)
                 /\ closed[i].ended_at <= end,
             NEW phase, NEW reason, Emit(RangeOf(phase, reason, closed))
      PROVE  RangeInstants(range') \subseteq WorkedTicks
  <2>1. range' = [phase |-> phase, reason |-> reason, segments |-> closed]
    BY <1>g DEF RangeOf, Emit
  <2>2. RangeInstants(range') \subseteq TicksOf(closed, wall)
    BY <2>1 DEF RangeInstants, IsStudyRange
  <2>3. TicksOf(closed, wall) \subseteq TicksOf(old, end)
    BY <1>a, <1>g, ClosedCoversNoMore
  <2>4. TicksOf(old, end) \subseteq TicksOf(old, wall)
    BY <1>a, <1>g, TicksGrow
  <2> QED  BY <2>2, <2>3, <2>4, <1>g, <1>f
<1>1. CASE Start
  <2>1. /\ timer'.active_segments = <<OpenSegment(wall)>>
        /\ wall' = wall /\ mono' = mono /\ Emit(None)
    BY <1>1, <1>a DEF Start, TimerState
  <2>2. TicksOf(<<OpenSegment(wall)>>, wall) = {}
    <3> DEFINE segs == <<OpenSegment(wall)>>
    <3>1. OpenSegment(wall) \in Segment /\ OpenSegment(wall).started_at = wall
      BY <1>a DEF OpenSegment, Segment
    <3>2. segs \in Seq(Segment) /\ Len(segs) = 1 /\ segs[1].started_at = wall
      BY <3>1
    <3> HIDE DEF segs
    <3>3. ASSUME NEW i \in 1..Len(segs), NEW t \in Int PROVE ~Covers(segs[i], t, wall)
      <4>1. i = 1
        BY <3>2
      <4> QED  BY <4>1, <3>2, <1>a DEF Covers
    <3>4. \A t : t \in TicksOf(segs, wall)
                   <=> t \in Int /\ \E i \in 1..Len(segs) : Covers(segs[i], t, wall)
      BY <3>2, <1>a, TicksOfFacts
    <3>5. TicksOf(segs, wall) = {}
      BY <3>3, <3>4
    <3> QED  BY <3>5 DEF segs
  <2> QED  BY <2>1, <2>2, <1>c, TimerPrimed
<1>2. CASE Pause
  <2>1. /\ timer'.active_segments = CloseOpenSegments(old, wall) /\ timer'.phase = timer.phase
        /\ wall' = wall /\ mono' = mono /\ Emit(None)
    BY <1>2, <1>a DEF Pause, TimerState
  <2>2. PICK closed : closed = CloseOpenSegments(old, wall)
    OBVIOUS
  <2>3. /\ closed \in Seq(ClosedSegment) /\ Len(closed) = n
        /\ \A i \in 1..n : /\ closed[i].started_at = old[i].started_at
                           /\ closed[i].ended_at = EndOr(old[i], wall)
    BY <2>2, <1>a, CloseOpenSegmentsFacts
  <2>4. closed \in Seq(Segment)
    <3>1. ClosedSegment \subseteq Segment
      BY DEF ClosedSegment, Segment
    <3> QED  BY <3>1, <2>3
  <2>5. TicksOf(closed, wall) = TicksOf(old, wall)
    BY <2>3, <2>4, <1>a, ClosingCoversTheSame
  <2> QED  BY <2>1, <2>2, <2>5, <1>c, <1>f, TimerPrimed
<1>3. CASE Resume
  <2>1. /\ timer'.active_segments = Append(old, OpenSegment(wall)) /\ timer'.phase = timer.phase
        /\ wall' = wall /\ mono' = mono /\ Emit(None)
    BY <1>3, <1>a DEF Resume, TimerState
  <2>2. TicksOf(Append(old, OpenSegment(wall)), wall) = TicksOf(old, wall)
    BY <1>a, OpeningCoversTheSame
  <2> QED  BY <2>1, <2>2, <1>c, <1>f, TimerPrimed
<1>4. CASE Reset
  <2>1. timer' = ResetToIdle(timer) /\ wall' = wall /\ mono' = mono /\ Emit(None)
    BY <1>4 DEF Reset
  <2>2. timer'.phase \notin StudyPhases
    BY <2>1, <1>d
  <2> QED  BY <2>1, <2>2, <1>c, <1>e
<1>5. CASE CompleteManually
  <2>1. /\ timer' = ResetToIdle(timer) /\ wall' = wall /\ mono' = mono
        /\ timer.phase \in StudyPhases /\ wall <= wall
    BY <1>5, <1>a DEF CompleteManually
  <2>2. timer'.phase \notin StudyPhases
    BY <2>1, <1>d
  <2>3. PICK closed \in Seq(ClosedSegment) :
          /\ closed # <<>> /\ Len(closed) = n
          /\ \A i \in 1..Len(closed) : /\ closed[i].started_at = old[i].started_at
                                       /\ closed[i].ended_at = EndOr(old[i], wall)
                                       /\ closed[i].ended_at <= wall
          /\ Emit(RangeOf(timer.phase, "ManualSave", closed))
    BY <1>5, SavedBlock
  <2>4. RangeInstants(range') \subseteq WorkedTicks
    BY <2>1, <2>3, <1>a, <1>g
  <2> QED  BY <2>1, <2>2, <2>4, <1>e
<1>6. CASE ObserveTime
  <2>1. /\ wall' = wall /\ mono' = mono
        /\ timer'.phase \in {"Idle", "Break"}
    <3>1. \A start : StartBreak(timer, start).phase = "Break"
      BY <1>a DEF StartBreak, TimerState
    <3>2. wall' = wall /\ mono' = mono
      BY <1>6 DEF ObserveTime
    <3>3. timer' = ResetToIdle(timer) \/ \E start : timer' = StartBreak(timer, start)
      BY <1>6 DEF ObserveTime
    <3> QED  BY <3>1, <3>2, <3>3, <1>d
  <2>2. timer'.phase \notin StudyPhases
    BY <2>1, <1>d
  <2>3. CASE timer.phase = "Break"
    <3>1. Emit(None)
      BY <1>6, <2>3 DEF ObserveTime
    <3> QED  BY <3>1, <2>1, <2>2, <1>c, <1>e
  <2>4. CASE timer.phase # "Break"
    <3>1. timer.phase \in StudyPhases
      BY <1>6, <2>4, ExpiredBlock
    <3>2. PICK end \in Nat, closed \in Seq(ClosedSegment) :
            /\ end = timer.ends_at /\ end <= wall
            /\ closed # <<>> /\ Len(closed) = n
            /\ \A i \in 1..Len(closed) : /\ closed[i].started_at = old[i].started_at
                                         /\ closed[i].ended_at = EndOr(old[i], end)
                                         /\ closed[i].ended_at <= end
            /\ Emit(RangeOf(timer.phase, "CountdownElapsed", closed))
      BY <1>6, <2>4, ExpiredBlock
    <3>3. RangeInstants(range') \subseteq WorkedTicks
      BY <3>1, <3>2, <1>g
    <3> QED  BY <3>3, <2>1, <2>2, <1>e
  <2> QED  BY <2>3, <2>4
<1>7. ASSUME NEW m \in Modes, SetMode(m) PROVE /\ wall' = wall /\ mono' = mono
                                               /\ WorkedTicks' \subseteq WorkedTicks
                                               /\ RangeInstants(range') \subseteq WorkedTicks
  <2>1. /\ wall' = wall /\ mono' = mono /\ Emit(None) /\ timer'.phase = "Idle"
    BY <1>7, <1>a DEF SetMode, TimerState
  <2> QED  BY <2>1, <1>c, <1>d, <1>e
<1> QED  BY <1>1, <1>2, <1>3, <1>4, <1>5, <1>6, <1>7 DEF Command

(* A write reaches its section of the file and no other, or is a failure.  *)
LEMMA WriteFacts ==
    ASSUME disk = [timer |-> disk.timer, sessions |-> disk.sessions], failures \in Nat,
           NEW section \in {"timer", "sessions"}, NEW value, Write(section, value)
    PROVE  /\ disk' = [timer |-> disk'.timer, sessions |-> disk'.sessions]
           /\ failures' \in Nat
           /\ failures' = 0 => failures = 0
           /\ \/ disk' = disk /\ failures' # 0
              \/ section = "timer" /\ disk'.timer = value /\ disk'.sessions = disk.sessions
              \/ section = "sessions" /\ disk'.timer = disk.timer /\ disk'.sessions = value
<1> PICK d : d = [timer |-> disk.timer, sessions |-> disk.sessions]
  OBVIOUS
<1>1. CASE disk' = [disk EXCEPT ![section] = value] /\ UNCHANGED failures
  <2>1. disk = d
    OBVIOUS
  <2>2. CASE section = "timer"
    <3>1. disk' = [timer |-> value, sessions |-> disk.sessions]
      BY <1>1, <2>1, <2>2
    <3> QED  BY <3>1, <1>1, <2>2
  <2>3. CASE section = "sessions"
    <3>1. disk' = [timer |-> disk.timer, sessions |-> value]
      BY <1>1, <2>1, <2>3
    <3> QED  BY <3>1, <1>1, <2>3
  <2> QED  BY <2>2, <2>3
<1>2. CASE failures' = failures + 1 /\ UNCHANGED disk
  BY <1>2
<1> QED  BY <1>1, <1>2 DEF Write

(* Sessions of a range hold what the range holds, and nothing else.        *)
LEMMA SessionsOfRange ==
    ASSUME NEW now, NEW k
    PROVE  InstantsOf(SessionsOf(range, now, k)) \subseteq RangeInstants(range)
<1>1. ASSUME NEW s \in SessionsOf(range, now, k) PROVE s.instants \subseteq RangeInstants(range)
  BY DEF SessionsOf
<1> QED  BY <1>1 DEF InstantsOf

LEMMA InsertFacts ==
    ASSUME disk = [timer |-> disk.timer, sessions |-> disk.sessions], failures \in Nat,
           NEW known, Insert(known), disk.sessions \subseteq known
    PROVE  /\ disk' = [timer |-> disk'.timer, sessions |-> disk'.sessions]
           /\ failures' \in Nat
           /\ failures' = 0 => failures = 0
           /\ disk'.timer = disk.timer
           /\ disk.sessions \subseteq disk'.sessions
           /\ disk'.sessions \subseteq sessions'
           /\ InstantsOf(sessions' \cup disk'.sessions)
                \subseteq InstantsOf(known) \cup RangeInstants(range)
<1> DEFINE new == NewSessions(known, SessionsOf(range, wall, made))
<1>1. new \subseteq SessionsOf(range, wall, made)
  BY DEF NewSessions
<1>2. /\ sessions' = known \cup new
      /\ IF new = {} THEN UNCHANGED <<disk, failures>> ELSE Write("sessions", sessions')
  BY DEF Insert
<1> HIDE DEF new
<1>3. /\ disk' = [timer |-> disk'.timer, sessions |-> disk'.sessions]
      /\ failures' \in Nat
      /\ failures' = 0 => failures = 0
      /\ disk'.timer = disk.timer
      /\ disk'.sessions = disk.sessions \/ disk'.sessions = sessions'
  <2>1. CASE new = {}
    BY <1>2, <2>1
  <2>2. CASE new # {}
    <3>1. PICK value : value = sessions'
      OBVIOUS
    <3>2. Write("sessions", value)
      BY <1>2, <2>2, <3>1
    <3>3. /\ disk' = [timer |-> disk'.timer, sessions |-> disk'.sessions]
          /\ failures' \in Nat
          /\ failures' = 0 => failures = 0
          /\ \/ disk' = disk
             \/ disk'.timer = disk.timer /\ disk'.sessions = value
      BY <3>2, WriteFacts
    <3> QED  BY <3>1, <3>3
  <2> QED  BY <2>1, <2>2
<1>4. InstantsOf(sessions' \cup disk'.sessions) \subseteq InstantsOf(known) \cup RangeInstants(range)
  <2>1. sessions' \cup disk'.sessions \subseteq known \cup SessionsOf(range, wall, made)
    BY <1>1, <1>2, <1>3
  <2>2. InstantsOf(sessions' \cup disk'.sessions)
          \subseteq InstantsOf(known) \cup InstantsOf(SessionsOf(range, wall, made))
    BY <2>1 DEF InstantsOf
  <2> QED  BY <2>2, SessionsOfRange
<1> QED  BY <1>2, <1>3, <1>4
----------------------------------------------------------------------------
(* Each step keeps the invariant.                                          *)

LEMMA FreshTimerIsSane ==
    ASSUME TypeOK, NEW c \in Configs, timer' = NewTimer(c), wall' \in Nat, mono' \in Nat,
           range' \in SessionRange \cup {None}, logged' \subseteq ClosedSegment
    PROVE  Sane' /\ WorkedTicks' = {}
<1>1. timer' \in TimerState
  BY NewTimerType, TimerAssumption
<1>2. /\ timer'.phase = "Idle" /\ timer'.running = FALSE /\ timer'.active_segments = <<>>
      /\ timer'.ends_at = None /\ timer'.anchor = None
  BY DEF NewTimer
<1>3. Len(timer'.active_segments) = 0 /\ timer'.phase \notin StudyPhases
  BY <1>2 DEF StudyPhases
<1>4. SegmentsWellFormed'
  BY <1>2, <1>3 DEF SegmentsWellFormed
<1>5. DeadlineSync'
  BY <1>2 DEF DeadlineSync
<1>6. TypeOK'
  BY <1>1 DEF TypeOK
<1>7. WorkedTicks' = {}
  BY <1>3, TimerPrimed
<1> QED  BY <1>4, <1>5, <1>6, <1>7 DEF Sane

LEMMA TrackerStarts == TrackerInit => TrackerIInv
<1> SUFFICES ASSUME TrackerInit PROVE TrackerIInv
  OBVIOUS
<1>1. Init
  BY TrackerAssumption DEF TrackerInit, Init
<1>2. Sane
  BY <1>1, InitIInv, IInvIsSane
<1>3. timer.phase = "Idle" /\ sessions = {} /\ disk = [timer |-> None, sessions |-> {}]
      /\ range = None /\ pc = "ready" /\ failures = 0 /\ mono = 0 /\ wall = 0
  BY DEF TrackerInit, NewTimer
<1>4. WorkedTicks = {} /\ RangeInstants(range) = {}
  BY <1>3 DEF WorkedTicks, RangeInstants, IsStudyRange, StudyPhases
<1>5. InstantsOf(sessions \cup disk.sessions) = {}
  BY <1>3 DEF InstantsOf
<1>6. NothingUnworked
  BY <1>3, <1>4, <1>5 DEF NothingUnworked
<1> QED  BY <1>2, <1>3, <1>6 DEF TrackerIInv, FileIsKnown

LEMMA TickUpKeeps == TrackerIInv /\ TickUp => TrackerIInv'
<1> SUFFICES ASSUME TrackerIInv, TickUp PROVE TrackerIInv'
  OBVIOUS
<1>a. /\ Sane /\ Tick /\ pc = "ready" /\ wall \in Nat /\ mono \in Nat /\ mono <= wall
      /\ disk' = disk /\ sessions' = sessions /\ pc' = pc /\ failures' = failures
      /\ timer' = timer /\ wall' = wall + 1 /\ mono' = mono + 1 /\ range' = None
      /\ worked' = IF CountingUp THEN worked \cup {wall} ELSE worked
  BY DEF TrackerIInv, TickUp, store, Sane, TypeOK, Tick
<1>1. Sane'
  BY <1>a, StepSane DEF Next
<1>2. disk.timer # None => SaneOnDisk(disk.timer, wall + 1)
  BY <1>a, SnapshotLater DEF TrackerIInv
<1>3. ASSUME failures = 0 PROVE NothingUnworked'
  <2>1. NothingUnworked
    BY <1>3 DEF TrackerIInv
  <2>2. WorkedTicks' \subseteq worked'
    <3>1. WorkedTicks' = IF AtWork THEN WorkedTicks \cup {wall} ELSE WorkedTicks
      BY <1>a, TickIsWorked
    <3> QED  BY <1>a, <2>1, <3>1 DEF AtWork, CountingUp, NothingUnworked
  <2>3. RangeInstants(range)' = {}
    BY <1>a, RangePrimed
  <2>4. (InstantsOf(sessions \cup disk.sessions))' \subseteq worked'
    BY <1>a, <2>1 DEF NothingUnworked, InstantsOf
  <2>5. ASSUME disk.timer # None
        PROVE  /\ Owed(disk.timer, wall + 1) \subseteq worked'
               /\ RunningCountdown(disk.timer) => CountingUp'
    <3>1. Owed(disk.timer, wall + 1) \subseteq Owed(disk.timer, wall)
             \cup (IF RunningCountdown(disk.timer) /\ wall < disk.timer.ends_at
                   THEN {wall} ELSE {})
      BY <1>a, <2>5, SnapshotLater DEF TrackerIInv
    <3>2. Owed(disk.timer, wall) \subseteq worked /\ (RunningCountdown(disk.timer) => CountingUp)
      BY <2>1, <2>5, <1>a DEF NothingUnworked
    <3>3. CountingUp' <=> CountingUp
      BY <1>a DEF CountingUp
    <3> QED  BY <1>a, <3>1, <3>2, <3>3
  <2> QED  BY <1>a, <2>2, <2>3, <2>4, <2>5, DiskPrimed DEF NothingUnworked
<1> QED  BY <1>a, <1>1, <1>2, <1>3, DiskPrimed DEF TrackerIInv, FileIsKnown

LEMMA TickDownKeeps == TrackerIInv /\ TickDown => TrackerIInv'
<1> SUFFICES ASSUME TrackerIInv, TickDown PROVE TrackerIInv'
  OBVIOUS
<1>a. /\ Sane /\ TypeOK /\ pc = "down" /\ wall \in Nat /\ mono \in Nat
      /\ disk' = disk /\ sessions' = sessions /\ pc' = pc /\ failures' = failures
      /\ timer' = timer /\ wall' = wall + 1 /\ mono' = mono /\ range' = range
      /\ logged' = logged
      /\ worked' = IF CountingDown THEN worked \cup {wall} ELSE worked
      /\ timer = NewTimer(DefaultConfig) /\ range = None
      /\ logged \subseteq ClosedSegment
  BY DEF TrackerIInv, TickDown, store, Sane, TypeOK
<1>1. Sane' /\ WorkedTicks' = {}
  BY <1>a, FreshTimerIsSane, TrackerAssumption
<1>2. disk.timer # None => SaneOnDisk(disk.timer, wall + 1)
  BY <1>a, SnapshotLater DEF TrackerIInv
<1>3. ASSUME failures = 0 PROVE NothingUnworked'
  <2>1. NothingUnworked
    BY <1>3 DEF TrackerIInv
  <2>2. RangeInstants(range)' = {}
    BY <1>a, RangePrimed
  <2>3. (InstantsOf(sessions \cup disk.sessions))' \subseteq worked'
    BY <1>a, <2>1 DEF NothingUnworked, InstantsOf
  <2>4. ASSUME disk.timer # None
        PROVE  Owed(disk.timer, wall + 1) \subseteq worked'
    <3>1. Owed(disk.timer, wall + 1) \subseteq Owed(disk.timer, wall)
             \cup (IF RunningCountdown(disk.timer) /\ wall < disk.timer.ends_at
                   THEN {wall} ELSE {})
      BY <1>a, <2>4, SnapshotLater DEF TrackerIInv
    <3>2. Owed(disk.timer, wall) \subseteq worked
      BY <2>1, <2>4 DEF NothingUnworked
    <3> QED  BY <1>a, <2>4, <3>1, <3>2 DEF CountingDown
  <2> QED  BY <1>a, <1>1, <2>2, <2>3, <2>4, DiskPrimed DEF NothingUnworked
<1> QED  BY <1>a, <1>1, <1>2, <1>3, DiskPrimed DEF TrackerIInv, FileIsKnown

(* A live command, and the write of the timer section after it.            *)
LEMMA CommandKeeps ==
    ASSUME TrackerIInv, Command, NEW alive \in Nat, alive <= wall,
           WellFormedAt(timer', alive),
           Apply(TRUE, alive)
    PROVE  TrackerIInv'
<1> DEFINE snapshot == Snapshot(timer', alive)
<1>a. /\ Sane /\ TypeOK /\ pc = "ready" /\ wall \in Nat /\ mono <= wall
      /\ sessions' = sessions /\ worked' = worked
      /\ pc' \in {"ready", "routing"}
      /\ Write("timer", snapshot)
      /\ disk = [timer |-> disk.timer, sessions |-> disk.sessions] /\ failures \in Nat
  BY DEF TrackerIInv, Apply, PersistTimer, Sane, TypeOK
<1>b. /\ wall' = wall /\ mono' = mono /\ WorkedTicks' \subseteq WorkedTicks
      /\ RangeInstants(range') \subseteq WorkedTicks
  BY <1>a, CommandsWorkNothing
<1>1. Sane'
  BY <1>a, StepSane DEF Next
<1>2. timer' \in TimerState /\ HasDeadline(timer')
  BY <1>1 DEF Sane, TypeOK, DeadlineSync, HasDeadline
<1>3. PICK s : s = snapshot
  OBVIOUS
<1>4. PICK t \in TimerState : t = timer'
  BY <1>2
<1>5. /\ SaneOnDisk(s, wall)
      /\ RunningCountdown(s) <=> RunningCountdown(t)
      /\ s.phase = t.phase /\ s.running = t.running
      /\ t.phase \notin StudyPhases => Owed(s, wall) = {}
      /\ t.phase \in StudyPhases => Owed(s, wall) \subseteq TicksOf(t.active_segments, wall)
  BY <1>a, <1>2, <1>3, <1>4, SnapshotIsSane
<1>6. Owed(s, wall) \subseteq WorkedTicks'
  BY <1>4, <1>5, <1>b, TimerPrimed
<1>7. /\ disk' = [timer |-> disk'.timer, sessions |-> disk'.sessions]
      /\ failures' \in Nat
      /\ failures' = 0 => failures = 0
      /\ \/ disk' = disk /\ failures' # 0
         \/ disk'.timer = s /\ disk'.sessions = disk.sessions
  <2>1. Write("timer", s)
    BY <1>a, <1>3
  <2> HIDE DEF snapshot
  <2> QED  BY <2>1, <1>a, WriteFacts
<1> HIDE DEF snapshot
<1>8. disk'.timer # None => SaneOnDisk(disk'.timer, wall)
  BY <1>5, <1>7 DEF TrackerIInv
<1>9. ASSUME failures' = 0 PROVE NothingUnworked'
  <2>1. NothingUnworked /\ disk'.timer = s /\ disk'.sessions = disk.sessions
    BY <1>7, <1>9 DEF TrackerIInv
  <2>2. WorkedTicks \subseteq worked /\ InstantsOf(sessions \cup disk.sessions) \subseteq worked
    BY <2>1 DEF NothingUnworked
  <2>3. WorkedTicks' \subseteq worked' /\ Owed(s, wall) \subseteq worked'
    BY <1>6, <1>a, <1>b, <2>2
  <2>4. RangeInstants(range)' \subseteq worked'
    BY <1>a, <1>b, <2>2, RangePrimed
  <2>5. (InstantsOf(sessions \cup disk.sessions))' \subseteq worked'
    BY <1>a, <2>1, <2>2 DEF InstantsOf
  <2>6. RunningCountdown(s) => CountingUp'
    BY <1>4, <1>5 DEF RunningCountdown, CountingUp, StudyPhases
  <2> QED  BY <1>b, <2>1, <2>3, <2>4, <2>5, <2>6, DiskPrimed DEF NothingUnworked
<1>10. FileIsKnown'
  <2>1. disk'.sessions = disk.sessions
    BY <1>7
  <2> QED  BY <1>a, <2>1 DEF TrackerIInv, FileIsKnown
<1> QED  BY <1>a, <1>b, <1>1, <1>7, <1>8, <1>9, <1>10, DiskPrimed DEF TrackerIInv

LEMMA LiveCommandKeeps ==
    ASSUME TrackerIInv
    PROVE  /\ AppStart \/ AppPause \/ AppResume \/ AppComplete \/ AppRefresh => TrackerIInv'
           /\ AppReset => TrackerIInv'
<1>a. /\ Sane /\ TypeOK /\ wall \in Nat /\ mono \in Nat /\ timer \in TimerState
      /\ mono <= wall
  BY DEF TrackerIInv, Sane, TypeOK
<1>1. ASSUME Command, Apply(TRUE, wall) PROVE TrackerIInv'
  <2>1. wall' = wall
    BY <1>1, <1>a, CommandsWorkNothing
  <2>2. WellFormedAt(timer', wall)
    <3>1. Sane'
      BY <1>1, <1>a, StepSane DEF Next
    <3> QED  BY <2>1, <3>1, TimerPrimed DEF Sane
  <2>3. wall <= wall
    BY <1>a
  <2> QED  BY <1>1, <1>a, <2>2, <2>3, CommandKeeps
<1>2. ASSUME AppStart \/ AppPause \/ AppResume \/ AppComplete \/ AppRefresh
      PROVE  Command /\ Apply(TRUE, wall)
  BY <1>2 DEF Command, Apply, AppStart, AppPause, AppResume, AppComplete, AppRefresh
<1>3. ASSUME AppReset PROVE TrackerIInv'
  <2>1. /\ Command /\ Apply(TRUE, wall - mono) /\ pc = "ready" /\ timer' = ResetToIdle(timer)
    BY <1>3 DEF Command, Apply, AppReset, Reset
  <2>2. PICK alive \in Nat : alive = wall - mono /\ alive <= wall
    BY <1>a, <2>1
  <2>3. /\ timer'.phase = "Idle" /\ timer'.running = FALSE
        /\ timer'.active_segments = <<>>
    BY <1>a, <2>1, ResetToIdleType
  <2>4. WellFormedAt(timer', alive)
    <3>1. Len(timer'.active_segments) = 0
      BY <2>3
    <3> QED  BY <2>3, <3>1 DEF WellFormedAt, StudyPhases
  <2>5. Apply(TRUE, alive)
    BY <2>1, <2>2
  <2> QED  BY <2>1, <2>2, <2>4, <2>5, CommandKeeps
<1> QED  BY <1>1, <1>2, <1>3

LEMMA SetModeKeeps ==
    ASSUME TrackerIInv, NEW c \in Configs, AppSetMode(c)
    PROVE  TrackerIInv'
<1>a. /\ Sane /\ TypeOK /\ wall \in Nat /\ mono \in Nat /\ pc = "ready" /\ mono <= wall
      /\ disk' = disk /\ sessions' = sessions /\ pc' = pc /\ failures' = failures
      /\ timer' = NewTimer(c) /\ wall' = wall /\ mono' = mono /\ range' = None
      /\ logged' = logged /\ worked' = worked /\ logged \subseteq ClosedSegment
      /\ ~timer.running
  BY DEF TrackerIInv, AppSetMode, store, history, Sane, TypeOK
<1>1. Sane' /\ WorkedTicks' = {}
  BY <1>a, FreshTimerIsSane
<1>2. ASSUME failures = 0 PROVE NothingUnworked'
  <2>1. NothingUnworked
    BY <1>2 DEF TrackerIInv
  <2>2. RangeInstants(range)' = {}
    BY <1>a, RangePrimed
  <2>3. (InstantsOf(sessions \cup disk.sessions))' \subseteq worked'
    BY <1>a, <2>1 DEF NothingUnworked, InstantsOf
  <2>4. disk.timer # None =>
          Owed(disk.timer, wall) \subseteq worked /\ ~RunningCountdown(disk.timer)
    BY <1>a, <2>1 DEF NothingUnworked, CountingUp
  <2> QED  BY <1>a, <1>1, <2>2, <2>3, <2>4, DiskPrimed DEF NothingUnworked
<1> QED  BY <1>a, <1>1, <1>2, DiskPrimed DEF TrackerIInv, FileIsKnown

(* The second write, for a block completed live.                           *)
LEMMA RouteKeeps == TrackerIInv /\ Route => TrackerIInv'
<1> SUFFICES ASSUME TrackerIInv, Route PROVE TrackerIInv'
  OBVIOUS
<1>a. /\ Sane /\ wall \in Nat /\ mono <= wall /\ pc = "routing" /\ pc' = "ready"
      /\ timer' = timer /\ wall' = wall /\ mono' = mono /\ range' = None
      /\ logged' = logged /\ worked' = worked /\ Insert(sessions)
      /\ disk = [timer |-> disk.timer, sessions |-> disk.sessions] /\ failures \in Nat
      /\ disk.sessions \subseteq sessions
  BY DEF TrackerIInv, Route, history, Sane, TypeOK, FileIsKnown
<1>1. /\ disk' = [timer |-> disk'.timer, sessions |-> disk'.sessions]
      /\ failures' \in Nat
      /\ failures' = 0 => failures = 0
      /\ disk'.timer = disk.timer
      /\ disk'.sessions \subseteq sessions'
      /\ InstantsOf(sessions' \cup disk'.sessions)
           \subseteq InstantsOf(sessions) \cup RangeInstants(range)
  BY <1>a, InsertFacts
<1>2. Sane' /\ WorkedTicks' = WorkedTicks
  <2>1. Sane'
    BY <1>a DEF Sane, TypeOK, SegmentsWellFormed, DeadlineSync, Before, IsOpen
  <2>2. WorkedTicks' = WorkedTicks
    BY <1>a, TimerPrimed DEF WorkedTicks
  <2> QED  BY <2>1, <2>2
<1>3. ASSUME failures' = 0 PROVE NothingUnworked'
  <2>1. NothingUnworked
    BY <1>1, <1>3 DEF TrackerIInv
  <2>2. RangeInstants(range)' = {}
    BY <1>a, RangePrimed
  <2>3. (InstantsOf(sessions \cup disk.sessions))' \subseteq worked'
    <3>1. InstantsOf(sessions) \subseteq worked /\ RangeInstants(range) \subseteq worked
      BY <2>1 DEF NothingUnworked, InstantsOf
    <3>2. (InstantsOf(sessions \cup disk.sessions))' = InstantsOf(sessions' \cup disk'.sessions)
      BY DEF InstantsOf
    <3> QED  BY <1>1, <1>a, <3>1, <3>2
  <2>4. disk.timer # None => /\ Owed(disk.timer, wall) \subseteq worked
                             /\ RunningCountdown(disk.timer) => CountingUp
    BY <1>a, <2>1 DEF NothingUnworked
  <2>5. CountingUp' <=> CountingUp
    BY <1>a DEF CountingUp
  <2>6. WorkedTicks \subseteq worked
    BY <2>1 DEF NothingUnworked
  <2> QED  BY <1>a, <1>1, <1>2, <2>2, <2>3, <2>4, <2>5, <2>6, DiskPrimed DEF NothingUnworked
<1> QED  BY <1>a, <1>1, <1>2, <1>3, DiskPrimed DEF TrackerIInv, FileIsKnown

LEMMA CrashKeeps == TrackerIInv /\ Crash => TrackerIInv'
<1> SUFFICES ASSUME TrackerIInv, Crash PROVE TrackerIInv'
  OBVIOUS
<1>a. /\ Sane /\ TypeOK /\ wall \in Nat /\ pc' = "down"
      /\ disk' = disk /\ sessions' = {} /\ failures' = failures
      /\ timer' = NewTimer(DefaultConfig) /\ wall' = wall /\ mono' = 0 /\ range' = None
      /\ logged' = logged /\ worked' = worked /\ logged \subseteq ClosedSegment
  BY DEF TrackerIInv, Crash, history, Sane, TypeOK
<1>1. Sane' /\ WorkedTicks' = {}
  BY <1>a, FreshTimerIsSane, TrackerAssumption
<1>2. ASSUME failures = 0 PROVE NothingUnworked'
  <2>1. NothingUnworked
    BY <1>2 DEF TrackerIInv
  <2>2. RangeInstants(range)' = {}
    BY <1>a, RangePrimed
  <2>3. (InstantsOf(sessions \cup disk.sessions))' \subseteq worked'
    BY <1>a, <2>1 DEF NothingUnworked, InstantsOf
  <2>4. disk.timer # None => Owed(disk.timer, wall) \subseteq worked
    BY <2>1 DEF NothingUnworked
  <2> QED  BY <1>a, <1>1, <2>2, <2>3, <2>4, DiskPrimed DEF NothingUnworked
<1> QED  BY <1>a, <1>1, <1>2, DiskPrimed DEF TrackerIInv, FileIsKnown

(* A start with a timer section: it is restored and written back.          *)
LEMMA RestoreKeeps == TrackerIInv /\ Restart /\ disk.timer # None => TrackerIInv'
<1> SUFFICES ASSUME TrackerIInv, Restart, disk.timer # None PROVE TrackerIInv'
  OBVIOUS
<1>a. /\ Sane /\ TypeOK /\ wall \in Nat /\ mono \in Nat /\ pc' = "loading"
      /\ sessions' = sessions /\ worked' = worked /\ wall' = wall /\ mono' = mono
      /\ disk = [timer |-> disk.timer, sessions |-> disk.sessions] /\ failures \in Nat
      /\ SaneOnDisk(disk.timer, wall)
  BY DEF TrackerIInv, Restart, Sane, TypeOK
<1>m. mono <= wall
  BY DEF TrackerIInv
<1>b. PICK old : old = disk.timer
  OBVIOUS
<1>c. PICK o : o = RestoreTimer(old, wall)
  OBVIOUS
<1>1. /\ timer' = o.timer /\ Emit(o.range) /\ Write("timer", Snapshot(o.timer, wall))
  BY <1>b, <1>c DEF Restart
<1>2. RestoredFine(o, old)
  BY <1>a, <1>b, <1>c, RestoredIsFine
<1>3. /\ o.timer \in TimerState /\ o.timer.anchor = None
      /\ WellFormedAt(o.timer, wall) /\ HasDeadline(o.timer)
      /\ o.range \in SessionRange \cup {None}
      /\ o.timer.phase \in StudyPhases =>
           TicksOf(o.timer.active_segments, wall) \subseteq Owed(old, wall)
      /\ RangeInstants(o.range) \subseteq Owed(old, wall)
  BY <1>2 DEF RestoredFine
<1>4. range' \in SessionRange \cup {None} /\ logged' \subseteq ClosedSegment /\ range' = o.range
  BY <1>1, <1>3, <1>a, EmitType DEF Emit
<1>5. Sane'
  <2>1. TypeOK'
    BY <1>1, <1>3, <1>4, <1>a DEF TypeOK
  <2>2. SegmentsWellFormed'
    BY <1>1, <1>3, <1>a, TimerPrimed
  <2>3. DeadlineSync'
    BY <1>1, <1>3 DEF DeadlineSync, HasDeadline
  <2> QED  BY <2>1, <2>2, <2>3 DEF Sane
<1>6. PICK s : s = Snapshot(o.timer, wall)
  OBVIOUS
<1>7. PICK t \in TimerState : t = o.timer
  BY <1>3
<1>8. /\ SaneOnDisk(s, wall)
      /\ RunningCountdown(s) <=> RunningCountdown(t)
      /\ s.phase = t.phase /\ s.running = t.running
      /\ t.phase \notin StudyPhases => Owed(s, wall) = {}
      /\ t.phase \in StudyPhases => Owed(s, wall) \subseteq TicksOf(t.active_segments, wall)
  <2>1. wall \in Nat /\ wall <= wall
    BY <1>a
  <2> QED  BY <2>1, <1>a, <1>3, <1>6, <1>7, SnapshotIsSane
<1>9. /\ disk' = [timer |-> disk'.timer, sessions |-> disk'.sessions]
      /\ failures' \in Nat
      /\ failures' = 0 => failures = 0
      /\ \/ disk' = disk /\ failures' # 0
         \/ disk'.timer = s /\ disk'.sessions = disk.sessions
  <2>1. Write("timer", s)
    BY <1>1, <1>6
  <2> QED  BY <2>1, <1>a, WriteFacts
<1>10. disk'.timer # None => SaneOnDisk(disk'.timer, wall)
  BY <1>8, <1>9, <1>a
<1>11. ASSUME failures' = 0 PROVE NothingUnworked'
  <2>1. NothingUnworked /\ disk'.timer = s /\ disk'.sessions = disk.sessions
    BY <1>9, <1>11 DEF TrackerIInv
  <2>2. Owed(old, wall) \subseteq worked /\ InstantsOf(sessions \cup disk.sessions) \subseteq worked
    BY <1>b, <2>1 DEF NothingUnworked
  <2>3. WorkedTicks' \subseteq worked'
    BY <1>1, <1>3, <1>a, <2>2, TimerPrimed
  <2>4. Owed(s, wall) \subseteq worked'
    BY <1>3, <1>7, <1>8, <1>a, <2>2
  <2>5. RangeInstants(range)' \subseteq worked'
    BY <1>3, <1>4, <1>a, <2>2, RangePrimed
  <2>6. (InstantsOf(sessions \cup disk.sessions))' \subseteq worked'
    BY <1>a, <2>1, <2>2 DEF InstantsOf
  <2>7. RunningCountdown(s) => CountingUp'
    BY <1>1, <1>7, <1>8 DEF RunningCountdown, CountingUp, StudyPhases
  <2> QED  BY <1>a, <2>1, <2>3, <2>4, <2>5, <2>6, <2>7, DiskPrimed DEF NothingUnworked
<1> QED  BY <1>a, <1>m, <1>5, <1>9, <1>10, <1>11, DiskPrimed DEF TrackerIInv, FileIsKnown

LEMMA FreshStartKeeps == TrackerIInv /\ Restart /\ disk.timer = None => TrackerIInv'
<1> SUFFICES ASSUME TrackerIInv, Restart, disk.timer = None PROVE TrackerIInv'
  OBVIOUS
<1>a. /\ Sane /\ TypeOK /\ wall \in Nat /\ mono \in Nat /\ pc' = "loading"
      /\ disk' = disk /\ sessions' = sessions /\ failures' = failures
      /\ timer' = NewTimer(DefaultConfig) /\ wall' = wall /\ mono' = mono /\ Emit(None)
      /\ worked' = worked
  BY DEF TrackerIInv, Restart, Sane, TypeOK
<1>m. mono <= wall
  BY DEF TrackerIInv
<1>1. range' = None /\ logged' \subseteq ClosedSegment
  BY <1>a, EmitType DEF Emit
<1>2. Sane' /\ WorkedTicks' = {}
  BY <1>1, <1>a, FreshTimerIsSane, TrackerAssumption
<1>3. ASSUME failures = 0 PROVE NothingUnworked'
  <2>1. NothingUnworked
    BY <1>3 DEF TrackerIInv
  <2>2. RangeInstants(range)' = {}
    BY <1>1, RangePrimed
  <2>3. (InstantsOf(sessions \cup disk.sessions))' \subseteq worked'
    BY <1>a, <2>1 DEF NothingUnworked, InstantsOf
  <2> QED  BY <1>a, <1>2, <2>2, <2>3 DEF NothingUnworked
<1> QED  BY <1>a, <1>m, <1>2, <1>3 DEF TrackerIInv, FileIsKnown

(* The second half of a start: what was recovered joins the file.          *)
LEMMA LoadKeeps == TrackerIInv /\ LoadAcademic => TrackerIInv'
<1> SUFFICES ASSUME TrackerIInv, LoadAcademic PROVE TrackerIInv'
  OBVIOUS
<1>a. /\ Sane /\ wall \in Nat /\ mono <= wall /\ pc = "loading" /\ pc' = "ready"
      /\ timer' = timer /\ wall' = wall /\ mono' = mono /\ range' = None
      /\ logged' = logged /\ worked' = worked /\ Insert(disk.sessions)
      /\ disk = [timer |-> disk.timer, sessions |-> disk.sessions] /\ failures \in Nat
  BY DEF TrackerIInv, LoadAcademic, history, Sane, TypeOK
<1>1. /\ disk' = [timer |-> disk'.timer, sessions |-> disk'.sessions]
      /\ failures' \in Nat
      /\ failures' = 0 => failures = 0
      /\ disk'.timer = disk.timer
      /\ disk'.sessions \subseteq sessions'
      /\ InstantsOf(sessions' \cup disk'.sessions)
           \subseteq InstantsOf(disk.sessions) \cup RangeInstants(range)
  BY <1>a, InsertFacts
<1>2. Sane' /\ WorkedTicks' = WorkedTicks
  <2>1. Sane'
    BY <1>a DEF Sane, TypeOK, SegmentsWellFormed, DeadlineSync, Before, IsOpen
  <2>2. WorkedTicks' = WorkedTicks
    BY <1>a, TimerPrimed DEF WorkedTicks
  <2> QED  BY <2>1, <2>2
<1>3. ASSUME failures' = 0 PROVE NothingUnworked'
  <2>1. NothingUnworked
    BY <1>1, <1>3 DEF TrackerIInv
  <2>2. RangeInstants(range)' = {}
    BY <1>a, RangePrimed
  <2>3. (InstantsOf(sessions \cup disk.sessions))' \subseteq worked'
    <3>1. InstantsOf(disk.sessions) \subseteq worked /\ RangeInstants(range) \subseteq worked
      BY <2>1 DEF NothingUnworked, InstantsOf
    <3>2. (InstantsOf(sessions \cup disk.sessions))' = InstantsOf(sessions' \cup disk'.sessions)
      BY DEF InstantsOf
    <3> QED  BY <1>1, <1>a, <3>1, <3>2
  <2>4. disk.timer # None => /\ Owed(disk.timer, wall) \subseteq worked
                             /\ RunningCountdown(disk.timer) => CountingUp
    BY <1>a, <2>1 DEF NothingUnworked
  <2>5. CountingUp' <=> CountingUp
    BY <1>a DEF CountingUp
  <2>6. WorkedTicks \subseteq worked
    BY <2>1 DEF NothingUnworked
  <2> QED  BY <1>a, <1>1, <1>2, <2>2, <2>3, <2>4, <2>5, <2>6, DiskPrimed DEF NothingUnworked
<1> QED  BY <1>a, <1>1, <1>2, <1>3, DiskPrimed DEF TrackerIInv, FileIsKnown

LEMMA StillKeeps == TrackerIInv /\ UNCHANGED allVars => TrackerIInv'
<1> SUFFICES ASSUME TrackerIInv, UNCHANGED allVars PROVE TrackerIInv'
  OBVIOUS
<1>a. /\ timer' = timer /\ wall' = wall /\ mono' = mono /\ range' = range
      /\ logged' = logged /\ sessions' = sessions /\ disk' = disk /\ pc' = pc
      /\ failures' = failures /\ worked' = worked
  BY DEF allVars
<1>1. Sane' /\ WorkedTicks' = WorkedTicks
  <2>1. Sane'
    BY <1>a DEF TrackerIInv, Sane, TypeOK, SegmentsWellFormed, DeadlineSync, Before, IsOpen
  <2>2. WorkedTicks' = WorkedTicks
    BY <1>a, TimerPrimed DEF WorkedTicks
  <2> QED  BY <2>1, <2>2
<1>2. NothingUnworked' <=> NothingUnworked
  <2>1. RangeInstants(range)' = RangeInstants(range)
    BY <1>a, RangePrimed
  <2>2. (InstantsOf(sessions \cup disk.sessions))' = InstantsOf(sessions \cup disk.sessions)
    BY <1>a DEF InstantsOf
  <2>3. CountingUp' <=> CountingUp
    BY <1>a DEF CountingUp
  <2> QED  BY <1>a, <1>1, <2>1, <2>2, <2>3, DiskPrimed DEF NothingUnworked
<1> QED  BY <1>a, <1>1, <1>2, DiskPrimed DEF TrackerIInv, FileIsKnown

LEMMA StepTrackerIInv == TrackerIInv /\ [TrackerNext]_allVars => TrackerIInv'
<1> SUFFICES ASSUME TrackerIInv, [TrackerNext]_allVars PROVE TrackerIInv'
  OBVIOUS
<1>1. CASE TickUp
  BY <1>1, TickUpKeeps
<1>2. CASE TickDown
  BY <1>2, TickDownKeeps
<1>3. CASE Live
  <2>1. CASE AppStart \/ AppPause \/ AppResume \/ AppComplete \/ AppRefresh \/ AppReset
    BY <2>1, LiveCommandKeeps
  <2>2. CASE \E c \in Configs : AppSetMode(c)
    BY <2>2, SetModeKeeps
  <2>3. CASE Route
    BY <2>3, RouteKeeps
  <2> QED  BY <1>3, <2>1, <2>2, <2>3 DEF Live
<1>4. CASE Crash
  BY <1>4, CrashKeeps
<1>5. CASE Restart
  BY <1>5, RestoreKeeps, FreshStartKeeps
<1>6. CASE LoadAcademic
  BY <1>6, LoadKeeps
<1>7. CASE UNCHANGED allVars
  BY <1>7, StillKeeps
<1> QED  BY <1>1, <1>2, <1>3, <1>4, <1>5, <1>6, <1>7 DEF TrackerNext

LEMMA SpecTrackerIInv == TrackerSpec => []TrackerIInv
  BY TrackerStarts, StepTrackerIInv, PTL DEF TrackerSpec
----------------------------------------------------------------------------
(* However often the process dies and restore_timer brings the timer back, *)
(* its segments stay consecutive stretches of the past, the last one open  *)
(* exactly while it runs: also when the file is the one of an older write. *)
THEOREM RestoredBlocksAreWellFormed == TrackerSpec => []SegmentsWellFormed
<1>1. TrackerIInv => SegmentsWellFormed
  BY DEF TrackerIInv, Sane
<1> QED  BY <1>1, SpecTrackerIInv, PTL

(* No countdown ends before its deadline, those included that a restart    *)
(* has taken up without an anchor on the monotonic clock.                  *)
THEOREM RestoredNeverEndEarly == TrackerSpec => []NeverEarly
<1>1. TrackerIInv => NeverEarly
  BY ExpiredIsPast, TimerAssumption DEF TrackerIInv, Sane, NeverEarly
<1> QED  BY <1>1, SpecTrackerIInv, PTL

(* While no write has failed no session, in memory or in the file, holds   *)
(* an instant at which no study time was running: no pause, no break, and  *)
(* nothing that went by while the process was down but the rest of a       *)
(* countdown.                                                              *)
THEOREM OnlyWorkIsCredited == TrackerSpec => []CreditedWasWorked
<1>1. TrackerIInv => CreditedWasWorked
  BY DEF TrackerIInv, NothingUnworked, CreditedWasWorked
<1> QED  BY <1>1, SpecTrackerIInv, PTL

(* A session that is in the file stays there, whatever fails or dies.      *)
THEOREM SessionsStayOnDisk == TrackerSpec => SessionsDurable
<1>1. ASSUME TrackerIInv, [TrackerNext]_allVars PROVE disk.sessions \subseteq disk'.sessions
  <2>a. /\ disk = [timer |-> disk.timer, sessions |-> disk.sessions] /\ failures \in Nat
    BY <1>1 DEF TrackerIInv
  <2>w. ASSUME NEW value, Write("timer", value) PROVE disk.sessions \subseteq disk'.sessions
    BY <2>a, <2>w, WriteFacts
  <2>1. CASE UNCHANGED disk
    BY <2>1
  <2>2. ASSUME NEW alive, PersistTimer(alive) PROVE disk.sessions \subseteq disk'.sessions
    <3>1. PICK s : s = Snapshot(timer', alive)
      OBVIOUS
    <3>2. Write("timer", s)
      BY <2>2, <3>1 DEF PersistTimer
    <3> QED  BY <3>2, <2>w
  <2>3. CASE Live
    <3>1. CASE AppStart \/ AppPause \/ AppResume \/ AppComplete \/ AppRefresh \/ AppReset
      <4>1. PersistTimer(wall) \/ PersistTimer(wall - mono)
        BY <3>1 DEF AppStart, AppPause, AppResume, AppComplete, AppRefresh, AppReset, Apply
      <4> QED  BY <4>1, <2>2
    <3>2. CASE \E c \in Configs : AppSetMode(c)
      BY <3>2, <2>1 DEF AppSetMode, store
    <3>3. CASE Route
      <4>1. Insert(sessions) /\ disk.sessions \subseteq sessions
        BY <1>1, <3>3 DEF Route, TrackerIInv, FileIsKnown
      <4> QED  BY <4>1, <2>a, InsertFacts
    <3> QED  BY <2>3, <3>1, <3>2, <3>3 DEF Live
  <2>4. CASE Restart
    <3>1. CASE disk.timer = None
      BY <2>4, <3>1, <2>1 DEF Restart
    <3>2. CASE disk.timer # None
      <4>1. PICK s : s = Snapshot(RestoreTimer(disk.timer, wall).timer, wall)
        OBVIOUS
      <4>2. Write("timer", s)
        BY <2>4, <3>2, <4>1 DEF Restart
      <4> QED  BY <4>2, <2>w
    <3> QED  BY <3>1, <3>2
  <2>5. CASE LoadAcademic
    <3>1. Insert(disk.sessions)
      BY <2>5 DEF LoadAcademic
    <3> QED  BY <3>1, <2>a, InsertFacts
  <2>6. CASE TickUp \/ TickDown \/ Crash
    BY <2>6, <2>1 DEF TickUp, TickDown, Crash, store
  <2>7. CASE UNCHANGED allVars
    BY <2>7, <2>1 DEF allVars
  <2> QED  BY <1>1, <2>3, <2>4, <2>5, <2>6, <2>7 DEF TrackerNext
<1>2. TrackerIInv /\ [TrackerNext]_allVars
        => [\A s \in disk.sessions : s \in disk'.sessions]_allVars
  BY <1>1
<1> QED  BY <1>2, SpecTrackerIInv, PTL DEF TrackerSpec, SessionsDurable
----------------------------------------------------------------------------
(* A split has one bucket to a day.                                        *)

DaysDiffer(b) == \A i, j \in DOMAIN b : b[i].day = b[j].day => i = j
DayBucket == [day : Int, start : Int, end : Int, active : Int]
DailySplit == {b \in Seq(DayBucket) : DaysDiffer(b)}

LEMMA DayTypes ==
    ASSUME NEW t \in Int
    PROVE  LocalDay(t) \in Int /\ NextLocalMidnight(t) \in Int
<1>1. PICK x \in Int : x = t + LocalOffset
  BY SplitAssumption
<1>2. x \div DayLength \in Int
  BY SplitAssumption
<1>3. LocalDay(t) \in Int
  BY <1>1, <1>2 DEF LocalDay
<1>4. (LocalDay(t) + 1) * DayLength \in Int
  BY <1>3, SplitAssumption
<1> QED  BY <1>3, <1>4, SplitAssumption DEF NextLocalMidnight

LEMMA AddPieceKeepsDays ==
    ASSUME NEW b \in DailySplit, NEW p \in [start : Int, end : Int]
    PROVE  AddPiece(b, p) \in DailySplit
<1> DEFINE d == LocalDay(p.start)
           same == {i \in DOMAIN b : b[i].day = d}
           e == BucketEnd(p)
           fresh == [day |-> d, start |-> p.start, end |-> e, active |-> p.end - p.start]
           grown(i) == [b[i] EXCEPT !.end = e, !.active = @ + (p.end - p.start)]
           merged == [i \in DOMAIN b |-> IF i \in same THEN grown(i) ELSE b[i]]
<1>1. /\ b \in Seq(DayBucket) /\ DaysDiffer(b) /\ Len(b) \in Nat /\ DOMAIN b = 1..Len(b)
      /\ \A i \in DOMAIN b : b[i] \in DayBucket
  BY DEF DailySplit
<1>2. p.start \in Int /\ p.end \in Int /\ d \in Int /\ e \in Int
  <2>1. p.start \in Int /\ p.end \in Int
    OBVIOUS
  <2> QED  BY <2>1, DayTypes DEF BucketEnd
<1>3. AddPiece(b, p) = IF same = {} THEN Append(b, fresh) ELSE merged
  BY DEF AddPiece
<1> HIDE DEF d, e
<1>4. CASE same = {}
  <2>1. fresh \in DayBucket /\ fresh.day = d
    BY <1>2 DEF DayBucket
  <2>2. \A i \in DOMAIN b : b[i].day # d
    BY <1>4
  <2> HIDE DEF fresh
  <2>3. PICK c : c = Append(b, fresh)
    OBVIOUS
  <2>4. /\ c \in Seq(DayBucket) /\ DOMAIN c = 1..(Len(b) + 1)
        /\ \A i \in 1..Len(b) : c[i] = b[i]
        /\ c[Len(b) + 1] = fresh
    BY <1>1, <2>1, <2>3
  <2>5. DaysDiffer(c)
    BY <1>1, <2>1, <2>2, <2>4 DEF DaysDiffer
  <2> QED  BY <1>3, <1>4, <2>3, <2>4, <2>5 DEF DailySplit
<1>5. CASE same # {}
  <2>1. ASSUME NEW i \in DOMAIN b PROVE merged[i] \in DayBucket /\ merged[i].day = b[i].day
    <3>1. b[i] \in DayBucket
      BY <1>1
    <3>2. PICK r \in DayBucket : r = b[i]
      BY <3>1
    <3>3. PICK x \in Int : x = r.active + (p.end - p.start)
      BY <1>2 DEF DayBucket
    <3>4. grown(i) = [r EXCEPT !.end = e, !.active = x]
      BY <3>2, <3>3
    <3>5. grown(i) \in DayBucket /\ grown(i).day = b[i].day
      <4> HIDE DEF grown
      <4> QED  BY ONLY <3>2, <3>3, <3>4, <1>2 DEF DayBucket
    <3> QED  BY <3>1, <3>5
  <2> HIDE DEF same, grown
  <2>2. DOMAIN merged = 1..Len(b) /\ DOMAIN merged = DOMAIN b
    BY <1>1
  <2> HIDE DEF merged
  <2>3. merged \in Seq(DayBucket)
    <3>1. merged \in [1..Len(b) -> DayBucket]
      <4>1. merged = [i \in 1..Len(b) |-> merged[i]]
        BY <1>1 DEF merged
      <4> QED  BY <4>1, <2>1, <1>1
    <3> QED  BY <3>1, <1>1
  <2>4. DaysDiffer(merged)
    BY <1>1, <2>1, <2>2 DEF DaysDiffer
  <2> QED  BY <1>3, <1>5, <2>3, <2>4 DEF DailySplit, same
<1> QED  BY <1>4, <1>5

LEMMA AddSegmentKeepsDays ==
    ASSUME NEW b \in DailySplit, NEW start \in Nat, NEW end \in Nat
    PROVE  AddSegment(b, start, end) \in DailySplit
<1>1. CASE end <= start
  BY <1>1 DEF AddSegment
<1>2. CASE ~(end <= start)
  <2> DEFINE n == end - start
             V == [cursor : Int, buckets : DailySplit]
             PieceAt(cursor) ==
                LET midnight == NextLocalMidnight(cursor)
                IN  [start |-> cursor, end |-> IF end <= midnight THEN end ELSE midnight]
             Turn(last) ==
                IF last.cursor >= end THEN last
                ELSE [cursor |-> PieceAt(last.cursor).end,
                      buckets |-> AddPiece(last.buckets, PieceAt(last.cursor))]
             base == [cursor |-> start, buckets |-> b]
             step == [i \in 1..n |-> [v \in V |-> Turn(v)]]
             after[turn \in 0..n] ==
                IF turn = 0 THEN base
                ELSE LET last == after[turn - 1]
                         p == PieceAt(last.cursor)
                     IN  IF last.cursor >= end THEN last
                         ELSE [cursor |-> p.end, buckets |-> AddPiece(last.buckets, p)]
  <2>1. n \in Nat /\ base \in V
    BY <1>2
  <2>2. ASSUME NEW v \in V PROVE Turn(v) \in V
    <3>1. v.cursor \in Int /\ v.buckets \in DailySplit
      OBVIOUS
    <3>2. PieceAt(v.cursor) \in [start : Int, end : Int]
      BY <3>1, DayTypes
    <3> HIDE DEF PieceAt
    <3>3. AddPiece(v.buckets, PieceAt(v.cursor)) \in DailySplit
      BY <3>1, <3>2, AddPieceKeepsDays
    <3>4. PieceAt(v.cursor).end \in Int
      BY <3>2
    <3> QED  BY <3>3, <3>4
  <2>3. step \in [1..n -> [V -> V]]
    <3> HIDE DEF V, Turn
    <3> QED  BY <2>2
  <2>4. \A i \in 1..n, v \in V : step[i][v] = Turn(v)
    OBVIOUS
  <2>5. AddSegment(b, start, end) = after[n].buckets
    BY <1>2 DEF AddSegment
  <2>6. \A last : Turn(last) = LET p == PieceAt(last.cursor)
                              IN  IF last.cursor >= end THEN last
                                  ELSE [cursor |-> p.end, buckets |-> AddPiece(last.buckets, p)]
    OBVIOUS
  <2> HIDE DEF step, V, Turn, base, n
  <2>7. PICK f \in [0..n -> V] : Iterates(f, n, base, step)
    BY <2>1, <2>3, RecursionExists, Zenon
  <2>8. ASSUME NEW i \in 0..n
        PROVE  f[i] = IF i = 0 THEN base ELSE Turn(f[i - 1])
    <3>1. CASE i = 0
      BY <3>1, <2>7 DEF Iterates
    <3>2. CASE i # 0
      <4>1. i \in 1..n /\ i - 1 \in 0..n
        BY <3>2, <2>1
      <4>2. f[i - 1] \in V
        BY <4>1
      <4>3. f[i] = step[i][f[i - 1]]
        BY <3>2, <2>7 DEF Iterates
      <4> QED  BY <3>2, <4>1, <4>2, <4>3, <2>4
    <3> QED  BY <3>1, <3>2
  <2>9. f = [turn \in 0..n |-> IF turn = 0 THEN base
               ELSE LET last == f[turn - 1]
                        p == PieceAt(last.cursor)
                    IN  IF last.cursor >= end THEN last
                        ELSE [cursor |-> p.end, buckets |-> AddPiece(last.buckets, p)]]
    BY <2>6, <2>8
  <2>10. after = [turn \in 0..n |-> IF turn = 0 THEN base
               ELSE LET last == after[turn - 1]
                        p == PieceAt(last.cursor)
                    IN  IF last.cursor >= end THEN last
                        ELSE [cursor |-> p.end, buckets |-> AddPiece(last.buckets, p)]]
    BY <2>9
  <2> HIDE DEF after
  <2>11. \A i \in 0..n : after[i] = IF i = 0 THEN base ELSE Turn(after[i - 1])
    <3>1. ASSUME NEW i \in 0..n PROVE after[i] = IF i = 0 THEN base ELSE Turn(after[i - 1])
      BY <2>10, <2>6
    <3> QED  BY <3>1
  <2> DEFINE Bad == {k \in 0..n : after[k] \notin V}
  <2>12. Bad = {}
    <3> SUFFICES ASSUME Bad # {} PROVE FALSE
      OBVIOUS
    <3>1. Bad \subseteq Nat
      BY <2>1
    <3>2. PICK m \in Bad : \A k \in Bad : m <= k
      <4> HIDE DEF Bad
      <4> QED  BY <3>1, LeastNat, Zenon
    <3>3. m # 0
      BY <3>2, <2>11, <2>1
    <3>4. m \in 1..n /\ m - 1 \in 0..n /\ ~(m <= m - 1)
      BY <3>2, <3>3, <2>1
    <3>5. after[m - 1] \in V
      BY <3>2, <3>4
    <3>6. after[m] = Turn(after[m - 1])
      BY <3>2, <3>3, <2>11
    <3> QED  BY <3>2, <3>5, <3>6, <2>2
  <2>13. n \in 0..n
    BY <2>1
  <2>14. after[n] \in V
    BY <2>12, <2>13
  <2> QED  BY <2>5, <2>14 DEF V
<1> QED  BY <1>1, <1>2

LEMMA BucketsAreDaily ==
    ASSUME NEW segs \in Seq(ClosedSegment)
    PROVE  Buckets(segs) \in DailySplit
<1> DEFINE n == Len(segs)
           Next1(v, i) == AddSegment(v, segs[i].started_at, segs[i].ended_at)
           step == [i \in 1..n |-> [v \in DailySplit |-> Next1(v, i)]]
           after[i \in 0..n] == IF i = 0 THEN <<>>
               ELSE AddSegment(after[i - 1], segs[i].started_at, segs[i].ended_at)
<1>1. n \in Nat /\ \A i \in 1..n : segs[i].started_at \in Nat /\ segs[i].ended_at \in Nat
  <2>1. ASSUME NEW i \in 1..n PROVE segs[i].started_at \in Nat /\ segs[i].ended_at \in Nat
    <3>1. segs[i] \in ClosedSegment
      OBVIOUS
    <3> QED  BY <3>1 DEF ClosedSegment
  <2> QED  BY <2>1
<1>2. <<>> \in DailySplit
  <2>1. <<>> \in Seq(DayBucket) /\ DOMAIN <<>> = {}
    OBVIOUS
  <2> QED  BY <2>1 DEF DailySplit, DaysDiffer
<1>3. ASSUME NEW i \in 1..n, NEW v \in DailySplit PROVE Next1(v, i) \in DailySplit
  BY <1>1, AddSegmentKeepsDays
<1>4. Buckets(segs) = after[n]
  BY DEF Buckets
<1>5. \A v, i : Next1(v, i) = AddSegment(v, segs[i].started_at, segs[i].ended_at)
  OBVIOUS
<1> HIDE DEF Next1
<1>6. step \in [1..n -> [DailySplit -> DailySplit]]
  BY <1>3
<1>7. \A i \in 1..n, v \in DailySplit : step[i][v] = Next1(v, i)
  OBVIOUS
<1> HIDE DEF step
<1>8. PICK f \in [0..n -> DailySplit] : Iterates(f, n, <<>>, step)
  BY <1>1, <1>2, <1>6, RecursionExists, Zenon
<1>9. ASSUME NEW i \in 0..n
      PROVE  f[i] = IF i = 0 THEN <<>> ELSE Next1(f[i - 1], i)
  <2>1. CASE i = 0
    BY <2>1, <1>8 DEF Iterates
  <2>2. CASE i # 0
    <3>1. i \in 1..n /\ i - 1 \in 0..n
      BY <2>2, <1>1
    <3>2. f[i - 1] \in DailySplit
      BY <3>1
    <3>3. f[i] = step[i][f[i - 1]]
      BY <2>2, <1>8 DEF Iterates
    <3> QED  BY <2>2, <3>1, <3>2, <3>3, <1>7
  <2> QED  BY <2>1, <2>2
<1>10. f = [i \in 0..n |-> IF i = 0 THEN <<>>
              ELSE AddSegment(f[i - 1], segs[i].started_at, segs[i].ended_at)]
  BY <1>5, <1>9
<1>11. after = [i \in 0..n |-> IF i = 0 THEN <<>>
              ELSE AddSegment(after[i - 1], segs[i].started_at, segs[i].ended_at)]
  BY <1>10
<1> HIDE DEF after
<1> DEFINE Bad == {k \in 0..n : after[k] \notin DailySplit}
<1>13. Bad = {}
  <2> SUFFICES ASSUME Bad # {} PROVE FALSE
    OBVIOUS
  <2>1. Bad \subseteq Nat
    BY <1>1
  <2>2. PICK m \in Bad : \A k \in Bad : m <= k
    <3> HIDE DEF Bad
    <3> QED  BY <2>1, LeastNat, Zenon
  <2>3. m # 0
    BY <2>2, <1>11, <1>2, <1>1
  <2>4. m \in 1..n /\ m - 1 \in 0..n /\ ~(m <= m - 1)
    BY <2>2, <2>3, <1>1
  <2>5. after[m - 1] \in DailySplit
    BY <2>2, <2>4
  <2>6. after[m] = Next1(after[m - 1], m)
    BY <2>2, <2>3, <1>11, <1>5
  <2> QED  BY <2>2, <2>4, <2>5, <2>6, <1>3
<1>14. n \in 0..n
  BY <1>1
<1> QED  BY <1>4, <1>13, <1>14
----------------------------------------------------------------------------
(* Which instants the sessions hold, against those the timer, its snapshot *)
(* and the range in hand still stand for.                                  *)

(* A countdown runs no longer than the inactivity that abandons it.        *)
WithinPreset(t, now) ==
    /\ t.config.study_seconds <= AbandonAfter /\ t.config.exam_seconds <= AbandonAfter
    /\ t.phase \in {"Idle", "Study", "Exam"} => t.remaining_seconds <= AbandonAfter + 1
    /\ t.phase \in {"Study", "Exam"} /\ t.anchor # None => t.anchor.value <= AbandonAfter + 1
    /\ RunningCountdown(t) =>
          /\ t.started_at \in Nat /\ t.started_at <= now
          /\ t.ends_at <= PlusSeconds(t.started_at, AbandonAfter + 1)

(* s is what recovered_session_id makes of one day of the range r.         *)
RecoveredFrom(r, s) ==
    /\ r # None /\ r.reason = "AbandonedRecovery"
    /\ \E i \in DOMAIN Buckets(r.segments) :
          LET b == Buckets(r.segments)[i]
          IN  /\ s.id = <<"recovered", r.phase, b.start, b.end>>
              /\ \A x \in s.instants : LocalDay(x) = b.day

BlockOf(t, now) == IF t.phase \in StudyPhases THEN TicksOf(t.active_segments, now) ELSE {}
FileBlock(d, now) == IF d = None THEN {} ELSE BlockOf(d, now)
HeldBy(r, now) == IF IsStudyRange(r) THEN TicksOf(r.segments, now) ELSE {}
RecoveredRange(d, now) == IF d = None THEN None ELSE RestoreTimer(d, now).range

InThePast(S, now) == \A s \in S : \A x \in s.instants : x \in Int /\ x < now
BookedOnce(S) == \A s, t \in S : s.instants \cap t.instants = {} \/ s.id = t.id
Unbooked(S, T) == \A s \in S : s.instants \cap T = {}
BookedAs(S, T, r) == \A s \in S : s.instants \cap T = {} \/ RecoveredFrom(r, s)

(* Nothing of the block in progress is booked.  The range in hand and the  *)
(* block in the file may be, but only as what their recovery would book    *)
(* again under the same ids.                                               *)
Booked(S, t, d, r, now, at) ==
    /\ InThePast(S, now)
    /\ BookedOnce(S)
    /\ Unbooked(S, BlockOf(t, now))
    /\ BookedAs(S, HeldBy(r, now), r)
    /\ BookedAs(S, FileBlock(d, now), RecoveredRange(d, now))
    /\ at = "routing" => BlockOf(t, now) = {} /\ FileBlock(d, now) = {}
    /\ at = "loading" /\ r # None =>
          /\ r.reason = "AbandonedRecovery"
          /\ BlockOf(t, now) = {}
          /\ FileBlock(d, now) = {} \/ RecoveredRange(d, now) = r

Bounded ==
    /\ WithinPreset(timer, wall)
    /\ disk.timer # None => WithinPreset(disk.timer, wall)
AllBooked == Booked(sessions \cup disk.sessions, timer, disk.timer, range, wall, pc)

BookingIInv == TrackerIInv /\ Bounded /\ (~diverged => AllBooked)
----------------------------------------------------------------------------
LEMMA BookedPrimed ==
    /\ AllBooked' <=>
         Booked(sessions' \cup disk'.sessions, timer', disk'.timer, range', wall', pc')
    /\ Bounded' <=> /\ WithinPreset(timer', wall')
                    /\ disk'.timer # None => WithinPreset(disk'.timer, wall')
  BY DEF AllBooked, Bounded
----------------------------------------------------------------------------
LEMMA CoveredIsPast ==
    ASSUME NEW segs \in Seq(Segment), NEW end \in Nat
    PROVE  \A x \in TicksOf(segs, end) : x \in Int /\ x < end
  BY TicksOfFacts DEF Covers

LEMMA BlockTicks ==
    ASSUME NEW t \in TimerState, NEW now \in Nat
    PROVE  BlockOf(t, now + 1) \subseteq BlockOf(t, now) \cup {now}
<1>1. t.active_segments \in Seq(Segment)
  BY BlockTyped
<1> QED  BY <1>1, TickAdds DEF BlockOf

LEMMA HeldIsPast ==
    ASSUME NEW r \in SessionRange \cup {None}, NEW now \in Nat
    PROVE  \A x \in HeldBy(r, now) : x \in Int /\ x < now
<1>1. CASE IsStudyRange(r)
  <2>1. r.segments \in Seq(ClosedSegment)
    BY <1>1 DEF IsStudyRange, SessionRange
  <2>2. r.segments \in Seq(Segment)
    <3>1. ClosedSegment \subseteq Segment
      BY DEF ClosedSegment, Segment
    <3> QED  BY <2>1, <3>1
  <2> QED  BY <2>2, CoveredIsPast DEF HeldBy
<1>2. CASE ~IsStudyRange(r)
  BY <1>2 DEF HeldBy
<1> QED  BY <1>1, <1>2

(* The sessions of a range: one to a day, so none shares an instant with   *)
(* another, nor, of a recovered range, with one that bears another id than *)
(* the one it would be given.                                              *)
LEMMA SessionsAreApart ==
    ASSUME NEW r \in SessionRange \cup {None}, NEW k
    PROVE  \A s \in SessionsOf(r, wall, k) :
             /\ s.instants \subseteq HeldBy(r, wall)
             /\ r # None /\ r.reason = "AbandonedRecovery" => RecoveredFrom(r, s)
             /\ \A u \in SessionsOf(r, wall, k) : s.instants \cap u.instants = {} \/ s.id = u.id
             /\ \A u : RecoveredFrom(r, u) => s.instants \cap u.instants = {} \/ s.id = u.id
<1>1. CASE ~IsStudyRange(r)
  BY <1>1 DEF SessionsOf
<1>2. CASE IsStudyRange(r)
  <2>1. r # None /\ r.segments \in Seq(ClosedSegment)
    BY <1>2 DEF IsStudyRange, SessionRange
  <2>2. PICK b : b = Buckets(r.segments)
    OBVIOUS
  <2>3. b \in DailySplit
    BY <2>1, <2>2, BucketsAreDaily
  <2>4. \A i, j \in DOMAIN b : b[i].day = b[j].day => i = j
    BY <2>3 DEF DailySplit, DaysDiffer
  <2> DEFINE Made(i) ==
        [id |-> SessionId(r, b[i], wall, k + i - 1),
         started_at |-> b[i].start, ended_at |-> b[i].end, active |-> b[i].active,
         instants |-> {t \in RangeInstants(r) : LocalDay(t) = b[i].day}]
  <2>5. SessionsOf(r, wall, k) = {Made(i) : i \in DOMAIN b}
    BY <1>2, <2>2 DEF SessionsOf
  <2>6. RangeInstants(r) = HeldBy(r, wall)
    BY DEF RangeInstants, HeldBy
  <2>7. ASSUME NEW i \in DOMAIN b
        PROVE  /\ Made(i).instants \subseteq HeldBy(r, wall)
               /\ \A x \in Made(i).instants : LocalDay(x) = b[i].day
               /\ r.reason = "AbandonedRecovery" =>
                    Made(i).id = <<"recovered", r.phase, b[i].start, b[i].end>>
    BY <2>6 DEF SessionId
  <2> HIDE DEF Made
  <2>8. ASSUME NEW i \in DOMAIN b, r.reason = "AbandonedRecovery"
        PROVE  RecoveredFrom(r, Made(i))
    BY <2>1, <2>2, <2>7, <2>8 DEF RecoveredFrom
  <2>9. ASSUME NEW i \in DOMAIN b, NEW j \in DOMAIN b
        PROVE  Made(i).instants \cap Made(j).instants = {} \/ Made(i).id = Made(j).id
    <3>1. CASE i = j
      BY <3>1
    <3>2. CASE i # j
      <4>1. b[i].day # b[j].day
        BY <3>2, <2>4
      <4> QED  BY <4>1, <2>7
    <3> QED  BY <3>1, <3>2
  <2>10. ASSUME NEW i \in DOMAIN b, NEW u, RecoveredFrom(r, u)
         PROVE  Made(i).instants \cap u.instants = {} \/ Made(i).id = u.id
    <3>1. r.reason = "AbandonedRecovery"
      BY <2>10 DEF RecoveredFrom
    <3>2. PICK j \in DOMAIN b : /\ u.id = <<"recovered", r.phase, b[j].start, b[j].end>>
                                /\ \A x \in u.instants : LocalDay(x) = b[j].day
      BY <2>2, <2>10 DEF RecoveredFrom
    <3>3. CASE i = j
      BY <3>1, <3>2, <3>3, <2>7
    <3>4. CASE i # j
      <4>1. b[i].day # b[j].day
        BY <3>4, <2>4
      <4> QED  BY <4>1, <3>2, <2>7
    <3> QED  BY <3>3, <3>4
  <2> QED  BY <2>1, <2>5, <2>7, <2>8, <2>9, <2>10
<1> QED  BY <1>1, <1>2

(* What add_study_sessions makes of them.                                  *)
LEMMA InsertBooksOnce ==
    ASSUME NEW K, NEW r \in SessionRange \cup {None}, NEW k, NEW new,
           new \subseteq SessionsOf(r, wall, k),
           BookedOnce(K), BookedAs(K, HeldBy(r, wall), r)
    PROVE  BookedOnce(K \cup new)
<1>1. \A s \in new :
        /\ s.instants \subseteq HeldBy(r, wall)
        /\ \A u \in new : s.instants \cap u.instants = {} \/ s.id = u.id
        /\ \A u : RecoveredFrom(r, u) => s.instants \cap u.instants = {} \/ s.id = u.id
  BY SessionsAreApart
<1>2. ASSUME NEW s \in new, NEW u \in K PROVE s.instants \cap u.instants = {} \/ s.id = u.id
  <2>1. CASE RecoveredFrom(r, u)
    BY <1>1, <2>1
  <2>2. CASE ~RecoveredFrom(r, u)
    <3>1. u.instants \cap HeldBy(r, wall) = {}
      BY <2>2 DEF BookedAs
    <3> QED  BY <3>1, <1>1
  <2> QED  BY <2>1, <2>2
<1>3. ASSUME NEW s \in K \cup new, NEW u \in K \cup new
      PROVE  s.instants \cap u.instants = {} \/ s.id = u.id
  <2>1. CASE s \in K /\ u \in K
    BY <2>1 DEF BookedOnce
  <2>2. CASE s \in new /\ u \in K
    BY <2>2, <1>2
  <2>3. CASE s \in K /\ u \in new
    <3>1. u.instants \cap s.instants = {} \/ u.id = s.id
      BY <2>3, <1>2
    <3> QED  BY <3>1
  <2>4. CASE s \in new /\ u \in new
    BY <2>4, <1>1
  <2> QED  BY <2>1, <2>2, <2>3, <2>4
<1> QED  BY <1>3 DEF BookedOnce
----------------------------------------------------------------------------
(* restore_timer recovers the same block, however much later.              *)

LEMMA LongAgo ==
    ASSUME NEW s \in Nat, NEW now \in Nat, SegmentSeconds(s, now) > AbandonAfter
    PROVE  PlusSeconds(s, AbandonAfter + 1) <= now
<1>1. AbandonAfter \in Nat /\ Tps \in Nat \ {0}
  BY RestoreAssumption, TimerAssumption
<1>2. CASE now <= s
  BY <1>1, <1>2 DEF SegmentSeconds
<1>3. CASE ~(now <= s)
  <2>1. PICK d \in Nat : d = now - s
    BY <1>3
  <2>2. PICK q \in Nat : q = d \div Tps /\ Tps * q <= d
    BY <1>1, DivFacts
  <2>3. q >= AbandonAfter + 1
    BY <1>1, <1>3, <2>1, <2>2 DEF SegmentSeconds
  <2>4. (AbandonAfter + 1) * Tps <= Tps * q
    BY <1>1, <2>2, <2>3
  <2>5. (AbandonAfter + 1) * Tps \in Nat /\ Tps * q \in Nat
    BY <1>1, <2>2, TimesNat
  <2>6. s + (AbandonAfter + 1) * Tps <= now
    BY <2>1, <2>2, <2>4, <2>5
  <2> QED  BY <2>6 DEF PlusSeconds
<1> QED  BY <1>2, <1>3

LEMMA AbandonedForGood ==
    ASSUME NEW p \in TimerState, p.active_segments \in Seq(ClosedSegment),
           NEW now \in Nat, Abandoned(p, now)
    PROVE  Abandoned(p, now + 1)
<1>1. \A s \in Elements(p.active_segments) : EndOr(s, s.started_at) \in Nat
  <2>1. ASSUME NEW s \in Elements(p.active_segments) PROVE EndOr(s, s.started_at) \in Nat
    <3>1. s \in ClosedSegment
      BY DEF Elements
    <3> QED  BY <3>1 DEF EndOr, ClosedSegment
  <2> QED  BY <2>1
<1>2. p.started_at \in Nat \cup {None}
  BY DEF TimerState
<1>3. ActivityTimes(p) \subseteq Nat
  BY <1>1, <1>2 DEF ActivityTimes
<1>4. ASSUME NEW at \in ActivityTimes(p) PROVE SegmentSeconds(at, now + 1) > AbandonAfter
  <2>1. at \in Nat /\ now + 1 \in Nat /\ now <= now + 1
    BY <1>3
  <2>2. SegmentSeconds(at, now) > AbandonAfter
    BY DEF Abandoned
  <2>3. SegmentSeconds(at, now) <= SegmentSeconds(at, now + 1)
    BY <2>1, SegmentSecondsGrow
  <2>4. SegmentSeconds(at, now) \in Nat /\ SegmentSeconds(at, now + 1) \in Nat
    BY <2>1, SegmentSecondsType
  <2> QED  BY <2>2, <2>3, <2>4, RestoreAssumption
<1> QED  BY <1>4 DEF Abandoned

(* The cases of restore_timer: o is what it makes of t, p is t held.       *)
RestoreCase(t, now, p, o) ==
    /\ RanOut(t, now) => o = Recovered(t, CloseOpenSegments(t.active_segments, t.ends_at))
    /\ ~RanOut(t, now) /\ RunningCountdown(t) /\ ~IsStale(t, now) =>
         o = Outcome([t EXCEPT !.remaining_seconds = SecondsUntil(t.ends_at, now)], None)
    /\ t.phase = "Idle" => o = Outcome(Held(t), None)
    /\ t.phase = "Break" /\ t.running /\ t.ends_at # None => o = Outcome(t, None)
    /\ t.phase = "Stopwatch" => o = Outcome(RestoredStopwatch(t), None)
    /\ /\ ~RanOut(t, now) /\ ~(RunningCountdown(t) /\ ~IsStale(t, now))
       /\ t.phase \notin {"Idle", "Stopwatch"}
       /\ ~(t.phase = "Break" /\ t.running /\ t.ends_at # None)
       => o = IF Abandoned(p, now) THEN Recovered(p, p.active_segments) ELSE Outcome(p, None)

LEMMA RestoreCases ==
    ASSUME NEW t, NEW now, SaneOnDisk(t, now)
    PROVE  RestoreCase(t, now, Repaired(Held(t)), RestoreTimer(t, now))
<1>1. FromSnapshot(t) = t
  BY FromSnapshotIsTheSame
<1> DEFINE o == RestoreTimer(t, now)
           p == Repaired(Held(t))
           goesOn == RunningCountdown(t) /\ ~RanOut(t, now) /\ ~IsStale(t, now)
           resting == t.phase = "Break" /\ t.running /\ t.ends_at # None
<1>2. o = CASE RanOut(t, now) ->
                 Recovered(t, CloseOpenSegments(t.active_segments, t.ends_at))
            [] goesOn ->
                 Outcome([t EXCEPT !.remaining_seconds = SecondsUntil(t.ends_at, now)], None)
            [] t.phase = "Idle" -> Outcome(Held(t), None)
            [] resting -> Outcome(t, None)
            [] t.phase = "Stopwatch" -> Outcome(RestoredStopwatch(t), None)
            [] OTHER ->
                 IF Abandoned(p, now) THEN Recovered(p, p.active_segments)
                 ELSE Outcome(p, None)
  BY <1>1 DEF RestoreTimer
<1> HIDE DEF o, p
<1>3. RanOut(t, now) => RunningCountdown(t)
  BY DEF RanOut
<1>4. RunningCountdown(t) => t.phase \in {"Study", "Exam"}
  BY DEF RunningCountdown
<1>5. RanOut(t, now) => o = Recovered(t, CloseOpenSegments(t.active_segments, t.ends_at))
  BY <1>2, <1>3, <1>4
<1>6. ~RanOut(t, now) /\ RunningCountdown(t) /\ ~IsStale(t, now) =>
                o = Outcome([t EXCEPT !.remaining_seconds = SecondsUntil(t.ends_at, now)], None)
  BY <1>2, <1>4
<1>7. t.phase = "Idle" => o = Outcome(Held(t), None)
  BY <1>2, <1>3, <1>4
<1>8. resting => o = Outcome(t, None)
  BY <1>2, <1>3, <1>4
<1>9. t.phase = "Stopwatch" => o = Outcome(RestoredStopwatch(t), None)
  BY <1>2, <1>3, <1>4
<1>10. ~RanOut(t, now) /\ ~(RunningCountdown(t) /\ ~IsStale(t, now))
              /\ t.phase \notin {"Idle", "Stopwatch"} /\ ~resting
       => o = IF Abandoned(p, now) THEN Recovered(p, p.active_segments) ELSE Outcome(p, None)
  BY <1>2
<1> QED  BY <1>5, <1>6, <1>7, <1>8, <1>9, <1>10 DEF o, p, RestoreCase

(* What a restart hands over is a recovered block, and the timer is idle.  *)
LEMMA RecoveredIsIdle ==
    ASSUME TypeOK, NEW t, SaneOnDisk(t, wall), NEW o, o = RestoreTimer(t, wall), o.range # None
    PROVE  o.range.reason = "AbandonedRecovery" /\ o.timer.phase = "Idle"
<1>1. PICK p : p = Repaired(Held(t))
  OBVIOUS
<1>2. t \in TimerState /\ p \in TimerState
  BY <1>1, HeldFacts DEF SaneOnDisk
<1>c. RestoreCase(t, wall, p, o)
  BY <1>1, RestoreCases
<1>3. \A u : Outcome(u, None).range = None
  BY DEF Outcome
<1>4. (\E u \in TimerState : \E segs : o = Recovered(u, segs)) \/ \E u : o = Outcome(u, None)
  <2>1. t.phase \in Phases
    BY <1>2 DEF TimerState
  <2>2. CASE RanOut(t, wall)
    <3>1. o = Recovered(t, CloseOpenSegments(t.active_segments, t.ends_at))
      BY <1>c, <2>2 DEF RestoreCase
    <3> QED  BY <3>1, <1>2
  <2>3. CASE ~RanOut(t, wall)
    <3>1. CASE (RunningCountdown(t) /\ ~IsStale(t, wall)) \/ t.phase \in {"Idle", "Stopwatch"}
               \/ (t.phase = "Break" /\ t.running /\ t.ends_at # None)
      <4>1. \E u : o = Outcome(u, None)
        BY <1>c, <2>3, <3>1 DEF RestoreCase
      <4> QED  BY <4>1
    <3>2. CASE ~((RunningCountdown(t) /\ ~IsStale(t, wall)) \/ t.phase \in {"Idle", "Stopwatch"}
                 \/ (t.phase = "Break" /\ t.running /\ t.ends_at # None))
      <4>1. o = IF Abandoned(p, wall) THEN Recovered(p, p.active_segments) ELSE Outcome(p, None)
        BY <1>c, <2>3, <3>2 DEF RestoreCase
      <4> QED  BY <4>1, <1>2
    <3> QED  BY <3>1, <3>2
  <2> QED  BY <2>2, <2>3
<1>5. PICK u \in TimerState : \E segs : o = Recovered(u, segs)
  <2>1. ~ \E v : o = Outcome(v, None)
    BY <1>3
  <2> QED  BY <1>4, <2>1
<1>e. PICK segs : o = Recovered(u, segs)
  BY <1>5
<1>6. o.timer = ResetToIdle(u) /\ o.range = RangeOf(u.phase, "AbandonedRecovery", ClosedSegments(segs))
  BY <1>e DEF Recovered, Outcome
<1>7. o.range = [phase |-> u.phase, reason |-> "AbandonedRecovery",
                 segments |-> ClosedSegments(segs)]
  BY <1>6 DEF RangeOf
<1>8. o.range.reason = "AbandonedRecovery"
  BY ONLY <1>7
<1>9. o.timer.phase = "Idle"
  <2>1. ResetToIdle(u).phase = "Idle"
    BY ResetToIdleType
  <2> QED  BY ONLY <1>6, <2>1
<1> QED  BY <1>8, <1>9

LEMMA RecoveryIsStable ==
    ASSUME TypeOK, NEW t, SaneOnDisk(t, wall), WithinPreset(t, wall), t.phase \in StudyPhases,
           RestoreTimer(t, wall).range # None
    PROVE  RestoreTimer(t, wall + 1).range = RestoreTimer(t, wall).range
<1>a. /\ t \in TimerState /\ wall \in Nat /\ wall + 1 \in Nat /\ SaneOnDisk(t, wall + 1)
  BY SnapshotLater DEF TypeOK, SaneOnDisk
<1>1. PICK p : p = Repaired(Held(t))
  OBVIOUS
<1>2. PICK o : o = RestoreTimer(t, wall)
  OBVIOUS
<1>3. PICK q : q = RestoreTimer(t, wall + 1)
  OBVIOUS
<1>c. RestoreCase(t, wall, p, o) /\ RestoreCase(t, wall + 1, p, q)
  BY <1>a, <1>1, <1>2, <1>3, RestoreCases
<1>4. \A u : Outcome(u, None).range = None
  BY DEF Outcome
<1>5. o.range # None
  BY <1>2
<1>6. CASE RanOut(t, wall)
  <2>1. RanOut(t, wall + 1)
    <3>1. t.ends_at \in Nat
      BY <1>a, <1>6 DEF RanOut, RunningCountdown, TimerState
    <3> QED  BY <1>6, <1>a, <3>1 DEF RanOut
  <2>2. o = q
    <3>1. o = Recovered(t, CloseOpenSegments(t.active_segments, t.ends_at))
      BY <1>c, <1>6 DEF RestoreCase
    <3>2. q = Recovered(t, CloseOpenSegments(t.active_segments, t.ends_at))
      BY <1>c, <2>1 DEF RestoreCase
    <3> QED  BY <3>1, <3>2
  <2> QED  BY <1>2, <1>3, <2>2
<1>7. CASE ~RanOut(t, wall)
  <2>1. t.phase \notin {"Idle", "Stopwatch"}
    BY <1>c, <1>4, <1>5 DEF RestoreCase
  <2>2. ~(RunningCountdown(t) /\ ~IsStale(t, wall))
    BY <1>c, <1>4, <1>5, <1>7 DEF RestoreCase
  <2>3. t.phase # "Break"
    BY DEF StudyPhases
  <2>4. o = IF Abandoned(p, wall) THEN Recovered(p, p.active_segments) ELSE Outcome(p, None)
    BY <1>c, <1>7, <2>1, <2>2, <2>3 DEF RestoreCase
  <2>5. Abandoned(p, wall)
    BY <2>4, <1>4, <1>5
  <2>6. ~RunningCountdown(t)
    <3> SUFFICES ASSUME RunningCountdown(t) PROVE FALSE
      OBVIOUS
    <3>1. t.started_at \in Nat /\ t.ends_at <= PlusSeconds(t.started_at, AbandonAfter + 1)
      BY DEF WithinPreset
    <3>2. p.started_at = t.started_at
      <4>1. PICK h : h = Held(t)
        OBVIOUS
      <4>2. h \in TimerState /\ h.started_at = t.started_at
        BY <4>1, <1>a DEF Held, TimerState
      <4>3. PICK segs : segs = CloseStaleOpenSegments(h)
        OBVIOUS
      <4>4. p = [h EXCEPT !.active_segments = segs]
        BY <1>1, <4>1, <4>3 DEF Repaired
      <4> QED  BY <4>2, <4>4 DEF TimerState
    <3>3. t.started_at # None
      BY <3>1, TimerAssumption
    <3>4. SegmentSeconds(t.started_at, wall) > AbandonAfter
      BY <2>5, <3>2, <3>3 DEF Abandoned, ActivityTimes
    <3>5. PlusSeconds(t.started_at, AbandonAfter + 1) <= wall
      BY <1>a, <3>1, <3>4, LongAgo
    <3>6. PlusSeconds(t.started_at, AbandonAfter + 1) \in Nat
      <4>1. AbandonAfter + 1 \in Nat
        BY RestoreAssumption
      <4> QED  BY <4>1, <3>1, ResumedFor
    <3>7. t.ends_at \in Nat
      BY <1>a DEF RunningCountdown, TimerState
    <3>8. t.ends_at <= wall
      BY <3>1, <3>5, <3>6, <3>7, <1>a
    <3> QED  BY <3>8, <1>7 DEF RanOut
  <2>7. ~RanOut(t, wall + 1)
    BY <2>6 DEF RanOut
  <2>8. Abandoned(p, wall + 1)
    <3>1. p \in TimerState /\ p.active_segments \in Seq(ClosedSegment)
      BY <1>1, HeldFacts
    <3> QED  BY <3>1, <2>5, <1>a, AbandonedForGood
  <2>9. q = IF Abandoned(p, wall + 1) THEN Recovered(p, p.active_segments) ELSE Outcome(p, None)
    BY <1>c, <2>1, <2>3, <2>6, <2>7 DEF RestoreCase
  <2>10. o = q
    BY <2>4, <2>5, <2>8, <2>9
  <2> QED  BY <1>2, <1>3, <2>10
<1> QED  BY <1>6, <1>7
----------------------------------------------------------------------------
(* No countdown outruns the longest preset.                                *)

LEMMA SecondsUntilBound ==
    ASSUME NEW e \in Nat, NEW s \in Nat, NEW n \in Nat, NEW now \in Nat,
           e <= PlusSeconds(s, n), s <= now
    PROVE  SecondsUntil(e, now) \in Nat /\ SecondsUntil(e, now) <= n
<1>a. Tps \in Nat \ {0}
  BY TimerAssumption
<1>1. CASE e <= now
  BY <1>1 DEF SecondsUntil
<1>2. CASE ~(e <= now)
  <2>1. PICK d \in Nat : d = e - now + Tps - 1
    BY <1>2, <1>a
  <2>2. PICK q \in Nat : q = d \div Tps /\ Tps * q <= d
    BY <1>a, DivFacts
  <2>3. SecondsUntil(e, now) = q
    BY <1>2, <2>1, <2>2 DEF SecondsUntil
  <2>4. PICK m \in Nat : m = n * Tps
    BY <1>a, TimesNat
  <2>5. d <= m + Tps - 1
    BY <2>1, <2>4, <1>a DEF PlusSeconds
  <2>6. ASSUME q > n PROVE FALSE
    <3>1. Tps * q >= Tps * (n + 1)
      BY <1>a, <2>6
    <3>2. Tps * (n + 1) = m + Tps
      BY <1>a, <2>4
    <3>3. Tps * q \in Nat
      BY <1>a, TimesNat
    <3> QED  BY <1>a, <2>2, <2>5, <3>1, <3>2, <3>3
  <2> QED  BY <2>3, <2>6
<1> QED  BY <1>1, <1>2

LEMMA PresetLater ==
    ASSUME NEW t, NEW a \in Nat, NEW b \in Nat, a <= b, WithinPreset(t, a)
    PROVE  WithinPreset(t, b)
<1>1. RunningCountdown(t) => t.started_at \in Nat /\ t.started_at <= b
  BY DEF WithinPreset
<1> QED  BY <1>1 DEF WithinPreset

LEMMA IdleIsShort ==
    ASSUME NEW c \in TimerConfig, c.study_seconds <= AbandonAfter, c.exam_seconds <= AbandonAfter
    PROVE  IdleSeconds(c) \in Nat /\ IdleSeconds(c) <= AbandonAfter + 1
<1>1. c.mode \in Modes /\ c.study_seconds \in Nat /\ c.exam_seconds \in Nat
  BY DEF TimerConfig
<1> QED  BY <1>1, RestoreAssumption DEF IdleSeconds, Modes

LEMMA FreshWithinPreset ==
    ASSUME NEW c \in TimerConfig, c.study_seconds <= AbandonAfter, c.exam_seconds <= AbandonAfter,
           NEW now, NEW t, t = NewTimer(c) \/ \E last : t = [NewTimer(c) EXCEPT !.last_alive_at = last]
    PROVE  WithinPreset(t, now)
<1>1. t.phase = "Idle" /\ t.remaining_seconds = IdleSeconds(c) /\ t.config = c
  BY DEF NewTimer
<1>2. ~RunningCountdown(t)
  BY <1>1 DEF RunningCountdown
<1> QED  BY <1>1, <1>2, IdleIsShort DEF WithinPreset

LEMMA ResetWithinPreset ==
    ASSUME NEW t \in TimerState, NEW now, NEW then, WithinPreset(t, now)
    PROVE  WithinPreset(ResetToIdle(t), then)
<1>1. t.config \in TimerConfig
  BY DEF TimerState
<1>2. t.config.study_seconds <= AbandonAfter /\ t.config.exam_seconds <= AbandonAfter
  BY DEF WithinPreset
<1> QED  BY <1>1, <1>2, FreshWithinPreset DEF ResetToIdle

LEMMA DisplayBound ==
    ASSUME wall \in Nat, mono \in Nat, NEW t \in TimerState, WithinPreset(t, wall), HasDeadline(t),
           t.phase \in {"Idle", "Study", "Exam"}, t.phase = "Idle" => ~t.running
    PROVE  DisplaySeconds(t) <= AbandonAfter + 1
<1>a. AbandonAfter + 1 \in Nat /\ Tps \in Nat \ {0}
  BY RestoreAssumption, TimerAssumption
<1>1. CASE ~t.running
  BY <1>1 DEF DisplaySeconds, WithinPreset
<1>2. CASE t.running /\ t.anchor = None
  <2>1. t.phase \in {"Study", "Exam"} /\ t.ends_at # None /\ t.ends_at \in Nat
    BY <1>2 DEF HasDeadline, TimerState, Countdowns
  <2>2. RunningCountdown(t)
    BY <1>2, <2>1 DEF RunningCountdown
  <2>3. /\ t.started_at \in Nat /\ t.started_at <= wall
        /\ t.ends_at <= PlusSeconds(t.started_at, AbandonAfter + 1)
    BY <2>2 DEF WithinPreset
  <2>4. SecondsUntil(t.ends_at, wall) <= AbandonAfter + 1
    BY <1>a, <2>1, <2>3, SecondsUntilBound
  <2>5. DisplaySeconds(t) = SecondsUntil(t.ends_at, wall)
    BY <1>2, <2>1 DEF DisplaySeconds, RemainingFromRuntime
  <2> QED  BY <2>4, <2>5
<1>3. CASE t.running /\ t.anchor # None
  <2>1. t.phase \in {"Study", "Exam"}
    BY <1>3
  <2>2. PICK v \in Nat, a \in Nat : v = t.anchor.value /\ a = t.anchor.mono
    BY <1>3 DEF TimerState, RuntimeAnchor
  <2>3. v <= AbandonAfter + 1
    BY <1>3, <2>1, <2>2 DEF WithinPreset
  <2>4. Minus(mono, a) \in Nat
    BY DEF Minus
  <2>5. PICK q \in Nat : q = Minus(mono, a) \div Tps
    BY <1>a, <2>4, DivFacts
  <2>6. DisplaySeconds(t) = Minus(v, q)
    BY <1>3, <2>1, <2>2, <2>5 DEF DisplaySeconds, RemainingFromRuntime
  <2>7. Minus(v, q) <= v /\ Minus(v, q) \in Nat
    BY DEF Minus
  <2> QED  BY <1>a, <2>3, <2>6, <2>7
<1> QED  BY <1>1, <1>2, <1>3

LEMMA SnapshotWithinPreset ==
    ASSUME wall \in Nat, mono \in Nat, NEW t \in TimerState, WithinPreset(t, wall), HasDeadline(t),
           t.phase = "Idle" => ~t.running, NEW alive, NEW s, s = Snapshot(t, alive)
    PROVE  WithinPreset(s, wall)
<1>1. PICK d : d = DisplaySeconds(t)
  OBVIOUS
<1>2. t.phase \in {"Idle", "Study", "Exam"} => d <= AbandonAfter + 1
  BY <1>1, DisplayBound
<1>3. s = [t EXCEPT !.remaining_seconds = d, !.last_alive_at = alive, !.anchor = None]
  BY <1>1 DEF Snapshot
<1>4. /\ s.phase = t.phase /\ s.running = t.running /\ s.config = t.config
      /\ s.ends_at = t.ends_at /\ s.started_at = t.started_at
      /\ s.remaining_seconds = d /\ s.anchor = None
  BY <1>3 DEF TimerState
<1>5. RunningCountdown(s) <=> RunningCountdown(t)
  BY <1>4 DEF RunningCountdown
<1> QED  BY <1>2, <1>4, <1>5 DEF WithinPreset

(* The two commands that set a deadline.                                   *)
LEMMA BegunWithinPreset ==
    ASSUME wall \in Nat, mono \in Nat, NEW t \in TimerState, WithinPreset(t, wall),
           NEW n \in Nat, t.phase \in {"Idle", "Study", "Exam"} => n <= AbandonAfter + 1,
           NEW u \in TimerState, u.config = t.config, u.remaining_seconds = n,
           u.started_at = wall, u.anchor = [mono |-> mono, value |-> n],
           u.ends_at = PlusSeconds(wall, n) \/ u.ends_at = None,
           u.phase \in {"Idle", "Study", "Exam"} => t.phase \in {"Idle", "Study", "Exam"}
    PROVE  WithinPreset(u, wall)
<1>1. /\ u.config.study_seconds <= AbandonAfter /\ u.config.exam_seconds <= AbandonAfter
  BY DEF WithinPreset
<1>2. u.anchor.value = n
  OBVIOUS
<1>3. ASSUME RunningCountdown(u)
      PROVE  /\ u.started_at \in Nat /\ u.started_at <= wall
             /\ u.ends_at <= PlusSeconds(u.started_at, AbandonAfter + 1)
  <2>1. u.ends_at = PlusSeconds(wall, n) /\ n <= AbandonAfter + 1
    BY <1>3 DEF RunningCountdown
  <2>2. AbandonAfter + 1 \in Nat /\ Tps \in Nat \ {0}
    BY RestoreAssumption, TimerAssumption
  <2>3. n * Tps <= (AbandonAfter + 1) * Tps /\ n * Tps \in Nat /\ (AbandonAfter + 1) * Tps \in Nat
    BY <2>1, <2>2, TimesNat
  <2> QED  BY <2>1, <2>3 DEF PlusSeconds
<1> QED  BY <1>1, <1>2, <1>3 DEF WithinPreset

LEMMA CommandWithinPreset ==
    ASSUME Sane, WithinPreset(timer, wall), Command
    PROVE  WithinPreset(timer', wall)
<1>a. /\ TypeOK /\ timer \in TimerState /\ wall \in Nat /\ mono \in Nat /\ AbandonAfter + 1 \in Nat
      /\ HasDeadline(timer) /\ (timer.phase = "Idle" => ~timer.running)
  BY RestoreAssumption DEF Sane, TypeOK, DeadlineSync, HasDeadline, SegmentsWellFormed
<1>b. timer' \in TimerState
  <2>1. TypeOK'
    BY <1>a, StepType DEF Next
  <2> QED  BY <2>1 DEF TypeOK
<1>c. WithinPreset(ResetToIdle(timer), wall)
  BY <1>a, ResetWithinPreset
<1>d. PICK t \in TimerState : t = timer
  BY <1>a
<1>e. PICK u \in TimerState : u = timer'
  BY <1>b
<1>f. /\ t.config.study_seconds <= AbandonAfter /\ t.config.exam_seconds <= AbandonAfter
      /\ t.config \in TimerConfig
  BY <1>d DEF WithinPreset, TimerState
<1>1. CASE Start
  <2> DEFINE endless == t.config.mode = "Endless"
  <2>1. PICK n \in Nat : n = IF endless THEN 0 ELSE Greater(t.remaining_seconds, 1)
    <3>1. t.remaining_seconds \in Nat
      BY DEF TimerState
    <3> QED  BY <3>1 DEF Greater
  <2>2. n <= AbandonAfter + 1
    <3>1. t.remaining_seconds <= AbandonAfter + 1
      BY <1>1, <1>d DEF Start, WithinPreset
    <3> QED  BY <2>1, <3>1, RestoreAssumption DEF Greater, TimerState
  <2>3. /\ u.config = t.config /\ u.remaining_seconds = n /\ u.started_at = wall
        /\ u.anchor = [mono |-> mono, value |-> n]
        /\ u.ends_at = PlusSeconds(wall, n) \/ u.ends_at = None
        /\ t.phase = "Idle"
    BY <1>1, <1>d, <1>e, <2>1 DEF Start, TimerState
  <2> QED  BY <1>a, <1>d, <1>e, <2>2, <2>3, BegunWithinPreset
<1>2. CASE Pause
  <2>1. PICK d \in Nat : d = DisplaySeconds(timer)
    BY <1>a, DisplayType
  <2>2. /\ u.phase = t.phase /\ u.config = t.config /\ u.running = FALSE /\ u.anchor = None
        /\ u.remaining_seconds = d
    BY <1>2, <1>d, <1>e, <2>1 DEF Pause, TimerState
  <2>3. t.phase \in {"Idle", "Study", "Exam"} => d <= AbandonAfter + 1
    BY <1>a, <1>d, <2>1, DisplayBound
  <2>4. ~RunningCountdown(u)
    BY <2>2 DEF RunningCountdown
  <2> QED  BY <1>e, <1>f, <2>2, <2>3, <2>4 DEF WithinPreset
<1>3. CASE Resume
  <2>1. PICK n \in Nat : n = TimeOnResume(timer)
    BY <1>a, DisplayType DEF TimeOnResume, Greater, TimerState
  <2>2. /\ u.config = t.config /\ u.remaining_seconds = n /\ u.started_at = wall
        /\ u.anchor = [mono |-> mono, value |-> n] /\ u.phase = t.phase
        /\ u.ends_at = PlusSeconds(wall, n) \/ u.ends_at = None
    BY <1>3, <1>d, <1>e, <2>1 DEF Resume, TimerState
  <2>3. t.phase \in {"Idle", "Study", "Exam"} => n <= AbandonAfter + 1
    BY <1>d, <2>1 DEF TimeOnResume, WithinPreset
  <2> QED  BY <1>a, <1>d, <1>e, <2>2, <2>3, BegunWithinPreset
<1>4. CASE Reset \/ CompleteManually
  <2>1. timer' = ResetToIdle(timer)
    BY <1>4 DEF Reset, CompleteManually
  <2> QED  BY <2>1, <1>c
<1>5. CASE ObserveTime
  <2>1. timer' = ResetToIdle(timer) \/ \E start : timer' = StartBreak(timer, start)
    BY <1>5 DEF ObserveTime
  <2>2. ASSUME NEW start, timer' = StartBreak(timer, start) PROVE WithinPreset(timer', wall)
    <3>1. u.phase = "Break" /\ u.config = t.config
      BY <2>2, <1>d, <1>e DEF StartBreak, TimerState
    <3>2. ~RunningCountdown(u)
      BY <3>1 DEF RunningCountdown
    <3> QED  BY <1>e, <1>f, <3>1, <3>2 DEF WithinPreset
  <2> QED  BY <2>1, <2>2, <1>c
<1>6. ASSUME NEW m \in Modes, SetMode(m) PROVE WithinPreset(timer', wall)
  <2>1. PICK c : c = [t.config EXCEPT !.mode = m]
    OBVIOUS
  <2>2. /\ c \in TimerConfig /\ c.study_seconds = t.config.study_seconds
        /\ c.exam_seconds = t.config.exam_seconds
    BY <1>f, <2>1 DEF TimerConfig
  <2>3. /\ u.phase = "Idle" /\ u.config = c /\ u.remaining_seconds = IdleSeconds(c)
    BY <1>6, <1>d, <1>e, <2>1 DEF SetMode, TimerState
  <2>4. IdleSeconds(c) <= AbandonAfter + 1
    BY <1>f, <2>2, IdleIsShort
  <2>5. ~RunningCountdown(u)
    BY <2>3 DEF RunningCountdown
  <2> QED  BY <1>e, <1>f, <2>2, <2>3, <2>4, <2>5 DEF WithinPreset
<1> QED  BY <1>1, <1>2, <1>3, <1>4, <1>5, <1>6 DEF Command

LEMMA RestoredWithinPreset ==
    ASSUME TypeOK, NEW t, SaneOnDisk(t, wall), WithinPreset(t, wall),
           NEW o, o = RestoreTimer(t, wall)
    PROVE  WithinPreset(o.timer, wall)
<1>1. PICK p : p = Repaired(Held(t))
  OBVIOUS
<1>a. /\ t \in TimerState /\ wall \in Nat /\ AbandonAfter + 1 \in Nat
      /\ t.config.study_seconds <= AbandonAfter /\ t.config.exam_seconds <= AbandonAfter
  BY RestoreAssumption DEF SaneOnDisk, TypeOK, WithinPreset
<1>c. RestoreCase(t, wall, p, o)
  BY <1>1, RestoreCases
<1>2. p \in TimerState /\ p.phase = t.phase /\ p.running = FALSE /\ p.anchor = None
  BY <1>1, HeldFacts
<1>3. p.config = t.config /\ p.remaining_seconds = t.remaining_seconds
  <2>1. PICK h : h = Held(t)
    OBVIOUS
  <2>2. h \in TimerState /\ h.config = t.config /\ h.remaining_seconds = t.remaining_seconds
    BY <2>1, <1>a DEF Held, TimerState
  <2>3. PICK segs : segs = CloseStaleOpenSegments(h)
    OBVIOUS
  <2>4. p = [h EXCEPT !.active_segments = segs]
    BY <1>1, <2>1, <2>3 DEF Repaired
  <2> QED  BY <2>2, <2>4 DEF TimerState
<1>4. WithinPreset(p, wall)
  BY <1>2, <1>3, <1>a DEF WithinPreset, RunningCountdown
<1>5. \A u : Outcome(u, None).timer = u
  BY DEF Outcome
<1>6. \A u, segs : Recovered(u, segs).timer = ResetToIdle(u)
  BY DEF Recovered, Outcome
<1>7. WithinPreset(ResetToIdle(t), wall) /\ WithinPreset(ResetToIdle(p), wall)
  BY <1>a, <1>2, <1>4, ResetWithinPreset
<1>8. CASE RanOut(t, wall)
  BY <1>8, <1>c, <1>6, <1>7 DEF RestoreCase
<1>9. CASE ~RanOut(t, wall) /\ RunningCountdown(t) /\ ~IsStale(t, wall)
  <2>1. PICK left : left = SecondsUntil(t.ends_at, wall)
    OBVIOUS
  <2>2. o.timer = [t EXCEPT !.remaining_seconds = left]
    BY <1>9, <1>c, <1>5, <2>1 DEF RestoreCase
  <2>3. /\ t.started_at \in Nat /\ t.started_at <= wall
        /\ t.ends_at <= PlusSeconds(t.started_at, AbandonAfter + 1)
    BY <1>9 DEF WithinPreset
  <2>4. t.ends_at \in Nat
    BY <1>9, <1>a DEF RunningCountdown, TimerState
  <2>5. left <= AbandonAfter + 1
    BY <1>a, <2>1, <2>3, <2>4, SecondsUntilBound
  <2>6. PICK u : u = o.timer
    OBVIOUS
  <2>7. /\ u.phase = t.phase /\ u.running = t.running /\ u.config = t.config
        /\ u.ends_at = t.ends_at /\ u.started_at = t.started_at
        /\ u.remaining_seconds = left /\ u.anchor = t.anchor
    BY <2>2, <2>6, <1>a DEF TimerState
  <2>8. RunningCountdown(u) <=> RunningCountdown(t)
    BY <2>7 DEF RunningCountdown
  <2>9. WithinPreset(u, wall)
    BY <2>5, <2>7, <2>8 DEF WithinPreset
  <2> QED  BY <2>6, <2>9
<1>10. CASE t.phase = "Idle"
  <2>1. PICK u : u = Held(t)
    OBVIOUS
  <2>2. o.timer = u
    BY <1>10, <1>c, <1>5, <2>1 DEF RestoreCase
  <2>3. /\ u.phase = t.phase /\ u.config = t.config /\ u.remaining_seconds = t.remaining_seconds
    BY <2>1, <1>a DEF Held, TimerState
  <2> QED  BY <1>10, <2>2, <2>3 DEF WithinPreset, RunningCountdown
<1>11. CASE t.phase = "Break" /\ t.running /\ t.ends_at # None
  BY <1>11, <1>c, <1>5 DEF RestoreCase
<1>12. CASE t.phase = "Stopwatch"
  <2>1. PICK total : total = SumSeconds(ClosedSegments(p.active_segments), 0)
    OBVIOUS
  <2>2. PICK u : u = [p EXCEPT !.remaining_seconds = total]
    OBVIOUS
  <2>3. o.timer = u
    BY <1>12, <1>c, <1>5, <1>1, <2>1, <2>2 DEF RestoreCase, RestoredStopwatch
  <2>4. u.phase = "Stopwatch" /\ u.config = t.config
    BY <1>12, <2>2, <1>2, <1>3 DEF TimerState
  <2> QED  BY <2>3, <2>4, <1>a DEF WithinPreset, RunningCountdown
<1>13. CASE /\ ~RanOut(t, wall) /\ ~(RunningCountdown(t) /\ ~IsStale(t, wall))
            /\ t.phase \notin {"Idle", "Stopwatch"}
            /\ ~(t.phase = "Break" /\ t.running /\ t.ends_at # None)
  <2>1. o = IF Abandoned(p, wall) THEN Recovered(p, p.active_segments) ELSE Outcome(p, None)
    BY <1>13, <1>c DEF RestoreCase
  <2> QED  BY <2>1, <1>4, <1>5, <1>6, <1>7
<1> QED  BY <1>8, <1>9, <1>10, <1>11, <1>12, <1>13
----------------------------------------------------------------------------
(* Each step books no instant twice.                                       *)

LEMMA BookedFacts ==
    ASSUME NEW S, NEW t, NEW d, NEW r, NEW now, NEW at, Booked(S, t, d, r, now, at), NEW T,
           T \subseteq S
    PROVE  Booked(T, t, d, r, now, at)
  BY DEF Booked, InThePast, BookedOnce, Unbooked, BookedAs

LEMMA BookingStarts == TrackerInit => BookingIInv
<1> SUFFICES ASSUME TrackerInit PROVE BookingIInv
  OBVIOUS
<1>1. TrackerIInv
  BY TrackerStarts
<1>2. /\ timer = NewTimer(DefaultConfig) /\ disk.timer = None
      /\ sessions \cup disk.sessions = {} /\ pc = "ready"
  BY DEF TrackerInit
<1>3. WithinPreset(timer, wall)
  <2>1. DefaultConfig \in TimerConfig /\ DefaultConfig.study_seconds <= AbandonAfter
        /\ DefaultConfig.exam_seconds <= AbandonAfter
    BY TrackerAssumption, TimerAssumption
  <2> QED  BY <1>2, <2>1, FreshWithinPreset
<1>4. \A t, d, r, now : Booked({}, t, d, r, now, "ready")
  BY DEF Booked, InThePast, BookedOnce, Unbooked, BookedAs
<1>5. AllBooked
  BY <1>2, <1>4 DEF AllBooked
<1> QED  BY <1>1, <1>2, <1>3, <1>5 DEF BookingIInv, Bounded

(* The clock, in a process that waits or is down.                          *)
LEMMA TickBooks ==
    ASSUME TypeOK, NEW S, NEW d, d # None => SaneOnDisk(d, wall) /\ WithinPreset(d, wall),
           NEW r, NEW at, NEW to, to \notin {"routing", "loading"},
           Booked(S, timer, d, r, wall, at)
    PROVE  Booked(S, timer, d, None, wall + 1, to)
<1>a. /\ timer \in TimerState /\ wall \in Nat /\ wall + 1 \in Nat /\ (d # None => d \in TimerState)
  BY DEF TypeOK, SaneOnDisk
<1>b. /\ InThePast(S, wall) /\ BookedOnce(S) /\ Unbooked(S, BlockOf(timer, wall))
      /\ BookedAs(S, FileBlock(d, wall), RecoveredRange(d, wall))
  BY DEF Booked
<1>1. \A s \in S : wall \notin s.instants
  BY <1>a, <1>b DEF InThePast
<1>2. InThePast(S, wall + 1)
  <2>1. ASSUME NEW s \in S, NEW x \in s.instants PROVE x \in Int /\ x < wall + 1
    <3>1. x \in Int /\ x < wall
      BY <1>b DEF InThePast
    <3> QED  BY <3>1, <1>a
  <2> QED  BY <2>1 DEF InThePast
<1>3. Unbooked(S, BlockOf(timer, wall + 1))
  <2>1. BlockOf(timer, wall + 1) \subseteq BlockOf(timer, wall) \cup {wall}
    BY <1>a, BlockTicks
  <2> QED  BY <2>1, <1>1, <1>b DEF Unbooked
<1>4. BookedAs(S, FileBlock(d, wall + 1), RecoveredRange(d, wall + 1))
  <2>1. FileBlock(d, wall + 1) \subseteq FileBlock(d, wall) \cup {wall}
    BY <1>a, BlockTicks DEF FileBlock
  <2>2. ASSUME NEW s \in S, s.instants \cap FileBlock(d, wall + 1) # {}
        PROVE  RecoveredFrom(RecoveredRange(d, wall + 1), s)
    <3>1. s.instants \cap FileBlock(d, wall) # {}
      BY <2>1, <2>2, <1>1
    <3>2. RecoveredFrom(RecoveredRange(d, wall), s)
      BY <3>1, <1>b DEF BookedAs
    <3>3. d # None /\ d.phase \in StudyPhases /\ RecoveredRange(d, wall) # None
      BY <3>1, <3>2 DEF FileBlock, BlockOf, RecoveredFrom
    <3>4. RecoveredRange(d, wall + 1) = RecoveredRange(d, wall)
      BY <3>3, RecoveryIsStable DEF RecoveredRange
    <3> QED  BY <3>2, <3>4
  <2> QED  BY <2>2 DEF BookedAs
<1>5. BookedAs(S, HeldBy(None, wall + 1), None)
  BY DEF BookedAs, HeldBy, IsStudyRange
<1> QED  BY <1>b, <1>2, <1>3, <1>4, <1>5 DEF Booked

LEMMA TickUpBooks == BookingIInv /\ TickUp => BookingIInv'
<1> SUFFICES ASSUME BookingIInv, TickUp PROVE BookingIInv'
  OBVIOUS
<1>1. TrackerIInv'
  BY TickUpKeeps DEF BookingIInv
<1>a. /\ TypeOK /\ wall \in Nat /\ wall + 1 \in Nat /\ wall <= wall + 1 /\ pc = "ready"
      /\ disk' = disk /\ sessions' = sessions /\ pc' = pc /\ diverged' = diverged
      /\ timer' = timer /\ wall' = wall + 1 /\ range' = None
      /\ disk.timer # None => SaneOnDisk(disk.timer, wall) /\ WithinPreset(disk.timer, wall)
      /\ WithinPreset(timer, wall)
  BY DEF BookingIInv, Bounded, TrackerIInv, TickUp, store, history, Sane, TypeOK, Tick
<1>2. Bounded'
  BY <1>a, PresetLater, BookedPrimed
<1>3. ASSUME ~diverged PROVE AllBooked'
  <2>1. Booked(sessions \cup disk.sessions, timer, disk.timer, range, wall, pc)
    BY <1>3 DEF BookingIInv, AllBooked
  <2>2. Booked(sessions \cup disk.sessions, timer, disk.timer, None, wall + 1, pc)
    BY <1>a, <2>1, TickBooks
  <2> QED  BY <1>a, <2>2, BookedPrimed
<1> QED  BY <1>a, <1>1, <1>2, <1>3 DEF BookingIInv

LEMMA TickDownBooks == BookingIInv /\ TickDown => BookingIInv'
<1> SUFFICES ASSUME BookingIInv, TickDown PROVE BookingIInv'
  OBVIOUS
<1>1. TrackerIInv'
  BY TickDownKeeps DEF BookingIInv
<1>a. /\ TypeOK /\ wall \in Nat /\ wall + 1 \in Nat /\ wall <= wall + 1 /\ pc = "down"
      /\ disk' = disk /\ sessions' = sessions /\ pc' = pc /\ diverged' = diverged
      /\ timer' = timer /\ wall' = wall + 1 /\ range' = None
      /\ disk.timer # None => SaneOnDisk(disk.timer, wall) /\ WithinPreset(disk.timer, wall)
      /\ WithinPreset(timer, wall)
  BY DEF BookingIInv, Bounded, TrackerIInv, TickDown, store, Sane, TypeOK
<1>2. Bounded'
  BY <1>a, PresetLater, BookedPrimed
<1>3. ASSUME ~diverged PROVE AllBooked'
  <2>1. Booked(sessions \cup disk.sessions, timer, disk.timer, range, wall, pc)
    BY <1>3 DEF BookingIInv, AllBooked
  <2>2. Booked(sessions \cup disk.sessions, timer, disk.timer, None, wall + 1, pc)
    BY <1>a, <2>1, TickBooks
  <2> QED  BY <1>a, <2>2, BookedPrimed
<1> QED  BY <1>a, <1>1, <1>2, <1>3 DEF BookingIInv

(* A command that hands a range over leaves no block in progress.          *)
LEMMA HandedIsOver ==
    ASSUME TypeOK, Command, range' # None
    PROVE  timer'.phase \notin StudyPhases
<1>a. timer \in TimerState
  BY DEF TypeOK
<1>1. ASSUME Emit(None) PROVE FALSE
  BY <1>1 DEF Emit
<1>2. CASE Start
  BY <1>1, <1>2 DEF Start
<1>3. CASE Pause \/ Resume \/ Reset \/ \E m \in Modes : SetMode(m)
  BY <1>1, <1>3 DEF Pause, Resume, Reset, SetMode
<1>4. CASE CompleteManually
  <2>1. timer' = ResetToIdle(timer)
    BY <1>4 DEF CompleteManually
  <2> QED  BY <2>1, <1>a, ResetToIdleType DEF StudyPhases
<1>5. CASE ObserveTime
  <2>1. timer' = ResetToIdle(timer) \/ \E start : timer' = StartBreak(timer, start)
    BY <1>5 DEF ObserveTime
  <2>2. \A start : StartBreak(timer, start).phase = "Break"
    BY <1>a DEF StartBreak, TimerState
  <2> QED  BY <2>1, <2>2, <1>a, ResetToIdleType DEF StudyPhases
<1> QED  BY <1>2, <1>3, <1>4, <1>5 DEF Command

LEMMA WorkedIsBlock ==
    /\ WorkedTicks = BlockOf(timer, wall) /\ WorkedTicks' = BlockOf(timer', wall')
    /\ \A r : RangeInstants(r) = HeldBy(r, wall)
<1>1. WorkedTicks = BlockOf(timer, wall)
  BY DEF WorkedTicks, BlockOf
<1>2. WorkedTicks' = BlockOf(timer', wall')
  BY DEF WorkedTicks, BlockOf
<1> QED  BY <1>1, <1>2 DEF RangeInstants, HeldBy

(* The snapshot a live command writes covers what its timer does.          *)
LEMMA SnapshotBlock ==
    ASSUME NEW t \in TimerState, NEW alive, NEW now, NEW s, s = Snapshot(t, alive)
    PROVE  BlockOf(s, now) = BlockOf(t, now)
<1>1. s = [t EXCEPT !.remaining_seconds = DisplaySeconds(t),
                    !.last_alive_at = alive, !.anchor = None]
  BY DEF Snapshot
<1>2. s.phase = t.phase /\ s.active_segments = t.active_segments
  BY <1>1 DEF TimerState
<1> QED  BY <1>2 DEF BlockOf

LEMMA CommandBooks ==
    ASSUME BookingIInv, TrackerIInv', Command, NEW alive \in Nat, alive <= wall,
           Apply(TRUE, alive)
    PROVE  BookingIInv'
<1>a. /\ TrackerIInv /\ Sane /\ TypeOK /\ pc = "ready" /\ wall \in Nat /\ mono \in Nat
      /\ sessions' = sessions
      /\ PersistTimer(alive) /\ (pc' = IF range' = None THEN "ready" ELSE "routing")
      /\ disk = [timer |-> disk.timer, sessions |-> disk.sessions] /\ failures \in Nat
      /\ WithinPreset(timer, wall)
      /\ disk.timer # None => WithinPreset(disk.timer, wall)
  BY DEF BookingIInv, Bounded, TrackerIInv, Apply, Sane, TypeOK
<1>b. /\ wall' = wall /\ WorkedTicks' \subseteq WorkedTicks
      /\ RangeInstants(range') \subseteq WorkedTicks
  BY <1>a, CommandsWorkNothing
<1>c. /\ timer' \in TimerState /\ HasDeadline(timer') /\ (timer'.phase = "Idle" => ~timer'.running)
  BY DEF TrackerIInv, Sane, TypeOK, DeadlineSync, HasDeadline, SegmentsWellFormed
<1>1. WithinPreset(timer', wall)
  BY <1>a, CommandWithinPreset
<1>2. PICK t \in TimerState : t = timer'
  BY <1>c
<1>3. PICK s : s = Snapshot(t, alive)
  OBVIOUS
<1>4. WithinPreset(s, wall) /\ BlockOf(s, wall) = BlockOf(t, wall)
  BY <1>a, <1>c, <1>1, <1>2, <1>3, SnapshotWithinPreset, SnapshotBlock
<1>5. /\ Write("timer", s)
      /\ diverged' = (diverged \/ failures' # failures)
  BY <1>a, <1>2, <1>3 DEF PersistTimer
<1>6. \/ disk' = disk /\ failures' = failures + 1
      \/ disk'.timer = s /\ disk'.sessions = disk.sessions
  <2>1. PICK f, g : f = disk.timer /\ g = disk.sessions
    OBVIOUS
  <2>2. disk = [timer |-> f, sessions |-> g]
    BY <1>a, <2>1
  <2>3. CASE disk' = [disk EXCEPT !["timer"] = s]
    <3>1. disk' = [timer |-> s, sessions |-> g]
      BY <2>2, <2>3
    <3> QED  BY <3>1, <2>1
  <2> QED  BY <1>5, <2>3 DEF Write
<1>7. Bounded'
  BY <1>1, <1>4, <1>6, <1>a, <1>b, BookedPrimed
<1>8. ASSUME ~diverged' PROVE AllBooked'
  <2>1. ~diverged /\ disk'.timer = s /\ disk'.sessions = disk.sessions
    <3>1. ~diverged /\ failures' = failures
      BY <1>5, <1>8
    <3>2. failures' # failures + 1
      BY <3>1, <1>a
    <3> QED  BY <3>1, <3>2, <1>6
  <2>2. PICK S : S = sessions \cup disk.sessions
    OBVIOUS
  <2>3. Booked(S, timer, disk.timer, range, wall, pc)
    BY <2>1, <2>2 DEF BookingIInv, AllBooked
  <2>4. InThePast(S, wall) /\ BookedOnce(S) /\ Unbooked(S, BlockOf(timer, wall))
    BY <2>3 DEF Booked
  <2>5. PICK r : r = range'
    OBVIOUS
  <2>6. BlockOf(t, wall) \subseteq BlockOf(timer, wall) /\ HeldBy(r, wall) \subseteq BlockOf(timer, wall)
    BY <1>2, <1>b, <2>5, WorkedIsBlock
  <2>7. Unbooked(S, BlockOf(t, wall)) /\ BookedAs(S, HeldBy(r, wall), r)
    BY <2>4, <2>6 DEF Unbooked, BookedAs
  <2>8. BookedAs(S, FileBlock(s, wall), RecoveredRange(s, wall))
    <3>1. FileBlock(s, wall) \subseteq BlockOf(timer, wall)
      BY <1>4, <2>6 DEF FileBlock
    <3> QED  BY <3>1, <2>4 DEF Unbooked, BookedAs
  <2>9. ASSUME r # None PROVE BlockOf(t, wall) = {} /\ FileBlock(s, wall) = {}
    <3>1. t.phase \notin StudyPhases
      BY <1>2, <1>a, <2>5, <2>9, HandedIsOver
    <3>2. BlockOf(t, wall) = {}
      BY <3>1 DEF BlockOf
    <3> QED  BY <3>2, <1>4 DEF FileBlock
  <2>10. PICK at : at = IF r = None THEN "ready" ELSE "routing"
    OBVIOUS
  <2>11. Booked(S, t, s, r, wall, at)
    BY <2>4, <2>7, <2>8, <2>9, <2>10 DEF Booked
  <2>12. pc' = at
    BY <1>a, <2>5, <2>10
  <2>13. Booked(sessions' \cup disk'.sessions, timer', disk'.timer, range', wall', pc')
    BY <1>2, <1>a, <1>b, <2>1, <2>2, <2>5, <2>11, <2>12
  <2> QED  BY <2>13, BookedPrimed
<1> QED  BY <1>7, <1>8 DEF BookingIInv

LEMMA LiveCommandBooks ==
    ASSUME BookingIInv, AppStart \/ AppPause \/ AppResume \/ AppComplete \/ AppRefresh \/ AppReset
    PROVE  BookingIInv'
<1>a. /\ TrackerIInv /\ wall \in Nat /\ mono \in Nat /\ mono <= wall /\ wall <= wall
  BY DEF BookingIInv, TrackerIInv, Sane, TypeOK
<1>1. TrackerIInv'
  BY <1>a, LiveCommandKeeps
<1>2. CASE AppStart \/ AppPause \/ AppResume \/ AppComplete \/ AppRefresh
  <2>1. Command /\ Apply(TRUE, wall)
    BY <1>2 DEF Command, Apply, AppStart, AppPause, AppResume, AppComplete, AppRefresh
  <2> QED  BY <2>1, <1>1, <1>a, CommandBooks
<1>3. CASE AppReset
  <2>1. Command /\ Apply(TRUE, wall - mono)
    BY <1>3 DEF Command, Apply, AppReset
  <2>2. PICK alive \in Nat : alive = wall - mono /\ alive <= wall
    BY <1>a
  <2>3. Apply(TRUE, alive)
    BY <2>1, <2>2
  <2> QED  BY <2>1, <2>2, <2>3, <1>1, CommandBooks
<1> QED  BY <1>2, <1>3

LEMMA SetModeBooks ==
    ASSUME BookingIInv, NEW c \in Configs, AppSetMode(c)
    PROVE  BookingIInv'
<1>1. TrackerIInv'
  BY SetModeKeeps DEF BookingIInv
<1>a. /\ disk' = disk /\ sessions' = sessions /\ pc' = pc /\ diverged' = diverged /\ pc = "ready"
      /\ timer' = NewTimer(c) /\ wall' = wall /\ range' = None
      /\ disk.timer # None => WithinPreset(disk.timer, wall)
  BY DEF BookingIInv, Bounded, AppSetMode, store, history
<1>2. WithinPreset(NewTimer(c), wall)
  <2>1. c \in TimerConfig /\ c.study_seconds <= AbandonAfter /\ c.exam_seconds <= AbandonAfter
    BY TrackerAssumption, TimerAssumption
  <2> QED  BY <2>1, FreshWithinPreset
<1>3. Bounded'
  BY <1>a, <1>2, BookedPrimed
<1>4. ASSUME ~diverged PROVE AllBooked'
  <2>1. Booked(sessions \cup disk.sessions, timer, disk.timer, range, wall, pc)
    BY <1>4 DEF BookingIInv, AllBooked
  <2>2. BlockOf(NewTimer(c), wall) = {} /\ HeldBy(None, wall) = {}
    BY DEF BlockOf, NewTimer, StudyPhases, HeldBy, IsStudyRange
  <2>3. Booked(sessions \cup disk.sessions, NewTimer(c), disk.timer, None, wall, pc)
    BY <2>1, <2>2, <1>a DEF Booked, Unbooked, BookedAs
  <2> QED  BY <1>a, <2>3, BookedPrimed
<1> QED  BY <1>a, <1>1, <1>3, <1>4 DEF BookingIInv

LEMMA CrashBooks == BookingIInv /\ Crash => BookingIInv'
<1> SUFFICES ASSUME BookingIInv, Crash PROVE BookingIInv'
  OBVIOUS
<1>1. TrackerIInv'
  BY CrashKeeps DEF BookingIInv
<1>a. /\ disk' = disk /\ sessions' = {} /\ pc' = "down" /\ diverged' = diverged
      /\ timer' = NewTimer(DefaultConfig) /\ wall' = wall /\ range' = None
      /\ disk.timer # None => WithinPreset(disk.timer, wall)
  BY DEF BookingIInv, Bounded, Crash, history
<1>2. WithinPreset(NewTimer(DefaultConfig), wall)
  <2>1. DefaultConfig \in TimerConfig /\ DefaultConfig.study_seconds <= AbandonAfter
        /\ DefaultConfig.exam_seconds <= AbandonAfter
    BY TrackerAssumption, TimerAssumption
  <2> QED  BY <2>1, FreshWithinPreset
<1>3. Bounded'
  BY <1>a, <1>2, BookedPrimed
<1>4. ASSUME ~diverged PROVE AllBooked'
  <2>1. Booked(sessions \cup disk.sessions, timer, disk.timer, range, wall, pc)
    BY <1>4 DEF BookingIInv, AllBooked
  <2>2. Booked({} \cup disk.sessions, timer, disk.timer, range, wall, pc)
    BY <2>1, BookedFacts
  <2>3. BlockOf(NewTimer(DefaultConfig), wall) = {} /\ HeldBy(None, wall) = {}
    BY DEF BlockOf, NewTimer, StudyPhases, HeldBy, IsStudyRange
  <2>4. Booked({} \cup disk.sessions, NewTimer(DefaultConfig), disk.timer, None, wall, "down")
    BY <2>2, <2>3, <1>a DEF Booked, Unbooked, BookedAs
  <2> QED  BY <1>a, <2>4, BookedPrimed
<1> QED  BY <1>a, <1>1, <1>3, <1>4 DEF BookingIInv
----------------------------------------------------------------------------
(* What add_study_sessions leaves, in memory and in the file: nothing but  *)
(* what was known and some of the range's sessions.                        *)
LEMMA InsertBooks ==
    ASSUME TypeOK, disk = [timer |-> disk.timer, sessions |-> disk.sessions], failures \in Nat,
           NEW known, Insert(known), disk.sessions \subseteq known,
           InThePast(known, wall), BookedOnce(known),
           BookedAs(known, HeldBy(range, wall), range)
    PROVE  /\ disk'.timer = disk.timer
           /\ InThePast(sessions' \cup disk'.sessions, wall)
           /\ BookedOnce(sessions' \cup disk'.sessions)
           /\ \A s \in sessions' \cup disk'.sessions :
                s \in known \/ s \in SessionsOf(range, wall, made)
<1>a. wall \in Nat /\ range \in SessionRange \cup {None}
  BY DEF TypeOK
<1>1. PICK new : new = NewSessions(known, SessionsOf(range, wall, made))
  OBVIOUS
<1>2. new \subseteq SessionsOf(range, wall, made)
  BY <1>1 DEF NewSessions
<1>3. sessions' = known \cup new
  BY <1>1 DEF Insert
<1>4. disk'.timer = disk.timer /\ disk'.sessions \subseteq sessions'
  BY InsertFacts
<1>5. sessions' \cup disk'.sessions = known \cup new
  BY <1>3, <1>4
<1>6. BookedOnce(known \cup new)
  BY <1>a, <1>2, InsertBooksOnce
<1>7. ASSUME NEW s \in new, NEW x \in s.instants PROVE x \in Int /\ x < wall
  <2>1. s.instants \subseteq HeldBy(range, wall)
    BY <1>a, <1>2, SessionsAreApart
  <2> QED  BY <1>a, <2>1, HeldIsPast
<1>8. InThePast(known \cup new, wall)
  BY <1>7 DEF InThePast
<1> QED  BY <1>2, <1>4, <1>5, <1>6, <1>8

(* The second write: of the range, which is in hand no longer.             *)
LEMMA RouteBooks == BookingIInv /\ Route => BookingIInv'
<1> SUFFICES ASSUME BookingIInv, Route PROVE BookingIInv'
  OBVIOUS
<1>1. TrackerIInv'
  BY RouteKeeps DEF BookingIInv
<1>a. /\ TypeOK /\ pc = "routing" /\ pc' = "ready" /\ Insert(sessions) /\ diverged' = diverged
      /\ timer' = timer /\ wall' = wall /\ range' = None
      /\ disk = [timer |-> disk.timer, sessions |-> disk.sessions] /\ failures \in Nat
      /\ disk.sessions \subseteq sessions
      /\ WithinPreset(timer, wall)
      /\ disk.timer # None => WithinPreset(disk.timer, wall)
  BY DEF BookingIInv, Bounded, TrackerIInv, Sane, FileIsKnown, Route, history
<1>2. disk'.timer = disk.timer
  BY <1>a, InsertFacts
<1>3. Bounded'
  BY <1>2, <1>a, BookedPrimed
<1>4. ASSUME ~diverged PROVE AllBooked'
  <2>1. Booked(sessions \cup disk.sessions, timer, disk.timer, range, wall, pc)
    BY <1>4 DEF BookingIInv, AllBooked
  <2>2. /\ InThePast(sessions, wall) /\ BookedOnce(sessions)
        /\ BookedAs(sessions, HeldBy(range, wall), range)
        /\ BlockOf(timer, wall) = {} /\ FileBlock(disk.timer, wall) = {}
    BY <2>1, <1>a DEF Booked, InThePast, BookedOnce, BookedAs
  <2>3. PICK S : S = sessions' \cup disk'.sessions
    OBVIOUS
  <2>4. InThePast(S, wall) /\ BookedOnce(S)
    BY <1>a, <2>2, <2>3, InsertBooks
  <2>5. HeldBy(None, wall) = {}
    BY DEF HeldBy, IsStudyRange
  <2>6. Booked(S, timer, disk.timer, None, wall, "ready")
    BY <2>2, <2>4, <2>5 DEF Booked, Unbooked, BookedAs
  <2>7. Booked(sessions' \cup disk'.sessions, timer', disk'.timer, range', wall', pc')
    BY <2>3, <2>6, <1>2, <1>a
  <2> QED  BY <2>7, BookedPrimed
<1> QED  BY <1>a, <1>1, <1>3, <1>4 DEF BookingIInv

(* A recovered block, booked at the start or found booked already.         *)
LEMMA LoadBooks == BookingIInv /\ LoadAcademic => BookingIInv'
<1> SUFFICES ASSUME BookingIInv, LoadAcademic PROVE BookingIInv'
  OBVIOUS
<1>1. TrackerIInv'
  BY LoadKeeps DEF BookingIInv
<1>a. /\ TypeOK /\ pc = "loading" /\ pc' = "ready" /\ Insert(disk.sessions)
      /\ diverged' = diverged /\ timer' = timer /\ wall' = wall /\ range' = None
      /\ disk = [timer |-> disk.timer, sessions |-> disk.sessions] /\ failures \in Nat
      /\ range \in SessionRange \cup {None}
      /\ WithinPreset(timer, wall)
      /\ disk.timer # None => WithinPreset(disk.timer, wall)
  BY DEF BookingIInv, Bounded, TrackerIInv, Sane, TypeOK, LoadAcademic, history
<1>2. disk'.timer = disk.timer
  BY <1>a, InsertFacts
<1>3. Bounded'
  BY <1>2, <1>a, BookedPrimed
<1>4. ASSUME ~diverged PROVE AllBooked'
  <2>1. Booked(sessions \cup disk.sessions, timer, disk.timer, range, wall, pc)
    BY <1>4 DEF BookingIInv, AllBooked
  <2>2. PICK K : K = disk.sessions
    OBVIOUS
  <2>3. Booked(K, timer, disk.timer, range, wall, "loading")
    BY <2>1, <2>2, <1>a, BookedFacts
  <2>4. /\ InThePast(K, wall) /\ BookedOnce(K) /\ BookedAs(K, HeldBy(range, wall), range)
        /\ Unbooked(K, BlockOf(timer, wall))
        /\ BookedAs(K, FileBlock(disk.timer, wall), RecoveredRange(disk.timer, wall))
        /\ range # None =>
             /\ range.reason = "AbandonedRecovery"
             /\ BlockOf(timer, wall) = {}
             /\ FileBlock(disk.timer, wall) = {} \/ RecoveredRange(disk.timer, wall) = range
    BY <2>3 DEF Booked
  <2>5. PICK S : S = sessions' \cup disk'.sessions
    OBVIOUS
  <2>6. /\ InThePast(S, wall) /\ BookedOnce(S)
        /\ \A s \in S : s \in K \/ s \in SessionsOf(range, wall, made)
    BY <1>a, <2>2, <2>4, <2>5, InsertBooks
  <2>7. \A s \in S : s \in K \/ (range # None /\ RecoveredFrom(range, s))
    <3>1. ASSUME NEW s \in SessionsOf(range, wall, made)
          PROVE  range # None /\ RecoveredFrom(range, s)
      <4>1. range # None
        BY <3>1 DEF SessionsOf, IsStudyRange
      <4> QED  BY <4>1, <1>a, <2>4, SessionsAreApart
    <3> QED  BY <2>6, <3>1
  <2>8. Unbooked(S, BlockOf(timer, wall))
    BY <2>4, <2>7 DEF Unbooked
  <2>9. BookedAs(S, FileBlock(disk.timer, wall), RecoveredRange(disk.timer, wall))
    BY <2>4, <2>7 DEF BookedAs
  <2>10. HeldBy(None, wall) = {}
    BY DEF HeldBy, IsStudyRange
  <2>11. Booked(S, timer, disk.timer, None, wall, "ready")
    BY <2>6, <2>8, <2>9, <2>10 DEF Booked, BookedAs
  <2>12. Booked(sessions' \cup disk'.sessions, timer', disk'.timer, range', wall', pc')
    BY <2>5, <2>11, <1>2, <1>a
  <2> QED  BY <2>12, BookedPrimed
<1> QED  BY <1>a, <1>1, <1>3, <1>4 DEF BookingIInv
----------------------------------------------------------------------------
LEMMA OwedIsBlock ==
    ASSUME NEW t, NEW now \in Nat, SaneOnDisk(t, now)
    PROVE  Owed(t, now) \subseteq BlockOf(t, now)
<1>a. /\ t \in TimerState /\ t.active_segments \in Seq(Segment)
      /\ t.last_alive_at \in Nat /\ t.last_alive_at <= now
  BY BlockTyped DEF SaneOnDisk
<1>1. TicksOf(t.active_segments, t.last_alive_at) \subseteq TicksOf(t.active_segments, now)
  BY <1>a, TicksGrow
<1>2. ASSUME RunningCountdown(t)
      PROVE  TicksOf(t.active_segments, CountedUntil(t, now)) \subseteq TicksOf(t.active_segments, now)
  <2>1. t.ends_at \in Nat
    BY <1>a, <1>2 DEF RunningCountdown, TimerState
  <2>2. CountedUntil(t, now) \in Nat /\ CountedUntil(t, now) <= now
    BY <2>1 DEF CountedUntil
  <2> QED  BY <1>a, <2>2, TicksGrow
<1> QED  BY <1>1, <1>2 DEF Owed, BlockOf

(* A start with a timer section, whether or not it is written back.        *)
LEMMA RestoreBooks == BookingIInv /\ Restart /\ disk.timer # None => BookingIInv'
<1> SUFFICES ASSUME BookingIInv, Restart, disk.timer # None PROVE BookingIInv'
  OBVIOUS
<1>1. TrackerIInv'
  BY RestoreKeeps DEF BookingIInv
<1>a. /\ TypeOK /\ wall \in Nat /\ mono \in Nat /\ pc = "down" /\ pc' = "loading"
      /\ sessions' = sessions /\ wall' = wall /\ diverged' = diverged
      /\ disk = [timer |-> disk.timer, sessions |-> disk.sessions] /\ failures \in Nat
      /\ SaneOnDisk(disk.timer, wall) /\ WithinPreset(disk.timer, wall)
  BY DEF BookingIInv, Bounded, TrackerIInv, Sane, TypeOK, Restart
<1>b. PICK old : old = disk.timer
  OBVIOUS
<1>c. PICK o : o = RestoreTimer(old, wall)
  OBVIOUS
<1>2. timer' = o.timer /\ Emit(o.range) /\ Write("timer", Snapshot(o.timer, wall))
  BY <1>b, <1>c DEF Restart
<1>3. range' = o.range
  BY <1>2 DEF Emit
<1>4. RestoredFine(o, old)
  BY <1>a, <1>b, <1>c, RestoredIsFine
<1>5. /\ o.timer \in TimerState /\ WellFormedAt(o.timer, wall) /\ HasDeadline(o.timer)
      /\ o.timer.phase \in StudyPhases =>
           TicksOf(o.timer.active_segments, wall) \subseteq Owed(old, wall)
      /\ RangeInstants(o.range) \subseteq Owed(old, wall)
  BY <1>4 DEF RestoredFine
<1>6. PICK t \in TimerState : t = o.timer
  BY <1>5
<1>7. PICK r : r = o.range
  OBVIOUS
<1>8. PICK s : s = Snapshot(t, wall)
  OBVIOUS
<1>9. WithinPreset(t, wall) /\ WithinPreset(s, wall) /\ BlockOf(s, wall) = BlockOf(t, wall)
  <2>1. WithinPreset(t, wall)
    BY <1>a, <1>b, <1>c, <1>6, RestoredWithinPreset
  <2>2. HasDeadline(t) /\ (t.phase = "Idle" => ~t.running)
    BY <1>5, <1>6 DEF WellFormedAt
  <2> QED  BY <1>a, <1>8, <2>1, <2>2, SnapshotWithinPreset, SnapshotBlock
<1>10. /\ disk'.sessions = disk.sessions
       /\ disk'.timer = old \/ disk'.timer = s
  <2>1. Write("timer", s)
    BY <1>2, <1>6, <1>8
  <2>2. \/ disk' = disk
        \/ disk'.timer = s /\ disk'.sessions = disk.sessions
    BY <2>1, <1>a, WriteFacts
  <2> QED  BY <2>2, <1>b
<1>11. Bounded'
  BY <1>a, <1>b, <1>2, <1>6, <1>9, <1>10, BookedPrimed
<1>12. ASSUME ~diverged PROVE AllBooked'
  <2>1. PICK S : S = sessions \cup disk.sessions
    OBVIOUS
  <2>2. Booked(S, timer, old, range, wall, pc)
    BY <1>b, <1>12, <2>1 DEF BookingIInv, AllBooked
  <2>3. RecoveredRange(old, wall) = r
    BY <1>b, <1>c, <1>7 DEF RecoveredRange
  <2>4. /\ InThePast(S, wall) /\ BookedOnce(S)
        /\ BookedAs(S, FileBlock(old, wall), r)
    BY <2>2, <2>3 DEF Booked
  <2>5. Owed(old, wall) \subseteq FileBlock(old, wall)
    BY <1>a, <1>b, OwedIsBlock DEF FileBlock
  <2>6. BlockOf(t, wall) \subseteq FileBlock(old, wall)
    BY <1>5, <1>6, <2>5 DEF BlockOf
  <2>7. HeldBy(r, wall) \subseteq FileBlock(old, wall)
    <3>1. HeldBy(r, wall) = RangeInstants(r)
      BY DEF HeldBy, RangeInstants
    <3> QED  BY <3>1, <1>5, <1>7, <2>5
  <2>8. BookedAs(S, HeldBy(r, wall), r)
    BY <2>4, <2>7 DEF BookedAs
  <2>9. ASSUME r # None PROVE r.reason = "AbandonedRecovery" /\ BlockOf(t, wall) = {}
    <3>1. r.reason = "AbandonedRecovery" /\ t.phase = "Idle"
      BY <1>a, <1>b, <1>c, <1>6, <1>7, <2>9, RecoveredIsIdle
    <3> QED  BY <3>1 DEF BlockOf, StudyPhases
  <2>10. r = None => Unbooked(S, FileBlock(old, wall))
    BY <2>4 DEF BookedAs, Unbooked, RecoveredFrom
  <2>11. Unbooked(S, BlockOf(t, wall))
    BY <2>6, <2>9, <2>10 DEF Unbooked
  <2>12. FileBlock(s, wall) \subseteq BlockOf(t, wall)
    BY <1>9 DEF FileBlock
  <2>13. ASSUME NEW d, d = old \/ d = s PROVE Booked(S, t, d, r, wall, "loading")
    <3>1. BookedAs(S, FileBlock(d, wall), RecoveredRange(d, wall))
      <4>1. CASE d = old
        BY <4>1, <2>3, <2>4
      <4>2. CASE d = s
        BY <4>2, <2>11, <2>12 DEF BookedAs, Unbooked
      <4> QED  BY <2>13, <4>1, <4>2
    <3>2. r # None => /\ r.reason = "AbandonedRecovery"
                      /\ BlockOf(t, wall) = {}
                      /\ FileBlock(d, wall) = {} \/ RecoveredRange(d, wall) = r
      BY <2>3, <2>9, <2>12, <2>13
    <3> QED  BY <2>4, <2>8, <2>11, <3>1, <3>2 DEF Booked
  <2>14. PICK d : d = disk'.timer
    OBVIOUS
  <2>15. Booked(S, t, d, r, wall, "loading")
    BY <2>13, <2>14, <1>10
  <2>16. Booked(sessions' \cup disk'.sessions, timer', disk'.timer, range', wall', pc')
    BY <2>1, <2>14, <2>15, <1>2, <1>3, <1>6, <1>7, <1>10, <1>a
  <2> QED  BY <2>16, BookedPrimed
<1> QED  BY <1>a, <1>1, <1>11, <1>12 DEF BookingIInv

LEMMA FreshStartBooks == BookingIInv /\ Restart /\ disk.timer = None => BookingIInv'
<1> SUFFICES ASSUME BookingIInv, Restart, disk.timer = None PROVE BookingIInv'
  OBVIOUS
<1>1. TrackerIInv'
  BY FreshStartKeeps DEF BookingIInv
<1>a. /\ disk' = disk /\ sessions' = sessions /\ pc' = "loading" /\ diverged' = diverged
      /\ timer' = NewTimer(DefaultConfig) /\ wall' = wall /\ range' = None
  BY DEF Restart, Emit
<1>2. WithinPreset(NewTimer(DefaultConfig), wall)
  <2>1. DefaultConfig \in TimerConfig /\ DefaultConfig.study_seconds <= AbandonAfter
        /\ DefaultConfig.exam_seconds <= AbandonAfter
    BY TrackerAssumption, TimerAssumption
  <2> QED  BY <2>1, FreshWithinPreset
<1>3. Bounded'
  BY <1>a, <1>2, BookedPrimed
<1>4. ASSUME ~diverged PROVE AllBooked'
  <2>1. Booked(sessions \cup disk.sessions, timer, disk.timer, range, wall, pc)
    BY <1>4 DEF BookingIInv, AllBooked
  <2>2. BlockOf(NewTimer(DefaultConfig), wall) = {} /\ HeldBy(None, wall) = {}
    BY DEF BlockOf, NewTimer, StudyPhases, HeldBy, IsStudyRange
  <2>3. Booked(sessions \cup disk.sessions, NewTimer(DefaultConfig), disk.timer, None, wall, "loading")
    BY <2>1, <2>2 DEF Booked, Unbooked, BookedAs
  <2> QED  BY <1>a, <2>3, BookedPrimed
<1> QED  BY <1>a, <1>1, <1>3, <1>4 DEF BookingIInv

LEMMA StillBooks == BookingIInv /\ UNCHANGED allVars => BookingIInv'
<1> SUFFICES ASSUME BookingIInv, UNCHANGED allVars PROVE BookingIInv'
  OBVIOUS
<1>1. TrackerIInv'
  BY StillKeeps DEF BookingIInv
<1>2. /\ timer' = timer /\ wall' = wall /\ range' = range /\ sessions' = sessions
      /\ disk' = disk /\ pc' = pc /\ diverged' = diverged
  BY DEF allVars
<1>3. Bounded' <=> Bounded
  BY <1>2, BookedPrimed DEF Bounded
<1>4. AllBooked' <=> AllBooked
  BY <1>2, BookedPrimed DEF AllBooked
<1> QED  BY <1>1, <1>2, <1>3, <1>4 DEF BookingIInv

LEMMA StepBookingIInv == BookingIInv /\ [TrackerNext]_allVars => BookingIInv'
<1> SUFFICES ASSUME BookingIInv, [TrackerNext]_allVars PROVE BookingIInv'
  OBVIOUS
<1>1. CASE TickUp
  BY <1>1, TickUpBooks
<1>2. CASE TickDown
  BY <1>2, TickDownBooks
<1>3. CASE Live
  <2>1. CASE AppStart \/ AppPause \/ AppResume \/ AppComplete \/ AppRefresh \/ AppReset
    BY <2>1, LiveCommandBooks
  <2>2. CASE \E c \in Configs : AppSetMode(c)
    BY <2>2, SetModeBooks
  <2>3. CASE Route
    BY <2>3, RouteBooks
  <2> QED  BY <1>3, <2>1, <2>2, <2>3 DEF Live
<1>4. CASE Crash
  BY <1>4, CrashBooks
<1>5. CASE Restart
  BY <1>5, RestoreBooks, FreshStartBooks
<1>6. CASE LoadAcademic
  BY <1>6, LoadBooks
<1>7. CASE UNCHANGED allVars
  BY <1>7, StillBooks
<1> QED  BY <1>1, <1>2, <1>3, <1>4, <1>5, <1>6, <1>7 DEF TrackerNext

(* No instant of study time is in two sessions, in memory or in the file,  *)
(* whenever the process dies and however often the same block is recovered *)
(* from the file: as long as no live command's write has failed.           *)
THEOREM InstantsAreBookedOnce == TrackerSpec => []NoInstantInTwoSessions
<1>1. BookingIInv => NoInstantInTwoSessions
  <2> SUFFICES ASSUME BookingIInv, ~diverged,
                      NEW s \in sessions \cup disk.sessions,
                      NEW t \in sessions \cup disk.sessions, s.id # t.id
               PROVE  s.instants \cap t.instants = {}
    BY DEF NoInstantInTwoSessions
  <2>1. BookedOnce(sessions \cup disk.sessions)
    BY DEF BookingIInv, AllBooked, Booked
  <2> QED  BY <2>1 DEF BookedOnce
<1> QED  BY <1>1, BookingStarts, StepBookingIInv, PTL DEF TrackerSpec
=============================================================================
