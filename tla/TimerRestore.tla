---------------------------- MODULE TimerRestore ----------------------------
(***************************************************************************)
(* What restore_timer (timer/persistence.rs) makes of a persisted          *)
(* TimerSnapshot when the process starts again: pure operators, used by    *)
(* module StudyTracker.  A snapshot is a TimerState without its runtime    *)
(* anchor.                                                                 *)
(*                                                                         *)
(* Abstracted: recovered_keys, which AppTimer::restore always passes empty *)
(* (a key is empty exactly when there is no closed segment, where RangeOf  *)
(* gives no range either); the repair of a snapshot without last_alive_at, *)
(* which only an imported backup can be: snapshot_for_persistence always   *)
(* sets it.                                                                *)
(***************************************************************************)
EXTENDS Timer

CONSTANTS
    AliveGap,       \* TIMER_ALIVE_GAP_SECONDS
    AbandonAfter    \* ABANDONED_TIMER_INACTIVITY_SECONDS

ASSUME RestoreAssumption == AliveGap \in Nat /\ AbandonAfter \in Nat

(* snapshot_for_persistence, of a timer at `alive` on the wall clock.      *)
Snapshot(t, alive) ==
    [t EXCEPT !.remaining_seconds = DisplaySeconds(t),
              !.last_alive_at = alive,
              !.anchor = None]

(* normalize_segments: a segment that ends before it starts is dropped.    *)
NormalizeSegments(segs) ==
    LET kept[n \in 0..Len(segs)] ==
            IF n = 0 THEN <<>>
            ELSE IF IsOpen(segs[n]) \/ segs[n].ended_at >= segs[n].started_at
                 THEN Append(kept[n - 1], segs[n]) ELSE kept[n - 1]
    IN  kept[Len(segs)]

FromSnapshot(s) == [s EXCEPT !.active_segments = NormalizeSegments(@)]

RunningCountdown(t) ==
    t.running /\ t.ends_at # None /\ t.phase \in {"Study", "Exam"}

(* It ran out while nobody looked.                                         *)
RanOut(t, now) == RunningCountdown(t) /\ t.ends_at <= now

(* The last persisted sign of life is too long ago to trust the deadline.  *)
IsStale(t, now) ==
    t.last_alive_at # None /\ SegmentSeconds(t.last_alive_at, now) > AliveGap

Held(t) == [t EXCEPT !.running = FALSE, !.ends_at = None]

\* slip: the open segment is closed at the time of the restart
ClosedNow(t) == CloseOpenSegments(t.active_segments, wall)

(* close_stale_open_segments: the first open segment, and there is at most *)
(* one, ends at the last sign of life.                                     *)
CloseStaleOpenSegments(t) ==
    [i \in DOMAIN t.active_segments |->
        LET s == t.active_segments[i]
        IN  IF IsOpen(s) /\ \A j \in 1..(i - 1) : ~IsOpen(t.active_segments[j])
            THEN [s EXCEPT !.ended_at = Greater(t.last_alive_at, s.started_at)]
            ELSE s]

Repaired(t) == [t EXCEPT !.active_segments = CloseStaleOpenSegments(t)]

(* A stopwatch comes back paused at what its segments add up to.           *)
RestoredStopwatch(t) ==
    LET r == Repaired(Held(t))
    IN  [r EXCEPT !.remaining_seconds = SumSeconds(ClosedSegments(r.active_segments), 0)]

(* last_timer_activity, of a timer with at least one segment or a start.   *)
ActivityTimes(t) ==
    {EndOr(s, s.started_at) : s \in Elements(t.active_segments)}
        \cup ({t.started_at} \ {None})

Abandoned(t, now) ==
    LET times == ActivityTimes(t)
    IN  times # {} /\ \A at \in times : SegmentSeconds(at, now) > AbandonAfter

Outcome(t, r) == [timer |-> t, range |-> r]

Recovered(t, segs) ==
    Outcome(ResetToIdle(t), RangeOf(t.phase, "AbandonedRecovery", ClosedSegments(segs)))

(* restore_timer, its returns in the order of the code.                    *)
RestoreTimer(snapshot, now) ==
    LET t == FromSnapshot(snapshot)
        paused == Repaired(Held(t))
    IN  CASE RanOut(t, now) ->
               Recovered(t, CloseOpenSegments(t.active_segments, t.ends_at))
          [] RunningCountdown(t) /\ ~RanOut(t, now) /\ ~IsStale(t, now) ->
               Outcome([t EXCEPT !.remaining_seconds = SecondsUntil(t.ends_at, now)], None)
          [] t.phase = "Idle" ->
               Outcome(Held(t), None)
          [] t.phase = "Break" /\ t.running /\ t.ends_at # None ->
               Outcome(t, None)
          [] t.phase = "Stopwatch" ->
               Outcome(RestoredStopwatch(t), None)
          [] OTHER ->
               IF Abandoned(paused, now) THEN Recovered(paused, paused.active_segments)
               ELSE Outcome(paused, None)
=============================================================================
