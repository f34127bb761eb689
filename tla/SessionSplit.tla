---------------------------- MODULE SessionSplit ----------------------------
(***************************************************************************)
(* How a block of segments becomes study sessions, one per local calendar  *)
(* day (session_service.rs): pure operators.                               *)
(*                                                                         *)
(* Abstracted: the context fields and the preset label every session       *)
(* copies, and the rounding of the active time to minutes.                 *)
(***************************************************************************)
EXTENDS Integers, Sequences, SequencesExt

CONSTANTS
    DayLength,  \* instants of a calendar day
    LocalOffset \* the fixed local offset from UTC

ASSUME SplitAssumption == DayLength \in Nat \ {0} /\ LocalOffset \in Int

(* local_date_key and next_local_midnight_millis.                          *)
LocalDay(t) == (t + LocalOffset) \div DayLength

\* slip: midnight is taken in UTC
NextUtcMidnight(t) == (t \div DayLength + 1) * DayLength

NextLocalMidnight(t) == (LocalDay(t) + 1) * DayLength - LocalOffset

(* A piece that reaches midnight is reported to end just before it.        *)
BucketEnd(p) == IF p.end = NextLocalMidnight(p.start) THEN p.end - 1 ELSE p.end

\* slip: every piece goes to the bucket of the piece before it
AddPieceToLast(buckets, p) ==
    IF buckets = <<>>
    THEN <<[day |-> LocalDay(p.start), start |-> p.start,
            end |-> BucketEnd(p), active |-> p.end - p.start]>>
    ELSE [buckets EXCEPT ![Len(buckets)].end = BucketEnd(p),
                         ![Len(buckets)].active = @ + (p.end - p.start)]

(* Pieces of one day share a bucket: its span grows, and its active time   *)
(* is the sum of the pieces, never the span.                               *)
AddPiece(buckets, p) ==
    LET same == {i \in DOMAIN buckets : buckets[i].day = LocalDay(p.start)}
    IN  IF same = {}
        THEN Append(buckets, [day |-> LocalDay(p.start), start |-> p.start,
                              end |-> BucketEnd(p), active |-> p.end - p.start])
        ELSE [i \in DOMAIN buckets |->
                IF i \in same
                THEN [buckets[i] EXCEPT !.end = BucketEnd(p),
                                        !.active = @ + (p.end - p.start)]
                ELSE buckets[i]]

(* One segment, cut at local midnights: the cursor goes from its start to  *)
(* its end, a piece at a turn, so in at most as many turns as it is long.  *)
AddSegment(buckets, start, end) ==
    LET PieceAt(cursor) ==
            LET midnight == NextLocalMidnight(cursor)
            IN  [start |-> cursor, end |-> IF end <= midnight THEN end ELSE midnight]
        after[turn \in 0..(end - start)] ==
            IF turn = 0 THEN [cursor |-> start, buckets |-> buckets]
            ELSE LET last == after[turn - 1]
                     p == PieceAt(last.cursor)
                 IN  IF last.cursor >= end THEN last
                     ELSE [cursor |-> p.end, buckets |-> AddPiece(last.buckets, p)]
    IN  IF end <= start THEN buckets ELSE after[end - start].buckets

(* split_segments_into_daily_sessions, up to the ids and copied fields.    *)
Buckets(segs) ==
    LET after[n \in 0..Len(segs)] ==
            IF n = 0 THEN <<>>
            ELSE AddSegment(after[n - 1], segs[n].started_at, segs[n].ended_at)
    IN  after[Len(segs)]
=============================================================================
