------------------------- MODULE SessionSplitCheck -------------------------
(***************************************************************************)
(* The daily split against its reference definition, over every block of   *)
(* up to MaxSegments closed segments before instant Horizon: a block grows *)
(* one segment at a time, as pauses and resumes make it.                   *)
(***************************************************************************)
EXTENDS SessionSplit, FiniteSets

CONSTANTS Horizon, MaxSegments

VARIABLE segs

SplitInit == segs = <<>>

(* The student resumes at `s` and pauses at `e`, perhaps at once.          *)
Grow ==
    /\ Len(segs) < MaxSegments
    /\ \E s \in 0..Horizon, e \in 0..Horizon :
         /\ s <= e
         /\ segs # <<>> => Last(segs).ended_at <= s
         /\ segs' = Append(segs, [started_at |-> s, ended_at |-> e])

SplitNext == Grow
SplitSpec == SplitInit /\ [][SplitNext]_segs
----------------------------------------------------------------------------
Instants(block) ==
    UNION {block[i].started_at..(block[i].ended_at - 1) : i \in DOMAIN block}
On(block, day) == {t \in Instants(block) : LocalDay(t) = day}

(* What a session of that day should say, straight from the instants: from *)
(* the first one worked, to the end of the last, and how many there were.  *)
Reference(block, day) ==
    LET worked == On(block, day)
        last == CHOOSE t \in worked : \A u \in worked : u <= t
    IN  [day |-> day,
         start |-> CHOOSE t \in worked : \A u \in worked : t <= u,
         end |-> IF LocalDay(last + 1) = day THEN last + 1 ELSE last,
         active |-> Cardinality(worked)]

(* The buckets are the reference sessions of the days worked on: each day  *)
(* once, all of its work and nothing of a pause or of another day, however *)
(* segments and midnights fall (split_segments_into_daily_sessions).       *)
SplitIsExact ==
    LET days == {LocalDay(t) : t \in Instants(segs)}
    IN  /\ Len(Buckets(segs)) = Cardinality(days)
        /\ ToSet(Buckets(segs)) = {Reference(segs, d) : d \in days}

(* A block that goes on leaves the sessions of the days before as they     *)
(* were: recovered_session_id, made of a bucket's start and end, gives a   *)
(* completed day the same id whenever the block is recovered.              *)
EarlierDaysSettled ==
    [][\A i \in DOMAIN Buckets(segs) :
         LocalDay(Last(segs').started_at) > Buckets(segs)[i].day
            => Buckets(segs')[i] = Buckets(segs)[i]]_segs
=============================================================================
