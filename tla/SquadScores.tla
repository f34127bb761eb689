---------------------------- MODULE SquadScores ----------------------------
(***************************************************************************)
(* How the score of a completed day follows the minutes credited to its    *)
(* members.  The score is computed from the view competitive_daily_stats:  *)
(* the minutes a migration took over, those of verified sessions, and half *)
(* of those claimed offline.  What queues a day to be scored again is      *)
(* another table: a sync compares the daily_stats it is sent with the      *)
(* stored ones, and queues the day when they differ.  The nightly job      *)
(* scores the queued days and those with credit and no score.  One day,    *)
(* older than yesterday, and one student; 0 minutes is no row.             *)
(***************************************************************************)
EXTENDS Integers

CONSTANTS
    MaxMinutes,    \* bound: the minutes of a day
    ScoreSlots,    \* the calls the Worker can be handling at once
    MaxScoreCalls, \* bound: the calls made
    MaxScoreFaults \* bound: statements that fail

ASSUME ScoreAssumption ==
    MaxMinutes \in Nat /\ MaxScoreCalls \in Nat /\ MaxScoreFaults \in Nat

NoScore == -1

VARIABLES
    stats,      \* daily_stats of the day
    baseline,   \* leaderboard_daily_baselines of the day
    live,       \* verified_daily_stats of the day
    claimed,    \* verified_daily_stats_offline of the day
    scored,     \* squad_daily_scores of the day
    job,        \* whether squad_score_jobs has the day
    scoreCalls, scoreMade, scoreFaults,
    announced,  \* ghost: the minutes when the day was last scored or announced
    mixed       \* ghost: two calls overlapped

scoreTables == <<stats, baseline, live, claimed, scored, job>>
scoreGhosts == <<scoreMade, scoreFaults, mixed>>
scoreVars == <<scoreTables, scoreCalls, announced, scoreGhosts>>
----------------------------------------------------------------------------
ScoreCall(op, minutes) ==
    [op |-> op, minutes |-> minutes, at |-> "read", seen |-> 0, queued |-> FALSE]
NoScoreCall == [op |-> "none", at |-> "idle"]

(* competitive_daily_stats                                                 *)
Competitive == baseline + live + claimed \div 2
HasRow == baseline # 0 \/ live # 0 \/ claimed # 0

(* The migration took the baseline from daily_stats.                       *)
ScoreInit ==
    /\ baseline \in 0..MaxMinutes /\ stats = baseline
    /\ live = 0 /\ claimed = 0
    /\ scored = NoScore /\ job = FALSE /\ announced = NoScore
    /\ scoreCalls = [i \in ScoreSlots |-> NoScoreCall]
    /\ scoreMade = 0 /\ scoreFaults = 0 /\ mixed = FALSE

ScoreQuiet == \A i \in ScoreSlots : scoreCalls[i].at = "idle"
ScoreAt(i, op, place) == scoreCalls[i].op = op /\ scoreCalls[i].at = place
ScoreGo(i, place) == scoreCalls' = [scoreCalls EXCEPT ![i].at = place]
ScoreEnd(i) == scoreCalls' = [scoreCalls EXCEPT ![i] = NoScoreCall]

ScoreReceive(i, op, minutes) ==
    /\ scoreCalls[i].at = "idle" /\ scoreMade < MaxScoreCalls
    /\ op = "night" => \A j \in ScoreSlots : scoreCalls[j].op # "night"
    /\ scoreCalls' = [scoreCalls EXCEPT ![i] = ScoreCall(op, minutes)]
    /\ scoreMade' = scoreMade + 1
    /\ mixed' = (mixed \/ ~ScoreQuiet)
    /\ UNCHANGED <<scoreTables, announced, scoreFaults>>
----------------------------------------------------------------------------
(* upsertStats returns the dates that changed and those that are gone.     *)
SyncReads(i) ==
    /\ ScoreAt(i, "sync", "read")
    /\ scoreCalls' = [scoreCalls EXCEPT ![i].seen = stats, ![i].at = "write"]
    /\ UNCHANGED <<scoreTables, announced>>

\* slip: the dates of deleted rows are not among those that changed
ChangedWhenSent(c) == c.minutes # 0 /\ c.minutes # c.seen

Changed(c) == c.minutes # c.seen

SyncWrites(i) ==
    LET c == scoreCalls[i] IN
    /\ ScoreAt(i, "sync", "write")
    /\ stats' = c.minutes
    /\ scoreCalls' = [scoreCalls EXCEPT ![i].queued = Changed(c), ![i].at = "settle"]
    /\ UNCHANGED <<baseline, live, claimed, scored, job, announced>>

(* settleStaleVerifiedSession, before the day is queued: an abandoned      *)
(* session may credit the day.                                             *)
SyncSettles(i) ==
    LET c == scoreCalls[i] IN
    /\ ScoreAt(i, "sync", "settle")
    /\ live' \in live..(live + MaxMinutes)
    /\ UNCHANGED <<stats, baseline, claimed, scored, job>>
    /\ announced' = IF c.minutes # c.seen THEN Competitive' ELSE announced
    /\ IF c.queued THEN ScoreGo(i, "queue") ELSE ScoreEnd(i)

(* INSERT ... ON CONFLICT(date) DO NOTHING                                 *)
SyncQueues(i) ==
    /\ ScoreAt(i, "sync", "queue")
    /\ job' = TRUE
    /\ ScoreEnd(i)
    /\ UNCHANGED <<stats, baseline, live, claimed, scored, announced>>

(* The batch of a finish or a settlement, and that of a reconciliation.    *)
(* Neither queues the day.                                                 *)
CreditLive(i) ==
    /\ ScoreAt(i, "finish", "read")
    /\ live' = live + scoreCalls[i].minutes
    /\ ScoreEnd(i)
    /\ UNCHANGED <<stats, baseline, claimed, scored, job, announced>>

CreditClaimed(i) ==
    /\ ScoreAt(i, "reconcile", "read")
    /\ claimed' = claimed + scoreCalls[i].minutes
    /\ ScoreEnd(i)
    /\ UNCHANGED <<stats, baseline, live, scored, job, announced>>
----------------------------------------------------------------------------
(* scheduled: the queued day is scored and taken off the queue; a day with *)
(* minutes and no score is scored after that.                              *)
NightReadsJobs(i) ==
    /\ ScoreAt(i, "night", "read")
    /\ scoreCalls' = [scoreCalls EXCEPT ![i].queued = job,
                                        ![i].at = IF job THEN "score" ELSE "missing"]
    /\ UNCHANGED <<scoreTables, announced>>

NightMissing(i) ==
    /\ ScoreAt(i, "night", "missing")
    /\ IF HasRow /\ scored = NoScore THEN ScoreGo(i, "score") ELSE ScoreEnd(i)
    /\ UNCHANGED <<scoreTables, announced>>

NightReads(i) ==
    /\ ScoreAt(i, "night", "score")
    /\ scoreCalls' = [scoreCalls EXCEPT ![i].seen = Competitive, ![i].at = "write"]
    /\ announced' = Competitive
    /\ UNCHANGED scoreTables

NightWrites(i) ==
    LET c == scoreCalls[i] IN
    /\ ScoreAt(i, "night", "write")
    /\ scored' = c.seen
    /\ IF c.queued THEN ScoreGo(i, "unqueue") ELSE ScoreEnd(i)
    /\ UNCHANGED <<stats, baseline, live, claimed, job, announced>>

NightUnqueues(i) ==
    /\ ScoreAt(i, "night", "unqueue")
    /\ job' = FALSE
    /\ scoreCalls' = [scoreCalls EXCEPT ![i].queued = FALSE, ![i].at = "missing"]
    /\ UNCHANGED <<stats, baseline, live, claimed, scored, announced>>

ScoreFault(i) ==
    /\ scoreCalls[i].at # "idle" /\ scoreFaults < MaxScoreFaults
    /\ scoreFaults' = scoreFaults + 1
    /\ ScoreEnd(i)
    /\ UNCHANGED <<scoreTables, announced, scoreMade, mixed>>

ScoreStep(i) ==
    \/ SyncReads(i) \/ SyncWrites(i) \/ SyncSettles(i) \/ SyncQueues(i)
    \/ CreditLive(i) \/ CreditClaimed(i)
    \/ NightReadsJobs(i) \/ NightMissing(i) \/ NightReads(i)
    \/ NightWrites(i) \/ NightUnqueues(i)

ScoreNext ==
    \E i \in ScoreSlots :
        \/ \E minutes \in 0..MaxMinutes : ScoreReceive(i, "sync", minutes)
        \/ \E op \in {"finish", "reconcile"}, minutes \in 1..MaxMinutes :
              ScoreReceive(i, op, minutes)
        \/ ScoreReceive(i, "night", 0)
        \/ ScoreStep(i) /\ UNCHANGED scoreGhosts
        \/ ScoreFault(i)

ScoreSpec == ScoreInit /\ [][ScoreNext]_scoreVars
----------------------------------------------------------------------------
(* A day that has been scored and is not queued has the score of the       *)
(* minutes credited when it was last scored, or when a sync that changed   *)
(* or deleted its stats announced it, whichever is later, as long as no    *)
(* two calls overlapped and none failed.  So a score differs from the      *)
(* credited minutes only by credit later than both.                        *)
ScoresFollowCredit ==
    ScoreQuiet /\ ~mixed /\ scoreFaults = 0 /\ scored # NoScore /\ ~job
        => scored = announced
=============================================================================
