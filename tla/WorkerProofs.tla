---------------------------- MODULE WorkerProofs ----------------------------
(***************************************************************************)
(* Theorems about three more parts of the Worker, for any accounts, codes, *)
(* minutes, players and number of calls at once: the scores of a day, the  *)
(* accounts that sync, and Skribbl.                                        *)
(*                                                                         *)
(* Of an account, whoever left its total behind its days, or its reasons   *)
(* without their flag, is still to come by to set that right; and as long  *)
(* as calls come one after the other, the counter of the window is ahead   *)
(* of the rows by the sync that was let in and has not written its own.    *)
(***************************************************************************)
EXTENDS MCWorker, FiniteSetTheorems, WellFoundedInduction, TLAPS

(* Scores.  As long as no two calls overlap the one under way has taken    *)
(* the tables some way from where a scored and unqueued day follows what   *)
(* was credited when it was last announced or scored, and knows how to get *)
(* them back there.                                                        *)
Follows(minutes, score, queued) == score # NoScore /\ ~queued => score = minutes

ScoreCalls ==
    [op : {"sync", "finish", "reconcile", "night"}, minutes : 0..MaxMinutes,
     at : {"read", "write", "settle", "queue", "missing", "score", "unqueue"}, seen : Nat, queued : BOOLEAN]

OnTheWay(c, minutes, score, queued) ==
    CASE c.op = "sync" /\ c.at = "settle"   -> /\ Follows(minutes, score, queued)
                                               /\ c.queued <=> c.minutes # c.seen
      [] c.op = "sync" /\ c.at = "queue"    -> TRUE
      [] c.op = "night" /\ c.at = "score"   -> TRUE
      [] c.op = "night" /\ c.at = "write"   -> c.seen = minutes
      [] c.op = "night" /\ c.at = "unqueue" -> score = minutes
      [] OTHER                              -> Follows(minutes, score, queued)

ScoreBusy == {i \in ScoreSlots : scoreCalls[i].at # "idle"}

ScoreTyped ==
    /\ stats \in Nat /\ baseline \in Nat /\ live \in Nat /\ claimed \in Nat
    /\ job \in BOOLEAN /\ scoreFaults \in Nat

ScoreIInv ==
    /\ scoreCalls \in [ScoreSlots -> ScoreCalls \cup {NoScoreCall}]
    /\ ScoreTyped
    /\ ~mixed => \A i, j \in ScoreBusy : i = j
    /\ ~mixed /\ scoreFaults = 0 =>
          /\ \A i \in ScoreBusy : OnTheWay(scoreCalls[i], announced, scored, job)
          /\ ScoreBusy = {} => Follows(announced, scored, job)

LEMMA NoScoreCallShape == NoScoreCall.at = "idle" /\ NoScoreCall.op = "none"
  BY DEF NoScoreCall

LEMMA ScoreStarts == ScoreInit => ScoreIInv
<1> SUFFICES ASSUME ScoreInit PROVE ScoreIInv
  OBVIOUS
<1>1. scoreCalls = [i \in ScoreSlots |-> NoScoreCall]
  BY DEF ScoreInit
<1>2. ScoreBusy = {}
  BY <1>1, NoScoreCallShape DEF ScoreBusy
<1>3. Follows(announced, scored, job)
  BY DEF ScoreInit, Follows
<1>4. /\ baseline \in 0..MaxMinutes /\ stats = baseline /\ live = 0 /\ claimed = 0
      /\ scoreFaults = 0
  BY DEF ScoreInit
<1>5. /\ stats \in Nat /\ baseline \in Nat /\ live \in Nat /\ claimed \in Nat
      /\ scoreFaults \in Nat
  BY <1>4, ScoreAssumption
<1>6. job \in BOOLEAN
  BY DEF ScoreInit
<1> QED  BY <1>1, <1>2, <1>3, <1>5, <1>6 DEF ScoreIInv, ScoreTyped

(* A step of the call i leaves the others as they are: the one that moves  *)
(* is the only one, unless calls have overlapped.                          *)
LEMMA ScoreMoves ==
    ASSUME ScoreIInv, NEW i \in ScoreBusy,
           NEW c \in ScoreCalls \cup {NoScoreCall}, scoreCalls' = [scoreCalls EXCEPT ![i] = c],
           ScoreTyped', scoreFaults' = 0 => scoreFaults = 0,
           mixed' = mixed,
           ~mixed /\ scoreFaults' = 0 =>
               IF c = NoScoreCall THEN Follows(announced', scored', job')
                                  ELSE OnTheWay(c, announced', scored', job')
    PROVE  ScoreIInv'
<1>a. i \in ScoreSlots /\ scoreCalls \in [ScoreSlots -> ScoreCalls \cup {NoScoreCall}]
  BY DEF ScoreIInv, ScoreBusy
<1>1. scoreCalls' \in [ScoreSlots -> ScoreCalls \cup {NoScoreCall}]
  BY <1>a
<1>2. /\ scoreCalls'[i] = c
      /\ \A j \in ScoreSlots \ {i} : scoreCalls'[j] = scoreCalls[j]
  BY <1>a
<1>3. ScoreBusy' = {j \in ScoreSlots : scoreCalls'[j].at # "idle"}
  BY DEF ScoreBusy
<1>4. ScoreBusy' \subseteq ScoreBusy
  BY <1>2, <1>3 DEF ScoreBusy
<1>5. c = NoScoreCall <=> c.at = "idle"
  BY NoScoreCallShape DEF ScoreCalls
<1>6. ~mixed => \A j, k \in ScoreBusy' : j = k
  BY <1>4 DEF ScoreIInv
<1>7. ASSUME ~mixed, scoreFaults' = 0
      PROVE  /\ \A j \in ScoreBusy' : OnTheWay(scoreCalls'[j], announced', scored', job')
             /\ ScoreBusy' = {} => Follows(announced', scored', job')
  <2>1. \A j \in ScoreBusy : j = i
    BY <1>7 DEF ScoreIInv
  <2>2. CASE c = NoScoreCall
    <3>1. ScoreBusy' = {}
      BY <2>1, <2>2, <1>2, <1>3, <1>4, <1>5
    <3> QED  BY <3>1, <2>2, <1>7
  <2>3. CASE c # NoScoreCall
    <3>1. ScoreBusy' = {i}
      BY <2>1, <2>3, <1>2, <1>3, <1>4, <1>5, <1>a
    <3> QED  BY <3>1, <1>2, <1>7, <2>3
  <2> QED  BY <2>2, <2>3
<1> QED  BY <1>1, <1>6, <1>7 DEF ScoreIInv

LEMMA ScoreReceives ==
    ASSUME ScoreIInv, NEW i \in ScoreSlots, NEW op \in {"sync", "finish", "reconcile", "night"},
           NEW minutes \in 0..MaxMinutes, ScoreReceive(i, op, minutes)
    PROVE  ScoreIInv'
<1> DEFINE c == ScoreCall(op, minutes)
<1>a. /\ scoreCalls \in [ScoreSlots -> ScoreCalls \cup {NoScoreCall}]
      /\ scoreCalls' = [scoreCalls EXCEPT ![i] = c] /\ scoreCalls[i].at = "idle"
      /\ UNCHANGED scoreTables /\ announced' = announced /\ scored' = scored /\ job' = job
      /\ scoreFaults' = scoreFaults /\ mixed' = (mixed \/ ~ScoreQuiet)
  BY DEF ScoreReceive, ScoreIInv, scoreTables
<1>1. /\ c \in ScoreCalls /\ c.at = "read"
      /\ \A m, s, q : OnTheWay(c, m, s, q) <=> Follows(m, s, q)
  BY DEF ScoreCall, ScoreCalls, OnTheWay
<1> HIDE DEF c
<1>2. scoreCalls' \in [ScoreSlots -> ScoreCalls \cup {NoScoreCall}]
  BY <1>a, <1>1
<1>3. ScoreBusy' = ScoreBusy \cup {i}
  BY <1>a, <1>1 DEF ScoreBusy
<1>4. ASSUME ~mixed' PROVE ~mixed /\ ScoreBusy = {} /\ ScoreBusy' = {i} /\ scoreCalls'[i] = c
  <2>1. ~mixed /\ ScoreQuiet
    BY <1>4, <1>a
  <2>2. ScoreBusy = {}
    BY <2>1 DEF ScoreQuiet, ScoreBusy
  <2> QED  BY <2>1, <2>2, <1>3, <1>a
<1>5. ASSUME ~mixed', scoreFaults' = 0
      PROVE  /\ \A j \in ScoreBusy' : OnTheWay(scoreCalls'[j], announced', scored', job')
             /\ ScoreBusy' # {}
  BY <1>1, <1>4, <1>5, <1>a DEF ScoreIInv
<1>6. ScoreTyped'
  BY <1>a DEF ScoreIInv, ScoreTyped, scoreTables
<1> QED  BY <1>2, <1>4, <1>5, <1>6 DEF ScoreIInv

LEMMA ScoreStepKeeps ==
    ASSUME ScoreIInv, NEW i \in ScoreSlots, ScoreStep(i), UNCHANGED scoreGhosts
    PROVE  ScoreIInv'
<1>a. /\ scoreCalls \in [ScoreSlots -> ScoreCalls \cup {NoScoreCall}]
      /\ ScoreTyped /\ scoreFaults' = scoreFaults /\ mixed' = mixed
  BY DEF ScoreIInv, scoreGhosts
<1>b. PICK k : k = scoreCalls[i]
  OBVIOUS
<1>c. k \in ScoreCalls /\ i \in ScoreBusy
  <2>1. k.op \in {"sync", "finish", "reconcile", "night"}
    BY <1>b DEF ScoreStep, ScoreAt, SyncReads, SyncWrites, SyncSettles, SyncQueues,
                CreditLive, CreditClaimed, NightReadsJobs,
                NightMissing, NightReads, NightWrites, NightUnqueues
  <2>2. k \in ScoreCalls
    BY <2>1, <1>a, <1>b, NoScoreCallShape
  <2> QED  BY <2>2, <1>b DEF ScoreBusy, ScoreCalls
<1>d. k.seen \in Nat /\ k.minutes \in Nat /\ k.queued \in BOOLEAN
  BY <1>c DEF ScoreCalls
<1>e. ~mixed /\ scoreFaults = 0 => OnTheWay(k, announced, scored, job)
  BY <1>b, <1>c DEF ScoreIInv
<1>1. ASSUME NEW c \in ScoreCalls \cup {NoScoreCall}, scoreCalls' = [scoreCalls EXCEPT ![i] = c],
             ScoreTyped',
             ~mixed /\ scoreFaults = 0 =>
                 IF c = NoScoreCall THEN Follows(announced', scored', job')
                                    ELSE OnTheWay(c, announced', scored', job')
      PROVE  ScoreIInv'
  BY <1>1, <1>a, <1>c, ScoreMoves
<1>f. UNCHANGED scoreTables => ScoreTyped'
  BY <1>a DEF ScoreTyped, scoreTables
<1>g. Competitive \in Nat
  BY <1>a DEF ScoreTyped, Competitive
<1>2. CASE SyncReads(i)
  <2> DEFINE c == [k EXCEPT !.seen = stats, !.at = "write"]
  <2>1. /\ scoreCalls' = [scoreCalls EXCEPT ![i] = c] /\ k.op = "sync" /\ k.at = "read"
        /\ UNCHANGED scoreTables /\ announced' = announced /\ scored' = scored /\ job' = job
    BY <1>2, <1>a, <1>b DEF SyncReads, ScoreAt, scoreTables
  <2>2. c \in ScoreCalls
    BY <1>a, <1>c DEF ScoreCalls, ScoreTyped
  <2>3. c.op = "sync" /\ c.at = "write"
    BY <1>c, <2>1 DEF ScoreCalls
  <2>4. c # NoScoreCall
    BY <2>3, NoScoreCallShape
  <2> HIDE DEF c
  <2>5. ~mixed /\ scoreFaults = 0 => OnTheWay(c, announced', scored', job')
    BY <2>1, <2>3, <1>e DEF OnTheWay
  <2> QED  BY <2>1, <2>2, <2>4, <2>5, <1>1, <1>f
<1>3. CASE SyncWrites(i)
  <2> DEFINE c == [k EXCEPT !.queued = Changed(k), !.at = "settle"]
  <2>1. /\ k.op = "sync" /\ k.at = "write" /\ scoreCalls' = [scoreCalls EXCEPT ![i] = c]
        /\ stats' = k.minutes /\ UNCHANGED <<baseline, live, claimed>>
        /\ announced' = announced /\ scored' = scored /\ job' = job
    BY <1>3, <1>a, <1>b DEF SyncWrites, ScoreAt
  <2>2. /\ c \in ScoreCalls /\ c.op = "sync" /\ c.at = "settle"
        /\ c.queued <=> c.minutes # c.seen
    BY <1>c, <2>1 DEF ScoreCalls, Changed
  <2> HIDE DEF c
  <2>3. c # NoScoreCall
    BY <2>2, NoScoreCallShape
  <2>4. ~mixed /\ scoreFaults = 0 => OnTheWay(c, announced', scored', job')
    BY <2>1, <2>2, <1>e DEF OnTheWay
  <2>5. ScoreTyped'
    BY <2>1, <1>a, <1>d DEF ScoreTyped
  <2> QED  BY <2>1, <2>2, <2>3, <2>4, <2>5, <1>1
<1>10. CASE SyncSettles(i)
  <2>1. /\ k.op = "sync" /\ k.at = "settle" /\ live' \in live..(live + MaxMinutes)
        /\ UNCHANGED <<stats, baseline, claimed>> /\ scored' = scored /\ job' = job
        /\ k.minutes = k.seen => announced' = announced
        /\ IF k.queued THEN ScoreGo(i, "queue") ELSE ScoreEnd(i)
    BY <1>10, <1>b DEF SyncSettles, ScoreAt
  <2>2. ScoreTyped'
    BY <2>1, <1>a, ScoreAssumption DEF ScoreTyped
  <2>3. CASE k.queued
    <3> DEFINE c == [k EXCEPT !.at = "queue"]
    <3>1. scoreCalls' = [scoreCalls EXCEPT ![i] = c]
      BY <2>1, <2>3, <1>a, <1>b DEF ScoreGo
    <3>2. c \in ScoreCalls /\ c.op = "sync" /\ c.at = "queue"
      BY <1>c, <2>1 DEF ScoreCalls
    <3> HIDE DEF c
    <3>3. OnTheWay(c, announced', scored', job') /\ c # NoScoreCall
      BY <3>2, NoScoreCallShape DEF OnTheWay
    <3> QED  BY <3>1, <3>2, <3>3, <2>2, <1>1
  <2>4. CASE ~k.queued
    <3>1. scoreCalls' = [scoreCalls EXCEPT ![i] = NoScoreCall]
      BY <2>1, <2>4 DEF ScoreEnd
    <3>2. ~mixed /\ scoreFaults = 0 => Follows(announced', scored', job')
      BY <2>1, <2>4, <1>e DEF OnTheWay
    <3> QED  BY <3>1, <3>2, <2>2, <1>1
  <2> QED  BY <2>3, <2>4
<1>4. CASE SyncQueues(i)
  <2>1. /\ UNCHANGED <<stats, baseline, live, claimed>> /\ job' = TRUE
        /\ scoreCalls' = [scoreCalls EXCEPT ![i] = NoScoreCall]
    BY <1>4 DEF SyncQueues, ScoreEnd
  <2>2. Follows(announced', scored', job') /\ ScoreTyped'
    BY <2>1, <1>a DEF Follows, ScoreTyped
  <2> QED  BY <2>1, <2>2, <1>1
<1>11. CASE CreditLive(i) \/ CreditClaimed(i)
  <2>1. /\ k.op \in {"finish", "reconcile"} /\ k.at = "read"
        /\ live' = live + k.minutes \/ live' = live
        /\ claimed' = claimed + k.minutes \/ claimed' = claimed
        /\ UNCHANGED <<stats, baseline, scored, job, announced>>
        /\ scoreCalls' = [scoreCalls EXCEPT ![i] = NoScoreCall]
    BY <1>11, <1>b DEF CreditLive, CreditClaimed, ScoreAt, ScoreEnd
  <2>2. ScoreTyped'
    BY <2>1, <1>a, <1>d DEF ScoreTyped
  <2>3. ~mixed /\ scoreFaults = 0 => Follows(announced', scored', job')
    BY <2>1, <1>e DEF OnTheWay
  <2> QED  BY <2>1, <2>2, <2>3, <1>1
<1>5. CASE NightReadsJobs(i)
  <2> DEFINE c == [k EXCEPT !.queued = job, !.at = IF job THEN "score" ELSE "missing"]
  <2>1. /\ scoreCalls' = [scoreCalls EXCEPT ![i] = c] /\ k.op = "night" /\ k.at = "read"
        /\ UNCHANGED scoreTables /\ announced' = announced /\ scored' = scored /\ job' = job
    BY <1>5, <1>a, <1>b DEF NightReadsJobs, ScoreAt, scoreTables
  <2>2. c \in ScoreCalls /\ c.op = "night" /\ c.at = IF job THEN "score" ELSE "missing"
    BY <1>a, <1>c, <2>1 DEF ScoreCalls, ScoreTyped
  <2> HIDE DEF c
  <2>3. c # NoScoreCall
    BY <2>2, NoScoreCallShape
  <2>4. ~mixed /\ scoreFaults = 0 => Follows(announced, scored, job)
    BY <2>1, <1>e DEF OnTheWay
  <2>5. ~mixed /\ scoreFaults = 0 => OnTheWay(c, announced', scored', job')
    BY <2>1, <2>2, <2>4 DEF OnTheWay
  <2> QED  BY <2>1, <2>2, <2>3, <2>5, <1>1, <1>f
<1>6. CASE NightMissing(i)
  <2>1. /\ k.op = "night" /\ k.at = "missing"
        /\ UNCHANGED scoreTables /\ announced' = announced /\ scored' = scored /\ job' = job
        /\ ScoreGo(i, "score") \/ ScoreEnd(i)
    BY <1>6, <1>b DEF NightMissing, ScoreAt, scoreTables
  <2>2. ~mixed /\ scoreFaults = 0 => Follows(announced, scored, job)
    BY <2>1, <1>e DEF OnTheWay
  <2>3. CASE ScoreGo(i, "score")
    <3> DEFINE c == [k EXCEPT !.at = "score"]
    <3>1. scoreCalls' = [scoreCalls EXCEPT ![i] = c]
      BY <2>3, <1>a, <1>b DEF ScoreGo
    <3>2. c \in ScoreCalls /\ c.op = "night" /\ c.at = "score"
      BY <1>c, <2>1 DEF ScoreCalls
    <3> HIDE DEF c
    <3>3. OnTheWay(c, announced', scored', job') /\ c # NoScoreCall
      BY <3>2, NoScoreCallShape DEF OnTheWay
    <3> QED  BY <3>1, <3>2, <3>3, <2>1, <1>1, <1>f
  <2>4. CASE ScoreEnd(i)
    <3>1. scoreCalls' = [scoreCalls EXCEPT ![i] = NoScoreCall]
      BY <2>4 DEF ScoreEnd
    <3> QED  BY <3>1, <2>1, <2>2, <1>1, <1>f
  <2> QED  BY <2>1, <2>3, <2>4
<1>7. CASE NightReads(i)
  <2> DEFINE c == [k EXCEPT !.seen = Competitive, !.at = "write"]
  <2>1. /\ scoreCalls' = [scoreCalls EXCEPT ![i] = c] /\ k.op = "night" /\ k.at = "score"
        /\ UNCHANGED scoreTables /\ announced' = Competitive
    BY <1>7, <1>a, <1>b DEF NightReads, ScoreAt
  <2>2. c \in ScoreCalls
    BY <1>c, <1>g DEF ScoreCalls
  <2>3. c.op = "night" /\ c.at = "write" /\ c.seen = announced'
    BY <1>c, <2>1 DEF ScoreCalls
  <2> HIDE DEF c
  <2>4. OnTheWay(c, announced', scored', job') /\ c # NoScoreCall
    BY <2>3, NoScoreCallShape DEF OnTheWay
  <2> QED  BY <2>1, <2>2, <2>4, <1>1, <1>f
<1>8. CASE NightWrites(i)
  <2>1. /\ k.op = "night" /\ k.at = "write" /\ scored' = k.seen /\ announced' = announced
        /\ UNCHANGED <<stats, baseline, live, claimed, job>>
        /\ IF k.queued THEN ScoreGo(i, "unqueue") ELSE ScoreEnd(i)
    BY <1>8, <1>b DEF NightWrites, ScoreAt
  <2>2. (~mixed /\ scoreFaults = 0 => scored' = announced') /\ ScoreTyped'
    BY <2>1, <1>a, <1>e DEF OnTheWay, ScoreTyped
  <2>3. CASE k.queued
    <3> DEFINE c == [k EXCEPT !.at = "unqueue"]
    <3>1. scoreCalls' = [scoreCalls EXCEPT ![i] = c]
      BY <2>1, <2>3, <1>a, <1>b DEF ScoreGo
    <3>2. c \in ScoreCalls /\ c.op = "night" /\ c.at = "unqueue"
      BY <1>c, <2>1 DEF ScoreCalls
    <3> HIDE DEF c
    <3>3. c # NoScoreCall /\ (scored' = announced' => OnTheWay(c, announced', scored', job'))
      BY <3>2, NoScoreCallShape DEF OnTheWay
    <3> QED  BY <3>1, <3>2, <3>3, <2>2, <1>1
  <2>4. CASE ~k.queued
    <3>1. scoreCalls' = [scoreCalls EXCEPT ![i] = NoScoreCall]
      BY <2>1, <2>4 DEF ScoreEnd
    <3>2. scored' = announced' => Follows(announced', scored', job')
      BY DEF Follows
    <3> QED  BY <3>1, <3>2, <2>2, <1>1
  <2> QED  BY <2>3, <2>4
<1>9. CASE NightUnqueues(i)
  <2> DEFINE c == [k EXCEPT !.queued = FALSE, !.at = "missing"]
  <2>1. /\ scoreCalls' = [scoreCalls EXCEPT ![i] = c] /\ k.op = "night" /\ k.at = "unqueue"
        /\ UNCHANGED <<stats, baseline, live, claimed, scored, announced>> /\ job' = FALSE
    BY <1>9, <1>a, <1>b DEF NightUnqueues, ScoreAt
  <2>2. c \in ScoreCalls
    BY <1>c DEF ScoreCalls
  <2>3. c.op = "night" /\ c.at = "missing"
    BY <1>c, <2>1 DEF ScoreCalls
  <2> HIDE DEF c
  <2>4. (~mixed /\ scoreFaults = 0 => scored' = announced') /\ ScoreTyped'
    BY <2>1, <1>a, <1>e DEF OnTheWay, ScoreTyped
  <2>5. c # NoScoreCall /\ (scored' = announced' => OnTheWay(c, announced', scored', job'))
    BY <2>3, NoScoreCallShape DEF OnTheWay, Follows
  <2> QED  BY <2>1, <2>2, <2>4, <2>5, <1>1
<1> QED
  BY <1>2, <1>3, <1>4, <1>5, <1>6, <1>7, <1>8, <1>9, <1>10, <1>11 DEF ScoreStep

LEMMA ScoreFaultKeeps ==
    ASSUME ScoreIInv, NEW i \in ScoreSlots, ScoreFault(i)
    PROVE  ScoreIInv'
<1>1. /\ i \in ScoreBusy /\ scoreCalls' = [scoreCalls EXCEPT ![i] = NoScoreCall]
      /\ UNCHANGED scoreTables /\ mixed' = mixed /\ scoreFaults' = scoreFaults + 1
  BY DEF ScoreFault, ScoreEnd, ScoreBusy
<1>2. ScoreTyped' /\ scoreFaults' # 0
  BY <1>1 DEF ScoreIInv, ScoreTyped, scoreTables
<1> QED  BY <1>1, <1>2, ScoreMoves

LEMMA ScoreNextKeeps == ScoreIInv /\ [ScoreNext]_scoreVars => ScoreIInv'
<1> SUFFICES ASSUME ScoreIInv, [ScoreNext]_scoreVars PROVE ScoreIInv'
  OBVIOUS
<1>1. CASE UNCHANGED scoreVars
  <2>1. /\ scoreCalls' = scoreCalls /\ announced' = announced
        /\ UNCHANGED <<stats, baseline, live, claimed, scored, job>>
        /\ scoreFaults' = scoreFaults /\ mixed' = mixed
    BY <1>1 DEF scoreVars, scoreTables, scoreGhosts
  <2> QED  BY <2>1 DEF ScoreIInv, ScoreBusy, ScoreTyped
<1>2. CASE ScoreNext
  <2>1. PICK i \in ScoreSlots :
            \/ \E minutes \in 0..MaxMinutes : ScoreReceive(i, "sync", minutes)
            \/ \E op \in {"finish", "reconcile"}, minutes \in 1..MaxMinutes :
                  ScoreReceive(i, op, minutes)
            \/ ScoreReceive(i, "night", 0)
            \/ ScoreStep(i) /\ UNCHANGED scoreGhosts
            \/ ScoreFault(i)
    BY <1>2 DEF ScoreNext
  <2>2. 0 \in 0..MaxMinutes /\ 1..MaxMinutes \subseteq 0..MaxMinutes
    BY ScoreAssumption
  <2> QED  BY <2>1, <2>2, ScoreReceives, ScoreStepKeeps, ScoreFaultKeeps
<1> QED  BY <1>1, <1>2

(* A day that has been scored and is not queued has the score of what was  *)
(* credited when it was last scored or announced by a sync that changed    *)
(* it, unless calls overlapped or a statement failed.                      *)
THEOREM ScoresStayTrue == ScoreSpec => []ScoresFollowCredit
<1>1. ScoreIInv => ScoresFollowCredit
  <2> SUFFICES ASSUME ScoreIInv, ScoreQuiet, ~mixed, scoreFaults = 0, scored # NoScore, ~job
               PROVE  scored = announced
    BY DEF ScoresFollowCredit
  <2>1. ScoreBusy = {}
    BY DEF ScoreQuiet, ScoreBusy
  <2> QED  BY <2>1 DEF ScoreIInv, Follows
<1> QED  BY <1>1, ScoreStarts, ScoreNextKeeps, PTL DEF ScoreSpec
----------------------------------------------------------------------------
(* Accounts.                                                               *)
AccountPlaces ==
    {"read", "throttle", "put", "hash", "code", "write", "record", "count", "flag",
     "stats", "reconcile"}
SyncCalls ==
    [op : {"sync"}, user : Accounts, code : Codes, lifetime : 0..MaxTotal, sum : 0..MaxTotal,
     reasons : {{}} \cup {{r} : r \in Reasons}, at : AccountPlaces, known : BOOLEAN,
     count : Int, found : SUBSET Accounts]
OtherCalls ==
    [op : {"purge", "migrate"}, user : {"cron", "admin"}, code : {NoCode}, lifetime : {0},
     sum : {0}, reasons : {{}}, at : {"read", "write"}, known : BOOLEAN, count : Int,
     found : SUBSET Accounts]
AccountCalls == SyncCalls \cup OtherCalls \cup {NoAccountCall}

Rows == [code : Codes \cup {NoCode}, hashed : BOOLEAN, lifetime : Nat, flagged : BOOLEAN]
AccountsTyped ==
    /\ accountCalls \in [AccountSlots -> AccountCalls]
    /\ users \in [Accounts -> Rows] /\ days \in [Accounts -> Nat]
    /\ events \in [Accounts -> [Reasons -> {"no", "new", "old"}]]
    /\ signups \in Int /\ accountFaults \in Nat /\ keyed \in BOOLEAN

(* What a sync has found out of its account, which nobody takes back.      *)
WroteRow == {"record", "count", "flag", "stats", "reconcile"}
SyncFits(c, rows) ==
    c.op = "sync" =>
        /\ c.known \/ c.at \in WroteRow => rows[c.user].code # NoCode
        /\ c.at = "hash" => c.known
        /\ c.at \in {"throttle", "put"} => ~c.known
CallsFit == \A i \in AccountSlots : SyncFits(accountCalls[i], users)

ReasonsHaveRows ==
    \A u \in Accounts : IsFiniteSet(Stored(u)) /\ (users[u].code = NoCode => Stored(u) = {})

(* Whoever left the total behind its days, or the reasons without their    *)
(* flag, is still to come by to set that right.                            *)
Settles(c, u) == c.op = "sync" /\ c.user = u /\ c.at \in WroteRow
WillFlag(c, u) == c.op = "sync" /\ c.user = u /\ c.at \in {"count", "flag"}
TotalKept(u) ==
    users[u].lifetime >= days[u] \/ \E i \in AccountSlots : Settles(accountCalls[i], u)
FlagKept(u) ==
    (ShouldFlag(Stored(u)) => users[u].flagged)
        \/ \E i \in AccountSlots : WillFlag(accountCalls[i], u)

(* One call after the other: the counter is ahead of the rows by the one   *)
(* that has been let in and is not written yet.                            *)
SignedUp(rows) == {u \in Accounts : rows[u].code # NoCode}
LetIn(c) == c.op = "sync" /\ c.at \in {"code", "write"} /\ ~c.known
Throttled(c, rows, counter) ==
    /\ Cardinality(SignedUp(rows)) <= counter
    /\ Cardinality(SignedUp(rows)) <= SignupLimit
    /\ c.op = "sync" /\ c.at = "put" => c.count = counter + 1
    /\ LetIn(c) => Cardinality(SignedUp(rows)) + 1 <= counter /\ counter <= SignupLimit

AccountBusy == {i \in AccountSlots : accountCalls[i].at # "idle"}
InTurn ==
    /\ \A i, j \in AccountBusy : i = j
    /\ \A i \in AccountBusy : Throttled(accountCalls[i], users, signups)
    /\ Throttled(NoAccountCall, users, signups)

AccountIInv ==
    /\ AccountsTyped /\ CallsFit /\ ReasonsHaveRows /\ IsFiniteSet(SignedUp(users))
    /\ accountFaults = 0 => \A u \in Accounts : TotalKept(u) /\ FlagKept(u)
    /\ ~meddled => InTurn
----------------------------------------------------------------------------
LEMMA NoAccountCallShape ==
    /\ NoAccountCall.at = "idle" /\ NoAccountCall.op = "none" /\ NoAccountCall \in AccountCalls
    /\ \A u : ~Settles(NoAccountCall, u) /\ ~WillFlag(NoAccountCall, u)
    /\ \A rows : SyncFits(NoAccountCall, rows)
    /\ \A c \in SyncCalls \cup OtherCalls : c # NoAccountCall /\ c.at # "idle"
  BY DEF NoAccountCall, AccountCalls, Settles, WillFlag, SyncFits, SyncCalls, OtherCalls,
         AccountPlaces

LEMMA RequestShape ==
    ASSUME NEW r \in Syncs \cup {Nightly, Admin}
    PROVE  r \in AccountCalls /\ r # NoAccountCall /\ r.at = "read" /\ ~r.known
<1>1. CASE r \in Syncs
  <2>1. PICK u \in Accounts, c \in Codes, l \in 0..MaxTotal, m \in 0..MaxTotal,
             x \in {{}} \cup {{y} : y \in Reasons} : r = AccountCall("sync", u, c, l, m, x)
    BY ONLY <1>1 DEF Syncs
  <2>2. AccountCall("sync", u, c, l, m, x) \in SyncCalls
    BY DEF AccountCall, SyncCalls, AccountPlaces
  <2>3. r.at = "read" /\ ~r.known
    BY <2>1 DEF AccountCall
  <2> QED  BY <2>1, <2>2, <2>3, NoAccountCallShape DEF AccountCalls
<1>2. CASE r \in {Nightly, Admin}
  <2>1. Nightly \in OtherCalls /\ Nightly.at = "read" /\ ~Nightly.known
    BY DEF Nightly, AccountCall, OtherCalls
  <2>2. Admin \in OtherCalls /\ Admin.at = "read" /\ ~Admin.known
    BY DEF Admin, AccountCall, OtherCalls
  <2> QED  BY <2>1, <2>2, <1>2, NoAccountCallShape DEF AccountCalls
<1> QED  BY <1>1, <1>2

LEMMA AccountStarts == AccountInit => AccountIInv
<1> SUFFICES ASSUME AccountInit PROVE AccountIInv
  OBVIOUS
<1>1. /\ accountCalls = [i \in AccountSlots |-> NoAccountCall]
      /\ users = [u \in Accounts |-> NoRow] /\ days = [u \in Accounts |-> 0]
      /\ events = [u \in Accounts |-> [r \in Reasons |-> "no"]]
      /\ signups = 0 /\ accountFaults = 0 /\ keyed \in BOOLEAN
  BY DEF AccountInit
<1>2. NoRow \in Rows /\ NoRow.code = NoCode /\ NoRow.lifetime = 0 /\ NoRow.flagged = FALSE
  BY DEF NoRow, Rows
<1>3. AccountsTyped
  BY <1>1, <1>2, NoAccountCallShape DEF AccountsTyped
<1>4. CallsFit
  BY <1>1, NoAccountCallShape DEF CallsFit
<1>5. \A u \in Accounts : Stored(u) = {}
  BY <1>1 DEF Stored
<1>6. ReasonsHaveRows
  BY <1>5, FS_EmptySet DEF ReasonsHaveRows
<1>7. SignedUp(users) = {}
  BY <1>1, <1>2 DEF SignedUp
<1>8. IsFiniteSet(SignedUp(users)) /\ Cardinality(SignedUp(users)) = 0
  BY <1>7, FS_EmptySet
<1>9. ~ShouldFlag({})
  <2>1. Cardinality({}) = 0
    BY FS_EmptySet
  <2> QED  BY <2>1 DEF ShouldFlag
<1>10. \A u \in Accounts : TotalKept(u) /\ FlagKept(u)
  BY <1>1, <1>2, <1>5, <1>9 DEF TotalKept, FlagKept
<1>11. AccountBusy = {}
  BY <1>1, NoAccountCallShape DEF AccountBusy
<1>12. InTurn
  BY <1>1, <1>8, <1>11, NoAccountCallShape, AccountAssumption DEF InTurn, Throttled, LetIn
<1> QED  BY <1>3, <1>4, <1>6, <1>8, <1>10, <1>12 DEF AccountIInv

(* A step of the call i from k to c: what it owes of the invariant.        *)
LEMMA AccountMoves ==
    ASSUME AccountIInv, NEW i \in AccountSlots, NEW k, k = accountCalls[i], k # NoAccountCall,
           NEW c \in AccountCalls, accountCalls' = [accountCalls EXCEPT ![i] = c],
           AccountsTyped', accountFaults' = 0 => accountFaults = 0,
           meddled' = meddled,
           SyncFits(c, users'), ReasonsHaveRows', IsFiniteSet(SignedUp(users')),
           \A u \in Accounts : users[u].code # NoCode => users'[u].code # NoCode,
           accountFaults' = 0 => \A u \in Accounts :
               /\ users[u].lifetime >= days[u] \/ Settles(k, u)
                      => users'[u].lifetime >= days'[u] \/ Settles(c, u)
               /\ (ShouldFlag(Stored(u)) => users[u].flagged) \/ WillFlag(k, u)
                      => (ShouldFlag(Stored(u)') => users'[u].flagged) \/ WillFlag(c, u),
           ~meddled => /\ Throttled(k, users, signups) => Throttled(c, users', signups')
                       /\ Throttled(NoAccountCall, users', signups')
    PROVE  AccountIInv'
<1>a. accountCalls \in [AccountSlots -> AccountCalls]
  BY DEF AccountIInv, AccountsTyped
<1>1. /\ accountCalls'[i] = c
      /\ \A j \in AccountSlots \ {i} : accountCalls'[j] = accountCalls[j]
  BY <1>a
<1>2. CallsFit'
  <2>1. ASSUME NEW j \in AccountSlots \ {i} PROVE SyncFits(accountCalls[j], users')
    <3>1. SyncFits(accountCalls[j], users) /\ accountCalls[j] \in AccountCalls
      BY <1>a DEF AccountIInv, CallsFit
    <3>2. accountCalls[j].op = "sync" => accountCalls[j].user \in Accounts
      BY <3>1, NoAccountCallShape DEF AccountCalls, SyncCalls, OtherCalls
    <3> QED  BY <3>1, <3>2 DEF SyncFits
  <2>2. \A j \in AccountSlots : SyncFits(accountCalls'[j], users')
    BY <1>1, <2>1
  <2> QED  BY <2>2 DEF CallsFit
<1>3. ASSUME accountFaults' = 0, NEW u \in Accounts PROVE TotalKept(u)'
  <2>1. CASE \E j \in AccountSlots \ {i} : Settles(accountCalls[j], u)
    <3>1. PICK j \in AccountSlots : Settles(accountCalls'[j], u)
      BY <2>1, <1>1
    <3> QED  BY <3>1 DEF TotalKept
  <2>2. CASE ~ \E j \in AccountSlots \ {i} : Settles(accountCalls[j], u)
    <3>1. users[u].lifetime >= days[u] \/ Settles(k, u)
      BY <2>2, <1>3 DEF AccountIInv, TotalKept
    <3>2. users'[u].lifetime >= days'[u] \/ Settles(accountCalls'[i], u)
      BY <3>1, <1>1, <1>3
    <3> QED  BY <3>2 DEF TotalKept
  <2> QED  BY <2>1, <2>2
<1>4. ASSUME accountFaults' = 0, NEW u \in Accounts PROVE FlagKept(u)'
  <2>1. CASE \E j \in AccountSlots \ {i} : WillFlag(accountCalls[j], u)
    <3>1. PICK j \in AccountSlots : WillFlag(accountCalls'[j], u)
      BY <2>1, <1>1
    <3> QED  BY <3>1 DEF FlagKept
  <2>2. CASE ~ \E j \in AccountSlots \ {i} : WillFlag(accountCalls[j], u)
    <3>1. (ShouldFlag(Stored(u)) => users[u].flagged) \/ WillFlag(k, u)
      BY <2>2, <1>4 DEF AccountIInv, FlagKept
    <3>2. (ShouldFlag(Stored(u)') => users'[u].flagged) \/ WillFlag(accountCalls'[i], u)
      BY <3>1, <1>1, <1>4
    <3>3. ShouldFlag(Stored(u))' <=> ShouldFlag(Stored(u)')
      BY DEF ShouldFlag
    <3> QED  BY <3>2, <3>3 DEF FlagKept
  <2> QED  BY <2>1, <2>2
<1>5. ASSUME ~meddled PROVE InTurn'
  <2>1. i \in AccountBusy
    BY <1>a, NoAccountCallShape DEF AccountBusy, AccountCalls
  <2>2. AccountBusy = {i} /\ Throttled(k, users, signups)
    BY <1>5, <2>1 DEF AccountIInv, InTurn
  <2>3. AccountBusy' \subseteq {i}
    BY <2>2, <1>1 DEF AccountBusy
  <2>4. Throttled(accountCalls'[i], users', signups') /\ Throttled(NoAccountCall, users', signups')
    BY <1>1, <1>5, <2>2
  <2> QED  BY <2>3, <2>4 DEF InTurn
<1> QED  BY <1>2, <1>3, <1>4, <1>5 DEF AccountIInv
----------------------------------------------------------------------------
(* A step that writes nothing.                                             *)
LEMMA AccountReads ==
    ASSUME AccountIInv, NEW i \in AccountSlots, NEW k, k = accountCalls[i], k # NoAccountCall,
           NEW c \in AccountCalls, accountCalls' = [accountCalls EXCEPT ![i] = c],
           UNCHANGED accountTables, UNCHANGED accountGhosts,
           SyncFits(c, users),
           \A u \in Accounts :
               /\ Settles(k, u) => Settles(c, u)
               /\ (ShouldFlag(Stored(u)) => users[u].flagged) \/ WillFlag(k, u)
                      => (ShouldFlag(Stored(u)) => users[u].flagged) \/ WillFlag(c, u),
           ~meddled /\ Throttled(k, users, signups) => Throttled(c, users, signups)
    PROVE  AccountIInv'
<1>a. /\ users' = users /\ days' = days /\ events' = events /\ signups' = signups
      /\ keyed' = keyed
      /\ accountFaults' = accountFaults /\ meddled' = meddled
      /\ AccountsTyped /\ ReasonsHaveRows /\ IsFiniteSet(SignedUp(users))
      /\ ~meddled => Throttled(NoAccountCall, users, signups)
  BY DEF accountTables, accountGhosts, AccountIInv, InTurn
<1>1. AccountsTyped'
  BY <1>a DEF AccountsTyped
<1>2. ReasonsHaveRows' /\ \A u \in Accounts : Stored(u)' = Stored(u)
  BY <1>a DEF ReasonsHaveRows, Stored
<1>3. \A u \in Accounts :
        /\ users[u].lifetime >= days[u] \/ Settles(k, u)
             => users'[u].lifetime >= days'[u] \/ Settles(c, u)
        /\ (ShouldFlag(Stored(u)) => users[u].flagged) \/ WillFlag(k, u)
             => (ShouldFlag(Stored(u)') => users'[u].flagged) \/ WillFlag(c, u)
  BY <1>a, <1>2
<1>4. ~meddled => /\ Throttled(k, users, signups) => Throttled(c, users', signups')
                  /\ Throttled(NoAccountCall, users', signups')
  BY <1>a
<1>5. /\ SyncFits(c, users') /\ IsFiniteSet(SignedUp(users'))
      /\ \A u \in Accounts : users[u].code # NoCode => users'[u].code # NoCode
      /\ accountFaults' = 0 => accountFaults = 0
  BY <1>a
<1> QED  BY <1>a, <1>1, <1>2, <1>3, <1>4, <1>5, AccountMoves

LEMMA SyncCallOf ==
    ASSUME AccountIInv, NEW i \in AccountSlots, NEW k, k = accountCalls[i], k.op = "sync"
    PROVE  /\ k \in SyncCalls /\ k # NoAccountCall /\ SyncFits(k, users)
           /\ k.user \in Accounts /\ k.code \in Codes /\ k.code # NoCode
           /\ k.known \in BOOLEAN /\ k.count \in Int /\ k.lifetime \in Nat /\ k.sum \in Nat
           /\ k.reasons \subseteq Reasons /\ IsFiniteSet(k.reasons)
           /\ users[k.user] \in Rows /\ signups \in Int
<1>1. k \in SyncCalls /\ SyncFits(k, users)
  <2>1. k \in AccountCalls /\ SyncFits(k, users)
    BY DEF AccountIInv, AccountsTyped, CallsFit
  <2> QED  BY <2>1, NoAccountCallShape DEF AccountCalls, OtherCalls
<1>2. /\ k.user \in Accounts /\ k.code \in Codes /\ k.known \in BOOLEAN /\ k.count \in Int
      /\ k.lifetime \in 0..MaxTotal /\ k.sum \in 0..MaxTotal
      /\ k.reasons \in {{}} \cup {{r} : r \in Reasons}
  BY <1>1 DEF SyncCalls
<1>3. k.reasons \subseteq Reasons /\ IsFiniteSet(k.reasons)
  <2>1. CASE k.reasons = {}
    BY <2>1, FS_EmptySet
  <2>2. CASE k.reasons # {}
    <3>1. PICK r \in Reasons : k.reasons = {r}
      BY <1>2, <2>2
    <3> QED  BY <3>1, FS_Singleton
  <2> QED  BY <2>1, <2>2
<1>4. users[k.user] \in Rows /\ signups \in Int
  BY <1>2 DEF AccountIInv, AccountsTyped
<1> QED  BY <1>1, <1>2, <1>3, <1>4, NoAccountCallShape, AccountAssumption

(* Where a sync goes on to, with what, and that it is the same sync.       *)
MovedTo(k, place) == [k EXCEPT !.at = place]
Finding(k, known, place) == [k EXCEPT !.known = known, !.at = place]
Counting(k, n, place) == [k EXCEPT !.count = n, !.at = place]

LEMMA SyncGoes ==
    ASSUME NEW k \in SyncCalls, NEW place \in AccountPlaces, NEW c, c = MovedTo(k, place)
    PROVE  /\ c \in SyncCalls /\ c \in AccountCalls /\ c.at = place /\ c.op = "sync"
           /\ c.user = k.user /\ c.known = k.known /\ c.count = k.count
  BY DEF SyncCalls, AccountCalls, MovedTo

LEMMA SyncFinds ==
    ASSUME NEW k \in SyncCalls, NEW known \in BOOLEAN, NEW place \in AccountPlaces,
           NEW c, c = Finding(k, known, place)
    PROVE  c \in SyncCalls /\ c.at = place /\ c.op = "sync" /\ c.user = k.user /\ (c.known <=> known)
<1>1. c.at = place /\ c.op = "sync" /\ c.user = k.user
  BY DEF SyncCalls, Finding
<1>2. c.known = known
  BY DEF SyncCalls, Finding
<1>3. [k EXCEPT !.known = TRUE, !.at = place] \in SyncCalls
  BY DEF SyncCalls
<1>4. [k EXCEPT !.known = FALSE, !.at = place] \in SyncCalls
  BY DEF SyncCalls
<1>5. c \in SyncCalls
  <2>1. CASE known = TRUE
    BY <2>1, <1>3 DEF Finding
  <2>2. CASE known = FALSE
    BY <2>2, <1>4 DEF Finding
  <2> QED  BY <2>1, <2>2
<1> QED  BY <1>1, <1>2, <1>5

LEMMA SyncCounts ==
    ASSUME NEW k \in SyncCalls, NEW n \in Int, NEW place \in AccountPlaces,
           NEW c, c = Counting(k, n, place)
    PROVE  /\ c \in SyncCalls /\ c.at = place /\ c.op = "sync"
           /\ c.user = k.user /\ c.known = k.known /\ c.count = n
  BY DEF SyncCalls, Counting

LEMMA SyncReadsUserKeeps ==
    ASSUME AccountIInv, NEW i \in AccountSlots, SyncReadsUser(i), UNCHANGED accountGhosts
    PROVE  AccountIInv'
<1>b. PICK k : k = accountCalls[i]
  OBVIOUS
<1>1. k.op = "sync" /\ k.at = "read" /\ UNCHANGED accountTables
  BY <1>b DEF SyncReadsUser, AccountAt
<1>2. /\ k \in SyncCalls /\ k # NoAccountCall /\ k.user \in Accounts
      /\ accountCalls \in [AccountSlots -> AccountCalls]
  BY <1>1, <1>b, SyncCallOf DEF AccountIInv, AccountsTyped
<1>3. \A u : ~Settles(k, u) /\ ~WillFlag(k, u)
  BY <1>1 DEF Settles, WillFlag, WroteRow
<1>4. Throttled(k, users, signups) => Throttled(NoAccountCall, users, signups)
  BY NoAccountCallShape DEF Throttled, LetIn
<1>5. CASE Exists(k.user) /\ users[k.user].hashed /\ ~keyed
  <2>1. accountCalls' = [accountCalls EXCEPT ![i] = NoAccountCall]
    BY <1>5, <1>b DEF SyncReadsUser, AccountEnd
  <2> QED  BY <2>1, <1>b, <1>1, <1>2, <1>3, <1>4, NoAccountCallShape, AccountReads
<1>6. CASE ~(Exists(k.user) /\ users[k.user].hashed /\ ~keyed)
  <2>1. PICK place : place = IF ~Exists(k.user) THEN "throttle"
                             ELSE IF ~users[k.user].hashed /\ keyed THEN "hash" ELSE "code"
    OBVIOUS
  <2>k. PICK known \in BOOLEAN : known = Exists(k.user)
    BY DEF Exists
  <2>c. PICK c : c = Finding(k, known, place)
    OBVIOUS
  <2>2. accountCalls' = [accountCalls EXCEPT ![i] = c]
    BY <1>6, <1>b, <1>2, <2>1, <2>k, <2>c DEF SyncReadsUser, Finding
  <2>3. place \in {"throttle", "hash", "code"} /\ (place = "throttle" <=> ~Exists(k.user))
    BY <2>1
  <2>4. /\ c \in SyncCalls /\ c.at = place /\ c.op = "sync" /\ c.user = k.user
        /\ (c.known <=> known)
    <3>1. place \in AccountPlaces
      BY <2>3 DEF AccountPlaces
    <3> QED  BY <3>1, <2>c, <1>2, SyncFinds
  <2>5. SyncFits(c, users)
    BY <2>3, <2>4, <2>k DEF SyncFits, WroteRow, Exists
  <2>6. Throttled(k, users, signups) => Throttled(c, users, signups)
    BY <2>3, <2>4, <2>k DEF Throttled, LetIn
  <2>7. c \in AccountCalls
    BY <2>4 DEF AccountCalls
  <2> QED  BY <2>2, <2>5, <2>6, <2>7, <1>b, <1>1, <1>2, <1>3, AccountReads
<1> QED  BY <1>5, <1>6

LEMMA ReadThrottleKeeps ==
    ASSUME AccountIInv, NEW i \in AccountSlots, ReadThrottle(i), UNCHANGED accountGhosts
    PROVE  AccountIInv'
<1>b. PICK k : k = accountCalls[i]
  OBVIOUS
<1>1. k.op = "sync" /\ k.at = "throttle" /\ UNCHANGED accountTables
  BY <1>b DEF ReadThrottle, AccountAt
<1>2. /\ k \in SyncCalls /\ k # NoAccountCall /\ SyncFits(k, users) /\ signups \in Int
      /\ accountCalls \in [AccountSlots -> AccountCalls]
  BY <1>1, <1>b, SyncCallOf DEF AccountIInv, AccountsTyped
<1>c. PICK c : c = Counting(k, signups + 1, "put")
  OBVIOUS
<1>3. accountCalls' = [accountCalls EXCEPT ![i] = c]
  BY <1>b, <1>2, <1>c DEF ReadThrottle, Counting
<1>4. /\ c \in SyncCalls /\ c.at = "put" /\ c.op = "sync" /\ c.user = k.user
      /\ c.known = k.known /\ c.count = signups + 1
  <2>1. "put" \in AccountPlaces /\ signups + 1 \in Int
    BY <1>2 DEF AccountPlaces
  <2> QED  BY <2>1, <1>2, <1>c, SyncCounts
<1>5. \A u : ~Settles(k, u) /\ ~WillFlag(k, u)
  BY <1>1 DEF Settles, WillFlag, WroteRow
<1>6. SyncFits(c, users)
  BY <1>1, <1>2, <1>4 DEF SyncFits, WroteRow
<1>7. Throttled(k, users, signups) => Throttled(c, users, signups)
  BY <1>4 DEF Throttled, LetIn
<1>8. c \in AccountCalls
  BY <1>4 DEF AccountCalls
<1> QED  BY <1>b, <1>1, <1>2, <1>3, <1>5, <1>6, <1>7, <1>8, AccountReads

LEMMA CheckCodeKeeps ==
    ASSUME AccountIInv, NEW i \in AccountSlots, CheckCode(i), UNCHANGED accountGhosts
    PROVE  AccountIInv'
<1>b. PICK k : k = accountCalls[i]
  OBVIOUS
<1>1. k.op = "sync" /\ k.at = "code" /\ UNCHANGED accountTables
  BY <1>b DEF CheckCode, AccountAt
<1>2. /\ k \in SyncCalls /\ k # NoAccountCall /\ SyncFits(k, users)
      /\ accountCalls \in [AccountSlots -> AccountCalls]
  BY <1>1, <1>b, SyncCallOf DEF AccountIInv, AccountsTyped
<1>3. \A u : ~Settles(k, u) /\ ~WillFlag(k, u)
  BY <1>1 DEF Settles, WillFlag, WroteRow
<1>4. CASE Owner(k.code, k.user)
  <2>1. accountCalls' = [accountCalls EXCEPT ![i] = NoAccountCall]
    BY <1>4, <1>b DEF CheckCode, AccountEnd
  <2>2. Throttled(k, users, signups) => Throttled(NoAccountCall, users, signups)
    BY NoAccountCallShape DEF Throttled, LetIn
  <2> QED  BY <2>1, <2>2, <1>b, <1>1, <1>2, <1>3, NoAccountCallShape, AccountReads
<1>5. CASE ~Owner(k.code, k.user)
  <2>1. PICK c : c = MovedTo(k, "write")
    OBVIOUS
  <2>2. accountCalls' = [accountCalls EXCEPT ![i] = c]
    BY <1>5, <1>b, <1>2, <2>1 DEF CheckCode, AccountGo, MovedTo
  <2>3. /\ c \in AccountCalls /\ c.at = "write" /\ c.op = "sync" /\ c.user = k.user
        /\ c.known = k.known
    <3>1. "write" \in AccountPlaces
      BY DEF AccountPlaces
    <3> QED  BY <3>1, <1>2, <2>1, SyncGoes
  <2>4. SyncFits(c, users)
    BY <1>1, <1>2, <2>3 DEF SyncFits, WroteRow
  <2>5. Throttled(k, users, signups) => Throttled(c, users, signups)
    BY <1>1, <2>3 DEF Throttled, LetIn
  <2> QED  BY <2>2, <2>3, <2>4, <2>5, <1>b, <1>1, <1>2, <1>3, AccountReads
<1> QED  BY <1>4, <1>5

LEMMA ReadReasonsKeeps ==
    ASSUME AccountIInv, NEW i \in AccountSlots, ReadReasons(i), UNCHANGED accountGhosts
    PROVE  AccountIInv'
<1>b. PICK k : k = accountCalls[i]
  OBVIOUS
<1>1. k.op = "sync" /\ k.at = "count" /\ UNCHANGED accountTables
  BY <1>b DEF ReadReasons, AccountAt
<1>2. /\ k \in SyncCalls /\ k # NoAccountCall /\ SyncFits(k, users)
      /\ accountCalls \in [AccountSlots -> AccountCalls]
  BY <1>1, <1>b, SyncCallOf DEF AccountIInv, AccountsTyped
<1>3. PICK place : place = IF ShouldFlag(Stored(k.user)) THEN "flag" ELSE "stats"
  OBVIOUS
<1>4. PICK c : c = MovedTo(k, place)
  OBVIOUS
<1>5. accountCalls' = [accountCalls EXCEPT ![i] = c]
  BY <1>b, <1>2, <1>3, <1>4 DEF ReadReasons, AccountGo, MovedTo
<1>6. /\ place \in {"flag", "stats"}
      /\ c \in AccountCalls /\ c.at = place /\ c.op = "sync" /\ c.user = k.user
      /\ c.known = k.known
  <2>1. place \in AccountPlaces /\ place \in {"flag", "stats"}
    BY <1>3 DEF AccountPlaces
  <2> QED  BY <2>1, <1>2, <1>4, SyncGoes
<1>7. SyncFits(c, users)
  BY <1>1, <1>2, <1>6 DEF SyncFits, WroteRow
<1>8. \A u : Settles(k, u) => Settles(c, u)
  BY <1>1, <1>6 DEF Settles, WroteRow
<1>9. ASSUME NEW u \in Accounts,
             (ShouldFlag(Stored(u)) => users[u].flagged) \/ WillFlag(k, u)
      PROVE  (ShouldFlag(Stored(u)) => users[u].flagged) \/ WillFlag(c, u)
  BY <1>1, <1>3, <1>6, <1>9 DEF WillFlag
<1>10. Throttled(k, users, signups) => Throttled(c, users, signups)
  BY <1>6 DEF Throttled, LetIn
<1> QED  BY <1>b, <1>1, <1>2, <1>5, <1>6, <1>7, <1>8, <1>9, <1>10, AccountReads
----------------------------------------------------------------------------
(* A step that writes one row, and not its code.                           *)
LEMMA RowWrites ==
    ASSUME AccountIInv, NEW i \in AccountSlots, NEW k, k = accountCalls[i], k # NoAccountCall,
           NEW c \in AccountCalls, accountCalls' = [accountCalls EXCEPT ![i] = c],
           NEW u \in Accounts, NEW row \in Rows, users' = [users EXCEPT ![u] = row],
           row.code = users[u].code, users[u].flagged => row.flagged,
           UNCHANGED <<days, events, signups, keyed>>, UNCHANGED accountGhosts,
           SyncFits(c, users),
           \A v \in Accounts :
               /\ Settles(k, v) => Settles(c, v) \/ (v = u /\ row.lifetime >= days[v])
               /\ WillFlag(k, v) => WillFlag(c, v) \/ (v = u /\ row.flagged),
           row.lifetime = users[u].lifetime \/ row.lifetime >= days[u],
           ~meddled /\ Throttled(k, users, signups) => Throttled(c, users, signups)
    PROVE  AccountIInv'
<1>a. /\ days' = days /\ events' = events /\ signups' = signups
      /\ accountFaults' = accountFaults /\ meddled' = meddled
      /\ AccountsTyped /\ ReasonsHaveRows /\ IsFiniteSet(SignedUp(users))
      /\ ~meddled => Throttled(NoAccountCall, users, signups)
  BY DEF accountGhosts, AccountIInv, InTurn
<1>b. users \in [Accounts -> Rows] /\ accountCalls \in [AccountSlots -> AccountCalls]
  BY <1>a DEF AccountsTyped
<1>1. /\ users' \in [Accounts -> Rows] /\ users'[u] = row
      /\ \A v \in Accounts \ {u} : users'[v] = users[v]
      /\ accountCalls' \in [AccountSlots -> AccountCalls]
  BY <1>b
<1>2. \A v \in Accounts : users'[v].code = users[v].code
  BY <1>1
<1>3. SignedUp(users') = SignedUp(users)
  BY <1>2 DEF SignedUp
<1>4. AccountsTyped'
  BY <1>a, <1>1 DEF AccountsTyped
<1>5. ReasonsHaveRows' /\ \A v \in Accounts : Stored(v)' = Stored(v)
  BY <1>a, <1>2 DEF ReasonsHaveRows, Stored
<1>6. ASSUME NEW v \in Accounts
      PROVE  /\ users[v].lifetime >= days[v] \/ Settles(k, v)
                  => users'[v].lifetime >= days'[v] \/ Settles(c, v)
             /\ (ShouldFlag(Stored(v)) => users[v].flagged) \/ WillFlag(k, v)
                  => (ShouldFlag(Stored(v)') => users'[v].flagged) \/ WillFlag(c, v)
  <2>1. CASE v = u
    BY <2>1, <1>a, <1>1, <1>5
  <2>2. CASE v # u
    BY <2>2, <1>a, <1>1, <1>5
  <2> QED  BY <2>1, <2>2
<1>7. SyncFits(c, users')
  <2>1. c.op = "sync" => c.user \in Accounts
    BY NoAccountCallShape DEF AccountCalls, SyncCalls, OtherCalls
  <2> QED  BY <2>1, <1>2 DEF SyncFits
<1>8. ~meddled => /\ Throttled(k, users, signups) => Throttled(c, users', signups')
                  /\ Throttled(NoAccountCall, users', signups')
  BY <1>a, <1>3 DEF Throttled
<1>9. /\ IsFiniteSet(SignedUp(users'))
      /\ \A v \in Accounts : users[v].code # NoCode => users'[v].code # NoCode
      /\ accountFaults' = 0 => accountFaults = 0
  BY <1>a, <1>2, <1>3
<1> QED  BY <1>a, <1>4, <1>5, <1>6, <1>7, <1>8, <1>9, AccountMoves

LEMMA HashSecretKeeps ==
    ASSUME AccountIInv, NEW i \in AccountSlots, HashSecret(i), UNCHANGED accountGhosts
    PROVE  AccountIInv'
<1>b. PICK k : k = accountCalls[i]
  OBVIOUS
<1>1. k.op = "sync" /\ k.at = "hash" /\ UNCHANGED <<days, events, signups, keyed>>
  BY <1>b DEF HashSecret, AccountAt
<1>2. /\ k \in SyncCalls /\ k # NoAccountCall /\ SyncFits(k, users) /\ k.user \in Accounts
      /\ accountCalls \in [AccountSlots -> AccountCalls]
      /\ users \in [Accounts -> Rows] /\ users[k.user] \in Rows
  BY <1>1, <1>b, SyncCallOf DEF AccountIInv, AccountsTyped
<1>3. PICK row : row = [users[k.user] EXCEPT !.hashed = TRUE]
  OBVIOUS
<1>4. /\ row \in Rows /\ row.code = users[k.user].code
      /\ row.flagged = users[k.user].flagged /\ row.lifetime = users[k.user].lifetime
  BY <1>2, <1>3 DEF Rows
<1>5. users' = [users EXCEPT ![k.user] = row]
  BY <1>b, <1>2, <1>3 DEF HashSecret
<1>6. PICK c : c = MovedTo(k, "code")
  OBVIOUS
<1>7. accountCalls' = [accountCalls EXCEPT ![i] = c]
  BY <1>b, <1>2, <1>6 DEF HashSecret, AccountGo, MovedTo
<1>8. /\ c \in AccountCalls /\ c.at = "code" /\ c.op = "sync" /\ c.user = k.user
      /\ c.known = k.known
  <2>1. "code" \in AccountPlaces
    BY DEF AccountPlaces
  <2> QED  BY <2>1, <1>2, <1>6, SyncGoes
<1>9. SyncFits(c, users)
  BY <1>1, <1>2, <1>8 DEF SyncFits, WroteRow
<1>10. \A v : ~Settles(k, v) /\ ~WillFlag(k, v)
  BY <1>1 DEF Settles, WillFlag, WroteRow
<1>11. Throttled(k, users, signups) => Throttled(c, users, signups)
  BY <1>1, <1>2, <1>8 DEF Throttled, LetIn, SyncFits
<1> QED  BY <1>b, <1>1, <1>2, <1>4, <1>5, <1>7, <1>8, <1>9, <1>10, <1>11, RowWrites, ZenonT(60)

LEMMA MarkFlaggedKeeps ==
    ASSUME AccountIInv, NEW i \in AccountSlots, MarkFlagged(i), UNCHANGED accountGhosts
    PROVE  AccountIInv'
<1>b. PICK k : k = accountCalls[i]
  OBVIOUS
<1>1. k.op = "sync" /\ k.at = "flag" /\ UNCHANGED <<days, events, signups, keyed>>
  BY <1>b DEF MarkFlagged, AccountAt
<1>2. /\ k \in SyncCalls /\ k # NoAccountCall /\ SyncFits(k, users) /\ k.user \in Accounts
      /\ accountCalls \in [AccountSlots -> AccountCalls]
      /\ users \in [Accounts -> Rows] /\ users[k.user] \in Rows
  BY <1>1, <1>b, SyncCallOf DEF AccountIInv, AccountsTyped
<1>3. PICK row : row = [users[k.user] EXCEPT !.flagged = TRUE]
  OBVIOUS
<1>4. /\ row \in Rows /\ row.code = users[k.user].code
      /\ row.flagged /\ row.lifetime = users[k.user].lifetime
  BY <1>2, <1>3 DEF Rows
<1>5. users' = [users EXCEPT ![k.user] = row]
  BY <1>b, <1>2, <1>3 DEF MarkFlagged
<1>6. PICK c : c = MovedTo(k, "stats")
  OBVIOUS
<1>7. accountCalls' = [accountCalls EXCEPT ![i] = c]
  BY <1>b, <1>2, <1>6 DEF MarkFlagged, AccountGo, MovedTo
<1>8. /\ c \in AccountCalls /\ c.at = "stats" /\ c.op = "sync" /\ c.user = k.user
      /\ c.known = k.known
  <2>1. "stats" \in AccountPlaces
    BY DEF AccountPlaces
  <2> QED  BY <2>1, <1>2, <1>6, SyncGoes
<1>9. SyncFits(c, users)
  BY <1>1, <1>2, <1>8 DEF SyncFits, WroteRow
<1>10. \A v : /\ Settles(k, v) => Settles(c, v)
              /\ WillFlag(k, v) => v = k.user
  BY <1>1, <1>8 DEF Settles, WillFlag, WroteRow
<1>11. Throttled(k, users, signups) => Throttled(c, users, signups)
  BY <1>1, <1>8 DEF Throttled, LetIn
<1> QED  BY <1>b, <1>1, <1>2, <1>4, <1>5, <1>7, <1>8, <1>9, <1>10, <1>11, RowWrites, ZenonT(60)

LEMMA ReconcileKeeps ==
    ASSUME AccountIInv, NEW i \in AccountSlots, ReconcileLifetimeTotals(i),
           UNCHANGED accountGhosts
    PROVE  AccountIInv'
<1>b. PICK k : k = accountCalls[i]
  OBVIOUS
<1>1. k.op = "sync" /\ k.at = "reconcile" /\ UNCHANGED <<days, events, signups, keyed>>
  BY <1>b DEF ReconcileLifetimeTotals, AccountAt
<1>2. /\ k \in SyncCalls /\ k # NoAccountCall /\ k.user \in Accounts
      /\ users \in [Accounts -> Rows] /\ users[k.user] \in Rows /\ days[k.user] \in Nat
  BY <1>1, <1>b, SyncCallOf DEF AccountIInv, AccountsTyped
<1>3. PICK n : n = IF users[k.user].lifetime < days[k.user] THEN days[k.user]
                   ELSE users[k.user].lifetime
  OBVIOUS
<1>4. n \in Nat /\ n >= days[k.user]
  <2>1. users[k.user].lifetime \in Nat
    BY <1>2 DEF Rows
  <2> QED  BY <2>1, <1>2, <1>3
<1>5. PICK row : row = [users[k.user] EXCEPT !.lifetime = n]
  OBVIOUS
<1>6. /\ row \in Rows /\ row.code = users[k.user].code
      /\ row.flagged = users[k.user].flagged /\ row.lifetime = n
  BY <1>2, <1>4, <1>5 DEF Rows
<1>7. users' = [users EXCEPT ![k.user] = row]
  BY <1>b, <1>2, <1>3, <1>5 DEF ReconcileLifetimeTotals
<1>8. accountCalls' = [accountCalls EXCEPT ![i] = NoAccountCall]
  BY DEF ReconcileLifetimeTotals, AccountEnd
<1>9. \A v : Settles(k, v) => v = k.user
  BY DEF Settles
<1>10. \A v : ~WillFlag(k, v)
  BY <1>1 DEF WillFlag
<1>11. Throttled(k, users, signups) => Throttled(NoAccountCall, users, signups)
  BY NoAccountCallShape DEF Throttled, LetIn
<1> QED  BY <1>b, <1>1, <1>2, <1>4, <1>6, <1>7, <1>8, <1>9, <1>10, <1>11, NoAccountCallShape,
            RowWrites, ZenonT(60)

LEMMA OtherCallOf ==
    ASSUME AccountIInv, NEW i \in AccountSlots, NEW k, k = accountCalls[i],
           k.op \in {"purge", "migrate"}
    PROVE  /\ k \in OtherCalls /\ k # NoAccountCall /\ k.found \subseteq Accounts
           /\ \A u : ~Settles(k, u) /\ ~WillFlag(k, u)
           /\ \A c, rows, n : /\ c.op = k.op
                              => /\ Throttled(k, rows, n) <=> Throttled(c, rows, n)
                                 /\ SyncFits(c, rows)
                                 /\ \A u : ~Settles(c, u) /\ ~WillFlag(c, u)
<1>1. k \in OtherCalls
  <2>1. k \in AccountCalls
    BY DEF AccountIInv, AccountsTyped
  <2> QED  BY <2>1, NoAccountCallShape DEF AccountCalls, SyncCalls
<1> QED  BY <1>1, NoAccountCallShape
         DEF Settles, WillFlag, Throttled, LetIn, SyncFits, OtherCalls

LEMMA AdminReadsKeeps ==
    ASSUME AccountIInv, NEW i \in AccountSlots, AdminReads(i), UNCHANGED accountGhosts
    PROVE  AccountIInv'
<1>b. PICK k : k = accountCalls[i]
  OBVIOUS
<1>1. k.op = "migrate" /\ k.at = "read" /\ UNCHANGED accountTables
  BY <1>b DEF AdminReads, AccountAt
<1>2. /\ k \in OtherCalls /\ k # NoAccountCall
      /\ \A u : ~Settles(k, u) /\ ~WillFlag(k, u)
      /\ \A c, rows, n : /\ c.op = k.op
                         => /\ Throttled(k, rows, n) <=> Throttled(c, rows, n)
                            /\ SyncFits(c, rows)
      /\ accountCalls \in [AccountSlots -> AccountCalls]
  BY <1>b, <1>1, OtherCallOf DEF AccountIInv, AccountsTyped
<1>3. CASE ~keyed
  <2>1. accountCalls' = [accountCalls EXCEPT ![i] = NoAccountCall]
    BY <1>3 DEF AdminReads, AccountEnd
  <2>2. Throttled(k, users, signups) => Throttled(NoAccountCall, users, signups)
    BY NoAccountCallShape DEF Throttled, LetIn
  <2> QED  BY <2>1, <2>2, <1>b, <1>1, <1>2, NoAccountCallShape, AccountReads
<1>4. CASE keyed
  <2>1. PICK c : c = [k EXCEPT !.found = {u \in Accounts : Exists(u) /\ ~users[u].hashed},
                               !.at = "write"]
    OBVIOUS
  <2>2. accountCalls' = [accountCalls EXCEPT ![i] = c]
    BY <1>4, <1>b, <1>2, <2>1 DEF AdminReads
  <2>3. c \in AccountCalls /\ c.op = k.op
    <3>1. PICK f \in SUBSET Accounts : f = {u \in Accounts : Exists(u) /\ ~users[u].hashed}
      OBVIOUS
    <3>2. c = [k EXCEPT !.found = f, !.at = "write"]
      BY <2>1, <3>1
    <3>3. c \in OtherCalls /\ c.op = k.op
      BY <1>2, <3>2 DEF OtherCalls
    <3> QED  BY <3>3 DEF AccountCalls
  <2> QED  BY <2>2, <2>3, <1>b, <1>1, <1>2, AccountReads
<1> QED  BY <1>3, <1>4

LEMMA AdminHashesKeeps ==
    ASSUME AccountIInv, NEW i \in AccountSlots, AdminHashes(i), UNCHANGED accountGhosts
    PROVE  AccountIInv'
<1>b. PICK k : k = accountCalls[i]
  OBVIOUS
<1>1. k.op = "migrate" /\ k.at = "write" /\ UNCHANGED <<days, events, signups, keyed>>
  BY <1>b DEF AdminHashes, AccountAt
<1>2. /\ k \in OtherCalls /\ k # NoAccountCall /\ k.found \subseteq Accounts
      /\ \A u : ~Settles(k, u) /\ ~WillFlag(k, u)
      /\ \A c, rows, n : /\ c.op = k.op
                         => /\ Throttled(k, rows, n) <=> Throttled(c, rows, n)
                            /\ SyncFits(c, rows)
      /\ accountCalls \in [AccountSlots -> AccountCalls]
      /\ users \in [Accounts -> Rows]
  BY <1>b, <1>1, OtherCallOf DEF AccountIInv, AccountsTyped
<1>3. CASE k.found = {}
  <2>1. accountCalls' = [accountCalls EXCEPT ![i] = NoAccountCall] /\ UNCHANGED accountTables
    BY <1>1, <1>3, <1>b DEF AdminHashes, AccountEnd, accountTables
  <2>2. Throttled(k, users, signups) => Throttled(NoAccountCall, users, signups)
    BY NoAccountCallShape DEF Throttled, LetIn
  <2> QED  BY <2>1, <2>2, <1>b, <1>1, <1>2, NoAccountCallShape, AccountReads
<1>4. CASE k.found # {}
  <2>1. PICK u \in k.found : /\ users' = [users EXCEPT ![u].hashed = TRUE]
                             /\ accountCalls' = [accountCalls EXCEPT ![i].found = @ \ {u}]
    BY <1>4, <1>b DEF AdminHashes
  <2>2. PICK c : c = [k EXCEPT !.found = @ \ {u}]
    OBVIOUS
  <2>3. accountCalls' = [accountCalls EXCEPT ![i] = c]
    BY <1>b, <1>2, <2>1, <2>2
  <2>4. c \in AccountCalls /\ c.op = k.op
    <3>1. c \in OtherCalls /\ c.op = k.op
      BY <1>2, <2>2 DEF OtherCalls
    <3> QED  BY <3>1 DEF AccountCalls
  <2>5. PICK row : row = [users[u] EXCEPT !.hashed = TRUE]
    OBVIOUS
  <2>6. u \in Accounts /\ users[u] \in Rows
    BY <1>2, <2>1
  <2>7. /\ row \in Rows /\ row.code = users[u].code
        /\ row.flagged = users[u].flagged /\ row.lifetime = users[u].lifetime
    BY <2>5, <2>6 DEF Rows
  <2>8. users' = [users EXCEPT ![u] = row]
    BY <1>2, <2>1, <2>5, <2>6
  <2> QED  BY <2>3, <2>4, <2>6, <2>7, <2>8, <1>b, <1>1, <1>2, RowWrites, ZenonT(60)
<1> QED  BY <1>3, <1>4
----------------------------------------------------------------------------
LEMMA PutThrottleKeeps ==
    ASSUME AccountIInv, NEW i \in AccountSlots, PutThrottle(i), UNCHANGED accountGhosts
    PROVE  AccountIInv'
<1>b. PICK k : k = accountCalls[i]
  OBVIOUS
<1>1. /\ k.op = "sync" /\ k.at = "put" /\ signups' = k.count
      /\ users' = users /\ days' = days /\ events' = events /\ keyed' = keyed
      /\ accountFaults' = accountFaults /\ meddled' = meddled
      /\ IF k.count <= SignupLimit THEN AccountGo(i, "code") ELSE AccountEnd(i)
  BY <1>b DEF PutThrottle, AccountAt, Allowed, accountGhosts
<1>2. /\ k \in SyncCalls /\ k # NoAccountCall /\ SyncFits(k, users) /\ k.count \in Int
      /\ accountCalls \in [AccountSlots -> AccountCalls] /\ AccountsTyped
      /\ ReasonsHaveRows /\ IsFiniteSet(SignedUp(users)) /\ signups \in Int
  BY <1>1, <1>b, SyncCallOf DEF AccountIInv, AccountsTyped
<1>3. PICK n : n = Cardinality(SignedUp(users))
  OBVIOUS
<1>4. n \in Nat
  BY <1>2, <1>3, FS_CardinalityType
<1>5. PICK c : c = IF k.count <= SignupLimit THEN MovedTo(k, "code") ELSE NoAccountCall
  OBVIOUS
<1>6. accountCalls' = [accountCalls EXCEPT ![i] = c]
  BY <1>b, <1>1, <1>2, <1>5 DEF AccountGo, AccountEnd, MovedTo
<1>7. /\ c \in AccountCalls /\ SyncFits(c, users)
      /\ \/ c = NoAccountCall
         \/ c.at = "code" /\ c.op = "sync" /\ k.count <= SignupLimit
  <2>1. CASE k.count <= SignupLimit
    <3>1. "code" \in AccountPlaces
      BY DEF AccountPlaces
    <3>2. /\ c \in AccountCalls /\ c.at = "code" /\ c.op = "sync" /\ c.user = k.user
          /\ c.known = k.known
      BY <3>1, <2>1, <1>2, <1>5, SyncGoes
    <3>3. SyncFits(c, users)
      BY <1>1, <1>2, <3>2 DEF SyncFits, WroteRow
    <3> QED  BY <2>1, <3>2, <3>3
  <2>2. CASE ~(k.count <= SignupLimit)
    BY <2>2, <1>5, NoAccountCallShape
  <2> QED  BY <2>1, <2>2
<1>8. \A v : ~Settles(k, v) /\ ~WillFlag(k, v)
  BY <1>1 DEF Settles, WillFlag, WroteRow
<1>9. ASSUME ~meddled
      PROVE  /\ Throttled(k, users, signups) => Throttled(c, users', signups')
             /\ Throttled(NoAccountCall, users', signups')
  <2>1. Throttled(k, users, signups)
    <3>1. i \in AccountBusy
      BY <1>b, <1>1 DEF AccountBusy
    <3> QED  BY <3>1, <1>9, <1>b DEF AccountIInv, InTurn
  <2>2. n <= signups /\ n <= SignupLimit /\ k.count = signups + 1
    BY <2>1, <1>1, <1>3 DEF Throttled
  <2>3. n <= k.count /\ n + 1 <= k.count
    BY <2>2, <1>2, <1>4
  <2>4. Throttled(NoAccountCall, users, k.count)
    BY <2>2, <2>3, <1>3, NoAccountCallShape DEF Throttled, LetIn
  <2>5. Throttled(c, users, k.count)
    <3>1. CASE c = NoAccountCall
      BY <3>1, <2>4
    <3>2. CASE c.at = "code" /\ c.op = "sync" /\ k.count <= SignupLimit
      BY <3>2, <2>2, <2>3, <1>3 DEF Throttled
    <3> QED  BY <3>1, <3>2, <1>7
  <2> QED  BY <2>4, <2>5, <1>1
<1>10. AccountsTyped'
  <2>1. accountCalls' \in [AccountSlots -> AccountCalls]
    BY <1>2, <1>6, <1>7
  <2> QED  BY <2>1, <1>1, <1>2 DEF AccountsTyped
<1>11. ReasonsHaveRows' /\ \A v \in Accounts : Stored(v)' = Stored(v)
  BY <1>1, <1>2 DEF ReasonsHaveRows, Stored
<1>12. \A u \in Accounts :
        /\ users[u].lifetime >= days[u] \/ Settles(k, u)
             => users'[u].lifetime >= days'[u] \/ Settles(c, u)
        /\ (ShouldFlag(Stored(u)) => users[u].flagged) \/ WillFlag(k, u)
             => (ShouldFlag(Stored(u)') => users'[u].flagged) \/ WillFlag(c, u)
  BY <1>1, <1>8, <1>11
<1>13. /\ SyncFits(c, users') /\ IsFiniteSet(SignedUp(users'))
       /\ \A u \in Accounts : users[u].code # NoCode => users'[u].code # NoCode
       /\ accountFaults' = 0 => accountFaults = 0
  BY <1>1, <1>2, <1>7
<1> QED  BY <1>b, <1>1, <1>2, <1>6, <1>7, <1>9, <1>10, <1>11, <1>12, <1>13, AccountMoves

LEMMA WriteDaysKeeps ==
    ASSUME AccountIInv, NEW i \in AccountSlots, WriteDays(i), UNCHANGED accountGhosts
    PROVE  AccountIInv'
<1>b. PICK k : k = accountCalls[i]
  OBVIOUS
<1>1. /\ k.op = "sync" /\ k.at = "stats" /\ days' = [days EXCEPT ![k.user] = k.sum]
      /\ users' = users /\ events' = events /\ signups' = signups /\ keyed' = keyed
      /\ accountFaults' = accountFaults /\ meddled' = meddled
  BY <1>b DEF WriteDays, AccountAt, accountGhosts
<1>2. /\ k \in SyncCalls /\ k # NoAccountCall /\ SyncFits(k, users) /\ k.user \in Accounts
      /\ k.sum \in Nat
      /\ accountCalls \in [AccountSlots -> AccountCalls] /\ AccountsTyped
      /\ ReasonsHaveRows /\ IsFiniteSet(SignedUp(users)) /\ days \in [Accounts -> Nat]
      /\ ~meddled => Throttled(NoAccountCall, users, signups)
  BY <1>1, <1>b, SyncCallOf DEF AccountIInv, AccountsTyped, InTurn
<1>3. PICK c : c = MovedTo(k, "reconcile")
  OBVIOUS
<1>4. accountCalls' = [accountCalls EXCEPT ![i] = c]
  BY <1>b, <1>2, <1>3 DEF WriteDays, AccountGo, MovedTo
<1>5. /\ c \in AccountCalls /\ c.at = "reconcile" /\ c.op = "sync" /\ c.user = k.user
      /\ c.known = k.known
  <2>1. "reconcile" \in AccountPlaces
    BY DEF AccountPlaces
  <2> QED  BY <2>1, <1>2, <1>3, SyncGoes
<1>6. SyncFits(c, users)
  BY <1>1, <1>2, <1>5 DEF SyncFits, WroteRow
<1>7. AccountsTyped'
  <2>1. accountCalls' \in [AccountSlots -> AccountCalls] /\ days' \in [Accounts -> Nat]
    BY <1>1, <1>2, <1>4, <1>5
  <2> QED  BY <2>1, <1>1, <1>2 DEF AccountsTyped
<1>8. ReasonsHaveRows' /\ \A v \in Accounts : Stored(v)' = Stored(v)
  BY <1>1, <1>2 DEF ReasonsHaveRows, Stored
<1>9. \A u : ~WillFlag(k, u) /\ (Settles(c, u) <=> u = k.user)
  BY <1>1, <1>5 DEF WillFlag, Settles, WroteRow
<1>10. \A u : Settles(k, u) <=> u = k.user
  BY <1>1 DEF Settles, WroteRow
<1>11. \A u \in Accounts : u # k.user => days'[u] = days[u]
  BY <1>1, <1>2
<1>12. \A u \in Accounts :
        /\ users[u].lifetime >= days[u] \/ Settles(k, u)
             => users'[u].lifetime >= days'[u] \/ Settles(c, u)
        /\ (ShouldFlag(Stored(u)) => users[u].flagged) \/ WillFlag(k, u)
             => (ShouldFlag(Stored(u)') => users'[u].flagged) \/ WillFlag(c, u)
  BY <1>1, <1>8, <1>9, <1>10, <1>11
<1>13. Throttled(k, users, signups) => Throttled(c, users, signups)
  BY <1>5 DEF Throttled, LetIn
<1>14. ~meddled => /\ Throttled(k, users, signups) => Throttled(c, users', signups')
                   /\ Throttled(NoAccountCall, users', signups')
  BY <1>1, <1>2, <1>13
<1>15. /\ SyncFits(c, users') /\ IsFiniteSet(SignedUp(users'))
       /\ \A u \in Accounts : users[u].code # NoCode => users'[u].code # NoCode
       /\ accountFaults' = 0 => accountFaults = 0
  BY <1>1, <1>2, <1>6
<1> QED  BY <1>b, <1>1, <1>2, <1>4, <1>5, <1>7, <1>8, <1>12, <1>14, <1>15, AccountMoves

(* Steps that write the reasons: what they leave of them.                  *)
LEMMA ReasonsWrite ==
    ASSUME AccountIInv, NEW i \in AccountSlots, NEW k, k = accountCalls[i], k # NoAccountCall,
           NEW c \in AccountCalls, accountCalls' = [accountCalls EXCEPT ![i] = c],
           UNCHANGED <<users, days, signups, keyed>>, UNCHANGED accountGhosts,
           events' \in [Accounts -> [Reasons -> {"no", "new", "old"}]],
           ReasonsHaveRows',
           SyncFits(c, users),
           \A u \in Accounts :
               /\ Settles(k, u) => Settles(c, u)
               /\ (ShouldFlag(Stored(u)) => users[u].flagged) \/ WillFlag(k, u)
                      => (ShouldFlag(Stored(u)') => users[u].flagged) \/ WillFlag(c, u),
           ~meddled /\ Throttled(k, users, signups) => Throttled(c, users, signups)
    PROVE  AccountIInv'
<1>a. /\ users' = users /\ days' = days /\ signups' = signups
      /\ accountFaults' = accountFaults /\ meddled' = meddled
      /\ AccountsTyped /\ IsFiniteSet(SignedUp(users))
      /\ ~meddled => Throttled(NoAccountCall, users, signups)
  BY DEF accountGhosts, AccountIInv, InTurn
<1>1. AccountsTyped'
  BY <1>a DEF AccountsTyped
<1>3. \A u \in Accounts :
        /\ users[u].lifetime >= days[u] \/ Settles(k, u)
             => users'[u].lifetime >= days'[u] \/ Settles(c, u)
        /\ (ShouldFlag(Stored(u)) => users[u].flagged) \/ WillFlag(k, u)
             => (ShouldFlag(Stored(u)') => users'[u].flagged) \/ WillFlag(c, u)
  BY <1>a
<1>4. ~meddled => /\ Throttled(k, users, signups) => Throttled(c, users', signups')
                  /\ Throttled(NoAccountCall, users', signups')
  BY <1>a
<1>5. /\ SyncFits(c, users') /\ IsFiniteSet(SignedUp(users'))
      /\ \A u \in Accounts : users[u].code # NoCode => users'[u].code # NoCode
      /\ accountFaults' = 0 => accountFaults = 0
  BY <1>a
<1> QED  BY <1>a, <1>1, <1>3, <1>4, <1>5, AccountMoves

LEMMA RecordFlagSignalKeeps ==
    ASSUME AccountIInv, NEW i \in AccountSlots, RecordFlagSignal(i), UNCHANGED accountGhosts
    PROVE  AccountIInv'
<1>b. PICK k : k = accountCalls[i]
  OBVIOUS
<1>1. /\ k.op = "sync" /\ k.at = "record" /\ UNCHANGED <<users, days, signups, keyed>>
      /\ events' = [events EXCEPT ![k.user] =
                      [r \in Reasons |-> IF r \in k.reasons /\ events[k.user][r] = "no" THEN "new"
                                         ELSE events[k.user][r]]]
  BY <1>b DEF RecordFlagSignal, AccountAt
<1>2. /\ k \in SyncCalls /\ k # NoAccountCall /\ SyncFits(k, users) /\ k.user \in Accounts
      /\ IsFiniteSet(k.reasons)
      /\ accountCalls \in [AccountSlots -> AccountCalls]
      /\ events \in [Accounts -> [Reasons -> {"no", "new", "old"}]] /\ ReasonsHaveRows
  BY <1>1, <1>b, SyncCallOf DEF AccountIInv, AccountsTyped
<1>3. PICK c : c = MovedTo(k, "count")
  OBVIOUS
<1>4. accountCalls' = [accountCalls EXCEPT ![i] = c]
  BY <1>b, <1>2, <1>3 DEF RecordFlagSignal, AccountGo, MovedTo
<1>5. /\ c \in AccountCalls /\ c.at = "count" /\ c.op = "sync" /\ c.user = k.user
      /\ c.known = k.known
  <2>1. "count" \in AccountPlaces
    BY DEF AccountPlaces
  <2> QED  BY <2>1, <1>2, <1>3, SyncGoes
<1>6. SyncFits(c, users)
  BY <1>1, <1>2, <1>5 DEF SyncFits, WroteRow
<1>7. events' \in [Accounts -> [Reasons -> {"no", "new", "old"}]]
  <2>1. PICK row : row = [r \in Reasons |-> IF r \in k.reasons /\ events[k.user][r] = "no"
                                            THEN "new" ELSE events[k.user][r]]
    OBVIOUS
  <2>2. row \in [Reasons -> {"no", "new", "old"}]
    BY <2>1, <1>2
  <2> QED  BY <2>1, <2>2, <1>1, <1>2
<1>8. \A u \in Accounts : u # k.user => Stored(u)' = Stored(u)
  BY <1>1, <1>2 DEF Stored
<1>9. Stored(k.user)' \subseteq Stored(k.user) \cup k.reasons
  BY <1>1, <1>2 DEF Stored
<1>10. ReasonsHaveRows'
  <2>1. IsFiniteSet(Stored(k.user)')
    <3>1. IsFiniteSet(Stored(k.user) \cup k.reasons)
      BY <1>2, FS_Union DEF ReasonsHaveRows
    <3> QED  BY <3>1, <1>9, FS_Subset
  <2>2. users[k.user].code # NoCode
    BY <1>1, <1>2 DEF SyncFits, WroteRow
  <2>3. ASSUME NEW u \in Accounts
        PROVE  IsFiniteSet(Stored(u)') /\ (users'[u].code = NoCode => Stored(u)' = {})
    <3>1. CASE u = k.user
      BY <3>1, <2>1, <2>2, <1>1
    <3>2. CASE u # k.user
      BY <3>2, <1>1, <1>2, <1>8 DEF ReasonsHaveRows
    <3> QED  BY <3>1, <3>2
  <2>4. \A u \in Accounts : IsFiniteSet(Stored(u))' <=> IsFiniteSet(Stored(u)')
    BY DEF IsFiniteSet
  <2> QED  BY <2>3, <2>4 DEF ReasonsHaveRows
<1>11. \A u : ~WillFlag(k, u) /\ (WillFlag(c, u) <=> u = k.user)
  BY <1>1, <1>5 DEF WillFlag
<1>12. \A u : Settles(k, u) => Settles(c, u)
  BY <1>1, <1>5 DEF Settles, WroteRow
<1>13. \A u \in Accounts :
               /\ Settles(k, u) => Settles(c, u)
               /\ (ShouldFlag(Stored(u)) => users[u].flagged) \/ WillFlag(k, u)
                      => (ShouldFlag(Stored(u)') => users[u].flagged) \/ WillFlag(c, u)
  BY <1>8, <1>11, <1>12
<1>14. Throttled(k, users, signups) => Throttled(c, users, signups)
  BY <1>5 DEF Throttled, LetIn
<1> QED  BY <1>b, <1>1, <1>2, <1>4, <1>5, <1>6, <1>7, <1>10, <1>13, <1>14, ReasonsWrite

LEMMA FewerReasons ==
    ASSUME NEW more, NEW fewer, fewer \subseteq more, IsFiniteSet(more), ShouldFlag(fewer)
    PROVE  ShouldFlag(more)
<1>1. /\ IsFiniteSet(fewer) /\ Cardinality(fewer) <= Cardinality(more)
      /\ Cardinality(fewer) \in Nat /\ Cardinality(more) \in Nat
  BY FS_Subset, FS_CardinalityType
<1> QED  BY <1>1 DEF ShouldFlag

LEMMA PurgeKeeps ==
    ASSUME AccountIInv, NEW i \in AccountSlots, Purge(i), UNCHANGED accountGhosts
    PROVE  AccountIInv'
<1>b. PICK k : k = accountCalls[i]
  OBVIOUS
<1>1. /\ k.op = "purge" /\ UNCHANGED <<users, days, signups, keyed>>
      /\ events' = [u \in Accounts |->
                      IF users[u].flagged THEN events[u]
                      ELSE [r \in Reasons |-> IF events[u][r] = "old" THEN "no"
                                              ELSE events[u][r]]]
      /\ accountCalls' = [accountCalls EXCEPT ![i] = NoAccountCall]
  BY <1>b DEF Purge, AccountAt, AccountEnd
<1>2. /\ k # NoAccountCall
      /\ \A u : ~Settles(k, u) /\ ~WillFlag(k, u)
      /\ events \in [Accounts -> [Reasons -> {"no", "new", "old"}]] /\ ReasonsHaveRows
  BY <1>b, <1>1, OtherCallOf DEF AccountIInv, AccountsTyped
<1>3. events' \in [Accounts -> [Reasons -> {"no", "new", "old"}]]
  BY <1>1, <1>2
<1>4. \A u \in Accounts : /\ Stored(u)' \subseteq Stored(u)
                          /\ users[u].flagged => Stored(u)' = Stored(u)
  BY <1>1, <1>2 DEF Stored
<1>5. ReasonsHaveRows'
  <2>1. \A u \in Accounts : /\ IsFiniteSet(Stored(u)')
                            /\ users'[u].code = NoCode => Stored(u)' = {}
    BY <1>1, <1>2, <1>4, FS_Subset DEF ReasonsHaveRows
  <2>2. \A u \in Accounts : IsFiniteSet(Stored(u))' <=> IsFiniteSet(Stored(u)')
    BY DEF IsFiniteSet
  <2> QED  BY <2>1, <2>2 DEF ReasonsHaveRows
<1>6. \A u \in Accounts : ShouldFlag(Stored(u)') => ShouldFlag(Stored(u))
  BY <1>2, <1>4, FewerReasons DEF ReasonsHaveRows
<1>7. \A u \in Accounts :
               /\ Settles(k, u) => Settles(NoAccountCall, u)
               /\ (ShouldFlag(Stored(u)) => users[u].flagged) \/ WillFlag(k, u)
                      => (ShouldFlag(Stored(u)') => users[u].flagged)
                         \/ WillFlag(NoAccountCall, u)
  BY <1>2, <1>6
<1>8. Throttled(k, users, signups) => Throttled(NoAccountCall, users, signups)
  BY NoAccountCallShape DEF Throttled, LetIn
<1> QED  BY <1>b, <1>1, <1>2, <1>3, <1>5, <1>7, <1>8, NoAccountCallShape, ReasonsWrite
----------------------------------------------------------------------------
LEMMA WriteUserFails ==
    ASSUME AccountIInv, NEW i \in AccountSlots, NEW k, k = accountCalls[i],
           k.op = "sync", k.at = "write",
           accountCalls' = [accountCalls EXCEPT ![i] = NoAccountCall],
           UNCHANGED accountTables, UNCHANGED accountGhosts
    PROVE  AccountIInv'
<1>1. k # NoAccountCall
  BY SyncCallOf
<1>2. \A u : ~Settles(k, u) /\ ~WillFlag(k, u)
  BY DEF Settles, WillFlag, WroteRow
<1>3. Throttled(k, users, signups) => Throttled(NoAccountCall, users, signups)
  BY NoAccountCallShape DEF Throttled, LetIn
<1> QED  BY <1>1, <1>2, <1>3, NoAccountCallShape, AccountReads

(* The row that is written, new or not, and who goes on with the call.     *)
LEMMA RowComes ==
    ASSUME AccountIInv, NEW i \in AccountSlots, NEW k, k = accountCalls[i],
           k.op = "sync", k.at = "write", k.known <=> users[k.user].code # NoCode,
           NEW row \in Rows, row.code # NoCode, users' = [users EXCEPT ![k.user] = row],
           k.known => row.flagged = users[k.user].flagged,
           NEW c \in AccountCalls, accountCalls' = [accountCalls EXCEPT ![i] = c],
           c.op = "sync", c.user = k.user, c.at \in {"stats", "record"},
           UNCHANGED <<days, events, signups, keyed>>, UNCHANGED accountGhosts
    PROVE  AccountIInv'
<1>1. /\ k \in SyncCalls /\ k # NoAccountCall /\ k.user \in Accounts
      /\ accountCalls \in [AccountSlots -> AccountCalls] /\ users \in [Accounts -> Rows]
      /\ AccountsTyped /\ ReasonsHaveRows /\ IsFiniteSet(SignedUp(users)) /\ signups \in Int
  BY SyncCallOf DEF AccountIInv, AccountsTyped
<1>2. /\ days' = days /\ events' = events /\ signups' = signups
      /\ accountFaults' = accountFaults /\ meddled' = meddled
  BY DEF accountGhosts
<1>3. /\ users'[k.user] = row
      /\ \A u \in Accounts \ {k.user} : users'[u] = users[u]
  BY <1>1
<1>4. AccountsTyped'
  <2>1. accountCalls' \in [AccountSlots -> AccountCalls] /\ users' \in [Accounts -> Rows]
    BY <1>1
  <2> QED  BY <2>1, <1>1, <1>2 DEF AccountsTyped
<1>5. \A u \in Accounts : users[u].code # NoCode => users'[u].code # NoCode
  BY <1>3
<1>6. \A u \in Accounts : Stored(u)' = Stored(u)
  BY <1>2 DEF Stored
<1>7. ReasonsHaveRows'
  <2>1. ASSUME NEW u \in Accounts
        PROVE  IsFiniteSet(Stored(u)') /\ (users'[u].code = NoCode => Stored(u)' = {})
    BY <1>1, <1>5, <1>6 DEF ReasonsHaveRows
  <2>2. \A u \in Accounts : IsFiniteSet(Stored(u))' <=> IsFiniteSet(Stored(u)')
    BY DEF IsFiniteSet
  <2> QED  BY <2>1, <2>2 DEF ReasonsHaveRows
<1>8. SyncFits(c, users')
  BY <1>3 DEF SyncFits
<1>9. Settles(c, k.user) /\ \A u : ~Settles(k, u) /\ ~WillFlag(k, u)
  BY DEF Settles, WillFlag, WroteRow
<1>10. ~ShouldFlag({})
  <2>1. Cardinality({}) = 0
    BY FS_EmptySet
  <2> QED  BY <2>1 DEF ShouldFlag
<1>11. ASSUME NEW u \in Accounts
       PROVE  /\ users[u].lifetime >= days[u] \/ Settles(k, u)
                   => users'[u].lifetime >= days'[u] \/ Settles(c, u)
              /\ (ShouldFlag(Stored(u)) => users[u].flagged) \/ WillFlag(k, u)
                   => (ShouldFlag(Stored(u)') => users'[u].flagged) \/ WillFlag(c, u)
  <2>1. CASE u = k.user
    <3>1. CASE users[u].code # NoCode
      BY <2>1, <3>1, <1>3, <1>6, <1>9
    <3>2. CASE users[u].code = NoCode
      <4>1. Stored(u)' = {}
        BY <3>2, <1>1, <1>6 DEF ReasonsHaveRows
      <4> QED  BY <2>1, <4>1, <1>9, <1>10
    <3> QED  BY <3>1, <3>2
  <2>2. CASE u # k.user
    BY <2>2, <1>2, <1>3, <1>6, <1>9
  <2> QED  BY <2>1, <2>2
<1>12. SignedUp(users') = SignedUp(users) \cup {k.user}
  <2>1. \A u \in Accounts : users'[u].code # NoCode <=> u = k.user \/ users[u].code # NoCode
    BY <1>3
  <2>2. \A u : u \in SignedUp(users') <=> u \in SignedUp(users) \cup {k.user}
    BY <2>1, <1>1 DEF SignedUp
  <2> QED  BY ONLY <2>2
<1>13. IsFiniteSet(SignedUp(users'))
  <2>1. IsFiniteSet(SignedUp(users) \cup {k.user})
    BY ONLY <1>1, FS_AddElement
  <2> QED  BY <2>1, <1>12
<1>14. ASSUME ~meddled
       PROVE  /\ Throttled(k, users, signups) => Throttled(c, users', signups')
              /\ Throttled(NoAccountCall, users', signups')
  <2>1. Throttled(k, users, signups)
    <3>1. i \in AccountBusy
      BY DEF AccountBusy
    <3> QED  BY <3>1, <1>14 DEF AccountIInv, InTurn
  <2>2. PICK n : n = Cardinality(SignedUp(users))
    OBVIOUS
  <2>3. PICK n2 : n2 = Cardinality(SignedUp(users'))
    OBVIOUS
  <2>4. n2 <= signups /\ n2 <= SignupLimit
    <3>1. CASE users[k.user].code # NoCode
      <4>1. k.user \in SignedUp(users)
        BY <3>1, <1>1 DEF SignedUp
      <4>2. SignedUp(users') = SignedUp(users)
        BY <4>1, <1>12
      <4> QED  BY <4>2, <2>1, <2>2, <2>3 DEF Throttled
    <3>2. CASE users[k.user].code = NoCode
      <4>1. k.user \notin SignedUp(users)
        BY <3>2 DEF SignedUp
      <4>2. n2 = n + 1
        BY <4>1, <2>2, <2>3, <1>1, <1>12, FS_AddElement
      <4>3. LetIn(k)
        BY <3>2 DEF LetIn
      <4>4. n + 1 <= signups /\ signups <= SignupLimit
        BY <4>3, <2>1, <2>2 DEF Throttled
      <4>5. n \in Nat
        BY <2>2, <1>1, FS_CardinalityType
      <4> QED  BY <4>2, <4>4, <4>5, <1>1, AccountAssumption
    <3> QED  BY <3>1, <3>2
  <2>5. c.at # "put" /\ ~LetIn(c)
    BY DEF LetIn
  <2>6. Throttled(c, users', signups)
    BY <2>3, <2>4, <2>5 DEF Throttled
  <2>7. Throttled(NoAccountCall, users', signups)
    BY <2>3, <2>4, NoAccountCallShape DEF Throttled, LetIn
  <2> QED  BY <2>6, <2>7, <1>2
<1>15. accountFaults' = 0 => accountFaults = 0
  BY <1>2
<1> QED  BY <1>1, <1>2, <1>4, <1>5, <1>7, <1>8, <1>11, <1>13, <1>14, <1>15, AccountMoves

LEMMA WriteUserKeeps ==
    ASSUME AccountIInv, NEW i \in AccountSlots, WriteUser(i), UNCHANGED accountGhosts
    PROVE  AccountIInv'
<1>b. PICK k : k = accountCalls[i]
  OBVIOUS
<1>1. /\ k.op = "sync" /\ k.at = "write" /\ UNCHANGED <<days, events, signups, keyed>>
  BY <1>b DEF WriteUser, AccountAt
<1>2. /\ k \in SyncCalls /\ k # NoAccountCall /\ SyncFits(k, users) /\ k.user \in Accounts
      /\ k.code \in Codes /\ k.code # NoCode /\ k.known \in BOOLEAN /\ k.lifetime \in Nat
      /\ accountCalls \in [AccountSlots -> AccountCalls] /\ users \in [Accounts -> Rows]
      /\ users[k.user] \in Rows
  BY <1>1, <1>b, SyncCallOf DEF AccountIInv, AccountsTyped
<1>3. CASE Owner(k.code, k.user) \/ k.known # Exists(k.user)
  <2>1. accountCalls' = [accountCalls EXCEPT ![i] = NoAccountCall] /\ users' = users
    BY <1>3, <1>b DEF WriteUser, AccountEnd
  <2>2. UNCHANGED accountTables
    BY <2>1, <1>1 DEF accountTables
  <2> QED  BY <2>1, <2>2, <1>b, <1>1, WriteUserFails
<1>4. CASE ~(Owner(k.code, k.user) \/ k.known # Exists(k.user))
  <2>1. k.known <=> users[k.user].code # NoCode
    BY <1>4, <1>2 DEF Exists
  <2>2. PICK place : place = IF k.reasons = {} THEN "stats" ELSE "record"
    OBVIOUS
  <2>3. PICK c : c = MovedTo(k, place)
    OBVIOUS
  <2>4. /\ c \in AccountCalls /\ c.at = place /\ c.op = "sync" /\ c.user = k.user
        /\ place \in {"stats", "record"}
    <3>1. place \in AccountPlaces /\ place \in {"stats", "record"}
      BY <2>2 DEF AccountPlaces
    <3> QED  BY <3>1, <1>2, <2>3, SyncGoes
  <2>5. accountCalls' = [accountCalls EXCEPT ![i] = c]
    BY <1>4, <1>b, <1>2, <2>2, <2>3 DEF WriteUser, AccountGo, MovedTo
  <2>6. PICK row :
          row = IF k.known THEN [users[k.user] EXCEPT !.code = k.code, !.lifetime = k.lifetime]
                ELSE [code |-> k.code, hashed |-> keyed, lifetime |-> k.lifetime,
                      flagged |-> FALSE]
    OBVIOUS
  <2>7. users' = [users EXCEPT ![k.user] = row]
    BY <1>4, <1>b, <1>2, <2>6 DEF WriteUser
  <2>8. row.code # NoCode /\ (k.known => row.flagged = users[k.user].flagged)
    BY <1>2, <2>6 DEF Rows
  <2>9. row \in Rows
    <3>1. CASE k.known
      BY <3>1, <1>2, <2>6 DEF Rows
    <3>2. CASE ~k.known
      <4>1. keyed \in BOOLEAN
        BY DEF AccountIInv, AccountsTyped
      <4> QED  BY <4>1, <3>2, <1>2, <2>6 DEF Rows
    <3> QED  BY <3>1, <3>2
  <2> QED  BY <1>1, <1>b, <2>1, <2>4, <2>5, <2>7, <2>8, <2>9, RowComes
<1> QED  BY <1>3, <1>4
----------------------------------------------------------------------------
LEMMA AccountReceiveKeeps ==
    ASSUME AccountIInv, NEW i \in AccountSlots, NEW r \in Syncs \cup {Nightly, Admin},
           AccountReceive(i, r)
    PROVE  AccountIInv'
<1>1. /\ accountCalls[i].at = "idle" /\ accountCalls' = [accountCalls EXCEPT ![i] = r]
      /\ users' = users /\ days' = days /\ events' = events /\ signups' = signups
      /\ keyed' = keyed
      /\ accountFaults' = accountFaults /\ meddled' = (meddled \/ ~AccountsQuiet)
  BY DEF AccountReceive, accountTables
<1>2. r \in AccountCalls /\ r # NoAccountCall /\ r.at = "read" /\ ~r.known
  BY RequestShape
<1>3. /\ AccountsTyped /\ CallsFit /\ ReasonsHaveRows /\ IsFiniteSet(SignedUp(users))
      /\ accountCalls \in [AccountSlots -> AccountCalls]
  BY DEF AccountIInv, AccountsTyped
<1>4. /\ accountCalls'[i] = r
      /\ \A j \in AccountSlots \ {i} : accountCalls'[j] = accountCalls[j]
  BY <1>1, <1>3
<1>5. AccountsTyped'
  <2>1. accountCalls' \in [AccountSlots -> AccountCalls]
    BY <1>1, <1>2, <1>3
  <2> QED  BY <2>1, <1>1, <1>3 DEF AccountsTyped
<1>6. ReasonsHaveRows' /\ IsFiniteSet(SignedUp(users)) /\ \A u \in Accounts : Stored(u)' = Stored(u)
  BY <1>1, <1>3 DEF ReasonsHaveRows, Stored
<1>7. CallsFit'
  <2>1. SyncFits(r, users')
    BY <1>2 DEF SyncFits, WroteRow
  <2>2. \A j \in AccountSlots : SyncFits(accountCalls'[j], users')
    BY <1>1, <1>3, <1>4, <2>1 DEF CallsFit
  <2> QED  BY <2>2 DEF CallsFit
<1>8. \A u : ~Settles(accountCalls[i], u) /\ ~WillFlag(accountCalls[i], u)
  BY <1>1 DEF Settles, WillFlag, WroteRow
<1>9. ASSUME accountFaults' = 0, NEW u \in Accounts PROVE TotalKept(u)'
  <2>1. CASE \E j \in AccountSlots : Settles(accountCalls[j], u)
    <3>1. PICK j \in AccountSlots : Settles(accountCalls'[j], u)
      BY <2>1, <1>4, <1>8
    <3> QED  BY <3>1 DEF TotalKept
  <2>2. CASE users[u].lifetime >= days[u]
    BY <2>2, <1>1 DEF TotalKept
  <2> QED  BY <2>1, <2>2, <1>9, <1>1 DEF AccountIInv, TotalKept
<1>10. ASSUME accountFaults' = 0, NEW u \in Accounts PROVE FlagKept(u)'
  <2>1. CASE \E j \in AccountSlots : WillFlag(accountCalls[j], u)
    <3>1. PICK j \in AccountSlots : WillFlag(accountCalls'[j], u)
      BY <2>1, <1>4, <1>8
    <3> QED  BY <3>1 DEF FlagKept
  <2>2. CASE ShouldFlag(Stored(u)) => users[u].flagged
    <3>1. ShouldFlag(Stored(u)') => users'[u].flagged
      BY <2>2, <1>1, <1>6
    <3>2. ShouldFlag(Stored(u))' <=> ShouldFlag(Stored(u)')
      BY DEF ShouldFlag
    <3> QED  BY <3>1, <3>2 DEF FlagKept
  <2> QED  BY <2>1, <2>2, <1>10, <1>1 DEF AccountIInv, FlagKept
<1>11. ASSUME ~meddled' PROVE InTurn'
  <2>1. ~meddled /\ \A j \in AccountSlots : accountCalls[j].at = "idle"
    BY <1>1, <1>11 DEF AccountsQuiet
  <2>2. AccountBusy' \subseteq {i}
    BY <1>4, <2>1 DEF AccountBusy
  <2>3. Throttled(NoAccountCall, users', signups')
    BY <1>1, <2>1 DEF AccountIInv, InTurn
  <2>4. Throttled(r, users', signups')
    BY <2>3, <1>2 DEF Throttled, LetIn
  <2> QED  BY <2>2, <2>3, <2>4, <1>4 DEF InTurn
<1> QED  BY <1>1, <1>5, <1>6, <1>7, <1>9, <1>10, <1>11 DEF AccountIInv

LEMMA AccountFaultKeeps ==
    ASSUME AccountIInv, NEW i \in AccountSlots, AccountFault(i)
    PROVE  AccountIInv'
<1>b. PICK k : k = accountCalls[i]
  OBVIOUS
<1>1. /\ k.at # "idle" /\ accountCalls' = [accountCalls EXCEPT ![i] = NoAccountCall]
      /\ users' = users /\ days' = days /\ events' = events /\ signups' = signups
      /\ keyed' = keyed
      /\ accountFaults' = accountFaults + 1 /\ meddled' = meddled
  BY <1>b DEF AccountFault, AccountEnd, accountTables
<1>2. /\ AccountsTyped /\ ReasonsHaveRows /\ IsFiniteSet(SignedUp(users))
      /\ accountCalls \in [AccountSlots -> AccountCalls] /\ accountFaults \in Nat
      /\ ~meddled => Throttled(NoAccountCall, users, signups)
  BY DEF AccountIInv, AccountsTyped, InTurn
<1>3. AccountsTyped'
  <2>1. accountCalls' \in [AccountSlots -> AccountCalls] /\ accountFaults' \in Nat
    BY <1>1, <1>2, NoAccountCallShape
  <2> QED  BY <2>1, <1>1, <1>2 DEF AccountsTyped
<1>4. ReasonsHaveRows'
  BY <1>1, <1>2 DEF ReasonsHaveRows, Stored
<1>5. accountFaults' # 0 /\ k # NoAccountCall
  BY <1>1, <1>2, NoAccountCallShape
<1>6. ~meddled => /\ Throttled(k, users, signups) => Throttled(NoAccountCall, users', signups')
                  /\ Throttled(NoAccountCall, users', signups')
  BY <1>1, <1>2
<1>7. /\ SyncFits(NoAccountCall, users') /\ IsFiniteSet(SignedUp(users'))
      /\ \A u \in Accounts : users[u].code # NoCode => users'[u].code # NoCode
  BY <1>1, <1>2, NoAccountCallShape
<1> QED  BY <1>b, <1>1, <1>3, <1>4, <1>5, <1>6, <1>7, NoAccountCallShape, AccountMoves

(* What no call is about: months that pass, and the Worker's own secret.   *)
LEMMA AccountsRest ==
    ASSUME AccountIInv, UNCHANGED <<users, days, signups, accountCalls, accountGhosts>>,
           events' \in [Accounts -> [Reasons -> {"no", "new", "old"}]],
           keyed' \in BOOLEAN,
           \A u \in Accounts : Stored(u)' = Stored(u)
    PROVE  AccountIInv'
<1>1. /\ users' = users /\ days' = days /\ signups' = signups /\ accountCalls' = accountCalls
      /\ accountFaults' = accountFaults /\ meddled' = meddled
  BY DEF accountGhosts
<1>2. AccountsTyped' /\ CallsFit' /\ IsFiniteSet(SignedUp(users'))
  BY <1>1 DEF AccountIInv, AccountsTyped, CallsFit
<1>3. ReasonsHaveRows'
  <2>1. \A u \in Accounts : IsFiniteSet(Stored(u)') /\ (users'[u].code = NoCode => Stored(u)' = {})
    BY <1>1 DEF AccountIInv, ReasonsHaveRows
  <2>2. \A u \in Accounts : IsFiniteSet(Stored(u))' <=> IsFiniteSet(Stored(u)')
    BY DEF IsFiniteSet
  <2> QED  BY <2>1, <2>2 DEF ReasonsHaveRows
<1>4. ASSUME accountFaults' = 0, NEW u \in Accounts PROVE TotalKept(u)' /\ FlagKept(u)'
  <2>1. TotalKept(u) /\ FlagKept(u)
    BY <1>4, <1>1 DEF AccountIInv
  <2>2. TotalKept(u)'
    BY <2>1, <1>1 DEF TotalKept
  <2>3. ShouldFlag(Stored(u))' <=> ShouldFlag(Stored(u)')
    BY DEF ShouldFlag
  <2>4. ShouldFlag(Stored(u))' <=> ShouldFlag(Stored(u))
    BY <2>3
  <2>5. FlagKept(u)'
    BY <2>1, <2>4, <1>1 DEF FlagKept
  <2> QED  BY <2>2, <2>5
<1>5. ~meddled' => InTurn'
  BY <1>1 DEF AccountIInv, InTurn, AccountBusy
<1> QED  BY <1>1, <1>2, <1>3, <1>4, <1>5 DEF AccountIInv

LEMMA MonthsPassKeeps == ASSUME AccountIInv, MonthsPass PROVE AccountIInv'
<1>1. /\ UNCHANGED <<users, days, signups, accountCalls, accountGhosts>> /\ keyed' = keyed
      /\ events' = [u \in Accounts |->
                      [r \in Reasons |-> IF events[u][r] = "new" THEN "old"
                                         ELSE events[u][r]]]
  BY DEF MonthsPass
<1>2. events \in [Accounts -> [Reasons -> {"no", "new", "old"}]] /\ keyed \in BOOLEAN
  BY DEF AccountIInv, AccountsTyped
<1>3. events' \in [Accounts -> [Reasons -> {"no", "new", "old"}]]
  BY <1>1, <1>2
<1>4. \A u \in Accounts : Stored(u)' = Stored(u)
  BY <1>1, <1>2 DEF Stored
<1> QED  BY <1>1, <1>2, <1>3, <1>4, AccountsRest

LEMMA GetKeyKeeps == ASSUME AccountIInv, GetKey PROVE AccountIInv'
<1>1. /\ UNCHANGED <<users, days, signups, accountCalls, accountGhosts>>
      /\ keyed' = TRUE /\ events' = events
  BY DEF GetKey
<1>2. events' \in [Accounts -> [Reasons -> {"no", "new", "old"}]]
  BY <1>1 DEF AccountIInv, AccountsTyped
<1>3. \A u \in Accounts : Stored(u)' = Stored(u)
  BY <1>1 DEF Stored
<1> QED  BY <1>1, <1>2, <1>3, AccountsRest

LEMMA AccountStepKeeps ==
    ASSUME AccountIInv, NEW i \in AccountSlots, AccountStep(i), UNCHANGED accountGhosts
    PROVE  AccountIInv'
  BY SyncReadsUserKeeps, HashSecretKeeps, ReadThrottleKeeps, PutThrottleKeeps,
     CheckCodeKeeps, WriteUserKeeps, RecordFlagSignalKeeps, ReadReasonsKeeps,
     MarkFlaggedKeeps, WriteDaysKeeps, ReconcileKeeps, AdminReadsKeeps, AdminHashesKeeps,
     PurgeKeeps DEF AccountStep

LEMMA AccountNextKeeps == ASSUME AccountIInv, [AccountNext]_accountVars PROVE AccountIInv'
<1>1. CASE UNCHANGED accountVars
  <2>1. /\ UNCHANGED <<users, days, signups, accountCalls, accountGhosts>>
        /\ keyed' = keyed /\ events' = events
    BY <1>1 DEF accountVars, accountTables, accountGhosts
  <2>2. events' \in [Accounts -> [Reasons -> {"no", "new", "old"}]] /\ keyed' \in BOOLEAN
    BY <2>1 DEF AccountIInv, AccountsTyped
  <2>3. \A u \in Accounts : Stored(u)' = Stored(u)
    BY <2>1 DEF Stored
  <2> QED  BY <2>1, <2>2, <2>3, AccountsRest
<1>2. CASE MonthsPass
  BY <1>2, MonthsPassKeeps
<1>3. CASE GetKey
  BY <1>3, GetKeyKeeps
<1>4. ASSUME NEW i \in AccountSlots, NEW r \in Syncs \cup {Nightly, Admin}, AccountReceive(i, r)
      PROVE  AccountIInv'
  BY <1>4, AccountReceiveKeeps
<1>5. ASSUME NEW i \in AccountSlots, AccountStep(i), UNCHANGED accountGhosts
      PROVE  AccountIInv'
  BY <1>5, AccountStepKeeps
<1>6. ASSUME NEW i \in AccountSlots, AccountFault(i)
      PROVE  AccountIInv'
  BY <1>6, AccountFaultKeeps
<1> QED  BY <1>1, <1>2, <1>3, <1>4, <1>5, <1>6 DEF AccountNext

LEMMA AccountIInvIsEnough == ASSUME AccountIInv PROVE AccountsKept
<1>1. ASSUME AccountsQuiet, accountFaults = 0, NEW u \in Accounts
      PROVE  /\ users[u].lifetime >= days[u]
             /\ ShouldFlag(Stored(u)) => users[u].flagged
  <2>1. \A i \in AccountSlots : ~Settles(accountCalls[i], u) /\ ~WillFlag(accountCalls[i], u)
    BY <1>1 DEF AccountsQuiet, Settles, WillFlag, WroteRow
  <2> QED  BY <2>1, <1>1 DEF AccountIInv, TotalKept, FlagKept
<1>2. ASSUME ~meddled PROVE Cardinality({u \in Accounts : Exists(u)}) <= SignupLimit
  <2>1. {u \in Accounts : Exists(u)} = SignedUp(users)
    BY DEF SignedUp, Exists
  <2> QED  BY <2>1, <1>2 DEF AccountIInv, InTurn, Throttled
<1> QED  BY <1>1, <1>2 DEF AccountsKept

(* When no call is under way and nothing failed, an account's total covers  *)
(* its days and reasons that call for a flag have raised it, however syncs, *)
(* the purge and the migration interleaved; and a window lets in no more    *)
(* accounts than its limit as long as no two calls overlapped.              *)
THEOREM AccountsStayKept == AccountSpec => []AccountsKept
<1>1. AccountIInv /\ [AccountNext]_accountVars => AccountIInv'
  BY AccountNextKeeps
<1> QED  BY <1>1, AccountStarts, AccountIInvIsEnough, PTL DEF AccountSpec

(* Both of these: what the Worker keeps of a sync, of a day's score and of  *)
(* an account, for any calls of either.                                     *)
THEOREM SyncStaysKept == ScoreSpec /\ AccountSpec => []SyncKept
<1>1. ScoresFollowCredit /\ AccountsKept => SyncKept
  BY DEF SyncKept
<1> QED  BY <1>1, ScoresStayTrue, AccountsStayKept, PTL
----------------------------------------------------------------------------
(* Skribbl.  A call knows the day it read the clock on; whoever is under   *)
(* way since an earlier day has spanned each midnight since, so a day that  *)
(* is over and that nobody spanned is touched by purges alone, and there is *)
(* one purge at a time.  From a start with any theme and any drawings.      *)

RoomPlaces ==
    {"theme", "pool", "mark", "pin", "reread", "existing", "put", "insert", "drawing", "vote",
     "winner", "record", "expired", "votes", "rows", "themes"}
RoomCallSet ==
    [op : {"theme", "submit", "vote", "purge"}, user : Players \cup {NoPlayer},
     owner : Players \cup {NoPlayer} \cup Dates, vote : {-1, 0, 1}, at : RoomPlaces,
     date : Dates, pick : Themes \cup {NoTheme}]
RoomCalls == RoomCallSet \cup {NoRoomCall}
DrawingSet == [user : Players, date : Dates]

RoomTyped ==
    /\ today \in Dates /\ roomCalls \in [SkribblSlots -> RoomCalls]
    /\ themeOf \in [Dates -> Themes \cup {NoTheme}]
    /\ drawings \in Seq(DrawingSet)
    /\ winners \in [Dates -> Players \cup {NoPlayer}]
    /\ outcome \in [Dates -> Players \cup {NoPlayer}]
    /\ roomFaults \in Nat

(* Whoever is under way since a day has seen each midnight from that day on *)
(* into the days spanned.                                                   *)
Since(d, day, spans) == d <= day /\ \A e \in d..(day - 1) : e \in spans

Drawn == {"theme", "pool", "mark", "pin", "reread", "put", "insert"}
RoomCallFits(c, day, spans) ==
    c # NoRoomCall =>
        /\ Since(c.date, day, spans)
        /\ c.op \in {"submit", "vote"} => c.user \in Players
        /\ c.op = "vote" => c.owner \in Players
        /\ c.op = "submit" /\ c.at \in Drawn => c.owner \in Dates /\ Since(c.owner, day, spans)
        /\ c.op = "purge" => c.date > 0
        /\ c.at = "record" => c.owner \in Players
        /\ c.at \in {"mark", "pin"} => c.pick \in Themes

RowsIn(rows) == {rows[k] : k \in DOMAIN rows}

(* Calls fit the day they are of, and no row is of a day to come.           *)
RoomBase ==
    /\ RoomTyped
    /\ \A i \in SkribblSlots : RoomCallFits(roomCalls[i], today, spanned)
    /\ \A k \in DOMAIN drawings : drawings[k].date <= today

(* The theme: what was told of today is what is pinned, and stays so.       *)
ThemeKept ==
    /\ \A a \in told : a[1] \in Dates /\ a[1] <= today
    /\ \A a \in told : a[1] = today => a[2] = themeOf[today] /\ a[2] # NoTheme
    /\ \A i \in SkribblSlots :
          roomCalls[i].at = "reread" /\ roomCalls[i].date = today => themeOf[today] # NoTheme
    /\ ThemeAgreed

(* The images: those of today's rows are there; with nothing failed or      *)
(* spanned an image without a row has its submission still under way, and   *)
(* a row without an image the purge that is deleting it.                    *)
Putting(c, d) == c.op = "submit" /\ c.at = "insert" /\ d = Drawing(c.user, c.owner)
Purging(c, d) == c.op = "purge" /\ c.at \in {"votes", "rows"} /\ d.date < c.date
ImagesKept ==
    /\ \A k \in DOMAIN drawings : drawings[k].date = today => drawings[k] \in drawn
    /\ \A i \in SkribblSlots :
          roomCalls[i].op = "submit" /\ roomCalls[i].at = "insert" /\ roomCalls[i].owner = today
              => Drawing(roomCalls[i].user, today) \in drawn
    /\ roomFaults = 0 /\ spanned = {} =>
          /\ \A d \in drawn : d \in RowsIn(drawings) \/ \E i \in SkribblSlots : Putting(roomCalls[i], d)
          /\ \A d \in RowsIn(drawings) : d \in drawn \/ \E i \in SkribblSlots : Purging(roomCalls[i], d)
          /\ \A i \in SkribblSlots : \A d \in drawn : ~Purging(roomCalls[i], d)

(* The winners: a day that is over still elects who had won it, or nobody   *)
(* once its rows are gone, except between the purge of votes and of rows.   *)
Purgers == {i \in SkribblSlots : roomCalls[i].op = "purge"}
PurgeAt(c, place) == c.op = "purge" /\ c.at = place
WinnersKept ==
    /\ \A i, j \in Purgers : i = j
    /\ \A d \in Dates : d >= today => winners[d] = NoPlayer
    /\ roomFaults = 0 =>
         /\ WinnerStands
         /\ \A d \in Dates :
              d < today /\ d \notin spanned =>
                  \/ WinnerFor(d) \in {outcome[d], NoPlayer}
                  \/ \E i \in SkribblSlots : PurgeAt(roomCalls[i], "rows")
         /\ \A i \in SkribblSlots :
              PurgeAt(roomCalls[i], "record") /\ roomCalls[i].date - 1 \notin spanned
                  => roomCalls[i].owner = outcome[roomCalls[i].date - 1]

RoomIInv == RoomBase /\ ThemeKept /\ ImagesKept /\ WinnersKept

----------------------------------------------------------------------------
LEMMA NoRoomCallShape == NoRoomCall.at = "idle" /\ NoRoomCall.op = "none"
  BY DEF NoRoomCall

LEMMA RoomCallOf ==
    ASSUME RoomBase, NEW i \in SkribblSlots, NEW k, k = roomCalls[i], k.at # "idle"
    PROVE  /\ k \in RoomCallSet /\ k # NoRoomCall /\ RoomCallFits(k, today, spanned)
           /\ k.date \in Dates /\ k.pick \in Themes \cup {NoTheme} /\ k.at \in RoomPlaces
           /\ k.op \in {"theme", "submit", "vote", "purge"}
           /\ roomCalls \in [SkribblSlots -> RoomCalls]
           /\ today \in Dates
<1>1. k \in RoomCalls /\ RoomCallFits(k, today, spanned)
  BY DEF RoomBase, RoomTyped
<1>2. k \in RoomCallSet /\ k # NoRoomCall
  BY <1>1, NoRoomCallShape DEF RoomCalls
<1> QED  BY <1>1, <1>2 DEF RoomBase, RoomTyped, RoomCallSet

(* Where a call goes on to, with what, and that it is the same call.       *)
GoingTo(k, place) == [k EXCEPT !.at = place]
ToPool(k, date) == [k EXCEPT !.at = "pool", !.date = date]
Picking(k, theme) == [k EXCEPT !.pick = theme, !.at = "mark"]
Starting(k, date) == [k EXCEPT !.at = "theme", !.owner = date]
ToVote(k, date) == [k EXCEPT !.at = "vote", !.date = date]
Electing(k, winner, place) == [k EXCEPT !.owner = winner, !.at = place]

LEMMA GoingToShape ==
    ASSUME NEW k \in RoomCallSet, NEW place \in RoomPlaces, NEW c, c = GoingTo(k, place)
    PROVE  /\ c \in RoomCallSet /\ c.at = place /\ c.op = k.op /\ c.user = k.user
           /\ c.owner = k.owner /\ c.date = k.date /\ c.pick = k.pick
  BY DEF RoomCallSet, GoingTo

LEMMA ToPoolShape ==
    ASSUME NEW k \in RoomCallSet, NEW date \in Dates, NEW c, c = ToPool(k, date)
    PROVE  /\ c \in RoomCallSet /\ c.at = "pool" /\ c.op = k.op /\ c.user = k.user
           /\ c.owner = k.owner /\ c.date = date
  BY DEF RoomCallSet, ToPool, RoomPlaces

LEMMA PickingShape ==
    ASSUME NEW k \in RoomCallSet, NEW theme \in Themes, NEW c, c = Picking(k, theme)
    PROVE  /\ c \in RoomCallSet /\ c.at = "mark" /\ c.op = k.op /\ c.user = k.user
           /\ c.owner = k.owner /\ c.date = k.date /\ c.pick = theme
  BY DEF RoomCallSet, Picking, RoomPlaces

LEMMA StartingShape ==
    ASSUME NEW k \in RoomCallSet, NEW date \in Dates, NEW c, c = Starting(k, date)
    PROVE  /\ c \in RoomCallSet /\ c.at = "theme" /\ c.op = k.op /\ c.user = k.user
           /\ c.owner = date /\ c.date = k.date
  BY DEF RoomCallSet, Starting, RoomPlaces

LEMMA ToVoteShape ==
    ASSUME NEW k \in RoomCallSet, NEW date \in Dates, NEW c, c = ToVote(k, date)
    PROVE  /\ c \in RoomCallSet /\ c.at = "vote" /\ c.op = k.op /\ c.user = k.user
           /\ c.owner = k.owner /\ c.date = date
  BY DEF RoomCallSet, ToVote, RoomPlaces

LEMMA ElectingShape ==
    ASSUME NEW k \in RoomCallSet, NEW w \in Players \cup {NoPlayer},
           NEW place \in RoomPlaces, NEW c, c = Electing(k, w, place)
    PROVE  /\ c \in RoomCallSet /\ c.at = place /\ c.op = k.op /\ c.user = k.user
           /\ c.owner = w /\ c.date = k.date
  BY DEF RoomCallSet, Electing

(* Calls move: i from k to c.                                              *)
RoomMoves(i, k, c) ==
    /\ k = roomCalls[i] /\ k \in RoomCallSet /\ RoomCallFits(k, today, spanned)
    /\ c \in RoomCalls /\ roomCalls' = [roomCalls EXCEPT ![i] = c]
    /\ RoomCallFits(c, today, spanned)
    /\ c = NoRoomCall \/ (c \in RoomCallSet /\ c.op = k.op /\ c.user = k.user)

LEMMA ReadThemeMoves ==
    ASSUME RoomBase, NEW i \in SkribblSlots, ReadTheme(i)
    PROVE  \E k, c : /\ RoomMoves(i, k, c) /\ k.op \in {"theme", "submit"} /\ k.at = "theme"
                     /\ c = NoRoomCall \/ c.at \in {"pool", "put"}
<1>b. PICK k : k = roomCalls[i]
  OBVIOUS
<1>1. k.op \in {"theme", "submit"} /\ k.at = "theme"
  BY <1>b DEF ReadTheme, InTheme
<1>2. /\ k \in RoomCallSet /\ k # NoRoomCall /\ RoomCallFits(k, today, spanned) /\ today \in Dates
      /\ roomCalls \in [SkribblSlots -> RoomCalls]
  BY <1>b, <1>1, RoomCallOf
<1>3. CASE themeOf[today] = NoTheme
  <2>1. PICK c : c = ToPool(k, today)
    OBVIOUS
  <2>2. roomCalls' = [roomCalls EXCEPT ![i] = c]
    BY <1>b, <1>2, <1>3, <2>1 DEF ReadTheme, ToPool
  <2>3. /\ c \in RoomCallSet /\ c.at = "pool" /\ c.op = k.op /\ c.user = k.user
        /\ c.owner = k.owner /\ c.date = today
    BY <1>2, <2>1, ToPoolShape
  <2>4. RoomCallFits(c, today, spanned)
    <3>1. Since(today, today, spanned)
      BY <1>2 DEF Since, Dates
    <3> QED  BY <3>1, <1>1, <1>2, <2>3 DEF RoomCallFits, Drawn
  <2> QED  BY <1>b, <1>1, <1>2, <2>2, <2>3, <2>4 DEF RoomMoves, RoomCalls
<1>4. CASE themeOf[today] # NoTheme /\ k.op = "theme"
  <2>1. roomCalls' = [roomCalls EXCEPT ![i] = NoRoomCall]
    BY <1>b, <1>4 DEF ReadTheme, RoomEnd
  <2> QED  BY <1>b, <1>1, <1>2, <2>1 DEF RoomMoves, RoomCalls, RoomCallFits
<1>5. CASE themeOf[today] # NoTheme /\ k.op # "theme"
  <2>1. PICK c : c = GoingTo(k, "put")
    OBVIOUS
  <2>2. roomCalls' = [roomCalls EXCEPT ![i] = c]
    BY <1>b, <1>2, <1>5, <2>1 DEF ReadTheme, RoomGo, GoingTo
  <2>3. /\ c \in RoomCallSet /\ c.at = "put" /\ c.op = k.op /\ c.user = k.user
        /\ c.owner = k.owner /\ c.date = k.date
    <3>1. "put" \in RoomPlaces
      BY DEF RoomPlaces
    <3> QED  BY <3>1, <1>2, <2>1, GoingToShape
  <2>4. RoomCallFits(c, today, spanned)
    BY <1>1, <1>2, <2>3 DEF RoomCallFits, Drawn
  <2> QED  BY <1>b, <1>1, <1>2, <2>2, <2>3, <2>4 DEF RoomMoves, RoomCalls
<1> QED  BY <1>3, <1>4, <1>5

LEMMA PickThemeMoves ==
    ASSUME RoomBase, NEW i \in SkribblSlots, PickTheme(i)
    PROVE  \E k, c : /\ RoomMoves(i, k, c) /\ k.op \in {"theme", "submit"} /\ k.at = "pool"
                     /\ c.at = "mark"
<1>b. PICK k : k = roomCalls[i]
  OBVIOUS
<1>1. k.op \in {"theme", "submit"} /\ k.at = "pool"
  BY <1>b DEF PickTheme, InTheme
<1>2. /\ k \in RoomCallSet /\ k # NoRoomCall /\ RoomCallFits(k, today, spanned)
      /\ roomCalls \in [SkribblSlots -> RoomCalls]
  BY <1>b, <1>1, RoomCallOf
<1>3. PICK t \in Themes : roomCalls' = [roomCalls EXCEPT ![i].pick = t, ![i].at = "mark"]
  BY DEF PickTheme
<1>4. PICK c : c = Picking(k, t)
  OBVIOUS
<1>5. roomCalls' = [roomCalls EXCEPT ![i] = c]
  BY <1>b, <1>2, <1>3, <1>4 DEF Picking
<1>6. /\ c \in RoomCallSet /\ c.at = "mark" /\ c.op = k.op /\ c.user = k.user
      /\ c.owner = k.owner /\ c.date = k.date /\ c.pick = t
  BY <1>2, <1>4, PickingShape
<1>7. RoomCallFits(c, today, spanned)
  BY <1>1, <1>2, <1>6 DEF RoomCallFits, Drawn
<1> QED  BY <1>b, <1>1, <1>2, <1>5, <1>6, <1>7 DEF RoomMoves, RoomCalls

LEMMA GoMoves ==
    ASSUME RoomBase, NEW i \in SkribblSlots, NEW k, k = roomCalls[i], k.at # "idle",
           NEW place \in RoomPlaces, RoomGo(i, place),
           place \in Drawn => k.at \in Drawn, place # "record",
           place \in {"mark", "pin"} => k.at \in {"mark", "pin"}
    PROVE  \E c : /\ RoomMoves(i, k, c) /\ c # NoRoomCall /\ c.at = place
                  /\ c.owner = k.owner /\ c.date = k.date
<1>2. /\ k \in RoomCallSet /\ k # NoRoomCall /\ RoomCallFits(k, today, spanned)
      /\ roomCalls \in [SkribblSlots -> RoomCalls]
  BY RoomCallOf
<1>4. PICK c : c = GoingTo(k, place)
  OBVIOUS
<1>5. roomCalls' = [roomCalls EXCEPT ![i] = c]
  BY <1>2, <1>4 DEF RoomGo, GoingTo
<1>6. /\ c \in RoomCallSet /\ c.at = place /\ c.op = k.op /\ c.user = k.user
      /\ c.owner = k.owner /\ c.date = k.date /\ c.pick = k.pick
  BY <1>2, <1>4, GoingToShape
<1>7. RoomCallFits(c, today, spanned)
  BY <1>2, <1>6 DEF RoomCallFits
<1>8. c # NoRoomCall
  BY <1>6, NoRoomCallShape DEF RoomPlaces
<1> QED  BY <1>2, <1>5, <1>6, <1>7, <1>8 DEF RoomMoves, RoomCalls

LEMMA EndMoves ==
    ASSUME RoomBase, NEW i \in SkribblSlots, NEW k, k = roomCalls[i], k.at # "idle", RoomEnd(i)
    PROVE  RoomMoves(i, k, NoRoomCall)
<1>1. k \in RoomCallSet /\ RoomCallFits(k, today, spanned)
  BY RoomCallOf
<1> QED  BY <1>1 DEF RoomMoves, RoomEnd, RoomCalls, RoomCallFits

LEMMA SubmitExistingMoves ==
    ASSUME RoomBase, NEW i \in SkribblSlots, SubmitExisting(i)
    PROVE  \E k, c : /\ RoomMoves(i, k, c) /\ k.op = "submit" /\ k.at = "existing"
                     /\ c = NoRoomCall \/ c.at = "theme"
<1>b. PICK k : k = roomCalls[i]
  OBVIOUS
<1>1. k.op = "submit" /\ k.at = "existing"
  BY <1>b DEF SubmitExisting, RoomAt
<1>2. /\ k \in RoomCallSet /\ k # NoRoomCall /\ RoomCallFits(k, today, spanned)
      /\ k.date \in Dates /\ roomCalls \in [SkribblSlots -> RoomCalls]
  BY <1>b, <1>1, RoomCallOf
<1>3. CASE HasDrawn(k.user, k.date)
  <2>1. RoomEnd(i)
    BY <1>3, <1>b DEF SubmitExisting
  <2> QED  BY <2>1, <1>b, <1>1, EndMoves
<1>4. CASE ~HasDrawn(k.user, k.date)
  <2>1. PICK c : c = Starting(k, k.date)
    OBVIOUS
  <2>2. roomCalls' = [roomCalls EXCEPT ![i] = c]
    BY <1>4, <1>b, <1>2, <2>1 DEF SubmitExisting, Starting
  <2>3. /\ c \in RoomCallSet /\ c.at = "theme" /\ c.op = k.op /\ c.user = k.user
        /\ c.owner = k.date /\ c.date = k.date
    BY <1>2, <2>1, StartingShape
  <2>4. RoomCallFits(c, today, spanned)
    BY <1>1, <1>2, <2>3 DEF RoomCallFits, Drawn
  <2> QED  BY <1>b, <1>1, <1>2, <2>2, <2>3, <2>4 DEF RoomMoves, RoomCalls
<1> QED  BY <1>3, <1>4

LEMMA VoteDrawingMoves ==
    ASSUME RoomBase, NEW i \in SkribblSlots, VoteDrawing(i)
    PROVE  \E k, c : /\ RoomMoves(i, k, c) /\ k.op = "vote" /\ k.at = "drawing"
                     /\ c = NoRoomCall \/ c.at = "vote"
<1>b. PICK k : k = roomCalls[i]
  OBVIOUS
<1>1. k.op = "vote" /\ k.at = "drawing"
  BY <1>b DEF VoteDrawing, RoomAt
<1>2. /\ k \in RoomCallSet /\ k # NoRoomCall /\ RoomCallFits(k, today, spanned) /\ today \in Dates
      /\ roomCalls \in [SkribblSlots -> RoomCalls]
  BY <1>b, <1>1, RoomCallOf
<1>3. CASE RoomEnd(i)
  BY <1>3, <1>b, <1>1, EndMoves
<1>4. CASE ~RoomEnd(i)
  <2>1. roomCalls' = [roomCalls EXCEPT ![i].at = "vote", ![i].date = today]
    <3>1. PICK n \in DOMAIN drawings :
            /\ VotingOpen(drawings[n])
            /\ roomCalls' = [roomCalls EXCEPT ![i].at = "vote", ![i].date = drawings[n].date]
      BY <1>4 DEF VoteDrawing
    <3> QED  BY <3>1 DEF VotingOpen
  <2>2. PICK c : c = ToVote(k, today)
    OBVIOUS
  <2>3. roomCalls' = [roomCalls EXCEPT ![i] = c]
    BY <1>b, <1>2, <2>1, <2>2 DEF ToVote
  <2>4. /\ c \in RoomCallSet /\ c.at = "vote" /\ c.op = k.op /\ c.user = k.user
        /\ c.owner = k.owner /\ c.date = today
    BY <1>2, <2>2, ToVoteShape
  <2>5. RoomCallFits(c, today, spanned)
    <3>1. Since(today, today, spanned)
      BY <1>2 DEF Since, Dates
    <3> QED  BY <3>1, <1>1, <1>2, <2>4 DEF RoomCallFits, Drawn
  <2> QED  BY <1>b, <1>1, <1>2, <2>3, <2>4, <2>5 DEF RoomMoves, RoomCalls
<1> QED  BY <1>3, <1>4

(* Whoever has won a day has drawn on it.                                  *)
LEMMA WinnerIsPlayer ==
    ASSUME RoomBase, NEW d PROVE WinnerFor(d) \in Players \cup {NoPlayer}
<1>1. CASE Leading(Entries(d)) = {}
  BY <1>1 DEF WinnerFor, WinnerOf
<1>2. CASE Leading(Entries(d)) # {}
  <2>1. PICK e : e = Entries(d)
    OBVIOUS
  <2>2. PICK n : n = CHOOSE k \in Leading(e) : TRUE
    OBVIOUS
  <2>3. n \in DOMAIN e
    <3>1. n \in Leading(e)
      BY <1>2, <2>1, <2>2
    <3> QED  BY <3>1 DEF Leading
  <2>4. n \in DOMAIN drawings /\ e[n].user = drawings[n].user
    BY <2>1, <2>3 DEF Entries, RowsOf
  <2>5. drawings[n] \in DrawingSet
    <3>1. drawings \in Seq(DrawingSet)
      BY DEF RoomBase, RoomTyped
    <3> QED  BY <3>1, <2>4
  <2>6. WinnerFor(d) = e[n].user
    BY <1>2, <2>1, <2>2 DEF WinnerFor, WinnerOf
  <2> QED  BY <2>4, <2>5, <2>6 DEF DrawingSet
<1> QED  BY <1>1, <1>2

LEMMA PurgeWinnerMoves ==
    ASSUME RoomBase, NEW i \in SkribblSlots, PurgeWinner(i)
    PROVE  \E k, c : /\ RoomMoves(i, k, c) /\ k.op = "purge" /\ k.at = "winner"
                     /\ c.at \in {"record", "expired"}
                     /\ c.owner = WinnerFor(k.date - 1) /\ c.date = k.date
<1>b. PICK k : k = roomCalls[i]
  OBVIOUS
<1>1. k.op = "purge" /\ k.at = "winner"
  BY <1>b DEF PurgeWinner, RoomAt
<1>2. /\ k \in RoomCallSet /\ k # NoRoomCall /\ RoomCallFits(k, today, spanned)
      /\ roomCalls \in [SkribblSlots -> RoomCalls]
  BY <1>b, <1>1, RoomCallOf
<1>3. PICK w \in Players \cup {NoPlayer} : w = WinnerFor(k.date - 1)
  BY WinnerIsPlayer
<1>4. PICK place : place = IF w = NoPlayer THEN "expired" ELSE "record"
  OBVIOUS
<1>5. PICK c : c = Electing(k, w, place)
  OBVIOUS
<1>6. roomCalls' = [roomCalls EXCEPT ![i] = c]
  BY <1>b, <1>2, <1>3, <1>4, <1>5 DEF PurgeWinner, Electing
<1>7. /\ c \in RoomCallSet /\ c.at = place /\ c.op = k.op /\ c.user = k.user
      /\ c.owner = w /\ c.date = k.date
  <2>1. place \in RoomPlaces
    BY <1>4 DEF RoomPlaces
  <2>2. k \in RoomCallSet /\ w \in Players \cup {NoPlayer}
    BY <1>2, <1>3
  <2> QED  BY ONLY <2>1, <2>2, <1>5, ElectingShape
<1>8. RoomCallFits(c, today, spanned)
  BY <1>1, <1>2, <1>4, <1>7 DEF RoomCallFits, Drawn
<1> QED  BY <1>b, <1>1, <1>2, <1>3, <1>4, <1>6, <1>7, <1>8 DEF RoomMoves, RoomCalls

----------------------------------------------------------------------------
(* Every nonempty set of naturals has a least element.                     *)
LEMMA LeastNat ==
    ASSUME NEW S, S \subseteq Nat, S # {}
    PROVE  \E m \in S : \A k \in S : m <= k
<1> DEFINE R == {ss \in Nat \X Nat : ss[1] < ss[2]}
<1>1. IsWellFoundedOn(R, Nat)
  BY NatLessThanWellFounded, Zenon DEF OpToRel
<1> HIDE DEF R
<1>2. PICK m \in S : \A k \in S : ~(<<k, m>> \in R)
  BY <1>1, WFMin, Zenon
<1>3. \A k \in S : ~(k < m)
  BY <1>2 DEF R
<1> QED  BY <1>3

(* f is computed on 0..n by applying step over and over to base.           *)
Iterates(f, n, base, step) ==
    \A i \in 0..n : f[i] = IF i = 0 THEN base ELSE step[i][f[i - 1]]

(* There is such a function.                                               *)
LEMMA RecursionExists ==
    ASSUME NEW n \in Nat, NEW V, NEW base \in V, NEW step \in [1..n -> [V -> V]]
    PROVE  \E f \in [0..n -> V] : Iterates(f, n, base, step)
<1> DEFINE P(k) == \E f \in [0..k -> V] :
               \A i \in 0..k : f[i] = IF i = 0 THEN base ELSE step[i][f[i - 1]]
           Bad == {k \in 0..n : ~P(k)}
<1>1. P(0)
  <2> DEFINE z == [i \in 0..0 |-> base]
  <2>1. z \in [0..0 -> V] /\ \A i \in 0..0 : z[i] = IF i = 0 THEN base ELSE step[i][z[i - 1]]
    OBVIOUS
  <2> QED  BY <2>1
<1>2. ASSUME NEW m \in 1..n, P(m - 1) PROVE P(m)
  <2>1. PICK f \in [0..m - 1 -> V] :
            \A i \in 0..m - 1 : f[i] = IF i = 0 THEN base ELSE step[i][f[i - 1]]
    BY <1>2
  <2>2. step[m][f[m - 1]] \in V
    <3>1. f[m - 1] \in V
      BY <2>1
    <3> QED  BY <3>1
  <2> DEFINE g == [i \in 0..m |-> IF i < m THEN f[i] ELSE step[m][f[m - 1]]]
  <2>3. g \in [0..m -> V]
    BY <2>1, <2>2
  <2>4. ASSUME NEW i \in 0..m PROVE g[i] = IF i = 0 THEN base ELSE step[i][g[i - 1]]
    <3>1. CASE i = m
      <4>1. m - 1 \in 0..m /\ m - 1 < m
        OBVIOUS
      <4> QED  BY <3>1, <4>1
    <3>2. CASE i < m
      <4>1. f[i] = IF i = 0 THEN base ELSE step[i][f[i - 1]]
        BY <3>2, <2>1, i \in 0..m - 1
      <4>2. i # 0 => g[i - 1] = f[i - 1]
        BY <3>2
      <4>3. g[i] = f[i]
        BY <3>2
      <4> HIDE DEF g
      <4> QED BY <4>1, <4>2, <4>3
    <3> QED  BY <3>1, <3>2
  <2> QED  BY <2>3, <2>4
<1> HIDE DEF P
<1>3. Bad = {}
  <2> SUFFICES ASSUME Bad # {} PROVE FALSE
    OBVIOUS
  <2>1. Bad \subseteq Nat
    OBVIOUS
  <2>2. PICK m \in Bad : \A k \in Bad : m <= k
    <3> HIDE DEF Bad
    <3> QED  BY <2>1, LeastNat, Zenon
  <2>3. m \in 1..n /\ P(m - 1)
    BY <2>2, <1>1
  <2> QED  BY <2>3, <1>2
<1>4. P(n)
  BY <1>3
<1> QED  BY <1>4 DEF P, Iterates

(* The rows that remain are those that are not past.                       *)
LEMMA RemainingFacts ==
    ASSUME NEW rows \in Seq(DrawingSet), NEW date \in Int
    PROVE  /\ Remaining(rows, date) \in Seq(DrawingSet)
           /\ \A d : d \in RowsIn(Remaining(rows, date))
                      <=> d \in RowsIn(rows) /\ ~Past(d, date)
<1> DEFINE n == Len(rows)
           W == {d \in RowsIn(rows) : ~Past(d, date)}
           V == Seq(W)
           step == [i \in 1..n |-> [v \in V |-> IF Past(rows[i], date) THEN v ELSE Append(v, rows[i])]]
           kept[i \in 0..n] == IF i = 0 THEN <<>>
                    ELSE IF Past(rows[i], date) THEN kept[i - 1] ELSE Append(kept[i - 1], rows[i])
<1>1. n \in Nat /\ DOMAIN rows = 1..n /\ \A i \in 1..n : rows[i] \in DrawingSet
  OBVIOUS
<1>2. <<>> \in V
  OBVIOUS
<1>3. ASSUME NEW i \in 1..n, ~Past(rows[i], date) PROVE rows[i] \in W
  BY <1>1, <1>3 DEF RowsIn
<1>w. W \subseteq DrawingSet
  BY <1>1 DEF RowsIn
<1> HIDE DEF W
<1>4. step \in [1..n -> [V -> V]]
  <2>1. ASSUME NEW i \in 1..n, NEW v \in V
        PROVE  (IF Past(rows[i], date) THEN v ELSE Append(v, rows[i])) \in V
    BY <1>3
  <2> HIDE DEF V
  <2> QED  BY <2>1
<1>5. ASSUME NEW i \in 1..n, NEW v \in V
      PROVE  step[i][v] = IF Past(rows[i], date) THEN v ELSE Append(v, rows[i])
  OBVIOUS
<1> HIDE DEF step
<1>6. PICK f \in [0..n -> V] : Iterates(f, n, <<>>, step)
  <2> HIDE DEF V
  <2> QED  BY <1>1, <1>2, <1>4, RecursionExists, Zenon
<1>7. ASSUME NEW i \in 0..n
      PROVE  f[i] = IF i = 0 THEN <<>>
                    ELSE IF Past(rows[i], date) THEN f[i - 1] ELSE Append(f[i - 1], rows[i])
  <2> HIDE DEF V
  <2>1. CASE i = 0
    BY <2>1, <1>6 DEF Iterates
  <2>2. CASE i # 0
    <3>1. i \in 1..n /\ f[i - 1] \in V
      BY <2>2, <1>1
    <3>2. f[i] = step[i][f[i - 1]]
      BY <2>2, <1>6 DEF Iterates
    <3> QED  BY <3>1, <3>2, <1>5, <2>2
  <2> QED  BY <2>1, <2>2
<1>8. kept = [i \in 0..n |-> IF i = 0 THEN <<>>
             ELSE IF Past(rows[i], date) THEN kept[i - 1] ELSE Append(kept[i - 1], rows[i])]
  <2>1. f = [i \in 0..n |-> IF i = 0 THEN <<>>
             ELSE IF Past(rows[i], date) THEN f[i - 1] ELSE Append(f[i - 1], rows[i])]
    <3> HIDE DEF V
    <3> QED  BY <1>6, <1>7
  <2> QED  BY <2>1
<1>9. Remaining(rows, date) = kept[n]
  BY DEF Remaining
<1> HIDE DEF kept
<1>10. \A i \in 0..n : kept[i] = IF i = 0 THEN <<>>
             ELSE IF Past(rows[i], date) THEN kept[i - 1] ELSE Append(kept[i - 1], rows[i])
  BY ONLY <1>8
<1> DEFINE Good(m) == kept[m] \in V /\ \A j \in 1..m : ~Past(rows[j], date) => rows[j] \in RowsIn(kept[m])
           Bad == {m \in 0..n : ~Good(m)}
<1>11. Good(0)
  <2>1. kept[0] = <<>>
    BY <1>1, <1>10, 0 \in 0..n
  <2> HIDE DEF V
  <2> QED  BY <2>1, <1>2
<1>12. ASSUME NEW m \in 1..n, Good(m - 1) PROVE Good(m)
  <2>1. kept[m] = IF Past(rows[m], date) THEN kept[m - 1] ELSE Append(kept[m - 1], rows[m])
    BY <1>1, <1>10, m \in 0..n, m # 0
  <2>2. PICK v \in V : v = kept[m - 1]
    BY <1>12
  <2>3. \A j \in 1..(m - 1) : ~Past(rows[j], date) => rows[j] \in RowsIn(v)
    BY <1>12, <2>2
  <2>4. CASE Past(rows[m], date)
    <3>1. kept[m] = v
      BY <2>1, <2>2, <2>4
    <3>2. ASSUME NEW j \in 1..m, ~Past(rows[j], date) PROVE rows[j] \in RowsIn(v)
      <4>1. j # m
        BY <3>2, <2>4
      <4> QED  BY <4>1, <3>2, <2>3
    <3> HIDE DEF V
    <3> QED  BY <3>1, <3>2
  <2>5. CASE ~Past(rows[m], date)
    <3>1. PICK w : w = Append(v, rows[m])
      OBVIOUS
    <3>2. w \in V
      BY <3>1, <2>5, <1>3
    <3>3. DOMAIN w = 1..(Len(v) + 1) /\ DOMAIN v = 1..Len(v) /\ Len(v) \in Nat
      BY <3>1
    <3>4. w[Len(v) + 1] = rows[m] /\ \A x \in DOMAIN v : w[x] = v[x]
      BY <3>1, <3>3
    <3>5. rows[m] \in RowsIn(w) /\ \A d \in RowsIn(v) : d \in RowsIn(w)
      <4>1. Len(v) + 1 \in DOMAIN w /\ \A x \in DOMAIN v : x \in DOMAIN w
        BY <3>3
      <4> QED  BY <4>1, <3>4 DEF RowsIn
    <3>6. ASSUME NEW j \in 1..m, ~Past(rows[j], date) PROVE rows[j] \in RowsIn(w)
      <4>1. CASE j = m
        BY <4>1, <3>5
      <4>2. CASE j # m
        BY <4>2, <3>5, <3>6, <2>3
      <4> QED  BY <4>1, <4>2
    <3>7. kept[m] = w
      BY <2>1, <2>2, <2>5, <3>1
    <3> HIDE DEF V
    <3> QED  BY <3>2, <3>6, <3>7
  <2> QED  BY <2>4, <2>5
<1> HIDE DEF Good
<1>13. Bad = {}
  <2> SUFFICES ASSUME Bad # {} PROVE FALSE
    OBVIOUS
  <2>1. Bad \subseteq Nat
    BY <1>1
  <2>2. PICK m \in Bad : \A k \in Bad : m <= k
    <3> HIDE DEF Bad
    <3> QED  BY <2>1, LeastNat, Zenon
  <2>3. m # 0
    BY <2>2, <1>11
  <2>4. m \in 1..n /\ Good(m - 1)
    BY <1>1, <2>2, <2>3
  <2> QED  BY <2>4, <1>12, <2>2
<1>14. Good(n)
  BY <1>1, <1>13
<1>15. PICK r \in V : r = Remaining(rows, date)
  BY <1>9, <1>14 DEF Good
<1>16. \A j \in 1..n : ~Past(rows[j], date) => rows[j] \in RowsIn(r)
  BY <1>9, <1>14, <1>15 DEF Good
<1>17. r \in Seq(DrawingSet) /\ \A x \in DOMAIN r : r[x] \in W
  BY <1>w
<1>18. ASSUME NEW d PROVE d \in RowsIn(r) <=> d \in RowsIn(rows) /\ ~Past(d, date)
  <2>1. ASSUME d \in RowsIn(r) PROVE d \in RowsIn(rows) /\ ~Past(d, date)
    <3>1. d \in W
      BY <2>1, <1>17 DEF RowsIn
    <3> QED  BY <3>1 DEF W
  <2>2. ASSUME d \in RowsIn(rows), ~Past(d, date) PROVE d \in RowsIn(r)
    <3>1. PICK j \in 1..n : d = rows[j]
      BY <2>2, <1>1 DEF RowsIn
    <3> QED  BY <3>1, <2>2, <1>16
  <2> QED  BY <2>1, <2>2
<1> QED  BY <1>15, <1>17, <1>18

----------------------------------------------------------------------------
(* A call's table entry after a step of slot i, which leaves c there.       *)
LEMMA CallsAfter ==
    ASSUME RoomBase, NEW i \in SkribblSlots, NEW c, roomCalls' = [roomCalls EXCEPT ![i] = c],
           NEW j \in SkribblSlots
    PROVE  roomCalls'[j] = IF j = i THEN c ELSE roomCalls[j]
<1>1. roomCalls \in [SkribblSlots -> RoomCalls]
  BY DEF RoomBase, RoomTyped
<1> QED  BY <1>1

LEMMA BaseStep ==
    ASSUME RoomBase, NEW i \in SkribblSlots, NEW c \in RoomCalls,
           roomCalls' = [roomCalls EXCEPT ![i] = c], RoomCallFits(c, today, spanned),
           today' = today, spanned' = spanned, roomFaults' \in Nat,
           themeOf' \in [Dates -> Themes \cup {NoTheme}], drawings' \in Seq(DrawingSet),
           winners' \in [Dates -> Players \cup {NoPlayer}],
           outcome' \in [Dates -> Players \cup {NoPlayer}],
           \A x \in DOMAIN drawings' : drawings'[x].date <= today
    PROVE  RoomBase'
<1>1. roomCalls' \in [SkribblSlots -> RoomCalls]
  BY DEF RoomBase, RoomTyped
<1>2. ASSUME NEW j \in SkribblSlots PROVE RoomCallFits(roomCalls'[j], today, spanned)
  <2>1. RoomCallFits(roomCalls[j], today, spanned)
    BY DEF RoomBase
  <2>2. roomCalls'[j] = IF j = i THEN c ELSE roomCalls[j]
    BY CallsAfter
  <2> QED  BY <2>1, <2>2
<1>3. RoomTyped'
  BY <1>1 DEF RoomBase, RoomTyped
<1> QED  BY <1>2, <1>3 DEF RoomBase

(* Where the tables the invariant types stay as they are.                  *)
LEMMA BaseQuiet ==
    ASSUME RoomBase, NEW i \in SkribblSlots, NEW c \in RoomCalls,
           roomCalls' = [roomCalls EXCEPT ![i] = c], RoomCallFits(c, today, spanned),
           UNCHANGED <<today, spanned, themeOf, drawings, winners, outcome>>, roomFaults' \in Nat
    PROVE  RoomBase'
<1>1. /\ themeOf \in [Dates -> Themes \cup {NoTheme}] /\ drawings \in Seq(DrawingSet)
      /\ winners \in [Dates -> Players \cup {NoPlayer}]
      /\ outcome \in [Dates -> Players \cup {NoPlayer}]
      /\ \A x \in DOMAIN drawings : drawings[x].date <= today
  BY DEF RoomBase, RoomTyped
<1> QED  BY <1>1, BaseStep
----------------------------------------------------------------------------
(* What a step of slot i keeps that does not meet the part's tables.        *)
LEMMA ThemeFrame ==
    ASSUME RoomBase, ThemeKept, NEW i \in SkribblSlots, NEW c,
           roomCalls' = [roomCalls EXCEPT ![i] = c],
           UNCHANGED <<today, spanned, told>>, themeOf'[today] = themeOf[today],
           c.at # "reread"
    PROVE  ThemeKept'
<1>1. ThemeAgreed'
  BY DEF ThemeKept, ThemeAgreed
<1>2. ASSUME NEW j \in SkribblSlots, roomCalls'[j].at = "reread", roomCalls'[j].date = today
      PROVE  themeOf[today] # NoTheme
  <2>1. roomCalls'[j] = IF j = i THEN c ELSE roomCalls[j]
    BY CallsAfter
  <2> QED  BY <1>2, <2>1 DEF ThemeKept
<1>3. \A a \in told : a[1] \in Dates /\ a[1] <= today /\ (a[1] = today => a[2] = themeOf[today] /\ a[2] # NoTheme)
  BY DEF ThemeKept
<1> QED  BY <1>1, <1>2, <1>3 DEF ThemeKept

ImagePlaces == {"insert", "votes", "rows"}
LEMMA ImagesFrame ==
    ASSUME RoomBase, ImagesKept, NEW i \in SkribblSlots, NEW c,
           roomCalls' = [roomCalls EXCEPT ![i] = c],
           UNCHANGED <<today, spanned, drawings, drawn>>, roomFaults' = roomFaults,
           roomCalls[i].at \notin ImagePlaces, c.at \notin ImagePlaces
    PROVE  ImagesKept'
<1>1. \A j \in SkribblSlots : roomCalls'[j] = IF j = i THEN c ELSE roomCalls[j]
  BY CallsAfter
<1>2. \A x \in DOMAIN drawings : drawings[x].date = today => drawings[x] \in drawn
  BY DEF ImagesKept
<1>3. ASSUME NEW j \in SkribblSlots, roomCalls'[j].op = "submit", roomCalls'[j].at = "insert",
             roomCalls'[j].owner = today
      PROVE  Drawing(roomCalls'[j].user, today) \in drawn
  <2>1. j # i
    BY <1>1, <1>3 DEF ImagePlaces
  <2> QED  BY <2>1, <1>1, <1>3 DEF ImagesKept
<1>4. ASSUME NEW d, NEW j \in SkribblSlots
      PROVE  /\ Putting(roomCalls'[j], d) <=> Putting(roomCalls[j], d)
             /\ Purging(roomCalls'[j], d) <=> Purging(roomCalls[j], d)
  BY <1>1 DEF ImagePlaces, Putting, Purging
<1>5. ASSUME roomFaults = 0, spanned = {}
      PROVE  /\ \A d \in drawn : d \in RowsIn(drawings)
                                 \/ \E j \in SkribblSlots : Putting(roomCalls'[j], d)
             /\ \A d \in RowsIn(drawings) : d \in drawn
                                 \/ \E j \in SkribblSlots : Purging(roomCalls'[j], d)
             /\ \A j \in SkribblSlots : \A d \in drawn : ~Purging(roomCalls'[j], d)
  <2>1. /\ \A d \in drawn : d \in RowsIn(drawings)
                                 \/ \E j \in SkribblSlots : Putting(roomCalls[j], d)
        /\ \A d \in RowsIn(drawings) : d \in drawn
                                 \/ \E j \in SkribblSlots : Purging(roomCalls[j], d)
        /\ \A j \in SkribblSlots : \A d \in drawn : ~Purging(roomCalls[j], d)
    BY <1>5 DEF ImagesKept
  <2> QED  BY <2>1, <1>4
<1> QED  BY <1>2, <1>3, <1>5 DEF ImagesKept

(* There is one purge at a time, of a step that starts none beside another. *)
LEMMA OnePurge ==
    ASSUME RoomBase, WinnersKept, NEW i \in SkribblSlots, NEW c,
           roomCalls' = [roomCalls EXCEPT ![i] = c],
           c.op = "purge" => \/ roomCalls[i].op = "purge"
                             \/ \A j \in SkribblSlots : roomCalls[j].op # "purge"
    PROVE  \A j, l \in Purgers' : j = l
<1>1. \A j \in SkribblSlots : roomCalls'[j] = IF j = i THEN c ELSE roomCalls[j]
  BY CallsAfter
<1>2. \A j, l \in SkribblSlots : roomCalls[j].op = "purge" /\ roomCalls[l].op = "purge" => j = l
  BY DEF WinnersKept, Purgers
<1>3. ASSUME NEW j \in SkribblSlots, NEW l \in SkribblSlots,
             roomCalls'[j].op = "purge", roomCalls'[l].op = "purge"
      PROVE  j = l
  <2>1. j = i \/ (j # i /\ roomCalls[j].op = "purge")
    BY <1>1, <1>3
  <2>2. l = i \/ (l # i /\ roomCalls[l].op = "purge")
    BY <1>1, <1>3
  <2>3. (j = i \/ l = i) => c.op = "purge"
    BY <1>1, <1>3
  <2> QED  BY <2>1, <2>2, <2>3, <1>2
<1> QED  BY <1>3 DEF Purgers

LEMMA WinnersFrame ==
    ASSUME RoomBase, WinnersKept, NEW i \in SkribblSlots, NEW c,
           roomCalls' = [roomCalls EXCEPT ![i] = c],
           UNCHANGED <<today, spanned, drawings, ballots, winners, outcome>>,
           roomFaults' = roomFaults,
           c.op = "purge" => \/ roomCalls[i].op = "purge"
                             \/ \A j \in SkribblSlots : roomCalls[j].op # "purge",
           ~PurgeAt(roomCalls[i], "rows"), ~PurgeAt(c, "record")
    PROVE  WinnersKept'
<1>1. \A j \in SkribblSlots : roomCalls'[j] = IF j = i THEN c ELSE roomCalls[j]
  BY CallsAfter
<1>2. \A j, l \in Purgers' : j = l
  BY OnePurge
<1>3. \A d \in Dates : d >= today => winners[d] = NoPlayer
  BY DEF WinnersKept
<1>4. ASSUME roomFaults = 0
      PROVE  /\ WinnerStands'
             /\ \A d \in Dates : d < today /\ d \notin spanned =>
                    \/ WinnerFor(d)' \in {outcome[d], NoPlayer}
                    \/ \E j \in SkribblSlots : PurgeAt(roomCalls'[j], "rows")
             /\ \A j \in SkribblSlots :
                    PurgeAt(roomCalls'[j], "record") /\ roomCalls'[j].date - 1 \notin spanned
                        => roomCalls'[j].owner = outcome[roomCalls'[j].date - 1]
  <2>1. WinnerStands'
    BY <1>4 DEF WinnersKept, WinnerStands
  <2>2. ASSUME NEW d \in Dates, d < today, d \notin spanned
        PROVE  \/ WinnerFor(d)' \in {outcome[d], NoPlayer}
               \/ \E j \in SkribblSlots : PurgeAt(roomCalls'[j], "rows")
    <3>1. WinnerFor(d)' = WinnerFor(d)
      BY DEF WinnerFor, WinnerOf, Leading, Ahead, Entries, RowsOf, Score
    <3>2. \/ WinnerFor(d) \in {outcome[d], NoPlayer}
          \/ \E j \in SkribblSlots : PurgeAt(roomCalls[j], "rows")
      BY <1>4, <2>2 DEF WinnersKept
    <3>3. ASSUME NEW j \in SkribblSlots, PurgeAt(roomCalls[j], "rows")
          PROVE  PurgeAt(roomCalls'[j], "rows")
      BY <1>1, <3>3
    <3> QED  BY <3>1, <3>2, <3>3
  <2>3. ASSUME NEW j \in SkribblSlots, PurgeAt(roomCalls'[j], "record"),
               roomCalls'[j].date - 1 \notin spanned
        PROVE  roomCalls'[j].owner = outcome[roomCalls'[j].date - 1]
    <3>1. roomCalls'[j] = roomCalls[j]
      BY <1>1, <2>3
    <3> QED  BY <3>1, <2>3, <1>4 DEF WinnersKept
  <2> QED  BY <2>1, <2>2, <2>3
<1> QED  BY <1>2, <1>3, <1>4 DEF WinnersKept

(* Of a step that is no purge's, and changes the entries of no day that is  *)
(* over and nobody spanned.                                                *)
LEMMA ElectedFrame ==
    ASSUME RoomBase, WinnersKept, NEW i \in SkribblSlots, NEW c,
           roomCalls' = [roomCalls EXCEPT ![i] = c],
           UNCHANGED <<today, spanned, winners, outcome, roomFaults>>,
           roomCalls[i].op # "purge", c.op # "purge",
           \A d \in Dates : d < today /\ d \notin spanned => WinnerFor(d)' = WinnerFor(d)
    PROVE  WinnersKept'
<1>1. \A j \in SkribblSlots : roomCalls'[j] = IF j = i THEN c ELSE roomCalls[j]
  BY CallsAfter
<1>2. \A j, l \in Purgers' : j = l
  BY OnePurge
<1>3. \A d \in Dates : d >= today => winners[d] = NoPlayer
  BY DEF WinnersKept
<1>4. ASSUME NEW j \in SkribblSlots, NEW place
      PROVE  PurgeAt(roomCalls'[j], place) <=> PurgeAt(roomCalls[j], place)
  BY <1>1 DEF PurgeAt
<1>5. ASSUME roomFaults = 0
      PROVE  /\ WinnerStands'
             /\ \A d \in Dates : d < today /\ d \notin spanned =>
                    \/ WinnerFor(d)' \in {outcome[d], NoPlayer}
                    \/ \E j \in SkribblSlots : PurgeAt(roomCalls'[j], "rows")
             /\ \A j \in SkribblSlots :
                    PurgeAt(roomCalls'[j], "record") /\ roomCalls'[j].date - 1 \notin spanned
                        => roomCalls'[j].owner = outcome[roomCalls'[j].date - 1]
  <2>1. WinnerStands'
    BY <1>5 DEF WinnersKept, WinnerStands
  <2>2. ASSUME NEW d \in Dates, d < today, d \notin spanned
        PROVE  \/ WinnerFor(d)' \in {outcome[d], NoPlayer}
               \/ \E j \in SkribblSlots : PurgeAt(roomCalls'[j], "rows")
    <3>1. WinnerFor(d)' = WinnerFor(d)
      BY <2>2
    <3>2. \/ WinnerFor(d) \in {outcome[d], NoPlayer}
          \/ \E j \in SkribblSlots : PurgeAt(roomCalls[j], "rows")
      BY <1>5, <2>2 DEF WinnersKept
    <3> QED  BY <3>1, <3>2, <1>4
  <2>3. ASSUME NEW j \in SkribblSlots, PurgeAt(roomCalls'[j], "record"),
               roomCalls'[j].date - 1 \notin spanned
        PROVE  roomCalls'[j].owner = outcome[roomCalls'[j].date - 1]
    <3>1. j # i
      BY <2>3, <1>1 DEF PurgeAt
    <3>2. roomCalls'[j] = roomCalls[j] /\ PurgeAt(roomCalls[j], "record")
      BY <3>1, <1>1, <2>3
    <3> QED  BY <3>2, <2>3, <1>5 DEF WinnersKept
  <2> QED  BY <2>1, <2>2, <2>3
<1> QED  BY <1>2, <1>3, <1>5 DEF WinnersKept

(* Once a step has failed, only the day to come matters.                   *)
LEMMA WinnersAfterFault ==
    ASSUME RoomBase, WinnersKept, NEW i \in SkribblSlots, NEW c,
           roomCalls' = [roomCalls EXCEPT ![i] = c], c.op = "purge" => roomCalls[i].op = "purge",
           UNCHANGED <<today, winners>>, roomFaults' # 0
    PROVE  WinnersKept'
<1>1. \A j, l \in Purgers' : j = l
  BY OnePurge
<1>2. \A d \in Dates : d >= today => winners[d] = NoPlayer
  BY DEF WinnersKept
<1> QED  BY <1>1, <1>2 DEF WinnersKept

----------------------------------------------------------------------------
(* Steps that only move a call, or what the invariant does not hold.       *)
Aside == {"theme", "pool", "mark", "pin", "existing", "put", "drawing", "vote", "winner",
          "expired", "themes", "idle"}

LEMMA QuietStep ==
    ASSUME RoomIInv, NEW i \in SkribblSlots, NEW c \in RoomCalls,
           roomCalls' = [roomCalls EXCEPT ![i] = c], RoomCallFits(c, today, spanned),
           UNCHANGED <<today, spanned, themeOf, drawings, drawn, ballots, winners, outcome,
                       roomFaults, told>>,
           roomCalls[i].at \in Aside, c.at \in Aside,
           c.op = "purge" => \/ roomCalls[i].op = "purge"
                             \/ \A j \in SkribblSlots : roomCalls[j].op # "purge"
    PROVE  RoomIInv'
<1> USE DEF RoomIInv
<1>1. RoomBase'
  <2>1. roomFaults' \in Nat
    BY DEF RoomBase, RoomTyped
  <2> QED  BY <2>1, BaseQuiet
<1>2. ThemeKept'
  BY ThemeFrame DEF Aside
<1>3. ImagesKept'
  BY ImagesFrame DEF Aside, ImagePlaces
<1>4. WinnersKept'
  BY WinnersFrame DEF Aside, PurgeAt
<1> QED  BY <1>1, <1>2, <1>3, <1>4

(* A request fits the day it arrives on.                                   *)
LEMMA RequestFits ==
    ASSUME RoomBase, NEW r \in RoomRequests, r.op = "purge" => today > 0
    PROVE  /\ r \in RoomCallSet /\ RoomCallFits(r, today, spanned)
           /\ r.at \in {"theme", "existing", "drawing", "winner"}
<1>1. today \in Dates
  BY DEF RoomBase, RoomTyped
<1>2. Since(today, today, spanned)
  BY <1>1 DEF Since, Dates
<1>3. ASSUME NEW u \in Players, r = RoomCall("theme", u, u, 0, "theme")
      PROVE  /\ r \in RoomCallSet /\ RoomCallFits(r, today, spanned)
             /\ r.at \in {"theme", "existing", "drawing", "winner"}
  BY <1>1, <1>2, <1>3 DEF RoomCall, RoomCallSet, RoomCallFits, RoomPlaces, Drawn
<1>4. ASSUME NEW u \in Players, r = RoomCall("submit", u, u, 0, "existing")
      PROVE  /\ r \in RoomCallSet /\ RoomCallFits(r, today, spanned)
             /\ r.at \in {"theme", "existing", "drawing", "winner"}
  BY <1>1, <1>2, <1>4 DEF RoomCall, RoomCallSet, RoomCallFits, RoomPlaces, Drawn
<1>5. ASSUME NEW u \in Players, NEW v \in Players, NEW n \in {-1, 0, 1},
             r = RoomCall("vote", u, v, n, "drawing")
      PROVE  /\ r \in RoomCallSet /\ RoomCallFits(r, today, spanned)
             /\ r.at \in {"theme", "existing", "drawing", "winner"}
  BY <1>1, <1>2, <1>5 DEF RoomCall, RoomCallSet, RoomCallFits, RoomPlaces, Drawn
<1>6. ASSUME r = RoomCall("purge", NoPlayer, NoPlayer, 0, "winner")
      PROVE  /\ r \in RoomCallSet /\ RoomCallFits(r, today, spanned)
             /\ r.at \in {"theme", "existing", "drawing", "winner"}
  BY <1>1, <1>2, <1>6 DEF RoomCall, RoomCallSet, RoomCallFits, RoomPlaces, Drawn
<1> QED  BY <1>3, <1>4, <1>5, <1>6 DEF RoomRequests

LEMMA ReceiveKeeps ==
    ASSUME RoomIInv, NEW i \in SkribblSlots, NEW r \in RoomRequests, RoomReceive(i, r)
    PROVE  RoomIInv'
<1>1. RoomBase
  BY DEF RoomIInv
<1>2. /\ r \in RoomCallSet /\ RoomCallFits(r, today, spanned)
      /\ r.at \in {"theme", "existing", "drawing", "winner"}
  BY <1>1, RequestFits DEF RoomReceive
<1>3. ASSUME r.op = "purge", NEW j \in SkribblSlots PROVE roomCalls[j].op # "purge"
  <2>1. CASE j \in RoomBusy
    BY <2>1, <1>3 DEF RoomReceive
  <2>2. CASE roomCalls[j].at = "idle"
    <3>1. roomCalls[j] \in RoomCalls
      BY <1>1 DEF RoomBase, RoomTyped
    <3>2. roomCalls[j] \notin RoomCallSet
      BY <2>2 DEF RoomCallSet, RoomPlaces
    <3> QED  BY <3>1, <3>2, NoRoomCallShape DEF RoomCalls
  <2> QED  BY <2>1, <2>2 DEF RoomBusy
<1>4. r \in RoomCalls /\ r.at \in Aside /\ roomCalls[i].at \in Aside
  BY <1>2 DEF RoomCalls, Aside, RoomReceive
<1>5. /\ roomCalls' = [roomCalls EXCEPT ![i] = r]
      /\ UNCHANGED <<today, spanned, themeOf, drawings, drawn, ballots, winners, outcome,
                     roomFaults, told>>
  BY DEF RoomReceive, roomTables
<1> QED  BY <1>2, <1>3, <1>4, <1>5, QuietStep

(* The same from a step of a call that goes on.                            *)
LEMMA QuietMove ==
    ASSUME RoomIInv, NEW i \in SkribblSlots, NEW k, NEW c, RoomMoves(i, k, c),
           UNCHANGED <<today, spanned, themeOf, drawings, drawn, ballots, winners, outcome,
                       roomFaults, told>>,
           k.at \in Aside, c = NoRoomCall \/ c.at \in Aside
    PROVE  RoomIInv'
<1>1. c.at \in Aside
  BY NoRoomCallShape DEF Aside
<1>2. c.op = "purge" => k.op = "purge"
  BY NoRoomCallShape DEF RoomMoves
<1> QED  BY <1>1, <1>2, QuietStep DEF RoomMoves

LEMMA PickThemeKeeps ==
    ASSUME RoomIInv, NEW i \in SkribblSlots, PickTheme(i) PROVE RoomIInv'
<1>1. PICK k, c : /\ RoomMoves(i, k, c) /\ k.at = "pool" /\ c.at = "mark"
  BY PickThemeMoves DEF RoomIInv
<1>2. UNCHANGED <<today, spanned, themeOf, drawings, drawn, ballots, winners, outcome,
                  roomFaults, told>>
  BY DEF PickTheme, roomTables, roomGhosts
<1>3. k.at \in Aside /\ c.at \in Aside
  BY <1>1 DEF Aside
<1> QED  BY <1>1, <1>2, <1>3, QuietMove

LEMMA MarkThemeKeeps ==
    ASSUME RoomIInv, NEW i \in SkribblSlots, MarkTheme(i) PROVE RoomIInv'
<1>1. PICK k : k = roomCalls[i]
  OBVIOUS
<1>2. k.at = "mark" /\ RoomGo(i, "pin")
  BY <1>1 DEF MarkTheme
<1>3. PICK c : RoomMoves(i, k, c) /\ c.at = "pin"
  <2>1. "pin" \in RoomPlaces /\ k.at \in Drawn
    BY <1>2 DEF RoomPlaces, Drawn
  <2> QED  BY <1>1, <1>2, <2>1, GoMoves DEF RoomIInv
<1>4. UNCHANGED <<today, spanned, themeOf, drawings, drawn, ballots, winners, outcome,
                  roomFaults, told>>
  BY DEF MarkTheme, roomGhosts
<1>5. k.at \in Aside /\ c.at \in Aside
  BY <1>2, <1>3 DEF Aside
<1> QED  BY <1>3, <1>4, <1>5, QuietMove

LEMMA SubmitExistingKeeps ==
    ASSUME RoomIInv, NEW i \in SkribblSlots, SubmitExisting(i) PROVE RoomIInv'
<1>1. PICK k, c : RoomMoves(i, k, c) /\ k.at = "existing" /\ (c = NoRoomCall \/ c.at = "theme")
  BY SubmitExistingMoves DEF RoomIInv
<1>2. UNCHANGED <<today, spanned, themeOf, drawings, drawn, ballots, winners, outcome,
                  roomFaults, told>>
  BY DEF SubmitExisting, roomTables, roomGhosts
<1>3. k.at \in Aside /\ (c = NoRoomCall \/ c.at \in Aside)
  BY <1>1 DEF Aside
<1> QED  BY <1>1, <1>2, <1>3, QuietMove

LEMMA VoteDrawingKeeps ==
    ASSUME RoomIInv, NEW i \in SkribblSlots, VoteDrawing(i) PROVE RoomIInv'
<1>1. PICK k, c : RoomMoves(i, k, c) /\ k.at = "drawing" /\ (c = NoRoomCall \/ c.at = "vote")
  BY VoteDrawingMoves DEF RoomIInv
<1>2. UNCHANGED <<today, spanned, themeOf, drawings, drawn, ballots, winners, outcome,
                  roomFaults, told>>
  BY DEF VoteDrawing, roomTables, roomGhosts
<1>3. k.at \in Aside /\ (c = NoRoomCall \/ c.at \in Aside)
  BY <1>1 DEF Aside
<1> QED  BY <1>1, <1>2, <1>3, QuietMove
----------------------------------------------------------------------------
(* Whoever is under way since before today has crossed a midnight.         *)
LEMMA SinceFacts ==
    ASSUME NEW d \in Int, NEW day \in Int, NEW spans, Since(d, day, spans)
    PROVE  /\ d <= day /\ (d < day => d \in spans) /\ (spans = {} => d = day)
           /\ \A e \in Int : d <= e /\ e < day => e \in spans
<1>1. d <= day
  BY DEF Since
<1>2. \A e \in Int : d <= e /\ e < day => e \in spans
  BY DEF Since
<1> QED  BY <1>1, <1>2

LEMMA Unmet ==
    ASSUME RoomIInv, NEW i \in SkribblSlots, NEW c \in RoomCalls,
           roomCalls' = [roomCalls EXCEPT ![i] = c], RoomCallFits(c, today, spanned),
           UNCHANGED <<today, spanned, drawings, drawn, ballots, winners, outcome, roomFaults>>,
           themeOf' \in [Dates -> Themes \cup {NoTheme}],
           roomCalls[i].op # "purge" \/ roomCalls[i].at \in Aside,
           c.op # "purge" \/ c.at \in Aside,
           c.op = "purge" => roomCalls[i].op = "purge",
           roomCalls[i].at \notin ImagePlaces, c.at \notin ImagePlaces
    PROVE  RoomBase' /\ ImagesKept' /\ WinnersKept'
<1> USE DEF RoomIInv
<1>1. RoomBase'
  <2>1. /\ drawings \in Seq(DrawingSet) /\ winners \in [Dates -> Players \cup {NoPlayer}]
        /\ outcome \in [Dates -> Players \cup {NoPlayer}] /\ roomFaults \in Nat
        /\ \A x \in DOMAIN drawings : drawings[x].date <= today
    BY DEF RoomBase, RoomTyped
  <2> QED  BY <2>1, BaseStep
<1>2. ImagesKept'
  BY ImagesFrame
<1>3. WinnersKept'
  BY WinnersFrame DEF Aside, PurgeAt
<1> QED  BY <1>1, <1>2, <1>3

LEMMA ReadThemeKeeps ==
    ASSUME RoomIInv, NEW i \in SkribblSlots, ReadTheme(i) PROVE RoomIInv'
<1>1. PICK k, c : /\ RoomMoves(i, k, c) /\ k.op \in {"theme", "submit"} /\ k.at = "theme"
                  /\ c = NoRoomCall \/ c.at \in {"pool", "put"}
  BY ReadThemeMoves DEF RoomIInv
<1>2. UNCHANGED <<today, spanned, themeOf, drawings, drawn, ballots, winners, outcome, roomFaults>>
  BY DEF ReadTheme, roomTables
<1>3. c.at \notin ImagePlaces /\ c.at # "reread" /\ c.op # "purge" /\ k = roomCalls[i]
      /\ roomCalls' = [roomCalls EXCEPT ![i] = c] /\ c \in RoomCalls
      /\ RoomCallFits(c, today, spanned)
  BY <1>1, NoRoomCallShape DEF ImagePlaces, RoomMoves
<1>4. RoomBase' /\ ImagesKept' /\ WinnersKept'
  <2>1. themeOf' \in [Dates -> Themes \cup {NoTheme}]
    BY <1>2 DEF RoomIInv, RoomBase, RoomTyped
  <2>2. k.at \notin ImagePlaces
    BY <1>1 DEF ImagePlaces
  <2> QED  BY <1>1, <1>2, <1>3, <2>1, <2>2, Unmet
<1>5. ThemeKept'
  <2>1. CASE told' = told
    BY <2>1, <1>2, <1>3, ThemeFrame DEF RoomIInv
  <2>2. CASE told' = told \cup {<<today, themeOf[today]>>} /\ themeOf[today] # NoTheme
    <3>1. \A a \in told : a[1] \in Dates /\ a[1] <= today /\ (a[1] = today => a[2] = themeOf[today] /\ a[2] # NoTheme)
      BY DEF RoomIInv, ThemeKept
    <3>2. today \in Dates /\ today <= today
      BY DEF RoomIInv, RoomBase, RoomTyped, Dates
    <3>3. \A a \in told' : a[1] \in Dates /\ a[1] <= today /\ (a[1] = today => a[2] = themeOf[today] /\ a[2] # NoTheme)
      BY <2>2, <3>1, <3>2
    <3>4. ASSUME NEW a \in told', NEW b \in told', a[1] = b[1], a[1] \notin spanned PROVE a[2] = b[2]
      <4>1. CASE a[1] = today
        BY <4>1, <3>3, <3>4
      <4>2. CASE a[1] # today
        <5>1. a \in told /\ b \in told
          BY <4>2, <3>4, <2>2
        <5> QED  BY <5>1, <3>4 DEF RoomIInv, ThemeKept, ThemeAgreed
      <4> QED  BY <4>1, <4>2
    <3>5. ASSUME NEW j \in SkribblSlots, roomCalls'[j].at = "reread", roomCalls'[j].date = today
          PROVE  themeOf[today] # NoTheme
      BY <2>2
    <3> QED  BY <1>2, <3>3, <3>4, <3>5 DEF ThemeKept, ThemeAgreed
  <2> QED  BY <2>1, <2>2 DEF ReadTheme
<1> QED  BY <1>4, <1>5 DEF RoomIInv

LEMMA PinThemeKeeps ==
    ASSUME RoomIInv, NEW i \in SkribblSlots, PinTheme(i) PROVE RoomIInv'
<1>1. PICK k : k = roomCalls[i]
  OBVIOUS
<1>2. k.at = "pin" /\ k.op \in {"theme", "submit"} /\ RoomGo(i, "reread")
  BY <1>1 DEF PinTheme, InTheme
<1>3. PICK c : RoomMoves(i, k, c) /\ c.at = "reread" /\ c.date = k.date /\ c # NoRoomCall
  <2>1. "reread" \in RoomPlaces /\ k.at \in Drawn
    BY <1>2 DEF RoomPlaces, Drawn
  <2> QED  BY <1>1, <1>2, <2>1, GoMoves DEF RoomIInv
<1>4. /\ k \in RoomCallSet /\ k.date \in Dates /\ k.pick \in Themes
      /\ c.op \in {"theme", "submit"} /\ c \in RoomCalls
      /\ roomCalls' = [roomCalls EXCEPT ![i] = c] /\ RoomCallFits(c, today, spanned)
  <2>1. /\ k \in RoomCallSet /\ RoomCallFits(k, today, spanned) /\ c \in RoomCalls
        /\ roomCalls' = [roomCalls EXCEPT ![i] = c] /\ RoomCallFits(c, today, spanned)
        /\ c.op = k.op
    BY <1>3 DEF RoomMoves
  <2>2. k # NoRoomCall
    BY <1>2, NoRoomCallShape
  <2>3. k.date \in Dates
    BY <2>1 DEF RoomCallSet
  <2>4. k.pick \in Themes
    BY <1>2, <2>1, <2>2 DEF RoomCallFits
  <2> QED  BY <1>2, <2>1, <2>3, <2>4
<1>5. /\ UNCHANGED <<today, spanned, drawings, drawn, ballots, winners, outcome, roomFaults, told>>
      /\ themeOf' = IF themeOf[k.date] = NoTheme THEN [themeOf EXCEPT ![k.date] = k.pick] ELSE themeOf
  BY <1>1 DEF PinTheme, roomGhosts
<1>6. themeOf \in [Dates -> Themes \cup {NoTheme}] /\ today \in Dates
  BY DEF RoomIInv, RoomBase, RoomTyped
<1>7. /\ themeOf' \in [Dates -> Themes \cup {NoTheme}]
      /\ themeOf'[k.date] # NoTheme
      /\ themeOf[today] # NoTheme => themeOf'[today] = themeOf[today]
  <2>1. NoTheme \notin Themes
    BY SkribblAssumption
  <2> QED  BY <2>1, <1>4, <1>5, <1>6
<1>8. RoomBase' /\ ImagesKept' /\ WinnersKept'
  <2>1. /\ roomCalls[i].at \notin ImagePlaces /\ c.at \notin ImagePlaces
        /\ roomCalls[i].op # "purge" /\ c.op # "purge"
    BY <1>1, <1>2, <1>3, <1>4 DEF ImagePlaces
  <2> QED  BY <1>4, <1>5, <1>7, <2>1, Unmet
<1>9. ThemeKept'
  <2>1. ThemeAgreed'
    BY <1>5 DEF RoomIInv, ThemeKept, ThemeAgreed
  <2>2. \A a \in told : a[1] \in Dates /\ a[1] <= today /\ (a[1] = today => a[2] = themeOf[today] /\ a[2] # NoTheme)
    BY DEF RoomIInv, ThemeKept
  <2>3. \A a \in told : a[1] \in Dates /\ a[1] <= today /\ (a[1] = today => a[2] = themeOf'[today] /\ a[2] # NoTheme)
    BY <2>2, <1>7
  <2>4. ASSUME NEW j \in SkribblSlots, roomCalls'[j].at = "reread", roomCalls'[j].date = today
        PROVE  themeOf'[today] # NoTheme
    <3>1. roomCalls'[j] = IF j = i THEN c ELSE roomCalls[j]
      BY <1>4, CallsAfter DEF RoomIInv
    <3>2. CASE j = i
      BY <3>1, <3>2, <2>4, <1>3, <1>7
    <3>3. CASE j # i
      <4>1. themeOf[today] # NoTheme
        BY <3>1, <3>3, <2>4 DEF RoomIInv, ThemeKept
      <4> QED  BY <4>1, <1>7
    <3> QED  BY <3>2, <3>3
  <2> QED  BY <2>1, <2>3, <2>4, <1>5 DEF ThemeKept
<1> QED  BY <1>8, <1>9 DEF RoomIInv

LEMMA RereadThemeKeeps ==
    ASSUME RoomIInv, NEW i \in SkribblSlots, RereadTheme(i) PROVE RoomIInv'
<1>1. PICK k : k = roomCalls[i]
  OBVIOUS
<1>2. k.at = "reread" /\ k.op \in {"theme", "submit"}
  BY <1>1 DEF RereadTheme, InTheme
<1>3. PICK c : RoomMoves(i, k, c) /\ (c = NoRoomCall \/ c.at = "put")
  <2>1. CASE RoomEnd(i)
    BY <2>1, <1>1, <1>2, EndMoves DEF RoomIInv
  <2>2. CASE RoomGo(i, "put")
    <3>1. "put" \in RoomPlaces /\ k.at \in Drawn
      BY <1>2 DEF RoomPlaces, Drawn
    <3> QED  BY <1>1, <1>2, <2>2, <3>1, GoMoves DEF RoomIInv
  <2> QED  BY <2>1, <2>2 DEF RereadTheme, Answers
<1>4. /\ k \in RoomCallSet /\ k.date \in Dates /\ Since(k.date, today, spanned)
      /\ c.op # "purge" /\ c \in RoomCalls /\ c.at \notin ImagePlaces /\ c.at # "reread"
      /\ roomCalls' = [roomCalls EXCEPT ![i] = c] /\ RoomCallFits(c, today, spanned)
  <2>1. /\ k \in RoomCallSet /\ RoomCallFits(k, today, spanned) /\ c \in RoomCalls
        /\ roomCalls' = [roomCalls EXCEPT ![i] = c] /\ RoomCallFits(c, today, spanned)
        /\ c.op # "purge"
    BY <1>2, <1>3, NoRoomCallShape DEF RoomMoves
  <2>2. k # NoRoomCall
    BY <1>2, NoRoomCallShape
  <2>3. k.date \in Dates
    BY <2>1 DEF RoomCallSet
  <2>4. Since(k.date, today, spanned)
    BY <2>1, <2>2 DEF RoomCallFits
  <2>5. c.at \notin ImagePlaces /\ c.at # "reread"
    BY <1>3, NoRoomCallShape DEF ImagePlaces
  <2> QED  BY <2>1, <2>3, <2>4, <2>5
<1>5. /\ UNCHANGED <<today, spanned, themeOf, drawings, drawn, ballots, winners, outcome, roomFaults>>
      /\ told' = told \cup {<<k.date, ThemeReadBack(k)>>}
  BY <1>1 DEF RereadTheme, Answers, roomTables
<1>6. today \in Dates /\ themeOf \in [Dates -> Themes \cup {NoTheme}]
  BY DEF RoomIInv, RoomBase, RoomTyped
<1>7. RoomBase' /\ ImagesKept' /\ WinnersKept'
  <2>1. roomCalls[i].at \notin ImagePlaces /\ roomCalls[i].op # "purge"
    BY <1>1, <1>2 DEF ImagePlaces
  <2>2. themeOf' \in [Dates -> Themes \cup {NoTheme}]
    BY <1>5, <1>6
  <2> QED  BY <1>4, <1>5, <2>1, <2>2, Unmet
<1>8. ThemeKept'
  <2>1. k.date <= today /\ (k.date < today => k.date \in spanned)
    <3>1. k.date \in Int /\ today \in Int
      BY <1>4, <1>6 DEF Dates
    <3> QED  BY <3>1, <1>4, SinceFacts
  <2>2. k.date = today => ThemeReadBack(k) = themeOf[today] /\ themeOf[today] # NoTheme
    BY <1>1, <1>2 DEF RoomIInv, ThemeKept, ThemeReadBack
  <2>3. \A a \in told : a[1] \in Dates /\ a[1] <= today /\ (a[1] = today => a[2] = themeOf[today] /\ a[2] # NoTheme)
    BY DEF RoomIInv, ThemeKept
  <2>4. \A a \in told' : a[1] \in Dates /\ a[1] <= today /\ (a[1] = today => a[2] = themeOf[today] /\ a[2] # NoTheme)
    BY <1>4, <1>5, <2>1, <2>2, <2>3
  <2>5. ASSUME NEW a \in told', NEW b \in told', a[1] = b[1], a[1] \notin spanned PROVE a[2] = b[2]
    <3>1. CASE a[1] = today
      BY <3>1, <2>4, <2>5
    <3>2. CASE a[1] # today
      <4>1. a[1] # k.date
        <5>1. k.date \in Int /\ today \in Int
          BY <1>4, <1>6 DEF Dates
        <5> QED  BY <5>1, <3>2, <2>1, <2>5
      <4>2. a \in told /\ b \in told
        BY <4>1, <2>5, <1>5
      <4> QED  BY <4>2, <2>5 DEF RoomIInv, ThemeKept, ThemeAgreed
    <3> QED  BY <3>1, <3>2
  <2>6. ASSUME NEW j \in SkribblSlots, roomCalls'[j].at = "reread", roomCalls'[j].date = today
        PROVE  themeOf[today] # NoTheme
    <3>1. roomCalls'[j] = IF j = i THEN c ELSE roomCalls[j]
      BY <1>4, CallsAfter DEF RoomIInv
    <3>2. j # i
      BY <3>1, <2>6, <1>4
    <3> QED  BY <3>1, <3>2, <2>6 DEF RoomIInv, ThemeKept
  <2> QED  BY <1>5, <2>4, <2>5, <2>6 DEF ThemeKept, ThemeAgreed
<1> QED  BY <1>7, <1>8 DEF RoomIInv

----------------------------------------------------------------------------
(* The rows with one more.                                                 *)
LEMMA AppendedRows ==
    ASSUME NEW rows \in Seq(DrawingSet), NEW d \in DrawingSet, NEW s, s = Append(rows, d)
    PROVE  /\ s \in Seq(DrawingSet) /\ DOMAIN rows \subseteq DOMAIN s
           /\ \A x \in DOMAIN rows : s[x] = rows[x]
           /\ \A x \in DOMAIN s : x \in DOMAIN rows \/ s[x] = d
           /\ \A e : e \in RowsIn(s) <=> e \in RowsIn(rows) \/ e = d
<1>1. /\ s \in Seq(DrawingSet) /\ Len(rows) \in Nat /\ DOMAIN rows = 1..Len(rows)
      /\ DOMAIN s = 1..(Len(rows) + 1)
  OBVIOUS
<1>2. s[Len(rows) + 1] = d /\ \A x \in DOMAIN rows : s[x] = rows[x]
  OBVIOUS
<1>3. DOMAIN rows \subseteq DOMAIN s /\ \A x \in DOMAIN s : x \in DOMAIN rows \/ x = Len(rows) + 1
  BY <1>1
<1>4. Len(rows) + 1 \in DOMAIN s
  BY <1>1
<1>5. ASSUME NEW e PROVE e \in RowsIn(s) <=> e \in RowsIn(rows) \/ e = d
  BY <1>2, <1>3, <1>4 DEF RowsIn
<1> QED  BY <1>1, <1>2, <1>3, <1>5

(* The entries of a day, of any rows and votes.                            *)
ScoreIn(cast, drawing) ==
    Cardinality({b \in cast : b.drawing = drawing /\ b.vote = 1})
    - Cardinality({b \in cast : b.drawing = drawing /\ b.vote = -1})
EntriesIn(rows, cast, date) ==
    [k \in {x \in DOMAIN rows : rows[x].date = date} |->
        [user |-> rows[k].user, score |-> ScoreIn(cast, rows[k])]]

LEMMA WinnerIsOf ==
    ASSUME NEW d
    PROVE  /\ WinnerFor(d) = WinnerOf(EntriesIn(drawings, ballots, d))
           /\ WinnerFor(d)' = WinnerOf(EntriesIn(drawings', ballots', d))
<1>1. /\ Entries(d) = EntriesIn(drawings, ballots, d)
      /\ Entries(d)' = EntriesIn(drawings', ballots', d)
  BY DEF Entries, EntriesIn, RowsOf, Score, ScoreIn
<1>2. WinnerFor(d) = WinnerOf(Entries(d)) /\ WinnerFor(d)' = WinnerOf(Entries(d)')
  BY DEF WinnerFor, WinnerOf, Leading, Ahead
<1> QED  BY <1>1, <1>2

LEMMA EntriesSameRows ==
    ASSUME NEW rows, NEW cast, NEW after, NEW d,
           \A b : \/ b.drawing.date # d
                  \/ b \in cast <=> b \in after
    PROVE  EntriesIn(rows, cast, d) = EntriesIn(rows, after, d)
<1>1. ASSUME NEW k \in DOMAIN rows, rows[k].date = d
      PROVE  ScoreIn(cast, rows[k]) = ScoreIn(after, rows[k])
  <2>1. ASSUME NEW v
        PROVE  {b \in cast : b.drawing = rows[k] /\ b.vote = v}
             = {b \in after : b.drawing = rows[k] /\ b.vote = v}
    BY <1>1
  <2> QED  BY <2>1 DEF ScoreIn
<1> QED  BY <1>1 DEF EntriesIn

LEMMA EntriesSameDay ==
    ASSUME NEW rows \in Seq(DrawingSet), NEW e \in DrawingSet, NEW cast, NEW d, e.date # d
    PROVE  EntriesIn(rows, cast, d) = EntriesIn(Append(rows, e), cast, d)
<1>0. PICK s : s = Append(rows, e)
  OBVIOUS
<1>1. /\ DOMAIN rows \subseteq DOMAIN s /\ \A x \in DOMAIN rows : s[x] = rows[x]
      /\ \A x \in DOMAIN s : x \in DOMAIN rows \/ s[x] = e
  BY <1>0, AppendedRows
<1>2. {x \in DOMAIN rows : rows[x].date = d} = {x \in DOMAIN s : s[x].date = d}
  BY <1>1
<1>3. \A x \in {y \in DOMAIN rows : rows[y].date = d} : s[x] = rows[x]
  BY <1>1
<1>4. EntriesIn(rows, cast, d) = EntriesIn(s, cast, d)
  BY <1>2, <1>3 DEF EntriesIn
<1> QED  BY <1>0, <1>4

LEMMA NoEntriesNoWinner ==
    ASSUME NEW rows, NEW cast, NEW d, \A x \in DOMAIN rows : rows[x].date # d
    PROVE  WinnerOf(EntriesIn(rows, cast, d)) = NoPlayer
<1>1. DOMAIN EntriesIn(rows, cast, d) = {}
  BY DEF EntriesIn
<1>2. Leading(EntriesIn(rows, cast, d)) = {}
  BY <1>1 DEF Leading
<1> QED  BY <1>2 DEF WinnerOf
----------------------------------------------------------------------------
(* A drawing whose image is stored is of the day it was started on.        *)
LEMMA SubmitCall ==
    ASSUME RoomBase, NEW i \in SkribblSlots, NEW k, k = roomCalls[i], k.op = "submit",
           k.at \in {"put", "insert"}
    PROVE  /\ k \in RoomCallSet /\ k.user \in Players /\ k.owner \in Dates
           /\ Drawing(k.user, k.owner) \in DrawingSet
           /\ k.owner <= today /\ (k.owner < today => k.owner \in spanned)
           /\ (spanned = {} => k.owner = today)
           /\ \A e \in Int : k.owner <= e /\ e < today => e \in spanned
<1>1. k \in RoomCallSet /\ k # NoRoomCall /\ RoomCallFits(k, today, spanned) /\ today \in Dates
  BY RoomCallOf
<1>2. k.user \in Players /\ k.owner \in Dates /\ Since(k.owner, today, spanned)
  BY <1>1 DEF RoomCallFits, Drawn
<1>3. k.owner \in Int /\ today \in Int
  BY <1>1, <1>2 DEF Dates
<1>4. Drawing(k.user, k.owner) \in DrawingSet
  BY <1>2 DEF Drawing, DrawingSet
<1> QED  BY <1>1, <1>2, <1>3, <1>4, SinceFacts

LEMMA PurgeCall ==
    ASSUME RoomBase, NEW i \in SkribblSlots, NEW k, k = roomCalls[i], k.op = "purge"
    PROVE  /\ k \in RoomCallSet /\ k # NoRoomCall /\ k.at # "idle"
           /\ k.date \in Dates /\ k.date > 0 /\ k.date <= today
           /\ \A e \in Int : k.date <= e /\ e < today => e \in spanned
<1>1. k \in RoomCalls /\ RoomCallFits(k, today, spanned) /\ today \in Dates
  BY DEF RoomBase, RoomTyped
<1>2. k \in RoomCallSet /\ k # NoRoomCall
  BY <1>1, NoRoomCallShape DEF RoomCalls
<1>3. k.date \in Dates /\ k.at # "idle"
  BY <1>2 DEF RoomCallSet, RoomPlaces
<1>4. k.date > 0 /\ Since(k.date, today, spanned)
  BY <1>1, <1>2 DEF RoomCallFits
<1>5. k.date \in Int /\ today \in Int
  BY <1>1, <1>3 DEF Dates
<1> QED  BY <1>2, <1>3, <1>4, <1>5, SinceFacts

LEMMA SubmitPutKeeps ==
    ASSUME RoomIInv, NEW i \in SkribblSlots, SubmitPut(i) PROVE RoomIInv'
<1> USE DEF RoomIInv
<1>1. PICK k : k = roomCalls[i]
  OBVIOUS
<1>2. k.op = "submit" /\ k.at = "put" /\ RoomGo(i, "insert")
  BY <1>1 DEF SubmitPut, RoomAt
<1>3. PICK c : RoomMoves(i, k, c) /\ c.at = "insert" /\ c.owner = k.owner /\ c # NoRoomCall
  <2>1. "insert" \in RoomPlaces /\ k.at \in Drawn
    BY <1>2 DEF RoomPlaces, Drawn
  <2> QED  BY <1>1, <1>2, <2>1, GoMoves
<1>4. /\ c \in RoomCalls /\ roomCalls' = [roomCalls EXCEPT ![i] = c]
      /\ RoomCallFits(c, today, spanned) /\ c.op = "submit" /\ c.user = k.user
  BY <1>2, <1>3 DEF RoomMoves
<1>5. /\ UNCHANGED <<today, spanned, themeOf, drawings, ballots, winners, outcome, roomFaults, told>>
      /\ drawn' = drawn \cup {Drawing(k.user, k.owner)}
  BY <1>1 DEF SubmitPut, roomGhosts
<1>6. /\ k.owner <= today /\ (spanned = {} => k.owner = today) /\ k.owner \in Dates
  BY <1>1, <1>2, SubmitCall
<1>7. RoomBase'
  <2>1. roomFaults' \in Nat
    BY <1>5 DEF RoomBase, RoomTyped
  <2> QED  BY <1>4, <1>5, <2>1, BaseQuiet
<1>8. ThemeKept'
  BY <1>3, <1>4, <1>5, ThemeFrame
<1>9. WinnersKept'
  <2>1. ~PurgeAt(roomCalls[i], "rows") /\ ~PurgeAt(c, "record") /\ c.op # "purge"
    BY <1>1, <1>2, <1>4 DEF PurgeAt
  <2> QED  BY <1>4, <1>5, <2>1, WinnersFrame
<1>10. ImagesKept'
  <2>1. \A j \in SkribblSlots : roomCalls'[j] = IF j = i THEN c ELSE roomCalls[j]
    BY <1>4, CallsAfter
  <2>2. \A x \in DOMAIN drawings : drawings[x].date = today => drawings[x] \in drawn'
    BY <1>5 DEF ImagesKept
  <2>3. ASSUME NEW j \in SkribblSlots, roomCalls'[j].op = "submit", roomCalls'[j].at = "insert",
               roomCalls'[j].owner = today
        PROVE  Drawing(roomCalls'[j].user, today) \in drawn'
    <3>1. CASE j = i
      BY <3>1, <2>1, <2>3, <1>3, <1>4, <1>5
    <3>2. CASE j # i
      BY <3>2, <2>1, <2>3, <1>5 DEF ImagesKept
    <3> QED  BY <3>1, <3>2
  <2>4. ASSUME roomFaults = 0, spanned = {}
        PROVE  /\ \A d \in drawn' : d \in RowsIn(drawings)
                                   \/ \E j \in SkribblSlots : Putting(roomCalls'[j], d)
               /\ \A d \in RowsIn(drawings) : d \in drawn'
                                   \/ \E j \in SkribblSlots : Purging(roomCalls'[j], d)
               /\ \A j \in SkribblSlots : \A d \in drawn' : ~Purging(roomCalls'[j], d)
    <3>1. /\ \A d \in drawn : d \in RowsIn(drawings)
                                   \/ \E j \in SkribblSlots : Putting(roomCalls[j], d)
          /\ \A d \in RowsIn(drawings) : d \in drawn
                                   \/ \E j \in SkribblSlots : Purging(roomCalls[j], d)
          /\ \A j \in SkribblSlots : \A d \in drawn : ~Purging(roomCalls[j], d)
      BY <2>4 DEF ImagesKept
    <3>2. ASSUME NEW d, NEW j \in SkribblSlots, Putting(roomCalls[j], d)
          PROVE  Putting(roomCalls'[j], d)
      BY <3>2, <2>1, <1>1, <1>2 DEF Putting
    <3>3. ASSUME NEW d, NEW j \in SkribblSlots
          PROVE  Purging(roomCalls'[j], d) <=> Purging(roomCalls[j], d)
      BY <2>1, <1>1, <1>2, <1>4 DEF Purging
    <3>4. Putting(roomCalls'[i], Drawing(k.user, k.owner))
      BY <2>1, <1>3, <1>4 DEF Putting
    <3>5. ASSUME NEW j \in SkribblSlots PROVE ~Purging(roomCalls[j], Drawing(k.user, k.owner))
      <4>1. CASE roomCalls[j].op = "purge"
        <5>1. roomCalls[j].date <= today /\ roomCalls[j].date \in Dates
          BY <4>1, PurgeCall
        <5>2. k.owner = today /\ Drawing(k.user, k.owner).date = k.owner
          BY <1>6, <2>4 DEF Drawing
        <5> QED  BY <5>1, <5>2, <1>6 DEF Purging, Dates
      <4>2. CASE roomCalls[j].op # "purge"
        BY <4>2 DEF Purging
      <4> QED  BY <4>1, <4>2
    <3> QED  BY <3>1, <3>2, <3>3, <3>4, <3>5, <1>5
  <2> QED  BY <1>5, <2>2, <2>3, <2>4 DEF ImagesKept
<1> QED  BY <1>7, <1>8, <1>9, <1>10

LEMMA SubmitInsertKeeps ==
    ASSUME RoomIInv, NEW i \in SkribblSlots, SubmitInsert(i) PROVE RoomIInv'
<1> USE DEF RoomIInv
<1>1. PICK k : k = roomCalls[i]
  OBVIOUS
<1>2. k.op = "submit" /\ k.at = "insert" /\ RoomEnd(i)
  BY <1>1 DEF SubmitInsert, RoomAt
<1>3. /\ roomCalls' = [roomCalls EXCEPT ![i] = NoRoomCall] /\ NoRoomCall \in RoomCalls
      /\ RoomCallFits(NoRoomCall, today, spanned)
  BY <1>2 DEF RoomEnd, RoomCalls, RoomCallFits
<1>4. /\ UNCHANGED <<today, spanned, themeOf, drawn, ballots, winners, outcome, roomFaults, told>>
      /\ drawings' = IF HasDrawn(k.user, k.owner) THEN drawings
                     ELSE Append(drawings, Drawing(k.user, k.owner))
  BY <1>1 DEF SubmitInsert, roomGhosts
<1>5. PICK e : e = Drawing(k.user, k.owner)
  OBVIOUS
<1>6. /\ e \in DrawingSet /\ e.date = k.owner /\ e.user = k.user /\ k.owner <= today
      /\ (spanned = {} => k.owner = today) /\ k.owner \in Dates
      /\ (k.owner < today => k.owner \in spanned)
  <2>1. e.date = k.owner /\ e.user = k.user
    BY <1>5 DEF Drawing
  <2> QED  BY <2>1, <1>1, <1>2, <1>5, SubmitCall
<1>7. /\ drawings \in Seq(DrawingSet) /\ \A x \in DOMAIN drawings : drawings[x].date <= today
      /\ themeOf \in [Dates -> Themes \cup {NoTheme}] /\ today \in Dates
      /\ winners \in [Dates -> Players \cup {NoPlayer}]
      /\ outcome \in [Dates -> Players \cup {NoPlayer}] /\ roomFaults \in Nat
  BY DEF RoomBase, RoomTyped
<1>8. PICK rows : rows = drawings'
  OBVIOUS
<1>9. /\ rows \in Seq(DrawingSet) /\ \A d : d \in RowsIn(rows) <=> d \in RowsIn(drawings) \/ d = e
      /\ \A x \in DOMAIN rows : rows[x].date <= today
  <2>1. CASE HasDrawn(k.user, k.owner)
    <3>1. rows = drawings
      BY <2>1, <1>4, <1>8
    <3>2. PICK x \in DOMAIN drawings : drawings[x].date = k.owner /\ drawings[x].user = k.user
      BY <2>1 DEF HasDrawn, RowsOf
    <3>3. drawings[x] = e
      <4>1. drawings[x] \in DrawingSet
        BY <1>7
      <4> QED  BY <3>2, <1>5, <4>1 DEF Drawing, DrawingSet
    <3> QED  BY <3>1, <3>3, <1>7 DEF RowsIn
  <2>2. CASE ~HasDrawn(k.user, k.owner)
    <3>1. rows = Append(drawings, e)
      BY <2>2, <1>4, <1>5, <1>8
    <3>2. /\ rows \in Seq(DrawingSet) /\ \A x \in DOMAIN drawings : rows[x] = drawings[x]
          /\ \A x \in DOMAIN rows : x \in DOMAIN drawings \/ rows[x] = e
          /\ \A d : d \in RowsIn(rows) <=> d \in RowsIn(drawings) \/ d = e
      <4>1. PICK was \in Seq(DrawingSet) : was = drawings
        BY <1>7
      <4>2. rows = Append(was, e) /\ e \in DrawingSet
        BY <3>1, <4>1, <1>6
      <4>3. rows \in Seq(DrawingSet)
        BY <4>2, AppendedRows
      <4>4. \A x \in DOMAIN was : rows[x] = was[x]
        BY <4>2, AppendedRows
      <4>5. \A x \in DOMAIN rows : x \in DOMAIN was \/ rows[x] = e
        BY <4>2, AppendedRows
      <4>6. \A d : d \in RowsIn(rows) <=> d \in RowsIn(was) \/ d = e
        BY <4>2, AppendedRows
      <4> QED  BY <4>1, <4>3, <4>4, <4>5, <4>6
    <3> QED  BY <3>2, <1>6, <1>7
  <2> QED  BY <2>1, <2>2
<1>10. RoomBase'
  <2>1. /\ drawings' \in Seq(DrawingSet) /\ \A x \in DOMAIN drawings' : drawings'[x].date <= today
    BY <1>8, <1>9
  <2> QED  BY <1>3, <1>4, <1>7, <2>1, BaseStep
<1>11. ThemeKept'
  BY <1>3, <1>4, ThemeFrame, NoRoomCallShape
<1>12. \A j \in SkribblSlots : roomCalls'[j] = IF j = i THEN NoRoomCall ELSE roomCalls[j]
  BY <1>3, CallsAfter
<1>13. ImagesKept'
  <2>0. e.date = today => e \in drawn
    BY <1>1, <1>2, <1>5, <1>6 DEF ImagesKept
  <2>1. ASSUME NEW x \in DOMAIN rows, rows[x].date = today PROVE rows[x] \in drawn
    <3>1. rows[x] \in RowsIn(drawings) \/ rows[x] = e
      BY <1>9 DEF RowsIn
    <3> QED  BY <3>1, <2>0, <2>1 DEF ImagesKept, RowsIn
  <2>2. ASSUME NEW j \in SkribblSlots, roomCalls'[j].op = "submit", roomCalls'[j].at = "insert",
               roomCalls'[j].owner = today
        PROVE  Drawing(roomCalls'[j].user, today) \in drawn
    BY <2>2, <1>12, NoRoomCallShape DEF ImagesKept
  <2>3. ASSUME roomFaults = 0, spanned = {}
        PROVE  /\ \A d \in drawn : d \in RowsIn(rows)
                                   \/ \E j \in SkribblSlots : Putting(roomCalls'[j], d)
               /\ \A d \in RowsIn(rows) : d \in drawn
                                   \/ \E j \in SkribblSlots : Purging(roomCalls'[j], d)
               /\ \A j \in SkribblSlots : \A d \in drawn : ~Purging(roomCalls'[j], d)
    <3>1. /\ \A d \in drawn : d \in RowsIn(drawings)
                                   \/ \E j \in SkribblSlots : Putting(roomCalls[j], d)
          /\ \A d \in RowsIn(drawings) : d \in drawn
                                   \/ \E j \in SkribblSlots : Purging(roomCalls[j], d)
          /\ \A j \in SkribblSlots : \A d \in drawn : ~Purging(roomCalls[j], d)
      BY <2>3 DEF ImagesKept
    <3>2. ASSUME NEW d, NEW j \in SkribblSlots, Putting(roomCalls[j], d)
          PROVE  d = e \/ Putting(roomCalls'[j], d)
      BY <3>2, <1>12, <1>1, <1>5 DEF Putting
    <3>3. ASSUME NEW d, NEW j \in SkribblSlots
          PROVE  Purging(roomCalls'[j], d) <=> Purging(roomCalls[j], d)
      BY <1>12, <1>1, <1>2, NoRoomCallShape DEF Purging
    <3>4. e \in drawn
      BY <2>0, <2>3, <1>6
    <3> QED  BY <3>1, <3>2, <3>3, <3>4, <1>9
  <2> QED  BY <1>4, <1>8, <2>1, <2>2, <2>3 DEF ImagesKept
<1>14. ASSUME NEW d \in Dates, d < today, d \notin spanned PROVE WinnerFor(d)' = WinnerFor(d)
  <2>1. e.date # d
    BY <1>6, <1>14
  <2>2. EntriesIn(drawings, ballots, d) = EntriesIn(rows, ballots, d)
    <3>1. CASE HasDrawn(k.user, k.owner)
      BY <3>1, <1>4, <1>8
    <3>2. CASE ~HasDrawn(k.user, k.owner)
      <4>1. rows = Append(drawings, e)
        BY <3>2, <1>4, <1>5, <1>8
      <4>2. PICK was \in Seq(DrawingSet) : was = drawings
        BY <1>7
      <4>3. rows = Append(was, e) /\ e \in DrawingSet /\ e.date # d
        BY <4>1, <4>2, <1>6, <2>1
      <4>4. EntriesIn(was, ballots, d) = EntriesIn(Append(was, e), ballots, d)
        BY <4>3, EntriesSameDay, ZenonT(60)
      <4> QED  BY <4>2, <4>3, <4>4
    <3> QED  BY <3>1, <3>2
  <2> QED  BY <2>2, <1>4, <1>8, WinnerIsOf
<1>15. WinnersKept'
  <2>1. roomCalls[i].op # "purge" /\ NoRoomCall.op # "purge"
    BY <1>1, <1>2, NoRoomCallShape
  <2> QED  BY <1>3, <1>4, <1>14, <2>1, ElectedFrame
<1> QED  BY <1>10, <1>11, <1>13, <1>15

LEMMA VoteWriteKeeps ==
    ASSUME RoomIInv, NEW i \in SkribblSlots, VoteWrite(i) PROVE RoomIInv'
<1> USE DEF RoomIInv
<1>1. PICK k : k = roomCalls[i]
  OBVIOUS
<1>2. k.op = "vote" /\ k.at = "vote" /\ RoomEnd(i)
  BY <1>1 DEF VoteWrite, RoomAt
<1>3. /\ roomCalls' = [roomCalls EXCEPT ![i] = NoRoomCall] /\ NoRoomCall \in RoomCalls
      /\ RoomCallFits(NoRoomCall, today, spanned)
  BY <1>2 DEF RoomEnd, RoomCalls, RoomCallFits
<1>4. UNCHANGED <<today, spanned, themeOf, drawings, drawn, winners, outcome, roomFaults, told>>
  BY DEF VoteWrite, roomGhosts
<1>5. RoomBase'
  <2>1. roomFaults' \in Nat
    BY <1>4 DEF RoomBase, RoomTyped
  <2> QED  BY <1>3, <1>4, <2>1, BaseQuiet
<1>6. ThemeKept'
  BY <1>3, <1>4, ThemeFrame, NoRoomCallShape
<1>7. ImagesKept'
  <2>1. roomCalls[i].at \notin ImagePlaces /\ NoRoomCall.at \notin ImagePlaces
    BY <1>1, <1>2, NoRoomCallShape DEF ImagePlaces
  <2> QED  BY <1>3, <1>4, <2>1, ImagesFrame
<1>8. k.date \in Int /\ today \in Int /\ \A e \in Int : k.date <= e /\ e < today => e \in spanned
  <2>1. k.date \in Dates /\ today \in Dates /\ k # NoRoomCall /\ RoomCallFits(k, today, spanned)
    BY <1>1, <1>2, RoomCallOf
  <2>2. Since(k.date, today, spanned)
    BY <2>1 DEF RoomCallFits
  <2>3. k.date \in Int /\ today \in Int
    BY <2>1 DEF Dates
  <2> QED  BY <2>2, <2>3, SinceFacts
<1>9. ASSUME NEW d \in Dates, d < today, d \notin spanned PROVE WinnerFor(d)' = WinnerFor(d)
  <2>1. k.date # d
    BY <1>8, <1>9 DEF Dates
  <2>0. PICK row : row = Drawing(k.owner, k.date)
    OBVIOUS
  <2>2. row = Drawing(k.owner, k.date) /\ row.date = k.date
    BY <2>0 DEF Drawing
  <2>3. ASSUME NEW b, b.drawing.date = d PROVE b \in ballots <=> b \in ballots'
    <3>1. b.drawing # row /\ \A v : b # [drawing |-> row, user |-> k.user, vote |-> v]
      BY <2>1, <2>2, <2>3
    <3>2. /\ ballots' = IF k.vote = 0 THEN {x \in ballots : ~(x.drawing = row /\ x.user = k.user)}
                        ELSE IF ~HasDrawn(k.owner, k.date) THEN ballots
                        ELSE {x \in ballots : ~(x.drawing = row /\ x.user = k.user)}
                             \cup {[drawing |-> row, user |-> k.user, vote |-> k.vote]}
      BY <1>1, <2>2 DEF VoteWrite
    <3> QED  BY <3>1, <3>2
  <2>4. EntriesIn(drawings, ballots, d) = EntriesIn(drawings, ballots', d)
    BY <2>3, EntriesSameRows
  <2> QED  BY <2>4, <1>4, WinnerIsOf
<1>10. WinnersKept'
  <2>1. roomCalls[i].op # "purge" /\ NoRoomCall.op # "purge"
    BY <1>1, <1>2, NoRoomCallShape
  <2> QED  BY <1>3, <1>4, <1>9, <2>1, ElectedFrame
<1> QED  BY <1>5, <1>6, <1>7, <1>10

----------------------------------------------------------------------------
(* The purge's own slot is the only one that purges.                       *)
LEMMA OnlyPurger ==
    ASSUME WinnersKept, NEW i \in SkribblSlots, roomCalls[i].op = "purge",
           NEW j \in SkribblSlots, roomCalls[j].op = "purge"
    PROVE  j = i
  BY DEF WinnersKept, Purgers

LEMMA DayBefore ==
    ASSUME NEW d \in Dates, NEW day \in Dates, d > 0, d <= day
    PROVE  d - 1 \in Dates /\ d - 1 < day
  BY SkribblAssumption DEF Dates

LEMMA PurgeMoves ==
    ASSUME RoomBase, NEW i \in SkribblSlots, NEW k, k = roomCalls[i], k.op = "purge",
           NEW place \in {"expired", "votes", "rows", "themes"}, RoomGo(i, place)
    PROVE  \E c : /\ c \in RoomCallSet /\ c.at = place /\ c.op = "purge" /\ c.date = k.date
                  /\ roomCalls' = [roomCalls EXCEPT ![i] = c] /\ RoomCallFits(c, today, spanned)
<1>1. place \in RoomPlaces /\ place \notin Drawn /\ place # "record" /\ place \notin {"mark", "pin"}
  BY DEF RoomPlaces, Drawn
<1>2. k.at # "idle"
  BY PurgeCall
<1>3. PICK c : RoomMoves(i, k, c) /\ c # NoRoomCall /\ c.at = place /\ c.date = k.date
  BY <1>1, <1>2, GoMoves
<1> QED  BY <1>3 DEF RoomMoves

LEMMA PurgeWinnerKeeps ==
    ASSUME RoomIInv, NEW i \in SkribblSlots, PurgeWinner(i) PROVE RoomIInv'
<1> USE DEF RoomIInv
<1>1. PICK k, c : /\ RoomMoves(i, k, c) /\ k.op = "purge" /\ k.at = "winner"
                  /\ c.at \in {"record", "expired"}
                  /\ c.owner = WinnerFor(k.date - 1) /\ c.date = k.date
  BY PurgeWinnerMoves
<1>2. /\ k = roomCalls[i] /\ roomCalls' = [roomCalls EXCEPT ![i] = c] /\ c \in RoomCalls
      /\ RoomCallFits(c, today, spanned)
  BY <1>1 DEF RoomMoves
<1>3. UNCHANGED <<today, spanned, themeOf, drawings, drawn, ballots, winners, outcome,
                  roomFaults, told>>
  BY DEF PurgeWinner, roomTables, roomGhosts
<1>4. c \in RoomCallSet /\ c.op = "purge"
  <2>1. c # NoRoomCall
    BY <1>1, NoRoomCallShape
  <2> QED  BY <2>1, <1>1 DEF RoomMoves
<1>5. RoomBase'
  <2>1. roomFaults' \in Nat
    BY <1>3 DEF RoomBase, RoomTyped
  <2> QED  BY <1>2, <1>3, <2>1, BaseQuiet
<1>6. ThemeKept'
  BY <1>1, <1>2, <1>3, ThemeFrame
<1>7. ImagesKept'
  <2>1. roomCalls[i].at \notin ImagePlaces /\ c.at \notin ImagePlaces
    BY <1>1, <1>2 DEF ImagePlaces
  <2> QED  BY <1>2, <1>3, <2>1, ImagesFrame
<1>8. \A j \in SkribblSlots : roomCalls'[j] = IF j = i THEN c ELSE roomCalls[j]
  BY <1>2, CallsAfter
<1>9. /\ k.date \in Dates /\ k.date > 0 /\ k.date <= today /\ today \in Dates
  BY <1>1, <1>2, PurgeCall DEF RoomBase, RoomTyped
<1>10. ASSUME NEW j \in SkribblSlots PROVE ~PurgeAt(roomCalls[j], "rows")
  <2>1. CASE roomCalls[j].op = "purge"
    <3>1. j = i
      BY <2>1, <1>1, <1>2, OnlyPurger
    <3> QED  BY <3>1, <1>1, <1>2 DEF PurgeAt
  <2> QED  BY <2>1 DEF PurgeAt
<1>11. \A j, l \in Purgers' : j = l
  BY <1>1, <1>2, OnePurge
<1>12. \A d \in Dates : d >= today => winners[d] = NoPlayer
  BY DEF WinnersKept
<1>13. ASSUME roomFaults = 0
       PROVE  /\ WinnerStands
              /\ \A d \in Dates : d < today /\ d \notin spanned =>
                     WinnerFor(d) \in {outcome[d], NoPlayer}
  BY <1>10, <1>13 DEF WinnersKept
<1>14. \A d : WinnerFor(d)' = WinnerFor(d)
  BY <1>3, WinnerIsOf
<1>15. ASSUME roomFaults = 0, NEW j \in SkribblSlots, PurgeAt(roomCalls'[j], "record"),
              roomCalls'[j].date - 1 \notin spanned
       PROVE  roomCalls'[j].owner = outcome[roomCalls'[j].date - 1]
  <2>1. j = i
    <3>1. CASE j # i
      <4>1. roomCalls[j].op = "purge"
        BY <3>1, <1>8, <1>15 DEF PurgeAt
      <4> QED  BY <4>1, <1>1, <1>2, OnlyPurger
    <3> QED  BY <3>1
  <2>2. roomCalls'[j] = c /\ c.at = "record"
    BY <2>1, <1>8, <1>15 DEF PurgeAt
  <2>3. c # NoRoomCall /\ c.owner \in Players
    <3>1. c # NoRoomCall
      BY <2>2, NoRoomCallShape
    <3> QED  BY <3>1, <2>2, <1>2 DEF RoomCallFits
  <2>4. k.date - 1 \in Dates /\ k.date - 1 < today /\ k.date - 1 \notin spanned
    <3>1. k.date - 1 \notin spanned
      BY <2>2, <1>15, <1>1
    <3> QED  BY <3>1, <1>9, DayBefore
  <2>5. c.owner \in {outcome[k.date - 1], NoPlayer}
    BY <2>4, <1>1, <1>13, <1>15
  <2>6. c.owner # NoPlayer
    BY <2>3, SkribblAssumption
  <2> QED  BY <2>2, <2>5, <2>6, <1>1
<1>16. WinnersKept'
  <2>1. WinnerStands' <=> WinnerStands
    BY <1>3 DEF WinnerStands
  <2>2. ASSUME roomFaults = 0, NEW d \in Dates, d < today, d \notin spanned
        PROVE  WinnerFor(d)' \in {outcome[d], NoPlayer}
    BY <2>2, <1>13, <1>14
  <2>3. roomFaults = 0 => WinnerStands'
    BY <2>1, <1>13
  <2> QED  BY <1>3, <1>11, <1>12, <1>15, <2>2, <2>3 DEF WinnersKept
<1> QED  BY <1>5, <1>6, <1>7, <1>16

LEMMA PurgeRecordKeeps ==
    ASSUME RoomIInv, NEW i \in SkribblSlots, PurgeRecord(i) PROVE RoomIInv'
<1> USE DEF RoomIInv
<1>1. PICK k : k = roomCalls[i]
  OBVIOUS
<1>2. k.op = "purge" /\ k.at = "record" /\ RoomGo(i, "expired")
  BY <1>1 DEF PurgeRecord, RoomAt
<1>3. PICK c : /\ c \in RoomCallSet /\ c.at = "expired" /\ c.op = "purge" /\ c.date = k.date
               /\ roomCalls' = [roomCalls EXCEPT ![i] = c] /\ RoomCallFits(c, today, spanned)
  BY <1>1, <1>2, PurgeMoves
<1>4. /\ UNCHANGED <<today, spanned, themeOf, drawings, drawn, ballots, outcome, roomFaults, told>>
      /\ winners' = [winners EXCEPT ![k.date - 1] = k.owner]
  BY <1>1 DEF PurgeRecord, roomGhosts
<1>5. /\ k.date \in Dates /\ k.date > 0 /\ k.date <= today /\ today \in Dates
      /\ k.date - 1 \in Dates /\ k.date - 1 < today
  <2>1. k.date \in Dates /\ k.date > 0 /\ k.date <= today /\ today \in Dates
    BY <1>1, <1>2, PurgeCall DEF RoomBase, RoomTyped
  <2> QED  BY <2>1, DayBefore
<1>6. k.owner \in Players
  <2>1. k # NoRoomCall /\ RoomCallFits(k, today, spanned)
    BY <1>1, <1>2, PurgeCall DEF RoomBase
  <2> QED  BY <2>1, <1>2 DEF RoomCallFits
<1>7. /\ drawings \in Seq(DrawingSet) /\ \A x \in DOMAIN drawings : drawings[x].date <= today
      /\ themeOf \in [Dates -> Themes \cup {NoTheme}]
      /\ winners \in [Dates -> Players \cup {NoPlayer}]
      /\ outcome \in [Dates -> Players \cup {NoPlayer}] /\ roomFaults \in Nat
  BY DEF RoomBase, RoomTyped
<1>8. /\ winners' \in [Dates -> Players \cup {NoPlayer}]
      /\ \A d \in Dates : winners'[d] = IF d = k.date - 1 THEN k.owner ELSE winners[d]
  <2>1. PICK p \in Dates : p = k.date - 1
    BY <1>5
  <2>2. PICK w \in Players : w = k.owner
    BY <1>6
  <2>3. winners' = [winners EXCEPT ![p] = w]
    BY <1>4, <2>1, <2>2
  <2>4. /\ winners' \in [Dates -> Players \cup {NoPlayer}]
        /\ \A d \in Dates : winners'[d] = IF d = p THEN w ELSE winners[d]
    BY <1>7, <2>3
  <2> QED  BY <2>1, <2>2, <2>4
<1>c. c \in RoomCalls
  BY <1>3 DEF RoomCalls
<1>9. RoomBase'
  BY <1>3, <1>c, <1>4, <1>7, <1>8, BaseStep
<1>10. ThemeKept'
  BY <1>3, <1>4, ThemeFrame
<1>11. ImagesKept'
  <2>1. roomCalls[i].at \notin ImagePlaces /\ c.at \notin ImagePlaces
    BY <1>1, <1>2, <1>3 DEF ImagePlaces
  <2> QED  BY <1>3, <1>4, <2>1, ImagesFrame
<1>12. \A j \in SkribblSlots : roomCalls'[j] = IF j = i THEN c ELSE roomCalls[j]
  BY <1>3, CallsAfter
<1>13. \A j, l \in Purgers' : j = l
  BY <1>1, <1>2, <1>3, OnePurge
<1>14. \A d \in Dates : d >= today => winners'[d] = NoPlayer
  <2>1. \A d \in Dates : d >= today => winners[d] = NoPlayer /\ d # k.date - 1
    BY <1>5 DEF WinnersKept, Dates
  <2> QED  BY <2>1, <1>8
<1>15. ASSUME roomFaults = 0 PROVE WinnerStands'
  <2>1. ASSUME NEW d \in Dates, winners'[d] # NoPlayer, d \notin spanned
        PROVE  winners'[d] = outcome[d]
    <3>1. CASE d = k.date - 1
      <4>1. k.owner = outcome[k.date - 1]
        BY <3>1, <2>1, <1>1, <1>2, <1>15 DEF WinnersKept, PurgeAt
      <4> QED  BY <4>1, <3>1, <1>8
    <3>2. CASE d # k.date - 1
      <4>1. winners'[d] = winners[d] /\ WinnerStands
        BY <3>2, <1>8, <1>15 DEF WinnersKept
      <4> QED  BY <4>1, <2>1, <1>15 DEF WinnerStands
    <3> QED  BY <3>1, <3>2
  <2> QED  BY <2>1, <1>4 DEF WinnerStands
<1>16. \A d : WinnerFor(d)' = WinnerFor(d)
  BY <1>4, WinnerIsOf
<1>17. ASSUME NEW j \in SkribblSlots PROVE ~PurgeAt(roomCalls'[j], "record")
  <2>1. CASE j = i
    BY <2>1, <1>12, <1>3 DEF PurgeAt
  <2>2. CASE j # i
    <3>1. roomCalls[j].op # "purge"
      BY <2>2, <1>1, <1>2, OnlyPurger
    <3> QED  BY <3>1, <2>2, <1>12 DEF PurgeAt
  <2> QED  BY <2>1, <2>2
<1>18. ASSUME NEW j \in SkribblSlots PROVE ~PurgeAt(roomCalls[j], "rows")
  <2>1. CASE roomCalls[j].op = "purge"
    <3>1. j = i
      BY <2>1, <1>1, <1>2, OnlyPurger
    <3> QED  BY <3>1, <1>1, <1>2 DEF PurgeAt
  <2> QED  BY <2>1 DEF PurgeAt
<1>19. ASSUME roomFaults = 0, NEW d \in Dates, d < today, d \notin spanned
       PROVE  WinnerFor(d) \in {outcome[d], NoPlayer}
  BY <1>18, <1>19 DEF WinnersKept
<1>20. WinnersKept'
  BY <1>4, <1>13, <1>14, <1>15, <1>16, <1>17, <1>19 DEF WinnersKept
<1> QED  BY <1>9, <1>10, <1>11, <1>20

LEMMA PurgeVotesKeeps ==
    ASSUME RoomIInv, NEW i \in SkribblSlots, PurgeVotes(i) PROVE RoomIInv'
<1> USE DEF RoomIInv
<1>1. PICK k : k = roomCalls[i]
  OBVIOUS
<1>2. k.op = "purge" /\ k.at = "votes" /\ RoomGo(i, "rows")
  BY <1>1 DEF PurgeVotes, RoomAt
<1>3. PICK c : /\ c \in RoomCallSet /\ c.at = "rows" /\ c.op = "purge" /\ c.date = k.date
               /\ roomCalls' = [roomCalls EXCEPT ![i] = c] /\ RoomCallFits(c, today, spanned)
  BY <1>1, <1>2, PurgeMoves
<1>4. UNCHANGED <<today, spanned, themeOf, drawings, drawn, winners, outcome, roomFaults, told>>
  BY DEF PurgeVotes, roomGhosts
<1>c. c \in RoomCalls
  BY <1>3 DEF RoomCalls
<1>5. RoomBase'
  <2>1. roomFaults' \in Nat
    BY <1>4 DEF RoomBase, RoomTyped
  <2> QED  BY <1>3, <1>c, <1>4, <2>1, BaseQuiet
<1>6. ThemeKept'
  BY <1>3, <1>4, ThemeFrame
<1>7. \A j \in SkribblSlots : roomCalls'[j] = IF j = i THEN c ELSE roomCalls[j]
  BY <1>3, CallsAfter
<1>8. ImagesKept'
  <2>1. ASSUME NEW d, NEW j \in SkribblSlots
        PROVE  /\ Putting(roomCalls'[j], d) <=> Putting(roomCalls[j], d)
               /\ Purging(roomCalls'[j], d) <=> Purging(roomCalls[j], d)
    BY <1>7, <1>1, <1>2, <1>3 DEF Putting, Purging
  <2>2. \A x \in DOMAIN drawings : drawings[x].date = today => drawings[x] \in drawn
    BY DEF ImagesKept
  <2>3. ASSUME NEW j \in SkribblSlots, roomCalls'[j].op = "submit", roomCalls'[j].at = "insert",
               roomCalls'[j].owner = today
        PROVE  Drawing(roomCalls'[j].user, today) \in drawn
    <3>1. roomCalls'[j] = roomCalls[j]
      BY <2>3, <1>7, <1>3
    <3> QED  BY <3>1, <2>3 DEF ImagesKept
  <2>4. ASSUME roomFaults = 0, spanned = {}
        PROVE  /\ \A d \in drawn : d \in RowsIn(drawings)
                                   \/ \E j \in SkribblSlots : Putting(roomCalls'[j], d)
               /\ \A d \in RowsIn(drawings) : d \in drawn
                                   \/ \E j \in SkribblSlots : Purging(roomCalls'[j], d)
               /\ \A j \in SkribblSlots : \A d \in drawn : ~Purging(roomCalls'[j], d)
    <3>1. /\ \A d \in drawn : d \in RowsIn(drawings)
                                   \/ \E j \in SkribblSlots : Putting(roomCalls[j], d)
          /\ \A d \in RowsIn(drawings) : d \in drawn
                                   \/ \E j \in SkribblSlots : Purging(roomCalls[j], d)
          /\ \A j \in SkribblSlots : \A d \in drawn : ~Purging(roomCalls[j], d)
      BY <2>4 DEF ImagesKept
    <3> QED  BY <3>1, <2>1
  <2> QED  BY <1>4, <2>2, <2>3, <2>4 DEF ImagesKept
<1>9. WinnersKept'
  <2>1. \A j, l \in Purgers' : j = l
    BY <1>1, <1>2, <1>3, OnePurge
  <2>2. \A d \in Dates : d >= today => winners[d] = NoPlayer
    BY DEF WinnersKept
  <2>3. PurgeAt(roomCalls'[i], "rows")
    BY <1>3, <1>7 DEF PurgeAt
  <2>4. ASSUME NEW j \in SkribblSlots PROVE ~PurgeAt(roomCalls'[j], "record")
    <3>1. CASE j = i
      BY <3>1, <1>7, <1>3 DEF PurgeAt
    <3>2. CASE j # i
      <4>1. roomCalls[j].op # "purge"
        BY <3>2, <1>1, <1>2, OnlyPurger
      <4> QED  BY <4>1, <3>2, <1>7 DEF PurgeAt
    <3> QED  BY <3>1, <3>2
  <2>5. roomFaults = 0 => WinnerStands'
    BY <1>4 DEF WinnersKept, WinnerStands
  <2> QED  BY <1>4, <2>1, <2>2, <2>3, <2>4, <2>5 DEF WinnersKept
<1> QED  BY <1>5, <1>6, <1>8, <1>9

LEMMA PurgeRowsKeeps ==
    ASSUME RoomIInv, NEW i \in SkribblSlots, PurgeRows(i) PROVE RoomIInv'
<1> USE DEF RoomIInv
<1>1. PICK k : k = roomCalls[i]
  OBVIOUS
<1>2. k.op = "purge" /\ k.at = "rows" /\ RoomGo(i, "themes")
  BY <1>1 DEF PurgeRows, RoomAt
<1>3. PICK c : /\ c \in RoomCallSet /\ c.at = "themes" /\ c.op = "purge" /\ c.date = k.date
               /\ roomCalls' = [roomCalls EXCEPT ![i] = c] /\ RoomCallFits(c, today, spanned)
  BY <1>1, <1>2, PurgeMoves
<1>4. /\ UNCHANGED <<today, spanned, themeOf, drawn, winners, outcome, roomFaults, told>>
      /\ drawings' = Remaining(drawings, k.date)
  BY <1>1 DEF PurgeRows, roomGhosts
<1>c. c \in RoomCalls
  BY <1>3 DEF RoomCalls
<1>5. /\ k.date \in Dates /\ k.date <= today /\ today \in Dates
      /\ \A e \in Int : k.date <= e /\ e < today => e \in spanned
  BY <1>1, <1>2, PurgeCall DEF RoomBase, RoomTyped
<1>6. /\ drawings \in Seq(DrawingSet) /\ \A x \in DOMAIN drawings : drawings[x].date <= today
      /\ themeOf \in [Dates -> Themes \cup {NoTheme}]
      /\ winners \in [Dates -> Players \cup {NoPlayer}]
      /\ outcome \in [Dates -> Players \cup {NoPlayer}] /\ roomFaults \in Nat
  BY DEF RoomBase, RoomTyped
<1>7. PICK rows : rows = drawings'
  OBVIOUS
<1>8. /\ rows \in Seq(DrawingSet)
      /\ \A d : d \in RowsIn(rows) <=> d \in RowsIn(drawings) /\ ~Past(d, k.date)
  <2>1. k.date \in Int
    BY <1>5 DEF Dates
  <2> QED  BY <2>1, <1>4, <1>6, <1>7, RemainingFacts
<1>9. \A x \in DOMAIN rows : rows[x].date <= today /\ ~Past(rows[x], k.date)
  <2>1. ASSUME NEW x \in DOMAIN rows PROVE rows[x].date <= today /\ ~Past(rows[x], k.date)
    <3>1. rows[x] \in RowsIn(rows)
      BY DEF RowsIn
    <3>2. rows[x] \in RowsIn(drawings) /\ ~Past(rows[x], k.date)
      BY <3>1, <1>8
    <3> QED  BY <3>2, <1>6 DEF RowsIn
  <2> QED  BY <2>1
<1>10. RoomBase'
  <2>1. drawings' \in Seq(DrawingSet) /\ \A x \in DOMAIN drawings' : drawings'[x].date <= today
    BY <1>7, <1>8, <1>9
  <2> QED  BY <1>3, <1>c, <1>4, <1>6, <2>1, BaseStep
<1>11. ThemeKept'
  BY <1>3, <1>4, ThemeFrame
<1>12. \A j \in SkribblSlots : roomCalls'[j] = IF j = i THEN c ELSE roomCalls[j]
  BY <1>3, CallsAfter
<1>13. ImagesKept'
  <2>1. ASSUME NEW x \in DOMAIN rows, rows[x].date = today PROVE rows[x] \in drawn
    <3>1. rows[x] \in RowsIn(drawings)
      BY <1>8 DEF RowsIn
    <3> QED  BY <3>1, <2>1 DEF ImagesKept, RowsIn
  <2>2. ASSUME NEW j \in SkribblSlots, roomCalls'[j].op = "submit", roomCalls'[j].at = "insert",
               roomCalls'[j].owner = today
        PROVE  Drawing(roomCalls'[j].user, today) \in drawn
    <3>1. roomCalls'[j] = roomCalls[j]
      BY <2>2, <1>12, <1>3
    <3> QED  BY <3>1, <2>2 DEF ImagesKept
  <2>3. ASSUME roomFaults = 0, spanned = {}
        PROVE  /\ \A d \in drawn : d \in RowsIn(rows)
                                   \/ \E j \in SkribblSlots : Putting(roomCalls'[j], d)
               /\ \A d \in RowsIn(rows) : d \in drawn
                                   \/ \E j \in SkribblSlots : Purging(roomCalls'[j], d)
               /\ \A j \in SkribblSlots : \A d \in drawn : ~Purging(roomCalls'[j], d)
    <3>1. /\ \A d \in drawn : d \in RowsIn(drawings)
                                   \/ \E j \in SkribblSlots : Putting(roomCalls[j], d)
          /\ \A d \in RowsIn(drawings) : d \in drawn
                                   \/ \E j \in SkribblSlots : Purging(roomCalls[j], d)
          /\ \A j \in SkribblSlots : \A d \in drawn : ~Purging(roomCalls[j], d)
      BY <2>3 DEF ImagesKept
    <3>2. ASSUME NEW d, NEW j \in SkribblSlots
          PROVE  /\ Putting(roomCalls'[j], d) <=> Putting(roomCalls[j], d)
                 /\ Purging(roomCalls'[j], d) => Purging(roomCalls[j], d)
                 /\ Purging(roomCalls[j], d) => Past(d, k.date) \/ Purging(roomCalls'[j], d)
      <4>1. CASE j = i
        BY <4>1, <1>12, <1>1, <1>2, <1>3 DEF Putting, Purging, Past
      <4>2. CASE j # i
        BY <4>2, <1>12
      <4> QED  BY <4>1, <4>2
    <3>3. ASSUME NEW d \in drawn PROVE ~Past(d, k.date)
      <4>1. ~Purging(roomCalls[i], d)
        BY <3>1
      <4> QED  BY <4>1, <1>1, <1>2 DEF Purging, Past
    <3> QED  BY <3>1, <3>2, <3>3, <1>8
  <2> QED  BY <1>4, <1>7, <2>1, <2>2, <2>3 DEF ImagesKept
<1>14. WinnersKept'
  <2>1. \A j, l \in Purgers' : j = l
    BY <1>1, <1>2, <1>3, OnePurge
  <2>2. \A d \in Dates : d >= today => winners[d] = NoPlayer
    BY DEF WinnersKept
  <2>3. ASSUME NEW d \in Dates, d < today, d \notin spanned PROVE WinnerFor(d)' = NoPlayer
    <3>1. d < k.date
      BY <2>3, <1>5 DEF Dates
    <3>2. \A x \in DOMAIN rows : rows[x].date # d
      BY <3>1, <1>9 DEF Past
    <3>3. WinnerOf(EntriesIn(rows, ballots', d)) = NoPlayer
      BY <3>2, NoEntriesNoWinner
    <3> QED  BY <3>3, <1>7, WinnerIsOf
  <2>4. ASSUME NEW j \in SkribblSlots PROVE ~PurgeAt(roomCalls'[j], "record")
    <3>1. CASE j = i
      BY <3>1, <1>12, <1>3 DEF PurgeAt
    <3>2. CASE j # i
      <4>1. roomCalls[j].op # "purge"
        BY <3>2, <1>1, <1>2, OnlyPurger
      <4> QED  BY <4>1, <3>2, <1>12 DEF PurgeAt
    <3> QED  BY <3>1, <3>2
  <2>5. roomFaults = 0 => WinnerStands'
    BY <1>4 DEF WinnersKept, WinnerStands
  <2> QED  BY <1>4, <2>1, <2>2, <2>3, <2>4, <2>5 DEF WinnersKept
<1> QED  BY <1>10, <1>11, <1>13, <1>14

----------------------------------------------------------------------------
LEMMA PurgeObjectsKeeps ==
    ASSUME RoomIInv, NEW i \in SkribblSlots, PurgeObjects(i) PROVE RoomIInv'
<1> USE DEF RoomIInv
<1>1. PICK k : k = roomCalls[i]
  OBVIOUS
<1>2. PICK expired : expired = {d \in RowsIn(drawings) : Past(d, k.date)}
  OBVIOUS
<1>3. /\ k.op = "purge" /\ k.at = "expired" /\ drawn' = drawn \ expired
      /\ IF expired = {} THEN RoomEnd(i) ELSE RoomGo(i, "votes")
      /\ UNCHANGED <<today, spanned, themeOf, drawings, ballots, winners, outcome, roomFaults, told>>
  <2>1. expired = Expired(roomCalls[i].date)
    BY <1>1, <1>2 DEF RowsIn, Expired
  <2> QED  BY <2>1, <1>1 DEF PurgeObjects, RoomAt, roomGhosts
<1>4. PICK c : /\ c \in RoomCalls /\ roomCalls' = [roomCalls EXCEPT ![i] = c]
               /\ RoomCallFits(c, today, spanned)
               /\ \/ expired = {} /\ c = NoRoomCall
                  \/ expired # {} /\ c.op = "purge" /\ c.at = "votes" /\ c.date = k.date
  <2>1. CASE expired = {}
    BY <2>1, <1>3 DEF RoomEnd, RoomCalls, RoomCallFits
  <2>2. CASE expired # {}
    <3>1. RoomGo(i, "votes")
      BY <2>2, <1>3
    <3>2. PICK c : /\ c \in RoomCallSet /\ c.at = "votes" /\ c.op = "purge" /\ c.date = k.date
                   /\ roomCalls' = [roomCalls EXCEPT ![i] = c] /\ RoomCallFits(c, today, spanned)
      BY <3>1, <1>1, <1>3, PurgeMoves
    <3> QED  BY <3>2, <2>2 DEF RoomCalls
  <2> QED  BY <2>1, <2>2
<1>5. /\ k.date \in Dates /\ k.date <= today /\ today \in Dates
      /\ \A e \in Int : k.date <= e /\ e < today => e \in spanned
  BY <1>1, <1>3, PurgeCall DEF RoomBase, RoomTyped
<1>6. RoomBase'
  <2>1. roomFaults' \in Nat
    BY <1>3 DEF RoomBase, RoomTyped
  <2> QED  BY <1>3, <1>4, <2>1, BaseQuiet
<1>7. ThemeKept'
  BY <1>3, <1>4, ThemeFrame, NoRoomCallShape
<1>8. WinnersKept'
  <2>1. ~PurgeAt(roomCalls[i], "rows") /\ ~PurgeAt(c, "record")
    BY <1>1, <1>3, <1>4, NoRoomCallShape DEF PurgeAt
  <2>2. roomCalls[i].op = "purge"
    BY <1>1, <1>3
  <2> QED  BY <1>3, <1>4, <2>1, <2>2, WinnersFrame
<1>9. \A j \in SkribblSlots : roomCalls'[j] = IF j = i THEN c ELSE roomCalls[j]
  BY <1>4, CallsAfter
<1>10. \A d \in expired : d.date # today
  BY <1>2, <1>5 DEF Past, Dates
<1>11. ImagesKept'
  <2>1. ASSUME NEW x \in DOMAIN drawings, drawings[x].date = today PROVE drawings[x] \in drawn'
    <3>1. drawings[x] \in drawn
      BY <2>1 DEF ImagesKept
    <3> QED  BY <3>1, <2>1, <1>3, <1>10
  <2>2. ASSUME NEW j \in SkribblSlots, roomCalls'[j].op = "submit", roomCalls'[j].at = "insert",
               roomCalls'[j].owner = today
        PROVE  Drawing(roomCalls'[j].user, today) \in drawn'
    <3>1. roomCalls'[j] = roomCalls[j]
      BY <2>2, <1>9, <1>4, NoRoomCallShape
    <3>2. Drawing(roomCalls'[j].user, today) \in drawn
      BY <3>1, <2>2 DEF ImagesKept
    <3>3. Drawing(roomCalls'[j].user, today).date = today
      BY DEF Drawing
    <3> QED  BY <3>2, <3>3, <1>3, <1>10
  <2>3. ASSUME roomFaults = 0, spanned = {}
        PROVE  /\ \A d \in drawn' : d \in RowsIn(drawings)
                                   \/ \E j \in SkribblSlots : Putting(roomCalls'[j], d)
               /\ \A d \in RowsIn(drawings) : d \in drawn'
                                   \/ \E j \in SkribblSlots : Purging(roomCalls'[j], d)
               /\ \A j \in SkribblSlots : \A d \in drawn' : ~Purging(roomCalls'[j], d)
    <3>1. /\ \A d \in drawn : d \in RowsIn(drawings)
                                   \/ \E j \in SkribblSlots : Putting(roomCalls[j], d)
          /\ \A d \in RowsIn(drawings) : d \in drawn
                                   \/ \E j \in SkribblSlots : Purging(roomCalls[j], d)
          /\ \A j \in SkribblSlots : \A d \in drawn : ~Purging(roomCalls[j], d)
      BY <2>3 DEF ImagesKept
    <3>2. ASSUME NEW d, NEW j \in SkribblSlots
          PROVE  Putting(roomCalls'[j], d) <=> Putting(roomCalls[j], d)
      BY <1>9, <1>1, <1>3, <1>4, NoRoomCallShape DEF Putting
    <3>3. ASSUME NEW d, NEW j \in SkribblSlots
          PROVE  /\ Purging(roomCalls[j], d) => Purging(roomCalls'[j], d)
                 /\ Purging(roomCalls'[j], d) => Purging(roomCalls[j], d) \/ Past(d, k.date)
      <4>1. CASE j = i
        BY <4>1, <1>9, <1>1, <1>3, <1>4, NoRoomCallShape DEF Purging, Past
      <4>2. CASE j # i
        BY <4>2, <1>9
      <4> QED  BY <4>1, <4>2
    <3>4. ASSUME NEW d \in expired PROVE Purging(roomCalls'[i], d)
      <4>1. c.op = "purge" /\ c.at = "votes" /\ c.date = k.date
        BY <1>4
      <4> QED  BY <4>1, <1>9, <1>2 DEF Purging, Past
    <3>5. ASSUME NEW d \in drawn, d \notin expired PROVE ~Past(d, k.date)
      <4>1. CASE d \in RowsIn(drawings)
        BY <4>1, <3>5, <1>2
      <4>2. ASSUME NEW j \in SkribblSlots, Putting(roomCalls[j], d) PROVE ~Past(d, k.date)
        <5>1. roomCalls[j].op = "submit" /\ roomCalls[j].at = "insert"
              /\ d = Drawing(roomCalls[j].user, roomCalls[j].owner)
          BY <4>2 DEF Putting
        <5>2. roomCalls[j].owner = today
          BY <5>1, <2>3, SubmitCall
        <5>3. d.date = today
          BY <5>1, <5>2 DEF Drawing
        <5> QED  BY <5>3, <1>5 DEF Past, Dates
      <4> QED  BY <4>1, <4>2, <3>1
    <3> QED  BY <3>1, <3>2, <3>3, <3>4, <3>5, <1>3
  <2> QED  BY <1>3, <2>1, <2>2, <2>3 DEF ImagesKept
<1> QED  BY <1>6, <1>7, <1>8, <1>11

(* Only rows of days before the purge's own lose their image, and no more  *)
(* is promised of the others once a delete has failed.                     *)
LEMMA PurgeLeavesKeeps ==
    ASSUME RoomIInv, NEW i \in SkribblSlots, PurgeLeaves(i) PROVE RoomIInv'
<1> USE DEF RoomIInv
<1>1. PICK k : k = roomCalls[i]
  OBVIOUS
<1>2. PICK expired : expired = Expired(k.date)
  OBVIOUS
<1>3. /\ k.op = "purge" /\ k.at = "expired"
      /\ UNCHANGED <<today, spanned, themeOf, drawings, ballots, winners, outcome, told>>
      /\ roomFaults' = roomFaults + 1 /\ \A d \in drawn \ drawn' : d \in expired
      /\ RoomGo(i, "votes")
  BY <1>1, <1>2 DEF PurgeLeaves, RoomAt
<1>4. PICK c : /\ c \in RoomCallSet /\ c.at = "votes" /\ c.op = "purge" /\ c.date = k.date
               /\ roomCalls' = [roomCalls EXCEPT ![i] = c] /\ RoomCallFits(c, today, spanned)
  BY <1>1, <1>3, PurgeMoves
<1>5. roomFaults' \in Nat /\ roomFaults' # 0
  BY <1>3 DEF RoomBase, RoomTyped
<1>6. RoomBase'
  BY <1>3, <1>4, <1>5, BaseQuiet DEF RoomCalls
<1>7. ThemeKept'
  BY <1>3, <1>4, ThemeFrame
<1>8. WinnersKept'
  BY <1>1, <1>3, <1>4, <1>5, WinnersAfterFault
<1>9. k.date \in Dates /\ k.date <= today /\ today \in Dates
  BY <1>1, <1>3, PurgeCall DEF RoomBase, RoomTyped
<1>10. ASSUME NEW d, d \in drawn, d.date = today PROVE d \in drawn'
  <2>1. d \notin expired
    BY <1>2, <1>9, <1>10 DEF Expired, Past, Dates
  <2> QED  BY <2>1, <1>3, <1>10
<1>11. \A x \in DOMAIN drawings : drawings[x].date = today => drawings[x] \in drawn'
  BY <1>10 DEF ImagesKept
<1>12. ASSUME NEW j \in SkribblSlots, roomCalls'[j].op = "submit", roomCalls'[j].at = "insert",
              roomCalls'[j].owner = today
       PROVE  Drawing(roomCalls'[j].user, today) \in drawn'
  <2>1. roomCalls'[j] = roomCalls[j]
    BY <1>12, <1>4, CallsAfter
  <2>2. Drawing(roomCalls'[j].user, today) \in drawn
    BY <2>1, <1>12 DEF ImagesKept
  <2>3. Drawing(roomCalls'[j].user, today).date = today
    BY DEF Drawing
  <2> QED  BY <2>2, <2>3, <1>10
<1>13. ImagesKept'
  BY <1>3, <1>5, <1>11, <1>12 DEF ImagesKept
<1> QED  BY <1>6, <1>7, <1>8, <1>13

LEMMA PurgeThemesKeeps ==
    ASSUME RoomIInv, NEW i \in SkribblSlots, PurgeThemes(i) PROVE RoomIInv'
<1> USE DEF RoomIInv
<1>1. PICK k : k = roomCalls[i]
  OBVIOUS
<1>2. k.op = "purge" /\ k.at = "themes" /\ RoomEnd(i)
  BY <1>1 DEF PurgeThemes, RoomAt
<1>3. /\ roomCalls' = [roomCalls EXCEPT ![i] = NoRoomCall] /\ NoRoomCall \in RoomCalls
      /\ RoomCallFits(NoRoomCall, today, spanned)
  BY <1>2 DEF RoomEnd, RoomCalls, RoomCallFits
<1>4. /\ UNCHANGED <<today, spanned, drawings, drawn, ballots, winners, outcome, roomFaults, told>>
      /\ themeOf' = [d \in Dates |-> IF d < k.date THEN NoTheme ELSE themeOf[d]]
  BY <1>1 DEF PurgeThemes, roomGhosts
<1>5. k.date \in Dates /\ k.date <= today /\ today \in Dates
      /\ themeOf \in [Dates -> Themes \cup {NoTheme}]
  BY <1>1, <1>2, PurgeCall DEF RoomBase, RoomTyped
<1>6. themeOf' \in [Dates -> Themes \cup {NoTheme}] /\ themeOf'[today] = themeOf[today]
  <2>1. ~(today < k.date)
    BY <1>5 DEF Dates
  <2> QED  BY <2>1, <1>4, <1>5
<1>7. RoomBase' /\ ImagesKept' /\ WinnersKept'
  <2>1. /\ roomCalls[i].at \in Aside /\ roomCalls[i].at \notin ImagePlaces
        /\ NoRoomCall.op # "purge" /\ NoRoomCall.at \notin ImagePlaces
    BY <1>1, <1>2, NoRoomCallShape DEF Aside, ImagePlaces
  <2> QED  BY <1>3, <1>4, <1>6, <2>1, Unmet
<1>8. ThemeKept'
  BY <1>3, <1>4, <1>6, ThemeFrame, NoRoomCallShape
<1> QED  BY <1>7, <1>8

LEMMA RoomFaultKeeps ==
    ASSUME RoomIInv, NEW i \in SkribblSlots, RoomFault(i) PROVE RoomIInv'
<1> USE DEF RoomIInv
<1>1. /\ roomCalls' = [roomCalls EXCEPT ![i] = NoRoomCall] /\ NoRoomCall \in RoomCalls
      /\ RoomCallFits(NoRoomCall, today, spanned)
  BY DEF RoomFault, RoomEnd, RoomCalls, RoomCallFits
<1>2. /\ UNCHANGED <<today, spanned, themeOf, drawings, drawn, ballots, winners, outcome, told>>
      /\ roomFaults' = roomFaults + 1
  BY DEF RoomFault, roomTables
<1>3. roomFaults' \in Nat /\ roomFaults' # 0
  BY <1>2 DEF RoomBase, RoomTyped
<1>4. RoomBase'
  BY <1>1, <1>2, <1>3, BaseQuiet
<1>5. ThemeKept'
  BY <1>1, <1>2, ThemeFrame, NoRoomCallShape
<1>6. WinnersKept'
  BY <1>1, <1>2, <1>3, WinnersAfterFault, NoRoomCallShape
<1>7. ImagesKept'
  <2>1. \A x \in DOMAIN drawings : drawings[x].date = today => drawings[x] \in drawn
    BY DEF ImagesKept
  <2>2. ASSUME NEW j \in SkribblSlots, roomCalls'[j].op = "submit", roomCalls'[j].at = "insert",
               roomCalls'[j].owner = today
        PROVE  Drawing(roomCalls'[j].user, today) \in drawn
    <3>1. roomCalls'[j] = roomCalls[j]
      BY <2>2, <1>1, CallsAfter, NoRoomCallShape
    <3> QED  BY <3>1, <2>2 DEF ImagesKept
  <2> QED  BY <1>2, <1>3, <2>1, <2>2 DEF ImagesKept
<1> QED  BY <1>4, <1>5, <1>6, <1>7
----------------------------------------------------------------------------
(* Whoever was under way since a day still is, with this midnight crossed.  *)
LEMMA SinceTomorrow ==
    ASSUME NEW d \in Int, NEW day \in Int, NEW spans, Since(d, day, spans)
    PROVE  Since(d, day + 1, spans \cup {day})
<1>1. d <= day /\ \A e \in d..(day - 1) : e \in spans
  BY DEF Since
<1>2. ASSUME NEW e \in d..(day + 1 - 1) PROVE e \in spans \cup {day}
  <2>1. e = day \/ e \in d..(day - 1)
    OBVIOUS
  <2> QED  BY <2>1, <1>1
<1>3. d <= day + 1
  BY <1>1
<1> QED  BY <1>2, <1>3 DEF Since

LEMMA MidnightKeeps ==
    ASSUME RoomIInv, Midnight PROVE RoomIInv'
<1> USE DEF RoomIInv
<1>1. /\ UNCHANGED <<roomCalls, themeOf, drawings, drawn, ballots, winners, roomFaults, told>>
      /\ today' = today + 1 /\ today < LastDay
      /\ outcome' = [outcome EXCEPT ![today] = WinnerFor(today)]
      /\ spanned' = IF RoomBusy = {} THEN spanned ELSE spanned \cup {today}
  BY DEF Midnight, roomTables
<1>2. /\ today \in Dates /\ roomCalls \in [SkribblSlots -> RoomCalls]
      /\ themeOf \in [Dates -> Themes \cup {NoTheme}] /\ drawings \in Seq(DrawingSet)
      /\ winners \in [Dates -> Players \cup {NoPlayer}]
      /\ outcome \in [Dates -> Players \cup {NoPlayer}] /\ roomFaults \in Nat
      /\ \A x \in DOMAIN drawings : drawings[x].date <= today
  BY DEF RoomBase, RoomTyped
<1>3. today + 1 \in Dates /\ today \in Nat
  BY <1>1, <1>2, SkribblAssumption DEF Dates
<1>4. /\ outcome' \in [Dates -> Players \cup {NoPlayer}]
      /\ \A d \in Dates : outcome'[d] = IF d = today THEN WinnerFor(today) ELSE outcome[d]
  <2>1. PICK w \in Players \cup {NoPlayer} : w = WinnerFor(today)
    BY WinnerIsPlayer
  <2> QED  BY <2>1, <1>1, <1>2
<1>5. spanned \subseteq spanned'
  BY <1>1
<1>6. RoomBase'
  <2>1. RoomTyped'
    BY <1>1, <1>2, <1>3, <1>4 DEF RoomTyped
  <2>2. \A x \in DOMAIN drawings : drawings[x].date <= today + 1
    <3>1. ASSUME NEW x \in DOMAIN drawings PROVE drawings[x].date <= today + 1
      <4>1. drawings[x] \in DrawingSet
        BY <1>2
      <4>2. drawings[x].date \in Nat
        BY <4>1 DEF DrawingSet, Dates
      <4> QED  BY <4>2, <1>2, <1>3
    <3> QED  BY <3>1
  <2>3. ASSUME NEW j \in SkribblSlots PROVE RoomCallFits(roomCalls[j], today + 1, spanned')
    <3> SUFFICES ASSUME roomCalls[j] # NoRoomCall
                 PROVE  RoomCallFits(roomCalls[j], today + 1, spanned')
      BY DEF RoomCallFits
    <3>1. PICK c \in RoomCallSet : c = roomCalls[j]
      BY <1>2 DEF RoomCalls
    <3>2. RoomCallFits(c, today, spanned) /\ c # NoRoomCall
      BY <3>1 DEF RoomBase
    <3>3. spanned' = spanned \cup {today}
      <4>1. roomCalls[j].at # "idle"
        BY <3>1 DEF RoomCallSet, RoomPlaces
      <4>2. RoomBusy # {}
        BY <4>1 DEF RoomBusy
      <4> QED  BY <4>2, <1>1
    <3>4. PICK spans, day : spans = spanned /\ day = today
      OBVIOUS
    <3>5. c.date \in Int /\ day \in Int /\ RoomCallFits(c, day, spans)
      BY <1>3, <3>1, <3>2, <3>4 DEF RoomCallSet, Dates
    <3>6. Since(c.date, day + 1, spans \cup {day})
      BY <3>2, <3>5, SinceTomorrow DEF RoomCallFits
    <3>7. ASSUME c.op = "submit", c.at \in Drawn
          PROVE  c.owner \in Dates /\ Since(c.owner, day + 1, spans \cup {day})
      <4>1. c.owner \in Dates /\ Since(c.owner, day, spans)
        BY <3>2, <3>5, <3>7 DEF RoomCallFits
      <4>2. c.owner \in Int
        BY <4>1 DEF Dates
      <4> QED  BY <4>1, <4>2, <3>5, SinceTomorrow
    <3>8. RoomCallFits(c, day + 1, spans \cup {day})
      BY <3>2, <3>5, <3>6, <3>7 DEF RoomCallFits
    <3> QED  BY <3>1, <3>3, <3>4, <3>8
  <2> QED  BY <1>1, <2>1, <2>2, <2>3 DEF RoomBase
<1>7. ThemeKept'
  <2>1. ASSUME NEW a \in told PROVE a[1] <= today + 1 /\ a[1] # today + 1
    <3>1. a[1] <= today /\ a[1] \in Dates
      BY DEF ThemeKept
    <3> QED  BY <3>1, <1>3 DEF Dates
  <2>2. ASSUME NEW j \in SkribblSlots, roomCalls[j].at = "reread" PROVE roomCalls[j].date # today + 1
    <3>1. roomCalls[j].date \in Dates /\ Since(roomCalls[j].date, today, spanned)
      <4>1. RoomCallFits(roomCalls[j], today, spanned) /\ roomCalls[j] # NoRoomCall
            /\ roomCalls[j].date \in Dates
        BY <2>2, RoomCallOf
      <4> QED  BY <4>1 DEF RoomCallFits
    <3>2. roomCalls[j].date <= today /\ roomCalls[j].date \in Int
      BY <3>1 DEF Since, Dates
    <3> QED  BY <3>2, <1>3
  <2>3. ThemeAgreed'
    BY <1>1, <1>5 DEF ThemeKept, ThemeAgreed
  <2> QED  BY <1>1, <2>1, <2>2, <2>3 DEF ThemeKept
<1>8. ImagesKept'
  <2>1. ASSUME NEW x \in DOMAIN drawings PROVE drawings[x].date # today + 1
    <3>1. drawings[x] \in DrawingSet
      BY <1>2
    <3>2. drawings[x].date \in Nat /\ drawings[x].date <= today
      BY <3>1, <1>2 DEF DrawingSet, Dates
    <3> QED  BY <3>2, <1>3
  <2>2. ASSUME NEW j \in SkribblSlots, roomCalls[j].op = "submit", roomCalls[j].at = "insert"
        PROVE  roomCalls[j].owner # today + 1
    <3>1. roomCalls[j].owner <= today /\ roomCalls[j].owner \in Dates
      BY <2>2, SubmitCall
    <3> QED  BY <3>1, <1>3 DEF Dates
  <2>3. spanned' = {} => spanned = {}
    BY <1>5
  <2>4. roomFaults = 0 /\ spanned = {} =>
          /\ \A d \in drawn : d \in RowsIn(drawings) \/ \E j \in SkribblSlots : Putting(roomCalls[j], d)
          /\ \A d \in RowsIn(drawings) : d \in drawn \/ \E j \in SkribblSlots : Purging(roomCalls[j], d)
          /\ \A j \in SkribblSlots : \A d \in drawn : ~Purging(roomCalls[j], d)
    BY DEF ImagesKept
  <2> QED  BY <1>1, <2>1, <2>2, <2>3, <2>4 DEF ImagesKept
<1>9. WinnersKept'
  <2>1. \A j, l \in Purgers' : j = l
    BY <1>1 DEF WinnersKept, Purgers
  <2>2. \A d \in Dates : d >= today => winners[d] = NoPlayer
    BY DEF WinnersKept
  <2>3. \A d \in Dates : d >= today + 1 => winners[d] = NoPlayer
    BY <2>2, <1>3 DEF Dates
  <2>4. ASSUME roomFaults = 0, NEW d \in Dates, winners[d] # NoPlayer, d \notin spanned'
        PROVE  winners[d] = outcome'[d]
    <3>1. d # today
      BY <2>2, <2>4, <1>3
    <3>2. winners[d] = outcome[d]
      BY <2>4, <1>5 DEF WinnersKept, WinnerStands
    <3> QED  BY <3>1, <3>2, <1>4
  <2>5. \A d : WinnerFor(d)' = WinnerFor(d)
    BY <1>1, WinnerIsOf
  <2>6. ASSUME roomFaults = 0, NEW d \in Dates, d < today + 1, d \notin spanned'
        PROVE  \/ WinnerFor(d) \in {outcome'[d], NoPlayer}
               \/ \E j \in SkribblSlots : PurgeAt(roomCalls[j], "rows")
    <3>1. CASE d = today
      BY <3>1, <1>4, <2>6
    <3>2. CASE d # today
      <4>1. d < today
        BY <3>2, <2>6, <1>3 DEF Dates
      <4>2. outcome'[d] = outcome[d]
        BY <3>2, <1>4
      <4> QED  BY <4>1, <4>2, <2>6, <1>5 DEF WinnersKept
    <3> QED  BY <3>1, <3>2
  <2>7. ASSUME roomFaults = 0, NEW j \in SkribblSlots, PurgeAt(roomCalls[j], "record"),
               roomCalls[j].date - 1 \notin spanned'
        PROVE  roomCalls[j].owner = outcome'[roomCalls[j].date - 1]
    <3>1. roomCalls[j].date \in Dates /\ roomCalls[j].date > 0 /\ roomCalls[j].date <= today
      BY <2>7, PurgeCall DEF PurgeAt
    <3>2. roomCalls[j].date - 1 \in Dates /\ roomCalls[j].date - 1 < today
      BY <3>1, <1>2, DayBefore
    <3>3. outcome'[roomCalls[j].date - 1] = outcome[roomCalls[j].date - 1]
      BY <3>2, <1>3, <1>4
    <3>4. roomCalls[j].owner = outcome[roomCalls[j].date - 1]
      BY <2>7, <1>5 DEF WinnersKept
    <3> QED  BY <3>3, <3>4
  <2>8. roomFaults = 0 => WinnerStands'
    BY <2>4, <1>1 DEF WinnerStands
  <2> QED  BY <1>1, <2>1, <2>3, <2>5, <2>6, <2>7, <2>8 DEF WinnersKept
<1> QED  BY <1>6, <1>7, <1>8, <1>9
----------------------------------------------------------------------------
LEMMA RoomStarts ==
    ASSUME NEW theme \in Themes \cup {NoTheme}, NEW authors, authors \subseteq Players,
           IsFiniteSet(authors), RoomStart(theme, authors)
    PROVE  RoomIInv
<1>1. /\ today = 0 /\ themeOf = [d \in Dates |-> IF d = 0 THEN theme ELSE NoTheme]
      /\ told = {<<0, t>> : t \in {theme} \ {NoTheme}}
      /\ drawn = {Drawing(u, 0) : u \in authors}
      /\ drawings \in [1..Cardinality(authors) -> drawn]
      /\ RowsIn(drawings) = drawn
      /\ winners = [d \in Dates |-> NoPlayer] /\ outcome = [d \in Dates |-> NoPlayer]
      /\ roomCalls = [j \in SkribblSlots |-> NoRoomCall] /\ roomFaults = 0 /\ spanned = {}
  BY DEF RoomStart, RowsIn
<1>2. 0 \in Dates /\ \A d \in Dates : d >= 0 /\ ~(d < 0)
  BY SkribblAssumption DEF Dates
<1>3. Cardinality(authors) \in Nat
  BY FS_CardinalityType
<1>4. drawn \subseteq DrawingSet /\ \A d \in drawn : d.date = 0
  BY <1>1, <1>2 DEF Drawing, DrawingSet
<1>5. drawings \in Seq(DrawingSet) /\ \A x \in DOMAIN drawings : drawings[x] \in drawn
  <2>1. PICK n \in Nat : n = Cardinality(authors)
    BY <1>3
  <2>2. drawings \in [1..n -> DrawingSet]
    BY <2>1, <1>1, <1>4
  <2>3. drawings \in Seq(DrawingSet)
    BY <2>2
  <2>4. \A x \in DOMAIN drawings : drawings[x] \in drawn
    BY <1>1
  <2> QED  BY <2>3, <2>4
<1>6. \A j \in SkribblSlots : roomCalls[j] = NoRoomCall
  BY <1>1
<1>7. RoomBase
  <2>1. RoomTyped
    BY <1>1, <1>2, <1>5 DEF RoomTyped, RoomCalls
  <2>2. \A x \in DOMAIN drawings : drawings[x].date <= today
    BY <1>1, <1>4, <1>5
  <2> QED  BY <2>1, <2>2, <1>6 DEF RoomBase, RoomCallFits
<1>8. ThemeKept
  <2>1. \A a \in told : a = <<0, theme>> /\ theme # NoTheme
    BY <1>1
  <2> QED  BY <2>1, <1>1, <1>2, <1>6, NoRoomCallShape DEF ThemeKept, ThemeAgreed
<1>9. ImagesKept
  <2>1. \A j \in SkribblSlots : \A d : ~Putting(roomCalls[j], d) /\ ~Purging(roomCalls[j], d)
    BY <1>6, NoRoomCallShape DEF Putting, Purging
  <2> QED  BY <2>1, <1>1, <1>5, <1>6, NoRoomCallShape DEF ImagesKept
<1>10. WinnersKept
  <2>1. \A j \in SkribblSlots : roomCalls[j].op # "purge"
    BY <1>6, NoRoomCallShape
  <2> QED  BY <2>1, <1>1, <1>2 DEF WinnersKept, Purgers, PurgeAt, WinnerStands
<1> QED  BY <1>7, <1>8, <1>9, <1>10 DEF RoomIInv

LEMMA RoomNextKeeps == RoomIInv /\ [RoomNext]_roomVars => RoomIInv'
<1> SUFFICES ASSUME RoomIInv, [RoomNext]_roomVars PROVE RoomIInv'
  OBVIOUS
<1>1. CASE UNCHANGED roomVars
  <2>1. UNCHANGED <<themeOf, drawings, drawn, ballots, winners, roomCalls, today, roomFaults, told,
                    outcome, spanned>>
    BY <1>1 DEF roomVars, roomTables, roomGhosts
  <2>2. \A d : WinnerFor(d)' = WinnerFor(d)
    BY <2>1, WinnerIsOf
  <2>3. RoomBase' /\ ThemeKept' /\ ImagesKept'
    BY <2>1 DEF RoomIInv, RoomBase, RoomTyped, ThemeKept, ThemeAgreed, ImagesKept
  <2>4. WinnersKept'
    BY <2>1, <2>2 DEF RoomIInv, WinnersKept, WinnerStands, Purgers
  <2> QED  BY <2>3, <2>4 DEF RoomIInv
<1>2. CASE Midnight
  BY <1>2, MidnightKeeps
<1>3. ASSUME NEW i \in SkribblSlots, NEW request \in RoomRequests, RoomReceive(i, request)
      PROVE  RoomIInv'
  BY <1>3, ReceiveKeeps
<1>4. ASSUME NEW i \in SkribblSlots, RoomFault(i) \/ PurgeLeaves(i) PROVE RoomIInv'
  BY <1>4, RoomFaultKeeps, PurgeLeavesKeeps
<1>5. ASSUME NEW i \in SkribblSlots, RoomStep(i) PROVE RoomIInv'
  <2>1. CASE ReadTheme(i) \/ PickTheme(i) \/ MarkTheme(i) \/ PinTheme(i) \/ RereadTheme(i)
    BY <2>1, ReadThemeKeeps, PickThemeKeeps, MarkThemeKeeps, PinThemeKeeps, RereadThemeKeeps
  <2>2. CASE SubmitExisting(i) \/ SubmitPut(i) \/ SubmitInsert(i)
    BY <2>2, SubmitExistingKeeps, SubmitPutKeeps, SubmitInsertKeeps
  <2>3. CASE VoteDrawing(i) \/ VoteWrite(i)
    BY <2>3, VoteDrawingKeeps, VoteWriteKeeps
  <2>4. CASE PurgeWinner(i) \/ PurgeRecord(i) \/ PurgeObjects(i)
    BY <2>4, PurgeWinnerKeeps, PurgeRecordKeeps, PurgeObjectsKeeps
  <2>5. CASE PurgeVotes(i) \/ PurgeRows(i) \/ PurgeThemes(i)
    BY <2>5, PurgeVotesKeeps, PurgeRowsKeeps, PurgeThemesKeeps
  <2> QED  BY <1>5, <2>1, <2>2, <2>3, <2>4, <2>5 DEF RoomStep
<1> QED  BY <1>1, <1>2, <1>3, <1>4, <1>5 DEF RoomNext

LEMMA RoomIsKept == RoomIInv => SkribblKept
<1> SUFFICES ASSUME RoomIInv PROVE SkribblKept
  OBVIOUS
<1>1. ThemeAgreed
  BY DEF RoomIInv, ThemeKept
<1>2. WinnerStands
  BY DEF RoomIInv, WinnersKept, WinnerStands
<1>3. \A k \in RowsOf(today) : drawings[k] \in drawn
  BY DEF RoomIInv, ImagesKept, RowsOf
<1>4. ASSUME RoomBusy = {}, roomFaults = 0, spanned = {}
      PROVE  drawn = {drawings[k] : k \in DOMAIN drawings}
  <2>1. \A j \in SkribblSlots : \A d : ~Putting(roomCalls[j], d) /\ ~Purging(roomCalls[j], d)
    BY <1>4 DEF RoomBusy, Putting, Purging
  <2>2. /\ \A d \in drawn : d \in RowsIn(drawings)
        /\ \A d \in RowsIn(drawings) : d \in drawn
    BY <1>4, <2>1 DEF RoomIInv, ImagesKept
  <2> QED  BY <2>2 DEF RowsIn
<1> QED  BY <1>1, <1>2, <1>3, <1>4 DEF SkribblKept, GalleryWhole

(* Everybody is told one theme of a day, the winner recorded is the one the *)
(* votes had elected at midnight and the gallery has its images, whatever   *)
(* theme had been told and whoever had drawn at the start.                  *)
THEOREM SkribblStaysKept ==
    ASSUME NEW CONSTANT theme \in Themes \cup {NoTheme}, NEW CONSTANT authors \in SUBSET Players,
           IsFiniteSet(authors)
    PROVE  RoomStart(theme, authors) /\ [][RoomNext]_roomVars => []SkribblKept
<1>1. RoomStart(theme, authors) => RoomIInv
  BY RoomStarts
<1>2. RoomIInv /\ [RoomNext]_roomVars => RoomIInv'
  BY RoomNextKeeps
<1>3. RoomIInv => SkribblKept
  BY RoomIsKept
<1> QED  BY <1>1, <1>2, <1>3, PTL

(* The same from a day without theme and drawings.                          *)
THEOREM SkribblRoomStaysKept == RoomSpec => []SkribblKept
<1>1. RoomInit => RoomIInv
  <2>1. IsFiniteSet({})
    BY FS_EmptySet
  <2> QED  BY <2>1, RoomStarts DEF RoomInit
<1>2. RoomIInv /\ [RoomNext]_roomVars => RoomIInv'
  BY RoomNextKeeps
<1>3. RoomIInv => SkribblKept
  BY RoomIsKept
<1> QED  BY <1>1, <1>2, <1>3, PTL DEF RoomSpec
=============================================================================
