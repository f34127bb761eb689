--------------------------- MODULE VerifiedServer ---------------------------
(***************************************************************************)
(* Verified study sessions on the Cloudflare Worker: the four routes       *)
(* start, heartbeat, finish and reconcile-offline, and the settlement of a *)
(* silent session that /sync, /leaderboard and /player-stats carry.  Each  *)
(* D1 statement (or batch) is one step, so calls interleave between them;  *)
(* a statement may fail, which ends its call with a 500.                   *)
(*                                                                         *)
(* One user.  Times are whole minutes, and a call is handled within one of *)
(* them.  Abstracted: the split of a credit over calendar dates and its    *)
(* count of sessions; the plausibility cap, which a claim of disjoint      *)
(* intervals shorter than a day cannot reach; flagging; authentication.    *)
(***************************************************************************)
EXTENDS Integers, Sequences, FiniteSets

CONSTANTS
    Slots,          \* the calls the Worker can be handling at once
    Offered,        \* bound: the routes called on a Worker of its own
    Grace,          \* VERIFIED_SESSION_NORMAL_CREDIT_GRACE_MS
    MaxSession,     \* VERIFIED_SESSION_MAX_MS
    StaleAfter,     \* VERIFIED_SESSION_HEARTBEAT_MS + VERIFIED_SESSION_GRACE_MS
    MaxTime,        \* bound: the clock
    MaxSessions,    \* bound: sessions a Worker of its own is asked to start
    MaxFaults       \* bound: statements that fail

ASSUME ServerAssumption ==
    /\ Offered \subseteq {"start", "heartbeat", "finish", "reconcile", "settle"}
    /\ Grace \in Nat \ {0}
    /\ MaxSession \in Nat \ {0}
    /\ StaleAfter \in Nat \ {0}
    /\ MaxTime \in Nat
    /\ MaxSessions \in Nat
    /\ MaxFaults \in Nat

VARIABLES
    now,        \* the clock
    sessions,   \* verified_study_sessions; a session's id is its index
    normal,     \* verified_daily_stats: how often each minute was credited
    offline,    \* verified_daily_stats_offline: the same, for each anchor
    covered,    \* MAX(gap_ended_at) of each anchor's reconciliations
    calls,      \* the calls being handled
    faults

tables == <<sessions, normal, offline, covered>>
serverVars == <<now, tables, calls, faults>>
----------------------------------------------------------------------------
Minutes == 0..(MaxTime - 1)
Uncredited == [m \in Minutes |-> 0]

Smaller(a, b) == IF a <= b THEN a ELSE b
Larger(a, b) == IF a >= b THEN a ELSE b

Span(from, to) == {m \in Minutes : from <= m /\ m < to}
Add(credits, minutes) ==
    [m \in Minutes |-> credits[m] + (IF m \in minutes THEN 1 ELSE 0)]

Routes == {"start", "heartbeat", "finish", "reconcile", "settle"}

(* A request as it arrives; session and claim are what its body names.     *)
Request(route, session, claim) ==
    [route |-> route, session |-> session, claim |-> claim, at |-> "arrived",
     row |-> 0, beat |-> 0, gap |-> 0, reply |-> "none"]

Idle == [Request("settle", 0, {}) EXCEPT !.at = "idle"]

Active == {i \in DOMAIN sessions : sessions[i].active}

NormalCreditBoundary(started, beat) ==
    Smaller(started + MaxSession, beat + Grace)

\* slip: the present does not bound the credit
CreditedAhead(started, beat) ==
    Larger(0, NormalCreditBoundary(started, beat) - started)

CreditedMinutes(started, beat) ==
    Larger(0, Smaller(now, NormalCreditBoundary(started, beat)) - started)

Silent(i) ==
    \/ now - sessions[i].started >= MaxSession
    \/ now - sessions[i].beat >= StaleAfter

Stale(i) == sessions[i].active /\ Silent(i)
----------------------------------------------------------------------------
ServerInit ==
    /\ now = 0
    /\ sessions = <<>>
    /\ normal = Uncredited
    /\ offline = <<>>
    /\ covered = <<>>
    /\ calls = [c \in Slots |-> Idle]
    /\ faults = 0

At(c, route, place) == calls[c].route = route /\ calls[c].at = place

Arrive(c, request) ==
    /\ calls[c].at = "idle"
    /\ calls' = [calls EXCEPT ![c] = request]

Answered(route, session, reply) ==
    [Request(route, session, {}) EXCEPT !.at = "answered", !.reply = reply]

Answer(c, reply) ==
    calls' = [calls EXCEPT ![c] = Answered(calls[c].route, 0, reply)]

AnswerSession(c, i) ==
    calls' = [calls EXCEPT ![c] = Answered("start", i, "ok")]

GoTo(c, place) == calls' = [calls EXCEPT ![c].at = place]

(* finishVerifiedSession is called with the row as the SELECT returned it. *)
FinishRow(c, i) ==
    calls' = [calls EXCEPT ![c].at = "updating", ![c].row = i,
                           ![c].beat = sessions[i].beat]

(* What follows finishVerifiedSession in its caller.                       *)
AfterFinishing(c) ==
    IF calls[c].route = "start" THEN GoTo(c, "inserting") ELSE Answer(c, "ok")
----------------------------------------------------------------------------
(* handleVerifiedSessionStart                                              *)

StartResumes(c) ==
    /\ At(c, "start", "arrived")
    /\ \E i \in Active :
           /\ now - sessions[i].started < MaxSession
           /\ AnswerSession(c, i)
    /\ UNCHANGED <<now, tables, faults>>

StartReplaces(c) ==
    /\ At(c, "start", "arrived")
    /\ \E i \in Active :
           /\ now - sessions[i].started >= MaxSession
           /\ FinishRow(c, i)
    /\ UNCHANGED <<now, tables, faults>>

StartFresh(c) ==
    /\ At(c, "start", "arrived")
    /\ Active = {}
    /\ GoTo(c, "inserting")
    /\ UNCHANGED <<now, tables, faults>>

\* slip: the table has no index of one active session a user
InsertAnyway(c) ==
    /\ At(c, "start", "inserting")
    /\ sessions' = Append(sessions, [started |-> now, beat |-> now,
                                     active |-> TRUE, credited |-> 0])
    /\ offline' = Append(offline, Uncredited)
    /\ covered' = Append(covered, 0)
    /\ AnswerSession(c, Len(sessions'))
    /\ UNCHANGED <<now, normal, faults>>

(* The index idx_verified_study_sessions_one_active refuses a second one.  *)
Insert(c) ==
    /\ At(c, "start", "inserting")
    /\ Active = {}
    /\ sessions' = Append(sessions, [started |-> now, beat |-> now,
                                     active |-> TRUE, credited |-> 0])
    /\ offline' = Append(offline, Uncredited)
    /\ covered' = Append(covered, 0)
    /\ AnswerSession(c, Len(sessions'))
    /\ UNCHANGED <<now, normal, faults>>

InsertRefused(c) ==
    /\ At(c, "start", "inserting")
    /\ Active # {}
    /\ Answer(c, "error")
    /\ UNCHANGED <<now, tables, faults>>
----------------------------------------------------------------------------
(* handleVerifiedSessionHeartbeat, handleVerifiedSessionFinish and         *)
(* settleStaleVerifiedSession                                              *)

Heartbeat(c) ==
    /\ At(c, "heartbeat", "arrived")
    /\ calls[c].session \in Active
    /\ sessions' = [sessions EXCEPT ![calls[c].session].beat = now]
    /\ Answer(c, "ok")
    /\ UNCHANGED <<now, normal, offline, covered, faults>>

Finish(c) ==
    /\ At(c, "finish", "arrived")
    /\ calls[c].session \in Active
    /\ FinishRow(c, calls[c].session)
    /\ UNCHANGED <<now, tables, faults>>

NotFound(c) ==
    /\ At(c, "heartbeat", "arrived") \/ At(c, "finish", "arrived")
    /\ calls[c].session \notin Active
    /\ Answer(c, "notfound")
    /\ UNCHANGED <<now, tables, faults>>

\* slip: nobody settles a silent session
SettleNever(c) ==
    /\ At(c, "settle", "arrived")
    /\ Answer(c, "ok")
    /\ UNCHANGED <<now, tables, faults>>

Settle(c) ==
    /\ At(c, "settle", "arrived")
    /\ \/ \E i \in Active : Stale(i) /\ FinishRow(c, i)
       \/ (\A i \in Active : ~Stale(i)) /\ Answer(c, "ok")
    /\ UNCHANGED <<now, tables, faults>>
----------------------------------------------------------------------------
(* finishVerifiedSession: the update, then the batch of credits.           *)

\* slip: UPDATE ... WHERE id = ?, whatever the status
UpdateUnguarded(c) ==
    /\ calls[c].at = "updating"
    /\ sessions' = [sessions EXCEPT
                        ![calls[c].row].active = FALSE,
                        ![calls[c].row].credited =
                            CreditedMinutes(
                                sessions[calls[c].row].started,
                                calls[c].beat)]
    /\ GoTo(c, "crediting")
    /\ UNCHANGED <<now, normal, offline, covered, faults>>

Update(c) ==
    LET i == calls[c].row
    IN  /\ calls[c].at = "updating"
        /\ \/ /\ i \in Active
              /\ sessions' = [sessions EXCEPT
                                  ![i].active = FALSE,
                                  ![i].credited =
                                      CreditedMinutes(sessions[i].started,
                                                      calls[c].beat)]
              /\ GoTo(c, "crediting")
           \/ /\ i \notin Active
              /\ AfterFinishing(c)
              /\ UNCHANGED sessions
        /\ UNCHANGED <<now, normal, offline, covered, faults>>

Earned(i) == Span(sessions[i].started,
                  sessions[i].started + sessions[i].credited)

Credit(c) ==
    /\ calls[c].at = "crediting"
    /\ normal' = Add(normal, Earned(calls[c].row))
    /\ AfterFinishing(c)
    /\ UNCHANGED <<now, sessions, offline, covered, faults>>
----------------------------------------------------------------------------
(* handleVerifiedSessionReconcileOffline                                   *)

GapStart(i) ==
    IF sessions[i].active
    THEN NormalCreditBoundary(sessions[i].started, sessions[i].beat)
    ELSE sessions[i].started + sessions[i].credited

ReadAnchor(c) ==
    /\ At(c, "reconcile", "arrived")
    /\ calls' = [calls EXCEPT ![c].at = "looking", ![c].row = calls[c].session,
                              ![c].gap = GapStart(calls[c].session)]
    /\ UNCHANGED <<now, tables, faults>>

\* slip: the window of an earlier call for the anchor is opened again
ReadNothing(c) ==
    /\ At(c, "reconcile", "looking")
    /\ GoTo(c, "claiming")
    /\ UNCHANGED <<now, tables, faults>>

ReadCovered(c) ==
    /\ At(c, "reconcile", "looking")
    /\ calls' = [calls EXCEPT ![c].at = "claiming",
                              ![c].gap = Larger(@, covered[calls[c].row])]
    /\ UNCHANGED <<now, tables, faults>>

(* The claim, clamped to the gap and to the present.                       *)
Claimed(c) ==
    UNION {Span(Larger(iv[1], calls[c].gap), Smaller(iv[2], now))
               : iv \in calls[c].claim}

CreditOffline(c) ==
    /\ At(c, "reconcile", "claiming")
    /\ offline' = [offline EXCEPT ![calls[c].row] = Add(@, Claimed(c))]
    /\ GoTo(c, "recording")
    /\ UNCHANGED <<now, sessions, normal, covered, faults>>

RecordReconciliation(c) ==
    /\ At(c, "reconcile", "recording")
    /\ covered' = [covered EXCEPT ![calls[c].row] = Larger(@, now)]
    /\ Answer(c, "ok")
    /\ UNCHANGED <<now, sessions, normal, offline, faults>>
----------------------------------------------------------------------------
(* A statement fails: the handler's catch answers 500.                     *)
Fault(c) ==
    /\ calls[c].at \notin {"idle", "answered"}
    /\ faults < MaxFaults
    /\ faults' = faults + 1
    /\ Answer(c, "error")
    /\ UNCHANGED <<now, tables>>

Handle(c) ==
    \/ StartResumes(c) \/ StartReplaces(c) \/ StartFresh(c)
    \/ Insert(c) \/ InsertRefused(c)
    \/ Heartbeat(c) \/ Finish(c) \/ NotFound(c) \/ Settle(c)
    \/ Update(c) \/ Credit(c)
    \/ ReadAnchor(c) \/ ReadCovered(c) \/ CreditOffline(c)
    \/ RecordReconciliation(c)

(* The Worker on its own: any call at any time, except that the client has *)
(* one reconciliation on its way at most (VerifiedMachine.reconciling).    *)
Bodies(route) ==
    CASE route = "start" -> {b \in {<<0, {}>>} : Len(sessions) < MaxSessions}
      [] route = "settle" -> {<<0, {}>>}
      [] route \in {"heartbeat", "finish"} -> (DOMAIN sessions) \X {{}}
      [] route = "reconcile" -> (DOMAIN sessions) \X {{<<0, MaxTime>>}}

Receive(c) ==
    /\ \E route \in Offered : \E body \in Bodies(route) :
           /\ route = "reconcile" =>
                  \A d \in Slots : calls[d].route # "reconcile"
           /\ Arrive(c, Request(route, body[1], body[2]))
    /\ UNCHANGED <<now, tables, faults>>

Reply(c) ==
    /\ calls[c].at = "answered"
    /\ calls' = [calls EXCEPT ![c] = Idle]
    /\ UNCHANGED <<now, tables, faults>>

Tick ==
    /\ now < MaxTime
    /\ \A c \in Slots : calls[c].at = "idle"
    /\ now' = now + 1
    /\ UNCHANGED <<tables, calls, faults>>

ServerNext ==
    \/ \E c \in Slots : Receive(c) \/ Handle(c) \/ Fault(c) \/ Reply(c)
    \/ Tick

ServerSpec == ServerInit /\ [][ServerNext]_serverVars
----------------------------------------------------------------------------
(* Type and domain of every variable.                                      *)
Places == {"idle", "arrived", "updating", "crediting", "inserting", "looking",
           "claiming", "recording", "answered"}

ServerTypeOK ==
    /\ now \in 0..MaxTime
    /\ sessions \in Seq([started : 0..MaxTime, beat : 0..MaxTime,
                         active : BOOLEAN, credited : 0..MaxTime])
    /\ \A i \in DOMAIN sessions :
           /\ sessions[i].started <= sessions[i].beat
           /\ sessions[i].beat <= now
           /\ sessions[i].started + sessions[i].credited <= now
    /\ normal \in [Minutes -> Nat]
    /\ offline \in Seq([Minutes -> Nat])
    /\ covered \in Seq(0..MaxTime)
    /\ Len(offline) = Len(sessions)
    /\ Len(covered) = Len(sessions)
    /\ calls \in [Slots -> [route : Routes, session : 0..Len(sessions),
                            claim : SUBSET ((0..MaxTime) \X (0..MaxTime)),
                            at : Places, row : 0..Len(sessions),
                            beat : 0..MaxTime, gap : Nat,
                            reply : {"none", "ok", "notfound", "error"}]]
    /\ \A c \in Slots :
           calls[c].at \in {"updating", "crediting", "looking", "claiming",
                            "recording"} => calls[c].row # 0
    /\ faults \in 0..MaxFaults

(* The sessions that are finished and whose credits are not still owed.    *)
Owed == {calls[c].row : c \in {c \in Slots : calls[c].at = "crediting"}}
Due(m) ==
    IF \E i \in (DOMAIN sessions) \ (Active \cup Owed) : m \in Earned(i)
    THEN 1 ELSE 0

(* However start, finish and settlement of the user's sessions overlap, no *)
(* minute is counted twice on the leaderboard, and as long as no statement *)
(* fails none that a finished session earned is missing.                   *)
CreditedExactlyOnce ==
    \A m \in Minutes :
        /\ normal[m] <= Due(m)
        /\ faults = 0 => normal[m] = Due(m)

(* However often the client reconciles an anchor, and whatever else runs   *)
(* between the statements of a reconciliation, no minute of the gap is     *)
(* credited twice as offline time, as long as no statement fails.          *)
GapCreditedOnce ==
    faults = 0 =>
        \A a \in DOMAIN offline : \A m \in Minutes : offline[a][m] <= 1
=============================================================================
