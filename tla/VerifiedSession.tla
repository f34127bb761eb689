-------------------------- MODULE VerifiedSession --------------------------
(***************************************************************************)
(* A verified study session end to end: the Timer's running state, the     *)
(* client's VerifiedMachine with the controller around it, the one network *)
(* thread that sends its requests in order, and the Worker.                *)
(*                                                                         *)
(* The request at the head of the outbox is the one on the wire.  When it  *)
(* times out the client reads a failure of the network, while the Worker   *)
(* goes on with the call beside the client's next one.                     *)
(*                                                                         *)
(* Abstracted: the client and the Worker read one clock; the Timer's phase *)
(* is study whenever it runs; the social record is always written.         *)
(***************************************************************************)
EXTENDS VerifiedServer

CONSTANTS
    Live, Late,         \* the call on the wire, and one that timed out
    HeartbeatEvery,     \* HEARTBEAT_MS
    MaxStarts,          \* bound: times the Timer is started
    MaxUnsent,          \* bound: requests that never reach the Worker
    MaxTimeouts,        \* bound: requests that time out
    MaxRestarts         \* bound: times the application is restarted

ASSUME SessionAssumption ==
    /\ Live # Late
    /\ Slots = {Live, Late}
    /\ HeartbeatEvery \in Nat \ {0}
    /\ MaxStarts \in Nat
    /\ MaxUnsent \in Nat
    /\ MaxTimeouts \in Nat
    /\ MaxRestarts \in Nat

VARIABLES
    running,    \* the Timer runs, in a study phase
    opened,     \* when its open segment began
    history,    \* the intervals of the study sessions in the history
    client,     \* VerifiedMachine and the controller's fields around it
    outbox,     \* the requests not answered yet
    spent       \* how much of each bound is used up

timer == <<running, opened, history>>
sessionVars == <<serverVars, timer, client, outbox, spent>>
----------------------------------------------------------------------------
NoAnchor == [session |-> 0, at |-> 0]

(* VerifiedMachine::new; an anchor survives a restart, a session does not. *)
New(anchor) ==
    [eligible |-> FALSE, generation |-> 0, session |-> 0, anchor |-> anchor,
     reconciling |-> FALSE, starting |-> FALSE, failedOffline |-> FALSE,
     beats |-> FALSE, next |-> 0, offlineFailures |-> FALSE]

Message(route, session, claim, generation) ==
    [route |-> route, session |-> session, claim |-> claim,
     generation |-> generation]

(* What a method of the machine does: its new state and what it sends.     *)
Outcome(m, send) == [machine |-> m, send |-> send]
Nothing(m) == Outcome(m, <<>>)

Began(m) ==
    IF m.starting
    THEN Nothing(m)
    ELSE Outcome([m EXCEPT !.starting = TRUE, !.failedOffline = FALSE],
                 <<Message("start", 0, {}, m.generation)>>)

Scheduled(m) ==
    [m EXCEPT !.beats = TRUE, !.next = now + HeartbeatEvery]

Stopped(m) == [m EXCEPT !.beats = FALSE, !.next = 0]

Observed(m, eligible) ==
    LET n == [Stopped(m) EXCEPT !.generation = @ + 1, !.eligible = eligible]
    IN  CASE ~eligible ->
                 Outcome([n EXCEPT !.failedOffline = FALSE, !.session = 0],
                         IF n.session = 0 THEN <<>>
                         ELSE <<Message("finish", n.session, {}, 0)>>)
          [] eligible /\ n.session # 0 -> Nothing(Scheduled(n))
          [] eligible /\ n.session = 0 -> Began([n EXCEPT !.starting = FALSE])

(* offline_intervals: unclamped, the open segment closed at now.           *)
OfflineIntervals(since) ==
    {iv \in history \cup (IF running THEN {<<opened, now>>} ELSE {}) :
         iv[2] > since}

Confirmed(m, i) ==
    LET prev  == m.anchor
        n     == [m EXCEPT !.anchor = [session |-> i, at |-> now]]
        claim == OfflineIntervals(prev.at)
    IN  IF /\ prev.session # 0
           /\ ~m.reconciling
           /\ now - prev.at > Grace
           /\ claim # {}
        THEN Outcome([n EXCEPT !.reconciling = TRUE],
                     <<Message("reconcile", prev.session, claim, 0)>>)
        ELSE Nothing(n)

StartSucceeded(m, generation, i) ==
    LET n == [m EXCEPT !.starting = @ /\ generation # m.generation]
        c == Confirmed([n EXCEPT !.session = i], i)
    IN  IF generation # m.generation \/ ~m.eligible
        THEN Outcome(n, <<Message("finish", i, {}, 0)>>)
        ELSE Outcome(Scheduled(c.machine), c.send)

\* slip: any start that fails clears the flag
StartFailedAny(m, generation, reply) ==
    [m EXCEPT !.starting = FALSE,
              !.failedOffline = reply = "offline" /\ m.eligible]

StartFailed(m, generation, reply) ==
    IF generation = m.generation
    THEN [m EXCEPT !.starting = FALSE,
                   !.failedOffline = reply = "offline" /\ m.eligible]
    ELSE m

HeartbeatDue(m) ==
    CASE m.eligible /\ m.session # 0 ->
             Outcome(m, <<Message("heartbeat", m.session, {}, 0)>>)
      [] m.eligible /\ m.session = 0 /\ m.failedOffline -> Began(m)
      [] OTHER -> Nothing(m)

HeartbeatFailed(m, i, reply) ==
    LET n == [m EXCEPT !.session = 0]
        b == Began(n)
    IN  CASE reply # "notfound" \/ m.session # i -> Nothing(m)
          [] reply = "notfound" /\ m.session = i /\ ~m.eligible -> Nothing(n)
          [] reply = "notfound" /\ m.session = i /\ m.eligible ->
                 IF b.send = <<>> THEN b ELSE Outcome(Stopped(b.machine), b.send)

\* slip: an open session is beaten, but none is started
RestoredOpenOnly(m) ==
    IF m.eligible /\ m.session # 0
    THEN Outcome(m, <<Message("heartbeat", m.session, {}, 0)>>)
    ELSE Nothing(m)

(* connectivity_restored                                                   *)
Restored(m) ==
    CASE ~m.eligible -> Nothing(m)
      [] m.eligible /\ m.session # 0 ->
             Outcome(m, <<Message("heartbeat", m.session, {}, 0)>>)
      [] m.eligible /\ m.session = 0 -> Began(m)

(* track_connectivity                                                      *)
Tracked(m, reply) ==
    CASE reply = "offline" -> Nothing([m EXCEPT !.offlineFailures = TRUE])
      [] reply = "ok" /\ m.offlineFailures ->
             Restored([m EXCEPT !.offlineFailures = FALSE])
      [] OTHER -> Nothing(m)

(* background_reply; of a sync only its success or failure matters here.   *)
BackgroundReply(m, request, session, reply) ==
    CASE request.route = "start" ->
             IF reply = "ok"
             THEN StartSucceeded(m, request.generation, session)
             ELSE Nothing(StartFailed(m, request.generation, reply))
      [] request.route = "heartbeat" ->
             IF reply = "ok"
             THEN Confirmed(m, request.session)
             ELSE HeartbeatFailed(m, request.session, reply)
      [] request.route = "reconcile" ->
             Nothing([m EXCEPT !.reconciling = FALSE])
      [] OTHER -> Nothing(m)
----------------------------------------------------------------------------
SessionInit ==
    /\ ServerInit
    /\ running = FALSE
    /\ opened = 0
    /\ history = {}
    /\ client = New(NoAnchor)
    /\ outbox = <<>>
    /\ spent = [starts |-> 0, unsent |-> 0, timeouts |-> 0, restarts |-> 0]

Does(outcome) ==
    /\ client' = outcome.machine
    /\ outbox' = outbox \o outcome.send

TimerStart ==
    /\ ~running
    /\ spent.starts < MaxStarts
    /\ running' = TRUE
    /\ opened' = now
    /\ spent' = [spent EXCEPT !.starts = @ + 1]
    /\ Does(Observed(client, TRUE))
    /\ UNCHANGED <<serverVars, history>>

\* slip: a block of no length is logged too
TimerStopLogsAll ==
    /\ running
    /\ running' = FALSE
    /\ history' = history \cup {<<opened, now>>}
    /\ Does(Observed(client, FALSE))
    /\ UNCHANGED <<serverVars, opened, spent>>

TimerStop ==
    /\ running
    /\ running' = FALSE
    /\ history' = history \cup (IF opened < now THEN {<<opened, now>>} ELSE {})
    /\ Does(Observed(client, FALSE))
    /\ UNCHANGED <<serverVars, opened, spent>>

(* The schedule fires, late if the computer slept.                         *)
Beat ==
    /\ client.beats
    /\ now >= client.next
    /\ Does(HeartbeatDue([client EXCEPT !.next = now + HeartbeatEvery]))
    /\ UNCHANGED <<serverVars, timer, spent>>

Queued(route) == {k \in DOMAIN outbox : outbox[k].route = route}

AskSync ==
    /\ Queued("settle") = {}
    /\ outbox' = Append(outbox, Message("settle", 0, {}, 0))
    /\ UNCHANGED <<serverVars, timer, client, spent>>

Send ==
    /\ outbox # <<>>
    /\ Arrive(Live, Request(Head(outbox).route, Head(outbox).session,
                            Head(outbox).claim))
    /\ UNCHANGED <<now, tables, faults, timer, client, outbox, spent>>

(* on_reply: track_connectivity first, then the handler of the request.    *)
OnReply(session, reply) ==
    LET tracked == Tracked(client, reply)
        handled == BackgroundReply(tracked.machine, Head(outbox), session, reply)
    IN  /\ client' = handled.machine
        /\ outbox' = Tail(outbox) \o tracked.send \o handled.send

Deliver ==
    /\ calls[Live].at = "answered"
    /\ outbox # <<>>
    /\ OnReply(calls[Live].session, calls[Live].reply)
    /\ calls' = [calls EXCEPT ![Live] = Idle]
    /\ UNCHANGED <<now, tables, faults, timer, spent>>

NotSent ==
    /\ outbox # <<>>
    /\ calls[Live].at = "idle"
    /\ spent.unsent < MaxUnsent
    /\ spent' = [spent EXCEPT !.unsent = @ + 1]
    /\ OnReply(0, "offline")
    /\ UNCHANGED <<serverVars, timer>>

TimeOut ==
    /\ outbox # <<>>
    /\ calls[Live].at # "idle"
    /\ calls[Late].at = "idle"
    /\ spent.timeouts < MaxTimeouts
    /\ spent' = [spent EXCEPT !.timeouts = @ + 1]
    /\ calls' = [calls EXCEPT ![Late] = calls[Live], ![Live] = Idle]
    /\ OnReply(0, "offline")
    /\ UNCHANGED <<now, tables, faults, timer>>

(* The application ends and is started again: what was queued is gone,     *)
(* while the Worker ends the call it has.  A countdown left a moment ago   *)
(* runs on and is observed anew, any other Timer comes back paused.        *)
Restart ==
    /\ spent.restarts < MaxRestarts
    /\ calls[Late].at = "idle"
    /\ spent' = [spent EXCEPT !.restarts = @ + 1]
    /\ calls' = [calls EXCEPT ![Late] = calls[Live], ![Live] = Idle]
    /\ \/ LET o == Observed(New(client.anchor), TRUE)
          IN  /\ running
              /\ running' = TRUE
              /\ client' = o.machine
              /\ outbox' = o.send
       \/ /\ running' = FALSE
          /\ client' = New(client.anchor)
          /\ outbox' = <<>>
    /\ UNCHANGED <<now, tables, faults, opened, history>>

ClockTicks ==
    /\ outbox = <<>>
    /\ Tick
    /\ UNCHANGED <<timer, client, outbox, spent>>

WorkerSteps ==
    /\ \E c \in Slots : Handle(c) \/ Fault(c)
    /\ UNCHANGED <<timer, client, outbox, spent>>

LateEnds ==
    /\ Reply(Late)
    /\ UNCHANGED <<timer, client, outbox, spent>>

SessionNext ==
    \/ TimerStart \/ TimerStop \/ Beat \/ AskSync
    \/ Send \/ Deliver \/ NotSent \/ TimeOut \/ LateEnds
    \/ Restart \/ ClockTicks \/ WorkerSteps

SessionSpec == SessionInit /\ [][SessionNext]_sessionVars

(* The event loop and the network thread keep going, a call ends, and the  *)
(* periodic sync is made again and again.                                  *)
SessionFairness ==
    /\ WF_sessionVars(AskSync)
    /\ WF_sessionVars(Send)
    /\ WF_sessionVars(Deliver)
    /\ WF_sessionVars(LateEnds)
    /\ WF_sessionVars(WorkerSteps)

FairSessionSpec == SessionSpec /\ SessionFairness
----------------------------------------------------------------------------
(* Type and domain of what this module adds.                               *)
SessionTypeOK ==
    /\ ServerTypeOK
    /\ running \in BOOLEAN
    /\ opened \in 0..MaxTime
    /\ history \subseteq {iv \in (0..now) \X (0..now) : iv[1] < iv[2]}
    /\ client \in [eligible : BOOLEAN, generation : Nat,
                   session : 0..Len(sessions),
                   anchor : [session : 0..Len(sessions), at : 0..MaxTime],
                   reconciling : BOOLEAN, starting : BOOLEAN,
                   failedOffline : BOOLEAN, beats : BOOLEAN, next : Nat,
                   offlineFailures : BOOLEAN]
    /\ outbox \in Seq([route : Routes, session : 0..Len(sessions),
                       claim : SUBSET ((0..MaxTime) \X (0..MaxTime)),
                       generation : Nat])
    /\ spent \in [starts : 0..MaxStarts, unsent : 0..MaxUnsent,
                  timeouts : 0..MaxTimeouts, restarts : 0..MaxRestarts]

(* The machine's flags say what is under way, however replies, timer       *)
(* changes and failures cross: one start of the present generation at most *)
(* and none behind the flag's back, one reconciliation at a time, no       *)
(* session wanted of a stopped Timer, and heartbeats scheduled for every   *)
(* session held, under a Timer that runs.                                  *)
FlagsMatchCalls ==
    LET current == {k \in Queued("start") :
                        outbox[k].generation = client.generation}
    IN  /\ \A j, k \in current : j = k
        /\ client.eligible => (client.starting <=> current # {})
        /\ \A j, k \in Queued("reconcile") : j = k
        /\ client.reconciling <=> Queued("reconcile") # {}
        /\ client.eligible <=> running
        /\ client.session # 0 => client.beats
        /\ client.beats => running

(* verified.rs, on the differences from production: "the heartbeat cadence *)
(* re-attempts a start that failed for a network reason".  So the cadence  *)
(* is on while such a start is waiting to be made again.                   *)
FailedStartIsRetried == client.failedOffline => client.beats

(* No minute is credited in both tiers (index.ts, on the gap's start).     *)
OneTierPerMinute ==
    \A m \in Minutes : normal[m] >= 1 =>
        \A a \in DOMAIN offline : offline[a][m] = 0

(* A student who goes on studying comes to hold a session, even when the   *)
(* request for it never got out: the next sync that succeeds makes up for  *)
(* it.                                                                     *)
StudyIsWitnessed ==
    running ~> (client.session # 0 \/ ~running \/ spent.timeouts + spent.restarts > 0)
=============================================================================
