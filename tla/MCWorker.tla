------------------------------ MODULE MCWorker ------------------------------
(***************************************************************************)
(* The Worker on its own, receiving any calls, part by part: verified      *)
(* sessions, squads, feed and friends, Skribbl, squad scores, accounts.     *)
(* What one part writes and another counts with, the month's writes to R2  *)
(* and the credited minutes, the other has as calls that add any amount,   *)
(* so one part moves in each behaviour; which operations meet in it is     *)
(* chosen at its start.                                                    *)
(***************************************************************************)
EXTENDS VerifiedServer, SquadServer, FeedServer, SkribblServer, SquadScores,
        AccountServer, TLC

CONSTANTS c1, c2, u1, u2, u3, s1, s2, t1, t2, f1, f2

VARIABLE part

SquadMeetings ==
    {{"create", "join", "respond"}, {"join", "leave", "create"},
     {"join", "kick", "leave"}, {"role", "leave", "kick"},
     {"respond", "leave"}, {"settings", "join", "respond"}}

FeedMeetings ==
    {{"upload", "expire", "unimage"}, {"upload", "remove", "publish"},
     {"remove", "expire", "upload"}, {"vote", "remove"},
     {"vote", "react", "publish", "ask"}, {"ask", "respond"},
     {"upload", "elsewhere", "expire"}}

RoomMeetings == {{"theme", "submit"}, {"submit", "vote", "purge"}, {"theme", "purge"}}

SessionMeetings ==
    {{"start", "heartbeat", "finish", "settle"},
     {"start", "heartbeat", "settle", "reconcile"},
     {"start", "finish", "settle", "reconcile"}}

ScoreMeeting == {"sync", "finish", "reconcile", "night"}
AccountMeetings == {{"sign"}, {"total"}, {"flag", "purge"}, {"hash", "migrate"}}

(* What the syncs of a meeting bring: two accounts, the totals of one, or  *)
(* the reasons to flag it.                                                 *)
Plain == AccountCall("sync", u1, f1, 0, 0, {})
AccountMeets ==
    (IF "sign" \in part
     THEN {[Plain EXCEPT !.user = u, !.code = f] : u \in Accounts, f \in Codes} ELSE {})
    \cup (IF "total" \in part
          THEN {[Plain EXCEPT !.lifetime = l, !.sum = m] :
                  l \in 0..MaxTotal, m \in 0..MaxTotal} ELSE {})
    \cup (IF "flag" \in part
          THEN {[Plain EXCEPT !.reasons = {r}] : r \in Reasons} ELSE {})
    \cup (IF "hash" \in part THEN {Plain, [Plain EXCEPT !.user = u2, !.code = f2]} ELSE {})
    \cup (IF "purge" \in part THEN {Nightly} ELSE {})
    \cup (IF "migrate" \in part THEN {Admin} ELSE {})

(* A squad to begin with is s1, led by u1 or not there; u3 is outside, *)
(* and may have asked to join.                                             *)
SquadStart ==
    /\ \A s \in Squads : SquadExists(s) => s = s1
    /\ member[u1].squad = NoSquad => squads[s1] = "none"
    /\ member[u1].squad = s1 => member[u1].role = "leader"
    /\ member[u3].squad = NoSquad
    /\ requests[u2][s1] = "none" /\ requests[u1][s1] = "none"
    /\ requests[u3][s1] = "pending" => "respond" \in part /\ "join" \notin part

(* Votes meet a day whose theme is told and on which u1 has drawn.         *)
Voting == part = {"submit", "vote", "purge"}

Init ==
    /\ part \in SquadMeetings \cup FeedMeetings \cup RoomMeetings
                   \cup AccountMeetings \cup SessionMeetings \cup {ScoreMeeting}
    /\ ServerInit
    /\ ScoreInit /\ (part # ScoreMeeting => baseline = 0)
    /\ AccountInit /\ (keyed <=> "migrate" \notin part)
    /\ IF Voting THEN RoomStart(t1, {u1}) ELSE RoomInit
    /\ SquadInit /\ SquadStart
    /\ part \notin SquadMeetings => \A u \in Users : member[u].squad = NoSquad
    /\ FeedInit
    /\ part \notin FeedMeetings => ~post.exists

Squadding ==
    /\ part \in SquadMeetings
    /\ \/ \E i \in SquadSlots, r \in SquadRequests : r.op \in part /\ MakeCall(i, r)
       \/ \E i \in SquadSlots :
             SquadStep(i) /\ UNCHANGED <<called, squadFaults, wanted, undisturbed>>
       \/ \E i \in SquadSlots : SquadFault(i)
    /\ UNCHANGED <<part, serverVars, feedVars, roomVars, scoreVars, accountVars>>

Feeding ==
    /\ part \in FeedMeetings
    /\ \/ \E i \in FeedSlots, r \in FeedRequests : r.op \in part /\ FeedReceive(i, r)
       \/ \E i \in FeedSlots : FeedStep(i) /\ UNCHANGED feedGhosts
       \/ \E i \in FeedSlots : FeedFault(i) \/ DropFails(i) \/ PurgeDrawing(i)
       \/ ImageAges
    /\ UNCHANGED <<part, serverVars, squadVars, roomVars, scoreVars, accountVars>>

InTheRoom ==
    /\ part \in RoomMeetings
    /\ \/ \E i \in SkribblSlots, r \in RoomRequests : r.op \in part /\ RoomReceive(i, r)
       \/ \E i \in SkribblSlots : RoomStep(i) \/ RoomFault(i) \/ PurgeLeaves(i)
       \/ Midnight
    /\ UNCHANGED <<part, serverVars, squadVars, feedVars, scoreVars, accountVars>>

Scoring ==
    /\ part = ScoreMeeting /\ ScoreNext
    /\ UNCHANGED <<part, serverVars, squadVars, feedVars, roomVars, accountVars>>

Syncing ==
    /\ part \in AccountMeetings
    /\ \/ \E i \in AccountSlots, r \in AccountMeets : AccountReceive(i, r)
       \/ \E i \in AccountSlots : AccountStep(i) /\ UNCHANGED accountGhosts
       \/ \E i \in AccountSlots : AccountFault(i)
       \/ MonthsPass \/ GetKey
    /\ UNCHANGED <<part, serverVars, squadVars, feedVars, roomVars, scoreVars>>

Verifying ==
    /\ part \in SessionMeetings /\ ServerNext
    /\ \A c \in Slots : calls'[c].at # "idle" => calls'[c].route \in part
    /\ UNCHANGED <<part, squadVars, feedVars, roomVars, scoreVars, accountVars>>

Next == Squadding \/ Feeding \/ InTheRoom \/ Scoring \/ Syncing \/ Verifying

Spec == Init /\ [][Next]_<<part, serverVars, squadVars, feedVars, roomVars, scoreVars,
                           accountVars>>

(* The score of a day follows what is credited (ScoresFollowCredit), and an *)
(* account keeps its total, its flag and its window (AccountsKept).        *)
SyncKept == ScoresFollowCredit /\ AccountsKept

(* Calls are interchangeable, whichever slot they are handled in.          *)
AnySlot == Permutations(Slots)
=============================================================================
