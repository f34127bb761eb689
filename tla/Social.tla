------------------------------- MODULE Social -------------------------------
(***************************************************************************)
(* The Social tab of one device: the controller with its user, its timers, *)
(* its store, the network worker's API queue and the Worker it talks to.   *)
(*                                                                         *)
(* The Worker is here what the controller can tell of it: the accounts,    *)
(* the profile, the user's own posts, whether the user is in a squad.  A   *)
(* request can be refused, can fail before it reaches the Worker, or its   *)
(* answer can be lost after the Worker has done what it asks.              *)
(*                                                                         *)
(* Bounds: a work is where a behaviour begins, what its clicks are and how *)
(* many; MaxFaults bounds failed requests, failed saves and restarts,      *)
(* LoopBound the replies that wait on the event loop.                      *)
(***************************************************************************)
EXTENDS SocialClient

CONSTANTS
    Works,          \* a beginning, a set of operations, a number of clicks
    MaxFaults, LoopBound

VARIABLES
    s,              \* the controller
    srv,            \* the Worker
    offered,        \* the operations of this behaviour's work
    clicks,         \* that are left
    faults,
    posted,         \* ghost: what the user posted and did not delete
    excused,        \* ghost: the votes that were refused; NoPost: a failed save
    crowded         \* ghost: what left a full outbox for a newer post

vars == <<s, srv, offered, clicks, faults, posted, excused, crowded>>
----------------------------------------------------------------------------
NewWorker(users, rows, squad) ==
    [users |-> users, profile |-> 1, rows |-> rows, squad |-> squad]

(* Where a behaviour begins: without an account; starting up with an       *)
(* account whose record is lost, or here; or later, when the requests of   *)
(* the start are answered, with or without posts and a squad.              *)
Begin(start) ==
    LET p == CHOOSE post \in Posts : TRUE
        record == [RecordOf(1, 1) EXCEPT !.due = FALSE]
        published == [NoRows EXCEPT ![p] = Row(0, FALSE, 0)]
    IN  CASE start = "none" ->
                <<NewController(NoRecord, 0), NewWorker({}, NoRows, FALSE)>>
          [] start = "lost" ->
                <<OnStartup(NewController(NoRecord, 1)),
                  NewWorker({1}, NoRows, FALSE)>>
          [] start = "started" ->
                <<OnStartup(NewController(record, 1)), NewWorker({1}, NoRows, FALSE)>>
          [] start = "alone" ->
                <<NewController(record, 1), NewWorker({1}, NoRows, FALSE)>>
          [] start = "posts" ->
                <<[NewController([record EXCEPT !.own = {p}], 1)
                       EXCEPT !.rows["friends"] = published],
                  NewWorker({1}, published, FALSE)>>
          [] start = "squad" ->
                <<NewController([record EXCEPT !.squad = TRUE], 1),
                  NewWorker({1}, NoRows, TRUE)>>

Init ==
    \E w \in Works :
        /\ s = Begin(w[1])[1]
        /\ srv = Begin(w[1])[2]
        /\ offered = w[2]
        /\ clicks = w[3] /\ faults = 0
        /\ posted = {p \in Posts : srv.rows[p] # NoRow}
        /\ excused = {}
        /\ crowded = {}
----------------------------------------------------------------------------
(* What the Worker does with a request: whether it is accepted, and the    *)
(* Worker after it.                                                        *)
Upserted(rows, sent) ==
    [p \in Posts |->
        IF \E i \in DOMAIN sent : sent[i].id = p
        THEN LET i == CHOOSE i \in DOMAIN sent : sent[i].id = p
                 old == IF rows[p] = NoRow THEN Row(0, FALSE, 0) ELSE rows[p]
             IN  [old EXCEPT !.note = sent[i].note]
        ELSE rows[p]]

OnPost(r) == r.kind \in {"react", "vote", "comment", "update", "imageUpload",
                         "imageDelete", "delete"}

Accepts(w, r) ==
    CASE OnPost(r) -> w.rows[r.post] # NoRow
      [] r.kind = "mutation" ->
            IF r.op \in {"create", "join", "joinViewed"} THEN ~w.squad ELSE w.squad
      [] r.kind = "chat" -> w.squad
      [] OTHER -> TRUE

Does(w, r) ==
    CASE r.kind = "sync" ->
            [w EXCEPT !.users = @ \cup {r.user}, !.profile = r.profile,
                      !.rows = Upserted(@, r.sent)]
      [] r.kind = "bootstrap" ->
            [w EXCEPT !.users = @ \cup {r.candidate}, !.profile = 1]
      [] r.kind = "vote" ->
            [w EXCEPT !.rows[r.post].vote = Toggle(@, r.option)]
      [] r.kind = "update" -> [w EXCEPT !.rows[r.post].note = r.note]
      [] r.kind = "imageUpload" -> [w EXCEPT !.rows[r.post].image = TRUE]
      [] r.kind = "imageDelete" -> [w EXCEPT !.rows[r.post].image = FALSE]
      [] r.kind = "delete" -> [w EXCEPT !.rows[r.post] = NoRow]
      [] r.kind = "mutation" /\ r.op \in {"create", "join", "joinViewed", "leave"} ->
            [w EXCEPT !.squad = r.op # "leave"]
      [] OTHER -> w

ReplyData(w, r) ==
    IF r.kind = "vote" THEN w.rows[r.post].vote
    ELSE [rows |-> w.rows, squad |-> w.squad, profile |-> w.profile]

(* The API thread takes the requests in turn.                              *)
Execute(out) ==
    LET r == Head(s.queue)
        done == (out = "ok" \/ out = "lost") /\ Accepts(srv, r)
        after == IF done THEN Does(srv, r) ELSE srv
        answer == IF done /\ out = "ok" THEN Answered(r, "ok", ReplyData(after, r))
                                        ELSE Answered(r, "error", 0)
    IN  /\ s.queue # <<>>
        /\ Len(s.loop) < LoopBound
        /\ out # "ok" => faults < MaxFaults /\ r.kind # "presence"
        /\ faults' = IF out = "ok" THEN faults ELSE faults + 1
        /\ srv' = after
        /\ s' = [s EXCEPT !.queue = Tail(@), !.loop = Append(@, answer)]
        /\ UNCHANGED <<offered, clicks, posted, excused, crowded>>

(* on_reply: the reply's request is forgotten before it is handled.        *)
Deliver(stored) ==
    LET a == Head(s.loop)
        c == [s EXCEPT !.loop = Tail(@)]
    IN  /\ s.loop # <<>>
        /\ ~stored => faults < MaxFaults /\ a.request.kind = "bootstrap"
        /\ faults' = IF stored THEN faults ELSE faults + 1
        /\ s' = IF a.out = "cancelled" THEN OnCancelled(c, a.request, stored)
                ELSE OnReply(c, a.request, a.out = "ok", a.data, stored)
        /\ excused' = IF a.request.kind = "vote" /\ a.out # "ok"
                      THEN excused \cup {a.request.post} ELSE excused
        /\ UNCHANGED <<srv, offered, clicks, posted, crowded>>
----------------------------------------------------------------------------
(* The timers that after_change keeps running.                             *)
Timer(c) ==
    /\ s' = c
    /\ UNCHANGED <<srv, offered, clicks, faults, posted, excused, crowded>>

Hourly == HasIdentity(s) /\ s.record.due /\ Timer(Sync(s))
Debounce == s.debounce /\ Timer(Sync([s EXCEPT !.debounce = FALSE]))

(* The two polls of a visible tab come every 2 minutes, like that of the   *)
(* announcement.                                                           *)
Polls ==
    /\ "poll" \in offered
    /\ \/ s.visible /\ Timer(RefreshStatus(s))
       \/ s.visible /\ Timer(RefreshFeed(s))
       \/ Timer(PollAnnouncement(s))

(* Another day, or a minute: a sync is due again, the scoreboard is old.   *)
TimePasses ==
    \/ Active(s) /\ ~s.record.due /\ Timer([s EXCEPT !.record.due = TRUE])
    \/ s.fresh /\ Timer([s EXCEPT !.fresh = FALSE])

Fault ==
    /\ faults < MaxFaults
    /\ faults' = faults + 1
    /\ UNCHANGED <<srv, offered, clicks, crowded>>

StoreFails ==
    /\ s.storeWorks
    /\ Fault
    /\ s' = [s EXCEPT !.storeWorks = FALSE]
    /\ excused' = excused \cup {NoPost}
    /\ UNCHANGED posted

Restart ==
    /\ Fault
    /\ s' = OnStartup(NewController(s.disk, s.credential))
    /\ UNCHANGED <<posted, excused>>
----------------------------------------------------------------------------
(* What the user does.  The screens are those of an account with its       *)
(* profile (SocialView.state, ui/social).                                  *)
Click(op) ==
    /\ op \in offered
    /\ clicks > 0
    /\ clicks' = clicks - 1
    /\ UNCHANGED <<srv, offered, faults, excused>>

To(c) == s' = c /\ UNCHANGED <<posted, crowded>>

(* A full outbox drops its oldest post for a newer one (queue_post).       *)
Crowds == crowded' = crowded \cup (OutboxIds(s) \ OutboxIds(s'))

(* What is in the outbox or in a cached feed, and can be clicked.          *)
Showing(p) == Found(s, p) # NoRow

ComposeClick ==
    /\ Click("post")
    /\ \E p \in Posts, image \in BOOLEAN :
        /\ s' = PostLatest(s, p, image)
        /\ s' # s
        /\ posted' = posted \cup {p}
        /\ Crowds

SessionClick ==
    /\ Click("session")
    /\ \E p \in Posts \ posted :
        /\ s' = SessionLogged(s, p, TRUE)
        /\ posted' = posted \cup ({p} \cap OutboxIds(s'))
        /\ Crowds

EditClick ==
    /\ Click("edit")
    /\ \/ \E p \in Posts, image \in {"keep", "new", "remove"} :
            Showing(p) /\ To(StartEdit(s, p, 1, image))
       \/ s.editing # NoEdit /\ To(SaveEdit(s))

DeleteClick ==
    /\ Click("delete")
    /\ \E p \in Posts :
        /\ Showing(p) /\ ~s.saving
        /\ s' = DeletePost(s, p)
        /\ posted' = posted \ {p}
        /\ UNCHANGED crowded

AnswerClick ==
    \/ Click("vote") /\ \E p \in Posts, option \in {1, 2} :
            Showing(p) /\ To(Vote(s, p, option))
    \/ Click("react") /\ \E p \in Posts : Showing(p) /\ To(ToggleReaction(s, p))
    \/ Click("comment") /\ \E p \in Posts :
            Showing(p) /\ To(SubmitComment([s EXCEPT !.drafts = @ \cup {p}], p))

TabClick ==
    \/ Click("tab") /\ To(IF s.visible THEN [s EXCEPT !.visible = FALSE] ELSE TabOpened(s))
    \/ Click("subtab") /\ \E t \in {"feed", "friends", "leaderboard", "squad"} :
            To(SetSubtab(s, t))
    \/ Click("scope") /\ \E f \in {"friends", "squad"} : To(SetScope(s, f))
    \/ Click("feedScope") /\ \E f \in Scopes : To(SetFeedScope(s, f))
    \/ Click("sync") /\ To(ManualSync(s))

FriendClick ==
    \/ Click("friend") /\ Active(s)
       /\ \E kind \in {"friendRequest", "friendRespond"} : To(AskFriend(s, kind))
    \/ Click("view") /\ To(IF s.viewing = "closed" THEN OpenProfile(s)
                           ELSE [s EXCEPT !.viewing = "closed"])
    \/ Click("profile") /\ Active(s) /\ To(ChangeProfile(s))

AccountClick == Click("account") /\ To(CreateAccount(s, Cardinality(srv.users) + 2))

SquadClick ==
    \/ Click("member") /\ \E op \in MembershipOps : To(Membership(s, op))
    \/ Click("ask") /\ \E op \in Asked : To(Ask(s, op))
    \/ Click("confirm") /\ \E yes \in BOOLEAN :
            s.confirm # "none" /\ To(AnswerConfirm(s, yes))
    \/ Click("chat") /\ To(SendChat([s EXCEPT !.chat = clicks]))
    \/ Click("search") /\ \E again \in BOOLEAN :
            To(IF again THEN LoadSuggestions(s, FALSE) ELSE SearchSquads(s))
    \/ Click("details") /\ To(IF s.details.open
            THEN [s EXCEPT !.details = NoDetails] ELSE OpenDetails(s))

SettingsClick ==
    \/ Click("avatar") /\ \E draft \in {"letter", "photo"} :
            To(SaveAvatar([s EXCEPT !.avatar = draft]))
    \/ Click("closeAvatar") /\ To([s EXCEPT !.avatar = "closed"])
    \/ Click("usage") /\ To(LoadAdminUsage(s))
    \/ Click("dismiss") /\ s.banner /\ To([s EXCEPT !.banner = FALSE, !.dismissed = TRUE])

User ==
    \/ ComposeClick \/ SessionClick \/ EditClick \/ DeleteClick \/ AnswerClick
    \/ TabClick \/ FriendClick \/ AccountClick \/ SquadClick \/ SettingsClick

Next ==
    \/ \E out \in {"ok", "refused", "lost"} : Execute(out)
    \/ \E stored \in BOOLEAN : Deliver(stored)
    \/ Hourly \/ Debounce \/ Polls \/ TimePasses
    \/ StoreFails \/ Restart
    \/ User

(* Weak fairness of Deliver(TRUE), with what enables it and what it does   *)
(* to the event loop in the place of the whole reply.                      *)
RepliesDelivered ==
    []<>(s.loop = <<>>) \/ []<><<~IsPrefix(s.loop, s'.loop)>>_vars

(* The API thread works through its queue, the event loop runs, and the    *)
(* timers that are running fire; nobody promises a click.                  *)
Fairness ==
    /\ WF_vars(Execute("ok"))
    /\ RepliesDelivered
    /\ WF_vars(Hourly)
    /\ WF_vars(TimePasses)

Spec == Init /\ [][Next]_vars /\ Fairness
----------------------------------------------------------------------------
IsMembership(r) == r.kind = "mutation" /\ r.op \in MembershipOps

Awaiting(kinds) == \E r \in InFlight(s) : r.kind \in kinds

(* Every control that is disabled while something is on its way, and every *)
(* spinner, has a request that will end it.  A flag that outlives its      *)
(* request disables its buttons until the program is started again.  Each  *)
(* refusal, cancellation and late reply in social_controller*.rs has to    *)
(* release the right flags.  Two are left out, which a cancelled request   *)
(* does leave behind: a profile that loads, and a profile being restored.  *)
(* And no membership action need hold `syncing` until its own reply: that  *)
(* of a friend request or a sync releases it too, so a second action can   *)
(* overlap, though social_controller_squad.rs:223 says it is ignored.      *)
SpinnersHaveRequests ==
    /\ s.syncing =>
          \/ Awaiting({"sync", "friendRequest", "friendRespond"})
          \/ \E r \in InFlight(s) : IsMembership(r)
    /\ s.syncInProgress <=> Awaiting({"sync"})
    /\ s.afterSync # <<>> => s.syncInProgress
    /\ s.creating <=> Awaiting({"bootstrap"})
    /\ s.creating <=> s.phase = "new"
    /\ s.loading <=> Awaiting({"refresh"})
    /\ s.saving => Awaiting({"update", "imageUpload", "imageDelete", "delete"})
    /\ s.commentSaving # NoPost => Awaiting({"comment"})
    /\ s.searching \/ s.suggesting => Awaiting({"search"})
    /\ s.details.loading => Awaiting({"details"})
    /\ s.uploading <=> Awaiting({"avatarUpload"})
    /\ s.adminLoading <=> Awaiting({"adminUsage"})
    /\ s.noticeSending <=> Awaiting({"notice"})

(* What the user posted is not lost: until they delete it, it waits in the *)
(* outbox, which a restart keeps, or it is on the Worker, whatever is      *)
(* posted, edited or logged while a sync is on the wire and whichever      *)
(* answers are lost (queue_post, and retain in on_reply_inner).  Two       *)
(* exceptions: a post written while the store failed goes with the next    *)
(* restart, and a post that finds the outbox full pushes the oldest out of *)
(* it, which may never have been sent.                                     *)
PostsKept ==
    NoPost \notin excused =>
        \A p \in posted \ crowded : p \in OutboxIds(s) \/ srv.rows[p] # NoRow

(* An account the device goes by is one the Worker knows and whose         *)
(* credential is stored, and a record on screen belongs to it; where       *)
(* making one failed half way nothing of it is left (create_account,       *)
(* bootstrap_result).                                                      *)
AccountWhole ==
    /\ s.phase = "existing" => s.user \in srv.users /\ s.credential = s.user
    /\ s.phase = "none" => s.record = NoRecord /\ s.credential = 0
    /\ s.record # NoRecord => s.record.user = s.user
    /\ Active(s) /\ NoPost \notin excused =>
          s.disk = [s.record EXCEPT !.due = s.disk.due]

(* Once no vote on a poll is on its way, what the cached feeds show of it   *)
(* is what the Worker has, however often the user changed their mind while *)
(* the earlier votes were on the wire.  A vote that was refused shows what *)
(* was there before it, which may be another vote that was refused.        *)
VotesSettle ==
    \A p \in Posts \ excused, f \in Scopes :
        \/ s.rows[f][p] = NoRow \/ srv.rows[p] = NoRow
        \/ \E r \in InFlight(s) : r.kind = "vote" /\ r.post = p
        \/ s.rows[f][p].vote = srv.rows[p].vote

(* What waits to reach the Worker does: the outbox empties, and the        *)
(* Worker's copy of the profile becomes the device's, whatever failed in   *)
(* between (sync, record_sync_failure, on_hourly).                         *)
Uploaded ==
    Active(s) => s.record.outbox = <<>> /\ srv.profile = s.record.profile

LocalReachesWorker == <>[]Uploaded
=============================================================================
