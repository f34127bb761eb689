---------------------------- MODULE SocialSquad ----------------------------
(***************************************************************************)
(* The Squad, Profile and Background parts of the Social controller:       *)
(* membership actions, the squad's chat, search and suggestions, the       *)
(* details dialog, the Squad Arena's scoreboard, the avatar editor, the    *)
(* announcement and the owner's two requests.                              *)
(*                                                                         *)
(* Abstracted: which squad, member or message an action is about (the      *)
(* Worker decides what it does, SquadServer models it); the shuffle of the *)
(* suggestions; cropping a photo.  The verified session's requests are     *)
(* VerifiedSession's.                                                      *)
(***************************************************************************)
EXTENDS SocialFeed

MembershipOps ==
    {"create", "join", "joinViewed", "respond", "leave", "role", "kick", "settings"}

(* What is asked before it is done.                                        *)
Asked == {"leave", "kick", "deleteMessage", "notice"}

Busy(s) == s.syncing

Mutate(s, op, disables) ==
    IF ~Active(s) THEN s
    ELSE Send(IF disables THEN [s EXCEPT !.syncing = TRUE] ELSE s,
              [kind |-> "mutation", op |-> op])

(* What each action needs besides an account: a card to join, a squad to   *)
(* leave, details that offer joining.                                      *)
Offered(s, op) ==
    CASE op = "join" -> s.known \/ s.found
      [] op = "joinViewed" -> s.details.action = "canJoin"
      [] op = "leave" -> s.record.squad
      [] OTHER -> TRUE

Membership(s, op) ==
    IF Busy(s) \/ ~Offered(s, op) THEN s ELSE Mutate(s, op, TRUE)

Ask(s, op) ==
    IF \/ op = "leave" /\ ~s.record.squad
       \/ op = "notice" /\ s.noticeSending
    THEN s ELSE [s EXCEPT !.confirm = op]

SendChat(s) ==
    IF s.chat = 0 THEN s
    ELSE LET cleared == [s EXCEPT !.chat = 0]
         IN  IF ~Active(s) THEN cleared
             ELSE Send(cleared, [kind |-> "chat", body |-> s.chat])

SendNotice(s) ==
    IF ~HasIdentity(s) \/ s.noticeSending THEN s
    ELSE Send([s EXCEPT !.noticeSending = TRUE], Request("notice"))

AnswerConfirm(s, yes) ==
    LET asked == [s EXCEPT !.confirm = "none"]
    IN  CASE s.confirm = "none" \/ ~yes -> asked
          [] s.confirm \in {"leave", "kick"} -> Membership(asked, s.confirm)
          [] s.confirm = "deleteMessage" -> Mutate(asked, "deleteMessage", FALSE)
          [] s.confirm = "notice" -> SendNotice(asked)
----------------------------------------------------------------------------
SearchSquads(s) ==
    IF ~Active(s) \/ s.searching THEN s
    ELSE Send([s EXCEPT !.searching = TRUE],
              [kind |-> "search", suggestions |-> FALSE])

(* "Reload" reshuffles the pool it already has.                            *)
LoadSuggestions(s, force) ==
    IF \/ ~Active(s) \/ s.record.squad
       \/ ~force /\ s.known
    THEN s
    ELSE Send([s EXCEPT !.suggesting = TRUE],
              [kind |-> "search", suggestions |-> TRUE])

(* One load a visit to the Squad tab without a squad.                      *)
MaybeLoadSuggestions(s) ==
    IF ~Active(s) \/ ~s.visible \/ s.subtab # "squad"
        THEN [s EXCEPT !.tried = FALSE]
    ELSE IF s.record.squad \/ s.known \/ s.suggesting \/ s.tried THEN s
    ELSE LoadSuggestions([s EXCEPT !.tried = TRUE], TRUE)

SquadDetails(s, afterJoin) ==
    Send(s, [kind |-> "details", afterJoin |-> afterJoin])

OpenDetails(s) ==
    IF ~HasIdentity(s) THEN s
    ELSE SquadDetails([s EXCEPT !.details = [NoDetails EXCEPT !.open = TRUE,
                                                              !.loading = TRUE]],
                      FALSE)

RefreshScoreboard(s) ==
    IF \/ ~Active(s) \/ ~s.visible \/ s.subtab # "leaderboard" \/ s.scope # "squad"
       \/ s.fresh \/ Waiting(s, "scoreboard")
    THEN s
    ELSE Send([s EXCEPT !.fresh = TRUE], Request("scoreboard"))

RefreshLeaderboard(s) ==
    IF ~Active(s) \/ ~s.visible \/ s.subtab # "leaderboard" THEN s
    ELSE RefreshScoreboard(
             WithIdentity(s, [kind |-> "leaderboard", board |-> s.scope]))

ChatRestored(s, body) == IF s.chat = 0 THEN [s EXCEPT !.chat = body] ELSE s

SquadKinds == {"mutation", "chat", "search", "details", "scoreboard"}

SquadCancelled(s, r) ==
    CASE r.kind = "mutation" -> [s EXCEPT !.syncing = s.syncInProgress]
      [] r.kind = "chat" ->
            ChatRestored([s EXCEPT !.syncing = s.syncInProgress], r.body)
      [] r.kind = "search" ->
            IF r.suggestions THEN [s EXCEPT !.suggesting = FALSE]
                             ELSE [s EXCEPT !.searching = FALSE]
      [] r.kind = "details" -> [s EXCEPT !.details.loading = FALSE]
      [] r.kind = "scoreboard" -> [s EXCEPT !.fresh = FALSE]

(* A snapshot of the account replaces the squad and both cached feeds.     *)
ApplySnapshot(s, data) ==
    IF s.record = NoRecord THEN s
    ELSE Persist(StoreFeed(StoreFeed([s EXCEPT !.record.squad = data.squad],
                                     "friends", data.rows),
                           "global", data.rows))

ApplySquad(s, data) == SyncedNow(ApplySnapshot(s, data))

Joined(s, op) ==
    CASE op = "join" -> SearchSquads([s EXCEPT !.searching = FALSE])
      [] op = "joinViewed" -> IF HasIdentity(s) THEN SquadDetails(s, TRUE) ELSE s
      [] op = "leave" -> MaybeLoadSuggestions([s EXCEPT !.tried = FALSE])
      [] OTHER -> s

MutationAnswered(s, op, ok, data) ==
    LET released == IF op \in MembershipOps
                    THEN [s EXCEPT !.syncing = s.syncInProgress] ELSE s
    IN  IF ok THEN Joined(ApplySquad(released, data), op) ELSE released

(* A reply for a dialog that was closed changes nothing.                   *)
DetailsAnswered(s, afterJoin, ok) ==
    IF ~s.details.open THEN s
    ELSE LET d == [s.details EXCEPT !.loading = FALSE]
         IN  [s EXCEPT !.details =
                CASE ok -> [d EXCEPT !.action =
                                IF s.record.squad THEN "none" ELSE "canJoin"]
                  [] ~ok /\ afterJoin /\ d.action # "none" ->
                        [d EXCEPT !.action = "none"]
                  [] OTHER -> d]

SquadReply(s, r, ok, data) ==
    CASE r.kind = "mutation" -> MutationAnswered(s, r.op, ok, data)
      [] r.kind = "chat" ->
            IF ok THEN ApplySquad(s, data) ELSE ChatRestored(s, r.body)
      [] r.kind = "search" ->
            IF r.suggestions
                THEN [s EXCEPT !.suggesting = FALSE, !.known = IF ok THEN TRUE ELSE @]
                ELSE [s EXCEPT !.searching = FALSE, !.found = IF ok THEN TRUE ELSE @]
      [] r.kind = "details" -> DetailsAnswered(s, r.afterJoin, ok)
      [] r.kind = "scoreboard" -> [s EXCEPT !.fresh = @ /\ ok]
----------------------------------------------------------------------------
AvatarSaved(s) == ChangeProfile([s EXCEPT !.avatar = "closed"])

(* avatar is "closed", or what the editor's draft is: a letter or an icon, *)
(* or a photo that has yet to be uploaded.                                 *)
SaveAvatar(s) ==
    IF s.uploading \/ s.syncing \/ ~Active(s) \/ s.avatar = "closed" THEN s
    ELSE IF s.avatar = "letter" THEN AvatarSaved(s)
    ELSE Send([s EXCEPT !.uploading = TRUE], Request("avatarUpload"))

AvatarAnswered(s, ok) ==
    LET done == [s EXCEPT !.uploading = FALSE]
    IN  IF ok THEN AvatarSaved(done) ELSE done

PollAnnouncement(s) ==
    IF ~HasIdentity(s) \/ Waiting(s, "announcement") THEN s
    ELSE Send(s, Request("announcement"))

LoadAdminUsage(s) ==
    IF ~HasIdentity(s) \/ s.adminLoading THEN s
    ELSE Send([s EXCEPT !.adminLoading = TRUE], Request("adminUsage"))

BackgroundKinds == {"announcement", "adminUsage", "notice"}

BackgroundCancelled(s, r) ==
    CASE r.kind = "adminUsage" -> [s EXCEPT !.adminLoading = FALSE]
      [] r.kind = "notice" -> [s EXCEPT !.noticeSending = FALSE]
      [] OTHER -> s

BackgroundReply(s, r, ok) ==
    CASE r.kind = "announcement" ->
            [s EXCEPT !.banner = IF ok THEN ~s.dismissed ELSE @]
      [] r.kind = "notice" ->
            [s EXCEPT !.noticeSending = FALSE, !.banner = @ /\ ~ok]
      [] OTHER -> BackgroundCancelled(s, r)
============================================================================
