---------------------------- MODULE SocialClient ----------------------------
(***************************************************************************)
(* What drives the Social controller: starting up, its timers, the tab,    *)
(* friends, making and restoring an account, and the replies.              *)
(*                                                                         *)
(* Left out: creating an account where the endpoint is not configured, the *)
(* name prompt, and the messages.                                          *)
(***************************************************************************)
EXTENDS SocialSquad

RestoreProfile(c) ==
    IF ~HasIdentity(c) \/ Waiting(c, "restore") THEN c
    ELSE WithIdentity([c EXCEPT !.restoreFailed = FALSE], Request("restore"))

(* on_startup and the first poll; the sync that follows the load of the    *)
(* sessions waits for the same 2 s as any other.                           *)
OnStartup(c) ==
    IF ~HasIdentity(c) THEN c
    ELSE LET greeted == IF c.restoring THEN RestoreProfile(c)
                        ELSE IF c.record.due THEN Sync(Presence(c))
                        ELSE Presence(c)
         IN  [PollAnnouncement(greeted) EXCEPT !.debounce = TRUE]

SubtabEffect(c) ==
    IF ~c.visible \/ c.subtab = "friends" THEN c
    ELSE IF c.subtab = "leaderboard" THEN Sync(Presence(c))
    ELSE RefreshStatus(Presence(c))

Shown(c) == MaybeLoadSuggestions(RefreshFeed(RefreshLeaderboard(c)))

TabOpened(c) ==
    LET open == [c EXCEPT !.visible = TRUE]
    IN  IF open.restoring /\ open.restoreFailed THEN RestoreProfile(open)
        ELSE Shown(SubtabEffect(RefreshStatus(open)))

SetSubtab(c, subtab) ==
    IF subtab = c.subtab THEN c
    ELSE Shown(SubtabEffect([c EXCEPT !.subtab = subtab]))

SetScope(c, scope) ==
    IF scope = c.scope THEN c ELSE RefreshLeaderboard([c EXCEPT !.scope = scope])

ManualSync(c) == IF c.restoring THEN RestoreProfile(c) ELSE Sync(c)

(* A friend request, and the answer to one: their replies end the waiting. *)
(* A request asks for a record only, and is sent with an identity only.    *)
AskFriend(c, kind) ==
    IF c.record = NoRecord \/ (kind = "friendRespond" /\ ~Active(c)) THEN c
    ELSE WithIdentity([c EXCEPT !.syncing = TRUE], Request(kind))

OpenProfile(c) ==
    WithIdentity([c EXCEPT !.viewing = "loading"], Request("playerStats"))
----------------------------------------------------------------------------
(* An account is made under an id of its own; nothing is kept until the    *)
(* Worker accepted it.                                                     *)
CreateAccount(c, user) ==
    IF c.phase # "none" \/ c.creating THEN c
    ELSE Send([c EXCEPT !.phase = "new", !.user = user, !.creating = TRUE,
                        !.record = RecordOf(user, 1)],
              [kind |-> "bootstrap", candidate |-> user])

NoAccount(c) == [c EXCEPT !.phase = "none", !.user = 0, !.record = NoRecord]

(* slip: the account is kept although its credential could not be saved    *)
BootstrapKept(c, ok, stored) ==
    LET answered == [c EXCEPT !.creating = FALSE]
    IN  IF ~ok THEN NoAccount(answered)
        ELSE RefreshLeaderboard(RefreshStatus(SyncedNow(
                [answered EXCEPT !.phase = "existing",
                                 !.credential = IF stored THEN c.user ELSE @])))

BootstrapResult(c, ok, stored) ==
    LET answered == [c EXCEPT !.creating = FALSE]
    IN  IF ~ok \/ ~stored THEN NoAccount(answered)
        ELSE RefreshLeaderboard(RefreshStatus(SyncedNow(
                [answered EXCEPT !.phase = "existing", !.credential = c.user])))

SyncAnswered(c, r, ok) ==
    LET done == [c EXCEPT !.syncInProgress = FALSE, !.syncing = FALSE,
                          !.afterSync = <<>>]
        taken == [done EXCEPT !.record.outbox = TakeSent(@, r.sent)]
        settled ==
            IF ~ok \/ c.record = NoRecord THEN SyncedNow(done)
            ELSE LET saved == SyncedNow(taken)
                 IN  WithIdentity(saved, Request("statusAfterSync"))
        Upload(p, acc) == UploadPostImage(acc, p, "new", 0)
    IN  FoldRight(Upload, Reverse(c.afterSync), settled)

(* A profile of its own comes back: the Worker's name and avatar, and the  *)
(* privacy toggles of a new account, which the sync then sends.            *)
Restored(c, ok, data) ==
    IF ~ok THEN [c EXCEPT !.restoreFailed = TRUE]
    ELSE LET record == RecordOf(c.user, data.profile + 1)
             back == Sync(Presence(Persist(
                        [c EXCEPT !.record = record, !.restoring = FALSE])))
         IN  IF c.visible THEN Shown(RefreshStatus(back)) ELSE back

(* A cancelled request clears its spinner, whatever else it is.            *)
OnCancelled(c, r, stored) ==
    LET Released(d) == [d EXCEPT !.syncing = d.syncInProgress]
    IN  CASE r.kind = "bootstrap" -> BootstrapResult(c, FALSE, stored)
          [] r.kind = "sync" ->
                Released([c EXCEPT !.syncInProgress = FALSE, !.afterSync = <<>>])
          [] r.kind \in FeedKinds -> Released(FeedCancelled(c, r))
          [] r.kind \in SquadKinds -> Released(SquadCancelled(c, r))
          [] r.kind \in BackgroundKinds -> Released(BackgroundCancelled(c, r))
          [] r.kind = "avatarUpload" -> Released([c EXCEPT !.uploading = FALSE])
          [] OTHER -> Released(c)

OnReply(c, r, ok, data, stored) ==
    CASE r.kind \in FeedKinds -> FeedReply(c, r, ok, data)
      [] r.kind \in SquadKinds -> SquadReply(c, r, ok, data)
      [] r.kind \in BackgroundKinds -> BackgroundReply(c, r, ok)
      [] r.kind = "avatarUpload" -> AvatarAnswered(c, ok)
      [] r.kind = "bootstrap" -> BootstrapResult(c, ok, stored)
      [] r.kind = "sync" -> SyncAnswered(c, r, ok)
      [] r.kind \in {"status", "statusAfterSync"} ->
            MaybeLoadSuggestions(
                IF ok THEN Persist([c EXCEPT !.record.squad = data.squad]) ELSE c)
      [] r.kind = "friendRequest" ->
            LET released == [c EXCEPT !.syncing = FALSE]
            IN  IF ok THEN Sync(released) ELSE released
      [] r.kind = "friendRespond" ->
            LET released == [c EXCEPT !.syncing = FALSE]
            IN  IF ok THEN ApplySquad(released, data) ELSE released
      [] r.kind = "playerStats" ->
            [c EXCEPT !.viewing = IF @ = "loading" THEN "shown" ELSE @]
      [] r.kind = "restore" -> Restored(c, ok, data)
      [] r.kind \in {"presence", "leaderboard"} -> c
============================================================================
