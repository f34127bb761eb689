----------------------------- MODULE SocialFeed -----------------------------
(***************************************************************************)
(* The feed of the Social controller: the outbox of posts, edits and       *)
(* deletions, images, reactions, votes and comments.  Left out: the        *)
(* deletions queued by session_removed, which the program never calls; the *)
(* notice of new comments; the owner's view of the storage used.           *)
(***************************************************************************)
EXTENDS SocialController

QueuedPost(s, p) == p \in OutboxIds(s)

SessionPosted(s, p) ==
    \/ QueuedPost(s, p)
    \/ \E f \in Scopes : s.rows[f][p] # NoRow
    \/ p \in s.record.own

(* update_post and remove_post, in both cached feeds.                      *)
MapRows(rows, p, F(_)) ==
    [f \in Scopes |-> [rows[f] EXCEPT ![p] = IF @ = NoRow THEN @ ELSE F(@)]]
RemoveRow(rows, p) == [f \in Scopes |-> [rows[f] EXCEPT ![p] = NoRow]]

Found(s, p) ==
    IF s.rows[s.feedScope][p] # NoRow THEN s.rows[s.feedScope][p]
    ELSE IF s.rows["friends"][p] # NoRow THEN s.rows["friends"][p]
    ELSE s.rows["global"][p]

(* store_feed: the rows of one scope, and whose posts are known to be out. *)
StoreFeed(s, scope, rows) ==
    [s EXCEPT !.rows[scope] = rows,
              !.record.own = @ \cup {p \in Posts : rows[p] # NoRow}]

RefreshFeed(s) ==
    IF \/ ~Active(s) \/ ~s.visible \/ s.subtab # "feed"
       \/ \E r \in InFlight(s) : r.kind = "refresh" /\ r.scope = s.feedScope
    THEN s
    ELSE Send([s EXCEPT !.loading = TRUE],
              [kind |-> "refresh", scope |-> s.feedScope])

SetFeedScope(s, scope) ==
    IF scope = s.feedScope THEN s ELSE RefreshFeed([s EXCEPT !.feedScope = scope])
----------------------------------------------------------------------------
Truncate(outbox) == SubSeq(outbox, 1, IF Len(outbox) < MaxPending
                                         THEN Len(outbox) ELSE MaxPending)

QueuePost(s, p) ==
    IF s.record = NoRecord \/ QueuedPost(s, p) THEN s
    ELSE Persist([s EXCEPT
            !.record.outbox = Truncate(<<Pending(p, 0)>> \o @),
            !.record.own = @ \cup {p},
            !.rows = [f \in Scopes |-> [s.rows[f] EXCEPT ![p] = Row(0, FALSE, 0)]]])

UploadPostImage(s, p, purpose, note) ==
    IF ~HasIdentity(s) THEN s
    ELSE Send(s, [kind |-> "imageUpload", post |-> p, purpose |-> purpose,
                  note |-> note])

(* A post with an image is synced at once and its image follows the sync;  *)
(* where no sync was sent the image goes straight away.                    *)
PostLatest(s, p, image) ==
    IF ~Active(s) \/ SessionPosted(s, p) THEN s
    ELSE LET queued == QueuePost(s, p)
             synced == Sync(queued)
         IN  IF ~image THEN queued
             ELSE IF synced = queued THEN UploadPostImage(queued, p, "new", 0)
             ELSE [synced EXCEPT !.afterSync = Append(@, p)]

(* The Timer logged a session: auto_post, and the 2 s debounce of the sync *)
(* that a change of the session count asks for.                            *)
SessionLogged(s, p, auto) ==
    LET posted == IF auto /\ Active(s) /\ ~SessionPosted(s, p)
                  THEN QueuePost(s, p) ELSE s
    IN  [posted EXCEPT !.debounce = HasIdentity(s)]

ToggleReaction(s, p) ==
    IF Active(s) /\ ~QueuedPost(s, p)
        THEN Send(s, [kind |-> "react", post |-> p]) ELSE s

Toggle(vote, option) == IF vote = option THEN 0 ELSE option

Vote(s, p, option) ==
    LET row == Found(s, p)
        Chosen(r) == [r EXCEPT !.vote = Toggle(row.vote, option)]
    IN  IF ~Active(s) \/ row = NoRow \/ QueuedPost(s, p) THEN s
        ELSE Send([s EXCEPT !.rows = MapRows(@, p, Chosen),
                            !.nextSeq = @ + 1,
                            !.voteSeq[p] = s.nextSeq + 1],
                  [kind |-> "vote", post |-> p, option |-> option,
                   seq |-> s.nextSeq + 1, previous |-> row.vote])

SubmitComment(s, p) ==
    IF \/ ~Active(s) \/ s.commentSaving = p
       \/ p \notin s.drafts \/ QueuedPost(s, p)
    THEN s
    ELSE Send([s EXCEPT !.commentSaving = p], [kind |-> "comment", post |-> p])

(* The user opens a post to edit it and makes their changes; an image that *)
(* was picked waits with the note, and replaces a removal.                 *)
StartEdit(s, p, note, image) ==
    IF Found(s, p) = NoRow THEN s
    ELSE [s EXCEPT !.editing = [post |-> p, note |-> note, image |-> image]]

FinishEdit(s, p, note, removed) ==
    LET Edited(r) == [r EXCEPT !.note = note, !.image = @ /\ ~removed]
        renoted == [i \in DOMAIN s.record.outbox |->
            IF s.record.outbox[i].id = p THEN Pending(p, note)
                                         ELSE s.record.outbox[i]]
        done == [s EXCEPT !.rows = MapRows(@, p, Edited),
                          !.record.outbox = renoted,
                          !.saving = FALSE, !.editing = NoEdit]
    IN  IF QueuedPost(s, p) THEN Persist(done) ELSE done

(* A queued post is edited where it is.                                    *)
SaveEdit(s) ==
    LET e == s.editing IN
    IF e = NoEdit \/ s.saving \/ ~Active(s) THEN s
    ELSE IF QueuedPost(s, e.post)
        THEN FinishEdit(s, e.post, e.note, e.image = "remove")
    ELSE Send([s EXCEPT !.saving = TRUE],
              [kind |-> "update", post |-> e.post, note |-> e.note,
               image |-> e.image])

PostDeleted(s, p) ==
    LET Others(pending) == pending.id # p
    IN  Persist([s EXCEPT !.rows = RemoveRow(@, p),
                          !.record.outbox = SelectSeq(@, Others),
                          !.record.own = @ \ {p},
                          !.saving = FALSE, !.editing = NoEdit])

DeletePost(s, p) ==
    IF s.saving \/ ~Active(s) \/ Found(s, p) = NoRow THEN s
    ELSE IF QueuedPost(s, p) THEN PostDeleted(s, p)
    ELSE Send([s EXCEPT !.saving = TRUE], [kind |-> "delete", post |-> p])
----------------------------------------------------------------------------
(* slip: a successful sync empties the outbox                              *)
TakeAll(outbox, sent) == <<>>

(* A successful sync takes what it sent out of the outbox.                 *)
TakeSent(outbox, sent) ==
    LET Unsent(pending) == \A i \in DOMAIN sent : sent[i].id # pending.id
    IN  SelectSeq(outbox, Unsent)

FeedKinds ==
    {"refresh", "react", "vote", "comment", "update", "imageUpload",
     "imageDelete", "delete"}

FeedCancelled(s, r) ==
    CASE r.kind = "refresh" -> [s EXCEPT !.loading = Waiting(s, "refresh")]
      [] r.kind = "comment" -> [s EXCEPT !.commentSaving = NoPost]
      [] r.kind \in {"update", "imageUpload", "imageDelete", "delete"} ->
            [s EXCEPT !.saving = FALSE]
      [] OTHER -> s

(* A newer vote on this poll is on its way: its reply decides.             *)
NewestVote(s, r) == s.voteSeq[r.post] = r.seq

(* slip: what was clicked is taken for what the Worker has                 *)
VoteTrusted(s, r, ok, data) ==
    LET Settled(row) == [row EXCEPT !.vote = IF ok THEN @ ELSE r.previous]
    IN  IF ~NewestVote(s, r) THEN s
        ELSE [s EXCEPT !.voteSeq[r.post] = 0,
                       !.rows = MapRows(@, r.post, Settled)]

VoteAnswered(s, r, ok, data) ==
    LET Settled(row) == [row EXCEPT !.vote = IF ok THEN data ELSE r.previous]
    IN  IF ~NewestVote(s, r) THEN s
        ELSE [s EXCEPT !.voteSeq[r.post] = 0,
                       !.rows = MapRows(@, r.post, Settled)]

UpdateAnswered(s, r, ok) ==
    IF ~ok THEN [s EXCEPT !.saving = FALSE]
    ELSE CASE r.image = "keep" -> FinishEdit(s, r.post, r.note, FALSE)
           [] r.image = "new" -> UploadPostImage(s, r.post, "edit", r.note)
           [] r.image = "remove" ->
                Send(s, [kind |-> "imageDelete", post |-> r.post, note |-> r.note])

(* slip: a failed upload leaves the editor saving                          *)
ImageStuck(s, r, ok) ==
    LET WithImage(row) == [row EXCEPT !.image = TRUE]
        shown == [s EXCEPT !.rows = MapRows(@, r.post, WithImage)]
    IN  IF ~ok THEN s
        ELSE IF r.purpose = "new" THEN shown
        ELSE FinishEdit(shown, r.post, r.note, FALSE)

ImageAnswered(s, r, ok) ==
    LET WithImage(row) == [row EXCEPT !.image = TRUE]
        shown == [s EXCEPT !.rows = MapRows(@, r.post, WithImage)]
    IN  IF ~ok THEN [s EXCEPT !.saving = FALSE]
        ELSE IF r.purpose = "new" THEN shown
        ELSE FinishEdit(shown, r.post, r.note, FALSE)

(* data is what the reply carries: the rows of a feed, the vote as stored. *)
FeedReply(s, r, ok, data) ==
    CASE r.kind = "refresh" ->
            LET done == [s EXCEPT !.loading = Waiting(s, "refresh")]
            IN  Persist(IF ok THEN StoreFeed(done, r.scope, data.rows) ELSE done)
      [] r.kind = "react" -> s
      [] r.kind = "vote" -> VoteAnswered(s, r, ok, data)
      [] r.kind = "comment" ->
            [s EXCEPT !.commentSaving = NoPost,
                      !.drafts = IF ok THEN @ \ {r.post} ELSE @]
      [] r.kind = "update" -> UpdateAnswered(s, r, ok)
      [] r.kind = "imageUpload" -> ImageAnswered(s, r, ok)
      [] r.kind = "imageDelete" ->
            IF ok THEN FinishEdit(s, r.post, r.note, TRUE)
                  ELSE [s EXCEPT !.saving = FALSE]
      [] r.kind = "delete" ->
            IF ok THEN PostDeleted(s, r.post) ELSE [s EXCEPT !.saving = FALSE]
============================================================================
