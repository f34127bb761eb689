-------------------------- MODULE SocialController --------------------------
(***************************************************************************)
(* The state of the Social controller and what its parts share: sending a  *)
(* request, the coalesced refreshes, the sync, the store.                  *)
(*                                                                         *)
(* A method of the controller takes &mut self and calls others, so here it *)
(* is an operator from the state s before it to the state after it.  The   *)
(* state carries the two queues its requests pass: the API queue of the    *)
(* network worker, which NetWorker models, and the event loop that brings  *)
(* the replies back.  What is on disk is part of it too.                   *)
(*                                                                         *)
(* Abstracted: what a friend, a profile, a note or an image contains; the  *)
(* leaderboard's entries; the messages shown; the text of errors.          *)
(***************************************************************************)
EXTENDS Integers, Sequences, FiniteSets, SequencesExt

CONSTANTS
    Posts,          \* the sessions that can be posted; a post has its id
    NoPost,         \* not a post
    QueueCap,       \* API_QUEUE_CAPACITY
    MaxPending      \* MAX_PENDING_POSTS

ASSUME SocialAssumption ==
    /\ NoPost \notin Posts
    /\ QueueCap \in Nat \ {0}
    /\ MaxPending \in Nat \ {0}

Scopes == {"friends", "global"}
----------------------------------------------------------------------------
(* A row of a cached feed, and a post in the outbox.                       *)
Row(note, image, vote) == [note |-> note, image |-> image, vote |-> vote]
NoRow == Row(0, FALSE, -1)
NoRows == [p \in Posts |-> NoRow]
Pending(p, note) == [id |-> p, note |-> note]

(* The record of the account whose id is user, with the version of its     *)
(* profile; due when next_auto_sync_at has passed.                         *)
RecordOf(user, profile) ==
    [user |-> user, profile |-> profile, due |-> TRUE, outbox |-> <<>>,
     own |-> {}, squad |-> FALSE]
NoRecord == RecordOf(0, 0)

NoEdit == [post |-> NoPost, note |-> 0, image |-> "keep"]
NoDetails == [open |-> FALSE, loading |-> FALSE, action |-> "none"]

(* A controller as SocialController::new leaves it: disk holds the record, *)
(* credential the account the device is known as (0 for none).             *)
NewController(disk, credential) ==
    LET record == IF credential # 0 /\ disk.user = credential THEN disk ELSE NoRecord
        queued == [p \in Posts |->
            IF \E i \in DOMAIN record.outbox : record.outbox[i].id = p
            THEN Row(0, FALSE, 0) ELSE NoRow]
    IN  [phase |-> IF credential = 0 THEN "none" ELSE "existing",
         user |-> credential, record |-> record,
         restoring |-> credential # 0 /\ record = NoRecord,
         restoreFailed |-> FALSE, creating |-> FALSE,
         visible |-> FALSE, subtab |-> "feed", scope |-> "friends",
         syncing |-> FALSE, syncInProgress |-> FALSE, afterSync |-> <<>>,
         debounce |-> FALSE, viewing |-> "closed",
         \* feed
         feedScope |-> "friends", rows |-> [f \in Scopes |-> queued],
         loading |-> FALSE, saving |-> FALSE, editing |-> NoEdit,
         drafts |-> {}, commentSaving |-> NoPost,
         voteSeq |-> [p \in Posts |-> 0], nextSeq |-> 0,
         \* squad
         searching |-> FALSE, suggesting |-> FALSE, tried |-> FALSE,
         known |-> FALSE, found |-> FALSE, details |-> NoDetails,
         fresh |-> FALSE, chat |-> 0, confirm |-> "none",
         \* avatar and background
         avatar |-> "closed", uploading |-> FALSE, adminLoading |-> FALSE,
         noticeSending |-> FALSE, banner |-> FALSE, dismissed |-> FALSE,
         \* around the controller
         queue |-> <<>>, loop |-> <<>>,
         disk |-> disk, credential |-> credential, storeWorks |-> TRUE]

HasIdentity(s) == s.phase = "existing"
Active(s) == HasIdentity(s) /\ s.record # NoRecord
OutboxIds(s) == {s.record.outbox[i].id : i \in DOMAIN s.record.outbox}

(* FileSocialPort::persist: a failed save is only logged.                  *)
Persist(s) == IF s.storeWorks THEN [s EXCEPT !.disk = s.record] ELSE s

InFlight(s) == ToSet(s.queue) \cup {a.request : a \in ToSet(s.loop)}
Waiting(s, kind) == \E r \in InFlight(s) : r.kind = kind

Request(kind) == [kind |-> kind]
Answered(r, out, data) == [request |-> r, out |-> out, data |-> data]

(* send, and app_net's submit: a full queue answers "cancelled" at once,   *)
(* from the event loop.                                                    *)
Send(s, r) ==
    IF Len(s.queue) < QueueCap
        THEN [s EXCEPT !.queue = Append(@, r)]
        ELSE [s EXCEPT !.loop = Append(@, Answered(r, "cancelled", 0))]

SameRefreshInFlight(s, r) ==
    \/ r.kind = "presence" /\ Waiting(s, "presence")
    \/ r.kind = "status" /\ (Waiting(s, "status") \/ Waiting(s, "statusAfterSync"))
    \/ r.kind = "leaderboard" /\ r \in InFlight(s)

WithIdentity(s, r) ==
    IF HasIdentity(s) /\ ~SameRefreshInFlight(s, r) THEN Send(s, r) ELSE s

Presence(s) == IF Active(s) THEN WithIdentity(s, Request("presence")) ELSE s

RefreshStatus(s) == IF Active(s) THEN WithIdentity(s, Request("status")) ELSE s

\* slip: there is nothing to sync without posts
SyncPosts(s) ==
    IF ~Active(s) \/ s.syncInProgress \/ s.record.outbox = <<>> THEN s
    ELSE Send([s EXCEPT !.syncInProgress = TRUE, !.syncing = TRUE],
              [kind |-> "sync", user |-> s.user, profile |-> s.record.profile,
               sent |-> s.record.outbox])

(* A sync carries the whole profile and the outbox as they are now.        *)
Sync(s) ==
    IF ~Active(s) \/ s.syncInProgress THEN s
    ELSE Send([s EXCEPT !.syncInProgress = TRUE, !.syncing = TRUE],
              [kind |-> "sync", user |-> s.user, profile |-> s.record.profile,
               sent |-> s.record.outbox])

(* next_auto_sync_at moves on, in a record that is saved.                  *)
SyncedNow(s) ==
    Persist(IF s.record = NoRecord THEN s ELSE [s EXCEPT !.record.due = FALSE])

(* save_name, toggle_private, toggle_show_hours and avatar_saved: the      *)
(* profile is changed and saved, and a sync is asked for.                  *)
ChangeProfile(s) ==
    IF s.record = NoRecord THEN s
    ELSE Sync(Persist([s EXCEPT !.record.profile = @ + 1]))
============================================================================
