----------------------------- MODULE FeedServer -----------------------------
(***************************************************************************)
(* The feed and the friends of the Cloudflare Worker: one post of an       *)
(* author with its image and its poll of a single choice, a viewer, and    *)
(* the nightly job that expires images.  Each D1 statement and each call   *)
(* to R2 is one step; calls interleave between them, and one that fails    *)
(* ends its call, but for a delete in R2, whose failure is swallowed.      *)
(*                                                                         *)
(* The month's count of writes to R2 is shared: uploads of avatars and of  *)
(* drawings check it and add to it, and the purge of yesterday's drawings  *)
(* adds to it without a check.  Their own objects are not among these.     *)
(*                                                                         *)
(* Abstracted: text, comments (which are only ever inserted), the size of  *)
(* images and the storage total, authentication.  The reads a handler      *)
(* makes before its first write to decide who may see a post are one step. *)
(***************************************************************************)
EXTENDS Integers, FiniteSets

CONSTANTS
    Author, Viewer,
    Emoji, Options, \* of reactions and of the poll
    ImageLimit,     \* R2_CLASS_A_HARD_MONTHLY
    FeedSlots,      \* the calls the Worker can be handling at once
    MaxDrawings,    \* bound: the drawings the nightly jobs purge
    MaxFeedCalls,   \* bound: the calls made
    MaxFeedFaults   \* bound: steps that fail

ASSUME FeedAssumption ==
    /\ Author # Viewer /\ FeedSlots # {} /\ IsFiniteSet(FeedSlots)
    /\ ImageLimit \in Nat /\ MaxDrawings \in Nat /\ MaxFeedCalls \in Nat /\ MaxFeedFaults \in Nat

VARIABLES
    post,       \* the row of feed_posts with its author's is_private
    objects,    \* the keys R2 holds; a key is a number, 0 is none
    minted,     \* how many keys were made
    classA,     \* class_a_ops of the month
    votes,      \* feed_poll_votes
    reactions,  \* feed_reactions
    friends,    \* whether friendships has the pair
    asked,      \* the status of the friend request each user made
    feedCalls, feedMade, feedFaults,
    left,       \* ghost: the keys whose delete failed
    unchecked,  \* ghost: what the purge of drawings added to classA
    consenting, \* ghost: who asked for the friendship or accepted it
    crossed     \* ghost: the users who had two calls at once; "fault" if one failed

feedTables == <<post, objects, minted, classA, votes, reactions, friends, asked>>
feedGhosts == <<feedMade, feedFaults, left, unchecked, consenting, crossed>>
feedVars == <<feedTables, feedCalls, feedGhosts>>
----------------------------------------------------------------------------
Persons == {Author, Viewer}
Other(u) == IF u = Author THEN Viewer ELSE Author
NoPost == [exists |-> FALSE, private |-> FALSE, key |-> 0, aged |-> FALSE]

(* A call as it arrives: flag is the privacy of a sync or the answer to a  *)
(* request, choice the emoji or the option; key and cost are read later.   *)
FeedCall(op, user, flag, choice) ==
    [op |-> op, user |-> user, flag |-> flag, choice |-> choice, at |-> "read",
     key |-> 0, cost |-> 0, made |-> 0]

NoFeedCall == [op |-> "none", at |-> "idle", user |-> "nobody"]

FeedRequests ==
    {FeedCall("publish", Author, p, 0) : p \in BOOLEAN}
    \cup {FeedCall(op, Author, FALSE, 0) : op \in {"upload", "unimage", "remove"}}
    \cup {FeedCall("expire", "cron", FALSE, 0), FeedCall("elsewhere", "other", FALSE, 0)}
    \cup {FeedCall("vote", u, FALSE, o) : u \in Persons, o \in Options}
    \cup {FeedCall("react", u, FALSE, e) : u \in Persons, e \in Emoji}
    \cup {FeedCall("ask", u, FALSE, 0) : u \in Persons}
    \cup {FeedCall("respond", u, f, 0) : u \in Persons, f \in BOOLEAN}

FeedInit ==
    /\ post \in {NoPost, [NoPost EXCEPT !.exists = TRUE]}
    /\ objects = {} /\ minted = 0 /\ classA = 0
    /\ votes = {} /\ reactions = {}
    /\ friends = FALSE /\ asked = [u \in Persons |-> "none"]
    /\ feedCalls = [i \in FeedSlots |-> NoFeedCall]
    /\ feedMade = 0 /\ feedFaults = 0 /\ left = {} /\ unchecked = 0
    /\ consenting = {} /\ crossed = {}

FeedBusy == {i \in FeedSlots : feedCalls[i].at # "idle"}
FeedAt(i, op, place) == feedCalls[i].op = op /\ feedCalls[i].at = place
FeedGo(i, place) == feedCalls' = [feedCalls EXCEPT ![i].at = place]
FeedEnd(i) == feedCalls' = [feedCalls EXCEPT ![i] = NoFeedCall]
FeedNote(i, key, cost, place) ==
    feedCalls' = [feedCalls EXCEPT ![i].key = key, ![i].cost = cost, ![i].at = place]

(* The nightly job does not overlap itself.                                *)
FeedReceive(i, request) ==
    /\ feedCalls[i].at = "idle" /\ feedMade < MaxFeedCalls
    /\ request.op = "expire" => \A j \in FeedBusy : feedCalls[j].op # "expire"
    /\ feedCalls' = [feedCalls EXCEPT ![i] = request]
    /\ feedMade' = feedMade + 1
    /\ consenting' = IF request.op = "ask" \/ (request.op = "respond" /\ request.flag)
                        THEN consenting \cup {request.user} ELSE consenting
    /\ crossed' = IF \E j \in FeedBusy : feedCalls[j].user = request.user
                     THEN crossed \cup {request.user} ELSE crossed
    /\ UNCHANGED <<feedTables, feedFaults, left, unchecked>>
----------------------------------------------------------------------------
(* upsertUser and upsertFeedPosts of a sync: the post keeps its image.     *)
SyncUser(i) ==
    /\ FeedAt(i, "publish", "read")
    /\ post' = [post EXCEPT !.private = feedCalls[i].flag]
    /\ FeedGo(i, "write")
    /\ UNCHANGED <<objects, minted, classA, votes, reactions, friends, asked>>

UpsertPost(i) ==
    /\ FeedAt(i, "publish", "write")
    /\ post' = [post EXCEPT !.exists = TRUE]
    /\ FeedEnd(i)
    /\ UNCHANGED <<objects, minted, classA, votes, reactions, friends, asked>>

(* What a call on the image costs: a put, a delete, or both.               *)
ImageCost(op) == IF op = "upload" /\ post.key # 0 THEN 2 ELSE 1

(* getOwnedPostImage, and handleFeedDelete's own SELECT.                   *)
ReadImage(i) ==
    LET op == feedCalls[i].op IN
    /\ op \in {"upload", "unimage", "remove"} /\ feedCalls[i].at = "read"
    /\ IF ~post.exists THEN FeedEnd(i)
       ELSE FeedNote(i, post.key, ImageCost(op),
                     IF op = "upload" \/ post.key # 0 THEN "budget" ELSE "write")
    /\ UNCHANGED feedTables

(* slip: the check leaves out what the call itself will use                *)
WithinBudgetSoFar(cost) == classA <= ImageLimit

WithinBudget(cost) == classA + cost <= ImageLimit

AfterCheck(op) ==
    CASE op = "upload"    -> "put"
      [] op = "elsewhere" -> "count"
      [] OTHER            -> "drop"

(* assertR2ClassABudget                                                    *)
CheckBudget(i) ==
    LET c == feedCalls[i] IN
    /\ c.op \in {"upload", "unimage", "remove", "elsewhere"} /\ c.at = "budget"
    /\ IF WithinBudget(c.cost) THEN FeedGo(i, AfterCheck(c.op)) ELSE FeedEnd(i)
    /\ UNCHANGED feedTables

PutImage(i) ==
    /\ FeedAt(i, "upload", "put")
    /\ minted' = minted + 1
    /\ objects' = objects \cup {minted'}
    /\ feedCalls' = [feedCalls EXCEPT ![i].made = minted', ![i].at = "drop"]
    /\ UNCHANGED <<post, classA, votes, reactions, friends, asked>>

(* FEED_IMAGES.delete                                                      *)
DropImage(i) ==
    LET c == feedCalls[i] IN
    /\ c.op \in {"upload", "unimage", "remove", "expire"} /\ c.at = "drop"
    /\ objects' = objects \ {c.key}
    /\ FeedGo(i, "count")
    /\ UNCHANGED <<post, minted, classA, votes, reactions, friends, asked>>

(* It fails, .catch(() => undefined), and the call goes on as if it had not. *)
DropFails(i) ==
    LET c == feedCalls[i] IN
    /\ c.op \in {"upload", "unimage", "remove", "expire"} /\ c.at = "drop" /\ c.key # 0
    /\ feedFaults < MaxFeedFaults
    /\ feedFaults' = feedFaults + 1
    /\ left' = left \cup {c.key}
    /\ FeedGo(i, "count")
    /\ UNCHANGED <<feedTables, feedMade, unchecked, consenting, crossed>>

(* incrementR2Usage                                                        *)
CountUsage(i) ==
    LET c == feedCalls[i] IN
    /\ c.op \in {"upload", "unimage", "remove", "expire"} /\ c.at = "count"
    /\ classA' = classA + c.cost
    /\ FeedGo(i, "write")
    /\ UNCHANGED <<post, objects, minted, votes, reactions, friends, asked>>

StoreImage(i) ==
    LET c == feedCalls[i] IN
    /\ c.op \in {"upload", "unimage"} /\ c.at = "write"
    /\ post' = IF post.exists THEN [post EXCEPT !.key = c.made, !.aged = FALSE] ELSE post
    /\ FeedEnd(i)
    /\ UNCHANGED <<objects, minted, classA, votes, reactions, friends, asked>>

(* The rows that hang on the post go with it.                              *)
RemovePost(i) ==
    /\ FeedAt(i, "remove", "write")
    /\ post' = [NoPost EXCEPT !.private = post.private]
    /\ votes' = {} /\ reactions' = {}
    /\ FeedEnd(i)
    /\ UNCHANGED <<objects, minted, classA, friends, asked>>
----------------------------------------------------------------------------
(* uploadAvatarBytesToR2, which replaces an avatar or has none before it,  *)
(* and handleSkribblSubmit.                                                *)
SpendElsewhere(i) ==
    /\ FeedAt(i, "elsewhere", "read")
    /\ \E cost \in 1..2 : FeedNote(i, 0, cost, "budget")
    /\ UNCHANGED feedTables

CountElsewhere(i) ==
    /\ FeedAt(i, "elsewhere", "count")
    /\ classA' = classA + feedCalls[i].cost
    /\ FeedEnd(i)
    /\ UNCHANGED <<post, objects, minted, votes, reactions, friends, asked>>

(* purgeExpiredSkribblData, earlier in the same nightly job.               *)
PurgeDrawing(i) ==
    /\ FeedAt(i, "expire", "read") /\ unchecked < MaxDrawings
    /\ classA' = classA + 1 /\ unchecked' = unchecked + 1
    /\ UNCHANGED <<post, objects, minted, votes, reactions, friends, asked, feedCalls,
                   feedMade, feedFaults, left, consenting, crossed>>
----------------------------------------------------------------------------
(* scheduled: what is left of the month's budget, the rows that expired,   *)
(* and for each the object, the count and the row if its image is still it.*)
ImageAges ==
    /\ post.key # 0 /\ ~post.aged
    /\ post' = [post EXCEPT !.aged = TRUE]
    /\ UNCHANGED <<objects, minted, classA, votes, reactions, friends, asked,
                   feedCalls, feedGhosts>>

ExpireUsage(i) ==
    /\ FeedAt(i, "expire", "read")
    /\ IF classA < ImageLimit THEN FeedGo(i, "rows") ELSE FeedEnd(i)
    /\ UNCHANGED feedTables

ExpireRows(i) ==
    /\ FeedAt(i, "expire", "rows")
    /\ IF post.key # 0 /\ post.aged THEN FeedNote(i, post.key, 1, "drop") ELSE FeedEnd(i)
    /\ UNCHANGED feedTables

(* slip: UPDATE ... WHERE id = ?, whatever image the post has by now       *)
StillItsImageAlways(key) == TRUE

StillItsImage(key) == post.key = key

ExpireRow(i) ==
    /\ FeedAt(i, "expire", "write")
    /\ post' = IF StillItsImage(feedCalls[i].key)
                  THEN [post EXCEPT !.key = 0, !.aged = FALSE] ELSE post
    /\ FeedEnd(i)
    /\ UNCHANGED <<objects, minted, classA, votes, reactions, friends, asked>>
----------------------------------------------------------------------------
(* canViewFeedPost                                                         *)
CanView(u) == post.exists /\ (u = Author \/ ~post.private \/ friends)

ViewPost(i) ==
    LET c == feedCalls[i] IN
    /\ c.op \in {"vote", "react"} /\ c.at = "read"
    /\ IF CanView(c.user) THEN FeedGo(i, "existing") ELSE FeedEnd(i)
    /\ UNCHANGED feedTables

HasChosen(c) ==
    IF c.op = "vote" THEN <<c.user, c.choice>> \in votes
                     ELSE <<c.user, c.choice>> \in reactions

(* slip: the votes the user has are left when another option is chosen     *)
NextOfChoiceAtOnce(c) == IF HasChosen(c) THEN "delete" ELSE "insert"

NextOfChoice(c) ==
    IF HasChosen(c) THEN "delete" ELSE IF c.op = "vote" THEN "clear" ELSE "insert"

ReadChoice(i) ==
    LET c == feedCalls[i] IN
    /\ c.op \in {"vote", "react"} /\ c.at = "existing"
    /\ FeedGo(i, NextOfChoice(c))
    /\ UNCHANGED feedTables

ClearVotes(i) ==
    /\ FeedAt(i, "vote", "clear")
    /\ votes' = {v \in votes : v[1] # feedCalls[i].user}
    /\ FeedGo(i, "insert")
    /\ UNCHANGED <<post, objects, minted, classA, reactions, friends, asked>>

(* A row of a post that is gone is refused by its foreign key.             *)
WriteChoice(i) ==
    LET c == feedCalls[i]
        Written(rows) ==
            IF c.at = "delete" THEN rows \ {<<c.user, c.choice>>}
            ELSE IF post.exists THEN rows \cup {<<c.user, c.choice>>} ELSE rows
    IN  /\ c.op \in {"vote", "react"} /\ c.at \in {"delete", "insert"}
        /\ IF c.op = "vote" THEN votes' = Written(votes) /\ UNCHANGED reactions
                            ELSE reactions' = Written(reactions) /\ UNCHANGED votes
        /\ FeedEnd(i)
        /\ UNCHANGED <<post, objects, minted, classA, friends, asked>>
----------------------------------------------------------------------------
(* handleFriendRequest and handleFriendResponse                            *)
AskRead(i) ==
    /\ FeedAt(i, "ask", "read")
    /\ IF friends THEN FeedEnd(i) ELSE FeedGo(i, "reciprocal")
    /\ UNCHANGED feedTables

AskReciprocal(i) ==
    /\ FeedAt(i, "ask", "reciprocal")
    /\ FeedGo(i, IF asked[Other(feedCalls[i].user)] = "pending" THEN "accept" ELSE "write")
    /\ UNCHANGED feedTables

AskAccepts(i) ==
    /\ FeedAt(i, "ask", "accept")
    /\ asked' = [asked EXCEPT ![Other(feedCalls[i].user)] = "accepted"]
    /\ friends' = TRUE
    /\ FeedEnd(i)
    /\ UNCHANGED <<post, objects, minted, classA, votes, reactions>>

AskPends(i) ==
    /\ FeedAt(i, "ask", "write")
    /\ asked' = [asked EXCEPT ![feedCalls[i].user] = "pending"]
    /\ FeedEnd(i)
    /\ UNCHANGED <<post, objects, minted, classA, votes, reactions, friends>>

(* slip: the request is looked up by its id alone                          *)
AnswerableByAnyone(c, from) == asked[from] = "pending"

AnswerableRequest(c, from) == asked[from] = "pending" /\ from = Other(c.user)

(* The id in the body may be that of either user's request.                *)
RespondRead(i) ==
    /\ FeedAt(i, "respond", "read")
    /\ \/ \E from \in Persons :
             /\ AnswerableRequest(feedCalls[i], from)
             /\ feedCalls' = [feedCalls EXCEPT ![i].choice = from, ![i].at = "write"]
       \/ (\A from \in Persons : ~AnswerableRequest(feedCalls[i], from)) /\ FeedEnd(i)
    /\ UNCHANGED feedTables

RespondWrites(i) ==
    LET c == feedCalls[i] IN
    /\ FeedAt(i, "respond", "write")
    /\ asked' = [asked EXCEPT ![c.choice] = IF c.flag THEN "accepted" ELSE "declined"]
    /\ IF c.flag THEN FeedGo(i, "befriend") ELSE FeedEnd(i)
    /\ UNCHANGED <<post, objects, minted, classA, votes, reactions, friends>>

RespondBefriends(i) ==
    /\ FeedAt(i, "respond", "befriend")
    /\ friends' = TRUE
    /\ FeedEnd(i)
    /\ UNCHANGED <<post, objects, minted, classA, votes, reactions, asked>>
----------------------------------------------------------------------------
FeedFault(i) ==
    /\ feedCalls[i].at # "idle" /\ feedFaults < MaxFeedFaults
    /\ feedFaults' = feedFaults + 1
    /\ crossed' = crossed \cup {"fault"}
    /\ FeedEnd(i)
    /\ UNCHANGED <<feedTables, feedMade, left, unchecked, consenting>>

FeedStep(i) ==
    \/ SyncUser(i) \/ UpsertPost(i) \/ RemovePost(i)
    \/ ReadImage(i) \/ CheckBudget(i) \/ PutImage(i) \/ DropImage(i)
    \/ CountUsage(i) \/ StoreImage(i) \/ SpendElsewhere(i) \/ CountElsewhere(i)
    \/ ExpireUsage(i) \/ ExpireRows(i) \/ ExpireRow(i)
    \/ ViewPost(i) \/ ReadChoice(i) \/ ClearVotes(i) \/ WriteChoice(i)
    \/ AskRead(i) \/ AskReciprocal(i) \/ AskAccepts(i) \/ AskPends(i)
    \/ RespondRead(i) \/ RespondWrites(i) \/ RespondBefriends(i)

FeedNext ==
    \/ \E i \in FeedSlots :
          \/ \E request \in FeedRequests : FeedReceive(i, request)
          \/ FeedStep(i) /\ UNCHANGED feedGhosts
          \/ FeedFault(i) \/ DropFails(i) \/ PurgeDrawing(i)
    \/ ImageAges

FeedSpec == FeedInit /\ [][FeedNext]_feedVars
----------------------------------------------------------------------------
(* Type of every variable.                                                 *)
FeedTypeOK ==
    /\ post \in [exists : BOOLEAN, private : BOOLEAN, key : 0..minted, aged : BOOLEAN]
    /\ objects \subseteq 1..minted /\ left \subseteq 1..minted /\ unchecked \in Nat
    /\ minted \in Nat /\ classA \in Nat
    /\ votes \subseteq Persons \X Options /\ reactions \subseteq Persons \X Emoji
    /\ friends \in BOOLEAN
    /\ asked \in [Persons -> {"none", "pending", "accepted", "declined"}]

(* However the expiry of images interleaves with an author who replaces,   *)
(* removes or deletes, and whichever deletes fail: once all is quiet R2    *)
(* holds the image the post shows and no other but those whose delete      *)
(* failed, as long as the author's own calls did not overlap.              *)
ImagesMatch ==
    FeedBusy = {} /\ crossed \cap {Author, "fault"} = {}
        => objects \ left = {post.key} \ {0}

(* The writes to R2 stay within the month's limit but for what the purge   *)
(* of drawings adds, which no check stops, and calls at once go past it by *)
(* no more than what they themselves need.                                 *)
BudgetKept ==
    classA <= ImageLimit + 2 * (Cardinality(FeedSlots) - 1) + unchecked

(* In a poll of one choice a user has one vote at most, also when a step   *)
(* fails, unless two votes of that same user were handled at once.         *)
OneChoice ==
    \A u \in Persons \ crossed : Cardinality({v \in votes : v[1] = u}) <= 1

(* Two users are friends only if each asked for it or accepted it.         *)
ConsentedFriends == friends => consenting = Persons

(* The four together.                                                      *)
FeedKept == ImagesMatch /\ BudgetKept /\ OneChoice /\ ConsentedFriends
=============================================================================
