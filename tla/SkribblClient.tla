----------------------------- MODULE SkribblClient -----------------------------
(* Daily Skribbl in the native application: the modal's state machine            *)
(* (break_room/skribbl/mod.rs), the controller that turns its effects into       *)
(* requests and applies the replies (skribbl_controller.rs), and the bounded     *)
(* cache of thumbnails (image_cache.rs).  The controller waits for nothing: a    *)
(* request is on the wire until the server handles it and the reply is read,     *)
(* and closing the modal forgets its requests but cannot call them back.  What   *)
(* is drawn and the lightbox are not modelled; a drawing is its image URL.       *)
EXTENDS Integers, Sequences, FiniteSets, SequencesExt

CONSTANTS
    Drawings,       \* the drawings of the others, one page each
    Mine,           \* the user's own
    ThumbCapacity,  \* THUMB_CACHE
    MaxRequests     \* bound on the requests of a behaviour

VARIABLES
    session,   \* the open modal, or NoSession
    pending,   \* tokens of the requests an answer is expected for
    wire,      \* requests sent and not answered yet, and what the server made of them
    thumbs,    \* the cached thumbnails, least recently used first
    sent,      \* requests so far: the next token
    cast,      \* the user's vote on each drawing as the server has it
    crossed    \* history: what has happened that the modal does not survive

clientVars == <<session, pending, wire, thumbs, sent, cast, crossed>>

NoSession == [phase |-> "closed"]
OpenRoom == session.phase # "closed"

Opened ==
    [phase |-> "loading", submitted |-> FALSE, own |-> FALSE,
     error |-> FALSE, clock |-> "off", submitting |-> FALSE, gallery |-> <<>>,
     votes |-> [d \in Drawings |-> 0], scores |-> [d \in Drawings |-> 0],
     before |-> [d \in Drawings |-> 0], latest |-> [d \in Drawings |-> 0],
     loading |-> FALSE, offset |-> 0, more |-> FALSE, winner |-> FALSE]

-------------------------------------------------------------------------------

(* ImageCache::want: a URL already known becomes the most recently used one; a   *)
(* new one takes the place of the least recently used that are not loading, or   *)
(* overshoots the capacity while there are too few of these.                     *)
Settled(cache) == {i \in DOMAIN cache : cache[i].state # "loading"}

MakeRoom(cache) ==
    LET Older(i) == {j \in Settled(cache) : j < i}
        victims == {cache[i] : i \in {j \in Settled(cache) :
                        Cardinality(Older(j)) <= Len(cache) - ThumbCapacity}}
    IN  SelectSeq(cache, LAMBDA e : e \notin victims)

Known(cache, url) == \E i \in DOMAIN cache : cache[i].url = url
Entry(cache, url) == CHOOSE i \in DOMAIN cache : cache[i].url = url

Want(cache, url) ==
    IF Known(cache, url)
    THEN Append(RemoveAt(cache, Entry(cache, url)), cache[Entry(cache, url)])
    ELSE Append(MakeRoom(cache), [url |-> url, state |-> "loading"])

(* loaded and failed change an entry that is still there; forget drops one that  *)
(* is still loading.                                                             *)
Mark(cache, url, state) ==
    [i \in DOMAIN cache |-> IF cache[i].url = url THEN [url |-> url, state |-> state]
                            ELSE cache[i]]

ForgetAll(cache, urls) ==
    SelectSeq(cache, LAMBDA e : ~(e.url \in urls /\ e.state = "loading"))

(* request_images after every batch of effects: the own drawing first, then the  *)
(* rows of the gallery; one request for each that was not known.                 *)
Shown(s) == (IF s.own THEN <<Mine>> ELSE <<>>) \o s.gallery

Request(kind) == [kind |-> kind, drawing |-> Mine, offset |-> 0, vote |-> 0, seq |-> 0]

WantAll(cache, urls) ==
    FoldLeft(LAMBDA acc, url :
                [cache |-> Want(acc.cache, url),
                 fetch |-> IF Known(acc.cache, url) THEN acc.fetch
                           ELSE Append(acc.fetch, [Request("thumb") EXCEPT !.drawing = url])],
             [cache |-> cache, fetch |-> <<>>], urls)

(* run_effects: the requests of the new state s, each under a token of its own.  *)
RunEffects(s, cache, keep, requests) ==
    LET images == WantAll(cache, Shown(s))
        all == requests \o images.fetch
        tagged == {[request |-> all[i], token |-> sent + i, answer |-> "none", score |-> 0,
                    page |-> <<>>, rows |-> cast] : i \in DOMAIN all}
    IN /\ sent + Len(all) <= MaxRequests
       /\ session' = s
       /\ thumbs' = images.cache
       /\ wire' = keep \cup tagged
       /\ pending' = (pending \cap {m.token : m \in keep}) \cup {m.token : m \in tagged}
       /\ sent' = sent + Len(all)

Waiting(kind) == {m \in wire : m.token \in pending /\ m.request.kind = kind}

(* load_gallery is ignored while a page is on its way.                           *)
LoadGallery(s) == [s EXCEPT !.loading = TRUE]
Page(s, offset) ==
    IF s.loading THEN <<>> ELSE <<[Request("gallery") EXCEPT !.offset = offset]>>

ClientInit ==
    /\ session = NoSession
    /\ pending = {}
    /\ wire = {}
    /\ thumbs = <<>>
    /\ sent = 0
    /\ cast = [d \in Drawings |-> 0]
    /\ crossed = {}

-------------------------------------------------------------------------------

(* open and close: everything in flight is cancelled, thumbnails that were       *)
(* loading can be asked for again, and the drawing is gone.  Failed thumbnails   *)
(* get another chance at the next opening.                                       *)
\* slip: the thumbnails that were loading stay in the cache as they are
LeftNothing == {}

LeftLoading == {m.request.drawing : m \in Waiting("thumb")}

OpenModal ==
    /\ ~OpenRoom
    /\ LET kept == SelectSeq(thumbs, LAMBDA e : e.state # "failed")
       IN RunEffects(Opened, kept, wire, <<Request("theme")>>)
    /\ crossed' = {}
    /\ UNCHANGED cast

CloseModal ==
    /\ OpenRoom
    /\ session' = NoSession
    /\ pending' = {}
    /\ thumbs' = ForgetAll(thumbs, LeftLoading)
    /\ UNCHANGED <<wire, sent, cast, crossed>>

(* "Try again" stands beside every error and reloads the theme.                  *)
TryAgain ==
    /\ OpenRoom /\ session.error
    /\ RunEffects([session EXCEPT !.error = FALSE], thumbs, wire, <<Request("theme")>>)
    /\ crossed' = crossed \cup {"retry"}
    /\ UNCHANGED cast

StartDrawing ==
    /\ OpenRoom /\ session.phase = "intro" /\ ~session.submitted
    /\ session' = [session EXCEPT !.phase = "drawing", !.error = FALSE,
                                  !.clock = "running"]
    /\ UNCHANGED <<pending, wire, thumbs, sent, cast, crossed>>

(* submitNow: not while a submission is running; a picture over the limit is     *)
(* refused before anything is sent.                                              *)
HandIn(s) ==
    \/ s.submitting /\ RunEffects(s, thumbs, wire, <<>>)
    \/ /\ ~s.submitting
       /\ RunEffects([s EXCEPT !.submitting = TRUE, !.error = FALSE,
                               !.phase = "submitting"],
                     thumbs, wire, <<Request("submit")>>)
    \/ /\ ~s.submitting
       /\ RunEffects([s EXCEPT !.error = TRUE], thumbs, wire, <<>>)

Submit ==
    /\ OpenRoom /\ session.phase = "drawing"
    /\ HandIn(session)
    /\ UNCHANGED <<cast, crossed>>

(* tick: at the deadline, one submission by itself.                              *)
TimeIsUp ==
    /\ OpenRoom /\ session.phase = "drawing" /\ session.clock = "running"
    /\ HandIn([session EXCEPT !.clock = "expired"])
    /\ UNCHANGED <<cast, crossed>>

(* "Refresh" and "Load more", which the gallery offers once the drawing is in.   *)
MoreGallery ==
    /\ OpenRoom /\ session.submitted /\ ~session.loading
    /\ \E offset \in {0} \cup (IF session.more THEN {session.offset} ELSE {}) :
         RunEffects(LoadGallery(session), thumbs, wire, Page(session, offset))
    /\ UNCHANGED <<cast, crossed>>

(* cast_vote: optimistic; what a failure brings back is the row before the first *)
(* vote that is still unanswered.                                                *)
CastVote ==
    /\ OpenRoom /\ session.submitted
    /\ \E d \in Range(session.gallery), v \in {-1, 1} :
         LET was == session.votes[d]
             now == IF was = v THEN 0 ELSE v
             seq == sent + 1
         IN RunEffects(
              [session EXCEPT !.votes[d] = now,
                              !.scores[d] = @ - was + now,
                              !.before[d] = IF session.latest[d] = 0 THEN was ELSE @,
                              !.latest[d] = seq],
              thumbs, wire,
              <<[Request("vote") EXCEPT !.drawing = d, !.vote = now, !.seq = seq]>>)
    /\ crossed' = IF Waiting("gallery") = {} THEN crossed ELSE crossed \cup {"page"}
    /\ UNCHANGED cast

-------------------------------------------------------------------------------

(* The server handles a request, in any order, or the request fails.  The order  *)
(* of the gallery changes with the votes, so pages may overlap.                  *)
Serve ==
    \E m \in wire :
      /\ m.answer = "none"
      /\ \E answer \in {"ok", "failed"} :
           IF answer = "ok" /\ m.request.kind = "vote"
           THEN /\ cast' = [cast EXCEPT ![m.request.drawing] = m.request.vote]
                /\ wire' = (wire \ {m}) \cup {[m EXCEPT !.answer = answer,
                                                        !.score = m.request.vote]}
           ELSE /\ \E page \in IF answer = "ok" /\ m.request.kind = "gallery"
                               THEN {<<d>> : d \in Drawings} ELSE {<<>>} :
                     wire' = (wire \ {m}) \cup {[m EXCEPT !.answer = answer, !.page = page,
                                                          !.rows = cast]}
                /\ UNCHANGED cast
      /\ UNCHANGED <<session, pending, thumbs, sent, crossed>>

Submitted(s) ==
    [s EXCEPT !.submitting = FALSE, !.submitted = TRUE, !.own = TRUE,
              !.phase = "submitted", !.clock = "off", !.loading = TRUE]

(* theme_loaded shows the introduction, whatever was shown; a drawing already    *)
(* handed in also loads the gallery, and the first theme asks for the winner.    *)
ThemeLoaded(s, isIn) ==
    [s EXCEPT !.phase = "intro", !.submitted = isIn, !.own = isIn,
              !.loading = @ \/ isIn, !.winner = TRUE]

ThemeEffects(s, isIn) ==
    (IF isIn THEN Page(s, 0) ELSE <<>>) \o
    (IF s.winner THEN <<>> ELSE <<Request("winner")>>)

WithPage(s, m) ==
    LET first == m.request.offset = 0
        fresh == SelectSeq(m.page, LAMBDA d : d \notin Range(s.gallery))
        rows == IF first THEN m.page ELSE s.gallery \o fresh
        taken == IF first THEN Range(m.page) ELSE Range(fresh)
        Row(old) == [d \in Drawings |-> IF d \in taken THEN m.rows[d] ELSE old[d]]
    IN [s EXCEPT !.loading = FALSE, !.gallery = rows,
                 !.votes = Row(s.votes), !.scores = Row(s.scores),
                 !.more = Len(rows) < Cardinality(Drawings),
                 !.offset = m.request.offset + 1]

(* on_reply.  A token that is not expected any more changes nothing.             *)
Stale(m) ==
    /\ m.token \notin pending
    /\ wire' = wire \ {m}
    /\ UNCHANGED <<session, pending, thumbs, sent, cast, crossed>>

OnTheme(m) ==
    \E isIn \in {FALSE} \cup (IF m.answer = "ok" THEN {TRUE} ELSE {}) :
      /\ IF m.answer = "ok"
         THEN RunEffects(ThemeLoaded(session, isIn), thumbs, wire \ {m},
                         ThemeEffects(session, isIn))
         ELSE RunEffects([session EXCEPT !.phase = "intro", !.submitted = FALSE,
                                         !.error = TRUE],
                         thumbs, wire \ {m}, <<>>)
      /\ UNCHANGED crossed

OnGallery(m) ==
    /\ RunEffects(IF m.answer = "ok" THEN WithPage(session, m)
                  ELSE [session EXCEPT !.loading = FALSE], thumbs, wire \ {m}, <<>>)
    /\ crossed' = IF \E d \in Drawings : session.latest[d] # 0
                  THEN crossed \cup {"page"} ELSE crossed

(* submit_succeeded and submit_failed act only while the modal shows that it is  *)
(* submitting.                                                                   *)
OnSubmit(m) ==
    /\ IF session.phase # "submitting" THEN RunEffects(session, thumbs, wire \ {m}, <<>>)
       ELSE IF m.answer = "ok"
       THEN RunEffects(Submitted(session), thumbs, wire \ {m}, Page(session, 0))
       ELSE RunEffects([session EXCEPT !.submitting = FALSE, !.error = TRUE,
                                       !.phase = "drawing"], thumbs, wire \ {m}, <<>>)
    /\ UNCHANGED crossed

(* vote_succeeded and vote_failed: only the last vote on a drawing counts.       *)
OnVote(m) ==
    LET d == m.request.drawing
        done == [session EXCEPT !.latest[d] = 0]
        listed == d \in Range(session.gallery)
    IN /\ RunEffects(
            IF session.latest[d] # m.request.seq THEN session
            ELSE IF m.answer = "ok"
            THEN IF listed THEN [done EXCEPT !.scores[d] = m.score] ELSE done
            ELSE IF listed
            THEN [done EXCEPT !.votes[d] = session.before[d],
                              !.scores[d] = session.before[d], !.error = TRUE]
            ELSE [done EXCEPT !.error = TRUE],
            thumbs, wire \ {m}, <<>>)
       /\ UNCHANGED crossed

OnOther(m) ==
    /\ RunEffects(session,
                  IF m.request.kind = "thumb"
                  THEN Mark(thumbs, m.request.drawing,
                            IF m.answer = "ok" THEN "ready" ELSE "failed")
                  ELSE thumbs,
                  wire \ {m}, <<>>)
    /\ UNCHANGED crossed

Reply ==
    \E m \in wire :
      /\ m.answer # "none"
      /\ \/ Stale(m)
         \/ /\ m.token \in pending
            /\ CASE m.request.kind = "theme" -> OnTheme(m)
                 [] m.request.kind = "gallery" -> OnGallery(m)
                 [] m.request.kind = "submit" -> OnSubmit(m)
                 [] m.request.kind = "vote" -> OnVote(m)
                 [] OTHER -> OnOther(m)
            /\ UNCHANGED cast

(* A request that is never sent is answered with Cancelled: the network worker   *)
(* refuses what does not fit its queue, and drops the oldest image for a newer   *)
(* one.  A thumbnail can be asked for again; everything else is left as it was,  *)
(* as if the answer were still to come.                                          *)
Cancelled ==
    \E m \in wire :
      /\ m.answer = "none"
      /\ m.token \in pending
      /\ wire' = wire \ {m}
      /\ pending' = pending \ {m.token}
      /\ thumbs' = IF m.request.kind = "thumb" THEN ForgetAll(thumbs, {m.request.drawing})
                   ELSE thumbs
      /\ crossed' = crossed \cup ({m.request.kind} \cap {"theme", "gallery", "submit"})
      /\ UNCHANGED <<session, sent, cast>>

ClientNext ==
    \/ OpenModal \/ CloseModal \/ TryAgain
    \/ StartDrawing \/ Submit \/ TimeIsUp
    \/ MoreGallery \/ CastVote
    \/ Serve \/ Reply \/ Cancelled

ClientSpec == ClientInit /\ [][ClientNext]_clientVars

-------------------------------------------------------------------------------

(* Everything that shows as under way is: the theme, a page of the gallery, a    *)
(* thumbnail and a submission that are shown as loading have a request whose     *)
(* answer is still expected, through closings, evictions, refused thumbnails and *)
(* replies of an earlier opening; the drawing is handed in at most once at a     *)
(* time and a failed upload keeps it.  A gallery shows no drawing twice, and the *)
(* score beside a drawing counts the vote shown on it, votes taken back          *)
(* included.  Three things it does not survive: a theme, a page or a submission  *)
(* that the network worker refuses, which on_reply forgets without telling the   *)
(* session, so that the modal shows it as under way until it is closed; "Try     *)
(* again" pressed before or during a drawing, whose answer returns the modal to  *)
(* its introduction; and a page of the gallery that crosses a vote.              *)
ModalSettles ==
    OpenRoom =>
        /\ session.phase = "loading" => Waiting("theme") # {} \/ "theme" \in crossed
        /\ session.loading => Waiting("gallery") # {} \/ "gallery" \in crossed
        /\ Waiting("gallery") # {} => session.loading
        /\ \A i \in DOMAIN thumbs : thumbs[i].state = "loading" =>
              \E m \in Waiting("thumb") : m.request.drawing = thumbs[i].url
        /\ Cardinality(Waiting("submit")) <= 1
        /\ session.submitting =>
              Waiting("submit") # {} \/ crossed \cap {"submit", "retry"} # {}
        /\ "retry" \notin crossed =>
              session.submitting <=> session.phase = "submitting"
        /\ IsInjective(session.gallery)
        /\ "page" \notin crossed =>
              \A d \in Range(session.gallery) : session.scores[d] = session.votes[d]
===============================================================================
