--------------------------- MODULE SkribblServer ---------------------------
(***************************************************************************)
(* Skribbl on the Cloudflare Worker: the theme of the day, drawings, votes *)
(* and the nightly purge that records the winner of the day before, each   *)
(* statement a step, with midnight between any two of them.                *)
(*                                                                         *)
(* Abstracted: the image itself, the budget of R2 (FeedServer has it), the *)
(* pages of the gallery, and the time of a drawing: the order of the rows. *)
(***************************************************************************)
EXTENDS Integers, Sequences, FiniteSets

CONSTANTS
    Players, Themes,
    NoTheme,          \* not a theme
    NoPlayer,         \* not a player
    LastDay,          \* bound: the last day
    SkribblSlots,     \* the calls the Worker can be handling at once
    MaxSkribblCalls,  \* bound: the calls made
    MaxSkribblFaults  \* bound: steps that fail

ASSUME SkribblAssumption ==
    /\ NoTheme \notin Themes /\ NoPlayer \notin Players
    /\ LastDay \in Nat /\ MaxSkribblCalls \in Nat /\ MaxSkribblFaults \in Nat

VARIABLES
    today,      \* todayIso
    lastUsed,   \* skribbl_themes.last_used_date; -1 is NULL
    themeOf,    \* skribbl_daily_themes
    drawings,   \* skribbl_drawings in the order they were made
    drawn,      \* the keys R2 holds: drawings/<date>/<user>
    ballots,    \* skribbl_votes
    winners,    \* skribbl_daily_winners
    roomCalls, roomMade, roomFaults,
    told,       \* ghost: the theme each call answered or drew to, by its day
    outcome,    \* ghost: who had won when the day ended
    spanned     \* ghost: the days whose midnight passed during a call

roomTables == <<lastUsed, themeOf, drawings, drawn, ballots, winners>>
roomGhosts == <<today, roomMade, roomFaults, told, outcome, spanned>>
roomVars == <<roomTables, roomCalls, roomGhosts>>
----------------------------------------------------------------------------
Dates == 0..LastDay
Drawing(user, date) == [user |-> user, date |-> date]
RowsOf(date) == {k \in DOMAIN drawings : drawings[k].date = date}
HasDrawn(user, date) == \E k \in RowsOf(date) : drawings[k].user = user

Score(drawing) ==
    Cardinality({b \in ballots : b.drawing = drawing /\ b.vote = 1})
    - Cardinality({b \in ballots : b.drawing = drawing /\ b.vote = -1})

(* getSkribblWinnerForDate: the highest score, then the oldest row.        *)
Entries(date) ==
    [k \in RowsOf(date) |-> [user |-> drawings[k].user, score |-> Score(drawings[k])]]

Ahead(entries, k, n) ==
    \/ entries[k].score > entries[n].score
    \/ entries[k].score = entries[n].score /\ k < n

Leading(entries) ==
    {k \in DOMAIN entries : \A n \in DOMAIN entries \ {k} : Ahead(entries, k, n)}

WinnerOf(entries) ==
    IF Leading(entries) = {} THEN NoPlayer
    ELSE entries[CHOOSE k \in Leading(entries) : TRUE].user

WinnerFor(date) == WinnerOf(Entries(date))

(* A call as it arrives, with the day it read the clock on.                *)
RoomCall(op, user, owner, vote, at) ==
    [op |-> op, user |-> user, owner |-> owner, vote |-> vote, at |-> at,
     date |-> today, pick |-> NoTheme]

NoRoomCall == [op |-> "none", at |-> "idle"]

RoomRequests ==
    {RoomCall("theme", u, u, 0, "theme") : u \in Players}
    \cup {RoomCall("submit", u, u, 0, "existing") : u \in Players}
    \cup {RoomCall("vote", u, v, n, "drawing") : u \in Players, v \in Players, n \in {-1, 0, 1}}
    \cup {RoomCall("purge", NoPlayer, NoPlayer, 0, "winner")}

(* A day in its course: with its theme told, or not yet, and some drawings. *)
RoomStart(theme, authors) ==
    /\ today = 0
    /\ lastUsed = [t \in Themes |-> IF t = theme THEN 0 ELSE -1]
    /\ themeOf = [d \in Dates |-> IF d = 0 THEN theme ELSE NoTheme]
    /\ told = {<<0, t>> : t \in {theme} \ {NoTheme}}
    /\ drawn = {Drawing(u, 0) : u \in authors}
    /\ drawings \in {s \in [1..Cardinality(authors) -> drawn] :
                        {s[k] : k \in DOMAIN s} = drawn}
    /\ ballots = {}
    /\ winners = [d \in Dates |-> NoPlayer]
    /\ roomCalls = [i \in SkribblSlots |-> NoRoomCall]
    /\ roomMade = 0 /\ roomFaults = 0
    /\ spanned = {}
    /\ outcome = [d \in Dates |-> NoPlayer]

RoomInit == RoomStart(NoTheme, {})

RoomBusy == {i \in SkribblSlots : roomCalls[i].at # "idle"}
RoomAt(i, op, place) == roomCalls[i].op = op /\ roomCalls[i].at = place
RoomGo(i, place) == roomCalls' = [roomCalls EXCEPT ![i].at = place]
RoomEnd(i) == roomCalls' = [roomCalls EXCEPT ![i] = NoRoomCall]

(* A drawing is voted on by its id: it must have been there to be seen.    *)
RoomReceive(i, request) ==
    /\ roomCalls[i].at = "idle" /\ roomMade < MaxSkribblCalls
    /\ request.op = "vote" => \E k \in DOMAIN drawings : drawings[k].user = request.owner
    /\ request.op = "purge" =>
          today > 0 /\ \A j \in RoomBusy : roomCalls[j].op # "purge"
    /\ roomCalls' = [roomCalls EXCEPT ![i] = request]
    /\ roomMade' = roomMade + 1
    /\ UNCHANGED <<roomTables, today, roomFaults, told, outcome, spanned>>

Midnight ==
    /\ today < LastDay
    /\ today' = today + 1
    /\ outcome' = [outcome EXCEPT ![today] = WinnerFor(today)]
    /\ spanned' = IF RoomBusy = {} THEN spanned ELSE spanned \cup {today}
    /\ UNCHANGED <<roomTables, roomCalls, roomMade, roomFaults, told>>
----------------------------------------------------------------------------
(* ensureTodayTheme, of theme and submit: the day's row, or a theme that   *)
(* was used on neither of the last two days, marked, pinned and read back. *)
InTheme(i) == roomCalls[i].op \in {"theme", "submit"}

Answers(i, theme) ==
    /\ told' = told \cup {<<roomCalls[i].date, theme>>}
    /\ IF roomCalls[i].op = "theme" THEN RoomEnd(i) ELSE RoomGo(i, "put")

ReadTheme(i) ==
    /\ InTheme(i) /\ roomCalls[i].at = "theme"
    /\ IF themeOf[today] = NoTheme
          THEN /\ roomCalls' = [roomCalls EXCEPT ![i].at = "pool", ![i].date = today]
               /\ UNCHANGED told
          ELSE /\ told' = told \cup {<<today, themeOf[today]>>}
               /\ IF roomCalls[i].op = "theme" THEN RoomEnd(i) ELSE RoomGo(i, "put")
    /\ UNCHANGED <<roomTables, today, roomMade, roomFaults, outcome, spanned>>

PickTheme(i) ==
    LET d == roomCalls[i].date
        rested == {t \in Themes : lastUsed[t] \notin {d - 1, d} \/ lastUsed[t] = -1}
    IN  /\ InTheme(i) /\ roomCalls[i].at = "pool"
        /\ \E t \in IF rested = {} THEN Themes ELSE rested :
              roomCalls' = [roomCalls EXCEPT ![i].pick = t, ![i].at = "mark"]
        /\ UNCHANGED <<roomTables, roomGhosts>>

MarkTheme(i) ==
    /\ InTheme(i) /\ roomCalls[i].at = "mark"
    /\ lastUsed' = [lastUsed EXCEPT ![roomCalls[i].pick] = roomCalls[i].date]
    /\ RoomGo(i, "pin")
    /\ UNCHANGED <<themeOf, drawings, drawn, ballots, winners, roomGhosts>>

(* INSERT OR IGNORE                                                        *)
PinTheme(i) ==
    LET d == roomCalls[i].date IN
    /\ InTheme(i) /\ roomCalls[i].at = "pin"
    /\ themeOf' = IF themeOf[d] = NoTheme THEN [themeOf EXCEPT ![d] = roomCalls[i].pick]
                                          ELSE themeOf
    /\ RoomGo(i, "reread")
    /\ UNCHANGED <<lastUsed, drawings, drawn, ballots, winners, roomGhosts>>

\* slip: the call answers what it picked, whatever was pinned
ThemePicked(c) == c.pick

ThemeReadBack(c) == IF themeOf[c.date] = NoTheme THEN c.pick ELSE themeOf[c.date]

RereadTheme(i) ==
    /\ InTheme(i) /\ roomCalls[i].at = "reread"
    /\ Answers(i, ThemeReadBack(roomCalls[i]))
    /\ UNCHANGED <<roomTables, today, roomMade, roomFaults, outcome, spanned>>
----------------------------------------------------------------------------
(* handleSkribblSubmit around the theme: the key is of the day and user,   *)
(* and the row is refused if they have one already.                        *)
SubmitExisting(i) ==
    LET c == roomCalls[i] IN
    /\ RoomAt(i, "submit", "existing")
    /\ IF HasDrawn(c.user, c.date) THEN RoomEnd(i)
       ELSE roomCalls' = [roomCalls EXCEPT ![i].at = "theme", ![i].owner = c.date]
    /\ UNCHANGED <<roomTables, roomGhosts>>

SubmitPut(i) ==
    LET c == roomCalls[i] IN
    /\ RoomAt(i, "submit", "put")
    /\ drawn' = drawn \cup {Drawing(c.user, c.owner)}
    /\ RoomGo(i, "insert")
    /\ UNCHANGED <<lastUsed, themeOf, drawings, ballots, winners, roomGhosts>>

SubmitInsert(i) ==
    LET c == roomCalls[i] IN
    /\ RoomAt(i, "submit", "insert")
    /\ drawings' = IF HasDrawn(c.user, c.owner) THEN drawings
                   ELSE Append(drawings, Drawing(c.user, c.owner))
    /\ RoomEnd(i)
    /\ UNCHANGED <<lastUsed, themeOf, drawn, ballots, winners, roomGhosts>>

\* slip: yesterday's drawings can still be voted on
VotingAlwaysOpen(row) == TRUE

VotingOpen(row) == row.date = today

(* handleSkribblVote: the drawing is found, is not one's own and is of     *)
(* today; a vote for a row that went meanwhile is refused.                 *)
VoteDrawing(i) ==
    LET c == roomCalls[i] IN
    /\ RoomAt(i, "vote", "drawing")
    /\ \/ \E k \in DOMAIN drawings :
             /\ drawings[k].user = c.owner /\ c.owner # c.user
             /\ VotingOpen(drawings[k])
             /\ roomCalls' = [roomCalls EXCEPT ![i].at = "vote", ![i].date = drawings[k].date]
       \/ RoomEnd(i)
    /\ UNCHANGED <<roomTables, roomGhosts>>

VoteWrite(i) ==
    LET c == roomCalls[i]
        row == Drawing(c.owner, c.date)
        others == {b \in ballots : ~(b.drawing = row /\ b.user = c.user)}
    IN  /\ RoomAt(i, "vote", "vote")
        /\ ballots' = IF c.vote = 0 THEN others
                      ELSE IF ~HasDrawn(c.owner, c.date) THEN ballots
                      ELSE others \cup {[drawing |-> row, user |-> c.user, vote |-> c.vote]}
        /\ RoomEnd(i)
        /\ UNCHANGED <<lastUsed, themeOf, drawings, drawn, winners, roomGhosts>>
----------------------------------------------------------------------------
(* purgeExpiredSkribblData                                                 *)
PurgeWinner(i) ==
    LET w == WinnerFor(roomCalls[i].date - 1) IN
    /\ RoomAt(i, "purge", "winner")
    /\ roomCalls' = [roomCalls EXCEPT ![i].owner = w,
                                      ![i].at = IF w = NoPlayer THEN "expired" ELSE "record"]
    /\ UNCHANGED <<roomTables, roomGhosts>>

PurgeRecord(i) ==
    LET c == roomCalls[i] IN
    /\ RoomAt(i, "purge", "record")
    /\ winners' = [winners EXCEPT ![c.date - 1] = c.owner]
    /\ RoomGo(i, "expired")
    /\ UNCHANGED <<lastUsed, themeOf, drawings, drawn, ballots, roomGhosts>>

Past(d, date) == d.date < date

(* The objects of the expired rows, deleted one by one, are one step: no   *)
(* other call names a key of a past day.                                   *)
Expired(date) == {drawings[k] : k \in {n \in DOMAIN drawings : Past(drawings[n], date)}}

PurgeObjects(i) ==
    LET expired == Expired(roomCalls[i].date)
    IN  /\ RoomAt(i, "purge", "expired")
        /\ drawn' = drawn \ expired
        /\ IF expired = {} THEN RoomEnd(i) ELSE RoomGo(i, "votes")
        /\ UNCHANGED <<lastUsed, themeOf, drawings, ballots, winners, roomGhosts>>

(* Some of the deletes fail, .catch(() => undefined), and the purge goes on. *)
PurgeLeaves(i) ==
    LET expired == Expired(roomCalls[i].date)
    IN  /\ RoomAt(i, "purge", "expired") /\ roomFaults < MaxSkribblFaults
        /\ roomFaults' = roomFaults + 1
        /\ \E kept \in (SUBSET expired) \ {{}} : drawn' = drawn \ (expired \ kept)
        /\ RoomGo(i, "votes")
        /\ UNCHANGED <<lastUsed, themeOf, drawings, ballots, winners,
                       today, roomMade, told, outcome, spanned>>

PurgeVotes(i) ==
    /\ RoomAt(i, "purge", "votes")
    /\ ballots' = {b \in ballots : ~Past(b.drawing, roomCalls[i].date)}
    /\ RoomGo(i, "rows")
    /\ UNCHANGED <<lastUsed, themeOf, drawings, drawn, winners, roomGhosts>>

(* The rows from a date on, in the order they were made.                   *)
Remaining(rows, date) ==
    LET kept[n \in 0..Len(rows)] ==
            IF n = 0 THEN <<>>
            ELSE IF Past(rows[n], date) THEN kept[n - 1] ELSE Append(kept[n - 1], rows[n])
    IN  kept[Len(rows)]

PurgeRows(i) ==
    /\ RoomAt(i, "purge", "rows")
    /\ drawings' = Remaining(drawings, roomCalls[i].date)
    /\ ballots' = {b \in ballots : ~Past(b.drawing, roomCalls[i].date)}
    /\ RoomGo(i, "themes")
    /\ UNCHANGED <<lastUsed, themeOf, drawn, winners, roomGhosts>>

PurgeThemes(i) ==
    /\ RoomAt(i, "purge", "themes")
    /\ themeOf' = [d \in Dates |-> IF d < roomCalls[i].date THEN NoTheme ELSE themeOf[d]]
    /\ RoomEnd(i)
    /\ UNCHANGED <<lastUsed, drawings, drawn, ballots, winners, roomGhosts>>
----------------------------------------------------------------------------
RoomFault(i) ==
    /\ roomCalls[i].at # "idle" /\ roomFaults < MaxSkribblFaults
    /\ roomFaults' = roomFaults + 1
    /\ RoomEnd(i)
    /\ UNCHANGED <<roomTables, today, roomMade, told, outcome, spanned>>

RoomStep(i) ==
    \/ ReadTheme(i) \/ PickTheme(i) \/ MarkTheme(i) \/ PinTheme(i) \/ RereadTheme(i)
    \/ SubmitExisting(i) \/ SubmitPut(i) \/ SubmitInsert(i)
    \/ VoteDrawing(i) \/ VoteWrite(i)
    \/ PurgeWinner(i) \/ PurgeRecord(i) \/ PurgeObjects(i)
    \/ PurgeVotes(i) \/ PurgeRows(i) \/ PurgeThemes(i)

RoomNext ==
    \/ \E i \in SkribblSlots :
          \/ \E request \in RoomRequests : RoomReceive(i, request)
          \/ RoomStep(i) \/ RoomFault(i) \/ PurgeLeaves(i)
    \/ Midnight

RoomSpec == RoomInit /\ [][RoomNext]_roomVars
----------------------------------------------------------------------------
(* Everybody is told the same theme of a day, although several calls may   *)
(* pick one at once, unless midnight passed during a call of that day.     *)
ThemeAgreed ==
    \A a, b \in told : a[1] = b[1] /\ a[1] \notin spanned => a[2] = b[2]

(* The winner recorded for a day is the one its votes had elected when it  *)
(* ended, however often the purge runs, as long as no call spanned the     *)
(* midnight and no purge failed half-way.                                  *)
WinnerStands ==
    \A d \in Dates :
        winners[d] # NoPlayer /\ d \notin spanned /\ roomFaults = 0
            => winners[d] = outcome[d]

(* A drawing of the day in the gallery has its image, whatever fails; and  *)
(* where nothing failed, no delete of the purge either, and nothing        *)
(* spanned a midnight, no image is left behind.                            *)
GalleryWhole ==
    /\ \A k \in RowsOf(today) : drawings[k] \in drawn
    /\ RoomBusy = {} /\ roomFaults = 0 /\ spanned = {}
          => drawn = {drawings[k] : k \in DOMAIN drawings}

(* The three together.                                                     *)
SkribblKept == ThemeAgreed /\ WinnerStands /\ GalleryWhole
=============================================================================
