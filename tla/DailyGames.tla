----------------------------- MODULE DailyGames -----------------------------
(***************************************************************************)
(* The daily guessing games of the Break Room: Wordle, the two country     *)
(* games Geodle and Flaggle, and Travle (break_room/{daily,wordle,geodle,  *)
(* flaggle,travle}.rs), with the handlers of break_room_controller.rs that *)
(* play them.  One game is played at a time: opened, guessed at, closed by *)
(* a restart, and left open over midnight.                                 *)
(*                                                                         *)
(* A word is a sequence of letters, a country a number (its place in the   *)
(* table), a day a number.  A puzzle's id is its day and salt; the hash of *)
(* an item under a salt is a constant table, equal hashes included.  What  *)
(* is typed is already the word or the country, or Unknown when no list    *)
(* has it.  Every change is on disk at once (the Break Room's writes are   *)
(* module BreakRoom's).                                                    *)
(***************************************************************************)
EXTENDS Integers, Sequences, FiniteSets, SequencesExt

CONSTANTS
    Letters, Words,     \* the alphabet; the answers of Wordle in list order
    Countries,          \* 1..n
    Borders,            \* atlases: from each country to its neighbours in order
    Kinds,              \* the games played
    Hashes,             \* tables of hashes, by salt: Hash[salt][index]
    MaxGuesses,         \* MAX_GUESSES: 6, or 7 for countries
    MinSteps, MaxSteps, \* a daily pair of Travle is so far apart: 3, 5
    LastDay,            \* bound: the last day
    NoSalt, Unknown

VARIABLES
    kind,       \* the game
    atlas,      \* the borders
    hashes,     \* the hash table
    day,        \* the controller's today
    daily       \* the stored puzzle

dailyVars == <<kind, atlas, hashes, day, daily>>
-----------------------------------------------------------------------------
(* The answer of a day: the n-th smallest (hash, index).                   *)

(* slip: items are ordered by hash alone, equal ones falling together.     *)
DailyIndexByHash(hash, date, n) ==
    CHOOSE i \in 1..n :
        \A j \in 1..n :
            /\ Cardinality({k \in 1..n : hash[k] < hash[i]}) <= date % n
            /\ Cardinality({k \in 1..n : hash[k] < hash[j]}) <= date % n
                    => hash[j] <= hash[i]

DailyIndex(hash, date, n) ==
    LET Earlier(i) == {k \in 1..n : \/ hash[k] < hash[i]
                                    \/ hash[k] = hash[i] /\ k < i}
    IN CHOOSE i \in 1..n : Cardinality(Earlier(i)) = date % n
-----------------------------------------------------------------------------
(* Wordle.                                                                 *)

Positions(word) == DOMAIN word
Occurrences(letter, word) == Cardinality({i \in Positions(word) : word[i] = letter})

(* Greens first; then a letter is yellow while the answer's letters that   *)
(* are not green still have it.                                            *)
ScoreGuess(guess, answer) ==
    LET Green == {i \in Positions(guess) : guess[i] = answer[i]}
        Left(c) == Cardinality({i \in Positions(answer) \ Green : answer[i] = c})
        Before(i) == {j \in 1..(i - 1) \ Green : guess[j] = guess[i]}
    IN [i \in Positions(guess) |->
            IF i \in Green THEN "Correct"
            ELSE IF Cardinality(Before(i)) < Left(guess[i]) THEN "Present"
            ELSE "Absent"]

Revealed(c, guess, answer) ==
    Cardinality({i \in Positions(guess) :
        guess[i] = c /\ ScoreGuess(guess, answer)[i] # "Absent"})

(* slip: a letter marked absent anywhere is eliminated, though another     *)
(* of it was revealed.                                                     *)
ViolatesEliminatingRevealed(guess, previous, answer) ==
    \E p \in ToSet(previous) :
        LET marks == ScoreGuess(p, answer)
        IN \/ \E i \in Positions(p) : marks[i] = "Correct" /\ guess[i] # p[i]
           \/ \E c \in Letters : Occurrences(c, guess) < Revealed(c, p, answer)
           \/ \E i \in Positions(p) : /\ marks[i] = "Absent"
                                      /\ Occurrences(p[i], guess) > 0

HardModeViolation(guess, previous, answer) ==
    \E p \in ToSet(previous) :
        LET marks == ScoreGuess(p, answer)
        IN \/ \E i \in Positions(p) : marks[i] = "Correct" /\ guess[i] # p[i]
           \/ \E c \in Letters : Occurrences(c, guess) < Revealed(c, p, answer)
           \/ \E i \in Positions(p) :
                /\ marks[i] = "Absent" /\ Occurrences(p[i], guess) > 0
                /\ \A q \in ToSet(previous) : Revealed(p[i], q, answer) = 0

(* The strongest mark of each letter tried.                                *)
KeyboardState(guesses, answer) ==
    LET MarksOf(c) == {ScoreGuess(g, answer)[i] :
                        <<g, i>> \in {<<h, j>> \in ToSet(guesses) \X Positions(answer) :
                                        h[j] = c}}
    IN [c \in Letters |->
            IF "Correct" \in MarksOf(c) THEN "Correct"
            ELSE IF "Present" \in MarksOf(c) THEN "Present"
            ELSE IF MarksOf(c) # {} THEN "Absent" ELSE "Untried"]
-----------------------------------------------------------------------------
(* Travle: routes along outgoing borders, breadth first.                   *)

(* The tree of first parents; a country is seen when it is queued.         *)
Search(borders, start, allowed) ==
    LET Step(acc, k) ==
            IF acc.queue = <<>> THEN acc
            ELSE LET current == Head(acc.queue)
                     found == SelectSeq(borders[current],
                                  LAMBDA c : c \in allowed /\ acc.parents[c] = 0)
                 IN [parents |-> [c \in Countries |-> IF c \in ToSet(found) THEN current
                                                      ELSE acc.parents[c]],
                     queue |-> Tail(acc.queue) \o found]
        first == [parents |-> [c \in Countries |-> IF c = start THEN start ELSE 0],
                  queue |-> <<start>>]
    IN FoldLeft(Step, first, [k \in 1..Cardinality(Countries) |-> k]).parents

RouteFromTree(parents, start, target) ==
    LET Back(route, k) ==
            IF Head(route) = start THEN route ELSE <<parents[Head(route)]>> \o route
    IN IF parents[target] = 0 THEN <<>>
       ELSE FoldLeft(Back, <<target>>, [k \in 1..Cardinality(Countries) |-> k])

ShortestPath(borders, start, target) ==
    RouteFromTree(Search(borders, start, Countries), start, target)

(* distances_from, in steps; Far where no route leads.                     *)
Far == 2 * Cardinality(Countries)
DistanceFrom(borders, start, c) ==
    LET route == ShortestPath(borders, start, c)
    IN IF route = <<>> THEN Far ELSE Len(route) - 1

(* slip: only the countries guessed may be entered, not the destination.   *)
SolvedThroughGuesses(borders, ends, guesses) ==
    RouteFromTree(Search(borders, ends[1], {ends[1]} \cup ToSet(guesses)),
                  ends[1], ends[2])

(* Routes::solved.                                                         *)
Solved(borders, ends, guesses) ==
    RouteFromTree(Search(borders, ends[1], ToSet(ends) \cup ToSet(guesses)),
                  ends[1], ends[2])

(* The chains from the start through guessed countries.                    *)
Chains(borders, ends, guesses) ==
    {<<ends[1]>> \o s : s \in
        {t \in UNION {[1..k -> ToSet(guesses) \ {ends[1]}] : k \in 0..Len(guesses)} :
            /\ \A i, j \in DOMAIN t : t[i] = t[j] => i = j
            /\ t # <<>> => t[1] \in ToSet(borders[ends[1]])
            /\ \A i \in 1..(Len(t) - 1) : t[i + 1] \in ToSet(borders[t[i]])}}

(* Routes::display; which of two chains that tie is left open.             *)
Display(borders, ends, guesses) ==
    LET solved == Solved(borders, ends, guesses)
        chains == Chains(borders, ends, guesses)
        Left(chain) == DistanceFrom(borders, ends[2], Last(chain))
        Better(a, b) == \/ Len(a) > Len(b)
                        \/ Len(a) = Len(b) /\ Left(a) < Left(b)
    IN IF solved # <<>> THEN solved
       ELSE CHOOSE a \in chains : \A b \in chains : ~ Better(b, a)

(* Routes::guess_states: the band is measured against the number of        *)
(* countries of the shortest route.                                        *)
GuessState(borders, ends, guesses, c) ==
    LET shortest == ShortestPath(borders, ends[1], ends[2])
        a == DistanceFrom(borders, ends[1], c)
        b == DistanceFrom(borders, ends[2], c)
    IN IF c \in ToSet(Solved(borders, ends, guesses))
                 \cup ToSet(Display(borders, ends, guesses)) \cup ToSet(shortest)
       THEN "Route"
       ELSE IF a # Far /\ b # Far /\ a + b <= Len(shortest) + 2 THEN "Possible"
       ELSE "Miss"

(* daily_pairs, in order of the start and then of the destination.         *)
DailyPairs(borders) ==
    LET n == Cardinality(Countries)
        pair(k) == <<((k - 1) \div n) + 1, ((k - 1) % n) + 1>>
        Kept(p) == /\ borders[p[1]] # <<>> /\ borders[p[2]] # <<>> /\ p[1] # p[2]
                   /\ DistanceFrom(borders, p[1], p[2]) \in MinSteps..MaxSteps
    IN SelectSeq([k \in 1..(n * n) |-> pair(k)], Kept)
-----------------------------------------------------------------------------
(* The puzzles.                                                            *)

AnswerForDate(date, salt) ==
    CASE kind = "wordle"  -> Words[DailyIndex(hashes[salt], date, Len(Words))]
      [] kind = "country" -> DailyIndex(hashes[salt], date, Cardinality(Countries))
      [] kind = "travle"  ->
            LET pairs == DailyPairs(atlas)
            IN pairs[DailyIndex(hashes[salt], date, Len(pairs))]

Fresh(date, salt, hard) ==
    [salt |-> salt, date |-> date, id |-> <<date, salt>>,
     answer |-> AnswerForDate(date, salt), guesses |-> <<>>,
     completed |-> FALSE, won |-> FALSE, hard |-> hard]

NoDaily ==
    [salt |-> NoSalt, date |-> -1, id |-> <<>>, answer |-> Unknown, guesses |-> <<>>,
     completed |-> FALSE, won |-> FALSE, hard |-> FALSE]

IsToday(p, salt) == p.date = day /\ p.id = <<day, salt>>

(* normalized, at load: today's puzzle as it is stored, or a fresh one.    *)
Normalized(p, newSalt) ==
    LET salt == IF p.salt = NoSalt THEN newSalt ELSE p.salt
    IN IF IsToday(p, salt) THEN [p EXCEPT !.salt = salt] ELSE Fresh(day, salt, p.hard)

(* slip: opening the game draws a new salt each time.                      *)
EnsureTodayResalted(p, newSalt) ==
    IF IsToday(p, newSalt) THEN p ELSE Fresh(day, newSalt, p.hard)

(* ensure_today, when the game is opened.                                  *)
EnsureToday(p, newSalt) ==
    LET salt == IF p.salt = NoSalt THEN newSalt ELSE p.salt
    IN IF IsToday(p, salt) THEN p ELSE Fresh(day, salt, p.hard)

(* The guess is recorded, and ends the game when it wins or is the last.   *)
Guessed(p, guess, won) ==
    [p EXCEPT !.guesses = Append(@, guess), !.won = won,
              !.completed = won \/ Len(p.guesses) + 1 >= MaxGuesses]

SubmitWordle(p, guess) ==
    IF \/ p.completed \/ guess = Unknown
       \/ p.hard /\ HardModeViolation(guess, p.guesses, p.answer)
       \/ guess \in ToSet(p.guesses)
    THEN p ELSE Guessed(p, guess, guess = p.answer)

(* GeodlePuzzle::submit, and the two halves of Flaggle's.                  *)
SubmitCountry(p, guess) ==
    IF p.completed \/ guess = Unknown \/ guess \in ToSet(p.guesses)
    THEN p ELSE Guessed(p, guess, guess = p.answer)

SubmitTravle(p, guess) ==
    IF \/ p.completed \/ guess = Unknown
       \/ guess = p.answer[1] \/ guess \in ToSet(p.guesses)
    THEN p
    ELSE Guessed(p, guess, Solved(atlas, p.answer, Append(p.guesses, guess)) # <<>>)
-----------------------------------------------------------------------------
Salts == DOMAIN hashes

DailyInit ==
    /\ kind \in Kinds /\ atlas \in Borders /\ hashes \in Hashes
    /\ day = 0 /\ daily = NoDaily

(* BreakRoomController::load.                                              *)
LoadDaily ==
    /\ \E s \in Salts : daily' = Normalized(daily, s)
    /\ UNCHANGED <<kind, atlas, hashes, day>>

(* The game is opened from its card.                                       *)
PlayDaily ==
    /\ daily # NoDaily
    /\ \E s \in Salts : daily' = EnsureToday(daily, s)
    /\ UNCHANGED <<kind, atlas, hashes, day>>

SubmitDaily ==
    /\ daily # NoDaily
    /\ \/ /\ kind = "wordle"
          /\ \E g \in ToSet(Words) \cup {Unknown} : daily' = SubmitWordle(daily, g)
       \/ /\ kind = "country"
          /\ \E g \in Countries \cup {Unknown} : daily' = SubmitCountry(daily, g)
       \/ /\ kind = "travle"
          /\ \E g \in Countries \cup {Unknown} : daily' = SubmitTravle(daily, g)
    /\ UNCHANGED <<kind, atlas, hashes, day>>

(* toggle_hard_mode: locked once a game is under way.                      *)
ToggleHardMode ==
    /\ kind = "wordle" /\ daily # NoDaily
    /\ daily.guesses = <<>> \/ daily.completed
    /\ daily' = [daily EXCEPT !.hard = ~ @]
    /\ UNCHANGED <<kind, atlas, hashes, day>>

(* The day changes, whatever is open.                                      *)
DayChanges ==
    /\ day < LastDay /\ daily # NoDaily
    /\ day' = day + 1
    /\ UNCHANGED <<kind, atlas, hashes, daily>>

DailyNext ==
    LoadDaily \/ PlayDaily \/ SubmitDaily \/ ToggleHardMode \/ DayChanges

DailySpec == DailyInit /\ [][DailyNext]_dailyVars
-----------------------------------------------------------------------------
(* What the marks tell never misleads: whatever was guessed, repeated      *)
(* letters and a toggle in between included, hard mode allows the answer   *)
(* itself, and the keyboard greys out no letter of it.                     *)
MarksDoNotMislead ==
    kind = "wordle" /\ daily # NoDaily =>
        /\ ~ HardModeViolation(daily.answer, daily.guesses, daily.answer)
        /\ \A c \in ToSet(daily.answer) :
            KeyboardState(daily.guesses, daily.answer)[c] # "Absent"

(* Over as many days as there are answers each is asked once, ties of the  *)
(* hash included: no answer comes twice before all have come.              *)
EachAnswerOnceACycle ==
    \A s \in Salts : \A n \in {Len(Words), Cardinality(Countries)} :
        {DailyIndex(hashes[s], d, n) : d \in 0..(n - 1)} = 1..n

(* A puzzle of the day is played once: finished, it stays as it ended,     *)
(* through opening it again, restarts and every guess after it, until the  *)
(* day changes.                                                            *)
FinishedStaysFinished ==
    [][daily.completed /\ daily.date = day =>
        [daily' EXCEPT !.hard = FALSE] = [daily EXCEPT !.hard = FALSE]]_dailyVars

(* Whether a step along borders, within the given countries, connects the  *)
(* two ends: the least set closed under it, and nothing of how a search    *)
(* goes about it.                                                          *)
Connected(borders, ends, within) ==
    \A s \in {t \in SUBSET (within \cup ToSet(ends)) :
                /\ ends[1] \in t
                /\ \A c \in t :
                    ToSet(borders[c]) \cap (within \cup ToSet(ends)) \subseteq t} :
        ends[2] \in s

(* A Travle is won exactly when its guesses connect the two countries; the *)
(* route shown is then one of theirs and as short as they allow.  A guess  *)
(* on any shortest route, where borders lead both ways, is not called off  *)
(* route.                                                                  *)
WonWhenConnected ==
    kind = "travle" /\ daily # NoDaily =>
        LET ends == daily.answer
            within == ToSet(daily.guesses)
            route == Solved(atlas, ends, daily.guesses)
            Mutual == \A c, d \in Countries : d \in ToSet(atlas[c]) => c \in ToSet(atlas[d])
            Through(c) == DistanceFrom(atlas, ends[1], c) + DistanceFrom(atlas, c, ends[2])
        IN /\ daily.won <=> Connected(atlas, ends, within)
           /\ \A s \in SUBSET within :
                Connected(atlas, ends, s) => Len(route) <= Cardinality(s) + 2
           /\ \A c \in within :
                Mutual /\ Through(c) = DistanceFrom(atlas, ends[1], ends[2])
                    => GuessState(atlas, ends, daily.guesses, c) # "Miss"
=============================================================================
