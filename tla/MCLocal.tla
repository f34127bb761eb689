------------------------------ MODULE MCLocal ------------------------------
(***************************************************************************)
(* What the native application does without the network: the economy of    *)
(* the Break Room, Durak, the daily games and the rest room; the daily     *)
(* split of sessions; the planner, the Dashboard and the store they are    *)
(* saved in; the updater; and Skribbl's modal, whose server is any server. *)
(* Their interactions are modelled where they are (NativeStore writes the  *)
(* sections of all of them, StudyTracker books sessions with the timer),   *)
(* so here a behaviour runs one of the parts and leaves the others idle.   *)
(***************************************************************************)
EXTENDS BreakRoom, MCDurak, DailyGames, RestRoom, SessionSplitCheck, Academic,
        Dashboard, NativeStore, Updater, SkribblClient

CONSTANT Parts      \* the parts of the run

VARIABLE part

(* The parts that are not running.                                         *)
NoPlans ==
    [semesters |-> <<>>, courses |-> <<>>, tasks |-> <<>>, events |-> <<>>,
     holidays |-> {}, entries |-> <<>>, todos |-> <<>>]
DurakIdle ==
    today = MaxDay /\ game = None /\ selected = <<>> /\ puzzle = NoPuzzle /\ dealt = <<>>
DailyIdle ==
    kind = "none" /\ atlas = <<>> /\ hashes = <<>> /\ day = 0 /\ daily = NoDaily
AcademicIdle ==
    /\ academic = NoPlans /\ stored = NoPlans
    /\ edits = 0 /\ failedSaves = 0 /\ unsaved = FALSE

Init ==
    /\ part \in Parts
    /\ BreakInit /\ RestInit /\ SplitInit /\ DashboardInit /\ ClientInit
    /\ StoreInit /\ (part # "store" => file.schema = "absent")
    /\ UpdaterInit /\ (part # "updater" => running = 1)
    /\ IF part = "durak" THEN DurakInit ELSE DurakIdle
    /\ IF part = "daily" THEN DailyInit ELSE DailyIdle
    /\ IF part = "academic" THEN AcademicInit ELSE AcademicIdle

playVars == <<breakVars, durakVars, dailyVars, restVars>>
studyVars == <<segs, academicVars, history>>
systemVars == <<storeVars, updaterVars, clientVars>>

Playing ==
    /\ UNCHANGED <<part, studyVars, systemVars>>
    /\ \/ /\ part = "economy" /\ BreakNext
          /\ UNCHANGED <<durakVars, dailyVars, restVars>>
       \/ /\ part = "durak" /\ DurakNext
          /\ UNCHANGED <<breakVars, dailyVars, restVars>>
       \/ /\ part = "daily" /\ DailyNext
          /\ UNCHANGED <<breakVars, durakVars, restVars>>
       \/ /\ part = "rest" /\ RestNext
          /\ UNCHANGED <<breakVars, durakVars, dailyVars>>

Studying ==
    /\ UNCHANGED <<part, playVars, systemVars>>
    /\ \/ part = "split" /\ SplitNext /\ UNCHANGED <<academicVars, history>>
       \/ part = "academic" /\ AcademicNext /\ UNCHANGED <<segs, history>>
       \/ part = "dashboard" /\ DashboardNext /\ UNCHANGED <<segs, academicVars>>

Running ==
    /\ UNCHANGED <<part, playVars, studyVars>>
    /\ \/ part = "store" /\ StoreNext /\ UNCHANGED <<updaterVars, clientVars>>
       \/ part = "updater" /\ UpdaterNext /\ UNCHANGED <<storeVars, clientVars>>
       \/ part = "skribbl" /\ ClientNext /\ UNCHANGED <<storeVars, updaterVars>>

Next == Playing \/ Studying \/ Running

Spec == Init /\ [][Next]_<<part, playVars, studyVars, systemVars>>
-----------------------------------------------------------------------------
(* Durak: the cards stay the ones that were dealt, a game that is not over *)
(* has a move, and the solver accepts only deals the player can win.       *)
DurakKept == CardsConserved /\ NeverStuck /\ AcceptedDealsAreWinnable

(* The daily games: a puzzle is counted once, the marks of a guess and the *)
(* choice of the day's answer are right, and Travle is won when the        *)
(* countries connect.                                                      *)
DailyKept ==
    EachPuzzleCountedOnce /\ MarksDoNotMislead /\ EachAnswerOnceACycle
        /\ WonWhenConnected

(* The Break Room: an unlock is paid for once, a badge is counted once a   *)
(* day, and a rest lasts as long as it was meant to.                       *)
BreaksKept == UnlocksPaidFor /\ BadgeOncePerDay /\ RestNotCutShort

(* What is settled stays so: a finished puzzle, the date of an unlock, and *)
(* the sessions of the days before.                                        *)
RecordsStand == FinishedStaysFinished /\ DatesStand /\ EarlierDaysSettled
-----------------------------------------------------------------------------
(* Words of three letters, repeated ones among them.                       *)
FiveWords ==
    <<<<"a", "a", "b">>, <<"a", "b", "a">>, <<"b", "a", "b">>, <<"a", "b", "b">>,
      <<"b", "b", "c">>>>

(* Six countries: borders that lead both ways but for the last, an island; *)
(* and borders of which some lead one way only.                            *)
Atlas == <<<<2>>, <<1, 3, 4>>, <<2, 4>>, <<2, 3, 5>>, <<4>>, <<>>>>
OneWay == <<<<2, 5>>, <<1, 3>>, <<2, 4>>, <<3>>, <<4>>, <<>>>>
Atlases == {Atlas, OneWay}

(* Two salts, with equal hashes under each.                                *)
Tables == {<<[i \in 1..36 |-> (i * i) % 7], [i \in 1..36 |-> (5 * i) % 11]>>}

(* Profiles an import may leave: a semester with dates or without, a       *)
(* lecture that ends, was moved or is ticked, a task that counts its units *)
(* itself, a sheet, calendar entries of half a unit, and a weekly to-do.   *)
Event(c, t, k, first, weekly, until, moved, ticked) ==
    [semester |-> "s1", course |-> c, task |-> t, kind |-> k, date |-> first,
     weekly |-> weekly, until |-> until, moved |-> moved, skipped |-> {},
     ticked |-> ticked]
NoMove == <<>>
Plans(start, moved, prep, until) ==
    [semesters |-> "s1" :> [start |-> start, end |-> IF start = NoDate THEN NoDate ELSE 7,
                            archived |-> FALSE, phase |-> "Semester"],
     courses |-> "c1" :> "s1" @@ "c2" :> "s1",
     tasks |-> "t1" :> [semester |-> "s1", course |-> "c1", prep |-> prep,
                        total |-> 2, completed |-> 1]
            @@ "t2" :> [semester |-> "s1", course |-> "c2", prep |-> FALSE,
                        total |-> 2, completed |-> 0],
     events |-> "e1" :> Event("c1", "t1", "Occurrence", 1, TRUE, until, moved, {1})
             @@ "e2" :> Event("c1", "t1", "SheetDeadline", 5, FALSE, NoDate, NoMove, {})
             @@ "e3" :> Event("c2", "t2", "SheetRelease", 3, FALSE, NoDate, NoMove, {}),
     holidays |-> {},
     entries |-> [n \in {"n1", "n2"} |-> [task |-> "t2", quarters |-> 2, done |-> FALSE]],
     todos |-> "d1" :> [date |-> 2, weekly |-> TRUE, until |-> NoDate, skipped |-> {5},
                        done |-> FALSE, ticked |-> {}]]
Backups ==
    {Plans(0, NoMove, FALSE, 6), Plans(NoDate, NoMove, FALSE, NoDate),
     Plans(0, 4 :> 5, FALSE, NoDate), Plans(0, NoMove, TRUE, NoDate)}
Exam == [semester |-> "s1", first |-> 3, last |-> 4]

(* Four releases, two of them pre-releases whose numbers do not sort as    *)
(* words do.                                                               *)
Word(n) == [numeric |-> FALSE, rank |-> n]
Digits(n) == [numeric |-> TRUE, rank |-> n]
Published ==
    <<[core |-> <<0, 1, 9>>, pre |-> <<>>],
      [core |-> <<1, 0, 0>>, pre |-> <<Word(1), Digits(2)>>],
      [core |-> <<1, 0, 0>>, pre |-> <<Word(1), Digits(11)>>],
      [core |-> <<1, 0, 0>>, pre |-> <<>>]>>
============================================================================
