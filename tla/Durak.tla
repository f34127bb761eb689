------------------------------- MODULE Durak -------------------------------
(***************************************************************************)
(* Daily Durak, the endgame puzzle of the Break Room (break_room/durak.rs  *)
(* of study-tracker-core): the rules as functions of a game, and the modal *)
(* (DurakSession) with the record it keeps of the day's puzzle             *)
(* (DurakPuzzle).                                                          *)
(*                                                                         *)
(* A hand is a sequence, for the CPU breaks its ties by hand order.  A day *)
(* is a number, a seed a pair of a day and an index.  find_daily_puzzle is *)
(* a list of the deals it can return: a seed always yields the same one of *)
(* them, or none, when none of its 200 attempts was accepted.  A day's     *)
(* first puzzle is always found.  The application around the session (the  *)
(* unlocks, the card of the game, the write of the record) is module       *)
(* BreakRoom's; here the modal is opened and closed at will and a change   *)
(* is on disk at once.                                                     *)
(***************************************************************************)
EXTENDS Integers, Sequences, FiniteSets, SequencesExt

CONSTANTS
    Suits,          \* the suits dealt
    TableLimit,     \* cards of one attack: 6
    DailyPuzzles,   \* puzzles a day: 3
    Deals,          \* sequences of deals or None, of which the run takes one
    MaxDay,         \* bound: the last day
    MaxFailures,    \* bound: fresh deals of a lost puzzle
    None

VARIABLES
    today,      \* the local day
    game,       \* DurakSession.game, or None
    selected,   \* DurakSession.selected: indices into the hand, clicked first first
    puzzle,     \* the stored DurakPuzzle
    dealt       \* the deals find_daily_puzzle returns: consecutive seeds take turns

durakVars == <<today, game, selected, puzzle, dealt>>

Sides == {"Player", "Cpu"}
PlayerPhases == {"PlayerAttack", "PlayerDefense", "PlayerThrow"}
Phases == PlayerPhases \cup {"CpuDefense", "CpuAttack", "CpuThrow", "Finished"}

Least(a, b) == IF a < b THEN a ELSE b
Monus(a, b) == IF a < b THEN 0 ELSE a - b
-----------------------------------------------------------------------------
(* The rules.                                                              *)

CanBeat(card, target, trump) ==
    IF card.suit = target.suit THEN card.rank > target.rank
                               ELSE card.suit = trump /\ target.suit # trump

Uncovered(table) == SelectSeq(table, LAMBDA e : e.defense = None)
RanksOnTable(table) ==
    {e.attack.rank : e \in ToSet(table)}
    \cup {e.defense.rank : e \in {f \in ToSet(table) : f.defense # None}}

Attack(card, by) ==
    [attack |-> card, defense |-> None, attack_by |-> by, defense_by |-> None]
Covered(e, card, by) == [e EXCEPT !.defense = card, !.defense_by = by]
Attacks(cards, by) == <<>> \o [i \in DOMAIN cards |-> Attack(cards[i], by)]
Without(hand, cards) == SelectSeq(hand, LAMBDA c : c \notin ToSet(cards))
UpTo(cards, n) == SubSeq(cards, 1, Least(n, Len(cards)))

CheckWin(g) ==
    IF g.player = <<>> THEN [g EXCEPT !.phase = "Finished", !.winner = "Player"]
    ELSE IF g.cpu = <<>> THEN [g EXCEPT !.phase = "Finished", !.winner = "Cpu"]
    ELSE g

CardsOfEntry(e) == IF e.defense = None THEN <<e.attack>> ELSE <<e.attack, e.defense>>
TableCards(table) == FlattenSeq([i \in DOMAIN table |-> CardsOfEntry(table[i])])

(* slip: the cards picked up stay on the table as well.                    *)
PickUpKeepsTable(g, side) ==
    CheckWin(IF side = "Player"
             THEN [g EXCEPT !.player = @ \o TableCards(g.table), !.phase = "CpuAttack"]
             ELSE [g EXCEPT !.cpu = @ \o TableCards(g.table), !.phase = "PlayerAttack"])

PickUpCards(g, side) ==
    CheckWin(IF side = "Player"
             THEN [g EXCEPT !.player = @ \o TableCards(g.table), !.table = <<>>,
                            !.phase = "CpuAttack"]
             ELSE [g EXCEPT !.cpu = @ \o TableCards(g.table), !.table = <<>>,
                            !.phase = "PlayerAttack"])

ClearTable(g) ==
    [g EXCEPT !.discard = @ \o TableCards(g.table), !.table = <<>>]

AttackLimitAgainstCpu(g) ==
    Least(TableLimit,
          Len(g.cpu) + Len(SelectSeq(g.table, LAMBDA e : e.defense_by = "Cpu")))

CpuIsPickingUp(g) == g.phase = "PlayerThrow" /\ Uncovered(g.table) # <<>>

(* All the cards of each rank, the ranks in the order they first appear.   *)
RankGroups(hand) ==
    LET First(i) == \A j \in 1..(i - 1) : hand[j].rank # hand[i].rank
        firsts == SelectSeq([i \in DOMAIN hand |-> i], First)
    IN [k \in DOMAIN firsts |->
            SelectSeq(hand, LAMBDA c : c.rank = hand[firsts[k]].rank)]

ValidAttacks(hand, max) ==
    IF max = 0 THEN <<>>
    ELSE LET groups == RankGroups(hand)
         IN [k \in DOMAIN groups |-> UpTo(groups[k], max)]

ValidThrows(hand, table, maxTotal) ==
    LET room == Monus(maxTotal, Len(table))
        ranks == RankGroups(TableCards(table))
        OfRank(k) == SelectSeq(hand, LAMBDA c : c.rank = ranks[k][1].rank)
        throws == [k \in DOMAIN ranks |-> UpTo(OfRank(k), room)]
    IN IF room = 0 THEN <<>> ELSE SelectSeq(throws, LAMBDA t : t # <<>>)

DefenseOptions(hand, attack, trump) ==
    SelectSeq(hand, LAMBDA c : CanBeat(c, attack, trump))

(* The lowest card of no trump that beats it, or the lowest trump; among   *)
(* equals the first in the hand.                                           *)
BestDefense(hand, attack, trump) ==
    LET options == DefenseOptions(hand, attack, trump)
        plain == SelectSeq(options, LAMBDA c : c.suit # trump)
        pool == IF plain = <<>> THEN options ELSE plain
        Lowest(i) == \A j \in DOMAIN pool : /\ pool[i].rank <= pool[j].rank
                                            /\ pool[i].rank = pool[j].rank => i <= j
    IN IF options = <<>> THEN None ELSE pool[CHOOSE i \in DOMAIN pool : Lowest(i)]

LegalSlideCards(g, by) ==
    LET hand == IF by = "Player" THEN g.player ELSE g.cpu
        receiver == IF by = "Player" THEN g.cpu ELSE g.player
    IN IF \/ Len(hand) <= 1
          \/ Len(receiver) < Len(Uncovered(g.table)) + 1
          \/ Uncovered(g.table) # g.table
       THEN <<>>
       ELSE SelectSeq(hand, LAMBDA c : c.rank \in RanksOnTable(g.table))

ExecuteSlide(g, card) ==
    LET by == IF g.phase = "CpuDefense" THEN "Cpu" ELSE "Player"
        moved == [g EXCEPT !.table = Append(@, Attack(card, by))]
    IN IF \/ g.phase \notin {"CpuDefense", "PlayerDefense"}
          \/ card \notin ToSet(LegalSlideCards(g, by))
       THEN g
       ELSE CheckWin(IF by = "Cpu"
                     THEN [moved EXCEPT !.cpu = Without(@, <<card>>),
                                        !.phase = "PlayerDefense"]
                     ELSE [moved EXCEPT !.player = Without(@, <<card>>),
                                        !.phase = "CpuDefense"])

(* cpu_defend covers the attacks in order, and gives up at the first that  *)
(* it cannot beat, what it covered before it staying covered.              *)
CpuDefend(g) ==
    LET Cover(acc, i) ==
            LET best == BestDefense(acc.cpu, acc.table[i].attack, acc.trump)
            IN IF acc.phase = "PlayerThrow" \/ acc.table[i].defense # None THEN acc
               ELSE IF best = None THEN [acc EXCEPT !.phase = "PlayerThrow"]
               ELSE [acc EXCEPT !.table[i] = Covered(@, best, "Cpu"),
                                !.cpu = Without(@, <<best>>)]
        covered == FoldLeft(Cover, g, [i \in DOMAIN g.table |-> i])
    IN IF covered.phase = "PlayerThrow" THEN covered
       ELSE CheckWin([covered EXCEPT !.phase = "PlayerThrow"])

CpuAttack(g) ==
    LET attacks == ValidAttacks(g.cpu, Least(TableLimit, Len(g.player)))
        Better(a, b) == \/ Len(a) > Len(b)
                        \/ Len(a) = Len(b) /\ a[1].rank < b[1].rank
        chosen == attacks[CHOOSE i \in DOMAIN attacks :
                            \A j \in DOMAIN attacks : ~ Better(attacks[j], attacks[i])]
    IN IF attacks = <<>>
       THEN [g EXCEPT !.phase = "Finished", !.winner = "Player"]
       ELSE CheckWin([g EXCEPT !.table = Attacks(chosen, "Cpu"),
                               !.cpu = Without(@, chosen),
                               !.phase = "PlayerDefense"])

CpuThrowCards(g) ==
    LET throws == ValidThrows(g.cpu, g.table,
                              Least(TableLimit, Len(g.table) + Len(g.player)))
    IN CheckWin(IF throws # <<>>
                THEN [g EXCEPT !.table = @ \o Attacks(throws[1], "Cpu"),
                               !.cpu = Without(@, throws[1]),
                               !.phase = "PlayerDefense"]
                ELSE [ClearTable(g) EXCEPT !.phase = "PlayerAttack"])

PlayerAttack(g, cards) ==
    LET used == UpTo(cards, Least(TableLimit, Len(g.cpu)))
    IN IF cards = <<>> THEN g
       ELSE CheckWin([g EXCEPT !.table = @ \o Attacks(used, "Player"),
                               !.player = Without(@, used),
                               !.phase = "CpuDefense"])

PlayerThrow(g, cards) ==
    LET used == UpTo(cards, Monus(AttackLimitAgainstCpu(g), Len(g.table)))
        thrown == [g EXCEPT !.table = @ \o Attacks(used, "Player"),
                            !.player = Without(@, used)]
        limit == AttackLimitAgainstCpu(thrown)
    IN IF used = <<>> THEN g
       ELSE IF ~ CpuIsPickingUp(g) THEN CheckWin([thrown EXCEPT !.phase = "CpuDefense"])
       ELSE IF \/ ValidThrows(thrown.player, thrown.table, limit) = <<>>
               \/ Len(thrown.table) >= limit
       THEN PickUpCards(thrown, "Cpu")
       ELSE CheckWin(thrown)

DefendOneCard(g, card) ==
    LET open == {i \in DOMAIN g.table : g.table[i].defense = None}
        target == CHOOSE i \in open : \A j \in open : i <= j
        covered == [g EXCEPT !.table[target] = Covered(@, card, "Player"),
                             !.player = Without(@, <<card>>)]
    IN IF open = {} THEN g
       ELSE IF ~ CanBeat(card, g.table[target].attack, g.trump) THEN g
       ELSE CheckWin(IF Uncovered(covered.table) = <<>>
                     THEN [covered EXCEPT !.phase = "CpuThrow"] ELSE covered)

PlayerPassThrow(g) ==
    IF CpuIsPickingUp(g) THEN PickUpCards(g, "Cpu")
    ELSE CheckWin([ClearTable(g) EXCEPT !.phase = "CpuAttack"])

(* slip: the CPU, asked for one step, leaves a covered attack unanswered.   *)
CpuTurnWithoutThrow(g) ==
    CASE g.phase = "CpuDefense" -> CpuDefend(g)
      [] g.phase = "CpuAttack" -> CpuAttack(g)
      [] OTHER -> g

(* One step of the CPU, and one only, after each action of the player.     *)
ProcessCpuTurn(g) ==
    CASE g.phase = "CpuDefense" ->
            LET slides == LegalSlideCards(g, "Cpu")
            IN IF slides # <<>> THEN ExecuteSlide(g, slides[1]) ELSE CpuDefend(g)
      [] g.phase = "CpuAttack" -> CpuAttack(g)
      [] g.phase = "CpuThrow"  -> CpuThrowCards(g)
      [] OTHER -> g
-----------------------------------------------------------------------------
(* The session.                                                            *)

FirstTurn(deal) ==
    [player |-> deal.player, cpu |-> deal.cpu, table |-> <<>>, trump |-> deal.trump,
     discard |-> <<>>, phase |-> "PlayerAttack", winner |-> None]

(* The deal find_daily_puzzle returns for a seed.                          *)
DealOf(seed) ==
    dealt[((DailyPuzzles * seed[1] + seed[2]) % Len(dealt)) + 1]

NoPuzzle == [seed |-> None, game |-> None, failures |-> 0, completed |-> FALSE,
             solved |-> 0]

(* slip: the stored puzzle replaces the record, and its solved_count.      *)
StoredAfresh(p, g, failures, completed, seed) ==
    [NoPuzzle EXCEPT !.seed = seed, !.game = g, !.failures = failures,
                     !.completed = completed]

(* DurakPuzzle::store keeps solved_count.                                  *)
Stored(p, g, failures, completed, seed) ==
    [p EXCEPT !.seed = seed, !.game = g, !.failures = failures,
              !.completed = completed]

DurakInit ==
    /\ today = 0 /\ game = None /\ selected = <<>> /\ puzzle = NoPuzzle
    /\ dealt \in Deals

(* DurakSession::open, each time the modal opens.                          *)
Open ==
    LET rolled == IF puzzle.seed # None /\ puzzle.seed[1] # today
                  THEN [puzzle EXCEPT !.solved = 0, !.seed = None, !.failures = 0]
                  ELSE puzzle
        seed == <<today, rolled.solved>>
    IN /\ UNCHANGED <<today, dealt>>
       /\ \/ /\ \/ rolled.solved >= DailyPuzzles
                \/ game # None /\ rolled.seed = seed
             /\ puzzle' = rolled
             /\ UNCHANGED <<game, selected>>
          \/ /\ rolled.solved < DailyPuzzles /\ rolled.seed = seed /\ game = None
             /\ game' = rolled.game /\ selected' = <<>> /\ puzzle' = rolled
          \/ /\ rolled.solved < DailyPuzzles /\ rolled.seed # seed
             /\ DealOf(seed) = None
             /\ puzzle' = rolled /\ UNCHANGED <<game, selected>>
          \/ /\ rolled.solved < DailyPuzzles /\ rolled.seed # seed
             /\ DealOf(seed) # None
             /\ game' = FirstTurn(DealOf(seed))
             /\ puzzle' = Stored(rolled, game', 0, FALSE, seed)
             /\ UNCHANGED selected

(* click_card on a card of the hand.                                       *)
ClickCard(i) ==
    LET card == game.player[i]
        open == Uncovered(game.table)
        max == IF game.phase = "PlayerAttack" THEN Least(TableLimit, Len(game.cpu))
               ELSE Monus(AttackLimitAgainstCpu(game), Len(game.table))
    IN /\ game # None /\ i \in DOMAIN game.player
       /\ \/ /\ game.phase = "PlayerDefense"
             /\ \/ open # <<>> /\ CanBeat(card, open[1].attack, game.trump)
                \/ card \in ToSet(LegalSlideCards(game, "Player"))
             /\ selected' = IF i \in ToSet(selected) THEN <<>> ELSE <<i>>
          \/ /\ \/ game.phase = "PlayerAttack"
                \/ game.phase = "PlayerThrow" /\ card.rank \in RanksOnTable(game.table)
             /\ \/ i \in ToSet(selected) /\ selected' = Without(selected, <<i>>)
                \/ selected = <<>> /\ selected' = <<i>>
                \/ /\ i \notin ToSet(selected) /\ selected # <<>>
                   /\ selected[1] \in DOMAIN game.player
                   /\ IF game.player[selected[1]].rank # card.rank
                      THEN selected' = <<i>>
                      ELSE Len(selected) < max /\ selected' = Append(selected, i)
       /\ UNCHANGED <<today, game, puzzle, dealt>>

SelectedCards ==
    LET there == SelectSeq(selected, LAMBDA i : i \in DOMAIN game.player)
    IN [k \in DOMAIN there |-> game.player[there[k]]]

(* A click while the first selected index is no card of the hand any more  *)
(* panics (an index out of bounds), and the process is gone.               *)
ClickPanics ==
    /\ game # None /\ game.phase \in {"PlayerAttack", "PlayerThrow"}
    /\ selected # <<>> /\ selected[1] \notin DOMAIN game.player
    /\ game' = None /\ selected' = <<>>
    /\ UNCHANGED <<today, puzzle, dealt>>

(* DurakSession::finish, after the CPU's reply.                            *)
Finish(next) ==
    LET won == next.phase = "Finished" /\ next.winner = "Player"
        completed == IF next.phase = "Finished" THEN won ELSE puzzle.completed
        stored == Stored(puzzle, next, puzzle.failures, completed, puzzle.seed)
    IN /\ puzzle' = [stored EXCEPT !.solved = @ + (IF won THEN 1 ELSE 0)]
       /\ game' = next /\ selected' = <<>>
       /\ UNCHANGED <<today, dealt>>

InPhase(phase) == game # None /\ game.phase = phase

PressAttack ==
    /\ InPhase("PlayerAttack") /\ selected # <<>>
    /\ Finish(ProcessCpuTurn(PlayerAttack(game, SelectedCards)))

PressThrow ==
    /\ InPhase("PlayerThrow") /\ selected # <<>>
    /\ Finish(ProcessCpuTurn(PlayerThrow(game, SelectedCards)))

PressPass ==
    /\ InPhase("PlayerThrow")
    /\ Finish(ProcessCpuTurn(PlayerPassThrow(game)))

(* The button is enabled for a selected card that beats the first          *)
(* uncovered attack (can_defend_and_slide).                                *)
PressDefend ==
    /\ InPhase("PlayerDefense") /\ selected # <<>>
    /\ selected[1] \in DOMAIN game.player
    /\ CanBeat(game.player[selected[1]], Uncovered(game.table)[1].attack, game.trump)
    /\ Finish(ProcessCpuTurn(DefendOneCard(game, game.player[selected[1]])))

PressPickUp ==
    /\ InPhase("PlayerDefense")
    /\ Finish(ProcessCpuTurn(PickUpCards(game, "Player")))

PressSlide ==
    /\ InPhase("PlayerDefense") /\ selected # <<>>
    /\ selected[1] \in DOMAIN game.player
    /\ game.player[selected[1]] \in ToSet(LegalSlideCards(game, "Player"))
    /\ Finish(ProcessCpuTurn(ExecuteSlide(game, game.player[selected[1]])))

(* "Try Again", shown when the CPU has won.                                *)
Retry ==
    /\ InPhase("Finished") /\ game.winner = "Cpu"
    /\ puzzle.failures < MaxFailures
    /\ game' = FirstTurn(DealOf(puzzle.seed))
    /\ puzzle' = Stored(puzzle, game', puzzle.failures + 1, FALSE, puzzle.seed)
    /\ selected' = <<>>
    /\ UNCHANGED <<today, dealt>>

(* The process ends and starts again: only the stored puzzle is left.      *)
Restart ==
    /\ game # None
    /\ game' = None /\ selected' = <<>>
    /\ UNCHANGED <<today, puzzle, dealt>>

NextDay ==
    /\ today < MaxDay /\ today' = today + 1
    /\ UNCHANGED <<game, selected, puzzle, dealt>>

DurakNext ==
    \/ Open
    \/ game # None /\ \E i \in DOMAIN game.player : ClickCard(i)
    \/ ClickPanics
    \/ PressAttack \/ PressThrow \/ PressPass
    \/ PressDefend \/ PressPickUp \/ PressSlide
    \/ Retry \/ Restart \/ NextDay

DurakSpec == DurakInit /\ [][DurakNext]_durakVars
-----------------------------------------------------------------------------
(* Every card dealt is in one place: a hand, the table or the discard      *)
(* pile, through attacks, slides, throws, pick-ups and a resumed game.     *)
CardsConserved ==
    game # None =>
        LET cards == game.player \o game.cpu \o TableCards(game.table) \o game.discard
            deal == DealOf(puzzle.seed)
        IN /\ ToSet(cards) = ToSet(deal.player \o deal.cpu)
           /\ Len(cards) = Len(deal.player) + Len(deal.cpu)

(* What each button can make of a game, the CPU's reply included.          *)
Handfuls(g, max) ==
    {SelectSeq(g.player, LAMBDA c : c \in s) :
        s \in {t \in SUBSET ToSet(g.player) :
                /\ t # {} /\ Cardinality(t) <= max
                /\ \A c, d \in t : c.rank = d.rank}}
PlayerMoves(g) ==
    {ProcessCpuTurn(h) : h \in
        CASE g.phase = "PlayerAttack" ->
                {PlayerAttack(g, s) : s \in Handfuls(g, Least(TableLimit, Len(g.cpu)))}
          [] g.phase = "PlayerThrow" ->
                {PlayerPassThrow(g)} \cup
                {PlayerThrow(g, s) : s \in
                    {t \in Handfuls(g, Monus(AttackLimitAgainstCpu(g), Len(g.table))) :
                        t[1].rank \in RanksOnTable(g.table)}}
          [] g.phase = "PlayerDefense" ->
                {PickUpCards(g, "Player")}
                \cup {DefendOneCard(g, c) : c \in ToSet(g.player)}
                \cup {ExecuteSlide(g, c) : c \in ToSet(g.player)}
          [] OTHER -> {}}

(* The single step the CPU takes after each action never leaves the player *)
(* without a move: a game that is not over waits for the player, and some  *)
(* button changes it.                                                      *)
NeverStuck ==
    game # None /\ game.phase # "Finished" => PlayerMoves(game) \ {game} # {}

(* solved_count counts each puzzle of the day once: it is the index of the *)
(* puzzle at hand, and one more once that puzzle is won, however often the *)
(* modal is opened again or the program restarted.                         *)
EachPuzzleCountedOnce ==
    puzzle.seed # None =>
        puzzle.solved = puzzle.seed[2] + (IF puzzle.completed THEN 1 ELSE 0)

(* INITIAL_MESSAGE, "Select cards of the same rank and play them."; the    *)
(* test of click_card: "another rank replaces the selection".              *)
AttackOfOneRank ==
    [][PressAttack =>
         \A c, d \in ToSet(SelectedCards) : c.rank = d.rank]_durakVars
=============================================================================
