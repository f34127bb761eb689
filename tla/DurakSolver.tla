---------------------------- MODULE DurakSolver ----------------------------
(***************************************************************************)
(* The search of find_daily_puzzle (break_room/durak.rs): depth first, cut *)
(* off at MaxDepth, a position visited once over the whole search, the CPU *)
(* playing its one reply.  A deal is used when the search finds a win.     *)
(***************************************************************************)
EXTENDS Durak

CONSTANTS
    MaxDepth,       \* 20
    ThrowDepth      \* deeper than this the search also stops throwing in: 3

StateKey(g) == <<g.phase, ToSet(g.player), ToSet(g.cpu), g.table>>

(* The search's own version of a pass.                                     *)
SolverPass(g) ==
    IF CpuIsPickingUp(g) THEN PickUpCards(g, "Cpu")
    ELSE [ClearTable(g) EXCEPT !.phase = "CpuAttack"]

(* The search's own version of a defence looks for no winner.              *)
SolverDefences(g) ==
    LET target == CHOOSE i \in DOMAIN g.table :
                    /\ g.table[i].defense = None
                    /\ \A j \in 1..(i - 1) : g.table[j].defense # None
        options == DefenseOptions(g.player, g.table[target].attack, g.trump)
    IN [k \in DOMAIN options |->
            [g EXCEPT !.table[target] = Covered(@, options[k], "Player"),
                      !.player = Without(@, <<options[k]>>)]]

(* The positions the search looks at next, in its order.                   *)
Options(g, depth) ==
    CASE g.phase = "PlayerAttack" ->
            LET attacks == ValidAttacks(g.player, Least(TableLimit, Len(g.cpu)))
            IN [k \in DOMAIN attacks |-> PlayerAttack(g, attacks[k])]
      [] g.phase = "PlayerThrow" ->
            LET throws == ValidThrows(g.player, g.table, AttackLimitAgainstCpu(g))
                pass == IF throws = <<>> \/ depth > ThrowDepth
                        THEN <<SolverPass(g)>> ELSE <<>>
            IN pass \o [k \in DOMAIN throws |-> PlayerThrow(g, throws[k])]
      [] g.phase = "PlayerDefense" ->
            LET slides == LegalSlideCards(g, "Player")
            IN IF Uncovered(g.table) = <<>> THEN <<[g EXCEPT !.phase = "CpuThrow"]>>
               ELSE SolverDefences(g) \o <<PickUpCards(g, "Player")>>
                    \o [k \in DOMAIN slides |-> ExecuteSlide(g, slides[k])]
      [] OTHER -> <<ProcessCpuTurn(g)>>

(* slip: any end of the game will do.                                      *)
WonAtAnyEnd(g) == g.winner # None

WonByPlayer(g) == g.winner = "Player"

RECURSIVE Dfs(_, _, _)
Dfs(g, depth, visited) ==
    LET seen == visited \cup {StateKey(g)}
        options == Options(g, depth)
        Try[k \in 0..Len(options)] ==
            IF k = 0 THEN [win |-> FALSE, seen |-> seen]
            ELSE IF Try[k - 1].win THEN Try[k - 1]
            ELSE Dfs(options[k], depth + 1, Try[k - 1].seen)
    IN IF depth > MaxDepth \/ StateKey(g) \in visited
       THEN [win |-> FALSE, seen |-> visited]
       ELSE IF g.winner # None THEN [win |-> WonByPlayer(g), seen |-> seen]
       ELSE Try[Len(options)]

Solve(deal) == Dfs(FirstTurn(deal), 0, {}).win

(* The games the player can bring about, by any moves the buttons allow.   *)
RECURSIVE Reached(_, _)
Reached(games, frontier) ==
    LET more == UNION {PlayerMoves(g) : g \in frontier} \ games
    IN IF more = {} THEN games ELSE Reached(games \cup more, more)

Winnable(deal) ==
    \E g \in Reached({FirstTurn(deal)}, {FirstTurn(deal)}) : g.winner = "Player"

(* A deal the search accepts can be won at the table, though the search    *)
(* plays by transitions of its own: no puzzle of the day is hopeless.      *)
AcceptedDealsAreWinnable ==
    puzzle = NoPuzzle /\ today = 0 => Winnable(DealOf(<<0, 0>>))
=============================================================================
