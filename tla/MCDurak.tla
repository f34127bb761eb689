------------------------------ MODULE MCDurak ------------------------------
(***************************************************************************)
(* Daily Durak on a deck of six cards: two suits, three ranks.  The player *)
(* gets three of them or two, the CPU two; as in find_daily_puzzle the     *)
(* hands are sorted, the player's best card is swapped for the CPU's worst *)
(* if it is higher, and the solver has the last word.                      *)
(***************************************************************************)
EXTENDS DurakSolver, FiniteSets

Card(s, r) == [suit |-> s, rank |-> r]
Deck == {Card(s, r) : s \in Suits, r \in 1..3}

(* A hand in order of rank; within a rank, in one order of the suits.      *)
Before(c, d) ==
    \/ c.rank < d.rank
    \/ c.rank = d.rank /\ c.suit = "hearts" /\ d.suit # "hearts"
Rising(s) ==
    CHOOSE q \in [1..Cardinality(s) -> s] :
        \A i \in DOMAIN q : \A j \in (i + 1)..Len(q) : Before(q[i], q[j])
Falling(s) == Reverse(Rising(s))

Swapped(p, c) ==
    IF p[1].rank > c[1].rank THEN <<<<c[1]>> \o Tail(p), <<p[1]>> \o Tail(c)>>
    ELSE <<p, c>>

DealTo(p, c, t) ==
    LET hands == Swapped(Falling(p), Rising(c))
    IN [player |-> hands[1], cpu |-> hands[2], trump |-> t]

Accepted ==
    {d \in UNION {{DealTo(p, c, t) : c \in kSubset(2, Deck \ p)} :
                    p \in kSubset(3, Deck) \cup kSubset(2, Deck), t \in Suits} :
        Solve(d)}

(* A larger deal, of four ranks, in which the player gets to slide.        *)
Wide ==
    [player |-> <<Card("hearts", 1), Card("hearts", 3), Card("hearts", 2), Card("clubs", 1)>>,
     cpu |-> <<Card("clubs", 3), Card("clubs", 2), Card("clubs", 4)>>,
     trump |-> "hearts"]

(* Two deals for a run: each accepted deal, then the next in the order of  *)
(* a number written from the hands, or once none.                          *)
CardNumber(c) == 2 * c.rank + (IF c.suit = "hearts" THEN 1 ELSE 0)
Number(d) ==
    FoldLeft(LAMBDA n, c : 8 * n + CardNumber(c),
             2 * Len(d.player) + (IF d.trump = "hearts" THEN 1 ELSE 0), d.player \o d.cpu)
AcceptedDeals ==
    LET numbered == {<<Number(d), d>> : d \in Accepted}
        place == [n \in numbered |-> Cardinality({m \in numbered : m[1] < n[1]})]
        At(k) == (CHOOSE n \in numbered : place[n] = k % Cardinality(numbered))[2]
    IN {<<At(k), At(k + 1)>> : k \in 1..Cardinality(numbered)} \cup {<<Wide>>, <<At(1), None>>}
=============================================================================
