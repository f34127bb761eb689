------------------------------ MODULE RestRoom ------------------------------
(***************************************************************************)
(* The two clocks of the rest room: the rest timer and the breathing       *)
(* exercise (break_room/rest.rs), and the handlers of                      *)
(* break_room_controller.rs that hold their anchors.  Nothing of them is   *)
(* stored.  Time is counted in the ticks of the monotonic clock, a second  *)
(* being one; a tick of the interface may come late, or the user may press *)
(* a button before it.                                                     *)
(***************************************************************************)
EXTENDS Integers

CONSTANTS
    Minute,         \* seconds of a minute: 60
    DefaultMinutes, \* 5
    Faces,          \* seconds an edit of the face can give
    LastBreath,     \* BREATH_LAST_SECOND: 75
    LastSecond,     \* bound: the last second
    NoAnchor

VARIABLES
    second,         \* the monotonic clock
    rest,           \* RestTimer
    restAnchor,     \* rest_anchor: when it was started, and with what left
    breathing,      \* Breathing
    breathAnchor,   \* breath_anchor
    owed            \* seconds still to run, of those last set

restVars == <<second, rest, restAnchor, breathing, breathAnchor, owed>>

RestFull(minutes) == minutes * Minute

RestInit ==
    /\ second = 0 /\ owed = RestFull(DefaultMinutes)
    /\ rest = [minutes |-> DefaultMinutes, remaining |-> RestFull(DefaultMinutes),
               running |-> FALSE]
    /\ restAnchor = NoAnchor
    /\ breathing = [on |-> FALSE, elapsed |-> 0] /\ breathAnchor = NoAnchor

(* RestTimer::toggle: a finished timer is refilled when it is started.     *)
Toggled ==
    [rest EXCEPT !.running = ~ @,
                 !.remaining = IF ~rest.running /\ @ = 0 THEN RestFull(rest.minutes) ELSE @]

(* slip: an anchor once taken is kept.                                     *)
AnchorKept ==
    IF ~Toggled.running THEN restAnchor
    ELSE IF restAnchor = NoAnchor THEN <<second, Toggled.remaining>> ELSE restAnchor

AnchorOfToggled ==
    IF Toggled.running THEN <<second, Toggled.remaining>> ELSE NoAnchor

(* START and PAUSE; what ran since the last tick is given back.            *)
RestToggle ==
    /\ rest' = Toggled /\ restAnchor' = AnchorOfToggled
    /\ owed' = IF ~rest.running /\ rest.remaining = 0 THEN RestFull(rest.minutes) ELSE owed
    /\ UNCHANGED <<second, breathing, breathAnchor>>

RestReset ==
    /\ rest' = [rest EXCEPT !.running = FALSE, !.remaining = RestFull(rest.minutes)]
    /\ restAnchor' = NoAnchor /\ owed' = RestFull(rest.minutes)
    /\ UNCHANGED <<second, breathing, breathAnchor>>

(* An edit of the face; the minutes are rounded, and at least one.         *)
RestSetSeconds(n) ==
    LET rounded == (2 * n + Minute) \div (2 * Minute)
    IN /\ ~rest.running
       /\ rest' = [rest EXCEPT !.minutes = IF rounded > 1 THEN rounded ELSE 1,
                               !.remaining = n]
       /\ owed' = n
       /\ UNCHANGED <<second, restAnchor, breathing, breathAnchor>>

(* rest_tick, and RestTimer::advance_to.                                   *)
RestTick ==
    /\ restAnchor # NoAnchor
    /\ LET elapsed == second - restAnchor[1]
           left == IF elapsed < restAnchor[2] THEN restAnchor[2] - elapsed ELSE 0
       IN /\ rest' = IF ~rest.running THEN rest
                     ELSE [rest EXCEPT !.remaining = left, !.running = left # 0]
          /\ restAnchor' = IF rest'.running THEN restAnchor ELSE NoAnchor
    /\ UNCHANGED <<second, breathing, breathAnchor, owed>>

BreathToggle ==
    /\ breathing' = [on |-> ~breathing.on, elapsed |-> 0]
    /\ breathAnchor' = IF breathing.on THEN NoAnchor ELSE second
    /\ UNCHANGED <<second, rest, restAnchor, owed>>

(* breath_tick: the exercise ends on the tick after the last second.       *)
BreathTick ==
    /\ breathAnchor # NoAnchor
    /\ LET elapsed == second - breathAnchor
       IN /\ breathing' = IF elapsed > LastBreath THEN [on |-> FALSE, elapsed |-> 0]
                          ELSE [breathing EXCEPT !.elapsed = elapsed]
          /\ breathAnchor' = IF elapsed > LastBreath THEN NoAnchor ELSE breathAnchor
    /\ UNCHANGED <<second, rest, restAnchor, owed>>

SecondPasses ==
    /\ second < LastSecond /\ second' = second + 1
    /\ owed' = owed - IF rest.running /\ owed > 0 THEN 1 ELSE 0
    /\ UNCHANGED <<rest, restAnchor, breathing, breathAnchor>>

RestNext ==
    \/ RestToggle \/ RestReset \/ RestTick
    \/ \E n \in Faces : RestSetSeconds(n)
    \/ BreathToggle \/ BreathTick \/ SecondPasses

RestSpec == RestInit /\ [][RestNext]_restVars
-----------------------------------------------------------------------------
(* A rest is never cut short: over pauses, late ticks and buttons pressed  *)
(* before them, it has no less left than what was set less what ran.       *)
RestNotCutShort == rest.remaining >= owed
=============================================================================
