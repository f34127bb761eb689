---------------------------- MODULE StudyLedger ----------------------------
(***************************************************************************)
(* What the timer promises to whoever reads the study history, with no     *)
(* word of modes, countdowns, anchors or segments: wall time is cut into   *)
(* ticks; a tick during which the student is at work belongs to the block  *)
(* in progress; a block is credited to the ledger as a whole, once, or     *)
(* discarded as a whole; nothing leaves the ledger.                        *)
(***************************************************************************)
EXTENDS Integers

CONSTANT None       \* no deadline

VARIABLES
    now,        \* the current tick
    counting,   \* is the student at work?
    deadline,   \* the tick the block in progress ends at, or None
    block,      \* ticks worked in the block in progress
    ledger,     \* ticks credited
    notice      \* how the last step credited a block: "saved", "expired", "none"

vars == <<now, counting, deadline, block, ledger, notice>>

Init ==
    /\ now \in Nat
    /\ counting = FALSE
    /\ deadline = None
    /\ block = {}
    /\ ledger = {}
    /\ notice = "none"

Tick ==
    /\ now' = now + 1
    /\ block' = IF counting THEN block \cup {now} ELSE block
    /\ notice' = "none"
    /\ UNCHANGED <<counting, deadline, ledger>>

(* Work starts or resumes, possibly against a deadline.                    *)
Work ==
    /\ ~counting
    /\ counting' = TRUE
    /\ deadline' = None \/ deadline' >= now
    /\ notice' = "none"
    /\ UNCHANGED <<now, block, ledger>>

(* Work is held; the block stays open, and its deadline is gone.           *)
Hold ==
    /\ counting
    /\ counting' = FALSE
    /\ deadline' = None
    /\ notice' = "none"
    /\ UNCHANGED <<now, block, ledger>>

(* Nothing is in progress any more.                                        *)
Close ==
    /\ counting' = FALSE
    /\ deadline' = None
    /\ block' = {}
    /\ UNCHANGED now

(* The student saves the block: all of it enters the ledger.               *)
Save == Close /\ ledger' = ledger \cup block /\ notice' = "saved"

(* The deadline has passed: what was worked before it enters the ledger.   *)
Expire ==
    /\ counting
    /\ deadline # None
    /\ deadline <= now
    /\ ledger' = ledger \cup {t \in block : t < deadline}
    /\ notice' = "expired"
    /\ Close

(* The whole block is thrown away.                                         *)
Discard == Close /\ notice' = "none" /\ UNCHANGED ledger

(* Something that is no study happens.                                     *)
Aside == notice' = "none" /\ UNCHANGED <<now, counting, deadline, block, ledger>>

Next == Tick \/ Work \/ Hold \/ Save \/ Expire \/ Discard \/ Aside

Spec == Init /\ [][Next]_vars
=============================================================================
