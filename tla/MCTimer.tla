------------------------------ MODULE MCTimer ------------------------------
(***************************************************************************)
(* Small presets for the timer: one countdown with a break, one without    *)
(* (the Demo preset), one exam, one stopwatch, a few seconds each.         *)
(***************************************************************************)
EXTENDS Timer

Preset(m, study, rest, exam) ==
    [mode |-> m, study_seconds |-> study, break_seconds |-> rest,
     exam_seconds |-> exam]

Presets == {Preset("Focus", 2, 1, 1), Preset("Focus", 1, 0, 1)}
=============================================================================
