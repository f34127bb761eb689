--------------------------- MODULE MCStudyTracker ---------------------------
(***************************************************************************)
(* Small presets for the application: a countdown of two seconds with a    *)
(* break, and a stopwatch.  A tick is a second; the gaps of restore_timer  *)
(* keep their order (AliveGap < a block <= AbandonAfter).                  *)
(***************************************************************************)
EXTENDS StudyTracker

Preset(m, study, rest, exam) ==
    [mode |-> m, study_seconds |-> study, break_seconds |-> rest,
     exam_seconds |-> exam]

Pomodoro == Preset("Focus", 2, 1, 0)
Presets == {Pomodoro, Preset("Endless", 0, 0, 0)}
ExamPresets == {Preset("Focus", 2, 1, 0), Preset("Exam", 0, 0, 3)}
=============================================================================
