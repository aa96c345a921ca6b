---------------------------- MODULE MCFinalStage ----------------------------
(* Two online runs: one that spends on days 1 and 3, one on day 2 alone.    *)
EXTENDS FinalStage

MCSchedule == <<{1, 3}, {2}>>
=============================================================================
