-------------------------- MODULE MCFreqDiscipline --------------------------
(* Instance of FreqDiscipline for TLC: polls below the minimum, negative     *)
(* ones and one above the maximum.                                           *)
EXTENDS FreqDiscipline

SomePolls == {-1, 0, 2, 4}
=============================================================================
