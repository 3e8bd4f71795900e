--------------------------- MODULE MCVerdictTracking ---------------------------
(* A small instance of VerdictTracking.  A change from 100 to 102 is the   *)
(* limit of 2%; the five and twenty-five days are one and two.             *)
EXTENDS VerdictTracking

CONSTANTS a1

OneAnalysis == {a1}
NoAnalysis == {}
=============================================================================
