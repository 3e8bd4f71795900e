----------------------------- MODULE MCRateLimit -----------------------------
(* Small instance of RateLimit: one valid key and one wrong one, a limit   *)
(* of three requests per window of three ticks, a clock long enough for    *)
(* the window to slide over several generations of admissions.             *)
EXTENDS RateLimit

CONSTANTS good, bad

MCKeys == {good, bad}
=============================================================================
