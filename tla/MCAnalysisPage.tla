---------------------------- MODULE MCAnalysisPage ----------------------------
(* Small instances of AnalysisPage: all evidence, and questions with and   *)
(* without a ticker, a framing and words that make the agents look at the  *)
(* news ("inflation" makes only the bear do so).                           *)
EXTENDS AnalysisPage

Ask(ticker, framing, bullNews, bearNews) ==
  [ticker |-> ticker, framing |-> framing, bullNews |-> bullNews, bearNews |-> bearNews]

AskedFor ==
  {Ask(TRUE, 0, TRUE, TRUE), Ask(TRUE, -2, TRUE, TRUE),
   Ask(TRUE, 0, FALSE, TRUE), Ask(FALSE, 0, TRUE, TRUE)}
=============================================================================
