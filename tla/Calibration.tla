----------------------------- MODULE Calibration -----------------------------
(***************************************************************************)
(* POST /calibrate/edges: the background task that reads all DEPENDS_ON    *)
(* edges, downloads two years of prices for each company on them, one      *)
(* after the other, and then fits and writes beta, lag and fit of each     *)
(* edge (finance_mcp/causal).  Between the reading and the writing every   *)
(* other request may run, also another calibration.  Of the regression     *)
(* only its outcome is kept: numbers, or too few common days.              *)
(***************************************************************************)
EXTENDS GraphJobs

CONSTANT Priced   \* tickers yfinance knows under some suffix

ASSUME PricedAssumption == Priced \subseteq Tickers

Ends(edges) == {e[1] : e \in edges} \cup {e[2] : e \in edges}

Calibrating(stage, edges, tickers, prices) ==
  [kind |-> "calibration", stage |-> stage, edges |-> edges,
   tickers |-> tickers, prices |-> prices, updated |-> {}]

(* The end, with edges_updated.                                            *)
Calibrated(updated) ==
  [kind |-> "calibration", stage |-> "ended", updated |-> updated]

CalibrationStates ==
  [kind : {"calibration"}, stage : {"prices", "write"}, edges : SUBSET Pairs,
   tickers : SUBSET Tickers, prices : SUBSET Tickers, updated : SUBSET Pairs]
    \cup [kind : {"calibration"}, stage : {"ended"}, updated : SUBSET Pairs]

(* The endpoint answers at once; the task reads the edges when it starts.  *)
Calibrate(j) ==
  /\ job[j] = New /\ MayRun(j)
  /\ LET edges == StoredEdges(graph)
     IN Becomes(j, IF edges = {} THEN Calibrated({})
                   ELSE Calibrating("prices", edges, Ends(edges), {}))
  /\ UNCHANGED <<graph, loop, stated>>

(* The query for the edges raises; _run_edge_calibration logs it.          *)
ReadFails(j) ==
  /\ job[j] = New /\ MayRun(j)
  /\ Becomes(j, Calibrated({}))
  /\ UNCHANGED <<graph, loop, stated>>

(* fetch_price_history: the first suffix with prices, else an empty frame. *)
(* Downloads that raise are taken for empty ones.  After the last company  *)
(* the edges are written without another await.                            *)
PricesArrive(j) ==
  /\ At(j, "calibration", "prices") /\ MayRun(j)
  /\ LET t == CHOOSE u \in job[j].tickers : TRUE   \* they are sorted
         rest == job[j].tickers \ {t}
     IN /\ \E found \in IF t \in Priced THEN {{}, {t}} ELSE {{}} :
             Becomes(j, Calibrating(IF rest = {} THEN "write" ELSE "prices",
                                    job[j].edges, rest,
                                    job[j].prices \cup found))
        /\ IF rest = {} THEN Hold(j) ELSE UNCHANGED loop
  /\ UNCHANGED <<graph, stated>>

-----------------------------------------------------------------------------
HasPrices(j, e) == {e[1], e[2]} \subseteq job[j].prices

NextEdge(j, e, updated) ==
  LET left == job[j].edges \ {e} IN
    IF left = {} THEN Becomes(j, Calibrated(updated)) /\ Release
    ELSE /\ Becomes(j, [job[j] EXCEPT !.edges = left, !.updated = updated])
         /\ UNCHANGED loop

(* Prices of both companies, enough common days: the edge is written.      *)
Write(j) ==
  /\ At(j, "calibration", "write")
  /\ \E e \in job[j].edges :
       /\ HasPrices(j, e)
       /\ graph' = UpdateEdgeCausal(graph, e[1], e[2], j)
       /\ NextEdge(j, e, job[j].updated \cup {e})
  /\ UNCHANGED stated

(* No prices, too few common days, or an exception of fit or query.        *)
Skip(j) ==
  /\ At(j, "calibration", "write")
  /\ \E e \in job[j].edges : NextEdge(j, e, job[j].updated)
  /\ UNCHANGED <<graph, stated>>

CalibrationStep(j) == PricesArrive(j) \/ Write(j) \/ Skip(j)
=============================================================================
