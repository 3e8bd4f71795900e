----------------------------- MODULE SupplyGraph -----------------------------
(***************************************************************************)
(* The supply chain graph in Memgraph and the queries of                   *)
(* finance_mcp/graph/client.py, as operators on a graph.  A write takes a  *)
(* graph to the graph after it; MERGE creates what is missing and keeps    *)
(* what is there, MATCH without a match makes the query do nothing.        *)
(*                                                                         *)
(* The attributes kept are those that more than one writer touches: the    *)
(* name of a company, and of a DEPENDS_ON edge who gave its weight,        *)
(* whether it carries source = 'EDGAR', and the calibration its beta, lag  *)
(* and fit come from.                                                      *)
(***************************************************************************)
EXTENDS Integers, Sequences, FiniteSets, SequencesExt

CONSTANTS
  Tickers,        \* tickers of companies, listed or not
  Commodities,    \* commodity ids
  Events,         \* event ids
  Names,          \* names of companies
  Runs,           \* calibrations
  Curated,        \* the name that the seed data gives a ticker
  Absent          \* no such vertex or edge, or NULL

ASSUME TickersAssumption == IsFiniteSet(Tickers)
ASSUME CuratedAssumption == Curated \in [Tickers -> Names]

Vids == Tickers \cup Commodities
Pairs == Tickers \X Tickers
Edges == [weight : {"curated", "filing"}, filed : BOOLEAN, beta : Runs \cup {Absent}]
Severities == 0..10

ASSUME AbsentAssumption == Absent \notin Names \cup Runs \cup Edges

Graphs ==
  [company : [Tickers -> Names \cup {Absent}],
   commodity : SUBSET Commodities,
   depends : [Pairs -> Edges \cup {Absent}],
   requires : SUBSET (Tickers \X Commodities),
   severity : [Events -> Severities \cup {-1}],
   impacts : SUBSET (Events \X Vids)]

NoEvent == -1     \* the severity of an event that is not stored

EmptyGraph ==
  [company |-> [t \in Tickers |-> Absent],
   commodity |-> {},
   depends |-> [p \in Pairs |-> Absent],
   requires |-> {},
   severity |-> [e \in Events |-> NoEvent],
   impacts |-> {}]

Known(g, t) == g.company[t] # Absent
Linked(g, src, dst) == <<src, dst>> \in Pairs /\ g.depends[<<src, dst>>] # Absent

-----------------------------------------------------------------------------
(* Vertex writes.                                                          *)
InsertCompany(g, t) == [g EXCEPT !.company[t] = Curated[t]]

InsertCommodity(g, c) == [g EXCEPT !.commodity = @ \cup {c}]

UpsertEvent(g, e, s) == [g EXCEPT !.severity[e] = s]

(* Edge writes.  SET gives the edge the attributes that it names.          *)
Merged(edge) ==
  IF edge = Absent THEN [weight |-> "curated", filed |-> FALSE, beta |-> Absent]
  ELSE edge

InsertDependsOn(g, src, dst) ==
  IF Known(g, src) /\ Known(g, dst)
  THEN [g EXCEPT !.depends[<<src, dst>>] = [Merged(@) EXCEPT !.weight = "curated"]]
  ELSE g

InsertRequires(g, t, c) ==
  IF Known(g, t) /\ c \in g.commodity
  THEN [g EXCEPT !.requires = @ \cup {<<t, c>>}]
  ELSE g

Matches(g, v) == (v \in Tickers /\ Known(g, v)) \/ v \in g.commodity

InsertImpacts(g, e, v) ==
  IF g.severity[e] # NoEvent /\ Matches(g, v)
  THEN [g EXCEPT !.impacts = @ \cup {<<e, v>>}]
  ELSE g

UpdateEdgeCausal(g, src, dst, run) ==
  IF Linked(g, src, dst)
  THEN [g EXCEPT !.depends[<<src, dst>>] = [@ EXCEPT !.beta = run]]
  ELSE g

(* The two writes of graph_updater.py, which pass the client by: a new     *)
(* company gets the name in the filing, a known one keeps its own.         *)
FileCompany(g, t, name) ==
  IF Known(g, t) THEN g ELSE [g EXCEPT !.company[t] = name]

(* Variant that replaces all attributes of the edge (SET r = {...}):       *)
FileDependsOnReplacing(g, src, dst) ==
  IF Known(g, src) /\ Known(g, dst)
  THEN [g EXCEPT !.depends[<<src, dst>>] =
          [weight |-> "filing", filed |-> TRUE, beta |-> Absent]]
  ELSE g

FileDependsOn(g, src, dst) ==
  IF Known(g, src) /\ Known(g, dst)
  THEN [g EXCEPT !.depends[<<src, dst>>] =
          [Merged(@) EXCEPT !.weight = "filing", !.filed = TRUE]]
  ELSE g

-----------------------------------------------------------------------------
(* Reads.                                                                  *)
StoredEdges(g) == {p \in Pairs : g.depends[p] # Absent}

Requiring(g, c) == {t \in Tickers : <<t, c>> \in g.requires}

Dependents(g, targets) == {t \in Tickers : \E d \in targets : Linked(g, t, d)}

(* (impacted)-[:DEPENDS_ON*1..hops]->(target).  A path may not use an edge *)
(* twice; what can be reached at all can be reached without doing so.      *)
(* Variant that follows one edge less:                                     *)
ReachedShort(g, target, hops) ==
  LET within[n \in 0..hops] ==
        IF n = 0 THEN {}
        ELSE within[n - 1] \cup Dependents(g, within[n - 1] \cup {target})
  IN within[hops - 1]

Reached(g, target, hops) ==
  LET within[n \in 0..hops] ==
        IF n = 0 THEN {}
        ELSE within[n - 1] \cup Dependents(g, within[n - 1] \cup {target})
  IN within[hops]

(* _trace_company_impact: the companies, each with the calibration of its  *)
(* own edge to the target, if it has one.                                  *)
Direct(g, t, target) ==
  IF Linked(g, t, target) THEN g.depends[<<t, target>>].beta ELSE Absent

TraceCompany(g, target, hops) ==
  [t \in Reached(g, target, hops) |-> Direct(g, t, target)]

(* trace_impact of a commodity: each requiring company, with nothing, and  *)
(* those that its own trace finds, which may be itself again.  Of records  *)
(* of the same company the last replaces the others, in the order of rows. *)
TraceRequiring(g, rows, hops) ==
  LET finding(t) == {i \in 1..Len(rows) :
                      t \in {rows[i]} \cup Reached(g, rows[i], hops)}
  IN [t \in {u \in Tickers : finding(u) # {}} |-> Direct(g, t, rows[Max(finding(t))])]

(* The answers trace_impact may give: the database orders the rows.        *)
Traces(g, v, hops) ==
  IF v \in g.commodity
  THEN {TraceRequiring(g, rows, hops) : rows \in SetToSeqs(Requiring(g, v))}
  ELSE {TraceCompany(g, v, hops)}

-----------------------------------------------------------------------------
(* What a trace is to find.  A chain of at most hops edges leads from      *)
(* company t to company v.                                                 *)
Chain(g, t, v, hops) ==
  \E n \in 1..hops : \E c \in [0..n -> Tickers] :
    /\ c[0] = t /\ c[n] = v
    /\ \A i \in 1..n : Linked(g, c[i - 1], c[i])

Downstream(g, v, hops) ==
  IF v \in g.commodity
  THEN {t \in Tickers : <<t, v>> \in g.requires
                        \/ \E r \in Requiring(g, v) : Chain(g, t, r, hops)}
  ELSE {t \in Tickers : v \in Tickers /\ Chain(g, t, v, hops)}
=============================================================================
