---------------------------- MODULE GraphServices ----------------------------
(***************************************************************************)
(* Everything that works on the supply graph, together: EDGAR refreshes,   *)
(* calibrations, news analyses and traces in the one event loop of the     *)
(* server, its seeding endpoint, and the seed script in its own process.   *)
(***************************************************************************)
EXTENDS EdgarRefresh, Calibration, SeedGraph, NewsAnalysis

CONSTANTS
  Kinds,          \* bound: the kinds of requests that are made
  TraceTargets,   \* bound: targets of the trace_impact tool
  HopLimits       \* bound: how far it is asked to look

ASSUME HopLimitsAssumption == HopLimits \subseteq 1..5

allVars == <<graph, loop, job, stated, cik, script>>

Init == InitJobs /\ InitEdgar /\ InitScript

TraceStates ==
  {[kind |-> "trace", stage |-> "ended", success |-> FALSE]}
    \cup [kind : {"trace"}, stage : {"ended"}, success : {TRUE}, target : TraceTargets,
          hops : HopLimits,
          impacted : UNION {[S -> Runs \cup {Absent}] : S \in SUBSET Tickers}]

(* handle_trace_impact: the queries fail or the companies are returned.    *)
TraceImpact(j) ==
  /\ job[j] = New /\ MayRun(j)
  /\ \E v \in TraceTargets, hops \in HopLimits :
       \/ \E found \in Traces(graph, v, hops) :
            Becomes(j, [kind |-> "trace", stage |-> "ended", success |-> TRUE,
                        target |-> v, hops |-> hops, impacted |-> found])
       \/ Becomes(j, [kind |-> "trace", stage |-> "ended", success |-> FALSE])
  /\ UNCHANGED <<graph, loop, stated>>

(* A request comes in.                                                     *)
Request(j) ==
  \/ "edgar" \in Kinds /\ Refresh(j) /\ UNCHANGED script
  \/ "calibration" \in Kinds /\ (Calibrate(j) \/ ReadFails(j)) /\ UNCHANGED <<cik, script>>
  \/ "seed" \in Kinds /\ Seed(j) /\ UNCHANGED <<cik, script>>
  \/ "news" \in Kinds /\ AnalyzeNews(j) /\ UNCHANGED <<cik, script>>
  \/ "trace" \in Kinds /\ TraceImpact(j) /\ UNCHANGED <<cik, script>>

(* A request goes on.                                                      *)
JobStep(j) ==
  \/ EdgarStep(j) /\ UNCHANGED script
  \/ CalibrationStep(j) /\ UNCHANGED <<cik, script>>
  \/ SeedStep(j) /\ UNCHANGED <<cik, script>>
  \/ NewsStep(j) /\ UNCHANGED <<cik, script>>

Next ==
  \/ \E j \in Jobs : Request(j) \/ JobStep(j)
  \/ ScriptStep /\ UNCHANGED cik

Spec == Init /\ [][Next]_allVars

(* Downloads and model calls have timeouts, queries return or raise, and   *)
(* the event loop resumes whoever is ready.                                *)
FairSpec == Spec /\ \A j \in Jobs : WF_allVars(JobStep(j))

-----------------------------------------------------------------------------
JobStates ==
  {New} \cup EdgarStates \cup CalibrationStates \cup SeedStates \cup NewsStates \cup TraceStates

(* Also: the event loop is held by the request that makes blocking calls.  *)
TypeOK ==
  /\ graph \in Graphs
  /\ job \in [Jobs -> JobStates]
  /\ loop \in Jobs \cup {Nobody}
  /\ \A j \in Jobs : loop = j <=> job[j].stage \in Blocking
  /\ stated \subseteq (Tickers \cup Names) \X (Tickers \cup Names)
  /\ cik \in [Tickers -> {"unread", "registered", "foreign"}]
  /\ script \in [runs : 0..MaxScripts, todo : Seq(Queries),
                  stage : {"off", "seeding", "verifying", "complete", "incomplete", "stopped"}]

(* No writer undoes what another one knows.  Companies, edges and events   *)
(* stay; a company keeps the name the seed gave it, an edge its 'EDGAR'    *)
(* tag and, however often it is re-weighted, its calibration.              *)
KnowledgeKept ==
  [][/\ \A t \in Tickers :
          /\ Known(graph, t) => Known(graph', t)
          /\ graph.company[t] = Curated[t] => graph'.company[t] = Curated[t]
     /\ graph.commodity \subseteq graph'.commodity
     /\ \A p \in StoredEdges(graph) :
          /\ p \in StoredEdges(graph')
          /\ graph.depends[p].filed => graph'.depends[p].filed
          /\ graph.depends[p].beta # Absent => graph'.depends[p].beta # Absent
     /\ graph.requires \subseteq graph'.requires
     /\ graph.impacts \subseteq graph'.impacts
     /\ \A e \in Events : graph.severity[e] # NoEvent => graph'.severity[e] # NoEvent]_allVars

(* A seeding that ran to its end, whatever else ran meanwhile, has stored  *)
(* all of its data, and its verification never finds a company missing.    *)
SeedComplete ==
  /\ script.stage # "incomplete"
  /\ script.stage \in {"verifying", "complete"} \/ (\E j \in Jobs :
        At(j, "seed", "ended") /\ job[j].ok) =>
       /\ ToSet(SeedDepends) \subseteq StoredEdges(graph)
       /\ ToSet(SeedRequires) \subseteq graph.requires
       /\ \A i \in 1..Len(SeedEvents) :
            {SeedEvents[i].id} \X ToSet(SeedEvents[i].targets) \subseteq graph.impacts

(* Although each refresh asks whether an edge is there before it writes    *)
(* it, and others write in between, no two report the same edge as added.  *)
NewCountedOnce ==
  \A i, j \in Jobs :
    i # j /\ At(i, "edgar", "ended") /\ At(j, "edgar", "ended")
      /\ job[i].success /\ job[j].success
    => job[i].added \cap job[j].added = {}

(* What the answer s of a trace says of the graph g.                       *)
TellsOf(g, s) ==
  /\ DOMAIN s.impacted = Downstream(g, s.target, s.hops)
  /\ \A t \in DOMAIN s.impacted : s.impacted[t] # Absent =>
       \E d \in {s.target} \cup Requiring(g, s.target) :
         Linked(g, t, d) /\ g.depends[<<t, d>>].beta = s.impacted[t]

(* A trace names exactly the companies downstream within the hops, however *)
(* the rows are ordered and the records of one company replace each other; *)
(* its calibration is that of a company's own edge to the target (to one   *)
(* that requires the target commodity), never of another edge; and nothing *)
(* written later takes a company back out of the target's downstream.      *)
(* The target is itself named where it lies on a cycle.  That is not what  *)
(* docs/architecture.md writes of trace_impact: "WHERE dep.ticker <>       *)
(* $ticker", and "the last edge on the shortest path" for the calibration. *)
TraceFindsDownstream ==
  [][\A j \in Jobs :
       LET s == job'[j] IN
       s.kind = "trace" /\ s.success =>
         /\ job[j] = New => TellsOf(graph, s)
         /\ s.target \notin Tickers \cap Commodities =>
              DOMAIN s.impacted \subseteq Downstream(graph', s.target, s.hops)]_allVars

(* An event reported as ingested is linked to every entity of its article  *)
(* that the graph held when the ingestion began.                           *)
IngestedIsLinked ==
  \A j \in Jobs : At(j, "news", "ingest") \/ At(j, "news", "ingested") =>
    \A i \in 1..Len(job[j].events) :
      LET e == job[j].events[i] IN
        i \in job[j].succeeded =>
          {e.id} \X (ToSet(Entities(e)) \cap job[j].known) \subseteq graph.impacts

(* Events are only lost to a failing graph: the parser never produces one  *)
(* that the client refuses.                                                *)
LostOnlyToGraph ==
  \A j \in Jobs :
    At(j, "news", "ingested") /\ job[j].failed # {} => job[j].hurt

(* news_analysis.py: the ticker is always traced, "regardless of what the  *)
(* news pipeline finds", unless the graph cannot be opened.                *)
AnchorAlwaysTraced ==
  \A j \in Jobs :
    At(j, "news", "ended") /\ job[j].success /\ job[j].anchor \in Vids =>
      job[j].anchor \in job[j].tried

(* Every request is answered, whatever fails.                              *)
EveryRequestEnds == \A j \in Jobs : job[j] # New ~> Ended(j)

-----------------------------------------------------------------------------
(* trace_impact.py: it finds the companies that depend on the target - as  *)
(* stated by the seed data or a filing, of legal entities.                 *)
StatedChain(t, v, hops) ==
  \E n \in 1..hops : \E c \in [0..n -> (Tickers \cup Names)] :
    c[0] = t /\ c[n] = v /\ \A i \in 1..n : <<c[i - 1], c[i]>> \in stated

TracedIsStated ==
  \A j \in Jobs : At(j, "trace", "ended") /\ job[j].success
                  /\ job[j].target \in Tickers \ {Unlisted} =>
    \A t \in DOMAIN job[j].impacted \ {Unlisted} :
      StatedChain(t, job[j].target, job[j].hops)
=============================================================================
