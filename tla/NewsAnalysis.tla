----------------------------- MODULE NewsAnalysis -----------------------------
(***************************************************************************)
(* The analyze_news_impact tool: invoke_handlers/news_analysis.py over the *)
(* ingestion pipeline.  It asks NewsData.io with up to three queries, then *)
(* Google News RSS, parses the articles, writes their events and IMPACTS   *)
(* edges, and traces every company and commodity named in them, and the    *)
(* anchor the caller gave, through the graph.  From the arrival of the     *)
(* articles to the answer nothing is awaited.                              *)
(***************************************************************************)
EXTENDS GraphJobs, EventParser

CONSTANTS
  Anchors,        \* bound: tickers given by callers: None, Blank, or a vid
  None, Blank,    \* no ticker; a ticker of spaces
  Batches,        \* bound: what a fetch returns, sequences of articles
  MaxQueries      \* the queries of the ladder: 3

ASSUME AnchorsAssumption ==
  Anchors \subseteq Vids \cup {None, Blank} /\ {None, Blank} \cap Vids = {}
ASSUME ParserAssumption ==
  KnownCompanies \in Seq(Tickers) /\ KnownCommodities \in Seq(Commodities)
ASSUME BatchesAssumption ==
  Batches \subseteq Seq([id : Events, hits : SUBSET Nat, names : SUBSET Vids])
ASSUME MaxQueriesAssumption == MaxQueries \in Nat \ {0}

(* A request that waits for articles, one that writes their events, one    *)
(* that traces the entities, and the answer: of that, whether it reports   *)
(* success and whose cascade was asked for.  known (what the graph held    *)
(* when the ingestion began) and hurt (a query failed) are history.        *)
Fetching(stage, anchor, queries) ==
  [kind |-> "news", stage |-> stage, anchor |-> anchor, queries |-> queries]

Ingesting(anchor, events, known) ==
  [kind |-> "news", stage |-> "ingest", anchor |-> anchor, events |-> events,
   next |-> 1, step |-> 0, succeeded |-> {}, failed |-> {},
   known |-> known, hurt |-> FALSE]

Answer(success, anchor, tried) ==
  [kind |-> "news", stage |-> "ended", success |-> success, anchor |-> anchor,
   tried |-> tried]

ParsedEvents ==
  [id : Events, severity : Nat, companies : Seq(Tickers), commodities : Seq(Commodities)]

NewsStates ==
  [kind : {"news"}, stage : {"fetch", "rss"}, anchor : Anchors, queries : 0..MaxQueries]
    \cup [kind : {"news"}, stage : {"ingest", "ingested"}, anchor : Anchors,
          events : Seq(ParsedEvents), next : Nat, step : Nat,
          succeeded : SUBSET Nat, failed : SUBSET Nat,
          known : SUBSET Vids, hurt : BOOLEAN]
    \cup [kind : {"news"}, stage : {"trace"}, anchor : Anchors,
          toTrace : SUBSET Vids, tried : SUBSET Vids]
    \cup [kind : {"news"}, stage : {"ended"}, success : BOOLEAN, anchor : Anchors,
          tried : SUBSET Vids]

Entities(e) == e.companies \o e.commodities
EntitiesOf(events) == UNION {ToSet(Entities(events[i])) : i \in 1..Len(events)}

(* The ladder: the first three words, two words, one, without repetition.  *)
AnalyzeNews(j) ==
  /\ job[j] = New /\ MayRun(j)
  /\ \E a \in Anchors, n \in 1..MaxQueries : Becomes(j, Fetching("fetch", a, n))
  /\ UNCHANGED <<graph, loop, stated>>

-----------------------------------------------------------------------------
(* What the handler does once the pipeline is over: collect the entities,  *)
(* add the anchor, and trace them; with nothing to trace, answer.          *)
(* Variant that leaves the anchor to the parser when there are events:     *)
AnchoredIfNoEvents(anchor, events) ==
  IF anchor \in {None, Blank} \/ events # <<>> THEN {} ELSE {anchor}

Anchored(anchor, events) == IF anchor \in {None, Blank} THEN {} ELSE {anchor}

Collect(j, anchor, events) ==
  LET entities == EntitiesOf(events) \cup Anchored(anchor, events)
  IN IF entities = {}
     THEN Becomes(j, Answer(TRUE, anchor, {})) /\ Release
     ELSE /\ Becomes(j, [kind |-> "news", stage |-> "trace", anchor |-> anchor,
                         toTrace |-> entities, tried |-> {}])
          /\ Hold(j)

(* The pipeline raises: no API key, an answer of another shape than        *)
(* expected, or no driver for the ingestion.  Without a ticker that is the *)
(* answer.                                                                 *)
MayFail(j) ==
  \/ At(j, "news", "fetch")
  \/ At(j, "news", "ingest") /\ job[j].next = 1 /\ job[j].step = 0

PipelineFails(j) ==
  /\ MayFail(j) /\ MayRun(j)
  /\ IF job[j].anchor = None
     THEN Becomes(j, Answer(TRUE, None, {})) /\ Release
     ELSE Collect(j, job[j].anchor, <<>>)
  /\ UNCHANGED <<graph, stated>>

(* Articles arrive and are parsed; without an event nothing is ingested.   *)
ArticlesArrive(j) ==
  /\ At(j, "news", "fetch") \/ At(j, "news", "rss")
  /\ MayRun(j)
  /\ \E articles \in Batches :
       LET events == ParseArticles(articles) IN
         IF events = <<>> THEN Collect(j, job[j].anchor, <<>>)
         ELSE /\ Becomes(j, Ingesting(job[j].anchor, events,
                                      {v \in Vids : Matches(graph, v)}))
              /\ Hold(j)
  /\ UNCHANGED <<graph, stated>>

(* A query without articles: any failure counts as none.  After the last   *)
(* one the RSS feed is tried; without articles there, nothing is ingested. *)
NoArticles(j) ==
  /\ MayRun(j)
  /\ \/ /\ At(j, "news", "fetch")
        /\ Becomes(j, Fetching(IF job[j].queries = 1 THEN "rss" ELSE "fetch",
                               job[j].anchor, job[j].queries - 1))
        /\ UNCHANGED loop
     \/ /\ At(j, "news", "rss")
        /\ Collect(j, job[j].anchor, <<>>)
  /\ UNCHANGED <<graph, stated>>

-----------------------------------------------------------------------------
(* EventIngestor.ingest: an event is its vertex and one edge per entity;   *)
(* step counts the queries already made.  A query that fails ends the      *)
(* event, not the batch.                                                   *)
Event(j) == job[j].events[job[j].next]

EventOver(j, s) ==
  IF s.next > Len(s.events)
  THEN Becomes(j, [s EXCEPT !.stage = "ingested"]) /\ UNCHANGED loop
  ELSE Becomes(j, s) /\ UNCHANGED loop

QueryMade(j) ==
  IF job[j].step = Len(Entities(Event(j)))
  THEN EventOver(j, [job[j] EXCEPT !.next = @ + 1, !.step = 0,
                                   !.succeeded = @ \cup {job[j].next}])
  ELSE Becomes(j, [job[j] EXCEPT !.step = @ + 1]) /\ UNCHANGED loop

(* upsert_event refuses a severity outside its range.                      *)
Refuses(e) == e.severity \notin Severities

(* Variant that writes the edges before the event:                         *)
IngestLinksFirst(j) ==
  /\ At(j, "news", "ingest")
  /\ ~ (job[j].step = 0 /\ Refuses(Event(j)))
  /\ graph' = IF job[j].step = Len(Entities(Event(j)))
              THEN UpsertEvent(graph, Event(j).id, Event(j).severity)
              ELSE InsertImpacts(graph, Event(j).id, Entities(Event(j))[job[j].step + 1])
  /\ QueryMade(j)
  /\ UNCHANGED stated

Ingest(j) ==
  /\ At(j, "news", "ingest")
  /\ ~ (job[j].step = 0 /\ Refuses(Event(j)))
  /\ graph' = IF job[j].step = 0
              THEN UpsertEvent(graph, Event(j).id, Event(j).severity)
              ELSE InsertImpacts(graph, Event(j).id, Entities(Event(j))[job[j].step])
  /\ QueryMade(j)
  /\ UNCHANGED stated

(* Variant that tries the event again:                                     *)
IngestFailsRetrying(j) ==
  /\ At(j, "news", "ingest")
  /\ Becomes(j, [job[j] EXCEPT !.step = 0, !.hurt = TRUE])
  /\ UNCHANGED <<graph, loop, stated>>

IngestFails(j) ==
  /\ At(j, "news", "ingest")
  /\ EventOver(j, [job[j] EXCEPT
       !.next = @ + 1, !.step = 0, !.failed = @ \cup {job[j].next},
       !.hurt = @ \/ ~ (job[j].step = 0 /\ Refuses(Event(j)))])
  /\ UNCHANGED <<graph, stated>>

-----------------------------------------------------------------------------
(* The pipeline has returned.                                              *)
IngestEnds(j) ==
  /\ At(j, "news", "ingested")
  /\ Collect(j, job[j].anchor, job[j].events)
  /\ UNCHANGED <<graph, stated>>

(* Stages 4 and 5: one trace after the other.  What a trace finds is in    *)
(* SupplyGraph; one that finds nothing or fails is left out of the answer. *)
TraceEntity(j) ==
  /\ At(j, "news", "trace")
  /\ LET v == CHOOSE u \in job[j].toTrace : TRUE   \* the order of the dicts
         left == job[j].toTrace \ {v}
         tried == job[j].tried \cup {v}
     IN IF left = {}
        THEN Becomes(j, Answer(TRUE, job[j].anchor, tried)) /\ Release
        ELSE /\ Becomes(j, [job[j] EXCEPT !.toTrace = left, !.tried = tried])
             /\ UNCHANGED loop
  /\ UNCHANGED <<graph, stated>>

(* GraphClient cannot be opened.                                           *)
NoGraph(j) ==
  /\ At(j, "news", "trace") /\ job[j].tried = {}
  /\ Becomes(j, Answer(FALSE, job[j].anchor, {})) /\ Release
  /\ UNCHANGED <<graph, stated>>

NewsStep(j) ==
  \/ PipelineFails(j) \/ ArticlesArrive(j) \/ NoArticles(j)
  \/ Ingest(j) \/ IngestFails(j) \/ IngestEnds(j) \/ TraceEntity(j) \/ NoGraph(j)
=============================================================================
