----------------------------- MODULE EdgarRefresh -----------------------------
(***************************************************************************)
(* The edgar_refresh tool: mcp_server/invoke_handlers/edgar_refresh.py     *)
(* over finance_mcp/edgar.  It finds the company in EDGAR (remembering     *)
(* what it learned), downloads its latest 10-K, has a language model list  *)
(* the suppliers and customers named there, and writes each of them with   *)
(* three queries: the company, whether the edge is there, the edge.        *)
(***************************************************************************)
EXTENDS GraphJobs, Subsequences

CONSTANTS
  Registered,     \* tickers of companies that file with the SEC
  Filers,         \* bound: tickers the tool is asked for
  Extractions     \* for each filer, what the model may answer; the empty
                  \* sequence stands for no key, a failed call, no JSON

Types == {"supplier", "customer"}
Items == [ticker : Tickers, name : Names, type : STRING]

ASSUME FilersAssumption ==
  Filers \subseteq Tickers /\ \A t \in Filers : Extractions[t] \subseteq Seq(Items)

VARIABLE cik      \* _CIK_CACHE: "unread", "registered" or "foreign"

edgarVars == <<graph, loop, job, stated, cik>>

InitEdgar == cik = [t \in Tickers |-> "unread"]

Refused == [kind |-> "edgar", stage |-> "ended", success |-> FALSE]

Refreshing(stage, t) == [kind |-> "edgar", stage |-> stage, ticker |-> t]

(* extract_supplier_relationships keeps what has a type and is not the     *)
(* filer itself.                                                           *)
Kept(t, items) ==
  Those(items, {r \in ToSet(items) : r.type \in Types /\ r.ticker # t})

(* Who depends on whom.  Legally, a company that is not traded is its name *)
(* and not the ticker "UNKNOWN".                                           *)
Directed(t, r) ==
  IF r.type = "supplier" THEN <<t, r.ticker>> ELSE <<r.ticker, t>>

Entity(r) == IF r.ticker = Unlisted THEN r.name ELSE r.ticker
Stated(t, r) ==
  IF r.type = "supplier" THEN <<t, Entity(r)>> ELSE <<Entity(r), t>>

-----------------------------------------------------------------------------
(* get_cik answers from the cache, also that a company does not file.      *)
Refresh(j) ==
  /\ job[j] = New /\ MayRun(j)
  /\ \E t \in Filers :
       \/ cik[t] = "unread" /\ Becomes(j, Refreshing("cik", t))
       \/ cik[t] = "registered" /\ Becomes(j, Refreshing("filing", t))
       \/ cik[t] = "foreign" /\ Becomes(j, Refused)
  /\ UNCHANGED <<graph, loop, stated, cik>>

TickersArrive(j) ==
  /\ At(j, "edgar", "cik") /\ MayRun(j)
  /\ LET t == job[j].ticker
         registered == t \in Registered
     IN /\ cik' = [cik EXCEPT ![t] = IF registered THEN "registered" ELSE "foreign"]
        /\ Becomes(j, IF registered THEN Refreshing("filing", t) ELSE Refused)
  /\ UNCHANGED <<graph, loop, stated>>

(* A download fails, or there is no 10-K: EdgarError or another exception. *)
DownloadFails(j) ==
  /\ At(j, "edgar", "cik") \/ At(j, "edgar", "filing")
  /\ MayRun(j)
  /\ Becomes(j, Refused)
  /\ UNCHANGED <<graph, loop, stated, cik>>

FilingArrives(j) ==
  /\ At(j, "edgar", "filing") /\ MayRun(j)
  /\ Becomes(j, Refreshing("extract", job[j].ticker))
  /\ UNCHANGED <<graph, loop, stated, cik>>

(* The answer.  Of UpdateResult the edges counted as new are kept: those   *)
(* that are stored, and those that are not.                                *)
Refreshed(added, phantom) ==
  [kind |-> "edgar", stage |-> "ended", success |-> TRUE,
   added |-> added, phantom |-> phantom]

EdgarStates ==
  {Refused}
    \cup [kind : {"edgar"}, stage : {"cik", "filing", "extract"}, ticker : Filers]
    \cup [kind : {"edgar"}, stage : {"vertex", "check", "merge"}, ticker : Filers,
          todo : Seq(Items) \ {<<>>}, isNew : BOOLEAN,
          added : SUBSET Pairs, phantom : SUBSET Pairs]
    \cup [kind : {"edgar"}, stage : {"ended"}, success : {TRUE},
          added : SUBSET Pairs, phantom : SUBSET Pairs]

(* The model answers.  Without relationships the tool is done, without a   *)
(* driver for the graph it fails.                                          *)
(* Variant that gives way between the queries that follow:                 *)
ExtractAwaiting(j) ==
  /\ At(j, "edgar", "extract") /\ MayRun(j)
  /\ \E items \in Extractions[job[j].ticker] :
       Becomes(j, [kind |-> "edgar", stage |-> "vertex",
                   ticker |-> job[j].ticker, todo |-> Kept(job[j].ticker, items),
                   isNew |-> FALSE, added |-> {}, phantom |-> {}])
  /\ UNCHANGED <<graph, loop, stated, cik>>

Extract(j) ==
  /\ At(j, "edgar", "extract") /\ MayRun(j)
  /\ \E items \in Extractions[job[j].ticker] :
       LET kept == Kept(job[j].ticker, items)
       IN IF kept = <<>>
          THEN Becomes(j, Refreshed({}, {})) /\ UNCHANGED loop
          ELSE \/ /\ Becomes(j, [kind |-> "edgar", stage |-> "vertex",
                                 ticker |-> job[j].ticker, todo |-> kept,
                                 isNew |-> FALSE, added |-> {}, phantom |-> {}])
                  /\ Hold(j)
               \/ Becomes(j, Refused) /\ UNCHANGED loop
  /\ UNCHANGED <<graph, stated, cik>>

-----------------------------------------------------------------------------
(* update_graph_from_filing, query by query.                               *)
Rel(j) == Head(job[j].todo)
Src(j) == Directed(job[j].ticker, Rel(j))[1]
Dst(j) == Directed(job[j].ticker, Rel(j))[2]

(* The next relationship, or the end.                                      *)
Onward(j, added, phantom) ==
  LET rest == Tail(job[j].todo) IN
    IF rest = <<>>
    THEN Becomes(j, Refreshed(added, phantom)) /\ Release
    ELSE /\ Becomes(j, [job[j] EXCEPT !.todo = rest, !.stage = "vertex",
                          !.isNew = FALSE, !.added = added, !.phantom = phantom])
         /\ UNCHANGED loop

MergeEntity(j) ==
  /\ At(j, "edgar", "vertex")
  /\ graph' = FileCompany(graph, Rel(j).ticker, Rel(j).name)
  /\ Becomes(j, [job[j] EXCEPT !.stage = "check"])
  /\ UNCHANGED <<loop, stated, cik>>

(* Variant that looks for the edge in the other direction:                 *)
CheckEdgeReversed(j) ==
  /\ At(j, "edgar", "check")
  /\ Becomes(j, [job[j] EXCEPT !.stage = "merge",
                               !.isNew = ~ Linked(graph, Dst(j), Src(j))])
  /\ UNCHANGED <<graph, loop, stated, cik>>

CheckEdge(j) ==
  /\ At(j, "edgar", "check")
  /\ Becomes(j, [job[j] EXCEPT !.stage = "merge",
                               !.isNew = ~ Linked(graph, Src(j), Dst(j))])
  /\ UNCHANGED <<graph, loop, stated, cik>>

MergeEdge(j) ==
  /\ At(j, "edgar", "merge")
  /\ graph' = FileDependsOn(graph, Src(j), Dst(j))
  /\ stated' = stated \cup {Stated(job[j].ticker, Rel(j))}
  /\ LET counted == IF job[j].isNew THEN {<<Src(j), Dst(j)>>} ELSE {}
         stored == StoredEdges(graph')
     IN Onward(j, job[j].added \cup (counted \cap stored),
                  job[j].phantom \cup (counted \ stored))
  /\ UNCHANGED cik

(* Any of the three queries raises: the relationship is left where it is.  *)
QueryFails(j) ==
  /\ \E stage \in {"vertex", "check", "merge"} : At(j, "edgar", stage)
  /\ Onward(j, job[j].added, job[j].phantom)
  /\ UNCHANGED <<graph, stated, cik>>

EdgarStep(j) ==
  \/ TickersArrive(j) \/ DownloadFails(j) \/ FilingArrives(j) \/ Extract(j)
  \/ MergeEntity(j) \/ CheckEdge(j) \/ MergeEdge(j) \/ QueryFails(j)
=============================================================================
