------------------------------ MODULE GraphJobs ------------------------------
(***************************************************************************)
(* The requests that work on the supply graph, and the event loop of the   *)
(* server they share.  A request gives way only where it awaits; its graph *)
(* queries are blocking calls, so from its first query to its last await   *)
(* no other request of the server takes a step.  What runs in a process of *)
(* its own, the seed script, may act between any two queries.              *)
(***************************************************************************)
EXTENDS SupplyGraph

CONSTANTS
  Jobs,           \* requests in the life of the server
  Nobody,         \* the event loop is not in a stretch of blocking calls
  Unlisted        \* the ticker "UNKNOWN" of companies that are not traded

ASSUME JobsAssumption == Runs = Jobs /\ Nobody \notin Jobs

VARIABLES
  graph,          \* the graph in the database
  loop,           \* the request in a stretch of blocking calls
  job,            \* the kind of each request, where it stands and what it holds
  stated          \* history: who depends on whom, as stated by seed and filings

vars == <<graph, loop, job, stated>>

New == [kind |-> "none", stage |-> "new"]
At(j, kind, stage) == job[j].kind = kind /\ job[j].stage = stage
Ended(j) == job[j].stage = "ended"

(* Where a request makes blocking calls until its next await.              *)
Blocking == {"vertex", "check", "merge", "write", "ingest", "ingested", "trace"}

(* The request j may run.                                                  *)
MayRun(j) == loop \in {Nobody, j}

Becomes(j, state) == job' = [job EXCEPT ![j] = state]
Release == loop' = Nobody
Hold(j) == loop' = j

InitJobs ==
  /\ graph = EmptyGraph
  /\ loop = Nobody
  /\ job = [j \in Jobs |-> New]
  /\ stated = {}
=============================================================================
