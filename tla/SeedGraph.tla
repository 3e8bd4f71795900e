------------------------------ MODULE SeedGraph ------------------------------
(***************************************************************************)
(* Seeding the graph: scripts/seed_production_data.py, as a script in a    *)
(* process of its own, which ends with a verification, and through the     *)
(* endpoint POST /admin/seed, inside the server and without one.  Both     *)
(* send the same queries in the same order and stop at the first that      *)
(* fails; both may be run again.                                           *)
(***************************************************************************)
EXTENDS GraphJobs

CONSTANTS
  SeedCompanies,  \* the data of the script, as sequences
  SeedCommodities,
  SeedDepends,    \* pairs of companies
  SeedRequires,   \* pairs of a company and a commodity
  SeedEvents,     \* records of an event, its severity and whom it impacts
  Expected,       \* the traces verify_seeding expects: target, hops, companies
  MaxScripts      \* bound: runs of the script

VARIABLE script   \* runs begun, the queries left of the current one, its outcome

ASSUME MaxScriptsAssumption == MaxScripts \in Nat

(* The data: edges lead to companies, commodities that are in the data.    *)
Seeded == ToSet(SeedCompanies) \cup ToSet(SeedCommodities)

ASSUME SeedAssumption ==
  /\ SeedCompanies \in Seq(Tickers) /\ SeedCompanies # <<>>
  /\ SeedCommodities \in Seq(Commodities)
  /\ SeedDepends \in Seq(ToSet(SeedCompanies) \X ToSet(SeedCompanies))
  /\ SeedRequires \in Seq(ToSet(SeedCompanies) \X ToSet(SeedCommodities))
  /\ SeedEvents \in Seq([id : Events, severity : Severities, targets : Seq(Seeded)])

(* What the script expects to find follows from its own data.              *)
SeedData ==
  [EmptyGraph EXCEPT
     !.commodity = ToSet(SeedCommodities),
     !.requires = ToSet(SeedRequires),
     !.depends = [p \in Pairs |-> IF p \in ToSet(SeedDepends) THEN Merged(Absent) ELSE Absent]]

ASSUME ExpectedAssumption ==
  \A x \in Expected :
    /\ x.target \in ToSet(SeedCommodities) \cup (Tickers \ Commodities)
    /\ x.hops \in 1..5
    /\ x.companies \subseteq Downstream(SeedData, x.target, x.hops)

(* The queries, in order.                                                  *)
Tagged(op, seq) == [i \in 1..Len(seq) |-> <<op, seq[i]>>]
EventQueries(e) ==
  <<<<"event", e>>>>
    \o [i \in 1..Len(e.targets) |-> <<"impacts", <<e.id, e.targets[i]>>>>]

(* Variant that writes the edges before the companies:                     *)
PlanEdgesFirst ==
  Tagged("depends", SeedDepends)
    \o Tagged("company", SeedCompanies) \o Tagged("commodity", SeedCommodities)
    \o Tagged("requires", SeedRequires)
    \o FlattenSeq([i \in 1..Len(SeedEvents) |-> EventQueries(SeedEvents[i])])

Plan ==
  Tagged("company", SeedCompanies) \o Tagged("commodity", SeedCommodities)
    \o Tagged("depends", SeedDepends) \o Tagged("requires", SeedRequires)
    \o FlattenSeq([i \in 1..Len(SeedEvents) |-> EventQueries(SeedEvents[i])])

Queries == ToSet(Plan)

Apply(g, query) ==
  LET x == query[2] IN
    CASE query[1] = "company" -> InsertCompany(g, x)
      [] query[1] = "commodity" -> InsertCommodity(g, x)
      [] query[1] = "depends" -> InsertDependsOn(g, x[1], x[2])
      [] query[1] = "requires" -> InsertRequires(g, x[1], x[2])
      [] query[1] = "event" -> UpsertEvent(g, x.id, x.severity)
      [] query[1] = "impacts" -> InsertImpacts(g, x[1], x[2])

StatedBy(query) == IF query[1] = "depends" THEN {query[2]} ELSE {}

-----------------------------------------------------------------------------
(* The script.                                                             *)
InitScript == script = [runs |-> 0, todo |-> <<>>, stage |-> "off"]

ScriptStarts ==
  /\ script.stage # "seeding" /\ script.stage # "verifying"
  /\ script.runs < MaxScripts
  /\ script' = [runs |-> script.runs + 1, todo |-> Plan, stage |-> "seeding"]
  /\ UNCHANGED <<graph, loop, job, stated>>

ScriptWrites ==
  /\ script.stage = "seeding"
  /\ graph' = Apply(graph, Head(script.todo))
  /\ stated' = stated \cup StatedBy(Head(script.todo))
  /\ script' = [script EXCEPT !.todo = Tail(@),
                  !.stage = IF Len(script.todo) = 1 THEN "verifying" ELSE "seeding"]
  /\ UNCHANGED <<loop, job>>

(* A query raises, or the process is killed.                               *)
ScriptStops ==
  /\ script.stage \in {"seeding", "verifying"}
  /\ script' = [script EXCEPT !.stage = "stopped", !.todo = <<>>]
  /\ UNCHANGED <<graph, loop, job, stated>>

(* verify_seeding raises when a trace misses an expected company.          *)
AsExpected(x) ==
  \A found \in Traces(graph, x.target, x.hops) : x.companies \subseteq DOMAIN found

ScriptVerifies ==
  /\ script.stage = "verifying"
  /\ script' = [script EXCEPT
       !.stage = IF \A x \in Expected : AsExpected(x) THEN "complete" ELSE "incomplete"]
  /\ UNCHANGED <<graph, loop, job, stated>>

ScriptStep == ScriptStarts \/ ScriptWrites \/ ScriptStops \/ ScriptVerifies

-----------------------------------------------------------------------------
(* The endpoint.                                                           *)
Seeding(stage, todo) == [kind |-> "seed", stage |-> stage, todo |-> todo, ok |-> TRUE]

SeedStates ==
  [kind : {"seed"}, stage : {"write", "ended"}, todo : Seq(Queries), ok : BOOLEAN]

Seed(j) ==
  /\ job[j] = New /\ MayRun(j)
  /\ Becomes(j, Seeding("write", Plan))
  /\ Hold(j)
  /\ UNCHANGED <<graph, stated>>

SeedWrites(j) ==
  /\ At(j, "seed", "write")
  /\ graph' = Apply(graph, Head(job[j].todo))
  /\ stated' = stated \cup StatedBy(Head(job[j].todo))
  /\ LET rest == Tail(job[j].todo)
     IN /\ Becomes(j, Seeding(IF rest = <<>> THEN "ended" ELSE "write", rest))
        /\ IF rest = <<>> THEN Release ELSE UNCHANGED loop

SeedFails(j) ==
  /\ At(j, "seed", "write")
  /\ Becomes(j, [Seeding("ended", <<>>) EXCEPT !.ok = FALSE])
  /\ Release
  /\ UNCHANGED <<graph, stated>>

SeedStep(j) == SeedWrites(j) \/ SeedFails(j)
=============================================================================
