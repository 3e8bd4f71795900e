-------------------------------- MODULE Debate --------------------------------
(***************************************************************************)
(* The adversarial debate, finance_mcp/reasoning, and the two ways to ask  *)
(* for one: the multi_agent_analysis tool and the stream of server-sent    *)
(* events, stream_analysis.py.  The bull and then the bear call the quote  *)
(* source, the graph and the news, and gain confidence for what they find; *)
(* the judge compares the two.  Confidences are whole percents.            *)
(*                                                                         *)
(* What the calls find is up to the outside world: the two agents ask at   *)
(* different times, with different limits, and any call may fail.          *)
(***************************************************************************)
EXTENDS Integers, Sequences

CONSTANTS
  Queries,        \* bound: what clients ask
  None,           \* no judgement yet, no row
  Failed          \* the row could not be written

(* Of a query: whether a ticker was given or found in it, the words that   *)
(* frame it bullishly less those that frame it bearishly, and whether it   *)
(* makes each agent look at the news.                                      *)
ASSUME QueriesAssumption ==
  Queries \subseteq [ticker : BOOLEAN, framing : Int, bullNews : BOOLEAN, bearNews : BOOLEAN]

VARIABLES
  via,            \* "tool" or "stream", or "none" before the request
  query,          \* what is asked
  todo,           \* what the server has left to do, in order
  found,          \* the evidence each agent has
  fallback,       \* the agents that failed as a whole
  judged,         \* the judgement
  row             \* the verdict in the row that was recorded

debateVars == <<via, query, todo, found, fallback, judged, row>>

-----------------------------------------------------------------------------
(* Confidence.                                                             *)
Agents == {"bull", "bear"}
Evidence == {"quote", "dependents", "events", "cascade"}

Weight ==
  [bull |-> [quote |-> 8, dependents |-> 12, events |-> 8, cascade |-> 6],
   bear |-> [quote |-> 7, dependents |-> 12, events |-> 12, cascade |-> 10]]

Base == 35
Cap == 95
FallbackConfidence == 20

(* _query_bull_prior and _query_bear_prior: ten for each word of one's own *)
(* framing beyond those of the other, up to twenty.                        *)
Prior(agent, framing) ==
  LET net == IF agent = "bull" THEN framing ELSE -framing
  IN IF net <= 0 THEN 0 ELSE IF net = 1 THEN 10 ELSE 20

Worth(agent, evidence) ==
  LET of(e) == IF e \in evidence THEN Weight[agent][e] ELSE 0
  IN of("quote") + of("dependents") + of("events") + of("cascade")

(* Variant that gives the bear eight for having a claim to attack:         *)
ConfidenceForAttack(agent, framing, evidence) ==
  LET sum == Base + Prior(agent, framing) + Worth(agent, evidence)
             + (IF agent = "bear" THEN 8 ELSE 0)
  IN IF sum > Cap THEN Cap ELSE sum

(* Variant without the cap:                                                *)
ConfidenceUncapped(agent, framing, evidence) ==
  Base + Prior(agent, framing) + Worth(agent, evidence)

Confidence(agent, framing, evidence) ==
  LET sum == Base + Prior(agent, framing) + Worth(agent, evidence)
  IN IF sum > Cap THEN Cap ELSE sum

ConfidenceOf(agent) ==
  IF agent \in fallback THEN FallbackConfidence
  ELSE Confidence(agent, query.framing, found[agent])

-----------------------------------------------------------------------------
(* The judge.                                                              *)
Strong == 15
Lean == 8
Mixed == 8
MinDirectional == 45

Verdicts == {"STRONG BUY", "BUY", "HOLD", "INSUFFICIENT DATA", "SELL", "STRONG SELL"}

Gap(bull, bear) == IF bull > bear THEN bull - bear ELSE bear - bull
Top(bull, bear) == IF bull > bear THEN bull ELSE bear

(* Variant that wants both to be sure:                                     *)
JudgeBothSure(bull, bear) ==
  LET gap == Gap(bull, bear)
      sure == bull >= MinDirectional /\ bear >= MinDirectional
  IN IF gap >= Strong /\ sure THEN IF bull > bear THEN "STRONG BUY" ELSE "STRONG SELL"
     ELSE IF gap >= Lean /\ sure THEN IF bull > bear THEN "BUY" ELSE "SELL"
     ELSE IF gap < Mixed /\ bull >= 50 /\ bear >= 50 THEN "HOLD"
     ELSE IF ~ sure THEN "INSUFFICIENT DATA"
     ELSE "HOLD"

Judge(bull, bear) ==
  LET gap == Gap(bull, bear)
      sure == Top(bull, bear) >= MinDirectional
  IN IF gap >= Strong /\ sure THEN IF bull > bear THEN "STRONG BUY" ELSE "STRONG SELL"
     ELSE IF gap >= Lean /\ sure THEN IF bull > bear THEN "BUY" ELSE "SELL"
     ELSE IF gap < Mixed /\ bull >= 50 /\ bear >= 50 THEN "HOLD"
     ELSE IF ~ sure THEN "INSUFFICIENT DATA"
     ELSE "HOLD"

Judgement(bull, bear) == [bull |-> bull, bear |-> bear, verdict |-> Judge(bull, bear)]

-----------------------------------------------------------------------------
(* What the server does: calls of an agent, events sent, the recording.    *)
Call(agent, source) == [op |-> "call", agent |-> agent, source |-> source]
Event(step) == [op |-> "event", step |-> step]
Decide == [op |-> "judge"]
Record == [op |-> "record"]

(* run_bull_agent and run_bear_agent.                                      *)
If(condition, calls) == IF condition THEN calls ELSE <<>>

BullCalls(q) ==
  If(q.ticker, <<Call("bull", "quote"), Call("bull", "graph")>>)
    \o If(q.bullNews, <<Call("bull", "news")>>)
BearCalls(q) ==
  If(q.ticker, <<Call("bear", "graph"), Call("bear", "quote")>>)
    \o If(q.bearNews, <<Call("bear", "news")>>)

ToolPlan(q) == (BullCalls(q) \o BearCalls(q)) \o <<Decide, Record>>

(* Variant that sends the verdict before it records it:                    *)
StreamPlanShownFirst(q) ==
  <<Event("init"), Event("quote_fetch"), Event("graph_trace"), Event("news_fetch"),
    Event("bull_thesis")>> \o BullCalls(q)
    \o <<Event("bull_thesis"), Event("bear_attack")>> \o BearCalls(q)
    \o <<Event("rebuttal"), Event("judge"), Decide, Event("verdict"), Record, Event("done")>>

StreamPlan(q) ==
  (<<Event("init"), Event("quote_fetch"), Event("graph_trace"), Event("news_fetch"),
     Event("bull_thesis")>> \o BullCalls(q)
    \o <<Event("bull_thesis"), Event("bear_attack")>> \o BearCalls(q)
    \o <<Event("rebuttal"), Event("judge")>>)
    \o <<Decide, Record, Event("verdict"), Event("done")>>

(* What a call may find.  Without a ticker the cascade needs an event.     *)
Findings ==
  [quote |-> {{}, {"quote"}},
   graph |-> {{}, {"dependents"}},
   news |-> {{}, {"events"}, {"events", "cascade"}}
              \cup (IF query.ticker THEN {{"cascade"}} ELSE {})]

Doing(op) == todo # <<>> /\ Head(todo).op = op
Done == todo' = Tail(todo)

InitDebate ==
  /\ via = "none" /\ query \in Queries
  /\ todo = <<>>
  /\ found = [agent \in Agents |-> {}]
  /\ fallback = {}
  /\ judged = None
  /\ row = None

(* A request.                                                              *)
Begin(endpoint) ==
  /\ via' = endpoint
  /\ todo' = IF endpoint = "tool" THEN ToolPlan(query) ELSE StreamPlan(query)
  /\ UNCHANGED <<query, found, fallback, judged, row>>

(* A call returns, or raises and is left out.                              *)
CallReturns ==
  /\ Doing("call")
  /\ LET call == Head(todo) IN
       \E e \in Findings[call.source] :
         found' = [found EXCEPT ![call.agent] = @ \cup e]
  /\ Done
  /\ UNCHANGED <<via, query, fallback, judged, row>>

(* The agent itself raises: the fallback case takes its place, and its     *)
(* calls that are left, the next n things to do, are not made.             *)
IsCallOf(agent, x) == x.op = "call" /\ x.agent = agent

AgentFails ==
  /\ Doing("call")
  /\ LET agent == Head(todo).agent IN
       /\ fallback' = fallback \cup {agent}
       /\ found' = [found EXCEPT ![agent] = {}]
       /\ \E n \in 1..Len(todo) :
            /\ \A i \in 1..n : IsCallOf(agent, todo[i])
            /\ n < Len(todo) => ~ IsCallOf(agent, todo[n + 1])
            /\ todo' = SubSeq(todo, n + 1, Len(todo))
  /\ UNCHANGED <<via, query, judged, row>>

JudgeDecides ==
  /\ Doing("judge")
  /\ judged' = Judgement(ConfidenceOf("bull"), ConfidenceOf("bear"))
  /\ Done
  /\ UNCHANGED <<via, query, found, fallback, row>>

(* The row is written, or not: the callers swallow what record_verdict     *)
(* raises.                                                                 *)
RecordVerdict ==
  /\ Doing("record")
  /\ row' \in {judged.verdict, Failed}
  /\ Done
  /\ UNCHANGED <<via, query, found, fallback, judged>>
=============================================================================
