----------------------------- MODULE AnalysisPage -----------------------------
(***************************************************************************)
(* A debate as a user of the web page sees it: StreamingAnalysis.tsx reads *)
(* the events of /stream/analysis from an EventSource and hands verdict or *)
(* error to ChatPage.tsx.  The connection delivers in order and may break  *)
(* at any time; an EventSource that is not closed connects again, which    *)
(* would run the analysis again.                                           *)
(***************************************************************************)
EXTENDS Debate

CONSTANT MaxUnderWay   \* bound: events under way

ASSUME MaxUnderWayAssumption == MaxUnderWay \in Nat \ {0}

VARIABLES
  wire,           \* events under way
  broken,         \* the connection is lost
  source,         \* the EventSource: "none", "open" or "closed"
  page,           \* what the message shows: "nothing", "steps", "error" or a verdict
  mounted,        \* the component that shows the steps is on the page
  requests        \* bound: one request is made

netVars == <<wire, broken>>
pageVars == <<source, page, mounted, requests>>
vars == <<debateVars, netVars, pageVars>>

Init ==
  /\ InitDebate
  /\ wire = <<>> /\ broken = FALSE
  /\ source = "none" /\ page = "nothing" /\ mounted = FALSE /\ requests = 0

-----------------------------------------------------------------------------
(* A client of the tool asks.                                              *)
AskTool ==
  /\ requests = 0
  /\ Begin("tool")
  /\ requests' = 1
  /\ UNCHANGED <<netVars, source, page, mounted>>

(* The component is mounted and opens its EventSource.                     *)
Opens == source' = "open" /\ page' = "steps" /\ mounted' = TRUE /\ requests' = 1

AskStream ==
  /\ requests = 0
  /\ Begin("stream")
  /\ Opens
  /\ UNCHANGED netVars

(* The endpoint refuses: the key, the rate limit, no query; or nothing     *)
(* answers at all.                                                         *)
Refused ==
  /\ requests = 0
  /\ Opens
  /\ broken' = TRUE
  /\ UNCHANGED <<debateVars, wire>>

-----------------------------------------------------------------------------
(* The server sends.                                                       *)
Send ==
  /\ Doing("event") /\ Len(wire) < MaxUnderWay
  /\ wire' = IF broken \/ source # "open" THEN wire
             ELSE Append(wire, [step |-> Head(todo).step, judged |-> judged])
  /\ Done
  /\ UNCHANGED <<via, query, found, fallback, judged, row, broken, pageVars>>

(* The connection breaks; what is under way is lost.                       *)
Break ==
  /\ source = "open" /\ ~ broken
  /\ broken' = TRUE /\ wire' = <<>>
  /\ UNCHANGED <<debateVars, pageVars>>

(* The server learns that nobody listens, and cancels the generator at a   *)
(* yield or an await.  A row being written may still be written.           *)
Cancel ==
  /\ via = "stream" /\ todo # <<>> /\ (broken \/ source = "closed")
  /\ todo' = <<>>
  /\ row' \in {row} \cup (IF Doing("record") THEN {judged.verdict} ELSE {})
  /\ UNCHANGED <<via, query, found, fallback, judged, netVars, pageVars>>

ServerStep ==
  \/ (CallReturns \/ AgentFails \/ JudgeDecides \/ RecordVerdict) /\ UNCHANGED <<netVars, pageVars>>
  \/ Send
  \/ Cancel

-----------------------------------------------------------------------------
(* onmessage.                                                              *)
Deliver ==
  /\ source = "open" /\ wire # <<>>
  /\ LET event == Head(wire) IN
       /\ source' = IF event.step = "done" THEN "closed" ELSE "open"
       /\ page' = IF event.step = "verdict" THEN event.judged.verdict ELSE page
  /\ wire' = Tail(wire)
  /\ UNCHANGED <<debateVars, broken, mounted, requests>>

(* onerror: the connection broke, or ended without "done".                 *)
Lost == source = "open" /\ wire = <<>> /\ (broken \/ todo = <<>>)

(* Variant that closes it without telling the page:                        *)
ConnectionErrorSilent ==
  /\ Lost
  /\ source' = "closed"
  /\ UNCHANGED <<debateVars, netVars, page, mounted, requests>>

ConnectionError ==
  /\ Lost
  /\ source' = "closed" /\ page' = "error"
  /\ UNCHANGED <<debateVars, netVars, mounted, requests>>

(* React takes the component away once the message has a result or an      *)
(* error, or when the user leaves the page; that closes the EventSource.   *)
Unmount ==
  /\ mounted
  /\ mounted' = FALSE /\ source' = "closed"
  /\ page' = IF page = "steps" THEN "nothing" ELSE page
  /\ UNCHANGED <<debateVars, netVars, requests>>

PageStep == Deliver \/ ConnectionError \/ Unmount

Next ==
  \/ AskTool \/ AskStream \/ Refused
  \/ ServerStep \/ Break \/ PageStep

Spec == Init /\ [][Next]_vars

(* Calls have timeouts, the server's loop resumes the generator, and the   *)
(* browser handles its events.                                             *)
FairSpec == Spec /\ WF_vars(ServerStep) /\ WF_vars(Deliver \/ ConnectionError)

-----------------------------------------------------------------------------
TypeOK ==
  /\ via \in {"none", "tool", "stream"} /\ query \in Queries
  /\ found \in [Agents -> SUBSET Evidence]
  /\ fallback \subseteq Agents
  /\ judged \in [bull : 0..Cap, bear : 0..Cap, verdict : Verdicts] \cup {None}
  /\ row \in Verdicts \cup {None, Failed}
  /\ broken \in BOOLEAN /\ mounted \in BOOLEAN
  /\ source \in {"none", "open", "closed"}
  /\ page \in Verdicts \cup {"nothing", "steps", "error"}

Rank(verdict) ==
  IF verdict = "STRONG BUY" THEN 2 ELSE IF verdict = "BUY" THEN 1
  ELSE IF verdict = "STRONG SELL" THEN -2 ELSE IF verdict = "SELL" THEN -1 ELSE 0

(* Evidence never works against the side that finds it: had one agent      *)
(* found more, the verdict would not have moved to the other side, across  *)
(* all thresholds of judge_agent.py and the cap on confidence.             *)
WithMore(agent, more) == Confidence(agent, query.framing, found[agent] \cup more)

VerdictMonotone ==
  judged # None =>
    \A more \in SUBSET Evidence :
      /\ "bull" \notin fallback =>
           Rank(Judge(WithMore("bull", more), judged.bear)) >= Rank(judged.verdict)
      /\ "bear" \notin fallback =>
           Rank(Judge(judged.bull, WithMore("bear", more))) <= Rank(judged.verdict)

(* The judge takes no side: with the confidences exchanged it would have   *)
(* given the opposite verdict.                                             *)
VerdictMirrored ==
  judged # None => Rank(Judge(judged.bear, judged.bull)) = - Rank(judged.verdict)

(* Both: more evidence for a side never costs it the verdict, and the      *)
(* judge knows the sides by their confidences only.                        *)
VerdictFollowsEvidence == VerdictMonotone /\ VerdictMirrored

(* Over a question that is not framed the bull wins only with evidence     *)
(* that the bear lacks, and so does the bear, but for one case.  The case  *)
(* is exact: both found the same, events and a cascade and no quote, which *)
(* is a SELL, and never a strong one.  It is not what bear_agent.py says,  *)
(* "Confidence accumulation is intentionally symmetric with bull_agent so  *)
(* that the verdict reflects evidence quality, not structural bias".       *)
SellOfEqualEvidence ==
  /\ found["bear"] = found["bull"]
  /\ {"events", "cascade"} \subseteq found["bear"] /\ "quote" \notin found["bear"]

WinnerHasAdvantage ==
  judged # None /\ query.framing = 0 /\ fallback = {} =>
    /\ Rank(judged.verdict) > 0 => ~ (found["bull"] \subseteq found["bear"])
    /\ found["bear"] \subseteq found["bull"] =>
         /\ Rank(judged.verdict) < 0 <=> SellOfEqualEvidence
         /\ judged.verdict # "STRONG SELL"

(* docs/architecture.md: "Every verdict is persisted via record_verdict()  *)
(* immediately after the judge completes": the page never shows a verdict  *)
(* whose row was not at least tried, nor one that differs from the row,    *)
(* whatever is lost on the way.                                            *)
ShownIsRecorded == page \in Verdicts => row \in {page, Failed}

(* The page does not wait forever: it gets the verdict or an error, unless *)
(* the user has left it; and a debate comes to an end.                     *)
AnalysisEnds == [](page = "steps" => <>(page # "steps")) /\ [](todo # <<>> => <>(todo = <<>>))
=============================================================================
