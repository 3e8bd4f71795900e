----------------------------- MODULE DebateProofs -----------------------------
(***************************************************************************)
(* Proofs about AnalysisPage and Debate, for every set of queries and any  *)
(* number of events under way.                                             *)
(*                                                                         *)
(* What the page shows has come over a connection, from a server that may  *)
(* have been cancelled at any moment.  The inductive invariant IInv speaks *)
(* of how much the server has left to do: what is left is always an end of *)
(* one of the two plans, so its length tells what has been done.           *)
(***************************************************************************)
EXTENDS AnalysisPage, SequenceTheorems, TLAPS

(* What is done before the judge decides.                                  *)
Calls == {Call(agent, tool) : agent \in Agents, tool \in {"quote", "graph", "news"}}
EarlySteps == {"init", "quote_fetch", "graph_trace", "news_fetch",
               "bull_thesis", "bear_attack", "rebuttal", "judge"}
Steps == EarlySteps \cup {"verdict", "done"}
Early == Calls \cup {Event(step) : step \in EarlySteps}
Ops == Early \cup {Decide, Record, Event("verdict"), Event("done")}

(* The judge and what follows.                                             *)
Final ==
  IF via = "tool" THEN <<Decide, Record>>
  ELSE <<Decide, Record, Event("verdict"), Event("done")>>

BeforeJudge == IF via = "tool" THEN Calls ELSE Early

AtJudge == IF via = "tool" THEN 2 ELSE 4

(* The element with which n things are left, itself included.              *)
Left(n, plan) == plan[Len(plan) + 1 - n]

IsEnd(plan, final, before) ==
  \A n \in 1..Len(plan) :
    IF n <= Len(final) THEN Left(n, plan) = Left(n, final) ELSE Left(n, plan) \in before

Judgements == [bull : 0..Cap, bear : 0..Cap, verdict : Verdicts]
Messages == [step : Steps, judged : Judgements \cup {None}]

Types ==
  /\ via \in {"none", "tool", "stream"} /\ query \in Queries
  /\ todo \in Seq(Ops)
  /\ found \in [Agents -> SUBSET Evidence]
  /\ fallback \subseteq Agents
  /\ row \in Verdicts \cup {None, Failed}
  /\ broken \in BOOLEAN /\ mounted \in BOOLEAN
  /\ source \in {"none", "open", "closed"}
  /\ page \in Verdicts \cup {"nothing", "steps", "error"}
  /\ requests \in {0, 1}
  /\ wire \in Seq(Messages)

WhatIsLeft == IsEnd(todo, Final, BeforeJudge) /\ (via = "none" => todo = <<>>)

(* The judge has decided on the confidences of now, or is still to decide. *)
Result == Judgement(ConfidenceOf("bull"), ConfidenceOf("bear"))

Decided ==
  \/ judged = None /\ (todo = <<>> \/ Len(todo) >= AtJudge)
  \/ judged = Result /\ Len(todo) < AtJudge

(* A verdict that was sent, and one that is shown, is the one recorded.    *)
Recorded(verdict) == Len(todo) <= 1 /\ verdict \in Verdicts /\ row \in {verdict, Failed}

Sent ==
  /\ via = "stream" /\ Len(todo) \in {1, 2} => row \in {Result.verdict, Failed}
  /\ \A i \in 1..Len(wire) : wire[i].step = "verdict" => Recorded(wire[i].judged.verdict)
  /\ page \in Verdicts => Recorded(page)
  /\ via # "stream" => wire = <<>> /\ page \notin Verdicts

Fresh ==
  requests = 0 => /\ via = "none" /\ judged = None
                  /\ page = "nothing" /\ source = "none" /\ mounted = FALSE

IInv ==
  /\ Types
  /\ WhatIsLeft
  /\ Decided
  /\ Sent
  /\ Fresh

-----------------------------------------------------------------------------
(* Confidences and judgements.                                             *)
LEMMA WorthRange ==
  ASSUME NEW agent \in Agents, NEW evidence
  PROVE  Worth(agent, evidence) \in 0..42
<1>1. agent = "bull" \/ agent = "bear"
  BY DEF Agents
<1>2. /\ agent = "bull" => /\ Weight[agent]["quote"] = 8 /\ Weight[agent]["dependents"] = 12
                           /\ Weight[agent]["events"] = 8 /\ Weight[agent]["cascade"] = 6
      /\ agent = "bear" => /\ Weight[agent]["quote"] = 7 /\ Weight[agent]["dependents"] = 12
                           /\ Weight[agent]["events"] = 12 /\ Weight[agent]["cascade"] = 10
  BY DEF Weight
<1>3. QED BY <1>1, <1>2 DEF Worth

LEMMA ConfidenceRange ==
  ASSUME NEW agent \in Agents, NEW framing \in Int, NEW evidence
  PROVE  Confidence(agent, framing, evidence) \in 0..Cap
<1>1. Prior(agent, framing) \in {0, 10, 20}
  BY DEF Prior
<1>2. Worth(agent, evidence) \in 0..42
  BY WorthRange
<1>3. QED BY <1>1, <1>2 DEF Confidence, Base, Cap

LEMMA ConfidenceOfRange ==
  ASSUME query \in Queries
  PROVE  \A agent \in Agents : ConfidenceOf(agent) \in 0..Cap
<1>1. query.framing \in Int
  BY QueriesAssumption
<1>2. QED BY <1>1, ConfidenceRange DEF ConfidenceOf, FallbackConfidence, Cap

LEMMA JudgeRange ==
  ASSUME NEW bull, NEW bear PROVE Judge(bull, bear) \in Verdicts
BY DEF Judge, Verdicts

LEMMA ResultType == ASSUME query \in Queries PROVE Result \in Judgements
<1>1. ConfidenceOf("bull") \in 0..Cap /\ ConfidenceOf("bear") \in 0..Cap
  BY ConfidenceOfRange DEF Agents
<1>2. QED BY <1>1, JudgeRange DEF Result, Judgement, Judgements

(* The judge follows the confidences and takes no side.                    *)
LEMMA JudgeFollows ==
  ASSUME NEW bull \in Nat, NEW bear \in Nat, NEW more \in Nat
  PROVE  /\ Rank(Judge(bull + more, bear)) >= Rank(Judge(bull, bear))
         /\ Rank(Judge(bull, bear + more)) <= Rank(Judge(bull, bear))
         /\ Rank(Judge(bear, bull)) = - Rank(Judge(bull, bear))
<1> DEFINE Value(b, c) ==
      IF Top(b, c) < MinDirectional THEN 0
      ELSE IF b - c >= Strong THEN 2 ELSE IF b - c >= Lean THEN 1
      ELSE IF c - b >= Strong THEN -2 ELSE IF c - b >= Lean THEN -1 ELSE 0
<1>1. ASSUME NEW b \in Nat, NEW c \in Nat PROVE Rank(Judge(b, c)) = Value(b, c)
  <2>1. /\ Rank("STRONG SELL") = -2 /\ Rank("SELL") = -1 /\ Rank("BUY") = 1
        /\ Rank("STRONG BUY") = 2 /\ Rank("HOLD") = 0 /\ Rank("INSUFFICIENT DATA") = 0
    BY DEF Rank
  <2>2. /\ Value(b, c) \in {-2, -1, 0, 1, 2}
        /\ Value(b, c) = 2 => Judge(b, c) = "STRONG BUY"
        /\ Value(b, c) = 1 => Judge(b, c) = "BUY"
        /\ Value(b, c) = 0 => Judge(b, c) \in {"HOLD", "INSUFFICIENT DATA"}
        /\ Value(b, c) = -1 => Judge(b, c) = "SELL"
        /\ Value(b, c) = -2 => Judge(b, c) = "STRONG SELL"
    BY DEF Judge, Gap, Top, MinDirectional, Strong, Lean, Mixed
  <2> HIDE DEF Value
  <2>3. QED BY <2>1, <2>2
<1>2. bull + more \in Nat /\ bear + more \in Nat
  OBVIOUS
<1>3. /\ Value(bull + more, bear) >= Value(bull, bear)
      /\ Value(bull, bear + more) <= Value(bull, bear)
      /\ Value(bear, bull) = - Value(bull, bear)
  BY DEF Top, MinDirectional, Strong, Lean
<1> HIDE DEF Value
<1>4. QED BY <1>1, <1>2, <1>3

-----------------------------------------------------------------------------
(* Plans and their ends.                                                   *)
LEMMA PlanEnds ==
  ASSUME NEW before \in SUBSET Ops, NEW early \in Seq(before), NEW final \in Seq(Ops)
  PROVE  /\ early \o final \in Seq(Ops) /\ Len(early \o final) >= Len(final)
         /\ IsEnd(early \o final, final, before)
<1> DEFINE plan == early \o final
<1>1. early \in Seq(Ops)
  BY SeqMonotonic
<1>2. /\ plan \in Seq(Ops)
      /\ Len(plan) = Len(early) + Len(final)
      /\ \A i \in 1..Len(early) + Len(final) :
           plan[i] = IF i <= Len(early) THEN early[i] ELSE final[i - Len(early)]
  BY <1>1, ConcatProperties
<1>3. Len(early) \in Nat /\ Len(final) \in Nat
  BY LenProperties
<1> HIDE DEF plan
<1>4. ASSUME NEW n \in 1..Len(plan)
      PROVE  IF n <= Len(final) THEN Left(n, plan) = Left(n, final)
             ELSE Left(n, plan) \in before
  <2>1. Left(n, plan) = plan[Len(early) + Len(final) + 1 - n]
    BY <1>2 DEF Left
  <2>2. CASE n <= Len(final)
    BY <2>1, <2>2, <1>2, <1>3 DEF Left
  <2>3. CASE ~ (n <= Len(final))
    <3> DEFINE i == Len(early) + Len(final) + 1 - n
    <3>1. i \in Int /\ i = Len(early) + Len(final) + 1 - n
      BY <1>2, <1>3
    <3> HIDE DEF i
    <3>2. i \in 1..Len(early) /\ i \in 1..Len(early) + Len(final) /\ i <= Len(early)
      BY <2>3, <3>1, <1>2, <1>3
    <3>3. Left(n, plan) = early[i]
      BY <2>1, <3>1, <3>2, <1>2
    <3>4. QED BY <2>3, <3>2, <3>3, ElementOfSeq
  <2>4. QED BY <2>2, <2>3
<1>5. Len(plan) >= Len(final)
  BY <1>2, <1>3
<1>6. QED BY <1>2, <1>4, <1>5 DEF plan, IsEnd

LEMMA RestEnds ==
  ASSUME NEW plan \in Seq(Ops), NEW final, NEW before, IsEnd(plan, final, before),
         NEW m \in 0..Len(plan), NEW rest \in Seq(Ops), Len(rest) = Len(plan) - m,
         \A i \in 1..Len(rest) : rest[i] = plan[m + i]
  PROVE  IsEnd(rest, final, before)
<1>1. /\ Len(plan) \in Nat /\ Len(rest) \in Nat
      /\ m \in Nat /\ m <= Len(plan) /\ Len(rest) = Len(plan) - m
  BY LenProperties
<1>2. ASSUME NEW n \in 1..Len(rest) PROVE n \in 1..Len(plan) /\ Left(n, rest) = Left(n, plan)
  <2> DEFINE i == Len(rest) + 1 - n
  <2>1. i \in 1..Len(rest) /\ i = Len(rest) + 1 - n
    BY <1>1
  <2> HIDE DEF i
  <2>2. m + i = Len(plan) + 1 - n /\ n \in 1..Len(plan)
    BY <2>1, <1>1
  <2>3. rest[i] = plan[m + i]
    BY <2>1
  <2>4. QED BY <2>1, <2>2, <2>3 DEF Left
<1>3. QED BY <1>2 DEF IsEnd

LEMMA TailEnds ==
  ASSUME todo \in Seq(Ops), todo # <<>>, IsEnd(todo, Final, BeforeJudge)
  PROVE  /\ Tail(todo) \in Seq(Ops)
         /\ Len(Tail(todo)) = Len(todo) - 1
         /\ IsEnd(Tail(todo), Final, BeforeJudge)
<1>1. /\ Tail(todo) \in Seq(Ops) /\ Len(Tail(todo)) = Len(todo) - 1
      /\ \A i \in 1..Len(Tail(todo)) : Tail(todo)[i] = todo[i + 1]
  BY HeadTailProperties
<1>2. Len(todo) \in Nat /\ Len(Tail(todo)) \in Nat
  BY <1>1, LenProperties
<1>3. 1 \in 0..Len(todo) /\ \A i \in 1..Len(Tail(todo)) : Tail(todo)[i] = todo[1 + i]
  BY <1>1, <1>2
<1>4. QED BY <1>1, <1>3, RestEnds

(* The operation at the head tells how much is left.                       *)
LEMMA HeadTells ==
  ASSUME Types, WhatIsLeft, todo # <<>>
  PROVE  /\ Len(todo) \in Nat /\ Len(todo) >= 1
         /\ via \in {"tool", "stream"}
         /\ Doing("call") => Len(todo) > AtJudge /\ Head(todo) \in Calls
         /\ Doing("judge") => Len(todo) = AtJudge
         /\ Doing("record") => Len(todo) = AtJudge - 1
         /\ Doing("event") =>
              /\ via = "stream"
              /\ Len(todo) = 1 \/ Len(todo) = 2 \/ Len(todo) > AtJudge
              /\ Head(todo).step \in Steps
              /\ Head(todo).step = "verdict" => Len(todo) = 2
<1>1. Len(todo) \in Nat /\ Len(todo) >= 1 /\ via \in {"tool", "stream"}
  <2>1. Len(todo) \in Nat \ {0}
    BY EmptySeq DEF Types
  <2>2. Len(todo) \in Nat /\ Len(todo) >= 1
    BY <2>1
  <2>3. QED BY <2>2 DEF Types, WhatIsLeft
<1>2. Head(todo) = Left(Len(todo), todo)
  <2>1. Head(todo) = todo[1] /\ Len(todo) + 1 - Len(todo) = 1
    BY <1>1
  <2>2. QED BY <2>1 DEF Left
<1>3. /\ \A x \in Calls : x.op = "call"
      /\ \A x \in Early \ Calls : x.op = "event" /\ x.step \in Steps /\ x.step # "verdict"
      /\ Decide.op = "judge" /\ Record.op = "record"
      /\ Event("verdict").op = "event" /\ Event("verdict").step = "verdict"
      /\ Event("done").op = "event" /\ Event("done").step = "done"
      /\ "done" \in Steps /\ "verdict" \in Steps
  <2>1. \A x \in Calls : x.op = "call"
    BY DEF Calls, Call
  <2>2. ASSUME NEW x \in Early \ Calls
        PROVE  x.op = "event" /\ x.step \in Steps /\ x.step # "verdict"
    <3>1. PICK step \in EarlySteps : x = Event(step)
      BY <2>2 DEF Early
    <3>2. step \in Steps /\ step # "verdict"
      BY DEF EarlySteps, Steps
    <3>3. x.op = "event" /\ x.step = step
      BY <3>1 DEF Event
    <3>4. QED BY <3>2, <3>3
  <2>3. QED BY <2>1, <2>2 DEF Decide, Record, Event, Steps
<1>4. Calls \subseteq Early
  BY DEF Early
<1>5. IF Len(todo) <= Len(Final) THEN Head(todo) = Left(Len(todo), Final)
      ELSE Head(todo) \in BeforeJudge
  BY <1>1, <1>2 DEF WhatIsLeft, IsEnd
<1>6. Head(todo) \in Early =>
        IF Head(todo) \in Calls THEN Head(todo).op = "call"
        ELSE /\ Head(todo).op = "event" /\ Head(todo).step \in Steps
             /\ Head(todo).step # "verdict"
  BY <1>3
<1>7. CASE via = "tool"
  <2>1. /\ Len(Final) = 2 /\ Left(1, Final) = Record /\ Left(2, Final) = Decide
        /\ AtJudge = 2 /\ BeforeJudge = Calls
    BY <1>7 DEF Final, Left, AtJudge, BeforeJudge
  <2>2. CASE Len(todo) = 1
    <3>1. Head(todo).op = "record"
      BY <1>3, <1>5, <2>1, <2>2
    <3>2. QED BY <1>1, <2>1, <2>2, <3>1 DEF Doing
  <2>3. CASE Len(todo) = 2
    <3>1. Head(todo).op = "judge"
      BY <1>3, <1>5, <2>1, <2>3
    <3>2. QED BY <1>1, <2>1, <2>3, <3>1 DEF Doing
  <2>4. CASE Len(todo) > 2
    <3>1. Head(todo) \in Calls /\ Head(todo).op = "call"
      BY <1>1, <1>3, <1>5, <2>1, <2>4
    <3>2. ~ Doing("judge") /\ ~ Doing("record") /\ ~ Doing("event")
      BY <3>1 DEF Doing
    <3>3. QED BY <1>1, <2>1, <2>4, <3>1, <3>2
  <2>5. Len(todo) = 1 \/ Len(todo) = 2 \/ Len(todo) > 2
    <3>1. \A n \in Nat : n >= 1 => n = 1 \/ n = 2 \/ n > 2
      OBVIOUS
    <3>2. QED BY <1>1, <3>1
  <2>6. QED BY <2>2, <2>3, <2>4, <2>5
<1>8. CASE via = "stream"
  <2>1. /\ Len(Final) = 4 /\ Left(1, Final) = Event("done") /\ Left(2, Final) = Event("verdict")
        /\ Left(3, Final) = Record /\ Left(4, Final) = Decide
        /\ AtJudge = 4 /\ BeforeJudge = Early
    BY <1>8 DEF Final, Left, AtJudge, BeforeJudge
  <2>2. CASE Len(todo) = 1
    <3>1. Head(todo).op = "event" /\ Head(todo).step = "done"
      BY <1>3, <1>5, <2>1, <2>2
    <3>2. ~ Doing("call") /\ ~ Doing("judge") /\ ~ Doing("record")
      BY <3>1 DEF Doing
    <3>3. Head(todo).step \in Steps /\ Head(todo).step # "verdict"
      BY <1>3, <3>1
    <3>4. QED BY <1>1, <1>8, <2>2, <3>2, <3>3
  <2>3. CASE Len(todo) = 2
    <3>1. Head(todo).op = "event" /\ Head(todo).step = "verdict"
      BY <1>3, <1>5, <2>1, <2>3
    <3>2. ~ Doing("call") /\ ~ Doing("judge") /\ ~ Doing("record")
      BY <3>1 DEF Doing
    <3>3. Head(todo).step \in Steps
      BY <1>3, <3>1
    <3>4. QED BY <1>1, <1>8, <2>3, <3>2, <3>3
  <2>4. CASE Len(todo) = 3
    <3>1. Head(todo).op = "record"
      BY <1>3, <1>5, <2>1, <2>4
    <3>2. QED BY <1>1, <2>1, <2>4, <3>1 DEF Doing
  <2>5. CASE Len(todo) = 4
    <3>1. Head(todo).op = "judge"
      BY <1>3, <1>5, <2>1, <2>5
    <3>2. QED BY <1>1, <2>1, <2>5, <3>1 DEF Doing
  <2>6. CASE Len(todo) > 4
    <3>1. Head(todo) \in Early
      BY <1>1, <1>5, <2>1, <2>6
    <3>2. CASE Head(todo) \in Calls
      <4>1. ~ Doing("judge") /\ ~ Doing("record") /\ ~ Doing("event")
        BY <1>6, <3>1, <3>2 DEF Doing
      <4>2. QED BY <1>1, <1>8, <2>1, <2>6, <3>2, <4>1
    <3>3. CASE Head(todo) \notin Calls
      <4>1. /\ ~ Doing("judge") /\ ~ Doing("record") /\ ~ Doing("call")
            /\ Head(todo).step \in Steps /\ Head(todo).step # "verdict"
        BY <1>6, <3>1, <3>3 DEF Doing
      <4>2. QED BY <1>1, <1>8, <2>1, <2>6, <4>1
    <3>4. QED BY <3>2, <3>3
  <2>7. Len(todo) = 1 \/ Len(todo) = 2 \/ Len(todo) = 3 \/ Len(todo) = 4 \/ Len(todo) > 4
    <3>1. \A n \in Nat : n >= 1 => n = 1 \/ n = 2 \/ n = 3 \/ n = 4 \/ n > 4
      OBVIOUS
    <3>2. QED BY <1>1, <3>1
  <2>8. QED BY <2>2, <2>3, <2>4, <2>5, <2>6, <2>7
<1>9. QED BY <1>1, <1>7, <1>8

LEMMA CallsAreCalls ==
  ASSUME NEW q
  PROVE  BullCalls(q) \in Seq(Calls) /\ BearCalls(q) \in Seq(Calls)
<1>1. \A agent \in Agents : \A tool \in {"quote", "graph", "news"} : Call(agent, tool) \in Calls
  BY DEF Calls
<1>2. /\ <<Call("bull", "quote"), Call("bull", "graph")>> \in Seq(Calls)
      /\ <<Call("bear", "graph"), Call("bear", "quote")>> \in Seq(Calls)
      /\ <<Call("bull", "news")>> \in Seq(Calls) /\ <<Call("bear", "news")>> \in Seq(Calls)
      /\ <<>> \in Seq(Calls)
  BY <1>1, EmptySeq DEF Agents
<1>3. QED BY <1>2, ConcatProperties DEF BullCalls, BearCalls, If

LEMMA PlansAreEnds ==
  ASSUME NEW q
  PROVE  /\ ToolPlan(q) \in Seq(Ops) /\ Len(ToolPlan(q)) >= 2
         /\ IsEnd(ToolPlan(q), <<Decide, Record>>, Calls)
         /\ StreamPlan(q) \in Seq(Ops) /\ Len(StreamPlan(q)) >= 4
         /\ IsEnd(StreamPlan(q), <<Decide, Record, Event("verdict"), Event("done")>>, Early)
<1>1. Calls \subseteq Early /\ Early \subseteq Ops
  BY DEF Early, Ops
<1>2. BullCalls(q) \in Seq(Calls) /\ BearCalls(q) \in Seq(Calls)
  BY CallsAreCalls
<1>3. BullCalls(q) \in Seq(Early) /\ BearCalls(q) \in Seq(Early)
  BY <1>1, <1>2, SeqMonotonic
<1>4. /\ <<Decide, Record>> \in Seq(Ops)
      /\ <<Decide, Record, Event("verdict"), Event("done")>> \in Seq(Ops)
  <2>1. Decide \in Ops /\ Record \in Ops /\ Event("verdict") \in Ops /\ Event("done") \in Ops
    BY DEF Ops
  <2>2. QED BY <2>1
<1>5. BullCalls(q) \o BearCalls(q) \in Seq(Calls)
  BY <1>2, ConcatProperties
<1>6. /\ <<Event("init"), Event("quote_fetch"), Event("graph_trace"), Event("news_fetch"),
           Event("bull_thesis")>> \in Seq(Early)
      /\ <<Event("bull_thesis"), Event("bear_attack")>> \in Seq(Early)
      /\ <<Event("rebuttal"), Event("judge")>> \in Seq(Early)
  <2>1. \A step \in EarlySteps : Event(step) \in Early
    BY DEF Early
  <2>2. QED BY <2>1 DEF EarlySteps
<1> DEFINE begins == <<Event("init"), Event("quote_fetch"), Event("graph_trace"),
                       Event("news_fetch"), Event("bull_thesis")>>
           between == <<Event("bull_thesis"), Event("bear_attack")>>
           ends == <<Event("rebuttal"), Event("judge")>>
           early == begins \o BullCalls(q) \o between \o BearCalls(q) \o ends
<1>7. early \in Seq(Early)
  <2> HIDE DEF begins, between, ends
  <2>1. begins \in Seq(Early) /\ between \in Seq(Early) /\ ends \in Seq(Early)
    BY <1>6 DEF begins, between, ends
  <2>2. QED BY <1>3, <2>1, ConcatProperties
<1>8. /\ ToolPlan(q) = (BullCalls(q) \o BearCalls(q)) \o <<Decide, Record>>
      /\ StreamPlan(q) = early \o <<Decide, Record, Event("verdict"), Event("done")>>
  BY DEF ToolPlan, StreamPlan
<1> HIDE DEF early
<1>9. /\ Len(<<Decide, Record>>) = 2
      /\ Len(<<Decide, Record, Event("verdict"), Event("done")>>) = 4
  OBVIOUS
<1>10. QED BY <1>1, <1>4, <1>5, <1>7, <1>8, <1>9, PlanEnds

-----------------------------------------------------------------------------
(* The steps.                                                              *)
LEMMA InitIInv == Init => IInv
<1> SUFFICES ASSUME Init PROVE IInv
  OBVIOUS
<1>1. /\ via = "none" /\ query \in Queries /\ todo = <<>> /\ wire = <<>>
      /\ found = [agent \in Agents |-> {}] /\ fallback = {}
      /\ judged = None /\ row = None /\ broken = FALSE /\ mounted = FALSE
      /\ source = "none" /\ page = "nothing" /\ requests = 0
  BY DEF Init, InitDebate
<1>2. Types
  <2>1. todo \in Seq(Ops) /\ wire \in Seq(Messages)
    BY <1>1, EmptySeq
  <2>2. QED BY <1>1, <2>1 DEF Types
<1>3. Len(todo) = 0 /\ Len(wire) = 0
  BY <1>1
<1>4. WhatIsLeft /\ Decided /\ Fresh
  BY <1>1, <1>3 DEF WhatIsLeft, IsEnd, Decided, Fresh
<1>5. Sent
  BY <1>1, <1>3 DEF Sent, Verdicts
<1>6. QED BY <1>2, <1>4, <1>5 DEF IInv

(* A step that leaves the debate alone, and neither adds to the wire nor   *)
(* shows a verdict that was not on it, keeps what was sent true.           *)
LEMMA DebateKept ==
  ASSUME IInv, UNCHANGED debateVars
  PROVE  /\ WhatIsLeft' /\ Decided' /\ Result' = Result
         /\ \A verdict : Recorded(verdict)' <=> Recorded(verdict)
<1>1. /\ via' = via /\ query' = query /\ todo' = todo /\ found' = found
      /\ fallback' = fallback /\ judged' = judged /\ row' = row
  BY DEF debateVars
<1>2. Result' = Result /\ AtJudge' = AtJudge /\ Final' = Final /\ BeforeJudge' = BeforeJudge
  BY <1>1 DEF Result, Judgement, ConfidenceOf, AtJudge, Final, BeforeJudge
<1>3. QED BY <1>1, <1>2 DEF IInv, WhatIsLeft, Decided, Recorded

LEMMA BeginIInv ==
  ASSUME IInv, AskTool \/ AskStream
  PROVE  IInv'
<1>1. /\ requests = 0 /\ via = "none" /\ page = "nothing" /\ wire = <<>>
      /\ judged = None
  <2>1. requests = 0
    BY DEF AskTool, AskStream
  <2>2. via = "none" /\ page = "nothing" /\ judged = None
    BY <2>1 DEF IInv, Fresh
  <2>3. wire = <<>>
    BY <2>2 DEF IInv, Sent
  <2>4. QED BY <2>1, <2>2, <2>3
<1>2. /\ query' = query /\ found' = found /\ fallback' = fallback /\ judged' = judged
      /\ row' = row /\ wire' = wire /\ broken' = broken /\ requests' = 1
      /\ page' \in {"nothing", "steps"} /\ mounted' \in {mounted, TRUE}
      /\ source' \in {source, "open"}
  BY <1>1 DEF AskTool, AskStream, Begin, Opens, netVars
<1>3. \/ via' = "tool" /\ todo' = ToolPlan(query)
      \/ via' = "stream" /\ todo' = StreamPlan(query)
  BY DEF AskTool, AskStream, Begin
<1>4. /\ todo' \in Seq(Ops) /\ IsEnd(todo', Final', BeforeJudge')
      /\ Len(todo') >= AtJudge' /\ (via' = "stream" => Len(todo') >= 4)
  <2>1. CASE via' = "tool" /\ todo' = ToolPlan(query)
    BY <2>1, PlansAreEnds DEF Final, BeforeJudge, AtJudge
  <2>2. CASE via' = "stream" /\ todo' = StreamPlan(query)
    BY <2>2, PlansAreEnds DEF Final, BeforeJudge, AtJudge
  <2>3. QED BY <1>3, <2>1, <2>2
<1>5. Types'
  BY <1>1, <1>2, <1>3, <1>4 DEF IInv, Types
<1>6. WhatIsLeft' /\ Decided' /\ Fresh'
  BY <1>1, <1>2, <1>3, <1>4 DEF WhatIsLeft, Decided, Fresh
<1>7. Sent'
  <2>1. ~ (via' = "stream" /\ Len(todo') \in {1, 2})
    <3>1. Len(todo') \in Nat
      BY <1>4, LenProperties
    <3>2. \A n \in Nat : n >= 4 => n \notin {1, 2}
      OBVIOUS
    <3>3. QED BY <1>4, <3>1, <3>2
  <2>2. wire' = <<>> /\ page' \notin Verdicts
    BY <1>1, <1>2 DEF Verdicts
  <2>3. QED BY <2>1, <2>2 DEF Sent
<1>8. QED BY <1>5, <1>6, <1>7 DEF IInv

(* Of the page's steps, and what the connection does.                      *)
LEMMA PageIInv ==
  ASSUME IInv, UNCHANGED debateVars,
         wire' \in Seq(Messages),
         \A i \in 1..Len(wire') : \E j \in 1..Len(wire) : wire'[i] = wire[j],
         \/ page' \in {page, "nothing", "steps", "error"}
         \/ \E i \in 1..Len(wire) : wire[i].step = "verdict" /\ page' = wire[i].judged.verdict,
         broken' \in BOOLEAN, mounted' \in BOOLEAN, source' \in {"none", "open", "closed"},
         requests' = 1
  PROVE  IInv'
<1>1. /\ WhatIsLeft' /\ Decided' /\ Result' = Result
      /\ \A verdict : Recorded(verdict)' <=> Recorded(verdict)
  BY DebateKept
<1>2. /\ via' = via /\ query' = query /\ todo' = todo /\ found' = found
      /\ fallback' = fallback /\ judged' = judged /\ row' = row
  BY DEF debateVars
<1>3. page' = page \/ page' \in {"nothing", "steps", "error"} \/ Recorded(page')
  BY DEF IInv, Sent
<1>4. Types'
  BY <1>2, <1>3 DEF IInv, Types, Recorded
<1>5. Fresh'
  BY DEF Fresh, IInv, Types
<1>6. Sent'
  <2>1. via' = "stream" /\ Len(todo') \in {1, 2} => row' \in {Result'.verdict, Failed}
    BY <1>1, <1>2 DEF IInv, Sent
  <2>2. ASSUME NEW i \in 1..Len(wire'), wire'[i].step = "verdict"
        PROVE  Recorded(wire[i].judged.verdict)'
    <3>1. PICK j \in 1..Len(wire) : wire'[i] = wire[j]
      OBVIOUS
    <3>2. Recorded(wire[j].judged.verdict)
      BY <2>2, <3>1 DEF IInv, Sent
    <3>3. Recorded(wire'[i].judged.verdict)
      BY <3>1, <3>2
    <3>4. QED BY <1>2, <3>3 DEF Recorded
  <2>3. page' \in Verdicts => Recorded(page)'
    <3>1. page' \in Verdicts => Recorded(page')
      BY <1>3 DEF IInv, Sent, Verdicts
    <3>2. QED BY <1>2, <3>1 DEF Recorded
  <2>4. via' # "stream" => wire' = <<>> /\ page' \notin Verdicts
    <3>1. ASSUME via # "stream" PROVE wire' = <<>> /\ page' \notin Verdicts
      <4>1. wire = <<>> /\ page \notin Verdicts /\ Len(wire) = 0 /\ (\A j \in 1..Len(wire) : FALSE)
        BY <3>1 DEF IInv, Sent
      <4>2. Len(wire') = 0
        <5>1. Len(wire') \in Nat /\ ~ (\E j \in 1..Len(wire) : TRUE)
          BY <4>1, LenProperties
        <5>2. ~ (1 \in 1..Len(wire'))
          BY <5>1
        <5>3. QED BY <5>1, <5>2
      <4>3. wire' = <<>>
        BY <4>2, EmptySeq
      <4>4. page' \notin Verdicts
        BY <4>1 DEF Verdicts
      <4>5. QED BY <4>3, <4>4
    <3>2. QED BY <1>2, <3>1
  <2>5. QED BY <2>1, <2>2, <2>3, <2>4 DEF Sent
<1>7. QED BY <1>1, <1>4, <1>5, <1>6 DEF IInv

(* While more than one thing is left no verdict has been sent.             *)
LEMMA NothingSent ==
  ASSUME IInv, Len(todo) \in Nat, Len(todo) > 1
  PROVE  (\A i \in 1..Len(wire) : wire[i].step # "verdict") /\ page \notin Verdicts
BY DEF IInv, Sent, Recorded

(* A call, or the end of an agent, leaves the judge something to judge.    *)
LEMMA CallReturnsLeaves ==
  ASSUME IInv, CallReturns
  PROVE  /\ todo' \in Seq(Ops) /\ IsEnd(todo', Final, BeforeJudge)
         /\ Len(todo') >= AtJudge
         /\ found' \in [Agents -> SUBSET Evidence] /\ fallback' \subseteq Agents
<1>1. todo # <<>> /\ Doing("call") /\ todo' = Tail(todo)
  BY DEF CallReturns, Doing, Done
<1>2. Len(todo) \in Nat /\ Len(todo) > AtJudge /\ Head(todo) \in Calls /\ AtJudge \in {2, 4}
  BY <1>1, HeadTells DEF IInv, AtJudge
<1>3. /\ todo' \in Seq(Ops) /\ Len(todo') = Len(todo) - 1
      /\ IsEnd(todo', Final, BeforeJudge)
  BY <1>1, TailEnds DEF IInv, Types, WhatIsLeft
<1>4. Len(todo') >= AtJudge
  BY <1>2, <1>3
<1>5. PICK agent \in Agents, tool \in {"quote", "graph", "news"} : Head(todo) = Call(agent, tool)
  BY <1>2 DEF Calls
<1>6. Head(todo).agent = agent /\ Head(todo).source = tool
  BY <1>5 DEF Call
<1>7. PICK e \in Findings[tool] : found' = [found EXCEPT ![agent] = @ \cup e]
  BY <1>6 DEF CallReturns
<1>8. e \subseteq Evidence
  BY <1>7 DEF Findings, Evidence
<1>9. found' \in [Agents -> SUBSET Evidence] /\ fallback' \subseteq Agents
  BY <1>7, <1>8 DEF IInv, Types, CallReturns
<1>10. QED BY <1>3, <1>4, <1>9

LEMMA AgentFailsLeaves ==
  ASSUME IInv, AgentFails
  PROVE  /\ todo' \in Seq(Ops) /\ IsEnd(todo', Final, BeforeJudge)
         /\ Len(todo') >= AtJudge
         /\ found' \in [Agents -> SUBSET Evidence] /\ fallback' \subseteq Agents
<1>1. todo # <<>> /\ Doing("call")
  BY DEF AgentFails, Doing
<1>2. Len(todo) \in Nat /\ Len(todo) > AtJudge /\ Head(todo) \in Calls /\ AtJudge \in {2, 4}
  BY <1>1, HeadTells DEF IInv, AtJudge
<1>3. PICK n \in 1..Len(todo) :
        /\ \A i \in 1..n : IsCallOf(Head(todo).agent, todo[i])
        /\ todo' = SubSeq(todo, n + 1, Len(todo))
  BY DEF AgentFails
<1>4. todo \in Seq(Ops) /\ IsEnd(todo, Final, BeforeJudge)
  BY DEF IInv, Types, WhatIsLeft
<1>5. /\ todo' \in Seq(Ops) /\ Len(todo') = Len(todo) - n
      /\ \A i \in 1..Len(todo') : todo'[i] = todo[n + i]
  <2>1. /\ n + 1 \in Int /\ Len(todo) \in Int
        /\ \A i \in (n + 1)..Len(todo) : todo[i] \in Ops
    BY <1>2, <1>4, ElementOfSeq
  <2>2. /\ todo' \in Seq(Ops)
        /\ Len(todo') = IF n + 1 <= Len(todo) THEN Len(todo) - (n + 1) + 1 ELSE 0
        /\ \A i \in 1..(Len(todo) - (n + 1) + 1) : todo'[i] = todo[(n + 1) + i - 1]
    BY <1>3, <2>1, SubSeqProperties
  <2>3. Len(todo') = Len(todo) - n /\ Len(todo) - (n + 1) + 1 = Len(todo) - n
    BY <1>2, <2>2
  <2>4. QED BY <2>2, <2>3
<1>6. IsEnd(todo', Final, BeforeJudge)
  <2>1. n \in 0..Len(todo)
    BY <1>2
  <2>2. QED BY <1>4, <1>5, <2>1, RestEnds
<1>7. Len(todo') >= AtJudge
  <2>1. ASSUME n >= Len(todo) + 1 - AtJudge PROVE FALSE
    <3>1. AtJudge \in 1..Len(todo) /\ Len(todo) + 1 - AtJudge \in 1..n
      BY <1>2, <2>1
    <3>2. Len(Final) = AtJudge /\ Left(AtJudge, Final) = Decide
      BY DEF Final, AtJudge, Left
    <3>3. Left(AtJudge, todo) = Decide
      BY <1>2, <1>4, <3>1, <3>2 DEF IsEnd
    <3>4. todo[Len(todo) + 1 - AtJudge] = Decide
      BY <3>3 DEF Left
    <3>5. Decide.op = "call"
      BY <1>3, <3>1, <3>4 DEF IsCallOf
    <3>6. QED BY <3>5 DEF Decide
  <2>2. QED BY <1>2, <1>5, <2>1
<1>8. Head(todo).agent \in Agents
  <2>1. PICK agent \in Agents, tool \in {"quote", "graph", "news"} : Head(todo) = Call(agent, tool)
    BY <1>2 DEF Calls
  <2>2. QED BY <2>1 DEF Call
<1>9. found' \in [Agents -> SUBSET Evidence] /\ fallback' \subseteq Agents
  BY <1>8 DEF AgentFails, IInv, Types
<1>10. QED BY <1>5, <1>6, <1>7, <1>9

LEMMA CallIInv ==
  ASSUME IInv, CallReturns \/ AgentFails, UNCHANGED <<netVars, pageVars>>
  PROVE  IInv'
<1>1. todo # <<>> /\ Doing("call")
  BY DEF CallReturns, AgentFails, Doing
<1>2. /\ Len(todo) \in Nat /\ Len(todo) > AtJudge /\ AtJudge \in {2, 4}
      /\ via \in {"tool", "stream"} /\ (via = "stream" => AtJudge = 4)
  BY <1>1, HeadTells DEF IInv, AtJudge
<1>3. /\ todo' \in Seq(Ops) /\ IsEnd(todo', Final, BeforeJudge)
      /\ Len(todo') >= AtJudge
      /\ found' \in [Agents -> SUBSET Evidence] /\ fallback' \subseteq Agents
  BY CallReturnsLeaves, AgentFailsLeaves
<1>4. /\ via' = via /\ query' = query /\ judged' = judged /\ row' = row
      /\ wire' = wire /\ broken' = broken /\ source' = source /\ page' = page
      /\ mounted' = mounted /\ requests' = requests
  BY DEF CallReturns, AgentFails, netVars, pageVars
<1>5. Types'
  BY <1>3, <1>4 DEF IInv, Types
<1>6. Final' = Final /\ BeforeJudge' = BeforeJudge /\ AtJudge' = AtJudge
  BY <1>4 DEF Final, BeforeJudge, AtJudge
<1>7. WhatIsLeft'
  BY <1>2, <1>3, <1>4, <1>6 DEF WhatIsLeft
<1>8. Decided'
  BY <1>1, <1>2, <1>3, <1>4, <1>6 DEF IInv, Decided
<1>9. Fresh'
  BY <1>2, <1>4 DEF IInv, Fresh
<1>10. Sent'
  <2>1. (\A i \in 1..Len(wire) : wire[i].step # "verdict") /\ page \notin Verdicts
    <3>1. Len(todo) > 1
      BY <1>2
    <3>2. QED BY <1>2, <3>1, NothingSent
  <2>2. ~ (via' = "stream" /\ Len(todo') \in {1, 2})
    <3>1. Len(todo') \in Nat
      BY <1>3, LenProperties
    <3>2. \A n \in Nat : n >= 4 => n \notin {1, 2}
      OBVIOUS
    <3>3. QED BY <1>2, <1>3, <1>4, <3>1, <3>2
  <2>3. QED BY <1>4, <2>1, <2>2 DEF IInv, Sent
<1>11. QED BY <1>5, <1>7, <1>8, <1>9, <1>10 DEF IInv

LEMMA JudgeIInv ==
  ASSUME IInv, JudgeDecides, UNCHANGED <<netVars, pageVars>>
  PROVE  IInv'
<1>1. todo # <<>> /\ Doing("judge") /\ todo' = Tail(todo)
  BY DEF JudgeDecides, Doing, Done
<1>2. /\ Len(todo) \in Nat /\ Len(todo) = AtJudge /\ AtJudge \in {2, 4}
      /\ via \in {"tool", "stream"} /\ (via = "stream" => AtJudge = 4)
  BY <1>1, HeadTells DEF IInv, AtJudge
<1>3. /\ todo' \in Seq(Ops) /\ Len(todo') = Len(todo) - 1
      /\ IsEnd(todo', Final, BeforeJudge)
  BY <1>1, TailEnds DEF IInv, Types, WhatIsLeft
<1>4. /\ via' = via /\ query' = query /\ judged' = Result /\ row' = row
      /\ found' = found /\ fallback' = fallback
      /\ wire' = wire /\ broken' = broken /\ source' = source /\ page' = page
      /\ mounted' = mounted /\ requests' = requests
  BY DEF JudgeDecides, Result, netVars, pageVars
<1>5. Types'
  BY <1>3, <1>4 DEF IInv, Types
<1>6. /\ Final' = Final /\ BeforeJudge' = BeforeJudge /\ AtJudge' = AtJudge
      /\ Result' = Result
  BY <1>4 DEF Final, BeforeJudge, AtJudge, Result, Judgement, ConfidenceOf
<1>7. WhatIsLeft'
  BY <1>2, <1>3, <1>4, <1>6 DEF WhatIsLeft
<1>8. Decided'
  BY <1>2, <1>3, <1>4, <1>6 DEF Decided
<1>9. Fresh'
  BY <1>2, <1>4 DEF IInv, Fresh
<1>10. Sent'
  <2>1. (\A i \in 1..Len(wire) : wire[i].step # "verdict") /\ page \notin Verdicts
    BY <1>2, NothingSent
  <2>2. ~ (via' = "stream" /\ Len(todo') \in {1, 2})
    BY <1>2, <1>3, <1>4
  <2>3. QED BY <1>4, <2>1, <2>2 DEF IInv, Sent
<1>11. QED BY <1>5, <1>7, <1>8, <1>9, <1>10 DEF IInv

LEMMA RecordIInv ==
  ASSUME IInv, RecordVerdict, UNCHANGED <<netVars, pageVars>>
  PROVE  IInv'
<1>1. todo # <<>> /\ Doing("record") /\ todo' = Tail(todo)
  BY DEF RecordVerdict, Doing, Done
<1>2. /\ Len(todo) \in Nat /\ Len(todo) = AtJudge - 1 /\ AtJudge \in {2, 4}
      /\ via \in {"tool", "stream"} /\ (via = "stream" => AtJudge = 4)
      /\ (via = "tool" => AtJudge = 2)
  BY <1>1, HeadTells DEF IInv, AtJudge
<1>3. /\ todo' \in Seq(Ops) /\ Len(todo') = Len(todo) - 1
      /\ IsEnd(todo', Final, BeforeJudge)
  BY <1>1, TailEnds DEF IInv, Types, WhatIsLeft
<1>4. judged = Result
  BY <1>1, <1>2 DEF IInv, Decided
<1>5. /\ via' = via /\ query' = query /\ judged' = judged
      /\ row' \in {Result.verdict, Failed} /\ Result.verdict \in Verdicts
      /\ found' = found /\ fallback' = fallback
      /\ wire' = wire /\ broken' = broken /\ source' = source /\ page' = page
      /\ mounted' = mounted /\ requests' = requests
  BY <1>4, JudgeRange DEF RecordVerdict, Result, Judgement, netVars, pageVars
<1>6. Types'
  BY <1>3, <1>5 DEF IInv, Types
<1>7. /\ Final' = Final /\ BeforeJudge' = BeforeJudge /\ AtJudge' = AtJudge
      /\ Result' = Result
  BY <1>5 DEF Final, BeforeJudge, AtJudge, Result, Judgement, ConfidenceOf
<1>8. WhatIsLeft'
  BY <1>2, <1>3, <1>5, <1>7 DEF WhatIsLeft
<1>9. Decided'
  BY <1>2, <1>3, <1>4, <1>5, <1>7 DEF Decided
<1>10. Fresh'
  BY <1>2, <1>5 DEF IInv, Fresh
<1>11. Sent'
  <2>1. (\A i \in 1..Len(wire) : wire[i].step # "verdict") /\ page \notin Verdicts
    <3>1. CASE via = "tool"
      BY <3>1 DEF IInv, Sent
    <3>2. CASE via = "stream"
      BY <1>2, <3>2, NothingSent
    <3>3. QED BY <1>2, <3>1, <3>2
  <2>2. QED BY <1>5, <1>7, <2>1 DEF IInv, Sent
<1>12. QED BY <1>6, <1>8, <1>9, <1>10, <1>11 DEF IInv

LEMMA SendIInv ==
  ASSUME IInv, Send
  PROVE  IInv'
<1>1. todo # <<>> /\ Doing("event") /\ todo' = Tail(todo)
  BY DEF Send, Doing, Done
<1>2. /\ Len(todo) \in Nat /\ via = "stream" /\ AtJudge = 4
      /\ Len(todo) = 1 \/ Len(todo) = 2 \/ Len(todo) > 4
      /\ Head(todo).step \in Steps /\ (Head(todo).step = "verdict" => Len(todo) = 2)
  <2>1. via = "stream"
    BY <1>1, HeadTells DEF IInv
  <2>2. AtJudge = 4
    BY <2>1 DEF AtJudge
  <2>3. QED BY <1>1, <2>1, <2>2, HeadTells DEF IInv
<1>3. /\ todo' \in Seq(Ops) /\ Len(todo') = Len(todo) - 1
      /\ IsEnd(todo', Final, BeforeJudge)
  BY <1>1, TailEnds DEF IInv, Types, WhatIsLeft
<1>4. /\ via' = via /\ query' = query /\ judged' = judged /\ row' = row
      /\ found' = found /\ fallback' = fallback
      /\ broken' = broken /\ source' = source /\ page' = page
      /\ mounted' = mounted /\ requests' = requests
  BY DEF Send, pageVars
<1> DEFINE message == [step |-> Head(todo).step, judged |-> judged]
<1>5. wire' = wire \/ wire' = Append(wire, message)
  BY DEF Send
<1>6. message \in Messages
  <2>1. query \in Queries
    BY DEF IInv, Types
  <2>2. judged = None \/ judged \in Judgements
    BY <2>1, ResultType DEF IInv, Decided
  <2>3. QED BY <1>2, <2>2 DEF Messages
<1> HIDE DEF message
<1>7. /\ wire \in Seq(Messages) /\ wire' \in Seq(Messages)
      /\ \A i \in 1..Len(wire') : wire'[i] = message \/ \E j \in 1..Len(wire) : wire'[i] = wire[j]
  <2>1. wire \in Seq(Messages)
    BY DEF IInv, Types
  <2>2. CASE wire' = wire
    BY <2>1, <2>2
  <2>3. CASE wire' = Append(wire, message)
    <3>1. /\ wire' \in Seq(Messages) /\ Len(wire') = Len(wire) + 1 /\ Len(wire) \in Nat
          /\ \A i \in 1..Len(wire) : wire'[i] = wire[i]
          /\ wire'[Len(wire) + 1] = message
      BY <1>6, <2>1, <2>3, AppendProperties, LenProperties
    <3>2. \A i \in 1..Len(wire') : i \in 1..Len(wire) \/ i = Len(wire) + 1
      BY <3>1
    <3>3. QED BY <2>1, <3>1, <3>2
  <2>4. QED BY <1>5, <2>2, <2>3
<1>8. Types'
  BY <1>3, <1>4, <1>7 DEF IInv, Types
<1>9. /\ Final' = Final /\ BeforeJudge' = BeforeJudge /\ AtJudge' = AtJudge
      /\ Result' = Result
  BY <1>4 DEF Final, BeforeJudge, AtJudge, Result, Judgement, ConfidenceOf
<1>10. WhatIsLeft' /\ Fresh'
  BY <1>2, <1>3, <1>4, <1>9 DEF IInv, WhatIsLeft, Fresh
<1>11. Decided'
  <2>1. CASE Len(todo) > 4
    <3>1. judged = None /\ Len(todo') >= 4
      BY <1>1, <1>2, <1>3, <2>1 DEF IInv, Decided
    <3>2. QED BY <1>2, <1>4, <1>9, <3>1 DEF Decided
  <2>2. CASE Len(todo) = 1 \/ Len(todo) = 2
    <3>1. judged = Result /\ Len(todo') < 4
      BY <1>1, <1>2, <1>3, <2>2 DEF IInv, Decided
    <3>2. QED BY <1>2, <1>4, <1>9, <3>1 DEF Decided
  <2>3. QED BY <1>2, <2>1, <2>2
<1>12. Len(todo) <= 1 => Len(todo') <= 1
  BY <1>2, <1>3
<1>13. ASSUME message.step = "verdict"
       PROVE  /\ Len(todo') <= 1 /\ message.judged.verdict \in Verdicts
              /\ row' \in {message.judged.verdict, Failed}
  <2>1. Len(todo) = 2 /\ message.judged = judged
    BY <1>2, <1>13 DEF message
  <2>2. judged = Result
    BY <1>1, <1>2, <2>1 DEF IInv, Decided
  <2>3. row \in {Result.verdict, Failed} /\ Result.verdict \in Verdicts
    BY <1>2, <2>1, JudgeRange DEF IInv, Sent, Result, Judgement
  <2>4. QED BY <1>3, <1>4, <2>1, <2>2, <2>3
<1>14. Sent'
  <2>1. via' = "stream" /\ Len(todo') \in {1, 2} => row' \in {Result'.verdict, Failed}
    <3>1. Len(todo') \in {1, 2} => Len(todo) = 2
      BY <1>2, <1>3
    <3>2. QED BY <1>4, <1>9, <3>1 DEF IInv, Sent
  <2>2. ASSUME NEW i \in 1..Len(wire'), wire'[i].step = "verdict"
        PROVE  Recorded(wire[i].judged.verdict)'
    <3>1. CASE wire'[i] = message
      BY <1>13, <2>2, <3>1 DEF Recorded
    <3>2. CASE \E j \in 1..Len(wire) : wire'[i] = wire[j]
      <4>1. PICK j \in 1..Len(wire) : wire'[i] = wire[j]
        BY <3>2
      <4>2. Recorded(wire[j].judged.verdict)
        BY <2>2, <4>1 DEF IInv, Sent
      <4>3. QED BY <1>4, <1>12, <4>1, <4>2 DEF Recorded
    <3>3. QED BY <1>7, <3>1, <3>2
  <2>3. page' \in Verdicts => Recorded(page)'
    BY <1>4, <1>12 DEF IInv, Sent, Recorded
  <2>4. via' = "stream"
    BY <1>2, <1>4
  <2>5. QED BY <2>1, <2>2, <2>3, <2>4 DEF Sent
<1>15. QED BY <1>8, <1>10, <1>11, <1>14 DEF IInv

LEMMA CancelIInv ==
  ASSUME IInv, Cancel
  PROVE  IInv'
<1>1. todo # <<>> /\ via = "stream" /\ todo' = <<>>
  BY DEF Cancel
<1>2. /\ via' = via /\ query' = query /\ judged' = judged
      /\ found' = found /\ fallback' = fallback /\ wire' = wire
      /\ broken' = broken /\ source' = source /\ page' = page
      /\ mounted' = mounted /\ requests' = requests
  BY DEF Cancel, netVars, pageVars
<1>3. row' = row \/ (Doing("record") /\ row' = judged.verdict)
  BY DEF Cancel
<1>4. Len(todo) \in Nat /\ AtJudge = 4 /\ (Doing("record") => Len(todo) = 3)
  BY <1>1, HeadTells DEF IInv, AtJudge
<1>5. Doing("record") => judged.verdict \in Verdicts
  <2>1. Result.verdict \in Verdicts
    BY JudgeRange DEF Result, Judgement
  <2>2. ASSUME Doing("record") PROVE judged = Result
    <3>1. Len(todo) = 3 /\ AtJudge = 4
      BY <1>4, <2>2
    <3>2. ~ (Len(todo) >= AtJudge)
      BY <3>1
    <3>3. QED BY <1>1, <3>2 DEF IInv, Decided
  <2>3. QED BY <2>1, <2>2
<1>6. Len(todo') = 0 /\ todo' \in Seq(Ops)
  BY <1>1, EmptySeq
<1>7. Types'
  BY <1>2, <1>3, <1>5, <1>6 DEF IInv, Types
<1>8. AtJudge' = AtJudge /\ Result' = Result
  BY <1>2 DEF AtJudge, Result, Judgement, ConfidenceOf
<1>9. WhatIsLeft' /\ Fresh'
  BY <1>1, <1>2, <1>6 DEF WhatIsLeft, IsEnd, IInv, Fresh
<1>10. Decided'
  BY <1>1, <1>2, <1>4, <1>6, <1>8 DEF IInv, Decided
<1>11. Sent'
  <2>1. \A verdict : Recorded(verdict) => verdict \in Verdicts /\ row' \in {verdict, Failed}
    BY <1>3, <1>4 DEF Recorded
  <2>2. ASSUME NEW i \in 1..Len(wire'), wire'[i].step = "verdict"
        PROVE  Recorded(wire[i].judged.verdict)'
    BY <1>2, <1>6, <2>1, <2>2 DEF IInv, Sent, Recorded
  <2>3. page' \in Verdicts => Recorded(page)'
    BY <1>2, <1>6, <2>1 DEF IInv, Sent, Recorded
  <2>4. QED BY <1>1, <1>2, <1>6, <2>2, <2>3 DEF Sent
<1>12. QED BY <1>7, <1>9, <1>10, <1>11 DEF IInv

LEMMA ConnectionIInv ==
  ASSUME IInv, Refused \/ Break \/ Deliver \/ ConnectionError \/ Unmount
  PROVE  IInv'
<1>1. wire \in Seq(Messages) /\ Types
  BY DEF IInv, Types
<1>2. requests = 0 => source = "none" /\ mounted = FALSE
  BY DEF IInv, Fresh
<1>3. requests # 0 => requests = 1
  BY <1>1 DEF Types
<1>4. CASE Refused
  BY <1>1, <1>4, PageIInv DEF Refused, Opens, debateVars, Types
<1>5. CASE Break
  <2>1. wire' = <<>> /\ Len(wire') = 0 /\ wire' \in Seq(Messages)
    BY <1>5, EmptySeq DEF Break
  <2>2. QED BY <1>1, <1>2, <1>3, <1>5, <2>1, PageIInv DEF Break, debateVars, pageVars, Types
<1>6. CASE Deliver
  <2>1. /\ source = "open" /\ wire # <<>> /\ wire' = Tail(wire)
        /\ source' \in {"open", "closed"}
        /\ page' = page \/ (Head(wire).step = "verdict" /\ page' = Head(wire).judged.verdict)
        /\ UNCHANGED debateVars /\ broken' = broken /\ mounted' = mounted /\ requests' = requests
    BY <1>6 DEF Deliver
  <2>2. /\ wire' \in Seq(Messages) /\ Len(wire') = Len(wire) - 1
        /\ \A i \in 1..Len(wire') : wire'[i] = wire[i + 1]
    BY <1>1, <2>1, HeadTailProperties
  <2>3. Len(wire) \in Nat /\ Len(wire) >= 1 /\ Head(wire) = wire[1]
    <3>1. Len(wire) \in Nat \ {0}
      BY <1>1, <2>1, EmptySeq
    <3>2. QED BY <3>1
  <2>4. ASSUME NEW i \in 1..Len(wire') PROVE \E j \in 1..Len(wire) : wire'[i] = wire[j]
    <3>1. i + 1 \in 1..Len(wire)
      BY <2>2, <2>3
    <3>2. QED BY <2>2, <3>1
  <2>5. \/ page' = page
        \/ \E i \in 1..Len(wire) : wire[i].step = "verdict" /\ page' = wire[i].judged.verdict
    <3>1. 1 \in 1..Len(wire)
      BY <2>3
    <3>2. QED BY <2>1, <2>3, <3>1
  <2>6. /\ broken' \in BOOLEAN /\ mounted' \in BOOLEAN
        /\ source' \in {"none", "open", "closed"} /\ requests' = 1
    BY <1>1, <1>2, <1>3, <2>1 DEF Types
  <2>7. QED BY <2>1, <2>2, <2>4, <2>5, <2>6, PageIInv
<1>7. CASE ConnectionError
  BY <1>1, <1>2, <1>3, <1>7, PageIInv
     DEF ConnectionError, Lost, debateVars, netVars, Types
<1>8. CASE Unmount
  BY <1>1, <1>2, <1>3, <1>8, PageIInv DEF Unmount, debateVars, netVars, Types
<1>9. QED BY <1>4, <1>5, <1>6, <1>7, <1>8

(* The inductive invariant holds in every reachable state.                 *)
THEOREM Invariance == Spec => []IInv
<1>1. Init => IInv
  BY InitIInv
<1>2. IInv /\ [Next]_vars => IInv'
  <2> SUFFICES ASSUME IInv, [Next]_vars PROVE IInv'
    OBVIOUS
  <2>1. CASE AskTool \/ AskStream
    BY <2>1, BeginIInv
  <2>2. CASE Refused \/ Break \/ PageStep
    BY <2>2, ConnectionIInv DEF PageStep
  <2>3. CASE ServerStep
    BY <2>3, CallIInv, JudgeIInv, RecordIInv, SendIInv, CancelIInv DEF ServerStep
  <2>4. CASE UNCHANGED vars
    <3>1. UNCHANGED debateVars /\ UNCHANGED netVars /\ UNCHANGED pageVars
      BY <2>4 DEF vars
    <3>2. /\ WhatIsLeft' /\ Decided' /\ Result' = Result
          /\ \A verdict : Recorded(verdict)' <=> Recorded(verdict)
      BY <3>1, DebateKept
    <3>3. Types' /\ Fresh'
      BY <3>1 DEF debateVars, netVars, pageVars, IInv, Types, Fresh
    <3>4. Sent'
      BY <3>1, <3>2 DEF debateVars, netVars, pageVars, IInv, Sent, Recorded
    <3>5. QED BY <3>2, <3>3, <3>4 DEF IInv
  <2>5. QED BY <2>1, <2>2, <2>3, <2>4 DEF Next
<1>3. QED BY <1>1, <1>2, PTL DEF Spec

(* Every variable keeps its type.                                          *)
THEOREM TypeCorrect == Spec => []TypeOK
<1>1. IInv => TypeOK
  <2> SUFFICES ASSUME IInv PROVE TypeOK
    OBVIOUS
  <2>1. judged \in Judgements \cup {None}
    BY ResultType DEF IInv, Types, Decided
  <2>2. QED BY <2>1 DEF IInv, Types, TypeOK, Judgements
<1>2. QED BY <1>1, Invariance, PTL

(* Whatever is lost, and whenever the server is cancelled, a verdict that  *)
(* the page shows was recorded, or its recording was tried and failed.     *)
THEOREM NothingShownUnrecorded == Spec => []ShownIsRecorded
<1>1. IInv => ShownIsRecorded
  BY DEF IInv, Sent, Recorded, ShownIsRecorded
<1>2. QED BY <1>1, Invariance, PTL

(* With more evidence an agent is no less sure of its case.                *)
LEMMA ConfidenceGrows ==
  ASSUME NEW agent \in Agents, NEW framing \in Int, NEW evidence, NEW more
  PROVE  /\ Confidence(agent, framing, evidence \cup more) \in 0..Cap
         /\ Confidence(agent, framing, evidence) \in 0..Cap
         /\ Confidence(agent, framing, evidence \cup more) >= Confidence(agent, framing, evidence)
<1>1. Worth(agent, evidence) \in 0..42 /\ Worth(agent, evidence \cup more) \in 0..42
  BY WorthRange
<1>2. Worth(agent, evidence \cup more) >= Worth(agent, evidence)
  <2>1. CASE agent = "bull"
    BY <2>1 DEF Worth, Weight
  <2>2. CASE agent = "bear"
    BY <2>2 DEF Worth, Weight
  <2>3. QED BY <2>1, <2>2 DEF Agents
<1>3. Prior(agent, framing) \in {0, 10, 20}
  BY DEF Prior
<1>4. QED BY <1>1, <1>2, <1>3 DEF Confidence, Base, Cap

(* The verdict follows the evidence, whatever the query and whatever the   *)
(* agents found.                                                           *)
THEOREM JudgeIsFair == Spec => []VerdictFollowsEvidence
<1>1. IInv => VerdictFollowsEvidence
  <2> SUFFICES ASSUME IInv, judged # None
               PROVE  VerdictFollowsEvidence
    BY DEF VerdictFollowsEvidence, VerdictMonotone, VerdictMirrored
  <2>1. judged = Result /\ Result \in Judgements
    BY ResultType DEF IInv, Types, Decided
  <2>2. judged.bull \in Nat /\ judged.bear \in Nat
    BY <2>1 DEF Judgements, Cap
  <2>3. judged.verdict = Judge(judged.bull, judged.bear)
    BY <2>1 DEF Result, Judgement
  <2>4. VerdictMirrored
    BY <2>2, <2>3, JudgeFollows, 0 \in Nat DEF VerdictMirrored
  <2>5. ASSUME NEW agent \in Agents, agent \notin fallback, NEW more
        PROVE  \E n \in Nat : WithMore(agent, more) = ConfidenceOf(agent) + n
    <3>1. query.framing \in Int
      BY QueriesAssumption DEF IInv, Types
    <3>2. ConfidenceOf(agent) = Confidence(agent, query.framing, found[agent])
      BY <2>5 DEF ConfidenceOf
    <3>3. /\ WithMore(agent, more) \in 0..Cap /\ ConfidenceOf(agent) \in 0..Cap
          /\ WithMore(agent, more) >= ConfidenceOf(agent)
      BY <3>1, <3>2, ConfidenceGrows DEF WithMore
    <3>4. WithMore(agent, more) - ConfidenceOf(agent) \in Nat
      BY <3>3 DEF Cap
    <3>5. QED BY <3>3, <3>4 DEF Cap
  <2>6. judged.bull = ConfidenceOf("bull") /\ judged.bear = ConfidenceOf("bear")
    BY <2>1 DEF Result, Judgement
  <2>7. VerdictMonotone
    <3> SUFFICES ASSUME NEW more \in SUBSET Evidence
                 PROVE  /\ "bull" \notin fallback =>
                             Rank(Judge(WithMore("bull", more), judged.bear)) >= Rank(judged.verdict)
                        /\ "bear" \notin fallback =>
                             Rank(Judge(judged.bull, WithMore("bear", more))) <= Rank(judged.verdict)
      BY DEF VerdictMonotone
    <3>1. ASSUME "bull" \notin fallback
          PROVE  Rank(Judge(WithMore("bull", more), judged.bear)) >= Rank(judged.verdict)
      <4>1. PICK n \in Nat : WithMore("bull", more) = judged.bull + n
        BY <2>5, <2>6, <3>1 DEF Agents
      <4>2. QED BY <2>2, <2>3, <4>1, JudgeFollows
    <3>2. ASSUME "bear" \notin fallback
          PROVE  Rank(Judge(judged.bull, WithMore("bear", more))) <= Rank(judged.verdict)
      <4>1. PICK n \in Nat : WithMore("bear", more) = judged.bear + n
        BY <2>5, <2>6, <3>2 DEF Agents
      <4>2. QED BY <2>2, <2>3, <4>1, JudgeFollows
    <3>3. QED BY <3>1, <3>2
  <2>8. QED BY <2>4, <2>7 DEF VerdictFollowsEvidence
<1>2. QED BY <1>1, Invariance, PTL

(* What the same evidence, or less, is worth to the two sides.             *)
LEMMA WorthCompared ==
  ASSUME NEW bull \in SUBSET Evidence, NEW bear \in SUBSET Evidence
  PROVE  /\ bull \subseteq bear => Worth("bull", bull) <= Worth("bear", bear) + 1
         /\ bear \subseteq bull =>
              /\ Worth("bear", bear) <= Worth("bull", bull) + 8
              /\ Worth("bear", bear) = Worth("bull", bull) + 8 <=>
                   /\ bear = bull
                   /\ {"events", "cascade"} \subseteq bear /\ "quote" \notin bear
<1>1. Worth("bull", bull) = (IF "quote" \in bull THEN 8 ELSE 0)
          + (IF "dependents" \in bull THEN 12 ELSE 0)
          + (IF "events" \in bull THEN 8 ELSE 0) + (IF "cascade" \in bull THEN 6 ELSE 0)
  BY DEF Worth, Weight
<1>2. Worth("bear", bear) = (IF "quote" \in bear THEN 7 ELSE 0)
          + (IF "dependents" \in bear THEN 12 ELSE 0)
          + (IF "events" \in bear THEN 12 ELSE 0) + (IF "cascade" \in bear THEN 10 ELSE 0)
  BY DEF Worth, Weight
<1>3. bear = bull <=> \A e \in Evidence : e \in bear <=> e \in bull
  OBVIOUS
<1>4. QED BY <1>1, <1>2, <1>3 DEF Evidence

(* The sides of the verdicts.                                              *)
LEMMA RankTells ==
  ASSUME NEW verdict \in Verdicts
  PROVE  /\ Rank(verdict) > 0 => verdict \in {"BUY", "STRONG BUY"}
         /\ Rank(verdict) < 0 <=> verdict \in {"SELL", "STRONG SELL"}
<1>1. /\ Rank("STRONG SELL") = -2 /\ Rank("SELL") = -1 /\ Rank("BUY") = 1
      /\ Rank("STRONG BUY") = 2 /\ Rank("HOLD") = 0 /\ Rank("INSUFFICIENT DATA") = 0
  BY DEF Rank
<1>2. \/ verdict = "STRONG SELL" /\ Rank(verdict) = -2
      \/ verdict = "SELL" /\ Rank(verdict) = -1
      \/ verdict = "HOLD" /\ Rank(verdict) = 0
      \/ verdict = "INSUFFICIENT DATA" /\ Rank(verdict) = 0
      \/ verdict = "BUY" /\ Rank(verdict) = 1
      \/ verdict = "STRONG BUY" /\ Rank(verdict) = 2
  BY <1>1, Zenon DEF Verdicts
<1>3. \A r : r \in {-2, -1} => ~ (r > 0) /\ r < 0
  OBVIOUS
<1>4. ~ (0 > 0) /\ ~ (0 < 0) /\ 1 > 0 /\ ~ (1 < 0) /\ 2 > 0 /\ ~ (2 < 0)
  OBVIOUS
<1>5. QED BY <1>2, <1>3, <1>4, Zenon

(* With the same evidence, or less, the bull never wins, and the bear only *)
(* in the one case of equal evidence, whatever else the query says.        *)
THEOREM VerdictsNeedAdvantage == Spec => []WinnerHasAdvantage
<1>1. IInv => WinnerHasAdvantage
  <2> SUFFICES ASSUME IInv, judged # None, query.framing = 0, fallback = {}
               PROVE  /\ Rank(judged.verdict) > 0 => ~ (found["bull"] \subseteq found["bear"])
                      /\ found["bear"] \subseteq found["bull"] =>
                           /\ Rank(judged.verdict) < 0 <=> SellOfEqualEvidence
                           /\ judged.verdict # "STRONG SELL"
    BY DEF WinnerHasAdvantage
  <2>1. judged = Result
    BY DEF IInv, Decided
  <2> DEFINE bull == Worth("bull", found["bull"])
             bear == Worth("bear", found["bear"])
  <2>2. bull \in 0..42 /\ bear \in 0..42
    BY WorthRange DEF Agents
  <2>3. /\ found["bull"] \subseteq found["bear"] => bull <= bear + 1
        /\ found["bear"] \subseteq found["bull"] =>
             bear <= bull + 8 /\ (bear = bull + 8 <=> SellOfEqualEvidence)
    <3>1. found["bull"] \in SUBSET Evidence /\ found["bear"] \in SUBSET Evidence
      BY DEF IInv, Types, Agents
    <3>2. QED BY <3>1, WorthCompared DEF SellOfEqualEvidence
  <2>4. SellOfEqualEvidence => bear >= 22
    BY DEF SellOfEqualEvidence, Worth, Weight
  <2> HIDE DEF bull, bear
  <2>5. ConfidenceOf("bull") = Base + bull /\ ConfidenceOf("bear") = Base + bear
    BY <2>2 DEF ConfidenceOf, Confidence, Prior, Base, Cap, bull, bear
  <2>6. judged.verdict = Judge(Base + bull, Base + bear)
    BY <2>1, <2>5 DEF Result, Judgement
  <2> DEFINE verdict == Judge(Base + bull, Base + bear)
  <2>7. /\ verdict \in {"BUY", "STRONG BUY"} => bull >= bear + 8
        /\ verdict \in {"SELL", "STRONG SELL"} => bear >= bull + 8
        /\ verdict = "STRONG SELL" => bear >= bull + 15
        /\ bear = bull + 8 /\ bear >= 22 => verdict = "SELL"
        /\ verdict \in Verdicts
    BY <2>2 DEF Judge, Gap, Top, Base, Strong, Lean, Mixed, MinDirectional, Verdicts
  <2> HIDE DEF verdict
  <2>8. /\ Rank(verdict) > 0 => verdict \in {"BUY", "STRONG BUY"}
        /\ Rank(verdict) < 0 <=> verdict \in {"SELL", "STRONG SELL"}
    BY <2>7, RankTells
  <2>9. /\ ~ (bull <= bear + 1 /\ bull >= bear + 8)
        /\ ~ (bear <= bull + 8 /\ bear >= bull + 15)
        /\ bear <= bull + 8 /\ bear >= bull + 8 => bear = bull + 8
    BY <2>2
  <2>10. Rank(verdict) > 0 => ~ (found["bull"] \subseteq found["bear"])
    BY <2>3, <2>7, <2>8, <2>9, Zenon
  <2>11. ASSUME found["bear"] \subseteq found["bull"]
         PROVE  (Rank(verdict) < 0 <=> SellOfEqualEvidence) /\ verdict # "STRONG SELL"
    <3>1. verdict # "STRONG SELL"
      BY <2>3, <2>7, <2>9, <2>11, Zenon
    <3>2. Rank(verdict) < 0 => SellOfEqualEvidence
      BY <2>3, <2>7, <2>8, <2>9, <2>11, Zenon
    <3>3. SellOfEqualEvidence => Rank(verdict) < 0
      BY <2>3, <2>4, <2>7, <2>8, <2>11, Zenon
    <3>4. QED BY <3>1, <3>2, <3>3
  <2>12. QED BY <2>6, <2>10, <2>11 DEF verdict
<1>2. QED BY <1>1, Invariance, PTL
=============================================================================
