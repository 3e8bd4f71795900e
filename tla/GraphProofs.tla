------------------------------ MODULE GraphProofs ------------------------------
(***************************************************************************)
(* Proofs about GraphServices, for every set of companies, events, filings *)
(* and articles, every seed data, and any number of requests of any kind.  *)
(*                                                                         *)
(* The writers share no protocol but the form of their queries, and that   *)
(* is the first part of the argument: each query lets the graph grow       *)
(* (Grows), so what a request has found or written is still there when     *)
(* its next query comes, whatever ran in between.  The second part is what *)
(* each request knows of the graph at each of its stages (JobInv), which   *)
(* growth cannot disturb.  The third is that no two refreshes meet between *)
(* the look and the write (ReportsInv), because the event loop is held.    *)
(*                                                                         *)
(* Under them lie facts about data: what the parser, the plan of a seeder  *)
(* and a trace compute, for every input.  They are recursive functions or  *)
(* folds; Induction and Recursion, over sets of naturals, do for them what *)
(* an induction theorem would do.                                          *)
(***************************************************************************)
EXTENDS GraphServices, SequenceTheorems, FiniteSetTheorems, WellFoundedInduction,
        TLAPS

-----------------------------------------------------------------------------
(* Naturals, sequences and recursion.                                      *)

(* Induction over sets of naturals.                                        *)
LEMMA FirstExists ==
  ASSUME NEW I \in SUBSET Nat, I # {}
  PROVE  \E m \in I : \A i \in I : m <= i
<1>1. IsWellFoundedOn(OpToRel(<, Nat), Nat)
  BY NatLessThanWellFounded
<1> DEFINE R == OpToRel(<, Nat)
<1>2. \A x, y \in Nat : x < y => <<x, y>> \in R
  BY DEF OpToRel
<1> HIDE DEF R
<1>3. \E x \in I : \A y \in I : ~ (<<y, x>> \in R)
  BY <1>1, WFMin DEF R
<1>4. PICK x \in I : \A y \in I : ~ (<<y, x>> \in R)
  BY <1>3
<1>5. ASSUME NEW y \in I PROVE x <= y
  <2>1. x \in Nat /\ y \in Nat
    OBVIOUS
  <2>2. ~ (y < x)
    BY <1>2, <1>4, <2>1
  <2>3. QED BY <2>1, <2>2
<1>6. QED BY <1>5

(* A set of naturals with 0 and the successors of its members has them all.*)
LEMMA Induction ==
  ASSUME NEW h \in Nat, NEW S, 0 \in S, \A n \in 0..(h - 1) : n \in S => n + 1 \in S
  PROVE  \A n \in 0..h : n \in S
<1> DEFINE I == {n \in 0..h : n \notin S}
<1>1. CASE I = {}
  BY <1>1
<1>2. CASE I # {}
  <2>1. I \in SUBSET Nat
    OBVIOUS
  <2>2. PICK m \in I : \A i \in I : m <= i
    BY <1>2, <2>1, FirstExists
  <2>3. m - 1 \in 0..(h - 1) /\ m - 1 \in 0..h /\ m - 1 \notin I
    BY <2>2
  <2>4. (m - 1) + 1 = m
    BY <2>1
  <2>5. QED BY <2>2, <2>3, <2>4
<1>3. QED BY <1>1, <1>2

(* A step function on values defines a sequence of values.                 *)
Iterates(f, h, b, G) ==
  f[0] = b /\ \A n \in 1..h : f[n] = G[<<f[n - 1], n>>]

(* ... which the recursive definition of the models describes.             *)
LEMMA Recursion ==
  ASSUME NEW X, NEW b \in X, NEW h \in Nat, NEW G \in [X \X (1..h) -> X]
  PROVE  \E f \in [0..h -> X] : Iterates(f, h, b, G)
<1> DEFINE H == {k \in 0..h : \E f \in [0..k -> X] : Iterates(f, k, b, G)}
<1>1. 0 \in H
  <2> DEFINE f == [n \in 0..0 |-> b]
  <2>1. f \in [0..0 -> X] /\ Iterates(f, 0, b, G)
    BY DEF Iterates
  <2>2. 0 \in 0..h
    OBVIOUS
  <2> HIDE DEF f
  <2>3. QED BY <2>1, <2>2
<1>2. ASSUME NEW k \in 0..(h - 1), k \in H
      PROVE  k + 1 \in H
  <2>1. PICK f \in [0..k -> X] : Iterates(f, k, b, G)
    BY <1>2
  <2> DEFINE g == [n \in 0..(k + 1) |-> IF n = k + 1 THEN G[<<f[k], k + 1>>] ELSE f[n]]
  <2>2. f[k] \in X /\ k + 1 \in 1..h /\ k + 1 \in 0..h
    OBVIOUS
  <2>3. G[<<f[k], k + 1>>] \in X
    BY <2>2
  <2>4. g \in [0..(k + 1) -> X]
    BY <2>3
  <2>5. g[0] = b
    BY <2>1 DEF Iterates
  <2>6. ASSUME NEW n \in 1..(k + 1)
        PROVE  g[n] = G[<<g[n - 1], n>>]
    <3>1. n - 1 \in 0..k /\ g[n - 1] = f[n - 1]
      OBVIOUS
    <3>2. CASE n = k + 1
      <4>1. g[n] = G[<<f[k], k + 1>>] /\ n - 1 = k
        BY <3>2
      <4> HIDE DEF g
      <4>2. QED BY <3>1, <3>2, <4>1
    <3>3. CASE n # k + 1
      BY <2>1, <3>1, <3>3 DEF Iterates
    <3>4. QED BY <3>2, <3>3
  <2>7. Iterates(g, k + 1, b, G)
    BY <2>5, <2>6 DEF Iterates
  <2> HIDE DEF g
  <2>8. QED BY <2>2, <2>4, <2>7
<1> HIDE DEF H
<1>3. h \in H
  BY <1>1, <1>2, Induction
<1>4. QED BY <1>3 DEF H

-----------------------------------------------------------------------------
(* Appending adds one member.                                              *)
LEMMA AppendToSet ==
  ASSUME NEW T, NEW s \in Seq(T), NEW x \in T
  PROVE  ToSet(Append(s, x)) = ToSet(s) \cup {x}
<1>1. Append(s, x) \in Seq(T) /\ Len(Append(s, x)) = Len(s) + 1
  OBVIOUS
<1>2. DOMAIN Append(s, x) = 1..(Len(s) + 1) /\ DOMAIN s = 1..Len(s)
  BY <1>1
<1>3. \A i \in 1..Len(s) : Append(s, x)[i] = s[i]
  OBVIOUS
<1>4. Append(s, x)[Len(s) + 1] = x
  OBVIOUS
<1>5. Len(s) \in Nat
  OBVIOUS
<1>6. \A i \in 1..(Len(s) + 1) : i \in 1..Len(s) \/ i = Len(s) + 1
  BY <1>5
<1>7. QED BY <1>2, <1>3, <1>4, <1>5, <1>6 DEF ToSet

(* A selection has the members of the sequence that are in the set.        *)
LEMMA ThoseMembers ==
  ASSUME NEW T, NEW seq \in Seq(T), NEW set
  PROVE  Those(seq, set) \in Seq(T) /\ ToSet(Those(seq, set)) = ToSet(seq) \cap set
<1> DEFINE h == Len(seq)
           Step(s, n) == IF seq[n] \in set THEN Append(s, seq[n]) ELSE s
           G == [z \in Seq(T) \X (1..h) |-> Step(z[1], z[2])]
           upTo[n \in 0..h] ==
             IF n = 0 THEN <<>>
             ELSE IF seq[n] \in set THEN Append(upTo[n - 1], seq[n])
             ELSE upTo[n - 1]
<1>1. h \in Nat /\ <<>> \in Seq(T) /\ G \in [Seq(T) \X (1..h) -> Seq(T)]
  OBVIOUS
<1>2. PICK f \in [0..h -> Seq(T)] : Iterates(f, h, <<>>, G)
  <2> HIDE DEF G, h
  <2>1. QED BY <1>1, Recursion
<1>3. \A n \in 0..h : f[n] = IF n = 0 THEN <<>>
                            ELSE IF seq[n] \in set THEN Append(f[n - 1], seq[n])
                            ELSE f[n - 1]
  <2>1. ASSUME NEW n \in 1..h
        PROVE  f[n] = Step(f[n - 1], n)
    <3>1. f[n - 1] \in Seq(T)
      OBVIOUS
    <3>2. G[<<f[n - 1], n>>] = Step(f[n - 1], n)
      BY <3>1
    <3> HIDE DEF G
    <3>3. QED BY <1>2, <3>2 DEF Iterates
  <2>2. f[0] = <<>> /\ \A n \in 0..h : n = 0 \/ n \in 1..h
    BY <1>2 DEF Iterates
  <2> HIDE DEF G, h
  <2>3. QED BY <2>1, <2>2
<1>4. f = [n \in 0..h |-> IF n = 0 THEN <<>>
                          ELSE IF seq[n] \in set THEN Append(f[n - 1], seq[n])
                          ELSE f[n - 1]]
  <2> HIDE DEF G, h
  <2>1. QED BY <1>3
<1>5. upTo = [n \in 0..h |-> IF n = 0 THEN <<>>
                             ELSE IF seq[n] \in set THEN Append(upTo[n - 1], seq[n])
                             ELSE upTo[n - 1]]
  BY <1>4, Zenon
<1>6. Those(seq, set) = upTo[h]
  BY DEF Those
<1> HIDE DEF upTo, G
<1> DEFINE Part(n) == {seq[i] : i \in 1..n}
           Good(n) == upTo[n] \in Seq(T) /\ ToSet(upTo[n]) = Part(n) \cap set
           S == {n \in 0..h : Good(n)}
<1>7. 0 \in S
  <2>1. upTo[0] = <<>>
    BY <1>1, <1>5
  <2>2. ToSet(upTo[0]) = {} /\ Part(0) = {}
    BY <2>1 DEF ToSet
  <2>3. Good(0) /\ 0 \in 0..h
    BY <1>1, <2>1, <2>2
  <2> HIDE DEF Good
  <2>4. QED BY <2>3
<1>8. ASSUME NEW n \in 0..(h - 1), n \in S
      PROVE  n + 1 \in S
  <2>1. n + 1 \in 0..h /\ n + 1 \in 1..h /\ n + 1 # 0 /\ (n + 1) - 1 = n
    BY <1>1
  <2>2. upTo[n + 1] = Step(upTo[n], n + 1)
    BY <1>5, <2>1
  <2>3. upTo[n] \in Seq(T) /\ ToSet(upTo[n]) = Part(n) \cap set
    BY <1>8
  <2>4. seq[n + 1] \in T
    BY <2>1
  <2>5. Part(n + 1) = Part(n) \cup {seq[n + 1]}
    OBVIOUS
  <2>6. ToSet(Append(upTo[n], seq[n + 1])) = ToSet(upTo[n]) \cup {seq[n + 1]}
    BY <2>3, <2>4, AppendToSet
  <2> HIDE DEF Part
  <2>7. Good(n + 1)
    <3>1. CASE seq[n + 1] \in set
      BY <2>2, <2>3, <2>4, <2>5, <2>6, <3>1
    <3>2. CASE seq[n + 1] \notin set
      BY <2>2, <2>3, <2>5, <3>2
    <3>3. QED BY <3>1, <3>2
  <2> HIDE DEF Good
  <2>8. QED BY <2>1, <2>7
<1>9. h \in S
  <2> HIDE DEF S, h
  <2>1. h \in Nat
    BY <1>1
  <2>2. \A n \in 0..h : n \in S
    BY <2>1, <1>7, <1>8, Induction
  <2>3. QED BY <2>1, <2>2
<1>10. ToSet(seq) = {seq[i] : i \in 1..h}
  BY DEF ToSet
<1>11. QED BY <1>6, <1>9, <1>10

-----------------------------------------------------------------------------
(* The parser.                                                             *)

(* A function on 1..n is a sequence.                                       *)
LEMMA FunctionSeq ==
  ASSUME NEW S, NEW n \in Nat, NEW f \in [1..n -> S]
  PROVE  f \in Seq(S)
<1>1. f = [i \in 1..n |-> f[i]]
  OBVIOUS
<1>2. [i \in 1..n |-> f[i]] \in Seq(S)
  OBVIOUS
<1>3. QED BY <1>1, <1>2

(* event_parser.py: the severities of the rules.                           *)
EventTypes ==
  {"natural_disaster", "geopolitical", "industrial", "labour", "supply_chain",
   "financial", "disruption"}
Rule == [type : EventTypes, severity : Nat]

(* A group of patterns gives rules of one type, with its severities.       *)
LEMMA GroupRules ==
  ASSUME NEW type \in EventTypes, NEW severities \in Seq(Nat)
  PROVE  Group(type, severities) \in Seq(Rule)
<1>1. Group(type, severities) \in [1..Len(severities) -> Rule]
  BY DEF Group, Rule
<1>2. QED BY <1>1, FunctionSeq, LenProperties

(* All the rules of event_parser.py together.                              *)
LEMMA RulesTyped == Rules \in Seq(Rule)
<1>1. \A a, b : a \in Seq(Rule) /\ b \in Seq(Rule) => a \o b \in Seq(Rule)
  BY ConcatProperties
<1>2. /\ <<8, 9, 7, 8, 8, 6>> \in Seq(Nat) /\ <<9, 8, 8, 7, 7, 9, 8, 7>> \in Seq(Nat)
      /\ <<8, 8, 6, 6, 6, 5, 7, 8, 6, 5>> \in Seq(Nat) /\ <<7, 7, 6, 5>> \in Seq(Nat)
      /\ <<6, 7, 5, 4, 4, 7, 5>> \in Seq(Nat) /\ <<8, 8, 7, 6, 7>> \in Seq(Nat)
      /\ <<5, 7, 7, 7, 6, 8, 7, 5>> \in Seq(Nat) /\ <<5, 5, 4, 6, 4, 5, 4>> \in Seq(Nat)
      /\ <<5, 5, 5, 4, 4, 4, 3, 2, 3, 2, 5, 4, 3>> \in Seq(Nat)
      /\ <<4, 6, 4>> \in Seq(Nat) /\ <<2, 2, 1, 3>> \in Seq(Nat)
  OBVIOUS
<1> DEFINE a == Group("natural_disaster", <<8, 9, 7, 8, 8, 6>>)
           b == Group("geopolitical", <<9, 8, 8, 7, 7, 9, 8, 7>>)
           c == Group("industrial", <<8, 8, 6, 6, 6, 5, 7, 8, 6, 5>>)
           d == Group("labour", <<7, 7, 6, 5>>)
           e == Group("supply_chain", <<6, 7, 5, 4, 4, 7, 5>>)
           f == Group("financial", <<8, 8, 7, 6, 7>>)
           g == Group("geopolitical", <<5, 7, 7, 7, 6, 8, 7, 5>>)
           h == Group("financial", <<5, 5, 4, 6, 4, 5, 4>>)
           i == Group("supply_chain", <<5, 5, 5, 4, 4, 4, 3, 2, 3, 2, 5, 4, 3>>)
           j == Group("industrial", <<4, 6, 4>>)
           k == Group("supply_chain", <<2, 2, 1, 3>>)
<1>3. /\ a \in Seq(Rule) /\ b \in Seq(Rule) /\ c \in Seq(Rule) /\ d \in Seq(Rule) /\ e \in Seq(Rule)
      /\ f \in Seq(Rule) /\ g \in Seq(Rule)
      /\ h \in Seq(Rule) /\ i \in Seq(Rule) /\ j \in Seq(Rule) /\ k \in Seq(Rule)
  BY <1>2, GroupRules DEF EventTypes
<1>4. Rules = a \o b \o c \o d \o e \o f \o g \o h \o i \o j \o k
  BY DEF Rules
<1> HIDE DEF a, b, c, d, e, f, g, h, i, j, k
<1>5. a \o b \o c \o d \in Seq(Rule)
  BY <1>1, <1>3
<1>6. a \o b \o c \o d \o e \o f \o g \in Seq(Rule)
  BY <1>1, <1>3, <1>5
<1>7. QED BY <1>1, <1>3, <1>4, <1>6

(* Severities add up to the cap, whichever rules match.                    *)
LEMMA ScoredBounded ==
  ASSUME NEW hits
  PROVE  Scored(hits).severity \in 0..SeverityCap
<1> DEFINE h == Len(Rules)
           Scores == [severity : 0..SeverityCap, type : EventTypes]
           none == [severity |-> 0, type |-> "disruption"]
           Step(s, i) == IF i \in hits THEN Score(s, Rules[i]) ELSE s
           G == [z \in Scores \X (1..h) |-> Step(z[1], z[2])]
           after[i \in 0..h] ==
             IF i = 0 THEN [severity |-> 0, type |-> "disruption"]
             ELSE IF i \in hits THEN Score(after[i - 1], Rules[i])
             ELSE after[i - 1]
<1>1. h \in Nat /\ none \in Scores
  <2>1. h \in Nat
    BY RulesTyped, LenProperties
  <2>2. none \in Scores
    BY DEF SeverityCap, EventTypes
  <2>3. QED BY <2>1, <2>2
<1>2. ASSUME NEW s \in Scores, NEW i \in 1..h
      PROVE  Step(s, i) \in Scores
  <2>1. Rules[i] \in Rule
    BY RulesTyped, ElementOfSeq
  <2>2. ASSUME NEW rule \in Rule
        PROVE  Score(s, rule) \in Scores
    <3> DEFINE sum == s.severity + rule.severity
               severity == IF sum > SeverityCap THEN SeverityCap ELSE sum
               type == IF s.severity = 0 THEN rule.type ELSE s.type
    <3>1. Score(s, rule) = [severity |-> severity, type |-> type]
      BY DEF Score
    <3>2. /\ s.severity \in 0..SeverityCap /\ rule.severity \in Nat
          /\ s.type \in EventTypes /\ rule.type \in EventTypes
      BY DEF Rule
    <3>3. severity \in 0..SeverityCap
      <4>1. \A a \in 0..10, b \in Nat : (IF a + b > 10 THEN 10 ELSE a + b) \in 0..10
        OBVIOUS
      <4>2. QED BY <3>2, <4>1, Zenon DEF SeverityCap
    <3>4. type \in EventTypes
      BY <3>2
    <3> HIDE DEF severity, type
    <3>5. QED BY <3>1, <3>3, <3>4
  <2> HIDE DEF Scores
  <2>3. QED BY <2>1, <2>2
<1>3. G \in [Scores \X (1..h) -> Scores]
  <2> HIDE DEF Step, Scores, h
  <2>1. QED BY <1>2
<1>4. PICK f \in [0..h -> Scores] : Iterates(f, h, none, G)
  <2> HIDE DEF G, h, Scores, none
  <2>1. QED BY <1>1, <1>3, Recursion
<1>5. ASSUME NEW n \in 1..h PROVE f[n] = Step(f[n - 1], n)
  <2>1. f[n - 1] \in Scores
    <3> HIDE DEF Scores, h
    <3>1. QED BY <1>1
  <2>2. G[<<f[n - 1], n>>] = Step(f[n - 1], n)
    <3> HIDE DEF Scores, Step, h
    <3>1. QED BY <2>1
  <2> HIDE DEF G, Step, h
  <2>3. QED BY <1>4, <2>2 DEF Iterates
<1>6. \A i \in 0..h : f[i] = IF i = 0 THEN [severity |-> 0, type |-> "disruption"]
                            ELSE IF i \in hits THEN Score(f[i - 1], Rules[i])
                            ELSE f[i - 1]
  <2>1. f[0] = none /\ \A n \in 0..h : n = 0 \/ n \in 1..h
    BY <1>1, <1>4 DEF Iterates
  <2> HIDE DEF G, h
  <2>2. QED BY <1>5, <2>1
<1>7. f = [i \in 0..h |-> IF i = 0 THEN [severity |-> 0, type |-> "disruption"]
                          ELSE IF i \in hits THEN Score(f[i - 1], Rules[i])
                          ELSE f[i - 1]]
  <2> HIDE DEF G, h
  <2>1. QED BY <1>6
<1>8. after = [i \in 0..h |-> IF i = 0 THEN [severity |-> 0, type |-> "disruption"]
                              ELSE IF i \in hits THEN Score(after[i - 1], Rules[i])
                              ELSE after[i - 1]]
  BY <1>7, Zenon
<1>9. Scored(hits) = after[h]
  BY DEF Scored
<1> HIDE DEF after, G, Scores
<1> DEFINE S == {n \in 0..h : after[n] \in Scores}
<1>10. 0 \in S
  <2>1. after[0] = none
    BY <1>1, <1>8
  <2>2. QED BY <1>1, <2>1
<1>11. ASSUME NEW n \in 0..(h - 1), n \in S
       PROVE  n + 1 \in S
  <2>1. n + 1 \in 0..h /\ n + 1 \in 1..h /\ n + 1 # 0 /\ (n + 1) - 1 = n
    BY <1>1
  <2>2. after[n + 1] = Step(after[n], n + 1)
    BY <1>8, <2>1
  <2>3. after[n] \in Scores
    BY <1>11
  <2> HIDE DEF Step
  <2>4. after[n + 1] \in Scores
    BY <1>2, <2>1, <2>2, <2>3
  <2>5. QED BY <2>1, <2>4
<1>12. h \in S
  <2> HIDE DEF S, h
  <2>1. \A n \in 0..h : n \in S
    <3>1. h \in Nat
      BY <1>1
    <3>2. QED BY <3>1, <1>10, <1>11, Induction
  <2>2. QED BY <1>1, <2>1
<1>13. after[h] \in Scores
  BY <1>12
<1>14. QED BY <1>9, <1>13 DEF Scores

(* Sequences and the sets of their members.                                *)
LEMMA MemberIsElement ==
  ASSUME NEW T, NEW s \in Seq(T), NEW i \in 1..Len(s)
  PROVE  s[i] \in ToSet(s)
BY LenProperties DEF ToSet

(* parse_articles: whatever the articles, each event has a severity that   *)
(* the client takes and entities that the graph may hold.                  *)
LEMMA ParsedTyped ==
  ASSUME NEW articles \in Batches
  PROVE  /\ ParseArticles(articles) \in Seq(ParsedEvents)
         /\ \A i \in 1..Len(ParseArticles(articles)) :
              ParseArticles(articles)[i].severity \in 1..SeverityCap
<1> DEFINE Article == [id : Events, hits : SUBSET Nat, names : SUBSET Vids]
           n == Len(articles)
           parsed == [i \in 1..n |-> ParsedEvent(articles[i])]
           wanted == {e \in ToSet(parsed) : e.severity >= SeverityMin}
           events == Those(parsed, wanted)
<1>1. articles \in Seq(Article)
  BY BatchesAssumption
<1>2. n \in Nat /\ \A i \in 1..n : articles[i] \in Article
  <2> HIDE DEF Article
  <2>1. QED BY <1>1, LenProperties, ElementOfSeq
<1>3. ASSUME NEW a \in Article
      PROVE  /\ ParsedEvent(a) \in ParsedEvents
             /\ ParsedEvent(a).severity \in 0..SeverityCap
  <2>1. Scored(a.hits).severity \in 0..SeverityCap
    BY ScoredBounded
  <2>2. /\ Those(KnownCompanies, a.names) \in Seq(Tickers)
        /\ Those(KnownCommodities, a.names) \in Seq(Commodities)
    BY ParserAssumption, ThoseMembers
  <2>3. Scored(a.hits).severity \in Nat
    BY <2>1 DEF SeverityCap
  <2>4. a.id \in Events
    OBVIOUS
  <2>5. QED BY <2>1, <2>2, <2>3, <2>4 DEF ParsedEvent, ParsedEvents
<1>4. parsed \in [1..n -> ParsedEvents]
  <2> HIDE DEF n, Article
  <2>1. QED BY <1>2, <1>3
<1>5. parsed \in Seq(ParsedEvents)
  <2> HIDE DEF n, parsed
  <2>1. QED BY <1>2, <1>4, FunctionSeq
<1>6. events \in Seq(ParsedEvents) /\ ToSet(events) = ToSet(parsed) \cap wanted
  <2> HIDE DEF n, parsed, wanted
  <2>1. QED BY <1>5, ThoseMembers
<1>7. ParseArticles(articles) = events
  BY DEF ParseArticles
<1>8. DOMAIN parsed = 1..n
  OBVIOUS
<1>9. ASSUME NEW i \in 1..Len(events)
      PROVE  events[i].severity \in 1..SeverityCap
  <2>1. events[i] \in ToSet(parsed) /\ events[i].severity >= SeverityMin
    <3> HIDE DEF parsed, events
    <3>1. events[i] \in ToSet(events)
      BY <1>6, MemberIsElement
    <3>2. QED BY <1>6, <3>1
  <2>2. PICK k \in 1..n : events[i] = parsed[k]
    <3> HIDE DEF parsed, events
    <3>1. QED BY <1>8, <2>1 DEF ToSet
  <2>3. parsed[k].severity \in 0..SeverityCap
    <3>1. parsed[k] = ParsedEvent(articles[k])
      OBVIOUS
    <3> HIDE DEF parsed, Article, n
    <3>2. QED BY <1>2, <1>3, <3>1
  <2> HIDE DEF events, parsed
  <2>4. QED BY <2>1, <2>2, <2>3 DEF SeverityCap, SeverityMin
<1> HIDE DEF events
<1>10. QED BY <1>6, <1>7, <1>9

(* A concatenation has the members of both.                                *)
LEMMA ConcatMembers ==
  ASSUME NEW S, NEW a \in Seq(S), NEW b \in Seq(S)
  PROVE  ToSet(a \o b) = ToSet(a) \cup ToSet(b)
<1>1. /\ a \o b \in Seq(S) /\ Len(a) \in Nat /\ Len(b) \in Nat
      /\ Len(a \o b) = Len(a) + Len(b)
      /\ \A i \in 1..(Len(a) + Len(b)) :
           (a \o b)[i] = IF i <= Len(a) THEN a[i] ELSE b[i - Len(a)]
  BY ConcatProperties, LenProperties
<1>2. /\ DOMAIN a = 1..Len(a) /\ DOMAIN b = 1..Len(b)
      /\ DOMAIN (a \o b) = 1..(Len(a) + Len(b))
  BY <1>1, LenProperties
<1>3. ASSUME NEW x \in ToSet(a \o b)
      PROVE  x \in ToSet(a) \cup ToSet(b)
  <2>1. PICK i \in 1..(Len(a) + Len(b)) : x = (a \o b)[i]
    BY <1>2 DEF ToSet
  <2>2. CASE i <= Len(a)
    <3>1. i \in 1..Len(a) /\ x = a[i]
      BY <1>1, <2>1, <2>2
    <3>2. QED BY <1>2, <3>1 DEF ToSet
  <2>3. CASE ~ (i <= Len(a))
    <3>1. i - Len(a) \in 1..Len(b) /\ x = b[i - Len(a)]
      BY <1>1, <2>1, <2>3
    <3>2. QED BY <1>2, <3>1 DEF ToSet
  <2>4. QED BY <2>2, <2>3
<1>4. ASSUME NEW x \in ToSet(a)
      PROVE  x \in ToSet(a \o b)
  <2>1. PICK i \in 1..Len(a) : x = a[i]
    BY <1>2 DEF ToSet
  <2>2. i \in 1..(Len(a) + Len(b)) /\ x = (a \o b)[i]
    BY <1>1, <2>1
  <2>3. QED BY <1>2, <2>2 DEF ToSet
<1>5. ASSUME NEW x \in ToSet(b)
      PROVE  x \in ToSet(a \o b)
  <2>1. PICK i \in 1..Len(b) : x = b[i]
    BY <1>2 DEF ToSet
  <2>2. /\ i + Len(a) \in 1..(Len(a) + Len(b)) /\ ~ (i + Len(a) <= Len(a))
        /\ (i + Len(a)) - Len(a) = i
    BY <1>1
  <2>3. x = (a \o b)[i + Len(a)]
    BY <1>1, <2>1, <2>2
  <2>4. QED BY <1>2, <2>2, <2>3 DEF ToSet
<1>6. QED BY <1>3, <1>4, <1>5

(* The members of a sequence have its type.                                *)
LEMMA MembersTyped ==
  ASSUME NEW S, NEW a \in Seq(S)
  PROVE  ToSet(a) \subseteq S
BY LenProperties, ElementOfSeq DEF ToSet

(* The entities of an event are companies and commodities.                 *)
LEMMA EntitiesTyped ==
  ASSUME NEW e \in ParsedEvents
  PROVE  /\ Entities(e) \in Seq(Vids)
         /\ ToSet(Entities(e)) \subseteq Vids
<1>1. e.companies \in Seq(Vids) /\ e.commodities \in Seq(Vids)
  BY SeqMonotonic DEF ParsedEvents, Vids
<1>2. Entities(e) \in Seq(Vids)
  BY <1>1, ConcatProperties DEF Entities
<1>3. QED BY <1>2, MembersTyped

(* So are those of all the events.                                         *)
LEMMA EntitiesOfTyped ==
  ASSUME NEW events \in Seq(ParsedEvents)
  PROVE  EntitiesOf(events) \subseteq Vids
<1>1. \A i \in 1..Len(events) : ToSet(Entities(events[i])) \subseteq Vids
  BY ElementOfSeq, EntitiesTyped
<1>2. QED BY <1>1 DEF EntitiesOf

-----------------------------------------------------------------------------
(* The plan of a seeder.                                                   *)

(* FlattenSeq puts one sequence after the other.                           *)
LEMMA Flattened ==
  ASSUME NEW T, NEW seqs \in Seq(Seq(T))
  PROVE  \E f \in [0..Len(seqs) -> Seq(T)] :
           /\ f[0] = <<>> /\ FlattenSeq(seqs) = f[Len(seqs)]
           /\ \A n \in 1..Len(seqs) : f[n] = f[n - 1] \o seqs[n]
<1> DEFINE h == Len(seqs)
           G == [z \in Seq(T) \X (1..h) |-> z[1] \o seqs[z[2]]]
           flatten[i \in 1..h] == IF i = 1 THEN seqs[i] ELSE flatten[i - 1] \o seqs[i]
<1>1. h \in Nat /\ <<>> \in Seq(T)
  BY LenProperties, EmptySeq
<1>2. \A i \in 1..h : seqs[i] \in Seq(T)
  BY ElementOfSeq
<1>3. G \in [Seq(T) \X (1..h) -> Seq(T)]
  <2>1. \A s \in Seq(T), i \in 1..h : s \o seqs[i] \in Seq(T)
    BY <1>2, ConcatProperties
  <2> HIDE DEF h
  <2>2. QED BY <2>1
<1>4. PICK f \in [0..h -> Seq(T)] : Iterates(f, h, <<>>, G)
  <2> HIDE DEF G, h
  <2>1. QED BY <1>1, <1>3, Recursion
<1>5. ASSUME NEW n \in 1..h
      PROVE  n - 1 \in 0..h /\ f[n] = f[n - 1] \o seqs[n]
  <2>1. n - 1 \in 0..h
    BY <1>1
  <2>2. G[<<f[n - 1], n>>] = f[n - 1] \o seqs[n]
    <3> HIDE DEF h
    <3>1. QED BY <2>1
  <2> HIDE DEF G, h
  <2>3. QED BY <1>4, <2>1, <2>2 DEF Iterates
<1>6. f[0] = <<>>
  BY <1>4 DEF Iterates
<1> HIDE DEF G
<1>7. CASE h = 0
  <2>1. FlattenSeq(seqs) = seqs /\ seqs = <<>>
    BY <1>7, EmptySeq DEF FlattenSeq
  <2>2. FlattenSeq(seqs) = f[h]
    BY <1>6, <1>7, <2>1
  <2> HIDE DEF h
  <2>3. QED BY <1>5, <1>6, <2>2 DEF h
<1>8. CASE h # 0
  <2> DEFINE g == [i \in 1..h |-> f[i]]
  <2>1. ASSUME NEW i \in 1..h
        PROVE  g[i] = IF i = 1 THEN seqs[i] ELSE g[i - 1] \o seqs[i]
    <3>1. CASE i = 1
      <4>1. f[1] = <<>> \o seqs[1]
        <5>0. f[i] = f[i - 1] \o seqs[i]
          BY <1>5, Zenon
        <5>1. f[i] = f[i - 1] \o seqs[i] /\ i - 1 = 0
          BY <3>1, <5>0
        <5>2. f[i - 1] = <<>>
          BY <1>6, <5>1
        <5> HIDE DEF g, h
        <5>3. QED BY <3>1, <5>1, <5>2
      <4>2. f[1] = seqs[1]
        BY <1>2, <3>1, <4>1, ConcatEmptySeq
      <4>3. QED BY <3>1, <4>2
    <3>2. CASE i # 1
      <4>1. i - 1 \in 1..h
        BY <1>1, <3>2
      <4> HIDE DEF h
      <4>2. g[i] = f[i] /\ g[i - 1] = f[i - 1]
        BY <4>1
      <4>3. f[i] = f[i - 1] \o seqs[i]
        BY <1>5
      <4> HIDE DEF g
      <4>4. QED BY <3>2, <4>2, <4>3
    <3>3. QED BY <3>1, <3>2
  <2>2. g = [i \in 1..h |-> IF i = 1 THEN seqs[i] ELSE g[i - 1] \o seqs[i]]
    <3>1. g = [i \in 1..h |-> g[i]]
      OBVIOUS
    <3> HIDE DEF g, h
    <3>2. QED BY <2>1, <3>1
  <2>3. flatten = [i \in 1..h |-> IF i = 1 THEN seqs[i] ELSE flatten[i - 1] \o seqs[i]]
    <3> HIDE DEF g
    <3>1. QED BY <2>2, Zenon
  <2>4. FlattenSeq(seqs) = flatten[h]
    BY <1>8 DEF FlattenSeq
  <2> HIDE DEF flatten
  <2> DEFINE S == {n \in 0..h : n # 0 => flatten[n] = f[n]}
  <2>5. 0 \in S
    BY <1>1
  <2>6. ASSUME NEW n \in 0..(h - 1), n \in S
        PROVE  n + 1 \in S
    <3>1. n + 1 \in 0..h /\ n + 1 \in 1..h /\ n + 1 # 0 /\ (n + 1) - 1 = n
      BY <1>1
    <3>2. CASE n = 0
      <4>1. 1 \in 1..h
        BY <3>1, <3>2
      <4>2. flatten[1] = seqs[1] /\ g[1] = seqs[1]
        <5> HIDE DEF g, h
        <5>1. flatten[1] = seqs[1]
          BY <2>3, <4>1
        <5>2. g[1] = seqs[1]
          BY <2>1, <4>1
        <5>3. QED BY <5>1, <5>2
      <4>3. g[1] = f[1]
        BY <4>1
      <4>4. flatten[n + 1] = f[n + 1]
        <5> HIDE DEF g, h
        <5>1. QED BY <3>2, <4>2, <4>3
      <4> HIDE DEF g, h
      <4>5. QED BY <3>1, <4>4
    <3>3. CASE n # 0
      <4>1. flatten[n + 1] = flatten[n] \o seqs[n + 1]
        <5>1. n + 1 # 1
          BY <1>1, <3>3
        <5> HIDE DEF g, h
        <5>2. QED BY <2>3, <3>1, <5>1
      <4>2. flatten[n] = f[n]
        BY <2>6, <3>3
      <4>3. f[n + 1] = f[n] \o seqs[n + 1]
        BY <1>5, <3>1
      <4>4. flatten[n + 1] = f[n + 1]
        BY <4>1, <4>2, <4>3
      <4> HIDE DEF g, h
      <4>5. QED BY <3>1, <4>4
    <3>4. QED BY <3>2, <3>3
  <2>7. h \in S
    <3> HIDE DEF S, h
    <3>1. \A n \in 0..h : n \in S
      <4>1. h \in Nat
        BY <1>1
      <4>2. QED BY <4>1, <2>5, <2>6, Induction
    <3>2. QED BY <1>1, <3>1
  <2>8. FlattenSeq(seqs) = f[h]
    BY <1>8, <2>4, <2>7
  <2>9. QED BY <1>5, <1>6, <2>8
<1>9. QED BY <1>7, <1>8

-----------------------------------------------------------------------------
(* The plan.  A query finds what it matches if the queries done make it.   *)
Ready(done, query) ==
  LET x == query[2] IN
    /\ query[1] = "depends" =>
         <<"company", x[1]>> \in done /\ <<"company", x[2]>> \in done
    /\ query[1] = "requires" =>
         <<"company", x[1]>> \in done /\ <<"commodity", x[2]>> \in done
    /\ query[1] = "impacts" =>
         /\ \E q \in done : q[1] = "event" /\ q[2].id = x[1]
         /\ <<"company", x[2]>> \in done \/ <<"commodity", x[2]>> \in done

Before(s, i) == {s[k] : k \in 1..(i - 1)}
Orderly(done, s) == \A i \in 1..Len(s) : Ready(done \cup Before(s, i), s[i])

(* What is found stays found when more is done.                            *)
LEMMA ReadyStays ==
  ASSUME NEW done, NEW more, done \subseteq more, NEW query, Ready(done, query)
  PROVE  Ready(more, query)
BY DEF Ready

(* Orderly sequences after one another, if the first makes what the second *)
(* matches.                                                                *)
LEMMA OrderlyConcat ==
  ASSUME NEW S, NEW a \in Seq(S), NEW b \in Seq(S), NEW done,
         Orderly(done, a), Orderly(done \cup ToSet(a), b)
  PROVE  Orderly(done, a \o b)
<1>1. /\ a \o b \in Seq(S) /\ Len(a) \in Nat /\ Len(b) \in Nat
      /\ Len(a \o b) = Len(a) + Len(b)
      /\ \A i \in 1..(Len(a) + Len(b)) :
           (a \o b)[i] = IF i <= Len(a) THEN a[i] ELSE b[i - Len(a)]
  BY ConcatProperties, LenProperties
<1> DEFINE c == a \o b
<1> SUFFICES ASSUME NEW i \in 1..(Len(a) + Len(b))
             PROVE  Ready(done \cup Before(c, i), c[i])
  BY <1>1 DEF Orderly
<1>2. CASE i <= Len(a)
  <2>1. i \in 1..Len(a) /\ c[i] = a[i]
    BY <1>1, <1>2
  <2>2. \A k \in 1..(i - 1) : k \in 1..(Len(a) + Len(b)) /\ k <= Len(a)
    BY <1>1, <1>2
  <2>3. \A k \in 1..(i - 1) : c[k] = a[k]
    <3> HIDE DEF c
    <3>1. QED BY <1>1, <2>2 DEF c
  <2> HIDE DEF c
  <2>4. Before(c, i) = Before(a, i)
    BY <2>3 DEF Before
  <2>5. QED BY <2>1, <2>4 DEF Orderly
<1>3. CASE ~ (i <= Len(a))
  <2> DEFINE m == i - Len(a)
  <2>1. m \in 1..Len(b) /\ c[i] = b[m]
    BY <1>1, <1>3
  <2>2. Ready((done \cup ToSet(a)) \cup Before(b, m), b[m])
    BY <2>1 DEF Orderly
  <2>3. ASSUME NEW x \in ToSet(a)
        PROVE  x \in Before(c, i)
    <3>1. PICK k \in 1..Len(a) : x = a[k]
      BY LenProperties DEF ToSet
    <3>2. k \in 1..(i - 1) /\ k \in 1..(Len(a) + Len(b)) /\ k <= Len(a)
      BY <1>1, <1>3
    <3>3. x = c[k]
      BY <1>1, <3>1, <3>2
    <3> HIDE DEF c
    <3>4. QED BY <3>2, <3>3 DEF Before
  <2>4. ASSUME NEW x \in Before(b, m)
        PROVE  x \in Before(c, i)
    <3>1. PICK k \in 1..(m - 1) : x = b[k]
      BY DEF Before
    <3>2. /\ k + Len(a) \in 1..(i - 1) /\ k + Len(a) \in 1..(Len(a) + Len(b))
          /\ ~ (k + Len(a) <= Len(a)) /\ (k + Len(a)) - Len(a) = k
      BY <1>1, <1>3
    <3>3. x = c[k + Len(a)]
      BY <1>1, <3>1, <3>2
    <3> HIDE DEF c
    <3>4. QED BY <3>2, <3>3 DEF Before
  <2> HIDE DEF c, m
  <2>5. (done \cup ToSet(a)) \cup Before(b, m) \subseteq done \cup Before(c, i)
    BY <2>3, <2>4
  <2>6. QED BY <2>1, <2>2, <2>5, ReadyStays
<1>4. QED BY <1>2, <1>3

(* The queries that the data give, by what they do.                        *)
EventRecords == [id : Events, severity : Severities, targets : Seq(Seeded)]
PlanQueries ==
  ({"company"} \X ToSet(SeedCompanies)) \cup ({"commodity"} \X ToSet(SeedCommodities))
    \cup ({"depends"} \X (ToSet(SeedCompanies) \X ToSet(SeedCompanies)))
    \cup ({"requires"} \X (ToSet(SeedCompanies) \X ToSet(SeedCommodities)))
    \cup ({"event"} \X EventRecords) \cup ({"impacts"} \X (Events \X Seeded))

(* Data tagged as queries.                                                 *)
LEMMA TaggedMembers ==
  ASSUME NEW op, NEW T, NEW s \in Seq(T)
  PROVE  /\ Tagged(op, s) \in Seq({op} \X T)
         /\ Len(Tagged(op, s)) = Len(s)
         /\ \A i \in 1..Len(s) : Tagged(op, s)[i] = <<op, s[i]>>
         /\ \A x \in ToSet(s) : <<op, x>> \in ToSet(Tagged(op, s))
<1> DEFINE n == Len(s)
           t == Tagged(op, s)
<1>1. n \in Nat /\ DOMAIN s = 1..n /\ \A i \in 1..n : s[i] \in T
  BY LenProperties, ElementOfSeq
<1>2. t \in [1..n -> {op} \X T] /\ \A i \in 1..n : t[i] = <<op, s[i]>>
  BY <1>1 DEF Tagged
<1> HIDE DEF t, n
<1>3. t \in Seq({op} \X T)
  BY <1>1, <1>2, FunctionSeq
<1>4. DOMAIN t = 1..n /\ DOMAIN t = 1..Len(t) /\ Len(t) \in Nat
  BY <1>2, <1>3, LenProperties
<1>5. Len(t) = n
  BY <1>1, <1>4
<1>6. \A x \in ToSet(s) : <<op, x>> \in ToSet(t)
  <2>1. SUFFICES ASSUME NEW x \in ToSet(s) PROVE <<op, x>> \in ToSet(t)
    OBVIOUS
  <2>2. PICK i \in 1..n : x = s[i]
    BY <1>1 DEF ToSet
  <2>3. QED BY <1>2, <1>4, <2>2 DEF ToSet
<1>7. QED BY <1>2, <1>3, <1>5, <1>6 DEF t, n

(* What is in one of the sequences is in the sequence they make.           *)
LEMMA FlattenMembers ==
  ASSUME NEW T, NEW seqs \in Seq(Seq(T)), NEW i \in 1..Len(seqs)
  PROVE  FlattenSeq(seqs) \in Seq(T) /\ ToSet(seqs[i]) \subseteq ToSet(FlattenSeq(seqs))
<1> DEFINE h == Len(seqs)
<1>1. PICK f \in [0..h -> Seq(T)] :
        /\ f[0] = <<>> /\ FlattenSeq(seqs) = f[h]
        /\ \A n \in 1..h : f[n] = f[n - 1] \o seqs[n]
  BY Flattened
<1>2. h \in Nat /\ h \in 0..h /\ \A n \in 1..h : seqs[n] \in Seq(T)
  BY LenProperties, ElementOfSeq
<1> DEFINE Good(n) == i <= n => ToSet(seqs[i]) \subseteq ToSet(f[n])
           S == {n \in 0..h : Good(n)}
<1> HIDE DEF h
<1>3. 0 \in S
  BY <1>2 DEF h
<1>4. ASSUME NEW n \in 0..(h - 1), n \in S
      PROVE  n + 1 \in S
  <2>1. n + 1 \in 0..h /\ n + 1 \in 1..h /\ (n + 1) - 1 = n /\ n \in 0..h
    BY <1>2
  <2>2. f[n + 1] = f[n] \o seqs[n + 1]
    <3>1. f[n + 1] = f[(n + 1) - 1] \o seqs[n + 1]
      BY <1>1, <2>1, Zenon
    <3>2. QED BY <2>1, <3>1
  <2>3. f[n] \in Seq(T) /\ seqs[n + 1] \in Seq(T)
    BY <1>2, <2>1
  <2>4. ToSet(f[n + 1]) = ToSet(f[n]) \cup ToSet(seqs[n + 1])
    BY <2>2, <2>3, ConcatMembers
  <2>5. i <= n + 1 => i <= n \/ i = n + 1
    BY <2>1
  <2>6. Good(n + 1)
    <3>1. Good(n)
      BY <1>4
    <3>2. QED BY <2>4, <2>5, <3>1
  <2> HIDE DEF Good
  <2>7. QED BY <2>1, <2>6
<1>5. h \in S
  <2> HIDE DEF S
  <2>1. \A n \in 0..h : n \in S
    BY <1>2, <1>3, <1>4, Induction
  <2>2. QED BY <1>2, <2>1
<1>6. i <= h
  BY <1>2 DEF h
<1>7. f[h] \in Seq(T)
  BY <1>2
<1>8. QED BY <1>1, <1>5, <1>6, <1>7

(* Orderly sequences are orderly in a row.                                 *)
LEMMA FlattenOrderly ==
  ASSUME NEW T, NEW seqs \in Seq(Seq(T)), NEW done,
         \A i \in 1..Len(seqs) : \A more : done \subseteq more => Orderly(more, seqs[i])
  PROVE  Orderly(done, FlattenSeq(seqs))
<1> DEFINE h == Len(seqs)
<1>1. PICK f \in [0..h -> Seq(T)] :
        /\ f[0] = <<>> /\ FlattenSeq(seqs) = f[h]
        /\ \A n \in 1..h : f[n] = f[n - 1] \o seqs[n]
  BY Flattened
<1>2. h \in Nat /\ h \in 0..h /\ \A n \in 1..h : seqs[n] \in Seq(T)
  BY LenProperties, ElementOfSeq
<1>3. \A i \in 1..h : \A more : done \subseteq more => Orderly(more, seqs[i])
  OBVIOUS
<1> DEFINE S == {n \in 0..h : Orderly(done, f[n])}
<1> HIDE DEF h
<1>4. 0 \in S
  <2>1. Len(f[0]) = 0
    BY <1>1, EmptySeq
  <2>2. Orderly(done, f[0])
    BY <2>1 DEF Orderly
  <2>3. QED BY <1>2, <2>2
<1>5. ASSUME NEW n \in 0..(h - 1), n \in S
      PROVE  n + 1 \in S
  <2>1. n + 1 \in 0..h /\ n + 1 \in 1..h /\ (n + 1) - 1 = n /\ n \in 0..h
    BY <1>2
  <2>2. f[n + 1] = f[n] \o seqs[n + 1]
    <3>1. f[n + 1] = f[(n + 1) - 1] \o seqs[n + 1]
      BY <1>1, <2>1, Zenon
    <3>2. QED BY <2>1, <3>1
  <2>3. f[n] \in Seq(T) /\ seqs[n + 1] \in Seq(T)
    BY <1>2, <2>1
  <2>4. Orderly(done \cup ToSet(f[n]), seqs[n + 1])
    BY <1>3, <2>1
  <2>5. Orderly(done, f[n])
    BY <1>5
  <2>6. Orderly(done, f[n] \o seqs[n + 1])
    BY <2>3, <2>4, <2>5, OrderlyConcat
  <2>7. QED BY <2>1, <2>2, <2>6
<1>6. h \in S
  <2> HIDE DEF S
  <2>1. \A n \in 0..h : n \in S
    BY <1>2, <1>4, <1>5, Induction
  <2>2. QED BY <1>2, <2>1
<1>7. QED BY <1>1, <1>6

-----------------------------------------------------------------------------
(* The entities of the data, as queries done.                              *)
Entered ==
  ({"company"} \X ToSet(SeedCompanies)) \cup ({"commodity"} \X ToSet(SeedCommodities))

(* The seeded entities are entities.                                       *)
LEMMA SeededVids == Seeded \subseteq Vids
<1>1. ToSet(SeedCompanies) \subseteq Tickers /\ ToSet(SeedCommodities) \subseteq Commodities
  BY SeedAssumption, MembersTyped
<1>2. QED BY <1>1 DEF Seeded, Vids

(* The queries of an event and its links.                                  *)
LEMMA EventQueriesFit ==
  ASSUME NEW e \in EventRecords
  PROVE  /\ EventQueries(e) \in Seq(PlanQueries)
         /\ \A more : Entered \subseteq more => Orderly(more, EventQueries(e))
         /\ \A t \in ToSet(e.targets) :
              <<"impacts", <<e.id, t>>>> \in ToSet(EventQueries(e))
<1> DEFINE n == Len(e.targets)
           a == <<<<"event", e>>>>
           b == [i \in 1..n |-> <<"impacts", <<e.id, e.targets[i]>>>>]
<1>1. e.id \in Events /\ e.targets \in Seq(Seeded)
  BY DEF EventRecords
<1>2. n \in Nat /\ DOMAIN e.targets = 1..n /\ \A i \in 1..n : e.targets[i] \in Seeded
  BY <1>1, LenProperties, ElementOfSeq
<1>3. <<"event", e>> \in PlanQueries
  BY DEF PlanQueries
<1>4. a \in Seq(PlanQueries) /\ Len(a) = 1 /\ a[1] = <<"event", e>>
  BY <1>3
<1>5. \A i \in 1..n : <<"impacts", <<e.id, e.targets[i]>>>> \in PlanQueries
  BY <1>1, <1>2 DEF PlanQueries
<1>6. b \in [1..n -> PlanQueries]
  <2> HIDE DEF n
  <2>1. QED BY <1>5
<1>7. b \in Seq(PlanQueries) /\ Len(b) = n /\ DOMAIN b = 1..n
  <2>1. DOMAIN b = 1..n
    OBVIOUS
  <2> HIDE DEF b, n
  <2>2. b \in Seq(PlanQueries)
    BY <1>2, <1>6, FunctionSeq
  <2>3. DOMAIN b = 1..Len(b) /\ Len(b) \in Nat
    BY <2>2, LenProperties
  <2>4. QED BY <1>2, <2>1, <2>2, <2>3
<1>8. EventQueries(e) = a \o b
  BY DEF EventQueries
<1>9. \A i \in 1..n : b[i] = <<"impacts", <<e.id, e.targets[i]>>>>
  OBVIOUS
<1> HIDE DEF a, b, n
<1>10. a \o b \in Seq(PlanQueries)
  BY <1>4, <1>7, ConcatProperties
<1>11. ASSUME NEW more, Entered \subseteq more
       PROVE  Orderly(more, a \o b)
  <2>1. Orderly(more, a)
    BY <1>4 DEF Orderly, Ready
  <2>2. ToSet(a) = {<<"event", e>>}
    <3>1. DOMAIN a = {1}
      BY <1>4, LenProperties
    <3>2. ToSet(a) = {a[1]}
      BY <3>1 DEF ToSet
    <3>3. QED BY <1>4, <3>2, Zenon
  <2>3. ASSUME NEW i \in 1..n
        PROVE  Ready(more \cup ToSet(a), b[i])
    <3>1. e.targets[i] \in Seeded
      BY <1>2
    <3>2. <<"company", e.targets[i]>> \in more \/ <<"commodity", e.targets[i]>> \in more
      BY <1>11, <3>1 DEF Seeded, Entered
    <3> DEFINE q == <<"event", e>>
    <3>3. q \in ToSet(a) /\ q[1] = "event" /\ q[2].id = e.id
      BY <2>2
    <3> DEFINE x == e.targets[i]
    <3>4. b[i][1] = "impacts" /\ b[i][2] = <<e.id, x>>
      BY <1>9
    <3>5. b[i][2][1] = e.id /\ b[i][2][2] = x
      BY <3>4
    <3> HIDE DEF q, x
    <3>6. <<"company", x>> \in more \/ <<"commodity", x>> \in more
      BY <3>2 DEF x
    <3>7. \E p \in more \cup ToSet(a) : p[1] = "event" /\ p[2].id = b[i][2][1]
      BY <3>3, <3>5
    <3>8. QED BY <3>4, <3>5, <3>6, <3>7 DEF Ready
  <2>4. Orderly(more \cup ToSet(a), b)
    <3>1. \A i \in 1..n : Ready((more \cup ToSet(a)) \cup Before(b, i), b[i])
      BY <2>3, ReadyStays
    <3>2. QED BY <1>7, <3>1 DEF Orderly
  <2>5. QED BY <1>4, <1>7, <2>1, <2>4, OrderlyConcat
<1>12. ASSUME NEW t \in ToSet(e.targets)
       PROVE  <<"impacts", <<e.id, t>>>> \in ToSet(a \o b)
  <2>1. PICK i \in 1..n : t = e.targets[i]
    BY <1>2 DEF ToSet
  <2>2. b[i] \in ToSet(b)
    BY <1>7 DEF ToSet
  <2>3. ToSet(a \o b) = ToSet(a) \cup ToSet(b)
    BY <1>4, <1>7, ConcatMembers
  <2>4. QED BY <1>9, <2>1, <2>2, <2>3
<1>13. QED BY <1>8, <1>10, <1>11, <1>12

(* The plan as a whole: its queries, their order, and that it is complete. *)
LEMMA PlanFits ==
  /\ Plan \in Seq(PlanQueries) /\ Plan # <<>>
  /\ Orderly({}, Plan)
  /\ \A p \in ToSet(SeedDepends) : <<"depends", p>> \in ToSet(Plan)
  /\ \A p \in ToSet(SeedRequires) : <<"requires", p>> \in ToSet(Plan)
  /\ \A c \in ToSet(SeedCommodities) : <<"commodity", c>> \in ToSet(Plan)
  /\ \A i \in 1..Len(SeedEvents) : \A t \in ToSet(SeedEvents[i].targets) :
       <<"impacts", <<SeedEvents[i].id, t>>>> \in ToSet(Plan)
<1> DEFINE n == Len(SeedEvents)
           each == [i \in 1..n |-> EventQueries(SeedEvents[i])]
           a == Tagged("company", SeedCompanies)
           b == Tagged("commodity", SeedCommodities)
           c == Tagged("depends", SeedDepends)
           d == Tagged("requires", SeedRequires)
           e == FlattenSeq(each)
           companies == ToSet(SeedCompanies)
           commodities == ToSet(SeedCommodities)
<1>1. Plan = (((a \o b) \o c) \o d) \o e
  BY DEF Plan
<1>2. SeedEvents \in Seq(EventRecords)
  BY SeedAssumption DEF EventRecords
<1>3. n \in Nat /\ \A i \in 1..n : SeedEvents[i] \in EventRecords
  BY <1>2, LenProperties, ElementOfSeq
<1>4. each \in [1..n -> Seq(PlanQueries)]
  <2> HIDE DEF n
  <2>1. QED BY <1>3, EventQueriesFit
<1>5. DOMAIN each = 1..n /\ \A i \in 1..n : each[i] = EventQueries(SeedEvents[i])
  OBVIOUS
<1> HIDE DEF n, each
<1>6. each \in Seq(Seq(PlanQueries)) /\ Len(each) = n
  <2>1. each \in Seq(Seq(PlanQueries))
    BY <1>3, <1>4, FunctionSeq
  <2>2. DOMAIN each = 1..Len(each) /\ Len(each) \in Nat
    BY <2>1, LenProperties
  <2>3. QED BY <1>3, <1>5, <2>1, <2>2
<1>7. /\ SeedCompanies \in Seq(companies) /\ Len(SeedCompanies) \in Nat
      /\ SeedCommodities \in Seq(commodities)
      /\ SeedDepends \in Seq(companies \X companies)
      /\ SeedRequires \in Seq(companies \X commodities)
  <2>1. \A T, s : s \in Seq(T) => s \in Seq(ToSet(s))
    <3>1. ASSUME NEW T, NEW s \in Seq(T)
          PROVE  s \in Seq(ToSet(s))
      <4>1. Len(s) \in Nat /\ DOMAIN s = 1..Len(s) /\ s = [i \in 1..Len(s) |-> s[i]]
        BY LenProperties
      <4>2. s \in [1..Len(s) -> ToSet(s)]
        BY <4>1 DEF ToSet
      <4>3. QED BY <4>1, <4>2, FunctionSeq
    <3>2. QED BY <3>1
  <2>2. QED BY <2>1, SeedAssumption, LenProperties
<1>8. /\ a \in Seq({"company"} \X companies) /\ Len(a) = Len(SeedCompanies)
      /\ \A i \in 1..Len(a) : a[i] = <<"company", SeedCompanies[i]>>
      /\ \A x \in companies : <<"company", x>> \in ToSet(a)
  BY <1>7, TaggedMembers
<1>9. /\ b \in Seq({"commodity"} \X commodities)
      /\ \A i \in 1..Len(b) : b[i] = <<"commodity", SeedCommodities[i]>>
      /\ \A x \in commodities : <<"commodity", x>> \in ToSet(b)
  BY <1>7, TaggedMembers
<1>10. /\ c \in Seq({"depends"} \X (companies \X companies))
       /\ \A i \in 1..Len(c) : c[i] = <<"depends", SeedDepends[i]>>
       /\ \A i \in 1..Len(c) : SeedDepends[i] \in companies \X companies
       /\ \A x \in ToSet(SeedDepends) : <<"depends", x>> \in ToSet(c)
  <2>1. Len(c) = Len(SeedDepends)
    BY <1>7, TaggedMembers
  <2>2. QED BY <1>7, <2>1, TaggedMembers, ElementOfSeq
<1>11. /\ d \in Seq({"requires"} \X (companies \X commodities))
       /\ \A i \in 1..Len(d) : d[i] = <<"requires", SeedRequires[i]>>
       /\ \A i \in 1..Len(d) : SeedRequires[i] \in companies \X commodities
       /\ \A x \in ToSet(SeedRequires) : <<"requires", x>> \in ToSet(d)
  <2>1. Len(d) = Len(SeedRequires)
    BY <1>7, TaggedMembers
  <2>2. QED BY <1>7, <2>1, TaggedMembers, ElementOfSeq
<1> HIDE DEF a, b, c, d, e, companies, commodities
<1>12. /\ a \in Seq(PlanQueries) /\ b \in Seq(PlanQueries)
       /\ c \in Seq(PlanQueries) /\ d \in Seq(PlanQueries)
  <2>1. /\ {"company"} \X companies \subseteq PlanQueries
        /\ {"commodity"} \X commodities \subseteq PlanQueries
        /\ {"depends"} \X (companies \X companies) \subseteq PlanQueries
        /\ {"requires"} \X (companies \X commodities) \subseteq PlanQueries
    BY DEF PlanQueries, companies, commodities
  <2>2. QED BY <1>8, <1>9, <1>10, <1>11, <2>1, SeqMonotonic
<1>13. e \in Seq(PlanQueries)
  <2>1. CASE n = 0
    <3>1. PICK f \in [0..Len(each) -> Seq(PlanQueries)] : e = f[Len(each)]
      BY <1>6, Flattened DEF e
    <3>2. QED BY <1>6, <2>1, <3>1
  <2>2. CASE n # 0
    <3>1. 1 \in 1..Len(each)
      BY <1>3, <1>6, <2>2
    <3>2. QED BY <1>6, <3>1, FlattenMembers DEF e
  <2>3. QED BY <2>1, <2>2
<1>14. Orderly({}, a) /\ \A done : Orderly(done, b)
  <2>1. \A done, x : Ready(done, <<"company", x>>) /\ Ready(done, <<"commodity", x>>)
    BY DEF Ready
  <2>2. QED BY <1>8, <1>9, <2>1 DEF Orderly
<1>15. Orderly(ToSet(a) \cup ToSet(b), c)
  <2>1. ASSUME NEW i \in 1..Len(c), NEW done, ToSet(a) \subseteq done
        PROVE  Ready(done, c[i])
    <3>1. c[i][1] = "depends" /\ c[i][2] = SeedDepends[i]
      BY <1>10
    <3>2. SeedDepends[i][1] \in companies /\ SeedDepends[i][2] \in companies
      BY <1>10
    <3>3. QED BY <1>8, <2>1, <3>1, <3>2 DEF Ready
  <2>2. QED BY <2>1 DEF Orderly
<1>16. Orderly((ToSet(a) \cup ToSet(b)) \cup ToSet(c), d)
  <2>1. ASSUME NEW i \in 1..Len(d), NEW done, ToSet(a) \cup ToSet(b) \subseteq done
        PROVE  Ready(done, d[i])
    <3>1. d[i][1] = "requires" /\ d[i][2] = SeedRequires[i]
      BY <1>11
    <3>2. SeedRequires[i][1] \in companies /\ SeedRequires[i][2] \in commodities
      BY <1>11
    <3>3. QED BY <1>8, <1>9, <2>1, <3>1, <3>2 DEF Ready
  <2>2. QED BY <2>1 DEF Orderly
<1> DEFINE ab == a \o b
           abc == ab \o c
           abcd == abc \o d
<1>17. ab \in Seq(PlanQueries) /\ ToSet(ab) = ToSet(a) \cup ToSet(b)
  BY <1>12, ConcatProperties, ConcatMembers
<1>18. Orderly({}, ab)
  BY <1>12, <1>14, OrderlyConcat
<1>19. Plan = (abc \o d) \o e
  BY <1>1
<1> HIDE DEF ab
<1>20. abc \in Seq(PlanQueries) /\ ToSet(abc) = (ToSet(a) \cup ToSet(b)) \cup ToSet(c)
  BY <1>12, <1>17, ConcatProperties, ConcatMembers
<1>21. Orderly({}, abc)
  BY <1>12, <1>15, <1>17, <1>18, OrderlyConcat
<1> HIDE DEF abc
<1>22. abcd \in Seq(PlanQueries)
       /\ ToSet(abcd) = ((ToSet(a) \cup ToSet(b)) \cup ToSet(c)) \cup ToSet(d)
  BY <1>12, <1>20, ConcatProperties, ConcatMembers
<1>23. Orderly({}, abcd)
  BY <1>12, <1>16, <1>20, <1>21, OrderlyConcat
<1> HIDE DEF abcd
<1>24. Plan = abcd \o e
  BY <1>19 DEF abcd
<1>25. Plan \in Seq(PlanQueries) /\ ToSet(Plan) = ToSet(abcd) \cup ToSet(e)
  BY <1>13, <1>22, <1>24, ConcatProperties, ConcatMembers
<1>26. Orderly(ToSet(abcd), e)
  <2>1. Entered \subseteq ToSet(abcd)
    BY <1>8, <1>9, <1>22 DEF Entered, companies, commodities
  <2>2. \A i \in 1..Len(each) : \A more : ToSet(abcd) \subseteq more => Orderly(more, each[i])
    BY <1>3, <1>5, <1>6, <2>1, EventQueriesFit
  <2>3. QED BY <1>6, <2>2, FlattenOrderly DEF e
<1>27. Orderly({}, Plan)
  <2>1. {} \cup ToSet(abcd) = ToSet(abcd)
    OBVIOUS
  <2>2. QED BY <1>13, <1>22, <1>23, <1>24, <1>26, <2>1, OrderlyConcat
<1>28. Plan # <<>>
  <2>1. SeedCompanies # <<>> /\ SeedCompanies \in Seq(companies)
    BY <1>7, SeedAssumption
  <2>2. Len(SeedCompanies) # 0
    BY <2>1, EmptySeq
  <2>3. 1 \in 1..Len(a)
    BY <1>7, <1>8, <2>2
  <2>4. a[1] \in ToSet(Plan)
    BY <1>12, <1>22, <1>25, <2>3, MemberIsElement
  <2>5. ToSet(<<>>) = {}
    BY DEF ToSet
  <2>6. QED BY <2>4, <2>5
<1>29. ASSUME NEW i \in 1..n, NEW t \in ToSet(SeedEvents[i].targets)
       PROVE  <<"impacts", <<SeedEvents[i].id, t>>>> \in ToSet(Plan)
  <2>1. <<"impacts", <<SeedEvents[i].id, t>>>> \in ToSet(each[i])
    BY <1>3, <1>5, EventQueriesFit
  <2>2. ToSet(each[i]) \subseteq ToSet(e)
    BY <1>6, FlattenMembers DEF e
  <2>3. QED BY <1>25, <2>1, <2>2
<1>30. QED BY <1>9, <1>10, <1>11, <1>22, <1>25, <1>27, <1>28, <1>29 DEF n, commodities

-----------------------------------------------------------------------------
(* How the graph grows.                                                    *)

(* Nothing that g knows is unknown to h.                                   *)
Grows(g, h) ==
  /\ \A t \in Tickers :
       /\ Known(g, t) => Known(h, t)
       /\ g.company[t] = Curated[t] => h.company[t] = Curated[t]
  /\ g.commodity \subseteq h.commodity
  /\ \A p \in StoredEdges(g) :
       /\ p \in StoredEdges(h)
       /\ g.depends[p].filed => h.depends[p].filed
       /\ g.depends[p].beta # Absent => h.depends[p].beta # Absent
  /\ g.requires \subseteq h.requires
  /\ g.impacts \subseteq h.impacts
  /\ \A e \in Events : g.severity[e] # NoEvent => h.severity[e] # NoEvent

(* The tables of a graph.                                                  *)
Tables(g) ==
  g = [company |-> g.company, commodity |-> g.commodity, depends |-> g.depends,
       requires |-> g.requires, severity |-> g.severity, impacts |-> g.impacts]

(* A graph is its tables.                                                  *)
LEMMA GraphTables ==
  ASSUME NEW g \in Graphs
  PROVE  Tables(g)
BY DEF Graphs, Tables

(* Growing includes staying.                                               *)
LEMMA GrowsSelf ==
  ASSUME NEW g
  PROVE  Grows(g, g)
BY DEF Grows, StoredEdges

(* The queries of client.py that write, one by one: what each takes for    *)
(* granted and what it leaves.                                             *)
LEMMA NamedGrows ==
  ASSUME NEW g \in Graphs, NEW t \in Tickers, NEW name \in Names,
         ~ Known(g, t) \/ name = Curated[t]
  PROVE  LET h == [g EXCEPT !.company[t] = name]
         IN h \in Graphs /\ Grows(g, h) /\ Known(h, t)
<1> DEFINE h == [g EXCEPT !.company[t] = name]
<1>1. h = [company |-> [g.company EXCEPT ![t] = name],
           commodity |-> g.commodity, depends |-> g.depends,
           requires |-> g.requires, severity |-> g.severity,
           impacts |-> g.impacts]
  BY GraphTables DEF Tables
<1>2. g.company \in [Tickers -> Names \cup {Absent}]
  BY DEF Graphs
<1> HIDE DEF h
<1>3. h \in Graphs
  <2>1. h.company \in [Tickers -> Names \cup {Absent}]
    BY <1>1, <1>2
  <2>2. QED BY <1>1, <2>1 DEF Graphs
<1>4. name # Absent /\ \A u \in Tickers : Curated[u] # Absent
  BY CuratedAssumption, AbsentAssumption
<1>5. \A u \in Tickers : h.company[u] = IF u = t THEN name ELSE g.company[u]
  BY <1>1, <1>2
<1>6. Known(h, t)
  BY <1>4, <1>5 DEF Known
<1>7. \A u \in Tickers : /\ Known(g, u) => Known(h, u)
                         /\ g.company[u] = Curated[u] => h.company[u] = Curated[u]
  BY <1>4, <1>5 DEF Known
<1>8. Grows(g, h)
  BY <1>1, <1>7 DEF Grows, StoredEdges
<1>9. QED BY <1>3, <1>6, <1>8 DEF h

(* upsert_company with the curated name.                                   *)
LEMMA CompanyGrows ==
  ASSUME NEW g \in Graphs, NEW t \in Tickers, NEW name \in Names
  PROVE  /\ InsertCompany(g, t) \in Graphs /\ FileCompany(g, t, name) \in Graphs
         /\ Grows(g, InsertCompany(g, t)) /\ Grows(g, FileCompany(g, t, name))
         /\ Known(InsertCompany(g, t), t)
<1>1. /\ InsertCompany(g, t) \in Graphs /\ Grows(g, InsertCompany(g, t))
      /\ Known(InsertCompany(g, t), t)
  BY CuratedAssumption, NamedGrows DEF InsertCompany
<1>2. CASE Known(g, t)
  BY <1>1, <1>2, GrowsSelf DEF FileCompany
<1>3. CASE ~ Known(g, t)
  BY <1>1, <1>3, NamedGrows DEF FileCompany
<1>4. QED BY <1>2, <1>3, <1>1

(* upsert_commodity.                                                       *)
LEMMA CommodityGrows ==
  ASSUME NEW g \in Graphs, NEW c \in Commodities
  PROVE  /\ InsertCommodity(g, c) \in Graphs /\ Grows(g, InsertCommodity(g, c))
         /\ c \in InsertCommodity(g, c).commodity
<1> DEFINE h == InsertCommodity(g, c)
<1>1. h = [company |-> g.company, commodity |-> g.commodity \cup {c},
           depends |-> g.depends, requires |-> g.requires,
           severity |-> g.severity, impacts |-> g.impacts]
  BY GraphTables DEF Tables, InsertCommodity
<1> HIDE DEF h
<1>2. h \in Graphs
  BY <1>1 DEF Graphs
<1>3. Grows(g, h)
  BY <1>1 DEF Grows, StoredEdges, Known
<1>4. QED BY <1>1, <1>2, <1>3 DEF h

(* upsert_event, with a severity that it takes.                            *)
LEMMA EventGrows ==
  ASSUME NEW g \in Graphs, NEW e \in Events, NEW s \in Severities
  PROVE  /\ UpsertEvent(g, e, s) \in Graphs /\ Grows(g, UpsertEvent(g, e, s))
         /\ UpsertEvent(g, e, s).severity[e] # NoEvent
<1> DEFINE h == UpsertEvent(g, e, s)
<1>1. h = [company |-> g.company, commodity |-> g.commodity,
           depends |-> g.depends, requires |-> g.requires,
           severity |-> [g.severity EXCEPT ![e] = s], impacts |-> g.impacts]
  BY GraphTables DEF Tables, UpsertEvent
<1>2. g.severity \in [Events -> Severities \cup {-1}]
  BY DEF Graphs
<1> HIDE DEF h
<1>3. h \in Graphs
  <2>1. h.severity \in [Events -> Severities \cup {-1}]
    BY <1>1, <1>2
  <2>2. QED BY <1>1, <2>1 DEF Graphs
<1>4. s # NoEvent
  BY DEF Severities, NoEvent
<1>5. \A f \in Events : h.severity[f] = IF f = e THEN s ELSE g.severity[f]
  BY <1>1, <1>2
<1>6. Grows(g, h)
  BY <1>1, <1>4, <1>5 DEF Grows, StoredEdges, Known
<1>7. QED BY <1>3, <1>4, <1>5, <1>6 DEF h

(* insert_requires: no edge without both of its ends.                      *)
LEMMA RequiresGrows ==
  ASSUME NEW g \in Graphs, NEW t \in Tickers, NEW c \in Commodities
  PROVE  /\ InsertRequires(g, t, c) \in Graphs /\ Grows(g, InsertRequires(g, t, c))
         /\ Known(g, t) /\ c \in g.commodity => <<t, c>> \in InsertRequires(g, t, c).requires
<1> DEFINE h == [g EXCEPT !.requires = g.requires \cup {<<t, c>>}]
<1>1. h = [company |-> g.company, commodity |-> g.commodity,
           depends |-> g.depends, requires |-> g.requires \cup {<<t, c>>},
           severity |-> g.severity, impacts |-> g.impacts]
  BY GraphTables DEF Tables
<1>2. Known(g, t) /\ c \in g.commodity => InsertRequires(g, t, c) = h
  BY DEF InsertRequires
<1>3. ~ (Known(g, t) /\ c \in g.commodity) => InsertRequires(g, t, c) = g
  BY DEF InsertRequires
<1> HIDE DEF h
<1>4. h \in Graphs
  BY <1>1 DEF Graphs
<1>5. Grows(g, h)
  BY <1>1 DEF Grows, StoredEdges, Known
<1>6. QED BY <1>1, <1>2, <1>3, <1>4, <1>5, GrowsSelf

(* insert_impacts: likewise.                                               *)
LEMMA ImpactsGrows ==
  ASSUME NEW g \in Graphs, NEW e \in Events, NEW v \in Vids
  PROVE  /\ InsertImpacts(g, e, v) \in Graphs /\ Grows(g, InsertImpacts(g, e, v))
         /\ g.severity[e] # NoEvent /\ Matches(g, v) =>
              <<e, v>> \in InsertImpacts(g, e, v).impacts
<1> DEFINE h == [g EXCEPT !.impacts = g.impacts \cup {<<e, v>>}]
           found == g.severity[e] # NoEvent /\ Matches(g, v)
<1>1. h = [company |-> g.company, commodity |-> g.commodity,
           depends |-> g.depends, requires |-> g.requires,
           severity |-> g.severity, impacts |-> g.impacts \cup {<<e, v>>}]
  BY GraphTables DEF Tables
<1>2. found => InsertImpacts(g, e, v) = h
  BY DEF InsertImpacts
<1>3. ~ found => InsertImpacts(g, e, v) = g
  BY DEF InsertImpacts
<1> HIDE DEF h, found
<1>4. h \in Graphs
  BY <1>1 DEF Graphs
<1>5. Grows(g, h)
  BY <1>1 DEF Grows, StoredEdges, Known
<1>6. <<e, v>> \in h.impacts
  BY <1>1
<1>7. CASE found
  BY <1>2, <1>4, <1>5, <1>6, <1>7
<1>8. CASE ~ found
  BY <1>3, <1>8, GrowsSelf DEF found
<1>9. QED BY <1>7, <1>8

(* An edge that replaces another keeps the tag and has a calibration if    *)
(* the other had one.                                                      *)
Succeeds(old, new) ==
  /\ new \in Edges
  /\ old \in Edges => /\ old.filed => new.filed
                      /\ old.beta # Absent => new.beta # Absent

(* Replacing an edge by one that succeeds it.                              *)
LEMMA EdgeGrows ==
  ASSUME NEW g \in Graphs, NEW p \in Pairs, NEW edge, Succeeds(g.depends[p], edge)
  PROVE  LET h == [g EXCEPT !.depends[p] = edge]
         IN h \in Graphs /\ Grows(g, h) /\ p \in StoredEdges(h)
<1> DEFINE h == [g EXCEPT !.depends[p] = edge]
<1>1. h = [company |-> g.company, commodity |-> g.commodity,
           depends |-> [g.depends EXCEPT ![p] = edge], requires |-> g.requires,
           severity |-> g.severity, impacts |-> g.impacts]
  BY GraphTables DEF Tables
<1>2. g.depends \in [Pairs -> Edges \cup {Absent}]
  BY DEF Graphs
<1>3. edge \in Edges /\ edge # Absent
  BY AbsentAssumption DEF Succeeds
<1> HIDE DEF h
<1>4. h.depends \in [Pairs -> Edges \cup {Absent}]
  BY <1>1, <1>2, <1>3
<1>5. h \in Graphs
  BY <1>1, <1>4 DEF Graphs
<1>6. \A q \in Pairs : h.depends[q] = IF q = p THEN edge ELSE g.depends[q]
  BY <1>1, <1>2
<1>7. ASSUME NEW q \in StoredEdges(g)
      PROVE  /\ q \in StoredEdges(h)
             /\ g.depends[q].filed => h.depends[q].filed
             /\ g.depends[q].beta # Absent => h.depends[q].beta # Absent
  <2>1. q \in Pairs /\ g.depends[q] \in Edges
    BY <1>2 DEF StoredEdges
  <2>2. CASE q = p
    <3>1. h.depends[q] = edge
      BY <1>6, <2>1, <2>2
    <3>2. Succeeds(g.depends[q], edge)
      BY <2>2
    <3>3. QED BY <1>3, <2>1, <3>1, <3>2 DEF Succeeds, StoredEdges
  <2>3. CASE q # p
    <3>1. h.depends[q] = g.depends[q]
      BY <1>6, <2>1, <2>3
    <3>2. QED BY <3>1 DEF StoredEdges
  <2>4. QED BY <2>2, <2>3
<1>8. Grows(g, h)
  BY <1>1, <1>7 DEF Grows, Known
<1>9. p \in StoredEdges(h)
  BY <1>3, <1>6 DEF StoredEdges
<1>10. QED BY <1>5, <1>8, <1>9 DEF h

(* The queries as the requests make them.                                  *)
LEMMA MergedSucceeds ==
  ASSUME NEW old \in Edges \cup {Absent}
  PROVE  /\ Succeeds(old, [Merged(old) EXCEPT !.weight = "curated"])
         /\ Succeeds(old, [Merged(old) EXCEPT !.weight = "filing",
                                              !.filed = TRUE])
         /\ \A run \in Runs : old \in Edges =>
              Succeeds(old, [old EXCEPT !.beta = run])
<1>1. CASE old = Absent
  BY <1>1, AbsentAssumption DEF Merged, Succeeds, Edges
<1>2. CASE old \in Edges
  BY <1>2, AbsentAssumption DEF Merged, Succeeds, Edges
<1>3. QED BY <1>1, <1>2

(* A stored edge or none.                                                  *)
LEMMA EdgeOrAbsent ==
  ASSUME NEW g \in Graphs, NEW p \in Pairs
  PROVE  g.depends[p] \in Edges \cup {Absent}
BY DEF Graphs

(* insert_depends_on of the seed data.                                     *)
LEMMA DependsOnGrows ==
  ASSUME NEW g \in Graphs, NEW src \in Tickers, NEW dst \in Tickers
  PROVE  /\ InsertDependsOn(g, src, dst) \in Graphs
         /\ Grows(g, InsertDependsOn(g, src, dst))
         /\ Known(g, src) /\ Known(g, dst) =>
              <<src, dst>> \in StoredEdges(InsertDependsOn(g, src, dst))
<1> DEFINE p == <<src, dst>>
           edge == [Merged(g.depends[p]) EXCEPT !.weight = "curated"]
           h == [g EXCEPT !.depends[p] = edge]
           known == Known(g, src) /\ Known(g, dst)
<1>1. p \in Pairs
  BY DEF Pairs
<1>2. Succeeds(g.depends[p], edge)
  BY <1>1, EdgeOrAbsent, MergedSucceeds
<1>3. known => InsertDependsOn(g, src, dst) = h
  BY DEF InsertDependsOn
<1>4. ~ known => InsertDependsOn(g, src, dst) = g
  BY DEF InsertDependsOn
<1> HIDE DEF p, edge, known
<1>5. h \in Graphs /\ Grows(g, h) /\ p \in StoredEdges(h)
  BY <1>1, <1>2, EdgeGrows
<1> HIDE DEF h
<1>6. QED BY <1>3, <1>4, <1>5, GrowsSelf DEF p, known

(* insert_depends_on of a filing, then the EDGAR tag.                      *)
LEMMA FiledGrows ==
  ASSUME NEW g \in Graphs, NEW src \in Tickers, NEW dst \in Tickers
  PROVE  /\ FileDependsOn(g, src, dst) \in Graphs
         /\ Grows(g, FileDependsOn(g, src, dst))
<1> DEFINE p == <<src, dst>>
           edge == [Merged(g.depends[p]) EXCEPT !.weight = "filing",
                                                !.filed = TRUE]
           h == [g EXCEPT !.depends[p] = edge]
<1>1. p \in Pairs
  BY DEF Pairs
<1>2. Succeeds(g.depends[p], edge)
  BY <1>1, EdgeOrAbsent, MergedSucceeds
<1>3. FileDependsOn(g, src, dst) = g \/ FileDependsOn(g, src, dst) = h
  BY DEF FileDependsOn
<1> HIDE DEF p, edge
<1>4. h \in Graphs /\ Grows(g, h)
  BY <1>1, <1>2, EdgeGrows
<1>5. QED BY <1>3, <1>4, GrowsSelf

(* update_edge_causal.                                                     *)
LEMMA CausalGrows ==
  ASSUME NEW g \in Graphs, NEW src \in Tickers, NEW dst \in Tickers, NEW run \in Runs
  PROVE  /\ UpdateEdgeCausal(g, src, dst, run) \in Graphs
         /\ Grows(g, UpdateEdgeCausal(g, src, dst, run))
<1> DEFINE p == <<src, dst>>
           edge == [g.depends[p] EXCEPT !.beta = run]
           h == [g EXCEPT !.depends[p] = edge]
<1>1. CASE Linked(g, src, dst)
  <2>1. p \in Pairs /\ g.depends[p] \in Edges
    BY <1>1, EdgeOrAbsent DEF Linked
  <2>2. Succeeds(g.depends[p], edge)
    BY <2>1, MergedSucceeds
  <2>3. UpdateEdgeCausal(g, src, dst, run) = h
    BY <1>1 DEF UpdateEdgeCausal
  <2> HIDE DEF p, edge
  <2>4. h \in Graphs /\ Grows(g, h)
    BY <2>1, <2>2, EdgeGrows
  <2>5. QED BY <2>3, <2>4
<1>2. CASE ~ Linked(g, src, dst)
  BY <1>2, GrowsSelf DEF UpdateEdgeCausal
<1>3. QED BY <1>1, <1>2

-----------------------------------------------------------------------------
(* A query of the plan has had its effect.                                 *)
Holds(g, query) ==
  LET x == query[2] IN
    /\ query[1] = "company" => Known(g, x)
    /\ query[1] = "commodity" => x \in g.commodity
    /\ query[1] = "depends" => x \in StoredEdges(g)
    /\ query[1] = "requires" => x \in g.requires
    /\ query[1] = "event" => g.severity[x.id] # NoEvent
    /\ query[1] = "impacts" => x \in g.impacts

(* The kinds of queries in a plan.                                         *)
LEMMA PlanQueryKinds ==
  ASSUME NEW query \in PlanQueries
  PROVE  LET x == query[2] IN
    \/ query[1] = "company" /\ x \in Tickers
    \/ query[1] = "commodity" /\ x \in Commodities
    \/ query[1] = "depends" /\ x = <<x[1], x[2]>> /\ x[1] \in Tickers /\ x[2] \in Tickers
    \/ query[1] = "requires" /\ x = <<x[1], x[2]>> /\ x[1] \in Tickers /\ x[2] \in Commodities
    \/ query[1] = "event" /\ x.id \in Events /\ x.severity \in Severities
    \/ query[1] = "impacts" /\ x = <<x[1], x[2]>> /\ x[1] \in Events /\ x[2] \in Vids
<1>1. ToSet(SeedCompanies) \subseteq Tickers /\ ToSet(SeedCommodities) \subseteq Commodities
  BY SeedAssumption, MembersTyped
<1>2. Seeded \subseteq Vids
  BY SeededVids
<1>3. \A x \in EventRecords : x.id \in Events /\ x.severity \in Severities
  BY DEF EventRecords
<1>4. QED BY <1>1, <1>2, <1>3 DEF PlanQueries

(* Effects stay.                                                           *)
LEMMA HoldsStays ==
  ASSUME NEW g, NEW h, Grows(g, h), NEW query \in PlanQueries, Holds(g, query)
  PROVE  Holds(h, query)
<1> DEFINE x == query[2]
<1>1. CASE query[1] = "company" /\ x \in Tickers
  BY <1>1 DEF Holds, Grows
<1>2. CASE query[1] = "commodity"
  BY <1>2 DEF Holds, Grows
<1>3. CASE query[1] = "depends"
  BY <1>3 DEF Holds, Grows
<1>4. CASE query[1] = "requires"
  BY <1>4 DEF Holds, Grows
<1>5. CASE query[1] = "event" /\ x.id \in Events
  BY <1>5 DEF Holds, Grows
<1>6. CASE query[1] = "impacts"
  BY <1>6 DEF Holds, Grows
<1>7. QED BY <1>1, <1>2, <1>3, <1>4, <1>5, <1>6, PlanQueryKinds

(* A query of the plan lets the graph grow; once what it matches is there, *)
(* it has its effect.                                                      *)
LEMMA ApplyFits ==
  ASSUME NEW g \in Graphs, NEW query \in PlanQueries
  PROVE  /\ Apply(g, query) \in Graphs
         /\ Grows(g, Apply(g, query))
         /\ \A done \in SUBSET PlanQueries :
              Ready(done, query) /\ (\A q \in done : Holds(g, q))
              => Holds(Apply(g, query), query)
<1> DEFINE x == query[2]
           h == Apply(g, query)
           met == \E done \in SUBSET PlanQueries :
                    Ready(done, query) /\ \A q \in done : Holds(g, q)
<1>0. SUFFICES h \in Graphs /\ Grows(g, h) /\ (met => Holds(h, query))
  BY Zenon
<1>1. CASE query[1] = "company" /\ x \in Tickers
  <2>1. h = InsertCompany(g, x)
    BY <1>1, Zenon DEF Apply
  <2>2. \E name : name \in Names
    BY <1>1, CuratedAssumption
  <2>3. h \in Graphs /\ Grows(g, h) /\ Known(h, x)
    BY <1>1, <2>1, <2>2, CompanyGrows
  <2>4. QED BY <1>1, <2>3 DEF Holds
<1>2. CASE query[1] = "commodity" /\ x \in Commodities
  <2>1. h = InsertCommodity(g, x)
    BY <1>2, Zenon DEF Apply
  <2>2. h \in Graphs /\ Grows(g, h) /\ x \in h.commodity
    BY <1>2, <2>1, CommodityGrows
  <2>3. QED BY <1>2, <2>2 DEF Holds
<1>3. CASE query[1] = "depends" /\ x = <<x[1], x[2]>> /\ x[1] \in Tickers /\ x[2] \in Tickers
  <2>1. h = InsertDependsOn(g, x[1], x[2])
    BY <1>3, Zenon DEF Apply
  <2>2. /\ h \in Graphs /\ Grows(g, h)
        /\ Known(g, x[1]) /\ Known(g, x[2]) => <<x[1], x[2]>> \in StoredEdges(h)
    BY <1>3, <2>1, DependsOnGrows
  <2>3. met => Known(g, x[1]) /\ Known(g, x[2])
    BY <1>3 DEF Ready, Holds
  <2> HIDE DEF h, met
  <2>4. QED BY <1>3, <2>2, <2>3 DEF Holds
<1>4. CASE query[1] = "requires" /\ x = <<x[1], x[2]>> /\ x[1] \in Tickers /\ x[2] \in Commodities
  <2>1. h = InsertRequires(g, x[1], x[2])
    BY <1>4, Zenon DEF Apply
  <2>2. /\ h \in Graphs /\ Grows(g, h)
        /\ Known(g, x[1]) /\ x[2] \in g.commodity => <<x[1], x[2]>> \in h.requires
    BY <1>4, <2>1, RequiresGrows
  <2>3. met => Known(g, x[1]) /\ x[2] \in g.commodity
    BY <1>4 DEF Ready, Holds
  <2> HIDE DEF h, met
  <2>4. QED BY <1>4, <2>2, <2>3 DEF Holds
<1>5. CASE query[1] = "event" /\ x.id \in Events /\ x.severity \in Severities
  <2>1. h = UpsertEvent(g, x.id, x.severity)
    BY <1>5, Zenon DEF Apply
  <2>2. h \in Graphs /\ Grows(g, h) /\ h.severity[x.id] # NoEvent
    BY <1>5, <2>1, EventGrows
  <2> HIDE DEF h, met
  <2>3. QED BY <1>5, <2>2 DEF Holds
<1>6. CASE query[1] = "impacts" /\ x = <<x[1], x[2]>> /\ x[1] \in Events /\ x[2] \in Vids
  <2>1. h = InsertImpacts(g, x[1], x[2])
    BY <1>6, Zenon DEF Apply
  <2>2. /\ h \in Graphs /\ Grows(g, h)
        /\ g.severity[x[1]] # NoEvent /\ Matches(g, x[2]) => <<x[1], x[2]>> \in h.impacts
    BY <1>6, <2>1, ImpactsGrows
  <2>3. ASSUME met
        PROVE  g.severity[x[1]] # NoEvent /\ Matches(g, x[2])
    <3>1. PICK done \in SUBSET PlanQueries : Ready(done, query) /\ \A q \in done : Holds(g, q)
      BY <2>3
    <3>2. g.severity[x[1]] # NoEvent
      BY <1>6, <3>1 DEF Ready, Holds
    <3>3. CASE <<"company", x[2]>> \in done
      <4>1. x[2] \in Tickers
        BY <3>1, <3>3, PlanQueryKinds
      <4>2. Known(g, x[2])
        BY <3>1, <3>3 DEF Holds
      <4>3. QED BY <3>2, <4>1, <4>2 DEF Matches
    <3>4. CASE <<"commodity", x[2]>> \in done
      BY <3>1, <3>2, <3>4 DEF Holds, Matches
    <3>5. QED BY <1>6, <3>1, <3>3, <3>4 DEF Ready
  <2> HIDE DEF h, met
  <2>4. QED BY <1>6, <2>2, <2>3 DEF Holds
<1>7. QED BY <1>1, <1>2, <1>3, <1>4, <1>5, <1>6, PlanQueryKinds

-----------------------------------------------------------------------------
(* What a trace finds.                                                     *)

(* Chains of edges, from their first edge.                                 *)
LEMMA ChainStarts ==
  ASSUME NEW g, NEW t \in Tickers, NEW v \in Tickers, NEW n \in Nat, Chain(g, t, v, n + 1)
  PROVE  Linked(g, t, v) \/ \E d \in Tickers : Linked(g, t, d) /\ Chain(g, d, v, n)
<1>0. PICK m \in 1..(n + 1) : \E c \in [0..m -> Tickers] :
        c[0] = t /\ c[m] = v /\ \A i \in 1..m : Linked(g, c[i - 1], c[i])
  BY DEF Chain
<1>1. PICK c \in [0..m -> Tickers] :
        c[0] = t /\ c[m] = v /\ \A i \in 1..m : Linked(g, c[i - 1], c[i])
  BY <1>0
<1>2. 1 \in 1..m /\ 1 \in 0..m /\ c[1] \in Tickers /\ Linked(g, t, c[1])
  <2>1. 1 \in 1..m /\ 1 \in 0..m /\ 1 - 1 = 0
    OBVIOUS
  <2>2. Linked(g, c[1 - 1], c[1])
    BY <1>1, <2>1
  <2>3. QED BY <1>1, <2>1, <2>2
<1>3. CASE m = 1
  BY <1>1, <1>2, <1>3
<1>4. CASE m # 1
  <2> DEFINE e == [i \in 0..(m - 1) |-> c[i + 1]]
  <2>1. m - 1 \in 1..n /\ \A i \in 0..(m - 1) : i + 1 \in 0..m
    BY <1>4
  <2>2. e \in [0..(m - 1) -> Tickers]
    BY <2>1
  <2>3. e[0] = c[1] /\ e[m - 1] = v
    BY <1>1, <2>1
  <2>4. ASSUME NEW i \in 1..(m - 1)
        PROVE  Linked(g, e[i - 1], e[i])
    <3>1. /\ i + 1 \in 1..m /\ (i + 1) - 1 = i /\ (i - 1) + 1 = i
          /\ i \in 0..(m - 1) /\ i - 1 \in 0..(m - 1)
      BY <2>1
    <3>2. e[i - 1] = c[i] /\ e[i] = c[i + 1]
      BY <3>1
    <3>3. Linked(g, c[(i + 1) - 1], c[i + 1])
      BY <1>1, <3>1
    <3> HIDE DEF e
    <3>4. QED BY <3>1, <3>2, <3>3
  <2> HIDE DEF e
  <2>5. Chain(g, c[1], v, n)
    BY <2>1, <2>2, <2>3, <2>4 DEF Chain
  <2>6. QED BY <1>2, <2>5
<1>5. QED BY <1>3, <1>4

(* And to their last.                                                      *)
LEMMA ChainExtends ==
  ASSUME NEW g, NEW t \in Tickers, NEW v \in Tickers, NEW n \in Nat,
         \/ Chain(g, t, v, n)
         \/ Linked(g, t, v)
         \/ \E d \in Tickers : Linked(g, t, d) /\ Chain(g, d, v, n)
  PROVE  Chain(g, t, v, n + 1)
<1>1. CASE Chain(g, t, v, n)
  <2>1. 1..n \subseteq 1..(n + 1)
    OBVIOUS
  <2>2. QED BY <1>1, <2>1 DEF Chain
<1>2. CASE Linked(g, t, v)
  <2> DEFINE c == [i \in 0..1 |-> IF i = 0 THEN t ELSE v]
  <2>1. c \in [0..1 -> Tickers] /\ c[0] = t /\ c[1] = v
    OBVIOUS
  <2> HIDE DEF c
  <2>2. \A i \in 1..1 : Linked(g, c[i - 1], c[i])
    <3>1. \A i \in 1..1 : i = 1 /\ i - 1 = 0
      OBVIOUS
    <3>2. QED BY <1>2, <2>1, <3>1
  <2>3. 1 \in 1..(n + 1)
    OBVIOUS
  <2>4. QED BY <2>1, <2>2, <2>3 DEF Chain
<1>3. ASSUME NEW d \in Tickers, Linked(g, t, d), Chain(g, d, v, n)
      PROVE  Chain(g, t, v, n + 1)
  <2>0. PICK m \in 1..n : \E e \in [0..m -> Tickers] :
          e[0] = d /\ e[m] = v /\ \A i \in 1..m : Linked(g, e[i - 1], e[i])
    BY <1>3 DEF Chain
  <2>1. PICK e \in [0..m -> Tickers] :
          e[0] = d /\ e[m] = v /\ \A i \in 1..m : Linked(g, e[i - 1], e[i])
    BY <2>0
  <2> DEFINE c == [i \in 0..(m + 1) |-> IF i = 0 THEN t ELSE e[i - 1]]
  <2>2. m + 1 \in 1..(n + 1) /\ \A i \in 0..(m + 1) : i # 0 => i - 1 \in 0..m
    OBVIOUS
  <2>3. c \in [0..(m + 1) -> Tickers]
    BY <2>2
  <2>4. c[0] = t /\ c[m + 1] = v
    BY <2>1, <2>2
  <2>5. ASSUME NEW i \in 1..(m + 1)
        PROVE  Linked(g, c[i - 1], c[i])
    <3>1. i \in 0..(m + 1) /\ i - 1 \in 0..(m + 1) /\ c[i] = e[i - 1]
      OBVIOUS
    <3>2. CASE i = 1
      <4>1. c[i - 1] = t /\ c[i] = d
        BY <2>1, <2>4, <3>1, <3>2
      <4>2. QED BY <1>3, <4>1
    <3>3. CASE i # 1
      <4>1. i - 1 \in 1..m /\ c[i - 1] = e[(i - 1) - 1]
        BY <3>1, <3>3
      <4>2. Linked(g, e[(i - 1) - 1], e[i - 1])
        BY <2>1, <4>1
      <4> HIDE DEF c
      <4>3. QED BY <3>1, <4>1, <4>2
    <3>4. QED BY <3>2, <3>3
  <2> HIDE DEF c
  <2>6. QED BY <2>2, <2>3, <2>4, <2>5 DEF Chain
<1>4. QED BY <1>1, <1>2, <1>3

(* What the recursion of a trace finds, hop by hop, is what chains lead    *)
(* from.                                                                   *)
LEMMA ReachedIsChained ==
  ASSUME NEW g, NEW v, NEW hops \in Nat
  PROVE  Reached(g, v, hops) = {t \in Tickers : v \in Tickers /\ Chain(g, t, v, hops)}
<1> DEFINE X == SUBSET Tickers
           Step(s) == s \cup Dependents(g, s \cup {v})
           G == [z \in X \X (1..hops) |-> Step(z[1])]
           within[n \in 0..hops] ==
             IF n = 0 THEN {}
             ELSE within[n - 1] \cup Dependents(g, within[n - 1] \cup {v})
<1>1. {} \in X /\ \A s \in X : Step(s) \in X
  BY DEF Dependents
<1>2. G \in [X \X (1..hops) -> X]
  <2> HIDE DEF X, Step
  <2>1. QED BY <1>1
<1>3. PICK f \in [0..hops -> X] : Iterates(f, hops, {}, G)
  <2> HIDE DEF G, X
  <2>1. QED BY <1>1, <1>2, Recursion
<1>4. ASSUME NEW n \in 1..hops PROVE f[n] = Step(f[n - 1])
  <2> HIDE DEF X
  <2>1. f[n - 1] \in X
    OBVIOUS
  <2>2. G[<<f[n - 1], n>>] = Step(f[n - 1])
    <3> HIDE DEF Step
    <3>1. QED BY <2>1
  <2> HIDE DEF G, Step
  <2>3. QED BY <1>3, <2>2 DEF Iterates
<1>5. f = [n \in 0..hops |-> IF n = 0 THEN {}
                             ELSE f[n - 1] \cup Dependents(g, f[n - 1] \cup {v})]
  <2>1. f[0] = {} /\ \A n \in 0..hops : n = 0 \/ n \in 1..hops
    BY <1>3 DEF Iterates
  <2> HIDE DEF G, X
  <2>2. \A n \in 0..hops : f[n] = IF n = 0 THEN {}
                                  ELSE f[n - 1] \cup Dependents(g, f[n - 1] \cup {v})
    BY <1>4, <2>1
  <2>3. QED BY <2>2
<1>6. within = [n \in 0..hops |-> IF n = 0 THEN {}
                  ELSE within[n - 1] \cup Dependents(g, within[n - 1] \cup {v})]
  BY <1>5, Zenon
<1>7. Reached(g, v, hops) = within[hops]
  BY DEF Reached
<1> HIDE DEF within, G, X
<1> DEFINE From(n) == {t \in Tickers : v \in Tickers /\ Chain(g, t, v, n)}
           S == {n \in 0..hops : within[n] = From(n)}
<1>8. 0 \in S
  <2>1. within[0] = {} /\ 0 \in 0..hops
    BY <1>6
  <2>2. From(0) = {}
    BY DEF Chain
  <2>3. QED BY <2>1, <2>2
<1>9. ASSUME NEW n \in 0..(hops - 1), n \in S
      PROVE  n + 1 \in S
  <2>1. n \in Nat /\ n + 1 \in 0..hops /\ n + 1 # 0 /\ (n + 1) - 1 = n
    OBVIOUS
  <2>2. within[n + 1] = Step(within[n])
    BY <1>6, <2>1
  <2>3. within[n] = From(n)
    BY <1>9
  <2>4. CASE v \notin Tickers
    <3>1. From(n) = {} /\ From(n + 1) = {}
      BY <2>4
    <3>2. \A t : ~ Linked(g, t, v)
      BY <2>4 DEF Linked, Pairs
    <3>3. Step({}) = {}
      BY <3>2 DEF Dependents
    <3>4. within[n + 1] = From(n + 1)
      BY <2>2, <2>3, <3>1, <3>3
    <3> HIDE DEF From
    <3>5. QED BY <2>1, <3>4
  <2>5. CASE v \in Tickers
    <3>1. ASSUME NEW t \in Tickers
          PROVE  t \in Step(From(n)) <=> t \in From(n + 1)
      <4>1. t \in Step(From(n)) <=>
              \/ Chain(g, t, v, n) \/ Linked(g, t, v)
              \/ \E d \in Tickers : Linked(g, t, d) /\ Chain(g, d, v, n)
        BY <2>5 DEF Dependents
      <4>2. t \in From(n + 1) <=> Chain(g, t, v, n + 1)
        BY <2>5
      <4> HIDE DEF Step, From
      <4>3. QED BY <2>1, <2>5, <4>1, <4>2, ChainStarts, ChainExtends
    <3>2. Step(From(n)) \subseteq Tickers /\ From(n + 1) \subseteq Tickers
      BY DEF Dependents
    <3>3. Step(From(n)) = From(n + 1)
      <4> HIDE DEF Step, From
      <4>1. QED BY <3>1, <3>2
    <3> HIDE DEF From, Step
    <3>4. QED BY <2>1, <2>2, <2>3, <3>3
  <2>6. QED BY <2>4, <2>5
<1>10. hops \in S
  <2> HIDE DEF S
  <2>1. \A n \in 0..hops : n \in S
    BY <1>8, <1>9, Induction
  <2>2. QED BY <2>1
<1>11. QED BY <1>7, <1>10

(* An order of the rows has every row.                                     *)
LEMMA RowsCovered ==
  ASSUME NEW S, IsFiniteSet(S), NEW rows \in SetToSeqs(S)
  PROVE  {rows[i] : i \in 1..Len(rows)} = S
<1> DEFINE n == Cardinality(S)
<1>1. n \in Nat
  BY FS_CardinalityType
<1>2. rows \in [1..n -> S] /\ \A i, j \in 1..n : i # j => rows[i] # rows[j]
  BY DEF SetToSeqs
<1>3. rows \in Injection(1..n, S)
  BY <1>2 DEF Injection, IsInjective
<1>4. Cardinality(1..n) = n
  BY <1>1, FS_Interval
<1>5. rows \in Surjection(1..n, S)
  BY <1>3, <1>4, FS_Injection
<1> HIDE DEF n
<1>6. rows \in Seq(S)
  BY <1>1, <1>2, FunctionSeq
<1>7. 1..Len(rows) = 1..n
  BY <1>2, <1>6, LenProperties
<1>8. \A x \in S : \E i \in 1..n : rows[i] = x
  BY <1>5 DEF Surjection
<1>9. {rows[i] : i \in 1..n} = S
  <2>1. \A i \in 1..n : rows[i] \in S
    BY <1>2
  <2>2. QED BY <1>8, <2>1
<1>10. QED BY <1>7, <1>9

(* And it has a length.                                                    *)
LEMMA RowsLength ==
  ASSUME NEW S, IsFiniteSet(S), NEW rows \in SetToSeqs(S)
  PROVE  Len(rows) \in Nat
<1> DEFINE n == Cardinality(S)
<1>1. n \in Nat
  BY FS_CardinalityType
<1>2. rows \in [1..n -> S]
  BY DEF SetToSeqs
<1> HIDE DEF n
<1>3. rows \in Seq(S)
  BY <1>1, <1>2, FunctionSeq
<1>4. QED BY <1>3, LenProperties

(* Rows that are not empty have a last one.                                *)
LEMMA LastExists ==
  ASSUME NEW n \in Nat, NEW F \in SUBSET (1..n), F # {}
  PROVE  \E m \in F : \A i \in F : m >= i
<1> DEFINE I == {k \in 0..n : n - k \in F}
<1>1. PICK x \in F : TRUE
  OBVIOUS
<1>2. n - x \in 0..n /\ n - (n - x) = x
  BY <1>1
<1>3. I \in SUBSET Nat /\ I # {}
  <2>1. n - x \in I
    BY <1>1, <1>2
  <2>2. I \in SUBSET Nat
    OBVIOUS
  <2> HIDE DEF I
  <2>3. QED BY <2>1, <2>2
<1>4. PICK k \in I : \A i \in I : k <= i
  BY <1>3, FirstExists
<1>5. n - k \in F
  BY <1>4
<1>6. ASSUME NEW i \in F
      PROVE  n - k >= i
  <2>1. n - i \in 0..n /\ n - (n - i) = i
    OBVIOUS
  <2>2. n - i \in I
    BY <1>6, <2>1
  <2>3. k <= n - i
    BY <1>4, <2>2
  <2>4. QED BY <1>4, <2>3
<1>7. QED BY <1>5, <1>6

(* trace_impact: whatever the order of the rows, an answer names exactly   *)
(* the companies downstream, and gives the calibration of an edge to the   *)
(* target, or to a company that requires it.                               *)
LEMMA TracesDownstream ==
  ASSUME NEW g, NEW v, NEW hops \in Nat, NEW found \in Traces(g, v, hops)
  PROVE  /\ DOMAIN found = Downstream(g, v, hops)
         /\ DOMAIN found \subseteq Tickers
         /\ found = [t \in DOMAIN found |-> found[t]]
         /\ \A t \in DOMAIN found : found[t] # Absent =>
              \E d \in {v} \cup Requiring(g, v) :
                Linked(g, t, d) /\ g.depends[<<t, d>>].beta = found[t]
<1>1. ASSUME NEW t, NEW x, Direct(g, t, x) # Absent
      PROVE  Linked(g, t, x) /\ g.depends[<<t, x>>].beta = Direct(g, t, x)
  BY <1>1 DEF Direct
<1>2. CASE v \in g.commodity
  <2> DEFINE S == Requiring(g, v)
  <2>1. PICK rows \in SetToSeqs(S) : found = TraceRequiring(g, rows, hops)
    BY <1>2 DEF Traces
  <2>2. IsFiniteSet(S)
    BY TickersAssumption, FS_Subset DEF Requiring
  <2>3. {rows[i] : i \in 1..Len(rows)} = S
    <3> HIDE DEF S
    <3>1. QED BY <2>1, <2>2, RowsCovered
  <2> DEFINE finding(t) == {i \in 1..Len(rows) : t \in {rows[i]} \cup Reached(g, rows[i], hops)}
             D == {t \in Tickers : finding(t) # {}}
             z(t) == rows[Max(finding(t))]
  <2>4. found = [t \in D |-> Direct(g, t, z(t))]
    BY <2>1 DEF TraceRequiring
  <2>a. ASSUME NEW t \in D
        PROVE  z(t) \in S
    <3> DEFINE F == finding(t)
    <3>1. F \in SUBSET (1..Len(rows)) /\ F # {}
      OBVIOUS
    <3> HIDE DEF F
    <3>2. Len(rows) \in Nat
      <4> HIDE DEF S
      <4>1. QED BY <2>1, <2>2, RowsLength
    <3>3. Max(F) \in 1..Len(rows)
      BY <3>1, <3>2, LastExists DEF Max
    <3>4. rows[Max(F)] \in S
      BY <2>3, <3>3
    <3>5. QED BY <3>4 DEF F
  <2> HIDE DEF z
  <2>5. ASSUME NEW t \in Tickers
        PROVE  t \in D <=> <<t, v>> \in g.requires \/ \E r \in S : Chain(g, t, r, hops)
    <3>1. t \in D <=> \E i \in 1..Len(rows) : t = rows[i] \/ t \in Reached(g, rows[i], hops)
      OBVIOUS
    <3>2. t \in D <=> \E r \in S : t = r \/ t \in Reached(g, r, hops)
      <4> HIDE DEF S, D
      <4>1. QED BY <2>3, <3>1
    <3>3. \A r \in S : r \in Tickers /\ (t \in Reached(g, r, hops) <=> Chain(g, t, r, hops))
      <4>1. \A r \in S : r \in Tickers
        BY DEF Requiring
      <4> HIDE DEF S, D
      <4>2. QED BY <4>1, ReachedIsChained
    <3>4. t \in S <=> <<t, v>> \in g.requires
      BY DEF Requiring
    <3> HIDE DEF S, D
    <3>5. QED BY <3>2, <3>3, <3>4
  <2>6. D \subseteq Tickers
    OBVIOUS
  <2> HIDE DEF D
  <2>7. /\ DOMAIN found = D /\ \A t \in D : found[t] = Direct(g, t, z(t))
        /\ found = [t \in DOMAIN found |-> found[t]]
    BY <2>4
  <2>8. D = Downstream(g, v, hops)
    BY <1>2, <2>5, <2>6 DEF Downstream
  <2>9. QED BY <1>1, <2>a, <2>6, <2>7, <2>8
<1>3. CASE v \notin g.commodity
  <2>1. found = TraceCompany(g, v, hops)
    BY <1>3 DEF Traces
  <2> DEFINE D == Reached(g, v, hops)
  <2>2. D = Downstream(g, v, hops) /\ D \subseteq Tickers
    BY <1>3, ReachedIsChained DEF Downstream
  <2>3. found = [t \in D |-> Direct(g, t, v)]
    BY <2>1 DEF TraceCompany
  <2> HIDE DEF D
  <2>4. /\ DOMAIN found = D /\ \A t \in D : found[t] = Direct(g, t, v)
        /\ found = [t \in DOMAIN found |-> found[t]]
    BY <2>3
  <2>5. QED BY <1>1, <2>2, <2>4
<1>4. QED BY <1>2, <1>3

(* A graph with more edges finds no less.                                  *)
LEMMA MoreDownstream ==
  ASSUME NEW g, NEW h, NEW v, NEW hops,
         g.commodity \subseteq Commodities, h.commodity \subseteq Commodities,
         v \in g.commodity => v \in h.commodity, v \in Commodities => v \in g.commodity,
         g.requires \subseteq h.requires, StoredEdges(g) \subseteq StoredEdges(h)
  PROVE  Downstream(g, v, hops) \subseteq Downstream(h, v, hops)
<1>1. \A a, b : Linked(g, a, b) => Linked(h, a, b)
  BY DEF Linked, StoredEdges
<1>2. \A t, r : Chain(g, t, r, hops) => Chain(h, t, r, hops)
  <2>1. SUFFICES ASSUME NEW t, NEW r, Chain(g, t, r, hops)
                 PROVE  Chain(h, t, r, hops)
    OBVIOUS
  <2>2. PICK n \in 1..hops : \E c \in [0..n -> Tickers] :
          c[0] = t /\ c[n] = r /\ \A i \in 1..n : Linked(g, c[i - 1], c[i])
    BY <2>1 DEF Chain
  <2>3. PICK c \in [0..n -> Tickers] :
          c[0] = t /\ c[n] = r /\ \A i \in 1..n : Linked(g, c[i - 1], c[i])
    BY <2>2
  <2>4. \A i \in 1..n : Linked(h, c[i - 1], c[i])
    BY <1>1, <2>3
  <2>5. QED BY <2>3, <2>4 DEF Chain
<1>3. \A r : r \in Requiring(g, v) => r \in Requiring(h, v)
  BY DEF Requiring
<1>4. v \in g.commodity <=> v \in h.commodity
  OBVIOUS
<1>5. QED BY <1>2, <1>3, <1>4 DEF Downstream

(* What is stored once every query of the plan is in effect.               *)
LEMMA PlanDone ==
  ASSUME NEW g, \A i \in 1..Len(Plan) : Holds(g, Plan[i])
  PROVE  /\ ToSet(SeedDepends) \subseteq StoredEdges(g)
         /\ ToSet(SeedRequires) \subseteq g.requires
         /\ ToSet(SeedCommodities) \subseteq g.commodity
         /\ \A i \in 1..Len(SeedEvents) :
              {SeedEvents[i].id} \X ToSet(SeedEvents[i].targets) \subseteq g.impacts
<1>1. \A q \in ToSet(Plan) : Holds(g, q)
  BY PlanFits, LenProperties DEF ToSet
<1>2. \A x : /\ Holds(g, <<"depends", x>>) => x \in StoredEdges(g)
             /\ Holds(g, <<"requires", x>>) => x \in g.requires
             /\ Holds(g, <<"commodity", x>>) => x \in g.commodity
             /\ Holds(g, <<"impacts", x>>) => x \in g.impacts
  BY DEF Holds
<1>3. ASSUME NEW i \in 1..Len(SeedEvents), NEW t \in ToSet(SeedEvents[i].targets)
      PROVE  <<SeedEvents[i].id, t>> \in g.impacts
  BY <1>1, <1>2, PlanFits
<1>4. \A i \in 1..Len(SeedEvents) :
        {SeedEvents[i].id} \X ToSet(SeedEvents[i].targets) \subseteq g.impacts
  BY <1>3
<1>5. QED BY <1>1, <1>2, <1>4, PlanFits

(* seed_production_data.py: then its verification finds what it expects.   *)
LEMMA SeedFound ==
  ASSUME NEW g \in Graphs, \A i \in 1..Len(Plan) : Holds(g, Plan[i]),
         NEW x \in Expected, NEW found \in Traces(g, x.target, x.hops)
  PROVE  x.companies \subseteq DOMAIN found
<1>1. /\ ToSet(SeedDepends) \subseteq StoredEdges(g)
      /\ ToSet(SeedRequires) \subseteq g.requires
      /\ ToSet(SeedCommodities) \subseteq g.commodity
  BY PlanDone
<1>2. /\ x.target \in ToSet(SeedCommodities) \cup (Tickers \ Commodities)
      /\ x.hops \in 1..5 /\ x.companies \subseteq Downstream(SeedData, x.target, x.hops)
  BY ExpectedAssumption
<1>3. /\ SeedData.commodity = ToSet(SeedCommodities)
      /\ SeedData.requires = ToSet(SeedRequires)
      /\ SeedData.depends = [p \in Pairs |-> IF p \in ToSet(SeedDepends) THEN Merged(Absent)
                                             ELSE Absent]
  BY DEF SeedData, EmptyGraph
<1>4. StoredEdges(SeedData) \subseteq StoredEdges(g)
  <2>1. \A p \in Pairs : SeedData.depends[p] # Absent => p \in ToSet(SeedDepends)
    BY <1>3
  <2>2. QED BY <1>1, <2>1 DEF StoredEdges
<1>5. ToSet(SeedCommodities) \subseteq Commodities /\ g.commodity \subseteq Commodities
  BY SeedAssumption, MembersTyped DEF Graphs
<1>6. Downstream(SeedData, x.target, x.hops) \subseteq Downstream(g, x.target, x.hops)
  <2>1. x.target \in Commodities => x.target \in SeedData.commodity
    BY <1>2, <1>3
  <2>2. QED BY <1>1, <1>3, <1>4, <1>5, <2>1, MoreDownstream
<1>7. DOMAIN found = Downstream(g, x.target, x.hops)
  BY <1>2, TracesDownstream
<1>8. QED BY <1>2, <1>6, <1>7

(* The types of what a trace returns.                                      *)
LEMMA TracesTyped ==
  ASSUME NEW g \in Graphs, NEW v, NEW hops \in Nat, NEW found \in Traces(g, v, hops)
  PROVE  found \in UNION {[S -> Runs \cup {Absent}] : S \in SUBSET Tickers}
<1>1. /\ DOMAIN found \subseteq Tickers
      /\ found = [t \in DOMAIN found |-> found[t]]
      /\ \A t \in DOMAIN found : found[t] # Absent =>
           \E d \in {v} \cup Requiring(g, v) :
             Linked(g, t, d) /\ g.depends[<<t, d>>].beta = found[t]
  BY TracesDownstream
<1>2. \A t, d : Linked(g, t, d) => g.depends[<<t, d>>].beta \in Runs \cup {Absent}
  <2>1. \A t, d : Linked(g, t, d) => g.depends[<<t, d>>] \in Edges
    BY DEF Linked, Graphs
  <2>2. QED BY <2>1 DEF Edges
<1>3. \A t \in DOMAIN found : found[t] \in Runs \cup {Absent}
  BY <1>1, <1>2
<1>4. found \in [DOMAIN found -> Runs \cup {Absent}]
  BY <1>1, <1>3
<1>5. QED BY <1>1, <1>4

(* And an answer with it tells of the graph that was asked.                *)
LEMMA TracesTell ==
  ASSUME NEW g, NEW v, NEW hops \in Nat, NEW found \in Traces(g, v, hops), NEW s,
         s.target = v, s.hops = hops, s.impacted = found
  PROVE  TellsOf(g, s)
BY TracesDownstream DEF TellsOf

-----------------------------------------------------------------------------
(* The inductive invariant.                                                *)

(* What a refresh reports as added, and the edge that it has found to be   *)
(* missing.                                                                *)
Added(s) ==
  IF /\ s.kind = "edgar"
     /\ s.stage \in {"vertex", "check", "merge"} \/ (s.stage = "ended" /\ s.success)
  THEN s.added ELSE {}

Missing(s) ==
  IF s.kind = "edgar" /\ s.stage = "merge" /\ s.isNew
  THEN {Directed(s.ticker, Head(s.todo))} ELSE {}

(* An analysis knows its anchor from the moment the entities are collected.*)
NewsInv(s) ==
  s.kind = "news" =>
    /\ s.stage = "fetch" => s.queries >= 1
    /\ s.stage = "trace" =>
         /\ s.toTrace # {}
         /\ s.anchor \in Vids => s.anchor \in s.toTrace \cup s.tried
    /\ s.stage = "ended" /\ s.success /\ s.anchor \in Vids => s.anchor \in s.tried

(* An ingestion, event by event and query by query.                        *)
LinkedTo(g, e, known) ==
  /\ g.severity[e.id] # NoEvent
  /\ \A v \in ToSet(Entities(e)) \cap known : <<e.id, v>> \in g.impacts

PartlyLinked(g, e, known, step) ==
  /\ step \in 0..Len(Entities(e))
  /\ step > 0 =>
       /\ g.severity[e.id] # NoEvent
       /\ \A k \in 1..(step - 1) :
            Entities(e)[k] \in known => <<e.id, Entities(e)[k]>> \in g.impacts

Ingested(g, s) ==
  /\ \A i \in 1..Len(s.events) : s.events[i].severity \in 1..SeverityCap
  /\ s.next \in 1..(Len(s.events) + 1)
  /\ s.succeeded \subseteq 1..(s.next - 1)
  /\ \A v \in s.known : Matches(g, v)
  /\ \A i \in s.succeeded : LinkedTo(g, s.events[i], s.known)
  /\ s.failed # {} => s.hurt
  /\ s.stage = "ingest" =>
       s.next <= Len(s.events) /\ PartlyLinked(g, s.events[s.next], s.known, s.step)

IngestInv(g, s) ==
  s.kind = "news" /\ s.stage \in {"ingest", "ingested"} => Ingested(g, s)

(* What a seeder has left is the end of the plan; the rest is in effect.   *)
Progress(g, todo) ==
  \E n \in 0..Len(Plan) :
    /\ Len(todo) = Len(Plan) - n
    /\ \A i \in 1..Len(todo) : todo[i] = Plan[n + i]
    /\ \A i \in 1..n : Holds(g, Plan[i])

SeederInv(g, s) ==
  s.kind = "seed" =>
    /\ s.stage = "write" => Progress(g, s.todo) /\ s.todo # <<>>
    /\ s.stage = "ended" /\ s.ok => Progress(g, <<>>)

(* What a trace has named stays downstream of its target.                  *)
TraceInv(g, s) ==
  s.kind = "trace" /\ s.success /\ s.target \notin Tickers \cap Commodities =>
    DOMAIN s.impacted \subseteq Downstream(g, s.target, s.hops)

(* A trace that answers tells of the graph as it is.                       *)
Telling(s) == s.kind = "trace" /\ s.success => TellsOf(graph, s)

JobInv(g, s) ==
  /\ Added(s) \subseteq StoredEdges(g)
  /\ NewsInv(s) /\ IngestInv(g, s) /\ SeederInv(g, s) /\ TraceInv(g, s)

ReportsInv ==
  \A i, j \in Jobs : i # j =>
    Added(job[i]) \cap (Added(job[j]) \cup Missing(job[j])) = {}

ScriptInv ==
  /\ script.stage = "seeding" => Progress(graph, script.todo) /\ script.todo # <<>>
  /\ script.stage \in {"verifying", "complete"} => Progress(graph, <<>>)
  /\ script.stage # "incomplete"

IInv ==
  /\ TypeOK
  /\ \A j \in Jobs : JobInv(graph, job[j])
  /\ ReportsInv
  /\ ScriptInv

-----------------------------------------------------------------------------
(* What others write does not disturb it.                                  *)
Written == graph' \in Graphs /\ Grows(graph, graph')

(* An entity that is found is found in a larger graph.                     *)
LEMMA MatchesStays ==
  ASSUME NEW g, NEW h, Grows(g, h), NEW v, Matches(g, v)
  PROVE  Matches(h, v)
BY DEF Matches, Grows

(* The progress of a seeder.                                               *)
LEMMA ProgressStays ==
  ASSUME NEW g, NEW h, Grows(g, h), NEW todo, Progress(g, todo)
  PROVE  Progress(h, todo)
<1>1. PICK n \in 0..Len(Plan) :
        /\ Len(todo) = Len(Plan) - n
        /\ \A i \in 1..Len(todo) : todo[i] = Plan[n + i]
        /\ \A i \in 1..n : Holds(g, Plan[i])
  BY DEF Progress
<1>2. \A i \in 1..n : Plan[i] \in PlanQueries
  BY PlanFits, LenProperties, ElementOfSeq
<1>3. \A i \in 1..n : Holds(h, Plan[i])
  BY <1>1, <1>2, HoldsStays
<1>4. QED BY <1>1, <1>3 DEF Progress

(* The links of an event.                                                  *)
LEMMA LinkedStays ==
  ASSUME NEW g, NEW h, Grows(g, h), NEW e, e.id \in Events, NEW known
  PROVE  /\ LinkedTo(g, e, known) => LinkedTo(h, e, known)
         /\ \A step : PartlyLinked(g, e, known, step) => PartlyLinked(h, e, known, step)
<1>1. /\ g.severity[e.id] # NoEvent => h.severity[e.id] # NoEvent
      /\ g.impacts \subseteq h.impacts
  BY DEF Grows
<1>2. LinkedTo(g, e, known) => LinkedTo(h, e, known)
  BY <1>1 DEF LinkedTo
<1>3. \A step : PartlyLinked(g, e, known, step) => PartlyLinked(h, e, known, step)
  <2>1. ASSUME NEW step, PartlyLinked(g, e, known, step)
        PROVE  PartlyLinked(h, e, known, step)
    <3> DEFINE named == Entities(e)
    <3>1. /\ step \in 0..Len(named)
          /\ step > 0 =>
               /\ g.severity[e.id] # NoEvent
               /\ \A k \in 1..(step - 1) :
                    named[k] \in known => <<e.id, named[k]>> \in g.impacts
      BY <2>1 DEF PartlyLinked
    <3> HIDE DEF named
    <3>2. /\ step > 0 => h.severity[e.id] # NoEvent
          /\ step > 0 => \A k \in 1..(step - 1) :
               named[k] \in known => <<e.id, named[k]>> \in h.impacts
      BY <1>1, <3>1
    <3>3. QED BY <3>1, <3>2 DEF named, PartlyLinked
  <2>2. QED BY <2>1
<1>4. QED BY <1>2, <1>3

(* The kinds of requests and what they hold.                               *)
LEMMA Kinded ==
  ASSUME NEW s \in JobStates
  PROVE  \/ s.kind = "none" /\ s = New
         \/ s.kind = "edgar" /\ s \in EdgarStates
         \/ s.kind = "calibration" /\ s \in CalibrationStates
         \/ s.kind = "seed" /\ s \in SeedStates
         \/ s.kind = "news" /\ s \in NewsStates
         \/ s.kind = "trace" /\ s \in TraceStates
<1>1. New.kind = "none"
  BY DEF New
<1>2. s \in EdgarStates => s.kind = "edgar"
  <2>1. Refused.kind = "edgar"
    BY DEF Refused
  <2>2. s \in EdgarStates => s = Refused \/ s.kind = "edgar"
    BY DEF EdgarStates
  <2>3. QED BY <2>1, <2>2
<1>3. s \in CalibrationStates => s.kind = "calibration"
  BY DEF CalibrationStates
<1>4. s \in SeedStates => s.kind = "seed"
  BY DEF SeedStates
<1>5. s \in NewsStates => s.kind = "news"
  BY DEF NewsStates
<1>6. s \in TraceStates => s.kind = "trace"
  <2> DEFINE failed == [kind |-> "trace", stage |-> "ended", success |-> FALSE]
  <2>1. failed.kind = "trace"
    OBVIOUS
  <2> HIDE DEF failed
  <2>2. s \in TraceStates => s = failed \/ s.kind = "trace"
    BY DEF TraceStates, failed
  <2>3. QED BY <2>1, <2>2
<1>7. QED BY <1>1, <1>2, <1>3, <1>4, <1>5, <1>6 DEF JobStates

Ingestions ==
  [kind : {"news"}, stage : {"ingest", "ingested"}, anchor : Anchors,
   events : Seq(ParsedEvents), next : Nat, step : Nat,
   succeeded : SUBSET Nat, failed : SUBSET Nat,
   known : SUBSET Vids, hurt : BOOLEAN]

(* An ingestion, as a record.                                              *)
LEMMA IngestionState ==
  ASSUME NEW s \in JobStates, s.kind = "news", s.stage \in {"ingest", "ingested"}
  PROVE  s \in Ingestions
<1>1. s \in NewsStates
  BY Kinded
<1>2. QED BY <1>1 DEF NewsStates, Ingestions

(* What an ingestion has done.                                             *)
LEMMA IngestedStays ==
  ASSUME NEW g, NEW h, Grows(g, h), NEW s \in Ingestions, Ingested(g, s)
  PROVE  Ingested(h, s)
<1>1. \A i \in 1..Len(s.events) : s.events[i].id \in Events
  <2>1. s.events \in Seq(ParsedEvents)
    BY DEF Ingestions
  <2>2. \A i \in 1..Len(s.events) : s.events[i] \in ParsedEvents
    BY <2>1, ElementOfSeq
  <2>3. QED BY <2>2 DEF ParsedEvents
<1>2. /\ s.next \in 1..(Len(s.events) + 1) /\ s.succeeded \subseteq 1..(s.next - 1)
      /\ Len(s.events) \in Nat
  BY LenProperties DEF Ingested, Ingestions
<1>3. \A i \in s.succeeded : i \in 1..Len(s.events)
  BY <1>2
<1>4. \A v \in s.known : Matches(h, v)
  BY MatchesStays DEF Ingested
<1>5. \A i \in s.succeeded : LinkedTo(h, s.events[i], s.known)
  BY <1>1, <1>3, LinkedStays DEF Ingested
<1>6. ASSUME s.stage = "ingest"
      PROVE  s.next <= Len(s.events) /\ PartlyLinked(h, s.events[s.next], s.known, s.step)
  <2>1. s.next <= Len(s.events) /\ PartlyLinked(g, s.events[s.next], s.known, s.step)
    BY <1>6 DEF Ingested
  <2>2. s.next \in 1..Len(s.events)
    BY <1>2, <2>1
  <2>3. QED BY <1>1, <2>1, <2>2, LinkedStays
<1>7. QED BY <1>4, <1>5, <1>6 DEF Ingested

(* What a trace named: the later graphs have the edges.                    *)
LEMMA TraceInvStays ==
  ASSUME NEW g \in Graphs, NEW h \in Graphs, Grows(g, h), NEW s, TraceInv(g, s)
  PROVE  TraceInv(h, s)
<1> SUFFICES ASSUME s.kind = "trace", s.success, s.target \notin Tickers \cap Commodities
             PROVE  DOMAIN s.impacted \subseteq Downstream(h, s.target, s.hops)
  BY DEF TraceInv
<1>1. DOMAIN s.impacted \subseteq Downstream(g, s.target, s.hops)
  BY DEF TraceInv
<1>2. CASE s.target \in Commodities => s.target \in g.commodity
  <2>1. /\ g.commodity \subseteq Commodities /\ h.commodity \subseteq Commodities
        /\ g.commodity \subseteq h.commodity /\ g.requires \subseteq h.requires
        /\ StoredEdges(g) \subseteq StoredEdges(h)
    BY DEF Graphs, Grows
  <2>2. Downstream(g, s.target, s.hops) \subseteq Downstream(h, s.target, s.hops)
    BY <1>2, <2>1, MoreDownstream
  <2>3. QED BY <1>1, <2>2
<1>3. CASE s.target \in Commodities \ g.commodity
  <2>1. Downstream(g, s.target, s.hops) = {}
    BY <1>3 DEF Downstream
  <2>2. QED BY <1>1, <2>1
<1>4. QED BY <1>2, <1>3

(* All of what a request knows.                                            *)
LEMMA JobInvStays ==
  ASSUME NEW g \in Graphs, NEW h \in Graphs, Grows(g, h),
         NEW s \in JobStates, JobInv(g, s)
  PROVE  JobInv(h, s)
<1>1. StoredEdges(g) \subseteq StoredEdges(h)
  BY DEF Grows
<1>2. IngestInv(h, s)
  BY IngestionState, IngestedStays DEF JobInv, IngestInv
<1>3. SeederInv(h, s)
  BY ProgressStays DEF JobInv, SeederInv
<1>4. TraceInv(h, s)
  BY TraceInvStays DEF JobInv
<1>5. QED BY <1>1, <1>2, <1>3, <1>4 DEF JobInv

-----------------------------------------------------------------------------
(* A request goes on as s.                                                 *)
Apart(j, s) ==
  \A i \in Jobs \ {j} : /\ Added(s) \cap (Added(job[i]) \cup Missing(job[i])) = {}
                        /\ Added(job[i]) \cap Missing(s) = {}

Follows(j, s) ==
  /\ MayRun(j) /\ Becomes(j, s) /\ s \in JobStates
  /\ loop' = IF s.stage \in Blocking THEN j ELSE Nobody
  /\ JobInv(graph', s) /\ Apart(j, s) /\ Telling(s)

Advances(j) == \E s : Follows(j, s)

(* A request that advances keeps the invariant of all.                     *)
LEMMA AdvancesKeeps ==
  ASSUME IInv, Written, NEW j \in Jobs, Advances(j)
  PROVE  /\ job' \in [Jobs -> JobStates]
         /\ loop' \in Jobs \cup {Nobody}
         /\ \A i \in Jobs : loop' = i <=> job'[i].stage \in Blocking
         /\ \A i \in Jobs : JobInv(graph', job'[i])
         /\ ReportsInv'
         /\ \A i \in Jobs : job[i] = New => Telling(job'[i])
<1>1. PICK s : Follows(j, s)
  BY DEF Advances
<1>2. /\ s \in JobStates /\ JobInv(graph', s) /\ Apart(j, s) /\ loop \in {Nobody, j}
      /\ loop' = (IF s.stage \in Blocking THEN j ELSE Nobody)
  BY <1>1 DEF Follows, MayRun
<1>3. job \in [Jobs -> JobStates] /\ Nobody \notin Jobs
  BY JobsAssumption DEF IInv, TypeOK
<1>4. job' \in [Jobs -> JobStates] /\ \A i \in Jobs : job'[i] = IF i = j THEN s ELSE job[i]
  BY <1>1, <1>2, <1>3 DEF Follows, Becomes
<1>5. \A i \in Jobs : loop = i <=> job[i].stage \in Blocking
  BY DEF IInv, TypeOK
<1>6. loop' \in Jobs \cup {Nobody}
  BY <1>2
<1>7. \A i \in Jobs : loop' = i <=> job'[i].stage \in Blocking
  <2>1. ASSUME NEW i \in Jobs
        PROVE  loop' = i <=> job'[i].stage \in Blocking
    <3>1. CASE i = j
      BY <1>2, <1>3, <1>4, <3>1
    <3>2. CASE i # j
      <4>1. job'[i] = job[i] /\ loop # i /\ loop' # i
        BY <1>2, <1>3, <1>4, <3>2
      <4>2. QED BY <1>5, <4>1
    <3>3. QED BY <3>1, <3>2
  <2>2. QED BY <2>1
<1>8. \A i \in Jobs : JobInv(graph', job'[i])
  <2>1. \A i \in Jobs : JobInv(graph', job[i])
    BY <1>3, JobInvStays DEF IInv, TypeOK, Written
  <2>2. QED BY <1>2, <1>4, <2>1
<1>9. ReportsInv'
  <2>1. ASSUME NEW i \in Jobs, NEW k \in Jobs, i # k
        PROVE  Added(job'[i]) \cap (Added(job'[k]) \cup Missing(job'[k])) = {}
    <3>1. CASE i = j
      <4>1. job'[i] = s /\ job'[k] = job[k] /\ k \in Jobs \ {j}
        BY <1>4, <2>1, <3>1
      <4>2. QED BY <1>2, <4>1 DEF Apart
    <3>2. CASE k = j
      <4>1. job'[k] = s /\ job'[i] = job[i] /\ i \in Jobs \ {j}
        BY <1>4, <2>1, <3>2
      <4>2. Added(s) \cap Added(job[i]) = {} /\ Added(job[i]) \cap Missing(s) = {}
        BY <1>2, <4>1 DEF Apart
      <4>3. QED BY <4>1, <4>2
    <3>3. CASE i # j /\ k # j
      <4>1. job'[k] = job[k] /\ job'[i] = job[i]
        BY <1>4, <3>3
      <4>2. Added(job[i]) \cap (Added(job[k]) \cup Missing(job[k])) = {}
        BY <2>1 DEF IInv, ReportsInv
      <4>3. QED BY <4>1, <4>2
    <3>4. QED BY <3>1, <3>2, <3>3
  <2>2. QED BY <2>1 DEF ReportsInv
<1>10. \A i \in Jobs : job[i] = New => Telling(job'[i])
  <2>1. Telling(s)
    BY <1>1 DEF Follows
  <2>2. New.kind # "trace"
    BY DEF New
  <2>3. QED BY <1>4, <2>1, <2>2 DEF Telling
<1>11. QED BY <1>4, <1>6, <1>7, <1>8, <1>9, <1>10

(* Only refreshes report edges.                                            *)
LEMMA OthersApart ==
  ASSUME NEW j, NEW s, s.kind # "edgar"
  PROVE  Apart(j, s) /\ Added(s) = {}
BY DEF Apart, Added, Missing

(* Who stands between blocking queries has the event loop.                 *)
LEMMA Holding ==
  ASSUME IInv, NEW j \in Jobs, job[j].stage \in Blocking
  PROVE  MayRun(j) /\ loop = j /\ \A i \in Jobs \ {j} : job[i].stage \notin Blocking
BY DEF IInv, TypeOK, MayRun

(* Who runs without being there finds it free.                             *)
LEMMA Idle ==
  ASSUME IInv, NEW j \in Jobs, job[j].stage \notin Blocking, MayRun(j)
  PROVE  loop = Nobody
BY DEF IInv, TypeOK, MayRun

-----------------------------------------------------------------------------
(* EDGAR refreshes.                                                        *)

(* The refreshes.                                                          *)
Waiting ==
  [kind : {"edgar"}, stage : {"cik", "filing", "extract"}, ticker : Filers]
Working ==
  [kind : {"edgar"}, stage : {"vertex", "check", "merge"}, ticker : Filers,
   todo : Seq(Items) \ {<<>>}, isNew : BOOLEAN,
   added : SUBSET Pairs, phantom : SUBSET Pairs]

StatedTyped == stated \subseteq (Tickers \cup Names) \X (Tickers \cup Names)
CikTyped == cik \in [Tickers -> {"unread", "registered", "foreign"}]

(* The stages of a refresh, as records.                                    *)
LEMMA EdgarStage ==
  ASSUME NEW s \in JobStates, s.kind = "edgar"
  PROVE  /\ s.stage \in {"cik", "filing", "extract"} => s \in Waiting
         /\ s.stage \in {"vertex", "check", "merge"} => s \in Working
<1>1. s \in EdgarStates
  BY Kinded
<1>2. Refused.stage = "ended"
  BY DEF Refused
<1>3. QED BY <1>1, <1>2 DEF EdgarStates, Waiting, Working

(* All a refresh knows is that what it reports is stored.                  *)
LEMMA EdgarJobInv ==
  ASSUME NEW g, NEW s, s.kind = "edgar"
  PROVE  /\ JobInv(g, s) <=> Added(s) \subseteq StoredEdges(g)
         /\ Telling(s)
BY DEF JobInv, NewsInv, IngestInv, SeederInv, TraceInv, Telling

(* A step that writes nothing.                                             *)
LEMMA NothingWritten ==
  ASSUME IInv, UNCHANGED graph
  PROVE  Written
BY GrowsSelf DEF IInv, TypeOK, Written

(* A refresh that waits or is refused.                                     *)
LEMMA QuietFollows ==
  ASSUME IInv, NEW j \in Jobs, NEW s, s \in Waiting \cup {Refused, Refreshed({}, {})},
         MayRun(j), job[j].stage \notin Blocking, UNCHANGED loop, Becomes(j, s)
  PROVE  Advances(j)
<1>1. s \in EdgarStates
  <2>1. Refreshed({}, {}) \in EdgarStates
    BY DEF EdgarStates, Refreshed
  <2>2. QED BY <2>1 DEF EdgarStates, Waiting
<1>2. s \in JobStates
  BY <1>1 DEF JobStates
<1>3. s.kind = "edgar" /\ s.stage \notin Blocking /\ Added(s) = {} /\ Missing(s) = {}
  <2>1. CASE s \in Waiting
    BY <2>1 DEF Waiting, Blocking, Added, Missing
  <2>2. CASE s = Refused
    BY <2>2 DEF Refused, Blocking, Added, Missing
  <2>3. CASE s = Refreshed({}, {})
    BY <2>3 DEF Refreshed, Blocking, Added, Missing
  <2>4. QED BY <2>1, <2>2, <2>3
<1>4. loop' = Nobody
  BY Idle
<1>5. JobInv(graph', s) /\ Apart(j, s) /\ Telling(s)
  BY <1>3, EdgarJobInv DEF Apart
<1>6. QED BY <1>2, <1>3, <1>4, <1>5 DEF Advances, Follows

(* A refresh that writes: reported as added is what is stored and nobody   *)
(* else reports or is about to.                                            *)
LEMMA WorkingFollows ==
  ASSUME IInv, NEW j \in Jobs, NEW s \in Working, MayRun(j), loop' = j, Becomes(j, s),
         s.added \subseteq StoredEdges(graph'),
         \A i \in Jobs \ {j} : /\ s.added \cap (Added(job[i]) \cup Missing(job[i])) = {}
                               /\ Added(job[i]) \cap Missing(s) = {}
  PROVE  Advances(j)
<1>1. s \in JobStates
  BY DEF JobStates, EdgarStates, Working
<1>2. s.kind = "edgar" /\ s.stage \in Blocking /\ Added(s) = s.added
  BY DEF Working, Blocking, Added
<1>3. JobInv(graph', s) /\ Apart(j, s) /\ Telling(s)
  BY <1>2, EdgarJobInv DEF Apart
<1>4. QED BY <1>1, <1>2, <1>3 DEF Advances, Follows

(* After an item, the next or the end.                                     *)
LEMMA OnwardFollows ==
  ASSUME IInv, NEW j \in Jobs, job[j] \in Working,
         NEW added, NEW phantom \in SUBSET Pairs, Onward(j, added, phantom),
         added \subseteq StoredEdges(graph'),
         \A i \in Jobs \ {j} : added \cap (Added(job[i]) \cup Missing(job[i])) = {}
  PROVE  Advances(j)
<1> DEFINE rest == Tail(job[j].todo)
           s == [job[j] EXCEPT !.todo = rest, !.stage = "vertex",
                   !.isNew = FALSE, !.added = added, !.phantom = phantom]
           r == Refreshed(added, phantom)
<1>1. /\ job[j].todo \in Seq(Items) /\ job[j].todo # <<>>
      /\ job[j].stage \in {"vertex", "check", "merge"}
  BY DEF Working
<1>2. MayRun(j) /\ loop = j
  BY <1>1, Holding DEF Blocking
<1>3. rest \in Seq(Items)
  BY <1>1, HeadTailProperties
<1>4. added \in SUBSET Pairs
  BY DEF StoredEdges
<1>5. CASE rest = <<>>
  <2>1. Becomes(j, r) /\ loop' = Nobody
    BY <1>5 DEF Onward, Release
  <2>2. r.kind = "edgar" /\ r.stage = "ended" /\ Added(r) = added /\ Missing(r) = {}
    BY DEF Refreshed, Added, Missing
  <2>3. r \in JobStates
    BY <1>4 DEF JobStates, EdgarStates, Refreshed
  <2> HIDE DEF r
  <2>4. JobInv(graph', r) /\ Apart(j, r) /\ Telling(r) /\ r.stage \notin Blocking
    BY <2>2, EdgarJobInv DEF Apart, Blocking
  <2>5. QED BY <1>2, <2>1, <2>3, <2>4 DEF Advances, Follows
<1>6. CASE rest # <<>>
  <2>1. Becomes(j, s) /\ UNCHANGED loop
    BY <1>6 DEF Onward
  <2>2. s \in Working
    <3> HIDE DEF rest
    <3>1. QED BY <1>3, <1>4, <1>6 DEF Working
  <2>3. s.added = added /\ s.stage = "vertex"
    BY DEF Working
  <2> HIDE DEF s
  <2>4. Missing(s) = {}
    BY <2>3 DEF Missing
  <2>5. QED BY <1>2, <2>1, <2>2, <2>3, <2>4, WorkingFollows
<1>7. QED BY <1>5, <1>6

(* The filings are of companies that the graph may hold.                   *)
LEMMA FilerTicker ==
  ASSUME NEW t \in Filers, NEW items \in Extractions[t]
  PROVE  t \in Tickers /\ Kept(t, items) \in Seq(Items)
<1>1. t \in Tickers /\ items \in Seq(Items)
  BY FilersAssumption
<1>2. QED BY <1>1, ThoseMembers DEF Kept

(* A refresh is asked for.                                                 *)
LEMMA RefreshFits ==
  ASSUME IInv, NEW j \in Jobs, Refresh(j)
  PROVE  Written /\ Advances(j) /\ StatedTyped' /\ CikTyped'
<1>1. Written
  BY NothingWritten DEF Refresh
<1>2. StatedTyped' /\ CikTyped'
  BY DEF Refresh, IInv, TypeOK, StatedTyped, CikTyped
<1>3. job[j].stage \notin Blocking /\ MayRun(j) /\ UNCHANGED loop
  BY DEF Refresh, New, Blocking
<1>4. PICK s \in Waiting \cup {Refused} : Becomes(j, s)
  <2>1. \A t \in Filers : Refreshing("cik", t) \in Waiting /\ Refreshing("filing", t) \in Waiting
    BY DEF Refreshing, Waiting
  <2>2. QED BY <2>1 DEF Refresh
<1>5. Advances(j)
  BY <1>3, <1>4, QuietFollows
<1>6. QED BY <1>1, <1>2, <1>5

(* The ends of an extracted edge.                                          *)
LEMMA DirectedTyped ==
  ASSUME NEW j, job[j] \in Working
  PROVE  /\ job[j].ticker \in Tickers /\ Rel(j) \in Items
         /\ Src(j) \in Tickers /\ Dst(j) \in Tickers
         /\ Directed(job[j].ticker, Rel(j)) = <<Src(j), Dst(j)>>
         /\ Stated(job[j].ticker, Rel(j)) \in (Tickers \cup Names) \X (Tickers \cup Names)
<1>1. job[j].ticker \in Tickers
  BY FilersAssumption DEF Working
<1>2. Rel(j) \in Items
  BY HeadTailProperties DEF Working, Rel
<1>3. Rel(j).ticker \in Tickers /\ Rel(j).name \in Names
  BY <1>2 DEF Items
<1>4. QED BY <1>1, <1>2, <1>3 DEF Src, Dst, Directed, Stated, Entity

(* A refresh goes on. Its look and its write are not separated by another  *)
(* refresh: while an edge is found missing the loop is held, so no other   *)
(* one reports it.                                                         *)
LEMMA EdgarFits ==
  ASSUME IInv, NEW j \in Jobs, EdgarStep(j)
  PROVE  Written /\ Advances(j) /\ StatedTyped' /\ CikTyped'
<1>1. job[j] \in JobStates /\ graph \in Graphs /\ StatedTyped /\ CikTyped
  BY DEF IInv, TypeOK, StatedTyped, CikTyped
<1>2. \A stage \in {"cik", "filing", "extract"} :
        At(j, "edgar", stage) => job[j] \in Waiting /\ job[j].stage \notin Blocking
  BY <1>1, EdgarStage DEF At, Blocking
<1>3. \A stage \in {"vertex", "check", "merge"} :
        At(j, "edgar", stage) => job[j] \in Working /\ job[j].stage \in Blocking
  BY <1>1, EdgarStage DEF At, Blocking
<1>4. \A i \in Jobs : Added(job[i]) \subseteq StoredEdges(graph)
  BY DEF IInv, JobInv
<1>5. \A i \in Jobs \ {j} : Added(job[j]) \cap (Added(job[i]) \cup Missing(job[i])) = {}
  BY DEF IInv, ReportsInv
<1>6. job[j] \in Working => Added(job[j]) = job[j].added
  BY DEF Working, Added
<1>7. \A t \in Filers, stage \in {"cik", "filing", "extract"} : Refreshing(stage, t) \in Waiting
  BY DEF Refreshing, Waiting
<1>8. CASE TickersArrive(j)
  <2>1. job[j] \in Waiting /\ job[j].stage \notin Blocking /\ MayRun(j)
    BY <1>2, <1>8 DEF TickersArrive
  <2>2. job[j].ticker \in Filers /\ job[j].ticker \in Tickers
    BY <2>1, FilersAssumption DEF Waiting
  <2>3. Becomes(j, Refreshing("filing", job[j].ticker)) \/ Becomes(j, Refused)
    BY <1>8 DEF TickersArrive
  <2>4. Advances(j)
    BY <1>7, <1>8, <2>1, <2>2, <2>3, QuietFollows DEF TickersArrive
  <2>5. CikTyped'
    <3>1. \E c \in {"registered", "foreign"} : cik' = [cik EXCEPT ![job[j].ticker] = c]
      BY <1>8 DEF TickersArrive
    <3>2. QED BY <1>1, <2>2, <3>1 DEF CikTyped
  <2>6. QED BY <1>1, <1>8, <2>4, <2>5, NothingWritten DEF TickersArrive, StatedTyped
<1>9. CASE DownloadFails(j)
  <2>1. job[j].stage \notin Blocking
    BY <1>2, <1>9 DEF DownloadFails
  <2>2. Advances(j)
    BY <1>9, <2>1, QuietFollows DEF DownloadFails
  <2>3. QED BY <1>1, <1>9, <2>2, NothingWritten DEF DownloadFails, StatedTyped, CikTyped
<1>10. CASE FilingArrives(j)
  <2>1. job[j].stage \notin Blocking /\ job[j].ticker \in Filers
    BY <1>2, <1>10 DEF FilingArrives, Waiting
  <2>2. Advances(j)
    BY <1>7, <1>10, <2>1, QuietFollows DEF FilingArrives
  <2>3. QED BY <1>1, <1>10, <2>2, NothingWritten DEF FilingArrives, StatedTyped, CikTyped
<1>11. CASE Extract(j)
  <2>1. job[j].stage \notin Blocking /\ job[j].ticker \in Filers /\ MayRun(j)
    BY <1>2, <1>11 DEF Extract, Waiting
  <2>2. PICK items \in Extractions[job[j].ticker] :
          LET kept == Kept(job[j].ticker, items)
          IN IF kept = <<>>
             THEN Becomes(j, Refreshed({}, {})) /\ UNCHANGED loop
             ELSE \/ /\ Becomes(j, [kind |-> "edgar", stage |-> "vertex",
                                    ticker |-> job[j].ticker, todo |-> kept,
                                    isNew |-> FALSE, added |-> {}, phantom |-> {}])
                     /\ Hold(j)
                  \/ Becomes(j, Refused) /\ UNCHANGED loop
    BY <1>11 DEF Extract
  <2> DEFINE kept == Kept(job[j].ticker, items)
             s == [kind |-> "edgar", stage |-> "vertex", ticker |-> job[j].ticker,
                   todo |-> kept, isNew |-> FALSE, added |-> {}, phantom |-> {}]
  <2>3. kept \in Seq(Items)
    BY <2>1, FilerTicker
  <2> HIDE DEF kept
  <2>4. kept # <<>> => s \in Working
    BY <2>1, <2>3 DEF Working
  <2>5. s.added = {} /\ Missing(s) = {}
    BY DEF Missing
  <2>6. \/ Becomes(j, Refreshed({}, {})) /\ UNCHANGED loop
        \/ Becomes(j, Refused) /\ UNCHANGED loop
        \/ kept # <<>> /\ Becomes(j, s) /\ loop' = j
    BY <2>2 DEF kept, Hold
  <2> HIDE DEF s
  <2>7. Advances(j)
    <3>1. CASE kept # <<>> /\ Becomes(j, s) /\ loop' = j
      BY <2>1, <2>4, <2>5, <3>1, WorkingFollows
    <3>2. QED BY <2>1, <2>6, <3>1, QuietFollows
  <2>8. QED BY <1>1, <1>11, <2>7, NothingWritten DEF Extract, StatedTyped, CikTyped
<1>12. CASE MergeEntity(j)
  <2> DEFINE s == [job[j] EXCEPT !.stage = "check"]
  <2>1. job[j] \in Working /\ job[j].stage \in Blocking
    BY <1>3, <1>12 DEF MergeEntity
  <2>2. Rel(j) \in Items
    BY <2>1, DirectedTyped
  <2>3. Rel(j).ticker \in Tickers /\ Rel(j).name \in Names
    BY <2>2 DEF Items
  <2>4. Written
    BY <1>1, <1>12, <2>3, CompanyGrows DEF MergeEntity, Written
  <2>5. s \in Working /\ s.added = job[j].added /\ s.stage = "check"
    BY <2>1 DEF Working
  <2>6. Becomes(j, s) /\ MayRun(j) /\ loop' = j
    BY <1>12, <2>1, Holding DEF MergeEntity
  <2> HIDE DEF s
  <2>7. Missing(s) = {}
    BY <2>5 DEF Missing
  <2>8. job[j].added \subseteq StoredEdges(graph')
    BY <1>4, <1>6, <2>1, <2>4 DEF Written, Grows
  <2>9. Advances(j)
    BY <1>5, <1>6, <2>1, <2>5, <2>6, <2>7, <2>8, WorkingFollows
  <2>10. QED BY <1>1, <1>12, <2>4, <2>9 DEF MergeEntity, StatedTyped, CikTyped
<1>13. CASE CheckEdge(j)
  <2> DEFINE s == [job[j] EXCEPT !.stage = "merge",
                                 !.isNew = ~ Linked(graph, Src(j), Dst(j))]
  <2>1. job[j] \in Working /\ job[j].stage \in Blocking
    BY <1>3, <1>13 DEF CheckEdge
  <2>2. /\ s \in Working /\ s.added = job[j].added
        /\ s.ticker = job[j].ticker /\ s.todo = job[j].todo
        /\ s.isNew = ~ Linked(graph, Src(j), Dst(j))
    BY <2>1 DEF Working
  <2>3. Becomes(j, s) /\ MayRun(j) /\ loop' = j /\ UNCHANGED graph
    BY <1>13, <2>1, Holding DEF CheckEdge
  <2> HIDE DEF s
  <2>4. ASSUME NEW p \in Missing(s)
        PROVE  p \notin StoredEdges(graph)
    <3>1. s.isNew /\ p = Directed(job[j].ticker, Rel(j))
      BY <2>2 DEF Missing, Rel
    <3>2. p = <<Src(j), Dst(j)>>
      BY <2>1, <3>1, DirectedTyped
    <3>3. ~ Linked(graph, Src(j), Dst(j))
      BY <2>2, <3>1
    <3>4. QED BY <3>2, <3>3 DEF Linked, StoredEdges
  <2>5. Advances(j)
    <3>1. s.added \subseteq StoredEdges(graph')
      BY <1>4, <1>6, <2>1, <2>2, <2>3
    <3>2. \A i \in Jobs \ {j} : Added(job[i]) \cap Missing(s) = {}
      BY <1>4, <2>4
    <3>3. QED BY <1>5, <1>6, <2>1, <2>2, <2>3, <3>1, <3>2, WorkingFollows
  <2>6. QED BY <1>1, <1>13, <2>5, NothingWritten DEF CheckEdge, StatedTyped, CikTyped
<1>14. CASE MergeEdge(j)
  <2> DEFINE counted == IF job[j].isNew THEN {<<Src(j), Dst(j)>>} ELSE {}
             added == job[j].added \cup (counted \cap StoredEdges(graph'))
             phantom == job[j].phantom \cup (counted \ StoredEdges(graph'))
  <2>1. job[j] \in Working /\ job[j].stage \in Blocking
    BY <1>3, <1>14 DEF MergeEdge
  <2>2. Src(j) \in Tickers /\ Dst(j) \in Tickers
    BY <2>1, DirectedTyped
  <2>3. Written
    BY <1>1, <1>14, <2>2, FiledGrows DEF MergeEdge, Written
  <2>4. StatedTyped' /\ CikTyped'
    <3>1. Stated(job[j].ticker, Rel(j)) \in (Tickers \cup Names) \X (Tickers \cup Names)
      BY <2>1, DirectedTyped
    <3>2. QED BY <1>1, <1>14, <3>1 DEF MergeEdge, StatedTyped, CikTyped
  <2>5. counted = Missing(job[j])
    <3>1. Directed(job[j].ticker, Head(job[j].todo)) = <<Src(j), Dst(j)>>
      BY <2>1, DirectedTyped DEF Rel
    <3>2. QED BY <1>14, <3>1 DEF MergeEdge, At, Missing
  <2>6. \A i \in Jobs \ {j} : Added(job[i]) \cap counted = {} /\ Missing(job[i]) = {}
    <3>1. \A i \in Jobs \ {j} : Added(job[i]) \cap Missing(job[j]) = {}
      BY DEF IInv, ReportsInv
    <3>2. \A i \in Jobs \ {j} : job[i].stage \notin Blocking
      BY <2>1, Holding
    <3>3. \A i \in Jobs \ {j} : Missing(job[i]) = {}
      BY <3>2 DEF Blocking, Missing
    <3> HIDE DEF counted
    <3>4. QED BY <2>5, <3>1, <3>3
  <2>7. phantom \in SUBSET Pairs
    BY <2>1, <2>2 DEF Working, Pairs
  <2>8. Onward(j, added, phantom)
    BY <1>14 DEF MergeEdge
  <2> HIDE DEF counted
  <2>9. added \subseteq StoredEdges(graph')
    BY <1>4, <1>6, <2>1, <2>3 DEF Written, Grows
  <2>10. \A i \in Jobs \ {j} : added \cap (Added(job[i]) \cup Missing(job[i])) = {}
    BY <1>5, <1>6, <2>1, <2>6
  <2> HIDE DEF added, phantom
  <2>11. Advances(j)
    BY <2>1, <2>7, <2>8, <2>9, <2>10, OnwardFollows
  <2>12. QED BY <2>3, <2>4, <2>11
<1>15. CASE QueryFails(j)
  <2>1. job[j] \in Working /\ Onward(j, job[j].added, job[j].phantom) /\ UNCHANGED graph
    BY <1>3, <1>15 DEF QueryFails
  <2>2. job[j].phantom \in SUBSET Pairs
    BY <2>1 DEF Working
  <2>3. job[j].added \subseteq StoredEdges(graph')
    BY <1>4, <1>6, <2>1
  <2>4. Advances(j)
    BY <1>5, <1>6, <2>1, <2>2, <2>3, OnwardFollows
  <2>5. QED BY <1>1, <1>15, <2>4, NothingWritten DEF QueryFails, StatedTyped, CikTyped
<1>16. QED BY <1>8, <1>9, <1>10, <1>11, <1>12, <1>13, <1>14, <1>15 DEF EdgarStep

-----------------------------------------------------------------------------
(* Calibrations and traces.                                                *)

(* A request that is no refresh, with what it knows still true.            *)
LEMMA OtherFollows ==
  ASSUME IInv, NEW j \in Jobs, NEW s \in JobStates, s.kind # "edgar",
         MayRun(j), Becomes(j, s),
         loop' = IF s.stage \in Blocking THEN j ELSE Nobody,
         NewsInv(s), IngestInv(graph', s), SeederInv(graph', s),
         s.kind = "trace" => TraceInv(graph', s) /\ Telling(s)
  PROVE  Advances(j)
<1>1. Apart(j, s) /\ Added(s) = {}
  BY OthersApart
<1>2. TraceInv(graph', s) /\ Telling(s)
  BY DEF TraceInv, Telling
<1>3. JobInv(graph', s)
  BY <1>1, <1>2 DEF JobInv
<1>4. QED BY <1>1, <1>2, <1>3 DEF Advances, Follows

(* A request not yet made is in nobody's way.                              *)
LEMMA NewJob ==
  ASSUME IInv, NEW j \in Jobs, job[j] = New, MayRun(j)
  PROVE  loop = Nobody /\ job[j].stage \notin Blocking
<1>1. job[j].stage \notin Blocking
  BY DEF New, Blocking
<1>2. QED BY <1>1, Idle

-----------------------------------------------------------------------------
(* The calibrations.                                                       *)
LEMMA CalibrationFollows ==
  ASSUME IInv, NEW j \in Jobs, NEW s \in CalibrationStates, MayRun(j), Becomes(j, s),
         loop' = IF s.stage = "write" THEN j ELSE Nobody
  PROVE  Advances(j)
<1>1. s \in JobStates
  BY DEF JobStates
<1>2. s.kind = "calibration" /\ (s.stage \in Blocking <=> s.stage = "write")
  BY DEF CalibrationStates, Blocking
<1>3. NewsInv(s) /\ IngestInv(graph', s) /\ SeederInv(graph', s)
  BY <1>2 DEF NewsInv, IngestInv, SeederInv
<1>4. s.kind \notin {"edgar", "trace"}
  BY <1>2
<1>5. loop' = IF s.stage \in Blocking THEN j ELSE Nobody
  BY <1>2
<1>6. QED BY <1>1, <1>3, <1>4, <1>5, OtherFollows

Fitting ==
  [kind : {"calibration"}, stage : {"prices", "write"}, edges : SUBSET Pairs,
   tickers : SUBSET Tickers, prices : SUBSET Tickers, updated : SUBSET Pairs]

(* The stages of a calibration.                                            *)
LEMMA CalibrationStage ==
  ASSUME NEW s \in JobStates, s.kind = "calibration", s.stage \in {"prices", "write"}
  PROVE  s \in Fitting
<1>1. s \in CalibrationStates
  BY Kinded
<1>2. QED BY <1>1 DEF CalibrationStates, Fitting

(* And its end.                                                            *)
LEMMA CalibratedState ==
  ASSUME NEW updated \in SUBSET Pairs
  PROVE  Calibrated(updated) \in CalibrationStates /\ Calibrated(updated).stage = "ended"
BY DEF Calibrated, CalibrationStates

(* A calibration is asked for.                                             *)
LEMMA CalibrateFits ==
  ASSUME IInv, NEW j \in Jobs, Calibrate(j) \/ ReadFails(j)
  PROVE  Written /\ Advances(j) /\ StatedTyped'
<1>1. MayRun(j) /\ UNCHANGED <<graph, stated, loop>> /\ job[j] = New
  BY DEF Calibrate, ReadFails
<1>2. loop' = Nobody
  BY <1>1, NewJob
<1>3. Written /\ StatedTyped'
  BY <1>1, NothingWritten DEF IInv, TypeOK, StatedTyped
<1>4. Calibrated({}) \in CalibrationStates /\ Calibrated({}).stage = "ended"
  BY CalibratedState
<1>5. CASE Becomes(j, Calibrated({}))
  BY <1>1, <1>2, <1>3, <1>4, <1>5, CalibrationFollows
<1>6. CASE ~ Becomes(j, Calibrated({}))
  <2> DEFINE edges == StoredEdges(graph)
             s == Calibrating("prices", edges, Ends(edges), {})
  <2>1. Becomes(j, s)
    BY <1>6 DEF Calibrate, ReadFails
  <2>2. edges \subseteq Pairs
    BY DEF StoredEdges
  <2>3. Ends(edges) \subseteq Tickers
    BY <2>2 DEF Ends, Pairs
  <2>4. s \in CalibrationStates /\ s.stage = "prices"
    BY <2>2, <2>3 DEF Calibrating, CalibrationStates
  <2> HIDE DEF s
  <2>5. QED BY <1>1, <1>2, <1>3, <2>1, <2>4, CalibrationFollows
<1>7. QED BY <1>5, <1>6

(* After an edge, the next or the end.                                     *)
LEMMA NextEdgeFollows ==
  ASSUME IInv, NEW j \in Jobs, At(j, "calibration", "write"), job[j] \in Fitting,
         NEW e \in job[j].edges, NEW updated \in SUBSET Pairs, NextEdge(j, e, updated)
  PROVE  Advances(j)
<1> DEFINE left == job[j].edges \ {e}
           s == [job[j] EXCEPT !.edges = left, !.updated = updated]
<1>1. MayRun(j) /\ loop = j
  BY Holding DEF At, Blocking
<1>2. CASE left = {}
  <2>1. Becomes(j, Calibrated(updated)) /\ loop' = Nobody
    BY <1>2 DEF NextEdge, Release
  <2>2. QED BY <1>1, <2>1, CalibratedState, CalibrationFollows
<1>3. CASE left # {}
  <2>1. Becomes(j, s) /\ loop' = j
    BY <1>1, <1>3 DEF NextEdge
  <2>2. s \in CalibrationStates /\ s.stage = "write"
    BY DEF Fitting, CalibrationStates, At
  <2> HIDE DEF s
  <2>3. QED BY <1>1, <2>1, <2>2, CalibrationFollows
<1>4. QED BY <1>2, <1>3

(* A calibration goes on: while prices are awaited others write, and its   *)
(* edge is still there.                                                    *)
LEMMA CalibrationFits ==
  ASSUME IInv, NEW j \in Jobs, CalibrationStep(j)
  PROVE  Written /\ Advances(j) /\ StatedTyped'
<1>1. job[j] \in JobStates /\ graph \in Graphs /\ StatedTyped
  BY DEF IInv, TypeOK, StatedTyped
<1>2. \A stage \in {"prices", "write"} : At(j, "calibration", stage) => job[j] \in Fitting
  BY <1>1, CalibrationStage DEF At
<1>3. CASE PricesArrive(j)
  <2> DEFINE t == CHOOSE u \in job[j].tickers : TRUE
             rest == job[j].tickers \ {t}
             stage == IF rest = {} THEN "write" ELSE "prices"
             s(found) == Calibrating(stage, job[j].edges, rest, job[j].prices \cup found)
  <2>1. job[j] \in Fitting /\ MayRun(j) /\ UNCHANGED <<graph, stated>>
    BY <1>2, <1>3 DEF PricesArrive
  <2>2. loop = Nobody
    BY <1>3, Idle DEF PricesArrive, At, Blocking
  <2>3. PICK found \in {{}} \cup {{u} : u \in Priced} : Becomes(j, s(found))
    BY <1>3 DEF PricesArrive
  <2>4. loop' = IF stage = "write" THEN j ELSE Nobody
    BY <1>3, <2>2 DEF PricesArrive, Hold
  <2> HIDE DEF t
  <2>5. rest \in SUBSET Tickers /\ stage \in {"write", "prices"}
    BY <2>1 DEF Fitting
  <2>6. job[j].prices \cup found \in SUBSET Tickers /\ job[j].edges \in SUBSET Pairs
    BY <2>1, PricedAssumption DEF Fitting
  <2> HIDE DEF rest, stage
  <2>7. s(found) \in CalibrationStates /\ s(found).stage = stage
    BY <2>5, <2>6 DEF Calibrating, CalibrationStates
  <2> HIDE DEF s
  <2>8. Advances(j)
    BY <2>1, <2>3, <2>4, <2>7, CalibrationFollows
  <2>9. QED BY <1>1, <2>1, <2>8, NothingWritten DEF StatedTyped
<1>4. CASE Write(j)
  <2>1. At(j, "calibration", "write") /\ job[j] \in Fitting /\ UNCHANGED stated
    BY <1>2, <1>4 DEF Write
  <2>2. PICK e \in job[j].edges : /\ graph' = UpdateEdgeCausal(graph, e[1], e[2], j)
                                  /\ NextEdge(j, e, job[j].updated \cup {e})
    BY <1>4 DEF Write
  <2>3. e \in Pairs /\ job[j].updated \cup {e} \in SUBSET Pairs
    BY <2>1 DEF Fitting
  <2>4. e[1] \in Tickers /\ e[2] \in Tickers /\ j \in Runs
    BY <2>3, JobsAssumption DEF Pairs
  <2>5. Written
    BY <1>1, <2>2, <2>4, CausalGrows DEF Written
  <2>6. Advances(j)
    BY <2>1, <2>2, <2>3, NextEdgeFollows
  <2>7. QED BY <1>1, <2>1, <2>5, <2>6 DEF StatedTyped
<1>5. CASE Skip(j)
  <2>1. At(j, "calibration", "write") /\ job[j] \in Fitting /\ UNCHANGED <<graph, stated>>
    BY <1>2, <1>5 DEF Skip
  <2>2. \E e \in job[j].edges : NextEdge(j, e, job[j].updated)
    BY <1>5 DEF Skip
  <2>3. job[j].updated \in SUBSET Pairs
    BY <2>1 DEF Fitting
  <2>4. Advances(j)
    BY <2>1, <2>2, <2>3, NextEdgeFollows
  <2>5. QED BY <1>1, <2>1, <2>4, NothingWritten DEF StatedTyped
<1>6. QED BY <1>3, <1>4, <1>5 DEF CalibrationStep

-----------------------------------------------------------------------------
(* trace_impact.                                                           *)
LEMMA TraceFits ==
  ASSUME IInv, NEW j \in Jobs, TraceImpact(j)
  PROVE  Written /\ Advances(j) /\ StatedTyped'
<1>1. MayRun(j) /\ UNCHANGED <<graph, stated, loop>> /\ job[j] = New
  BY DEF TraceImpact
<1>2. loop' = Nobody
  BY <1>1, NewJob
<1>3. Written /\ StatedTyped' /\ graph \in Graphs
  BY <1>1, NothingWritten DEF IInv, TypeOK, StatedTyped
<1> DEFINE failed == [kind |-> "trace", stage |-> "ended", success |-> FALSE]
           answer(v, hops, found) ==
             [kind |-> "trace", stage |-> "ended", success |-> TRUE,
              target |-> v, hops |-> hops, impacted |-> found]
<1>4. PICK s \in TraceStates : Becomes(j, s) /\ Telling(s)
  <2>1. failed \in TraceStates /\ Telling(failed)
    BY DEF TraceStates, Telling
  <2>2. ASSUME NEW v \in TraceTargets, NEW hops \in HopLimits,
               NEW found \in Traces(graph, v, hops)
        PROVE  answer(v, hops, found) \in TraceStates /\ Telling(answer(v, hops, found))
    <3>1. hops \in Nat
      BY HopLimitsAssumption
    <3>2. found \in UNION {[S -> Runs \cup {Absent}] : S \in SUBSET Tickers}
      BY <1>3, <3>1, TracesTyped
    <3>3. TellsOf(graph, answer(v, hops, found))
      <4> DEFINE s == answer(v, hops, found)
      <4>1. s.target = v /\ s.hops = hops /\ s.impacted = found
        OBVIOUS
      <4> HIDE DEF s
      <4>2. TellsOf(graph, s)
        BY <3>1, <4>1, TracesTell
      <4>3. QED BY <4>2 DEF s
    <3>4. QED BY <3>2, <3>3 DEF TraceStates, Telling
  <2>3. \E v \in TraceTargets, hops \in HopLimits :
          \/ \E found \in Traces(graph, v, hops) : Becomes(j, answer(v, hops, found))
          \/ Becomes(j, failed)
    BY DEF TraceImpact
  <2> HIDE DEF failed, answer
  <2>4. QED BY <2>1, <2>2, <2>3
<1>5. s.kind = "trace" /\ s.stage = "ended"
  <2>1. failed.kind = "trace" /\ failed.stage = "ended"
    OBVIOUS
  <2> HIDE DEF failed
  <2>2. s = failed \/ (s.kind = "trace" /\ s.stage = "ended")
    BY DEF TraceStates, failed
  <2>3. QED BY <2>1, <2>2
<1>6. s \in JobStates
  BY DEF JobStates
<1>7. NewsInv(s) /\ IngestInv(graph', s) /\ SeederInv(graph', s) /\ s.kind # "edgar"
  BY <1>5 DEF NewsInv, IngestInv, SeederInv
<1>8. s.stage \notin Blocking
  BY <1>5 DEF Blocking
<1>9. TraceInv(graph', s)
  BY <1>1, <1>4 DEF Telling, TellsOf, TraceInv
<1>10. Advances(j)
  BY <1>1, <1>2, <1>4, <1>6, <1>7, <1>8, <1>9, OtherFollows
<1>11. QED BY <1>3, <1>10

-----------------------------------------------------------------------------
(* Seeders.                                                                *)

(* The seeders work through their plan.                                    *)
LEMMA Planned ==
  Plan \in Seq(Queries) /\ Plan # <<>> /\ Queries \subseteq PlanQueries
<1>1. Plan \in Seq(PlanQueries) /\ Plan # <<>>
  BY PlanFits
<1>2. /\ Len(Plan) \in Nat /\ DOMAIN Plan = 1..Len(Plan)
      /\ Plan = [i \in 1..Len(Plan) |-> Plan[i]]
  BY <1>1, LenProperties
<1>3. Plan \in [1..Len(Plan) -> Queries]
  BY <1>2 DEF Queries, ToSet
<1>4. QED BY <1>1, <1>2, <1>3, FunctionSeq, MembersTyped DEF Queries

(* At the beginning nothing is in effect.                                  *)
LEMMA ProgressBegins ==
  ASSUME NEW g
  PROVE  Progress(g, Plan)
<1>1. Len(Plan) \in Nat
  BY Planned, LenProperties
<1>2. 0 \in 0..Len(Plan) /\ Len(Plan) = Len(Plan) - 0
      /\ \A i \in 1..Len(Plan) : Plan[i] = Plan[0 + i]
  BY <1>1
<1>3. \A i \in 1..0 : Holds(g, Plan[i])
  OBVIOUS
<1>4. QED BY <1>2, <1>3 DEF Progress

(* The next query finds what it matches, because those before it are in    *)
(* effect, and is in effect then.                                          *)
LEMMA ProgressGoesOn ==
  ASSUME NEW g \in Graphs, NEW todo \in Seq(Queries), todo # <<>>, Progress(g, todo)
  PROVE  LET h == Apply(g, Head(todo)) IN
           /\ h \in Graphs /\ Grows(g, h) /\ Head(todo) \in PlanQueries
           /\ Tail(todo) \in Seq(Queries) /\ Progress(h, Tail(todo))
           /\ Len(todo) = 1 <=> Tail(todo) = <<>>
<1> DEFINE q == Head(todo)
           rest == Tail(todo)
           h == Apply(g, q)
<1>1. PICK n \in 0..Len(Plan) :
        /\ Len(todo) = Len(Plan) - n
        /\ \A i \in 1..Len(todo) : todo[i] = Plan[n + i]
        /\ \A i \in 1..n : Holds(g, Plan[i])
  BY DEF Progress
<1>2. /\ Plan \in Seq(PlanQueries) /\ Len(Plan) \in Nat /\ Orderly({}, Plan)
      /\ \A i \in 1..Len(Plan) : Plan[i] \in PlanQueries
  BY PlanFits, LenProperties, ElementOfSeq
<1>3. /\ q = todo[1] /\ q \in Queries /\ rest \in Seq(Queries) /\ Len(todo) \in Nat
      /\ Len(todo) # 0 /\ Len(rest) = Len(todo) - 1
      /\ \A i \in 1..Len(rest) : rest[i] = todo[i + 1]
  BY HeadTailProperties, LenProperties, EmptySeq
<1> HIDE DEF q, rest
<1>4. n + 1 \in 1..Len(Plan) /\ 1 \in 1..Len(todo) /\ q = Plan[n + 1]
  <2>1. n + 1 \in 1..Len(Plan) /\ 1 \in 1..Len(todo)
    BY <1>1, <1>2, <1>3
  <2>2. QED BY <1>1, <1>3, <2>1
<1>5. q \in PlanQueries
  BY <1>2, <1>4
<1>6. Ready(Before(Plan, n + 1), q)
  <2>1. Ready({} \cup Before(Plan, n + 1), Plan[n + 1])
    BY <1>2, <1>4 DEF Orderly
  <2>2. {} \cup Before(Plan, n + 1) = Before(Plan, n + 1)
    OBVIOUS
  <2>3. QED BY <1>4, <2>1, <2>2
<1>7. Before(Plan, n + 1) \in SUBSET PlanQueries /\ \A d \in Before(Plan, n + 1) : Holds(g, d)
  <2>1. \A k \in 1..((n + 1) - 1) : k \in 1..n /\ k \in 1..Len(Plan)
    BY <1>2
  <2>2. QED BY <1>1, <1>2, <2>1 DEF Before
<1>8. h \in Graphs /\ Grows(g, h) /\ Holds(h, q)
  BY <1>5, <1>6, <1>7, ApplyFits
<1> HIDE DEF h
<1>9. Progress(h, rest)
  <2>1. n + 1 \in 0..Len(Plan) /\ Len(rest) = Len(Plan) - (n + 1)
    BY <1>1, <1>2, <1>3, <1>4
  <2>2. ASSUME NEW i \in 1..Len(rest)
        PROVE  rest[i] = Plan[(n + 1) + i]
    <3>1. i + 1 \in 1..Len(todo) /\ n + (i + 1) = (n + 1) + i
      BY <1>3
    <3>2. rest[i] = todo[i + 1] /\ todo[i + 1] = Plan[n + (i + 1)]
      BY <1>1, <1>3, <3>1
    <3>3. QED BY <3>1, <3>2
  <2>3. ASSUME NEW i \in 1..(n + 1)
        PROVE  Holds(h, Plan[i])
    <3>1. CASE i = n + 1
      BY <1>4, <1>8, <3>1
    <3>2. CASE i # n + 1
      <4>1. i \in 1..n /\ i \in 1..Len(Plan)
        BY <1>2, <3>2
      <4>2. QED BY <1>1, <1>2, <1>8, <4>1, HoldsStays
    <3>3. QED BY <3>1, <3>2
  <2>4. QED BY <2>1, <2>2, <2>3 DEF Progress
<1>10. Len(todo) = 1 <=> rest = <<>>
  BY <1>3, EmptySeq
<1>11. QED BY <1>3, <1>5, <1>8, <1>9, <1>10 DEF q, rest, h

(* What the seed data state.                                               *)
LEMMA StatedByTyped ==
  ASSUME NEW query \in PlanQueries
  PROVE  StatedBy(query) \subseteq (Tickers \cup Names) \X (Tickers \cup Names)
<1>1. CASE query[1] = "depends"
  <2>1. /\ query[2] = <<query[2][1], query[2][2]>>
        /\ query[2][1] \in Tickers /\ query[2][2] \in Tickers
    BY <1>1, PlanQueryKinds
  <2> DEFINE a == query[2][1]
             b == query[2][2]
  <2>2. StatedBy(query) = {<<a, b>>}
    BY <1>1, <2>1 DEF StatedBy
  <2> HIDE DEF a, b
  <2>3. a \in Tickers /\ b \in Tickers
    BY <2>1 DEF a, b
  <2>4. QED BY <2>2, <2>3
<1>2. CASE query[1] # "depends"
  BY <1>2 DEF StatedBy
<1>3. QED BY <1>1, <1>2

(* The endpoint.                                                           *)
LEMMA SeedingFollows ==
  ASSUME IInv, NEW j \in Jobs, NEW s \in SeedStates, MayRun(j), Becomes(j, s),
         loop' = IF s.stage = "write" THEN j ELSE Nobody, SeederInv(graph', s)
  PROVE  Advances(j)
<1>1. s \in JobStates
  BY DEF JobStates
<1>2. s.kind = "seed" /\ (s.stage \in Blocking <=> s.stage = "write")
  BY DEF SeedStates, Blocking
<1>3. NewsInv(s) /\ IngestInv(graph', s)
  BY <1>2 DEF NewsInv, IngestInv
<1>4. s.kind \notin {"edgar", "trace"}
  BY <1>2
<1>5. loop' = IF s.stage \in Blocking THEN j ELSE Nobody
  BY <1>2
<1>6. QED BY <1>1, <1>3, <1>4, <1>5, OtherFollows

(* A seeding is asked for or goes on.                                      *)
LEMMA SeedFits ==
  ASSUME IInv, NEW j \in Jobs, Seed(j) \/ SeedStep(j)
  PROVE  Written /\ Advances(j) /\ StatedTyped'
<1>1. job[j] \in JobStates /\ graph \in Graphs /\ StatedTyped
  BY DEF IInv, TypeOK, StatedTyped
<1>2. ASSUME At(j, "seed", "write")
      PROVE  /\ job[j].todo \in Seq(Queries) /\ job[j].todo # <<>>
             /\ Progress(graph, job[j].todo) /\ MayRun(j) /\ loop = j
  <2>1. job[j] \in SeedStates
    BY <1>1, <1>2, Kinded DEF At
  <2>2. job[j].todo \in Seq(Queries)
    BY <2>1 DEF SeedStates
  <2>3. SeederInv(graph, job[j])
    BY DEF IInv, JobInv
  <2>4. job[j].stage \in Blocking
    BY <1>2 DEF At, Blocking
  <2>5. QED BY <1>2, <2>2, <2>3, <2>4, Holding DEF SeederInv, At
<1>3. \A stage, todo : /\ Seeding(stage, todo).kind = "seed"
                       /\ Seeding(stage, todo).stage = stage
                       /\ Seeding(stage, todo).todo = todo
  BY DEF Seeding
<1>4. \A stage \in {"write", "ended"}, todo \in Seq(Queries) : Seeding(stage, todo) \in SeedStates
  BY DEF Seeding, SeedStates
<1>5. CASE Seed(j)
  <2> DEFINE s == Seeding("write", Plan)
  <2>1. MayRun(j) /\ UNCHANGED <<graph, stated>> /\ Becomes(j, s) /\ loop' = j
    BY <1>5 DEF Seed, Hold
  <2>2. s \in SeedStates /\ s.stage = "write" /\ s.todo = Plan
    BY <1>3, <1>4, Planned
  <2> HIDE DEF s
  <2>3. SeederInv(graph', s)
    BY <2>2, Planned, ProgressBegins DEF SeederInv
  <2>4. Advances(j)
    BY <2>1, <2>2, <2>3, SeedingFollows
  <2>5. QED BY <1>1, <2>1, <2>4, NothingWritten DEF StatedTyped
<1>6. CASE SeedWrites(j)
  <2> DEFINE todo == job[j].todo
             rest == Tail(todo)
             stage == IF rest = <<>> THEN "ended" ELSE "write"
             s == Seeding(stage, rest)
  <2>1. /\ graph' = Apply(graph, Head(todo)) /\ stated' = stated \cup StatedBy(Head(todo))
        /\ Becomes(j, s) /\ At(j, "seed", "write")
        /\ IF rest = <<>> THEN Release ELSE UNCHANGED loop
    BY <1>6 DEF SeedWrites
  <2>2. todo \in Seq(Queries) /\ todo # <<>> /\ Progress(graph, todo) /\ MayRun(j) /\ loop = j
    BY <1>2, <2>1
  <2> HIDE DEF todo
  <2>3. /\ graph' \in Graphs /\ Grows(graph, graph') /\ Head(todo) \in PlanQueries
        /\ rest \in Seq(Queries) /\ Progress(graph', rest)
    BY <1>1, <2>1, <2>2, ProgressGoesOn
  <2>4. loop' = IF stage = "write" THEN j ELSE Nobody
    BY <2>1, <2>2 DEF Release
  <2> HIDE DEF rest
  <2>5. /\ stage \in {"write", "ended"} /\ (stage = "ended" => rest = <<>>)
        /\ (stage = "write" => rest # <<>>)
    OBVIOUS
  <2> HIDE DEF stage
  <2>6. s \in SeedStates /\ s.stage = stage /\ s.todo = rest
    BY <1>3, <1>4, <2>3, <2>5
  <2> HIDE DEF s
  <2>7. SeederInv(graph', s)
    BY <2>3, <2>5, <2>6 DEF SeederInv
  <2>8. Advances(j)
    BY <2>1, <2>2, <2>4, <2>6, <2>7, SeedingFollows
  <2>9. StatedTyped'
    BY <1>1, <2>1, <2>3, StatedByTyped DEF StatedTyped
  <2>10. QED BY <2>3, <2>8, <2>9 DEF Written
<1>7. CASE SeedFails(j)
  <2> DEFINE s == [Seeding("ended", <<>>) EXCEPT !.ok = FALSE]
  <2>1. /\ At(j, "seed", "write") /\ Becomes(j, s) /\ loop' = Nobody
        /\ UNCHANGED <<graph, stated>>
    BY <1>7 DEF SeedFails, Release
  <2>2. s \in SeedStates /\ s.stage = "ended" /\ s.ok = FALSE
    BY EmptySeq DEF Seeding, SeedStates
  <2> HIDE DEF s
  <2>3. SeederInv(graph', s)
    BY <2>2 DEF SeederInv
  <2>4. Advances(j)
    BY <1>2, <2>1, <2>2, <2>3, SeedingFollows
  <2>5. QED BY <1>1, <2>1, <2>4, NothingWritten DEF StatedTyped
<1>8. QED BY <1>5, <1>6, <1>7 DEF SeedStep

-----------------------------------------------------------------------------
(* The script.                                                             *)
Scripts ==
  [runs : 0..MaxScripts, todo : Seq(Queries),
   stage : {"off", "seeding", "verifying", "complete", "incomplete", "stopped"}]

(* The seed script, between any two steps of the server.                   *)
LEMMA ScriptFits ==
  ASSUME IInv, ScriptStep
  PROVE  /\ Written /\ StatedTyped' /\ script' \in Scripts /\ ScriptInv'
         /\ UNCHANGED <<loop, job>>
<1>1. graph \in Graphs /\ StatedTyped /\ script \in Scripts /\ ScriptInv
  BY DEF IInv, TypeOK, StatedTyped, Scripts
<1>2. /\ script.runs \in 0..MaxScripts /\ script.todo \in Seq(Queries)
      /\ script = [runs |-> script.runs, todo |-> script.todo, stage |-> script.stage]
  BY <1>1 DEF Scripts
<1>3. CASE ScriptStarts
  <2>1. /\ script' = [runs |-> script.runs + 1, todo |-> Plan, stage |-> "seeding"]
        /\ script.runs < MaxScripts /\ UNCHANGED <<graph, loop, job, stated>>
    BY <1>3 DEF ScriptStarts
  <2>2. script.runs + 1 \in 0..MaxScripts
    BY <1>2, <2>1, MaxScriptsAssumption
  <2>3. script' \in Scripts
    BY <2>1, <2>2, Planned DEF Scripts
  <2>4. script'.stage = "seeding" /\ script'.todo = Plan
    BY <2>1
  <2>5. ScriptInv'
    BY <2>4, Planned, ProgressBegins DEF ScriptInv
  <2>6. QED BY <1>1, <2>1, <2>3, <2>5, NothingWritten DEF StatedTyped
<1>4. CASE ScriptWrites
  <2> DEFINE todo == script.todo
             rest == Tail(todo)
             stage == IF Len(todo) = 1 THEN "verifying" ELSE "seeding"
  <2>1. /\ graph' = Apply(graph, Head(todo)) /\ stated' = stated \cup StatedBy(Head(todo))
        /\ UNCHANGED <<loop, job>> /\ script.stage = "seeding"
    BY <1>4 DEF ScriptWrites
  <2>2. script' = [runs |-> script.runs, todo |-> rest, stage |-> stage]
    BY <1>2, <1>4 DEF ScriptWrites
  <2>3. todo \in Seq(Queries) /\ todo # <<>> /\ Progress(graph, todo)
    BY <1>1, <1>2, <2>1 DEF ScriptInv
  <2> HIDE DEF todo
  <2>4. /\ graph' \in Graphs /\ Grows(graph, graph') /\ Head(todo) \in PlanQueries
        /\ rest \in Seq(Queries) /\ Progress(graph', rest)
        /\ Len(todo) = 1 <=> rest = <<>>
    BY <1>1, <2>1, <2>3, ProgressGoesOn
  <2> HIDE DEF rest
  <2>5. /\ stage \in {"verifying", "seeding"}
        /\ stage = "verifying" => rest = <<>>
        /\ stage = "seeding" => rest # <<>>
    BY <2>4
  <2> HIDE DEF stage
  <2>6. script' \in Scripts /\ script'.stage = stage /\ script'.todo = rest
    BY <1>2, <2>2, <2>4, <2>5 DEF Scripts
  <2>7. ScriptInv'
    BY <2>4, <2>5, <2>6 DEF ScriptInv
  <2>8. StatedTyped'
    BY <1>1, <2>1, <2>4, StatedByTyped DEF StatedTyped
  <2>9. QED BY <2>1, <2>4, <2>6, <2>7, <2>8 DEF Written
<1>5. CASE ScriptStops
  <2>1. /\ script' = [runs |-> script.runs, todo |-> <<>>, stage |-> "stopped"]
        /\ UNCHANGED <<graph, loop, job, stated>>
    BY <1>2, <1>5 DEF ScriptStops
  <2>2. script' \in Scripts
    BY <1>2, <2>1, EmptySeq DEF Scripts
  <2>3. script'.stage = "stopped"
    BY <2>1
  <2>4. ScriptInv'
    BY <2>3 DEF ScriptInv
  <2>5. QED BY <1>1, <2>1, <2>2, <2>4, NothingWritten DEF StatedTyped
<1>6. CASE ScriptVerifies
  <2>1. Progress(graph, <<>>)
    BY <1>1, <1>6 DEF ScriptVerifies, ScriptInv
  <2>2. \A i \in 1..Len(Plan) : Holds(graph, Plan[i])
    <3>1. PICK n \in 0..Len(Plan) : /\ Len(<<>>) = Len(Plan) - n
                                    /\ \A i \in 1..n : Holds(graph, Plan[i])
      BY <2>1 DEF Progress
    <3>2. Len(<<>>) = 0 /\ Len(Plan) \in Nat
      BY Planned, EmptySeq, LenProperties
    <3>3. n = Len(Plan)
      BY <3>1, <3>2
    <3>4. QED BY <3>1, <3>3
  <2>3. \A x \in Expected : AsExpected(x)
    BY <1>1, <2>2, SeedFound DEF AsExpected
  <2>4. /\ script' = [runs |-> script.runs, todo |-> script.todo, stage |-> "complete"]
        /\ UNCHANGED <<graph, loop, job, stated>>
    BY <1>2, <1>6, <2>3 DEF ScriptVerifies
  <2>5. script' \in Scripts /\ script'.stage = "complete"
    BY <1>2, <2>4 DEF Scripts
  <2>6. ScriptInv'
    BY <2>1, <2>4, <2>5 DEF ScriptInv
  <2>7. QED BY <1>1, <2>4, <2>5, <2>6, NothingWritten DEF StatedTyped
<1>7. QED BY <1>3, <1>4, <1>5, <1>6 DEF ScriptStep

-----------------------------------------------------------------------------
(* News analyses.                                                          *)

(* The news analyses.                                                      *)
Fetchings ==
  [kind : {"news"}, stage : {"fetch", "rss"}, anchor : Anchors, queries : 0..MaxQueries]
Tracings ==
  [kind : {"news"}, stage : {"trace"}, anchor : Anchors,
   toTrace : SUBSET Vids, tried : SUBSET Vids]
Answers ==
  [kind : {"news"}, stage : {"ended"}, success : BOOLEAN, anchor : Anchors,
   tried : SUBSET Vids]

(* The stages of an analysis, as records.                                  *)
LEMMA NewsStage ==
  ASSUME NEW s \in JobStates, s.kind = "news"
  PROVE  /\ s.stage \in {"fetch", "rss"} => s \in Fetchings
         /\ s.stage \in {"ingest", "ingested"} => s \in Ingestions
         /\ s.stage = "trace" => s \in Tracings
         /\ s.anchor \in Anchors
<1>1. s \in NewsStates
  BY Kinded
<1>2. QED BY <1>1 DEF NewsStates, Fetchings, Ingestions, Tracings

(* An analysis goes on, with what it knows still true.                     *)
LEMMA NewsFollows ==
  ASSUME IInv, NEW j \in Jobs,
         NEW s \in Fetchings \cup Ingestions \cup Tracings \cup Answers,
         MayRun(j), Becomes(j, s), NewsInv(s), IngestInv(graph', s),
         loop' = IF s.stage \in Blocking THEN j ELSE Nobody
  PROVE  Advances(j)
<1>1. s.kind = "news"
  BY DEF Fetchings, Ingestions, Tracings, Answers
<1>2. s \in JobStates
  BY DEF JobStates, NewsStates, Fetchings, Ingestions, Tracings, Answers
<1>3. SeederInv(graph', s) /\ s.kind \notin {"edgar", "trace"}
  BY <1>1 DEF SeederInv
<1>4. QED BY <1>2, <1>3, OtherFollows

(* An answer that reports success has traced the anchor.                   *)
LEMMA AnswerFollows ==
  ASSUME IInv, NEW j \in Jobs, NEW success \in BOOLEAN, NEW anchor \in Anchors,
         NEW tried \in SUBSET Vids, success /\ anchor \in Vids => anchor \in tried,
         MayRun(j), Becomes(j, Answer(success, anchor, tried)), Release
  PROVE  Advances(j)
<1> DEFINE s == Answer(success, anchor, tried)
<1>1. /\ s \in Answers /\ s.stage = "ended" /\ s.success = success
      /\ s.anchor = anchor /\ s.tried = tried
  BY DEF Answer, Answers
<1>2. Becomes(j, s) /\ loop' = Nobody
  BY DEF Release
<1> HIDE DEF s
<1>3. NewsInv(s) /\ IngestInv(graph', s) /\ s.stage \notin Blocking
  BY <1>1 DEF NewsInv, IngestInv, Blocking
<1>4. QED BY <1>1, <1>2, <1>3, NewsFollows

(* The anchor is among the entities collected, if it is an entity.         *)
LEMMA CollectFollows ==
  ASSUME IInv, NEW j \in Jobs, NEW anchor \in Anchors, NEW events \in Seq(ParsedEvents),
         MayRun(j), Collect(j, anchor, events)
  PROVE  Advances(j)
<1> DEFINE entities == EntitiesOf(events) \cup Anchored(anchor, events)
           s == [kind |-> "news", stage |-> "trace", anchor |-> anchor,
                 toTrace |-> entities, tried |-> {}]
<1>1. entities \in SUBSET Vids
  BY EntitiesOfTyped, AnchorsAssumption DEF Anchored
<1>2. anchor \in Vids => anchor \in entities
  BY AnchorsAssumption DEF Anchored
<1>3. CASE entities = {}
  <2>1. Becomes(j, Answer(TRUE, anchor, {})) /\ Release
    BY <1>3 DEF Collect
  <2>2. anchor \notin Vids
    BY <1>2, <1>3
  <2>3. TRUE \in BOOLEAN /\ {} \in SUBSET Vids
    OBVIOUS
  <2> HIDE DEF entities
  <2>4. QED BY <2>1, <2>2, <2>3, AnswerFollows
<1>4. CASE entities # {}
  <2>1. Becomes(j, s) /\ loop' = j
    BY <1>4 DEF Collect, Hold
  <2> HIDE DEF entities
  <2>2. /\ s \in Tracings /\ s.stage = "trace" /\ s.anchor = anchor
        /\ s.toTrace = entities /\ s.tried = {}
    BY <1>1 DEF Tracings
  <2> HIDE DEF s
  <2>3. NewsInv(s) /\ IngestInv(graph', s) /\ s.stage \in Blocking
    BY <1>2, <1>4, <2>2 DEF NewsInv, IngestInv, Blocking
  <2>4. QED BY <2>1, <2>2, <2>3, NewsFollows
<1>5. QED BY <1>3, <1>4

(* A query of the ladder is left, or the feed.                             *)
LEMMA FetchingFollows ==
  ASSUME IInv, NEW j \in Jobs, NEW stage \in {"fetch", "rss"}, NEW anchor \in Anchors,
         NEW queries \in 0..MaxQueries, stage = "fetch" => queries >= 1,
         MayRun(j), Becomes(j, Fetching(stage, anchor, queries)), loop' = Nobody
  PROVE  Advances(j)
<1> DEFINE s == Fetching(stage, anchor, queries)
<1>1. s \in Fetchings /\ s.stage = stage /\ s.queries = queries
  BY DEF Fetching, Fetchings
<1> HIDE DEF s
<1>2. NewsInv(s) /\ IngestInv(graph', s) /\ s.stage \notin Blocking
  BY <1>1 DEF NewsInv, IngestInv, Blocking
<1>3. QED BY <1>1, <1>2, NewsFollows DEF s

(* An ingestion begins with all of its articles and ends an event at a     *)
(* time.                                                                   *)
LEMMA EventOverFollows ==
  ASSUME IInv, NEW j \in Jobs, NEW s \in Ingestions, EventOver(j, s),
         MayRun(j), loop = j, s.stage = "ingest", s.step = 0,
         Ingested(graph', [s EXCEPT !.stage = "ingested"])
  PROVE  Advances(j)
<1> DEFINE over == [s EXCEPT !.stage = "ingested"]
<1>1. /\ s.events \in Seq(ParsedEvents) /\ s.next \in Nat /\ Len(s.events) \in Nat
  BY LenProperties DEF Ingestions
<1>2. /\ over \in Ingestions /\ over.stage = "ingested" /\ over.events = s.events
      /\ over.next = s.next /\ over.succeeded = s.succeeded /\ over.failed = s.failed
      /\ over.known = s.known /\ over.hurt = s.hurt
  BY DEF Ingestions
<1> HIDE DEF over
<1>3. CASE s.next > Len(s.events)
  <2>1. Becomes(j, over) /\ loop' = j
    BY <1>3 DEF EventOver, over
  <2>2. NewsInv(over) /\ IngestInv(graph', over) /\ over.stage \in Blocking
    BY <1>2 DEF NewsInv, IngestInv, Blocking, over
  <2>3. QED BY <1>2, <2>1, <2>2, NewsFollows
<1>4. CASE ~ (s.next > Len(s.events))
  <2>1. Becomes(j, s) /\ loop' = j
    BY <1>4 DEF EventOver
  <2>2. Ingested(graph', over)
    BY DEF over
  <2>3. PartlyLinked(graph', s.events[s.next], s.known, s.step)
    <3>1. s.next \in 1..(Len(s.events) + 1)
      BY <1>2, <2>2 DEF Ingested
    <3>2. s.events[s.next] \in ParsedEvents
      BY <1>1, <1>4, <3>1, ElementOfSeq
    <3>3. Len(Entities(s.events[s.next])) \in Nat
      BY <3>2, EntitiesTyped, LenProperties
    <3>4. QED BY <3>3 DEF PartlyLinked
  <2>4. Ingested(graph', s)
    BY <1>1, <1>2, <1>4, <2>2, <2>3 DEF Ingested
  <2>5. NewsInv(s) /\ IngestInv(graph', s) /\ s.stage \in Blocking
    BY <2>4 DEF NewsInv, IngestInv, Blocking
  <2>6. QED BY <2>1, <2>5, NewsFollows
<1>5. QED BY <1>3, <1>4

(* Nothing is ingested yet.                                                *)
LEMMA IngestingFits ==
  ASSUME NEW g \in Graphs, NEW anchor \in Anchors, NEW events \in Seq(ParsedEvents),
         events # <<>>,
         \A i \in 1..Len(events) : events[i].severity \in 1..SeverityCap
  PROVE  LET s == Ingesting(anchor, events, {v \in Vids : Matches(g, v)})
         IN s \in Ingestions /\ Ingested(g, s) /\ s.stage = "ingest"
<1> DEFINE known == {v \in Vids : Matches(g, v)}
           s == Ingesting(anchor, events, known)
<1>1. known \in SUBSET Vids /\ \A v \in known : Matches(g, v)
  OBVIOUS
<1> HIDE DEF known
<1>2. /\ s \in Ingestions /\ s.stage = "ingest" /\ s.events = events /\ s.next = 1
      /\ s.step = 0 /\ s.succeeded = {} /\ s.failed = {} /\ s.known = known
  BY <1>1 DEF Ingesting, Ingestions
<1>3. Len(events) \in Nat /\ Len(events) # 0
  BY EmptySeq, LenProperties
<1>4. 1 \in 1..Len(events) /\ Len(Entities(events[1])) \in Nat
  BY <1>3, ElementOfSeq, EntitiesTyped, LenProperties
<1> HIDE DEF s
<1>5. PartlyLinked(g, s.events[s.next], s.known, s.step)
  BY <1>2, <1>4 DEF PartlyLinked
<1>6. Ingested(g, s)
  BY <1>1, <1>2, <1>3, <1>5 DEF Ingested
<1>7. QED BY <1>2, <1>6 DEF s, known

(* An analysis is asked for.                                               *)
LEMMA AnalyzeFits ==
  ASSUME IInv, NEW j \in Jobs, AnalyzeNews(j)
  PROVE  Written /\ Advances(j) /\ StatedTyped'
<1>1. MayRun(j) /\ UNCHANGED <<graph, stated, loop>> /\ job[j] = New
  BY DEF AnalyzeNews
<1>2. loop' = Nobody
  BY <1>1, NewJob
<1>3. Written /\ StatedTyped'
  BY <1>1, NothingWritten DEF IInv, TypeOK, StatedTyped
<1>4. PICK a \in Anchors, n \in 1..MaxQueries : Becomes(j, Fetching("fetch", a, n))
  BY DEF AnalyzeNews
<1>5. n \in 0..MaxQueries /\ n >= 1
  BY MaxQueriesAssumption
<1>6. Advances(j)
  BY <1>1, <1>2, <1>4, <1>5, FetchingFollows
<1>7. QED BY <1>3, <1>6

(* The event being ingested is one that the client takes.                  *)
LEMMA CurrentEvent ==
  ASSUME IInv, NEW j \in Jobs, At(j, "news", "ingest")
  PROVE  /\ job[j] \in Ingestions /\ Ingested(graph, job[j])
         /\ MayRun(j) /\ loop = j
         /\ Len(job[j].events) \in Nat /\ job[j].next \in 1..Len(job[j].events)
         /\ Event(j) \in ParsedEvents /\ ~ Refuses(Event(j))
         /\ Entities(Event(j)) \in Seq(Vids) /\ Len(Entities(Event(j))) \in Nat
         /\ PartlyLinked(graph, Event(j), job[j].known, job[j].step)
<1>1. job[j] \in JobStates /\ JobInv(graph, job[j])
  BY DEF IInv, TypeOK
<1>2. job[j] \in Ingestions /\ Ingested(graph, job[j])
  BY <1>1, IngestionState DEF At, JobInv, IngestInv
<1>3. MayRun(j) /\ loop = j
  BY Holding DEF At, Blocking
<1>4. job[j].events \in Seq(ParsedEvents) /\ Len(job[j].events) \in Nat
  BY <1>2, LenProperties DEF Ingestions
<1>5. /\ job[j].next \in 1..Len(job[j].events)
      /\ PartlyLinked(graph, Event(j), job[j].known, job[j].step)
  BY <1>2, <1>4 DEF Ingested, At, Event
<1>6. Event(j) \in ParsedEvents /\ Event(j).severity \in 1..SeverityCap
  BY <1>2, <1>4, <1>5, ElementOfSeq DEF Ingested, Event
<1>7. ~ Refuses(Event(j))
  BY <1>6 DEF Refuses, Severities, SeverityCap
<1>8. QED BY <1>2, <1>3, <1>4, <1>5, <1>6, <1>7, EntitiesTyped, LenProperties

(* The vertex of an event comes first, so each of its edges finds it.      *)
LEMMA QueryLinks ==
  ASSUME IInv, NEW j \in Jobs, Ingest(j)
  PROVE  /\ Written
         /\ graph'.severity[Event(j).id] # NoEvent
         /\ \A k \in 1..job[j].step : Entities(Event(j))[k] \in job[j].known =>
              <<Event(j).id, Entities(Event(j))[k]>> \in graph'.impacts
<1> DEFINE named == Entities(Event(j))
           e == Event(j)
           n == job[j].step
           known == job[j].known
<1>1. /\ named \in Seq(Vids) /\ e \in ParsedEvents
      /\ PartlyLinked(graph, e, known, n) /\ Ingested(graph, job[j])
      /\ Len(named) \in Nat
  BY CurrentEvent DEF Ingest
<1>2. /\ e.id \in Events /\ e.severity \in Severities
      /\ n \in 0..Len(named)
      /\ n > 0 => /\ graph.severity[e.id] # NoEvent
                  /\ \A k \in 1..(n - 1) :
                       named[k] \in known => <<e.id, named[k]>> \in graph.impacts
      /\ \A v \in known : Matches(graph, v)
  BY <1>1, CurrentEvent DEF Ingest, Refuses, ParsedEvents, PartlyLinked, Ingested
<1>3. graph' = IF n = 0 THEN UpsertEvent(graph, e.id, e.severity)
               ELSE InsertImpacts(graph, e.id, named[n])
  BY DEF Ingest
<1>4. graph \in Graphs
  BY DEF IInv, TypeOK
<1> HIDE DEF named, e, n, known
<1>5. CASE n = 0
  BY <1>2, <1>3, <1>4, <1>5, EventGrows DEF Written, named, e, n, known
<1>6. CASE n # 0
  <2>1. n \in 1..Len(named) /\ n > 0
    BY <1>1, <1>2, <1>6
  <2>2. named[n] \in Vids
    BY <1>1, <2>1, ElementOfSeq
  <2>3. graph' = InsertImpacts(graph, e.id, named[n])
    BY <1>3, <1>6
  <2>4. /\ graph' \in Graphs /\ Grows(graph, graph')
        /\ named[n] \in known => <<e.id, named[n]>> \in graph'.impacts
    BY <1>2, <1>4, <2>1, <2>2, <2>3, ImpactsGrows
  <2>5. graph.impacts \subseteq graph'.impacts /\ graph'.severity[e.id] # NoEvent
    BY <1>2, <2>1, <2>4 DEF Grows
  <2>6. \A k \in 1..n : named[k] \in known => <<e.id, named[k]>> \in graph'.impacts
    <3>1. \A k \in 1..n : k = n \/ k \in 1..(n - 1)
      BY <2>1
    <3>2. QED BY <1>2, <2>1, <2>4, <2>5, <3>1
  <2>7. QED BY <2>4, <2>5, <2>6 DEF Written, named, e, n, known
<1>7. QED BY <1>5, <1>6

(* What was ingested stays so, and an event with all of its links joins it.*)
LEMMA StillIngested ==
  ASSUME IInv, NEW j \in Jobs, At(j, "news", "ingest"), Written,
         NEW s \in Ingestions, s.events = job[j].events, s.known = job[j].known,
         s.next \in {job[j].next, job[j].next + 1},
         s.succeeded \subseteq job[j].succeeded \cup
           (IF s.next # job[j].next /\ LinkedTo(graph', Event(j), job[j].known)
            THEN {job[j].next} ELSE {}),
         s.failed # {} => s.hurt,
         s.stage # "ingest"
  PROVE  Ingested(graph', s)
<1>1. Ingested(graph', job[j])
  BY CurrentEvent, IngestedStays DEF Written
<1>2. /\ Len(job[j].events) \in Nat /\ job[j].next \in 1..Len(job[j].events)
      /\ Event(j) = job[j].events[job[j].next]
  BY CurrentEvent DEF Event
<1>3. s.next \in 1..(Len(s.events) + 1)
  BY <1>2
<1>4. /\ \A i \in 1..Len(s.events) : s.events[i].severity \in 1..SeverityCap
      /\ \A v \in s.known : Matches(graph', v)
      /\ job[j].succeeded \subseteq 1..(job[j].next - 1)
      /\ \A i \in job[j].succeeded : LinkedTo(graph', s.events[i], s.known)
  BY <1>1 DEF Ingested
<1>5. /\ s.succeeded \subseteq 1..(s.next - 1)
      /\ \A i \in s.succeeded : LinkedTo(graph', s.events[i], s.known)
  <2>1. ASSUME NEW i \in s.succeeded
        PROVE  i \in 1..(s.next - 1) /\ LinkedTo(graph', s.events[i], s.known)
    <3>1. CASE i \in job[j].succeeded
      BY <1>2, <1>4, <3>1
    <3>2. CASE i \notin job[j].succeeded
      <4>1. /\ i = job[j].next /\ s.next = job[j].next + 1
            /\ LinkedTo(graph', Event(j), job[j].known)
        BY <3>2
      <4>2. i \in 1..(s.next - 1)
        BY <1>2, <4>1
      <4>3. QED BY <1>2, <4>1, <4>2
    <3>3. QED BY <3>1, <3>2
  <2>2. QED BY <2>1
<1>6. QED BY <1>3, <1>4, <1>5 DEF Ingested

(* What a query does to the record of an ingestion, field by field.        *)
LEMMA QueryCounted ==
  ASSUME NEW s \in Ingestions, NEW step \in Nat
  PROVE  LET t == [s EXCEPT !.step = step] IN
         /\ t \in Ingestions /\ t.step = step
         /\ t.stage = s.stage /\ t.events = s.events /\ t.next = s.next
         /\ t.known = s.known /\ t.succeeded = s.succeeded
         /\ t.failed = s.failed /\ t.hurt = s.hurt
BY DEF Ingestions

(* ... the next event, from its first query,                               *)
LEMMA EventPassed ==
  ASSUME NEW s \in Ingestions, NEW next \in Nat
  PROVE  LET t == [s EXCEPT !.next = next, !.step = 0] IN
         /\ t \in Ingestions /\ t.step = 0 /\ t.next = next
         /\ t.stage = s.stage /\ t.events = s.events
         /\ t.known = s.known /\ t.succeeded = s.succeeded
         /\ t.failed = s.failed /\ t.hurt = s.hurt
<1> DEFINE u == [s EXCEPT !.step = 0]
           t == [u EXCEPT !.next = next]
<1>1. [s EXCEPT !.next = next, !.step = 0] = t
  OBVIOUS
<1>2. /\ u \in Ingestions /\ u.step = 0
      /\ u.stage = s.stage /\ u.events = s.events /\ u.next = s.next
      /\ u.known = s.known /\ u.succeeded = s.succeeded
      /\ u.failed = s.failed /\ u.hurt = s.hurt
  BY QueryCounted
<1> HIDE DEF u
<1>3. /\ t \in Ingestions /\ t.next = next /\ t.step = u.step
      /\ t.stage = u.stage /\ t.events = u.events
      /\ t.known = u.known /\ t.succeeded = u.succeeded
      /\ t.failed = u.failed /\ t.hurt = u.hurt
  BY <1>2 DEF Ingestions
<1> HIDE DEF t
<1>4. QED BY <1>1, <1>2, <1>3

(* ... an event reported as ingested,                                      *)
LEMMA EventCounted ==
  ASSUME NEW s \in Ingestions
  PROVE  LET t == [s EXCEPT !.next = s.next + 1, !.step = 0,
                            !.succeeded = s.succeeded \cup {s.next}] IN
         /\ t \in Ingestions /\ t.step = 0 /\ t.next = s.next + 1
         /\ t.succeeded = s.succeeded \cup {s.next}
         /\ t.stage = s.stage /\ t.events = s.events /\ t.known = s.known
         /\ t.failed = s.failed /\ t.hurt = s.hurt
<1> DEFINE u == [s EXCEPT !.next = s.next + 1, !.step = 0]
           t == [u EXCEPT !.succeeded = s.succeeded \cup {s.next}]
<1>1. [s EXCEPT !.next = s.next + 1, !.step = 0,
                !.succeeded = s.succeeded \cup {s.next}] = t
  OBVIOUS
<1>2. s.next \in Nat /\ s.next + 1 \in Nat /\ s.succeeded \cup {s.next} \in SUBSET Nat
  BY DEF Ingestions
<1>3. /\ u \in Ingestions /\ u.step = 0 /\ u.next = s.next + 1
      /\ u.stage = s.stage /\ u.events = s.events
      /\ u.known = s.known /\ u.failed = s.failed /\ u.hurt = s.hurt
  BY <1>2, EventPassed
<1> HIDE DEF u
<1>4. /\ t \in Ingestions /\ t.next = u.next /\ t.step = u.step
      /\ t.succeeded = s.succeeded \cup {s.next}
      /\ t.stage = u.stage /\ t.events = u.events
      /\ t.known = u.known /\ t.failed = u.failed /\ t.hurt = u.hurt
  BY <1>2, <1>3 DEF Ingestions
<1> HIDE DEF t
<1>5. QED BY <1>1, <1>3, <1>4

(* ... one that a query has failed,                                        *)
LEMMA EventLost ==
  ASSUME NEW s \in Ingestions
  PROVE  LET t == [s EXCEPT !.next = s.next + 1, !.step = 0,
                            !.failed = s.failed \cup {s.next}, !.hurt = TRUE] IN
         /\ t \in Ingestions /\ t.step = 0 /\ t.next = s.next + 1
         /\ t.succeeded = s.succeeded /\ t.hurt
         /\ t.stage = s.stage /\ t.events = s.events /\ t.known = s.known
<1> DEFINE u == [s EXCEPT !.next = s.next + 1, !.step = 0]
           w == [u EXCEPT !.failed = s.failed \cup {s.next}]
           t == [w EXCEPT !.hurt = TRUE]
<1>1. [s EXCEPT !.next = s.next + 1, !.step = 0,
                !.failed = s.failed \cup {s.next}, !.hurt = TRUE] = t
  OBVIOUS
<1>2. s.next \in Nat /\ s.next + 1 \in Nat /\ s.failed \cup {s.next} \in SUBSET Nat
  BY DEF Ingestions
<1>3. /\ u \in Ingestions /\ u.step = 0 /\ u.next = s.next + 1
      /\ u.stage = s.stage /\ u.events = s.events
      /\ u.known = s.known /\ u.succeeded = s.succeeded
  BY <1>2, EventPassed
<1> HIDE DEF u
<1>4. /\ w \in Ingestions /\ w.next = u.next /\ w.step = u.step
      /\ w.succeeded = u.succeeded
      /\ w.stage = u.stage /\ w.events = u.events /\ w.known = u.known
  BY <1>2, <1>3 DEF Ingestions
<1> HIDE DEF w
<1>5. /\ t \in Ingestions /\ t.next = w.next /\ t.step = w.step
      /\ t.succeeded = w.succeeded /\ t.hurt
      /\ t.stage = w.stage /\ t.events = w.events /\ t.known = w.known
  BY <1>4 DEF Ingestions
<1> HIDE DEF t
<1>6. QED BY <1>1, <1>3, <1>4, <1>5

(* ... and the end of all.                                                 *)
LEMMA IngestedStage ==
  ASSUME NEW s \in Ingestions
  PROVE  LET over == [s EXCEPT !.stage = "ingested"] IN
         /\ over \in Ingestions /\ over.stage = "ingested" /\ over.events = s.events
         /\ over.next = s.next /\ over.succeeded = s.succeeded /\ over.failed = s.failed
         /\ over.known = s.known /\ over.hurt = s.hurt
BY DEF Ingestions

(* One more entity is linked.                                              *)
LEMMA LinkedSoFar ==
  ASSUME NEW g, NEW e, NEW known, NEW n \in Nat, n + 1 \in 0..Len(Entities(e)),
         g.severity[e.id] # NoEvent,
         \A k \in 1..n : Entities(e)[k] \in known => <<e.id, Entities(e)[k]>> \in g.impacts
  PROVE  PartlyLinked(g, e, known, n + 1)
<1>1. n + 1 - 1 = n
  OBVIOUS
<1>2. QED BY <1>1 DEF PartlyLinked

(* A query succeeds: the event goes on, or is over and linked.             *)
LEMMA IngestFits ==
  ASSUME IInv, NEW j \in Jobs, Ingest(j)
  PROVE  Written /\ Advances(j) /\ StatedTyped'
<1> DEFINE s == job[j]
           m == Len(Entities(Event(j)))
<1>1. /\ s \in Ingestions /\ Ingested(graph, s) /\ MayRun(j) /\ loop = j
      /\ Len(s.events) \in Nat /\ s.next \in 1..Len(s.events) /\ m \in Nat
      /\ PartlyLinked(graph, Event(j), s.known, s.step)
  BY CurrentEvent DEF Ingest
<1>2. /\ Written
      /\ graph'.severity[Event(j).id] # NoEvent
      /\ \A k \in 1..s.step : Entities(Event(j))[k] \in s.known =>
           <<Event(j).id, Entities(Event(j))[k]>> \in graph'.impacts
  BY QueryLinks
<1>3. StatedTyped'
  BY DEF Ingest, IInv, TypeOK, StatedTyped
<1>4. /\ s.events \in Seq(ParsedEvents) /\ s.next \in Nat /\ s.step \in Nat
      /\ s.succeeded \in SUBSET Nat /\ s.failed \in SUBSET Nat /\ s.hurt \in BOOLEAN
      /\ s.kind = "news" /\ s.stage = "ingest"
      /\ s.failed # {} => s.hurt
  BY <1>1 DEF Ingestions, Ingested, Ingest, At
<1>5. s.step \in 0..m
  BY <1>1 DEF PartlyLinked
<1>6. CASE s.step = m
  <2> DEFINE t == [s EXCEPT !.next = @ + 1, !.step = 0, !.succeeded = @ \cup {s.next}]
             over == [t EXCEPT !.stage = "ingested"]
  <2>1. EventOver(j, t)
    BY <1>6 DEF Ingest, QueryMade
  <2>2. /\ t \in Ingestions /\ t.stage = "ingest" /\ t.step = 0 /\ t.events = s.events
        /\ t.known = s.known /\ t.next = s.next + 1 /\ t.succeeded = s.succeeded \cup {s.next}
        /\ t.failed = s.failed /\ t.hurt = s.hurt
    BY <1>1, <1>4, EventCounted
  <2> HIDE DEF t
  <2>3. /\ over \in Ingestions /\ over.events = s.events /\ over.known = s.known
        /\ over.next = s.next + 1 /\ over.succeeded = s.succeeded \cup {s.next}
        /\ over.failed = s.failed /\ over.hurt = s.hurt /\ over.stage = "ingested"
    BY <2>2, IngestedStage
  <2> HIDE DEF over
  <2>4. LinkedTo(graph', Event(j), s.known)
    <3>1. \A v \in ToSet(Entities(Event(j))) :
            \E k \in 1..m : v = Entities(Event(j))[k]
      BY DEF ToSet
    <3>2. QED BY <1>2, <1>6, <3>1 DEF LinkedTo
  <2>5. over.next # s.next
    BY <1>1, <2>3
  <2>6. Ingested(graph', over)
    BY <1>2, <1>4, <2>3, <2>4, <2>5, StillIngested DEF Ingest
  <2>7. Advances(j)
    BY <1>1, <2>1, <2>2, <2>6, EventOverFollows DEF over
  <2>8. QED BY <1>2, <1>3, <2>7
<1>7. CASE s.step # m
  <2> DEFINE t == [s EXCEPT !.step = @ + 1]
             over == [t EXCEPT !.stage = "ingested"]
  <2>1. Becomes(j, t) /\ loop' = j
    BY <1>1, <1>7 DEF Ingest, QueryMade
  <2>2. /\ t \in Ingestions /\ t.stage = "ingest" /\ t.events = s.events
        /\ t.known = s.known /\ t.next = s.next /\ t.step = s.step + 1
        /\ t.succeeded = s.succeeded /\ t.failed = s.failed /\ t.hurt = s.hurt
    BY <1>1, <1>4, s.step + 1 \in Nat, QueryCounted
  <2> HIDE DEF t
  <2>3. /\ over \in Ingestions /\ over.events = s.events /\ over.known = s.known
        /\ over.next = s.next /\ over.succeeded = s.succeeded
        /\ over.failed = s.failed /\ over.hurt = s.hurt /\ over.stage = "ingested"
    BY <2>2, IngestedStage
  <2> HIDE DEF over
  <2>4. Ingested(graph', over)
    BY <1>2, <1>4, <2>3, StillIngested DEF Ingest
  <2>5. PartlyLinked(graph', Event(j), s.known, s.step + 1)
    <3>1. s.step + 1 \in 0..m
      BY <1>1, <1>5, <1>7
    <3>2. s.step \in Nat
      BY <1>4
    <3>3. QED BY <1>2, <3>1, <3>2, LinkedSoFar
  <2>6. Ingested(graph', t)
    <3>1. t.next <= Len(t.events) /\ t.events[t.next] = Event(j)
      BY <1>1, <2>2 DEF Event
    <3>2. /\ t.events = over.events /\ t.next = over.next /\ t.known = over.known
          /\ t.succeeded = over.succeeded /\ t.failed = over.failed /\ t.hurt = over.hurt
      BY <2>2, <2>3
    <3>3. QED BY <2>2, <2>4, <2>5, <3>1, <3>2 DEF Ingested
  <2>7. NewsInv(t) /\ IngestInv(graph', t) /\ t.stage \in Blocking
    BY <2>2, <2>6 DEF NewsInv, IngestInv, Blocking
  <2>8. Advances(j)
    BY <1>1, <2>1, <2>2, <2>7, NewsFollows
  <2>9. QED BY <1>2, <1>3, <2>8
<1>8. QED BY <1>6, <1>7

(* A query fails, which the history records.                               *)
LEMMA IngestFailsFits ==
  ASSUME IInv, NEW j \in Jobs, IngestFails(j)
  PROVE  Written /\ Advances(j) /\ StatedTyped'
<1> DEFINE s == job[j]
           t == [s EXCEPT !.next = @ + 1, !.step = 0, !.failed = @ \cup {s.next},
                          !.hurt = TRUE]
           over == [t EXCEPT !.stage = "ingested"]
<1>1. /\ s \in Ingestions /\ Ingested(graph, s) /\ MayRun(j) /\ loop = j
      /\ Len(s.events) \in Nat /\ s.next \in 1..Len(s.events) /\ ~ Refuses(Event(j))
  BY CurrentEvent DEF IngestFails
<1>2. Written /\ StatedTyped'
  BY NothingWritten DEF IngestFails, IInv, TypeOK, StatedTyped
<1>3. /\ s.next \in Nat /\ s.failed \in SUBSET Nat /\ s.succeeded \in SUBSET Nat
      /\ s.kind = "news" /\ s.stage = "ingest"
  BY <1>1 DEF Ingestions, IngestFails, At
<1>4. EventOver(j, t)
  <2>1. (s.hurt \/ ~ (s.step = 0 /\ Refuses(Event(j)))) = TRUE
    BY <1>1
  <2>2. EventOver(j, [s EXCEPT
          !.next = @ + 1, !.step = 0, !.failed = @ \cup {s.next},
          !.hurt = (s.hurt \/ ~ (s.step = 0 /\ Refuses(Event(j))))])
    BY DEF IngestFails
  <2>3. QED BY <2>1, <2>2
<1>5. /\ t \in Ingestions /\ t.stage = "ingest" /\ t.step = 0 /\ t.events = s.events
      /\ t.known = s.known /\ t.next = s.next + 1 /\ t.succeeded = s.succeeded /\ t.hurt
  BY <1>1, <1>3, EventLost
<1> HIDE DEF t
<1>6. /\ over \in Ingestions /\ over.events = s.events /\ over.known = s.known
      /\ over.next = s.next + 1 /\ over.succeeded = s.succeeded
      /\ over.hurt /\ over.stage = "ingested"
  BY <1>5, IngestedStage
<1> HIDE DEF over
<1>7. Ingested(graph', over)
  BY <1>2, <1>6, StillIngested DEF IngestFails
<1>8. Advances(j)
  BY <1>1, <1>4, <1>5, <1>7, EventOverFollows DEF over
<1>9. QED BY <1>2, <1>8

(* The other steps of an analysis write nothing.                           *)
LEMMA NewsQuiet ==
  ASSUME IInv, UNCHANGED <<graph, stated>>
  PROVE  Written /\ StatedTyped'
BY NothingWritten DEF IInv, TypeOK, StatedTyped

(* An analysis knows its anchor.                                           *)
LEMMA NewsAnchor ==
  ASSUME IInv, NEW j \in Jobs, job[j].kind = "news"
  PROVE  /\ job[j].anchor \in Anchors /\ job[j] \in JobStates
         /\ NewsInv(job[j])
BY NewsStage DEF IInv, TypeOK, JobInv

(* No events.                                                              *)
LEMMA EmptyTyped == <<>> \in Seq(ParsedEvents)
OBVIOUS

(* The pipeline raises.                                                    *)
LEMMA PipelineFailsFits ==
  ASSUME IInv, NEW j \in Jobs, PipelineFails(j)
  PROVE  Written /\ Advances(j) /\ StatedTyped'
<1>1. job[j].kind = "news" /\ MayRun(j) /\ UNCHANGED <<graph, stated>>
  BY DEF PipelineFails, MayFail, At
<1>2. job[j].anchor \in Anchors
  BY <1>1, NewsAnchor
<1>3. CASE job[j].anchor = None
  <2>1. Becomes(j, Answer(TRUE, None, {})) /\ Release
    BY <1>3 DEF PipelineFails
  <2>2. None \in Anchors /\ None \notin Vids /\ TRUE \in BOOLEAN /\ {} \in SUBSET Vids
    BY <1>2, <1>3, AnchorsAssumption
  <2>3. Advances(j)
    BY <1>1, <2>1, <2>2, AnswerFollows
  <2>4. QED BY <1>1, <2>3, NewsQuiet
<1>4. CASE job[j].anchor # None
  <2>1. Collect(j, job[j].anchor, <<>>)
    BY <1>4 DEF PipelineFails
  <2>2. Advances(j)
    BY <1>1, <1>2, <2>1, EmptyTyped, CollectFollows
  <2>3. QED BY <1>1, <2>2, NewsQuiet
<1>5. QED BY <1>3, <1>4

(* Articles arrive.                                                        *)
LEMMA ArticlesFit ==
  ASSUME IInv, NEW j \in Jobs, ArticlesArrive(j)
  PROVE  Written /\ Advances(j) /\ StatedTyped'
<1>1. job[j].kind = "news" /\ MayRun(j) /\ UNCHANGED <<graph, stated>> /\ graph \in Graphs
  BY DEF ArticlesArrive, At, IInv, TypeOK
<1>2. job[j].anchor \in Anchors
  BY <1>1, NewsAnchor
<1>3. PICK articles \in Batches :
        LET events == ParseArticles(articles) IN
          IF events = <<>> THEN Collect(j, job[j].anchor, <<>>)
          ELSE /\ Becomes(j, Ingesting(job[j].anchor, events,
                                       {v \in Vids : Matches(graph, v)}))
               /\ Hold(j)
  BY DEF ArticlesArrive
<1> DEFINE events == ParseArticles(articles)
           s == Ingesting(job[j].anchor, events, {v \in Vids : Matches(graph, v)})
<1>4. /\ events \in Seq(ParsedEvents)
      /\ \A i \in 1..Len(events) : events[i].severity \in 1..SeverityCap
  BY ParsedTyped
<1>5. CASE events = <<>>
  <2>1. Collect(j, job[j].anchor, <<>>)
    BY <1>3, <1>5
  <2>2. Advances(j)
    BY <1>1, <1>2, <2>1, EmptyTyped, CollectFollows
  <2>3. QED BY <1>1, <2>2, NewsQuiet
<1>6. CASE events # <<>>
  <2>1. Becomes(j, s) /\ loop' = j
    BY <1>3, <1>6 DEF Hold
  <2> HIDE DEF events
  <2>2. s \in Ingestions /\ Ingested(graph, s) /\ s.stage = "ingest"
    BY <1>1, <1>2, <1>4, <1>6, IngestingFits
  <2> HIDE DEF s
  <2>3. Ingested(graph', s)
    BY <1>1, <2>2
  <2>4. NewsInv(s) /\ IngestInv(graph', s) /\ s.stage \in Blocking
    BY <2>2, <2>3 DEF NewsInv, IngestInv, Blocking
  <2>5. Advances(j)
    BY <1>1, <2>1, <2>2, <2>4, NewsFollows
  <2>6. QED BY <1>1, <2>5, NewsQuiet
<1>7. QED BY <1>5, <1>6

(* No articles arrive.                                                     *)
LEMMA NoArticlesFits ==
  ASSUME IInv, NEW j \in Jobs, NoArticles(j)
  PROVE  Written /\ Advances(j) /\ StatedTyped'
<1>1. job[j].kind = "news" /\ MayRun(j) /\ UNCHANGED <<graph, stated>>
  BY DEF NoArticles, At
<1>2. job[j].anchor \in Anchors /\ job[j] \in JobStates /\ NewsInv(job[j])
  BY <1>1, NewsAnchor
<1>3. CASE At(j, "news", "rss") /\ Collect(j, job[j].anchor, <<>>)
  <2>1. Advances(j)
    BY <1>1, <1>2, <1>3, EmptyTyped, CollectFollows
  <2>2. QED BY <1>1, <2>1, NewsQuiet
<1>4. CASE /\ At(j, "news", "fetch")
           /\ Becomes(j, Fetching(IF job[j].queries = 1 THEN "rss" ELSE "fetch",
                                  job[j].anchor, job[j].queries - 1))
           /\ UNCHANGED loop
  <2> DEFINE stage == IF job[j].queries = 1 THEN "rss" ELSE "fetch"
             left == job[j].queries - 1
  <2>1. job[j].queries \in 0..MaxQueries /\ job[j].queries >= 1
    BY <1>1, <1>2, <1>4, NewsStage DEF At, Fetchings, NewsInv
  <2>2. /\ left \in 0..MaxQueries /\ stage \in {"fetch", "rss"}
        /\ stage = "fetch" => left >= 1
    BY <2>1, MaxQueriesAssumption
  <2>3. loop' = Nobody
    BY <1>1, <1>4, Idle DEF At, Blocking
  <2>4. Becomes(j, Fetching(stage, job[j].anchor, left))
    BY <1>4
  <2> HIDE DEF stage, left
  <2>5. Advances(j)
    BY <1>1, <1>2, <2>2, <2>3, <2>4, FetchingFollows
  <2>6. QED BY <1>1, <2>5, NewsQuiet
<1>5. QED BY <1>3, <1>4 DEF NoArticles

(* The pipeline returns.                                                   *)
LEMMA IngestEndsFits ==
  ASSUME IInv, NEW j \in Jobs, IngestEnds(j)
  PROVE  Written /\ Advances(j) /\ StatedTyped'
<1>1. /\ job[j].kind = "news" /\ job[j].stage = "ingested" /\ UNCHANGED <<graph, stated>>
      /\ Collect(j, job[j].anchor, job[j].events)
  BY DEF IngestEnds, At
<1>2. MayRun(j) /\ job[j].anchor \in Anchors /\ job[j] \in JobStates
  BY <1>1, NewsAnchor, Holding DEF Blocking
<1>3. job[j].events \in Seq(ParsedEvents)
  BY <1>1, <1>2, NewsStage DEF Ingestions
<1>4. Advances(j)
  BY <1>1, <1>2, <1>3, CollectFollows
<1>5. QED BY <1>1, <1>4, NewsQuiet

(* An entity is traced; the anchor is among those left or tried.           *)
LEMMA TraceEntityFits ==
  ASSUME IInv, NEW j \in Jobs, TraceEntity(j)
  PROVE  Written /\ Advances(j) /\ StatedTyped'
<1> DEFINE v == CHOOSE u \in job[j].toTrace : TRUE
           left == job[j].toTrace \ {v}
           tried == job[j].tried \cup {v}
           anchor == job[j].anchor
           s == [job[j] EXCEPT !.toTrace = left, !.tried = tried]
<1>1. job[j].kind = "news" /\ job[j].stage = "trace" /\ UNCHANGED <<graph, stated>>
  BY DEF TraceEntity, At
<1>2. /\ MayRun(j) /\ loop = j /\ job[j] \in Tracings /\ NewsInv(job[j])
  BY <1>1, NewsAnchor, NewsStage, Holding DEF Blocking
<1>3. /\ job[j].toTrace \in SUBSET Vids /\ job[j].tried \in SUBSET Vids /\ anchor \in Anchors
      /\ job[j].toTrace # {}
      /\ anchor \in Vids => anchor \in job[j].toTrace \cup job[j].tried
  BY <1>1, <1>2 DEF Tracings, NewsInv
<1>4. IF left = {} THEN Becomes(j, Answer(TRUE, anchor, tried)) /\ Release
      ELSE Becomes(j, s) /\ UNCHANGED loop
  BY DEF TraceEntity
<1>5. v \in job[j].toTrace
  BY <1>3
<1> HIDE DEF v
<1>6. /\ left \in SUBSET Vids /\ tried \in SUBSET Vids
      /\ anchor \in Vids => anchor \in left \cup tried
  BY <1>3, <1>5
<1>7. /\ s \in Tracings /\ s.kind = "news" /\ s.stage = "trace" /\ s.anchor = anchor
      /\ s.toTrace = left /\ s.tried = tried
  BY <1>1, <1>2, <1>6 DEF Tracings
<1> HIDE DEF left, tried, anchor, s
<1>8. Advances(j)
  <2>1. CASE left = {}
    <3>1. Becomes(j, Answer(TRUE, anchor, tried)) /\ Release
      BY <1>4, <2>1
    <3>2. anchor \in Vids => anchor \in tried
      BY <1>6, <2>1
    <3>3. anchor \in Anchors /\ TRUE \in BOOLEAN
      BY <1>3
    <3>4. QED BY <1>2, <1>6, <3>1, <3>2, <3>3, AnswerFollows
  <2>2. CASE left # {}
    <3>1. Becomes(j, s) /\ loop' = j
      BY <1>2, <1>4, <2>2
    <3>2. NewsInv(s) /\ IngestInv(graph', s) /\ s.stage \in Blocking
      BY <1>6, <1>7, <2>2 DEF NewsInv, IngestInv, Blocking
    <3>3. QED BY <1>2, <1>7, <3>1, <3>2, NewsFollows
  <2>3. QED BY <2>1, <2>2
<1>9. QED BY <1>1, <1>8, NewsQuiet

(* The graph cannot be opened.                                             *)
LEMMA NoGraphFits ==
  ASSUME IInv, NEW j \in Jobs, NoGraph(j)
  PROVE  Written /\ Advances(j) /\ StatedTyped'
<1>1. /\ job[j].kind = "news" /\ job[j].stage = "trace" /\ UNCHANGED <<graph, stated>>
      /\ Becomes(j, Answer(FALSE, job[j].anchor, {})) /\ Release
  BY DEF NoGraph, At
<1>2. MayRun(j) /\ job[j].anchor \in Anchors
  BY <1>1, NewsAnchor, Holding DEF Blocking
<1>3. FALSE \in BOOLEAN /\ {} \in SUBSET Vids
  OBVIOUS
<1>4. Advances(j)
  BY <1>1, <1>2, <1>3, AnswerFollows
<1>5. QED BY <1>1, <1>4, NewsQuiet

(* All the steps of an analysis.                                           *)
LEMMA NewsFits ==
  ASSUME IInv, NEW j \in Jobs, NewsStep(j)
  PROVE  Written /\ Advances(j) /\ StatedTyped'
BY PipelineFailsFits, ArticlesFit, NoArticlesFits, IngestFits, IngestFailsFits,
   IngestEndsFits, TraceEntityFits, NoGraphFits DEF NewsStep

-----------------------------------------------------------------------------
(* The empty graph is a graph.                                             *)
LEMMA EmptyFits == EmptyGraph \in Graphs
<1>1. {} \in SUBSET Commodities /\ {} \in SUBSET (Tickers \X Commodities)
      /\ {} \in SUBSET (Events \X Vids)
  OBVIOUS
<1>2. QED BY <1>1 DEF EmptyGraph, Graphs, NoEvent

(* The invariant holds at first.                                           *)
LEMMA InitInv ==
  ASSUME Init
  PROVE  IInv
<1>1. /\ graph = EmptyGraph /\ loop = Nobody /\ job = [j \in Jobs |-> New] /\ stated = {}
  BY DEF Init, InitJobs
<1>2. graph \in Graphs
  BY <1>1, EmptyFits
<1>3. /\ New \in JobStates /\ New.kind = "none" /\ New.stage = "new"
      /\ New.stage \notin Blocking
  BY DEF JobStates, New, Blocking
<1>4. job \in [Jobs -> JobStates] /\ \A j \in Jobs : job[j] = New
  BY <1>1, <1>3
<1>5. cik \in [Tickers -> {"unread", "registered", "foreign"}]
  BY DEF Init, InitEdgar
<1>6. script \in Scripts /\ script.stage = "off"
  BY MaxScriptsAssumption DEF Init, InitScript, Scripts
<1>7. TypeOK
  BY <1>1, <1>2, <1>3, <1>4, <1>5, <1>6, JobsAssumption DEF TypeOK, Scripts
<1>8. \A j \in Jobs : JobInv(graph, job[j])
  BY <1>3, <1>4 DEF JobInv, Added, NewsInv, IngestInv, SeederInv, TraceInv
<1>9. ReportsInv
  BY <1>3, <1>4 DEF ReportsInv, Added
<1>10. ScriptInv
  BY <1>6 DEF ScriptInv
<1>11. QED BY <1>7, <1>8, <1>9, <1>10 DEF IInv

(* What the traces say that are answered in this step.                     *)
Told == \A i \in Jobs : job[i] = New => Telling(job'[i])

(* A step of no request answers no trace.                                  *)
LEMMA NothingTold ==
  ASSUME UNCHANGED job
  PROVE  Told
<1>1. New.kind # "trace"
  BY DEF New
<1>2. QED BY <1>1 DEF Told, Telling

(* Every step of a request keeps it and lets the graph grow.               *)
LEMMA RequestKeeps ==
  ASSUME IInv, NEW j \in Jobs, Request(j) \/ JobStep(j)
  PROVE  IInv' /\ Written /\ Told
<1>1. Written /\ Advances(j) /\ StatedTyped'
  BY RefreshFits, CalibrateFits, SeedFits, AnalyzeFits, TraceFits,
     EdgarFits, CalibrationFits, NewsFits DEF Request, JobStep
<1>2. CikTyped' /\ UNCHANGED script
  <2>1. CikTyped
    BY DEF IInv, TypeOK, CikTyped
  <2>2. UNCHANGED cik => CikTyped'
    BY <2>1 DEF CikTyped
  <2>3. QED BY <2>2, RefreshFits, EdgarFits DEF Request, JobStep
<1>3. /\ job' \in [Jobs -> JobStates]
      /\ loop' \in Jobs \cup {Nobody}
      /\ \A i \in Jobs : loop' = i <=> job'[i].stage \in Blocking
      /\ \A i \in Jobs : JobInv(graph', job'[i])
      /\ ReportsInv' /\ Told
  BY <1>1, AdvancesKeeps DEF Told
<1>4. TypeOK'
  BY <1>1, <1>2, <1>3 DEF IInv, TypeOK, Written, StatedTyped, CikTyped
<1>5. ScriptInv'
  BY <1>1, <1>2, ProgressStays DEF IInv, ScriptInv, Written
<1>6. QED BY <1>1, <1>3, <1>4, <1>5 DEF IInv

(* So does every step of the seed script.                                  *)
LEMMA ScriptKeeps ==
  ASSUME IInv, ScriptStep, UNCHANGED cik
  PROVE  IInv' /\ Written /\ UNCHANGED job
<1>1. /\ Written /\ StatedTyped' /\ script' \in Scripts /\ ScriptInv'
      /\ UNCHANGED <<loop, job>>
  BY ScriptFits
<1>2. TypeOK'
  BY <1>1 DEF IInv, TypeOK, Written, StatedTyped, Scripts
<1>3. \A j \in Jobs : JobInv(graph', job[j])
  BY <1>1, JobInvStays DEF IInv, TypeOK, Written
<1>4. ReportsInv'
  BY <1>1 DEF IInv, ReportsInv
<1>5. QED BY <1>1, <1>2, <1>3, <1>4 DEF IInv

(* And every step of the system.                                           *)
LEMMA NextKeeps ==
  ASSUME IInv, [Next]_allVars
  PROVE  IInv' /\ Written /\ Told
<1>1. CASE UNCHANGED allVars
  <2>1. IInv'
    BY <1>1 DEF allVars, IInv, TypeOK, ReportsInv, ScriptInv
  <2>2. QED BY <1>1, <2>1, NothingWritten, NothingTold DEF allVars
<1>2. CASE Next
  BY <1>2, RequestKeeps, ScriptKeeps, NothingTold DEF Next
<1>3. QED BY <1>1, <1>2

(* The inductive invariant: the types, what each request and the script    *)
(* know, and that no edge is reported twice.                               *)
THEOREM Invariance == Spec => []IInv
<1>1. Init => IInv
  BY InitInv
<1>2. IInv /\ [Next]_allVars => IInv'
  BY NextKeeps
<1>3. QED BY <1>1, <1>2, PTL DEF Spec

-----------------------------------------------------------------------------
(* What follows.                                                           *)

(* With nothing left of the plan, all of it is in effect.                  *)
LEMMA ProgressOver ==
  ASSUME NEW g, Progress(g, <<>>)
  PROVE  \A i \in 1..Len(Plan) : Holds(g, Plan[i])
<1>1. PICK n \in 0..Len(Plan) : Len(<<>>) = Len(Plan) - n /\ \A i \in 1..n : Holds(g, Plan[i])
  BY DEF Progress
<1>2. Len(Plan) \in Nat /\ Len(<<>>) = 0
  BY PlanFits, LenProperties
<1>3. n = Len(Plan)
  BY <1>1, <1>2
<1>4. QED BY <1>1, <1>3

(* Whatever is asked of the server and wherever it fails, every variable   *)
(* keeps its type, and the event loop is held exactly by the request that  *)
(* stands between two of its blocking queries.                             *)
THEOREM TypesHold == Spec => []TypeOK
BY Invariance, PTL DEF IInv

(* client.py, graph_updater.py: no writer undoes what another one knows,   *)
(* however many refreshes, calibrations, analyses and seedings run.        *)
THEOREM KnowledgeGrows == Spec => KnowledgeKept
<1>1. IInv /\ [Next]_allVars => Grows(graph, graph')
  BY NextKeeps DEF Written
<1>2. Spec => [][Grows(graph, graph')]_allVars
  BY Invariance, <1>1, PTL DEF Spec
<1>3. QED BY <1>2 DEF KnowledgeKept, Grows

(* seed_production_data.py, invoke_handlers/seed.py: a seeding that ran to *)
(* its end has stored all of its data, though every edge and every link is *)
(* dropped whose ends are not there when it is written, and its            *)
(* verification never reports a company missing.                           *)
THEOREM SeedingComplete == Spec => []SeedComplete
<1>1. IInv => SeedComplete
  <2> SUFFICES ASSUME IInv PROVE SeedComplete
    OBVIOUS
  <2>1. ASSUME Progress(graph, <<>>)
        PROVE  /\ ToSet(SeedDepends) \subseteq StoredEdges(graph)
               /\ ToSet(SeedRequires) \subseteq graph.requires
               /\ \A i \in 1..Len(SeedEvents) :
                    {SeedEvents[i].id} \X ToSet(SeedEvents[i].targets) \subseteq graph.impacts
    <3>1. \A i \in 1..Len(Plan) : Holds(graph, Plan[i])
      BY <2>1, ProgressOver
    <3>2. QED BY <3>1, PlanDone
  <2>2. script.stage \in {"verifying", "complete"} => Progress(graph, <<>>)
    BY DEF IInv, ScriptInv
  <2>3. \A j \in Jobs : At(j, "seed", "ended") /\ job[j].ok => Progress(graph, <<>>)
    BY DEF IInv, JobInv, SeederInv, At
  <2>4. script.stage # "incomplete"
    BY DEF IInv, ScriptInv
  <2>5. QED BY <2>1, <2>2, <2>3, <2>4 DEF SeedComplete
<1>2. QED BY Invariance, <1>1, PTL

(* invoke_handlers/edgar_refresh.py: two refreshes that report success     *)
(* never both count an edge as new, although each looks first and writes   *)
(* later, and the seed script may write in between.                        *)
THEOREM EdgesCountedOnce == Spec => []NewCountedOnce
<1>1. IInv => NewCountedOnce
  <2> SUFFICES ASSUME IInv, NEW i \in Jobs, NEW j \in Jobs, i # j,
                      At(i, "edgar", "ended"), At(j, "edgar", "ended"),
                      job[i].success, job[j].success
               PROVE  job[i].added \cap job[j].added = {}
    BY DEF NewCountedOnce
  <2>1. Added(job[i]) = job[i].added /\ Added(job[j]) = job[j].added
    BY DEF Added, At
  <2>2. Added(job[i]) \cap Added(job[j]) = {}
    BY DEF IInv, ReportsInv
  <2>3. QED BY <2>1, <2>2
<1>2. QED BY Invariance, <1>1, PTL

(* graph_updater.py: what a refresh reports as added, but for the edges it *)
(* counted without writing them, is in the graph then and ever after.      *)
THEOREM ReportsAreStored ==
  Spec => [](\A j \in Jobs : Added(job[j]) \subseteq StoredEdges(graph))
<1>1. IInv => \A j \in Jobs : Added(job[j]) \subseteq StoredEdges(graph)
  BY DEF IInv, JobInv
<1>2. QED BY Invariance, <1>1, PTL

(* graph/client.py, trace_impact: the recursion over companies already     *)
(* seen, hop by hop and whatever the order of the rows, names exactly the  *)
(* companies that a chain of edges within the hops joins to the target,    *)
(* each with the calibration of its own edge to it; and no refresh,        *)
(* calibration, analysis or seeding that follows takes one of them back    *)
(* out of the target's downstream.                                         *)
THEOREM TracesAreDownstream == Spec => TraceFindsDownstream
<1> DEFINE TracesStand == \A j \in Jobs : TraceInv(graph, job[j])
<1>1. IInv /\ [Next]_allVars => Told /\ TracesStand'
  <2> SUFFICES ASSUME IInv, [Next]_allVars PROVE Told /\ TracesStand'
    OBVIOUS
  <2>1. IInv' /\ Told
    BY NextKeeps
  <2>2. QED BY <2>1 DEF IInv, JobInv
<1>2. Told /\ TracesStand' =>
        \A j \in Jobs :
          LET s == job'[j] IN
          s.kind = "trace" /\ s.success =>
            /\ job[j] = New => TellsOf(graph, s)
            /\ s.target \notin Tickers \cap Commodities =>
                 DOMAIN s.impacted \subseteq Downstream(graph', s.target, s.hops)
  BY DEF Told, Telling, TraceInv
<1> HIDE DEF TracesStand
<1>3. Spec => [][Told /\ TracesStand']_allVars
  BY Invariance, <1>1, PTL DEF Spec
<1>4. QED BY <1>2, <1>3, PTL DEF TraceFindsDownstream

(* ingestion/event_ingestor.py: an event reported as ingested is linked to *)
(* each of its entities that the graph held, though a query that finds     *)
(* nothing to link succeeds in silence.                                    *)
THEOREM IngestionLinks == Spec => []IngestedIsLinked
<1>1. IInv => IngestedIsLinked
  <2> SUFFICES ASSUME IInv, NEW j \in Jobs,
                      At(j, "news", "ingest") \/ At(j, "news", "ingested"),
                      NEW i \in 1..Len(job[j].events), i \in job[j].succeeded
               PROVE  {job[j].events[i].id} \X
                        (ToSet(Entities(job[j].events[i])) \cap job[j].known)
                          \subseteq graph.impacts
    BY DEF IngestedIsLinked
  <2>1. Ingested(graph, job[j])
    BY DEF IInv, JobInv, IngestInv, At
  <2>2. LinkedTo(graph, job[j].events[i], job[j].known)
    BY <2>1 DEF Ingested
  <2>3. QED BY <2>2 DEF LinkedTo
<1>2. QED BY Invariance, <1>1, PTL

(* event_parser.py, event_ingestor.py: the parser never produces an event  *)
(* that the client refuses, whatever the articles say.                     *)
THEOREM EventsLostOnlyToGraph == Spec => []LostOnlyToGraph
<1>1. IInv => LostOnlyToGraph
  BY DEF IInv, JobInv, IngestInv, Ingested, LostOnlyToGraph, At
<1>2. QED BY Invariance, <1>1, PTL

(* invoke_handlers/news_analysis.py: an answer that reports success traced *)
(* the company it was asked about, whatever the pipeline found or failed.  *)
THEOREM AnchorTraced == Spec => []AnchorAlwaysTraced
<1>1. IInv => AnchorAlwaysTraced
  BY DEF IInv, JobInv, NewsInv, AnchorAlwaysTraced, At
<1>2. QED BY Invariance, <1>1, PTL
=============================================================================
