----------------------------- MODULE EventParser -----------------------------
(***************************************************************************)
(* finance_mcp/news/event_parser.py: an article becomes an event when a    *)
(* disruption rule matches it.  An article is the id its URL and title     *)
(* hash to, the rules whose pattern occurs in it, and the companies and    *)
(* commodities whose pattern occurs in it.                                 *)
(***************************************************************************)
EXTENDS Integers, Sequences, Subsequences, SequencesExt

CONSTANTS
  KnownCompanies,    \* entity ids of _COMPANY_PATTERNS, in order
  KnownCommodities   \* entity ids of _COMMODITY_PATTERNS, in order

(* The severities of _DISRUPTION_RULES, in order, with their event type.   *)
Group(type, severities) ==
  [i \in 1..Len(severities) |-> [type |-> type, severity |-> severities[i]]]

Rules ==
  Group("natural_disaster", <<8, 9, 7, 8, 8, 6>>)
    \o Group("geopolitical", <<9, 8, 8, 7, 7, 9, 8, 7>>)
    \o Group("industrial", <<8, 8, 6, 6, 6, 5, 7, 8, 6, 5>>)
    \o Group("labour", <<7, 7, 6, 5>>)
    \o Group("supply_chain", <<6, 7, 5, 4, 4, 7, 5>>)
    \o Group("financial", <<8, 8, 7, 6, 7>>)
    \o Group("geopolitical", <<5, 7, 7, 7, 6, 8, 7, 5>>)
    \o Group("financial", <<5, 5, 4, 6, 4, 5, 4>>)
    \o Group("supply_chain", <<5, 5, 5, 4, 4, 4, 3, 2, 3, 2, 5, 4, 3>>)
    \o Group("industrial", <<4, 6, 4>>)
    \o Group("supply_chain", <<2, 2, 1, 3>>)

SeverityCap == 10
SeverityMin == 1

(* The first match sets the type; severities add up to the cap.            *)
(* Variant without the cap:                                                *)
ScoreUncapped(score, rule) ==
  [severity |-> score.severity + rule.severity,
   type |-> IF score.severity = 0 THEN rule.type ELSE score.type]

Score(score, rule) ==
  [severity |-> IF score.severity + rule.severity > SeverityCap THEN SeverityCap
                ELSE score.severity + rule.severity,
   type |-> IF score.severity = 0 THEN rule.type ELSE score.type]

Scored(hits) ==
  LET after[i \in 0..Len(Rules)] ==
        IF i = 0 THEN [severity |-> 0, type |-> "disruption"]
        ELSE IF i \in hits THEN Score(after[i - 1], Rules[i])
        ELSE after[i - 1]
  IN after[Len(Rules)]

(* parse_news_article: the companies come before the commodities.          *)
ParsedEvent(article) ==
  [id |-> article.id,
   severity |-> Scored(article.hits).severity,
   companies |-> Those(KnownCompanies, article.names),
   commodities |-> Those(KnownCommodities, article.names)]

(* parse_articles drops the articles without a signal.                     *)
ParseArticles(articles) ==
  LET parsed == [i \in 1..Len(articles) |-> ParsedEvent(articles[i])]
  IN Those(parsed, {e \in ToSet(parsed) : e.severity >= SeverityMin})
=============================================================================
