# A TLA+ model of QuantVex

TLA+ modules, TLC configurations and TLAPS proofs for the services of this
repository: a FastAPI server (`mcp_server/`) whose tools answer with market
quotes, live trade streams, supply-chain impact, news analysis and the verdict
of an adversarial debate, over Redis, Memgraph, SQLite and several market-data
providers. Paths below are relative to the repository root (the path prefix
`src/` of PROJECT.json is that root).

Everything in the server runs in one process on one asyncio event loop, so an
action of a module is the stretch of one coroutine between two suspension
points. That is the granularity at which requests interleave, and most of what
this project checks is what may happen at those points.

## Inventory

| Part | State it keeps | Operations | What is hard |
|---|---|---|---|
| API key check and rate limiter (`mcp_server/server.py` 71-102) | one deque of admission times per key | `get_api_key`, `check_rate_limit` | window boundary, deque cap |
| `quote.latest` waterfall (`invoke_handlers/quote_latest.py`) | none of its own | `handle_quote_latest`, provider fallback | stale caches, overlapping misses, Redis going away in the middle |
| Redis snapshots (`cache/redis_client.py`) | a hash per symbol, a stream per symbol | `set_snapshot`, `get_snapshot`, `is_snapshot_fresh`, `add_tick` | field-wise overwrite, two clocks |
| Semantic cache (`cache/qdrant_client.py`) | an expiring answer per symbol and query | `search_similar`, `store_response` | its age is not the caller's age |
| Stream tool (`invoke_handlers/quote_stream.py`) and Binance connector (`connectors/binance_ws.py`) | registry; tables of subscriptions, tasks, sockets and running ids | subscribe, unsubscribe, listen/reconnect loop | overlapping unsubscribes, cancellation, close failing |
| Finnhub and Alpha Vantage connectors | time of the last call | throttled, retried `get_quote` | check-then-act across a sleep |
| Verdict tracking (`src/finance_mcp/verdict_history`) | SQLite rows; sleeping accuracy tasks | `record_verdict`, `_schedule_price_updates` | thirty-day in-memory sleep, restart, cancelled recorder |
| Chat agent (`mcp_server/chat_agent.py`) | one `conversation_history` | `/chat` | interleaved turns, sliced window |
| Supply graph (`graph/client.py`) and the impact tool | Memgraph vertices and edges | MERGE and MATCH writes, traversal within hops | writers that share attributes, edges whose ends are missing |
| EDGAR refresh (`edgar/`) | remembered CIKs | download, extraction, three queries per relationship | others write between the queries; a failure skips one relationship |
| Calibration (`causal/`) | none | read edges, download prices, write beta, lag, fit | edges read before the downloads and written after them |
| News analysis (`news/`, `ingestion/`) | none | query ladder, RSS fallback, parser, ingestion, traces | partial writes; the anchor must survive every failure |
| Seeding (`seed_production_data.py`, `/seed`) | its place in the data | upserts, verification | stopped and run again beside the server |
| Adversarial reasoning (`reasoning/`) | none | bull, bear, rebuttal, judge | thresholds, agent failure |
| Streaming analysis and its page (`invoke_handlers/stream_analysis.py`, `StreamingAnalysis.tsx`, `ChatPage.tsx`) | steps shown, EventSource | server-sent events, error, unmount | cancelled generator, connection lost at any point |
| Market endpoints, metrics, rest of the frontend, other scripts | caches, counters, polling | | failed results cached, late answers |

How they interact: `/invoke` calls a tool handler; `quote.latest` reads and
writes Redis snapshots which the Binance listener also writes; the chat agent
and the debate call the same connectors, so one throttle serves all of them;
both ways to run a debate record the verdict; EDGAR refresh, ingestion,
calibration and seeding write one graph that the impact tool traverses. `PROJECT.json`
lists for each part whether it is modelled and every hazard found, at its line.

What each part must guarantee (the properties in *italics* are checked below):
a client never gets more than its limit per window (*WindowBound*) nor is
refused below it (*RejectedOnlyWhenFull*); a quote from Redis is as young as
the caller asked, but for the clocks (*RedisAnswerFresh*), one from the semantic
cache as young as that cache's window (*SemanticAnswerRecent*; not as the caller
asked, see *CachedWithinMaxAge*), and an older price never replaces a newer one
(*SnapshotNeverRegresses*); a subscription ends exactly
once and leaks nothing (*RegistryMatchesConnector*, *NoOrphan*,
*ImplementsLifecycle*); every recorded verdict is judged against the right
prices at the right time (*ChecksAreRight*) and never altered
(*ImplementsLedger*); the language model is only sent conversations it can answer (*SentIsAnswerable*);
providers are not called faster than agreed (*OwnCallsSpaced*,
*AllCallsSpaced*); no writer of the graph undoes what another knows
(*KnowledgeKept*), reports are true of the graph (*NewCountedOnce*,
*IngestedIsLinked*, *SeedComplete*) and a trace finds what is downstream
(*TraceFindsDownstream*, *AnchorAlwaysTraced*); the verdict follows the evidence
(*VerdictFollowsEvidence*) and, but for one exact case, the side with more of it
(*WinnerHasAdvantage*); and the page shows only
recorded verdicts (*ShownIsRecorded*) and never waits for ever (*AnalysisEnds*).

## Modules

| Module | Models | State against code |
|---|---|---|
| `RateLimit` | `check_rate_limit`, `get_api_key` | `bucket` is `_rate_limits`; `granted` is a history variable |
| `SubscriptionLifecycle` | nothing in the code: what a client is promised (absent, live, ending, ended) | |
| `StreamSubscriptions` | quote_stream.py over binance_ws.py | `registry` is `_active_subscriptions`; `subs`, `running`, `tasks`, `conns` the connector's tables; `listener` is the program counter of `_listen`; `pc` that of each unsubscribe request |
| `QuoteCache` | quote_latest.py, the snapshot and semantic caches, the stream's snapshot writes | `snapshot` and `semantic` hold, for each symbol, when the price was obtained and the stamp stored with it; prices themselves are not kept |
| `ProviderThrottle` | `_respect_rate_limit` and the retries of `get_quote`, of one connector object that all requests share | `last` is `_last_call_time`; `calls` is a history variable |
| `VerdictTracking` | tracker.py, db.py and its two callers | `rows` is the table; `recorder` and `task` are program counters of `record_verdict` and `_schedule_price_updates` |
| `VerdictLedger` | nothing in the code: what readers of the history are promised (entered once, at most two checks, each entered once, in time and marked as it deserves) | |
| `ChatHistory` | `QuantVexChatAgent.chat` and `_history_window` | `history` is `conversation_history`; `sent` is the last request to the model |
| `SupplyGraph` | the queries of graph/client.py and of graph_updater.py, as operators on a graph | a graph is a record of functions and sets: names of companies, edges with who weighted them, whether EDGAR wrote them and which calibration they carry |
| `GraphJobs` | the event loop the graph's clients share | `loop` is the request in a stretch of blocking calls; `job` holds the locals and the place of each request; `stated` is a history variable |
| `Subsequences` | selecting from a sequence (`Those`), as a recursive function | |
| `EdgarRefresh`, `Calibration`, `SeedGraph`, `EventParser` with `NewsAnalysis` | edgar_refresh.py and edgar/, causal/, the seed script and endpoint, event_parser.py and the news pipeline | `cik` is `_CIK_CACHE`; `script` is the place of the script in its data |
| `GraphServices` | the composition of the five above, with the trace_impact tool | |
| `Debate` | reasoning/, quote_service.py, the tool and the generator that run a debate | `todo` is the program counter: what is left of a straight-line handler; `found`, `judged` and `row` are its results |
| `AnalysisPage` | `Debate` behind a connection, with StreamingAnalysis.tsx and ChatPage.tsx | `wire` holds events under way; `source` is the EventSource, `page` what the message shows |

`MC<Module>` gives each of them its small sets; `<Module>.tla` also holds, next
to a definition, variants of it that a plausible mistake would produce. A
variant is never used by the specification: PROJECT.json's mutants put it in
the place of the definition to see that the property notices.

### How the steps follow the code

*RateLimit.* One action, since nothing in the check suspends. The deque is
built with `maxlen`, so appending to a full one drops the oldest entry; the
model keeps that (`Push`) and *LiveAdmissionsKept* says it never matters.

*StreamSubscriptions.* `Subscribe` is one step: the connector's bookkeeping and
the registry's have no suspension between them. `unsubscribe` suspends twice.
`RequestUnsubscribe` runs up to the first suspension (cancel and await the
listener; or, if the task is already over, on to closing the socket),
`TaskEnded` from there to the second, `CloseEnded` and `CloseRaised` finish. A
`KeyError` from a `del` that another request already made is caught by the
code and is the `Fail` branch. Cancellation is asyncio's: a pending request is
delivered where the task is suspended, and inside the `async with` it first
closes the socket.

*QuoteCache.* Redis is called synchronously, so a request is atomic up to the
provider fetch. Answers of Finnhub and Alpha Vantage are created, stored and
returned in one stretch; the Binance REST quote is created inside an
`async with` whose exit suspends, hence the stage `leaving`. Redis going up and
down is an action that may come between any two steps. The connector of Binance
stamps trades in local time (`LocalOffset`), everybody else in UTC.

*ProviderThrottle.* Finnhub and Alpha Vantage share the code, with other
numbers. `Respect` reads the last time and either calls or sleeps; the time is
written only when the call goes out.

*VerdictTracking.* The row is written in a worker thread: a client that leaves
cancels the recorder (`orphaned`), not the thread. `Restart` keeps `rows` and
drops every recorder and task, as the code has no start-up recovery.

*GraphServices.* The graph driver is synchronous, so a request of the server
holds the loop from its first query to its next await (`Hold`, `Release`); only
the seed script, another process, acts between two of its queries. Each write
is a step of its own and may fail, because a failure between two writes leaves
the first; the queries of one trace are a single step, so what is said of a
trace is said of one the seed script does not write into (a write between its
queries could only add companies: no writer takes an edge away). A trace chooses freely among the rows that name a company twice (`Traces`): the
queries have no ORDER BY. Which relationships a filing holds, which articles
arrive and which patterns match are chosen freely from the instance.

*Debate.* The two handlers are straight lines, so a plan of calls, events, the
judgement and the recording is worked off from its head. A call finds something
or raises; an agent may raise as a whole, which drops its remaining calls and
leaves the fallback case. Confidences are whole percents, with the weights and
thresholds of the code. Rebuttal, summary, signals and the composite confidence
change no decision and are left out.

*AnalysisPage.* Events arrive in order or not at all. The generator is
cancelled at a yield or await; a cancelled recording may still have written the
row. A React component that is unmounted closes its EventSource; one that is
not closed would connect again and run the analysis again.

*ChatHistory.* A turn is question, window, model, tools, window, model, answer;
turns of different requests interleave at each await. Texts are abstracted to
the turn they belong to.

## Runs

`expect: pass` runs finish with no error; deadlock is checked except where the
system may stop because a bound is reached or because nothing is left to do (a
service with no request pending). Times are in ticks; only their ratios matter.

| Run | Shows | Bounds |
|---|---|---|
| `rate_limit` | *WindowBound*, *RejectedOnlyWhenFull*, *LiveAdmissionsKept* | limit 3 in 3 ticks, 8 ticks, so the window slides over more than two generations |
| `stream` | unsubscribes of one id overlap at every suspension point and against every listener state, `close()` may raise: the tables agree, nothing leaks, all are answered, only an overlap or a raising close makes one fail, a lost connection is retried, and `SubscriptionLifecycle` is implemented | one id (ids share no entry of the tables), 3 requests (a third is needed to meet a second that has already failed), delay cap 4, 2 messages |
| `quote` | how old what each cache serves can be (*RedisAnswerFresh*, *SemanticAnswerRecent*), live answers kept although Redis fails (*LiveAnswerKept*), no regression of a stock's snapshot (*SnapshotNeverRegresses*), every request answered whichever providers fail (*EveryRequestAnswered*) | two overlapping requests, for a stock (maximum age 2, remembered for 1, so that each cache is asked in turn) and for a pair that the trade stream writes and whose REST quote is stored under its coin; trades up to one tick late, stamped by a clock one tick ahead of UTC; 2 ticks |
| `throttle` | each caller keeps its distance from its own calls, retries included; every `get_quote` returns | two callers, 3 attempts, interval 2, calls begun in the first two ticks |
| `verdict` | accuracy is judged right and in time; `VerdictLedger` is implemented, so nothing is written twice or altered; every task ends although prices are missing and writes fail, unless a restart loses it | waits of 1 and 2, prices at, below and above the 2 % limit, 1 restart, the client may leave |
| `chat` | a turn that has the chat for itself sends a well-formed request with its question | two requests, window 4, up to 2 tools, 3 turns, so the window cuts tool turns |
| `graph` | any two requests and one run of the seed script, every query of which may fail: *KnowledgeKept*, *SeedComplete*, *NewCountedOnce*, *TraceFindsDownstream*, *IngestedIsLinked*, *LostOnlyToGraph*, *AnchorAlwaysTraced*, *EveryRequestEnds* | three companies of which one is known to EDGAR only, a commodity that two of them require (so that the records of a trace replace each other), a filing that names one company as supplier and customer (so that a trace meets a cycle), two articles in one batch (so that the second must be written after the first failed), two hops, one query of the ladder; two requests already meet in every pair of kinds, and the script interleaves with both |
| `debate` | every outcome of every call for four questions, both endpoints, a connection that breaks at any point and a user who leaves: *VerdictFollowsEvidence*, *WinnerHasAdvantage*, *ShownIsRecorded*, *AnalysisEnds* | one debate (debates share no state), two events under way, so that the connection can break with a verdict behind another event |

*SentIsAnswerable* needs the window to hold a turn with its tools
(`MaxTools + 2 <= WindowSize`); the code's window is 20. It is stated of turns
that have the chat for themselves because overlapping turns do break it:
between the tool calls of one turn and their results the question of another is
appended, and the model is sent calls without results, also by later turns as
long as the window holds the divided one.

Runs that expect a violation, each a disagreement between the code and what a
document, a comment or a docstring says (quoted in PROJECT.json "findings"):

- `quote_age`: a query whose answer is remembered is answered before
  `maxAgeSec` is looked at, with a price older than the caller allowed.
- `verdict_info`: with the INFO level on, logging raises after the row was
  written and the accuracy task is never created.
- `throttle_burst`: callers that arrive within one interval wake together.
- `graph_unknown`: private companies of all filings share the ticker UNKNOWN,
  and a trace passes through it to companies that no filing connects.

Two more disagreements are findings of runs that pass, because the property
states what the code does, exactly, and its comment what the document says:

- `graph`, *TraceFindsDownstream*: a trace follows edges into its target, names
  the target itself where it lies on a cycle, and takes a calibration only from
  a company's own edge; docs/architecture.md:409-417 has the edges out of the
  target, excludes it (`WHERE dep.ticker <> $ticker`), and attaches the
  calibration of the last edge of the shortest path.
- `debate`, *WinnerHasAdvantage*: bear_agent.py:63-64 says that confidences are
  symmetric "so that the verdict reflects evidence quality, not structural
  bias". They are not: news is worth 8 and 6 to the bull, 12 and 10 to the
  bear. The property says what that comes to. Of equal evidence there is
  exactly one kind that decides, events and a cascade without a quote, and it
  is a SELL (49 against 57; with dependents 61 against 69). Evidence that
  the losing side has too never makes a BUY or a STRONG verdict. The tables of
  docs/architecture.md:438-454 are yet other numbers, under which dependents
  found by both would be a STRONG SELL (47 against 63).

Seen while modelling, without a property of their own.

- Quotes: the trade stream stamps local time and freshness subtracts UTC
  (binance_ws.py:181, redis_client.py:120), so that a clock ahead of UTC
  stretches the age by its lead: that is `Ahead` in *RedisAnswerFresh*, and a
  clock behind UTC only makes caches miss; the stream tool accepts channel `quotes`, but the connector drops every ticker
  event; a quote without volume keeps the volume of the one before it in the
  Redis hash; a quote for BTCUSDT is stored under BTC, where nobody asking for
  BTCUSDT looks; `quote is ([\d.]+)` reads 5e-05 as 5.
- Verdicts: the checks live in a sleeping coroutine, and a restart within
  thirty days loses them (tracker.py:117); a client that leaves while a verdict
  is written leaves a row that is never checked.
- Chat: the history is not capped, and its window counts 20 messages where the
  documents say turns.
- Graph: an edge whose MATCH finds no filer is counted as new
  (graph_updater.py:125), and the filer's vertex is never created; a ticker
  once not found at the SEC is never looked up again; `companies_discovered`
  counts known companies too; of two overlapping calibrations the older prices
  may be written last; the seed run after a refresh overwrites a weight while
  its source still says EDGAR; a commodity trace gives a dependent the
  calibration of a direct edge or none, depending on the order of rows;
  entities the parser knows but the seed lacks (SEMICONDUCTOR, NICKEL and
  others) lose their edges and traces silently; the seed has 62 companies and
  69 edges where docs/architecture.md:120 and 518 say 57 and 64.
- Debate: two bullish words and no evidence at all make STRONG BUY (55 against
  35), as a framed question does without an advantage of evidence, which is why
  *WinnerHasAdvantage* is about questions that are not framed; the event after a failed bull names an attack target
  that its result has not; `_extract_ticker` takes any short word of a question.
- Operation: /health ignores the result of `ping()`; metrics never count a miss;
  StatusBar.tsx:23 compares with "healthy" where the server says "ok".

## Fairness

`StreamSubscriptions`: the event loop runs every ready task, and connects,
closes and sleeps end (each has a timeout in the library): weak fairness of
each listener step but `ConnectionLost` and `Receive`, and of the steps that
resume a request. Nothing makes clients unsubscribe or peers send.
`QuoteCache`: each provider call ends (they have timeouts). `ProviderThrottle`:
time passes while somebody waits, timers fire, calls end. `VerdictTracking`:
time passes, timers fire and worker threads finish. `GraphServices`: a request
that has begun goes on (downloads and model calls have timeouts, queries return
or raise); the script needs no fairness. `AnalysisPage`: the server's steps, for
the same reasons, and the browser's handling of its events; nothing makes a
connection break or a user leave. No run assumes strong
fairness, and none assumes that a client asks for anything.

## Proofs

TLAPS proves for every value of the constants what TLC checks on the
instances above.

**RateLimitProofs.** `WindowBound` is about all admissions ever made, the code
only keeps a deque. `IInv` links the two: the deque is the tail of the history
(`BucketIsTail`), the history is in time order (`HistoryOrdered`), and what was
popped had expired (`PoppedExpired`). With that a new admission, made when the
deque is shorter than the limit, cannot be the one too many in any window.

**ThrottleProofs.** The noted time of the last call is never earlier than any
call (`LastIsLatest`); hence a sleeper wakes at least an interval after its own
earlier calls although others move the noted time meanwhile
(`OwnCallsKeepDistance`). With a single caller that is the limit itself
(`LimitKeptAlone`); with more it is not, see `throttle_burst`.

**StreamProofs.** For any number of ids and of overlapping requests, whether or
not closing raises. The entries of an id disappear in one order (running, task,
socket, then both tables together: `Nested`), a live listener keeps its task
entry and is in `running` exactly until it is cancelled (`ListenerOwns`), and a
waiting request has already taken the entries before the one it waits for
(`RequestInv`). So whichever request finds the last entry is the only one to
acknowledge (`TablesAgree`), nothing can be orphaned (`NothingOrphaned`), and
each step is a step of `SubscriptionLifecycle` or invisible (`Refinement`): in
particular no trade is published once an unsubscribe of its id has begun. A
request fails only if it met another one of its id or a close that raised
(`FailuresExplained`): an id without its task entry but still in the table is
held by a request that closes its socket, or by nobody because that close
raised (`Closing`).

**VerdictProofs.** For any number of analyses and restarts, all prices and
waits, whatever the log level lets through. The accuracy task computes a check
from what it was spawned with and fetched before it last slept, never from the
row. `RowTells` says that the row agrees with that, `ColumnsEmpty` that nobody
has filled the column it is on its way to, `InTime` that it is nowhere before
its time. From these follow that checks are right (`ChecksRight`) and that each
step is an entry, a check or a day of `VerdictLedger`, or invisible there
(`Refinement`); restarts and cancelled recorders are invisible.

**QuoteProofs.** For any number of symbols and of overlapping calls, all ages
and recency windows, every offset of the local clock, with Redis coming and
going. A snapshot was obtained in the past and carries that time, as its
writer's clock tells it (`SnapshotsTrue`); what is remembered of a stock expires
a window after its price was obtained (`RememberedTrue`); and only coins reach
the stage in which a quote grows old before it is stored (`CallsTrue`). Then an
answer from Redis is younger than its caller allows, plus the lead of the local
clock for a streamed symbol and for no other (`SnapshotsFresh`), one from the
semantic cache is within its window, whatever its caller allows
(`SemanticAnswersRecent`), no snapshot of a stock regresses (`NeverRegresses`),
and a live answer is found in the snapshot under every symbol that names its own
quotes (`LiveAnswersKept`).

**GraphProofs.** For every set of companies, filings, articles and events, all
seed data that name only themselves, and any number of requests of each kind.
Every safety property of the run `graph` is proved. The writers share no
protocol but the form of their queries, so the argument has three parts.

1. *Each query lets the graph grow* (`Grows`, query by query, filing and
   calibration included), and nobody writes anything else: `KnowledgeGrows`.
2. *What a request knows* (`JobInv`) is about what grows, so no other writer
   disturbs it (`JobInvStays`), not even the seed script in the middle of its
   work. An ingestion knows that what it has linked is in the graph, query by
   query (`Ingested`): `IngestionLinks`. A seeder knows that the part of the
   plan behind it is in effect (`Progress`); since every query of the plan
   finds what it matches in what those before it make (`Orderly`, `PlanFits`),
   none is dropped in silence: `SeedingComplete`. An analysis knows that its
   anchor is still to trace or tried: `AnchorTraced`. `Advances` says what a
   step of a request has to show, `AdvancesKeeps` that it is enough.
3. *Refreshes exclude each other where they must* (`ReportsInv`): from the look
   to the write of an edge the loop is held (`Holding`), so what one has found
   missing no other reports: `EdgesCountedOnce`.

Under them are facts about data. Severities add up to at most the cap whichever
rules match (`ScoredBounded`, `ParsedTyped`): `EventsLostOnlyToGraph`. The
frontier a trace pushes on hop by hop is the set of companies that chains of
edges lead from (`ReachedIsChained`); for a commodity, the last row of a company is one of its
own (`LastExists`, `TracesTell`), whatever their order. Since later writers only
let the graph grow, what a trace has named stays true (`TraceInvStays`):
`TracesAreDownstream`. They are inductions. The library states
induction with an operator parameter, but over a *set* of naturals it needs none
(`Induction`, from the well-foundedness of the naturals), and with it a
recursive function is the limit of its approximations (`Recursion`). For that
reason the models of the graph define what they compute by recursive functions
(`Scored`, `Those`, `Reached`) and by folds over sets, never by RECURSIVE
operators.

**ChatProofs.** For any number of requests, turns and tools and every window.
The history holds of a turn in progress just what its request has appended
(`OwnTurns`, `Asked`, `HasCalled`); so results land right behind their calls
unless another turn came between, and every call of an undivided turn is
answered or has its request still waiting for tools (`CallsAnswered`,
`ResultsCalled`). The window never begins with a result (`WindowShape`), so it
cannot part a result from its calls: the message it begins with would be a
result too (`SentSound`). Hence `WellFormedSent` for every window and, where the
window holds a turn with its tools, `AnswerableSent`.

**DebateProofs.** For every set of questions and any number of events under
way. What the server has left to do is always an end of one of the two plans
(`WhatIsLeft`), so its length says whether the judge has decided (`Decided`)
and whether the row was tried; a verdict on the wire or on the page implies
that at most one thing is left and that the row holds it or failed (`Sent`).
Hence no break, cancellation or loss shows a verdict that was not recorded
(`NothingShownUnrecorded`). The judge's thresholds come down to a sign and a
size of the difference (`JudgeFollows`), and more evidence never lowers a
confidence, capped or not (`ConfidenceGrows`): `JudgeIsFair`. What the bear has
found is worth to it at most 8 more than to a bull that has found it too, and 8
only in one case (`WorthCompared`), which is the least gap that decides and
below the 15 of a strong verdict: `VerdictsNeedAdvantage`.

The assumptions of the proofs are the named ASSUMEs of the modules (positive
limits, windows and intervals; at least one id, a valid key among the keys; the
values that stand for NULL or nothing differ from the others; the edges and
events of the seed data lead to companies and commodities of the data, and what
its verification expects follows from those edges, both true of the data in
seed_production_data.py) and the hypothesis on `WindowSize` named above. Every inductive invariant was checked by TLC on the
instance of its run before it was proved.

Only model-checked: the seven liveness properties (*UnsubscribeAnswers*,
*RetriesUntilUnsubscribed*, *EveryRequestAnswered*, *EveryCallEnds*,
*ScheduledEnds*, *EveryRequestEnds*, *AnalysisEnds*): they need ENABLED, which
the prover does not handle. Every safety property of a passing run is proved.

## Not modelled

Prices, texts, embeddings, the regular expressions of the news parser and the
regression behind beta are data no property distinguishes. Of a DEPENDS_ON edge
the model keeps who gave its weight, not the weight. Layout, styling, polling
and the static pages of the frontend, container files, evaluation drivers and
the scripts besides the seed script keep no state of their own. `close_all` and
the callbacks of the Binance connector have no caller. Validation of request
bodies rejects before anything changes. The market endpoints and the metrics
write entries and counters that nothing else in the server reads.

## Plan

Done: the three parts around the request path (`RateLimit`,
`StreamSubscriptions` over `SubscriptionLifecycle`, `QuoteCache`,
`ProviderThrottle`, `VerdictTracking`, `ChatHistory`), the graph with everything
that works on it (`GraphServices`), and the debate with its page
(`AnalysisPage`), with the proofs above. What is left:

1. `VerdictLedger` joined to `AnalysisPage` at the recording, so that one
   composition covers the path from the judge to the checks.
2. A calibration's report as a property: that it names only edges that it has
   calibrated, which takes what `JobInv` knows of a calibration.
