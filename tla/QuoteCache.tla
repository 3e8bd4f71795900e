------------------------------ MODULE QuoteCache ------------------------------
(***************************************************************************)
(* The quote.latest tool and its caches:                                   *)
(* mcp_server/invoke_handlers/quote_latest.py (the waterfall),             *)
(* cache/redis_client.py (the snapshot hash of a symbol),                  *)
(* cache/qdrant_client.py (answers remembered per symbol and query text),  *)
(* and the snapshot writes of the Binance trade stream.                    *)
(*                                                                         *)
(* Redis is called synchronously, so a request is atomic up to its first   *)
(* await, the fetch from a provider.  Finnhub and Alpha Vantage quotes are *)
(* created, stored and returned without a further suspension; a Binance    *)
(* REST quote is created inside an async with block whose exit suspends.   *)
(***************************************************************************)
EXTENDS Integers

CONSTANTS
  Symbols,        \* symbols requests and streams name
  CoinOf,         \* for a crypto symbol, the coin its REST quote is named by
  NoCoin,         \* the value of CoinOf for the others
  Streamed,       \* symbols with a live trade subscription
  Calls,          \* slots for requests in progress
  Asked,          \* bound: the requests that are made
  SemanticTTL,    \* semantic_cache_recency_minutes, in clock ticks
  LocalOffset,    \* local time minus UTC on the server
  MaxLag,         \* bound: how old a trade is when the stream delivers it
  MaxTime,        \* bound: the clock stops here
  None            \* no entry

ASSUME CoinAssumption == CoinOf \in [Symbols -> Symbols \cup {NoCoin}]
ASSUME NoCoinAssumption == NoCoin \notin Symbols
ASSUME StreamedAssumption == Streamed \subseteq Symbols
ASSUME TTLAssumption == SemanticTTL \in Nat \ {0}
ASSUME OffsetAssumption == LocalOffset \in Int
ASSUME LagAssumption == MaxLag \in Nat
ASSUME MaxTimeAssumption == MaxTime \in Nat

VARIABLES
  now,            \* UTC
  redisUp,        \* Redis answers
  snapshot,       \* snapshot:{SYMBOL}
  semantic,       \* the remembered answer of each symbol
  pc,             \* where each request stands
  request,        \* its parameters
  got,            \* when the Binance quote it holds was created
  answer          \* the answer given last

cacheVars == <<snapshot, semantic>>
callVars == <<pc, request, got>>
vars == <<now, redisUp, cacheVars, callVars, answer>>

(* "plain": no query text; "query": query text without an agent id, so the *)
(* answer is looked up but not remembered; "remember": both.               *)
Modes == {"plain", "query", "remember"}
Requests == [symbol : Symbols, maxAge : Nat \ {0}, mode : Modes]
(* born: when the price was obtained; stamp: the timestamp stored with it. *)
Snapshots == [born : Int, stamp : Int]
Remembered == [born : Int, expires : Int]
Answers == [source : {"redis", "semantic", "live"}, request : Requests,
            born : Int, at : Int, kept : BOOLEAN]
           \cup [source : {"none", "error"}]

ASSUME AskedAssumption == Asked \subseteq Requests
ASSUME NoneAssumption == None \notin Snapshots \cup Remembered \cup Requests

NoAnswer == [source |-> "none"]
Stages == {"idle", "binance", "leaving", "finnhub", "alpha"}

TypeOK ==
  /\ now \in Nat
  /\ redisUp \in BOOLEAN
  /\ snapshot \in [Symbols -> Snapshots \cup {None}]
  /\ semantic \in [Symbols -> Remembered \cup {None}]
  /\ pc \in [Calls -> Stages]
  /\ request \in [Calls -> Requests \cup {None}]
  /\ got \in [Calls -> Int]
  /\ answer \in Answers

Init ==
  /\ now = 0
  /\ redisUp \in BOOLEAN
  /\ snapshot = [s \in Symbols |-> None]
  /\ semantic = [s \in Symbols |-> None]
  /\ pc = [c \in Calls |-> "idle"]
  /\ request = [c \in Calls |-> None]
  /\ got = [c \in Calls |-> 0]
  /\ answer = NoAnswer

-----------------------------------------------------------------------------
(* Variant that accepts the boundary age:                                  *)
FreshAtLimit(s, maxAge) ==
  snapshot[s] # None /\ now - snapshot[s].stamp <= maxAge

(* RedisClient.is_snapshot_fresh: the stored timestamp against utcnow.     *)
Fresh(s, maxAge) ==
  snapshot[s] # None /\ now - snapshot[s].stamp < maxAge

(* Variant in which remembered answers never expire:                       *)
RecallsForever(r) == r.mode # "plain" /\ redisUp /\ semantic[r.symbol] # None

(* SemanticCacheClient.search_similar: the key has not expired.            *)
Recalls(r) ==
  /\ r.mode # "plain"
  /\ redisUp
  /\ semantic[r.symbol] # None /\ now < semantic[r.symbol].expires

Hit(source, r, born) ==
  [source |-> source, request |-> r, born |-> born, at |-> now, kept |-> TRUE]

(* _fetch_with_fallback: crypto symbols go to the Binance REST API first.  *)
FirstStage(r) == IF CoinOf[r.symbol] # NoCoin THEN "binance" ELSE "finnhub"

AnswerFromSemantic(r) ==
  /\ Recalls(r)
  /\ answer' = Hit("semantic", r, semantic[r.symbol].born)
  /\ UNCHANGED <<pc, request>>

AnswerFromRedis(r) ==
  /\ ~ Recalls(r)
  /\ redisUp /\ Fresh(r.symbol, r.maxAge)
  /\ answer' = Hit("redis", r, snapshot[r.symbol].born)
  /\ UNCHANGED <<pc, request>>

GoFetch(c, r) ==
  /\ ~ Recalls(r)
  /\ ~ (redisUp /\ Fresh(r.symbol, r.maxAge))
  /\ pc' = [pc EXCEPT ![c] = FirstStage(r)]
  /\ request' = [request EXCEPT ![c] = r]
  /\ UNCHANGED answer

QuoteLatest(c) ==
  /\ pc[c] = "idle"
  /\ \E r \in Asked :
       AnswerFromSemantic(r) \/ AnswerFromRedis(r) \/ GoFetch(c, r)
  /\ UNCHANGED <<now, redisUp, cacheVars, got>>

-----------------------------------------------------------------------------
(* Variant that keeps the first quote of a symbol:                         *)
SetSnapshotOnce(s, born, stamp) ==
  snapshot' = IF redisUp /\ snapshot[s] = None
              THEN [snapshot EXCEPT ![s] = [born |-> born, stamp |-> stamp]]
              ELSE snapshot

(* RedisClient.set_snapshot: HSET overwrites the price and the timestamp,  *)
(* without looking at the ones it replaces.                                *)
SetSnapshot(s, born, stamp) ==
  snapshot' = IF redisUp
              THEN [snapshot EXCEPT ![s] = [born |-> born, stamp |-> stamp]]
              ELSE snapshot

(* SemanticCacheClient.store_response.                                     *)
Remember(r, born) ==
  semantic' = IF redisUp /\ r.mode = "remember"
              THEN [semantic EXCEPT ![r.symbol] =
                      [born |-> born, expires |-> now + SemanticTTL]]
              ELSE semantic

EndCall(c) ==
  /\ pc' = [pc EXCEPT ![c] = "idle"]
  /\ request' = [request EXCEPT ![c] = None]
  /\ got' = [got EXCEPT ![c] = 0]

(* The end of a request whose quote, named s, was obtained at time born.   *)
Respond(c, s, born) ==
  /\ SetSnapshot(s, born, born)
  /\ Remember(request[c], born)
  /\ answer' = [source |-> "live", request |-> request[c], born |-> born,
                at |-> now, kept |-> redisUp]
  /\ EndCall(c)
  /\ UNCHANGED <<now, redisUp>>

MoveOn(c, from, to) ==
  /\ pc[c] = from
  /\ pc' = [pc EXCEPT ![c] = to]
  /\ UNCHANGED <<now, redisUp, cacheVars, request, answer>>

BinanceAnswers(c) ==
  /\ MoveOn(c, "binance", "leaving")
  /\ got' = [got EXCEPT ![c] = now]

BinanceFails(c) == MoveOn(c, "binance", "finnhub") /\ UNCHANGED got

LeaveBinance(c) ==
  /\ pc[c] = "leaving"
  /\ Respond(c, CoinOf[request[c].symbol], got[c])

(* Variant that keeps a time noted before the suspension:                  *)
FinnhubAnswersEarlier(c) ==
  /\ pc[c] = "finnhub"
  /\ Respond(c, request[c].symbol, got[c])

FinnhubAnswers(c) ==
  /\ pc[c] = "finnhub"
  /\ Respond(c, request[c].symbol, now)

FinnhubFails(c) == MoveOn(c, "finnhub", "alpha") /\ UNCHANGED got

AlphaAnswers(c) ==
  /\ pc[c] = "alpha"
  /\ Respond(c, request[c].symbol, now)

(* Variant that forgets to answer:                                         *)
AlphaFailsSilently(c) == MoveOn(c, "alpha", "failed") /\ UNCHANGED got

AlphaFails(c) ==
  /\ pc[c] = "alpha"
  /\ EndCall(c)
  /\ answer' = [source |-> "error"]
  /\ UNCHANGED <<now, redisUp, cacheVars>>

(* BinanceWebSocketConnector._process_message: the snapshot is stamped     *)
(* with datetime.fromtimestamp of the event, local time.  An event may     *)
(* arrive late.                                                            *)
StreamTick(s) ==
  /\ s \in Streamed
  /\ \E lag \in 0..MaxLag :
       SetSnapshot(s, now - lag, now - lag + LocalOffset)
  /\ UNCHANGED <<now, redisUp, semantic, callVars, answer>>

RedisToggles ==
  /\ redisUp' = ~ redisUp
  /\ UNCHANGED <<now, cacheVars, callVars, answer>>

ClockAdvances ==
  /\ now < MaxTime
  /\ now' = now + 1
  /\ UNCHANGED <<redisUp, cacheVars, callVars, answer>>

FetchStep(c) ==
  \/ BinanceAnswers(c) \/ BinanceFails(c) \/ LeaveBinance(c)
  \/ FinnhubAnswers(c) \/ FinnhubFails(c) \/ AlphaAnswers(c) \/ AlphaFails(c)

Next ==
  \/ \E c \in Calls : QuoteLatest(c) \/ FetchStep(c)
  \/ \E s \in Streamed : StreamTick(s)
  \/ RedisToggles
  \/ ClockAdvances

Spec == Init /\ [][Next]_vars

(* Every provider call ends: the HTTP clients have timeouts and the        *)
(* connectors retry at most three times.                                   *)
FairSpec == Spec /\ \A c \in Calls : WF_vars(FetchStep(c))

-----------------------------------------------------------------------------
Age == answer.at - answer.born

(* How far the stamps of a symbol may lie in the future: the trade stream  *)
(* takes them from the server's local time, is_snapshot_fresh compares     *)
(* them with UTC.                                                          *)
Ahead(s) == IF s \in Streamed /\ LocalOffset > 0 THEN LocalOffset ELSE 0

(* A quote served from the Redis snapshot is younger than the caller       *)
(* allows, or for a streamed symbol, than that and the hours the server's  *)
(* clock is ahead of UTC: apart from that shift stamps tell the truth, and *)
(* no writer stores a price that is older than its stamp.                  *)
RedisAnswerFresh ==
  answer.source = "redis" =>
    Age \in 0..(answer.request.maxAge - 1 + Ahead(answer.request.symbol))

(* docs/architecture.md: an answer is served from the semantic cache only  *)
(* if "created within the last 5 minutes", the recency window; counted     *)
(* here from when its price was obtained.  (A crypto price may in addition *)
(* have waited for the end of the REST client's block.)  What the caller   *)
(* asked for is not looked at, see CachedWithinMaxAge.                     *)
SemanticAnswerRecent ==
  answer.source = "semantic" /\ CoinOf[answer.request.symbol] = NoCoin =>
    Age < SemanticTTL

(* capabilities.json: maxAgeSec is the "Maximum age of cached data in      *)
(* seconds".  Not so: the semantic cache answers before handle_quote_latest*)
(* looks at it.                                                            *)
CachedWithinMaxAge ==
  answer.source \in {"redis", "semantic"} => Age < answer.request.maxAge

(* Symbols whose snapshot only Finnhub and Alpha Vantage write.            *)
StocksOnly == Symbols \ (Streamed \cup {CoinOf[s] : s \in Symbols})

(* Symbols whose quotes are stored under the name they are asked for.  A   *)
(* trading pair is not: its REST quote is stored under the coin.           *)
OwnName == {s \in Symbols : CoinOf[s] \in {NoCoin, s}}

(* What a live answer obtained is found under the symbol it was asked for, *)
(* so that the next caller is served from Redis; for a stock it is that    *)
(* quote or a newer one, never an older one of an overlapping request.     *)
LiveAnswerKept ==
  answer.source = "live" /\ answer.kept /\ answer.request.symbol \in OwnName =>
    LET s == answer.request.symbol IN
      /\ snapshot[s] # None
      /\ s \in StocksOnly => snapshot[s].born >= answer.born

(* Overlapping fetches that finish in any order never replace the snapshot *)
(* of a stock by an older price.                                           *)
SnapshotNeverRegresses ==
  [][\A s \in StocksOnly : snapshot[s] # None =>
       snapshot'[s] # None /\ snapshot'[s].born >= snapshot[s].born]_vars

(* Whatever fails, every request ends with a quote or an error.            *)
EveryRequestAnswered ==
  \A c \in Calls : pc[c] # "idle" ~> pc[c] = "idle"
=============================================================================
