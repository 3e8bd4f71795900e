------------------------------ MODULE QuoteProofs ------------------------------
(***************************************************************************)
(* Proofs about QuoteCache, for all symbols, overlapping calls, ages and   *)
(* recency windows, with Redis coming and going at any time.               *)
(*                                                                         *)
(* A cache cannot serve a quote past its time because what it holds was    *)
(* obtained in the past and is stamped with that time, as its writer's     *)
(* clock tells it (SnapshotsTrue, RememberedTrue).  That in turn rests on  *)
(* where a call can be: only coins reach the stage whose quote grows old   *)
(* before it is stored (CallsTrue).                                        *)
(***************************************************************************)
EXTENDS QuoteCache, TLAPS

Stamped(s, born, stamp) ==
  \/ stamp = born
  \/ s \in Streamed /\ stamp = born + LocalOffset

SnapshotsTrue ==
  \A s \in Symbols : snapshot[s] # None =>
    snapshot[s].born <= now /\ Stamped(s, snapshot[s].born, snapshot[s].stamp)

RememberedTrue ==
  \A s \in Symbols : semantic[s] # None /\ CoinOf[s] = NoCoin =>
    semantic[s].expires <= semantic[s].born + SemanticTTL

CallTrue(c) ==
  /\ pc[c] # "idle" => request[c] \in Requests
  /\ pc[c] \in {"binance", "leaving"} => CoinOf[request[c].symbol] # NoCoin
  /\ got[c] <= now

CallsTrue == \A c \in Calls : CallTrue(c)

AnswerInTime == RedisAnswerFresh /\ SemanticAnswerRecent

IInv == TypeOK /\ SnapshotsTrue /\ RememberedTrue /\ CallsTrue /\ AnswerInTime

-----------------------------------------------------------------------------
(* What is written to the table of snapshots keeps it true.                *)
LEMMA Stored ==
  ASSUME IInv, NEW s \in Symbols, NEW born \in Int, NEW stamp \in Int,
         born <= now, Stamped(s, born, stamp), SetSnapshot(s, born, stamp), now' = now
  PROVE  /\ snapshot' \in [Symbols -> Snapshots \cup {None}]
         /\ SnapshotsTrue'
         /\ \A t \in Symbols \ {s} : snapshot'[t] = snapshot[t]
         /\ redisUp => snapshot'[s] = [born |-> born, stamp |-> stamp]
         /\ ~ redisUp => snapshot' = snapshot
<1>1. snapshot \in [Symbols -> Snapshots \cup {None}] /\ SnapshotsTrue
  BY DEF IInv, TypeOK
<1>2. CASE redisUp
  <2>1. snapshot' = [snapshot EXCEPT ![s] = [born |-> born, stamp |-> stamp]]
    BY <1>2 DEF SetSnapshot
  <2>2. [born |-> born, stamp |-> stamp] \in Snapshots
    BY DEF Snapshots
  <2>3. snapshot'[s] = [born |-> born, stamp |-> stamp]
    BY <1>1, <2>1
  <2>4. \A t \in Symbols \ {s} : snapshot'[t] = snapshot[t]
    BY <1>1, <2>1
  <2>5. SnapshotsTrue'
    BY <1>1, <2>3, <2>4 DEF SnapshotsTrue, Stamped
  <2>6. QED BY <1>1, <1>2, <2>1, <2>2, <2>3, <2>4, <2>5
<1>3. CASE ~ redisUp
  <2>1. snapshot' = snapshot
    BY <1>3 DEF SetSnapshot
  <2>2. QED BY <1>1, <1>3, <2>1 DEF SnapshotsTrue, Stamped
<1>4. QED BY <1>2, <1>3

(* So does what is remembered, unless a stock's price waited before.       *)
LEMMA RememberKeeps ==
  ASSUME IInv, NEW r \in Requests, NEW born \in Int, Remember(r, born),
         CoinOf[r.symbol] = NoCoin => born = now
  PROVE  semantic' \in [Symbols -> Remembered \cup {None}] /\ RememberedTrue'
<1>1. /\ semantic \in [Symbols -> Remembered \cup {None}] /\ RememberedTrue
      /\ now \in Nat /\ r.symbol \in Symbols
  BY DEF IInv, TypeOK, Requests
<1>2. CASE semantic' = semantic
  BY <1>1, <1>2 DEF RememberedTrue
<1>3. CASE semantic' = [semantic EXCEPT ![r.symbol] =
                          [born |-> born, expires |-> now + SemanticTTL]]
  <2>1. [born |-> born, expires |-> now + SemanticTTL] \in Remembered
    BY <1>1, TTLAssumption DEF Remembered
  <2>2. semantic'[r.symbol] = [born |-> born, expires |-> now + SemanticTTL]
    BY <1>1, <1>3
  <2>3. \A t \in Symbols \ {r.symbol} : semantic'[t] = semantic[t]
    BY <1>1, <1>3
  <2>4. RememberedTrue'
    BY <1>1, <2>2, <2>3, TTLAssumption DEF RememberedTrue
  <2>5. QED BY <1>1, <1>3, <2>1, <2>4
<1>4. QED BY <1>2, <1>3 DEF Remember

(* The end of a call, with or without a quote.                             *)
LEMMA Ended ==
  ASSUME IInv, NEW c \in Calls, EndCall(c), now' = now
  PROVE  /\ pc' \in [Calls -> Stages] /\ request' \in [Calls -> Requests \cup {None}]
         /\ got' \in [Calls -> Int] /\ CallsTrue'
<1>1. /\ pc \in [Calls -> Stages] /\ request \in [Calls -> Requests \cup {None}]
      /\ got \in [Calls -> Int] /\ now \in Nat /\ CallsTrue
  BY DEF IInv, TypeOK
<1>2. /\ pc' = [pc EXCEPT ![c] = "idle"] /\ request' = [request EXCEPT ![c] = None]
      /\ got' = [got EXCEPT ![c] = 0]
  BY DEF EndCall
<1>3. pc'[c] = "idle" /\ got'[c] = 0
  BY <1>1, <1>2
<1>4. \A d \in Calls \ {c} : pc'[d] = pc[d] /\ request'[d] = request[d] /\ got'[d] = got[d]
  BY <1>1, <1>2
<1>5. CallsTrue'
  BY <1>1, <1>3, <1>4 DEF CallsTrue, CallTrue
<1>6. QED BY <1>1, <1>2, <1>5 DEF Stages

-----------------------------------------------------------------------------
(* A request that a cache answers, or that goes on to the providers.       *)
LEMMA QuoteLatestStep ==
  ASSUME IInv, NEW c \in Calls, QuoteLatest(c)
  PROVE  IInv'
<1>1. /\ TypeOK /\ SnapshotsTrue /\ RememberedTrue /\ CallsTrue /\ AnswerInTime
      /\ now \in Nat
  BY DEF IInv, TypeOK
<1>2. UNCHANGED <<now, redisUp, snapshot, semantic, got>>
  BY DEF QuoteLatest, cacheVars
<1>3. PICK r \in Requests :
        AnswerFromSemantic(r) \/ AnswerFromRedis(r) \/ GoFetch(c, r)
  BY AskedAssumption DEF QuoteLatest
<1>4. /\ r.symbol \in Symbols /\ r.maxAge \in Nat /\ r.maxAge > 0
      /\ SnapshotsTrue' /\ RememberedTrue'
  <2>1. r.symbol \in Symbols /\ r.maxAge \in Nat \ {0}
    BY <1>3 DEF Requests
  <2>2. SnapshotsTrue'
    BY <1>1, <1>2 DEF SnapshotsTrue, Stamped
  <2>3. RememberedTrue'
    BY <1>1, <1>2 DEF RememberedTrue
  <2>4. QED BY <2>1, <2>2, <2>3
<1>5. CASE AnswerFromSemantic(r)
  <2>1. /\ semantic[r.symbol] # None /\ now < semantic[r.symbol].expires
        /\ answer' = Hit("semantic", r, semantic[r.symbol].born)
        /\ UNCHANGED <<pc, request>>
    BY <1>5 DEF AnswerFromSemantic, Recalls
  <2>2. semantic[r.symbol] \in Remembered
    BY <1>1, <1>4, <2>1 DEF TypeOK
  <2>3. answer' \in Answers
    BY <1>1, <1>3, <2>1, <2>2 DEF Hit, Answers, Remembered
  <2>4. CoinOf[r.symbol] = NoCoin =>
          semantic[r.symbol].expires <= semantic[r.symbol].born + SemanticTTL
    BY <1>1, <1>4, <2>1 DEF RememberedTrue
  <2>5. CoinOf[r.symbol] = NoCoin => now - semantic[r.symbol].born < SemanticTTL
    BY <1>1, <2>1, <2>2, <2>4, TTLAssumption DEF Remembered
  <2>6. AnswerInTime'
    BY <2>1, <2>5 DEF AnswerInTime, RedisAnswerFresh, SemanticAnswerRecent, Hit, Age
  <2>7. TypeOK' /\ CallsTrue'
    BY <1>1, <1>2, <2>1, <2>3 DEF TypeOK, CallsTrue, CallTrue
  <2>8. QED BY <1>4, <2>6, <2>7 DEF IInv
<1>6. CASE AnswerFromRedis(r)
  <2>1. /\ snapshot[r.symbol] # None /\ now - snapshot[r.symbol].stamp < r.maxAge
        /\ answer' = Hit("redis", r, snapshot[r.symbol].born)
        /\ UNCHANGED <<pc, request>>
    BY <1>6 DEF AnswerFromRedis, Fresh
  <2>2. snapshot[r.symbol] \in Snapshots
    BY <1>1, <1>4, <2>1 DEF TypeOK
  <2>3. answer' \in Answers
    BY <1>1, <1>3, <2>1, <2>2 DEF Hit, Answers, Snapshots
  <2>4. /\ snapshot[r.symbol].born <= now
        /\ Stamped(r.symbol, snapshot[r.symbol].born, snapshot[r.symbol].stamp)
    BY <1>1, <1>4, <2>1 DEF SnapshotsTrue
  <2>5. now - snapshot[r.symbol].born \in 0..(r.maxAge - 1 + Ahead(r.symbol))
    BY <1>1, <1>4, <2>1, <2>2, <2>4, OffsetAssumption DEF Stamped, Snapshots, Ahead
  <2>6. AnswerInTime'
    BY <2>1, <2>5 DEF AnswerInTime, RedisAnswerFresh, SemanticAnswerRecent, Hit, Age
  <2>7. TypeOK' /\ CallsTrue'
    BY <1>1, <1>2, <2>1, <2>3 DEF TypeOK, CallsTrue, CallTrue
  <2>8. QED BY <1>4, <2>6, <2>7 DEF IInv
<1>7. CASE GoFetch(c, r)
  <2>1. /\ pc' = [pc EXCEPT ![c] = FirstStage(r)]
        /\ request' = [request EXCEPT ![c] = r]
        /\ UNCHANGED answer
    BY <1>7 DEF GoFetch
  <2>2. /\ FirstStage(r) \in {"binance", "finnhub"}
        /\ FirstStage(r) = "binance" => CoinOf[r.symbol] # NoCoin
    BY DEF FirstStage
  <2>3. /\ pc'[c] = FirstStage(r) /\ request'[c] = r
        /\ \A d \in Calls \ {c} : pc'[d] = pc[d] /\ request'[d] = request[d]
    BY <1>1, <2>1 DEF TypeOK
  <2>4. CallsTrue'
    BY <1>1, <1>2, <1>3, <2>2, <2>3 DEF CallsTrue, CallTrue
  <2>5. TypeOK'
    BY <1>1, <1>2, <1>3, <2>1, <2>2 DEF TypeOK, Stages
  <2>6. AnswerInTime'
    BY <1>1, <2>1 DEF AnswerInTime, RedisAnswerFresh, SemanticAnswerRecent, Age
  <2>7. QED BY <1>4, <2>4, <2>5, <2>6 DEF IInv
<1>8. QED BY <1>3, <1>5, <1>6, <1>7

(* A quote arrives; it may be stored under another symbol than asked for.  *)
LEMMA RespondStep ==
  ASSUME IInv, NEW c \in Calls, NEW s \in Symbols, NEW born \in Int,
         pc[c] # "idle", born <= now, Respond(c, s, born),
         CoinOf[request[c].symbol] = NoCoin => born = now
  PROVE  IInv'
<1>1. TypeOK /\ now \in Nat /\ redisUp \in BOOLEAN /\ request[c] \in Requests
  BY DEF IInv, TypeOK, CallsTrue, CallTrue
<1>2. /\ SetSnapshot(s, born, born) /\ Remember(request[c], born) /\ EndCall(c)
      /\ now' = now /\ redisUp' = redisUp
      /\ answer' = [source |-> "live", request |-> request[c], born |-> born,
                    at |-> now, kept |-> redisUp]
  BY DEF Respond
<1>3. Stamped(s, born, born)
  BY DEF Stamped
<1>4. snapshot' \in [Symbols -> Snapshots \cup {None}] /\ SnapshotsTrue'
  BY <1>2, <1>3, Stored
<1>5. semantic' \in [Symbols -> Remembered \cup {None}] /\ RememberedTrue'
  BY <1>1, <1>2, RememberKeeps
<1>6. /\ pc' \in [Calls -> Stages] /\ request' \in [Calls -> Requests \cup {None}]
      /\ got' \in [Calls -> Int] /\ CallsTrue'
  BY <1>2, Ended
<1>7. answer' \in Answers
  BY <1>1, <1>2 DEF Answers
<1>8. AnswerInTime'
  BY <1>2 DEF AnswerInTime, RedisAnswerFresh, SemanticAnswerRecent
<1>9. TypeOK'
  BY <1>1, <1>2, <1>4, <1>5, <1>6, <1>7 DEF TypeOK
<1>10. QED BY <1>4, <1>5, <1>6, <1>8, <1>9 DEF IInv

(* A provider that does not answer, or a quote that waits for its block's  *)
(* end: the call moves on.                                                 *)
LEMMA MoveOnStep ==
  ASSUME IInv, NEW c \in Calls,
         NEW from \in Stages \ {"idle"}, NEW to \in {"leaving", "finnhub", "alpha"},
         MoveOn(c, from, to), to = "leaving" => from = "binance",
         UNCHANGED got \/ got' = [got EXCEPT ![c] = now]
  PROVE  IInv'
<1>1. /\ TypeOK /\ SnapshotsTrue /\ RememberedTrue /\ CallsTrue /\ AnswerInTime
      /\ now \in Nat
  BY DEF IInv, TypeOK
<1>2. /\ pc[c] = from /\ pc' = [pc EXCEPT ![c] = to]
      /\ UNCHANGED <<now, redisUp, snapshot, semantic, request, answer>>
  BY DEF MoveOn, cacheVars
<1>3. /\ pc'[c] = to /\ \A d \in Calls \ {c} : pc'[d] = pc[d] /\ got'[d] = got[d]
      /\ got'[c] \in {got[c], now} /\ got' \in [Calls -> Int]
      /\ pc' \in [Calls -> Stages]
  BY <1>1, <1>2 DEF TypeOK, Stages
<1>4. TypeOK'
  BY <1>1, <1>2, <1>3 DEF TypeOK
<1>5. CallsTrue'
  BY <1>1, <1>2, <1>3 DEF CallsTrue, CallTrue
<1>6. SnapshotsTrue' /\ RememberedTrue' /\ AnswerInTime'
  BY <1>1, <1>2
  DEF SnapshotsTrue, Stamped, RememberedTrue, AnswerInTime, RedisAnswerFresh,
      SemanticAnswerRecent, Age
<1>7. QED BY <1>4, <1>5, <1>6 DEF IInv

LEMMA FetchKeeps ==
  ASSUME IInv, NEW c \in Calls, FetchStep(c)
  PROVE  IInv'
<1>1. TypeOK /\ now \in Nat /\ CallTrue(c)
  BY DEF IInv, TypeOK, CallsTrue
<1>2. {"binance", "leaving", "finnhub", "alpha"} = Stages \ {"idle"}
  BY DEF Stages
<1>3. CASE BinanceAnswers(c)
  BY <1>2, <1>3, MoveOnStep DEF BinanceAnswers
<1>4. CASE BinanceFails(c)
  BY <1>2, <1>4, MoveOnStep DEF BinanceFails
<1>5. CASE FinnhubFails(c)
  BY <1>2, <1>5, MoveOnStep DEF FinnhubFails
<1>6. CASE LeaveBinance(c)
  <2>1. /\ pc[c] = "leaving" /\ Respond(c, CoinOf[request[c].symbol], got[c])
        /\ request[c].symbol \in Symbols /\ CoinOf[request[c].symbol] # NoCoin
        /\ got[c] \in Int /\ got[c] <= now
    BY <1>1, <1>6 DEF LeaveBinance, CallTrue, Requests, TypeOK
  <2>2. CoinOf[request[c].symbol] \in Symbols
    BY <2>1, CoinAssumption
  <2>3. QED BY <2>1, <2>2, RespondStep
<1>7. CASE FinnhubAnswers(c) \/ AlphaAnswers(c)
  <2>1. /\ pc[c] # "idle" /\ Respond(c, request[c].symbol, now)
        /\ request[c].symbol \in Symbols
    BY <1>1, <1>7 DEF FinnhubAnswers, AlphaAnswers, CallTrue, Requests
  <2>2. now \in Int /\ now <= now
    BY <1>1
  <2>3. QED BY <2>1, <2>2, RespondStep
<1>8. CASE AlphaFails(c)
  <2>1. /\ EndCall(c) /\ answer' = [source |-> "error"]
        /\ UNCHANGED <<now, redisUp, snapshot, semantic>>
    BY <1>8 DEF AlphaFails, cacheVars
  <2>2. /\ pc' \in [Calls -> Stages] /\ request' \in [Calls -> Requests \cup {None}]
        /\ got' \in [Calls -> Int] /\ CallsTrue'
    BY <2>1, Ended
  <2>3. answer' \in Answers
    BY <2>1 DEF Answers
  <2>4. TypeOK'
    BY <1>1, <2>1, <2>2, <2>3 DEF TypeOK
  <2>5. AnswerInTime'
    BY <2>1 DEF AnswerInTime, RedisAnswerFresh, SemanticAnswerRecent
  <2>6. SnapshotsTrue' /\ RememberedTrue'
    BY <2>1 DEF IInv, SnapshotsTrue, Stamped, RememberedTrue
  <2>7. QED BY <2>2, <2>4, <2>5, <2>6 DEF IInv
<1>9. QED BY <1>3, <1>4, <1>5, <1>6, <1>7, <1>8 DEF FetchStep

(* A trade is stored when it is delivered, with its own time and a stamp   *)
(* of the server's local time.                                             *)
LEMMA TickKeeps ==
  ASSUME IInv, NEW s \in Streamed, StreamTick(s)
  PROVE  IInv'
<1>1. /\ TypeOK /\ RememberedTrue /\ CallsTrue /\ AnswerInTime
      /\ now \in Nat /\ s \in Symbols
  BY StreamedAssumption DEF IInv, TypeOK
<1>2. PICK lag \in 0..MaxLag :
        SetSnapshot(s, now - lag, now - lag + LocalOffset)
  BY DEF StreamTick
<1>3. UNCHANGED <<now, redisUp, semantic, pc, request, got, answer>>
  BY DEF StreamTick, callVars
<1>4. /\ now - lag \in Int /\ now - lag <= now /\ now - lag + LocalOffset \in Int
      /\ Stamped(s, now - lag, now - lag + LocalOffset)
  BY <1>1, LagAssumption, OffsetAssumption DEF Stamped
<1>5. snapshot' \in [Symbols -> Snapshots \cup {None}] /\ SnapshotsTrue'
  BY <1>1, <1>2, <1>3, <1>4, Stored
<1>6. TypeOK'
  BY <1>1, <1>3, <1>5 DEF TypeOK
<1>7. RememberedTrue' /\ CallsTrue' /\ AnswerInTime'
  BY <1>1, <1>3 DEF RememberedTrue, CallsTrue, CallTrue, AnswerInTime,
     RedisAnswerFresh, SemanticAnswerRecent, Age
<1>8. QED BY <1>5, <1>6, <1>7 DEF IInv

LEMMA Initial == Init => IInv
<1> SUFFICES ASSUME Init PROVE IInv
  OBVIOUS
<1>1. TypeOK
  BY DEF Init, TypeOK, NoAnswer, Answers, Stages
<1>2. SnapshotsTrue /\ RememberedTrue
  BY DEF Init, SnapshotsTrue, RememberedTrue
<1>3. CallsTrue
  BY DEF Init, CallsTrue, CallTrue
<1>4. AnswerInTime
  BY DEF Init, AnswerInTime, RedisAnswerFresh, SemanticAnswerRecent, NoAnswer
<1>5. QED BY <1>1, <1>2, <1>3, <1>4 DEF IInv

LEMMA Inductive == IInv /\ [Next]_vars => IInv'
<1> SUFFICES ASSUME IInv, [Next]_vars PROVE IInv'
  OBVIOUS
<1>1. /\ TypeOK /\ SnapshotsTrue /\ RememberedTrue /\ CallsTrue /\ AnswerInTime
      /\ now \in Nat
  BY DEF IInv, TypeOK
<1>2. ASSUME NEW c \in Calls, QuoteLatest(c) \/ FetchStep(c)
      PROVE  IInv'
  BY <1>2, QuoteLatestStep, FetchKeeps
<1>3. ASSUME NEW s \in Streamed, StreamTick(s)
      PROVE  IInv'
  BY <1>3, TickKeeps
<1>4. ASSUME now' \in {now, now + 1}, redisUp' \in BOOLEAN,
             UNCHANGED <<snapshot, semantic, pc, request, got, answer>>
      PROVE  IInv'
  <2>1. now' \in Nat /\ now' >= now
    BY <1>1, <1>4
  <2>2. TypeOK'
    BY <1>1, <1>4, <2>1 DEF TypeOK
  <2>3. SnapshotsTrue'
    <3>1. \A s \in Symbols : snapshot[s] # None => snapshot[s].born \in Int
      BY <1>1 DEF TypeOK, Snapshots
    <3>2. QED BY <1>1, <1>4, <2>1, <3>1 DEF SnapshotsTrue, Stamped
  <2>4. CallsTrue'
    BY <1>1, <1>4, <2>1 DEF CallsTrue, CallTrue, TypeOK
  <2>5. RememberedTrue' /\ AnswerInTime'
    BY <1>1, <1>4 DEF RememberedTrue, AnswerInTime, RedisAnswerFresh,
       SemanticAnswerRecent, Age
  <2>6. QED BY <2>2, <2>3, <2>4, <2>5 DEF IInv
<1>5. CASE RedisToggles
  BY <1>1, <1>4, <1>5 DEF RedisToggles, cacheVars, callVars, TypeOK
<1>6. CASE ClockAdvances
  BY <1>1, <1>4, <1>6 DEF ClockAdvances, cacheVars, callVars, TypeOK
<1>7. CASE UNCHANGED vars
  BY <1>1, <1>4, <1>7 DEF vars, cacheVars, callVars, TypeOK
<1>8. QED BY <1>2, <1>3, <1>5, <1>6, <1>7 DEF Next

-----------------------------------------------------------------------------
(* Every reachable state satisfies the inductive invariant.                *)
THEOREM Invariance == Spec => []IInv
  BY Initial, Inductive, PTL DEF Spec

(* The caches, the calls and the last answer keep their types.             *)
THEOREM TypeCorrect == Spec => []TypeOK
<1>1. IInv => TypeOK
  BY DEF IInv
<1>2. QED BY <1>1, Invariance, PTL

(* No snapshot is served past its time: where the trade stream does not   *)
(* write a symbol, it is younger than the caller's maxAgeSec; where it     *)
(* does, the hours the local clock is ahead of UTC are added and no more,  *)
(* since is_snapshot_fresh compares utcnow with stamps of local time.      *)
THEOREM SnapshotsFresh == Spec => []RedisAnswerFresh
<1>1. IInv => RedisAnswerFresh
  BY DEF IInv, AnswerInTime
<1>2. QED BY <1>1, Invariance, PTL

(* The semantic cache never serves a stock's price that was obtained       *)
(* longer ago than the recency window, the five minutes of                 *)
(* docs/architecture.md: what it holds expires a window after it was       *)
(* obtained, whatever else is stored or fetched meanwhile.  (The caller's  *)
(* maxAgeSec bounds nothing here: the run quote_age.)                      *)
THEOREM SemanticAnswersRecent == Spec => []SemanticAnswerRecent
<1>1. IInv => SemanticAnswerRecent
  BY DEF IInv, AnswerInTime
<1>2. QED BY <1>1, Invariance, PTL

-----------------------------------------------------------------------------
(* What a write does to the snapshot that t had.                           *)
NoOlder(t) ==
  snapshot[t] # None =>
    /\ snapshot'[t] # None
    /\ t \in StocksOnly => snapshot'[t].born >= snapshot[t].born

LEMMA WriteIsNewer ==
  ASSUME IInv, NEW s \in Symbols, NEW born \in Int, NEW stamp \in Int,
         SetSnapshot(s, born, stamp), s \in StocksOnly => born = now,
         NEW t \in Symbols
  PROVE  NoOlder(t)
<1>1. /\ snapshot \in [Symbols -> Snapshots \cup {None}] /\ SnapshotsTrue
      /\ now \in Nat
  BY DEF IInv, TypeOK
<1>2. snapshot[t] # None => snapshot[t].born \in Int /\ snapshot[t].born <= now
  BY <1>1 DEF SnapshotsTrue, Snapshots
<1>3. CASE snapshot'[t] = snapshot[t]
  BY <1>2, <1>3 DEF NoOlder
<1>4. CASE t = s /\ redisUp
  <2>1. snapshot'[t] = [born |-> born, stamp |-> stamp]
    BY <1>1, <1>4 DEF SetSnapshot
  <2>2. [born |-> born, stamp |-> stamp] \in Snapshots
    BY DEF Snapshots
  <2>3. snapshot'[t] # None
    BY <2>1, <2>2, NoneAssumption
  <2>4. t \in StocksOnly /\ snapshot[t] # None => snapshot'[t].born >= snapshot[t].born
    BY <1>1, <1>2, <1>4, <2>1
  <2>5. QED BY <2>3, <2>4 DEF NoOlder
<1>5. CASE t # s \/ ~ redisUp
  <2>1. snapshot'[t] = snapshot[t]
    BY <1>1, <1>5 DEF SetSnapshot
  <2>2. QED BY <1>3, <2>1
<1>6. QED BY <1>4, <1>5

(* The end of a call, in one form for the three providers.                 *)
LEMMA QuoteArrives ==
  ASSUME IInv, NEW c \in Calls,
         LeaveBinance(c) \/ FinnhubAnswers(c) \/ AlphaAnswers(c)
  PROVE  /\ request[c] \in Requests
         /\ \E s \in Symbols : \E born \in Int :
              /\ Respond(c, s, born)
              /\ s \in StocksOnly => born = now
              /\ s \in {request[c].symbol, CoinOf[request[c].symbol]}
<1>1. TypeOK /\ now \in Nat /\ CallTrue(c)
  BY DEF IInv, TypeOK, CallsTrue
<1>2. request[c] \in Requests /\ request[c].symbol \in Symbols
  BY <1>1 DEF LeaveBinance, FinnhubAnswers, AlphaAnswers, CallTrue, Requests
<1>3. CASE LeaveBinance(c)
  <2>1. CoinOf[request[c].symbol] \in Symbols /\ got[c] \in Int
    BY <1>1, <1>2, <1>3, CoinAssumption DEF LeaveBinance, CallTrue, TypeOK
  <2>2. CoinOf[request[c].symbol] \notin StocksOnly
    BY <1>2 DEF StocksOnly
  <2>3. Respond(c, CoinOf[request[c].symbol], got[c])
    BY <1>3 DEF LeaveBinance
  <2>4. QED BY <1>2, <2>1, <2>2, <2>3
<1>4. CASE FinnhubAnswers(c) \/ AlphaAnswers(c)
  <2>1. Respond(c, request[c].symbol, now) /\ now \in Int
    BY <1>1, <1>4 DEF FinnhubAnswers, AlphaAnswers
  <2>2. QED BY <1>2, <2>1
<1>5. QED BY <1>3, <1>4

(* The other steps: they touch neither the snapshots, unless a trade does, *)
(* nor leave a new live answer.                                            *)
LEMMA OtherSteps ==
  ASSUME [Next]_vars,
         \A c \in Calls : ~ (LeaveBinance(c) \/ FinnhubAnswers(c) \/ AlphaAnswers(c))
  PROVE  /\ answer' = answer \/ answer'.source \in {"semantic", "redis", "error"}
         /\ snapshot' = snapshot \/ \E s \in Streamed : StreamTick(s)
<1>1. CASE \E c \in Calls : QuoteLatest(c)
  BY <1>1 DEF QuoteLatest, AnswerFromSemantic, AnswerFromRedis, GoFetch, Hit, cacheVars
<1>2. CASE \E c \in Calls : FetchStep(c)
  BY <1>2 DEF FetchStep, BinanceAnswers, BinanceFails, FinnhubFails, AlphaFails,
     MoveOn, cacheVars
<1>3. CASE \E s \in Streamed : StreamTick(s)
  BY <1>3 DEF StreamTick
<1>4. CASE RedisToggles \/ ClockAdvances \/ UNCHANGED vars
  BY <1>4 DEF RedisToggles, ClockAdvances, vars, cacheVars
<1>5. QED BY <1>1, <1>2, <1>3, <1>4 DEF Next

LEMMA NeverOlder ==
  ASSUME IInv, [Next]_vars, NEW t \in Symbols
  PROVE  NoOlder(t)
<1>1. ASSUME NEW c \in Calls,
             LeaveBinance(c) \/ FinnhubAnswers(c) \/ AlphaAnswers(c)
      PROVE  NoOlder(t)
  <2>1. PICK s \in Symbols, born \in Int :
          Respond(c, s, born) /\ (s \in StocksOnly => born = now)
    BY <1>1, QuoteArrives
  <2>2. QED BY <2>1, WriteIsNewer DEF Respond
<1>2. ASSUME NEW s \in Streamed, StreamTick(s)
      PROVE  NoOlder(t)
  <2>1. PICK lag \in 0..MaxLag :
          SetSnapshot(s, now - lag, now - lag + LocalOffset)
    BY <1>2 DEF StreamTick
  <2>2. s \in Symbols /\ s \notin StocksOnly
    BY StreamedAssumption DEF StocksOnly
  <2>3. now - lag \in Int /\ now - lag + LocalOffset \in Int
    BY LagAssumption, OffsetAssumption DEF IInv, TypeOK
  <2>4. QED BY <2>1, <2>2, <2>3, WriteIsNewer
<1>3. CASE snapshot' = snapshot
  <2>1. snapshot[t] # None => snapshot[t].born \in Int
    BY DEF IInv, TypeOK, Snapshots
  <2>2. QED BY <1>3, <2>1 DEF NoOlder
<1>4. QED BY <1>1, <1>2, <1>3, OtherSteps

(* However fetches overlap and in whatever order they end, the snapshot of *)
(* a stock is never replaced by an older price: its quote is created and   *)
(* stored without a suspension between.                                    *)
THEOREM NeverRegresses == Spec => SnapshotNeverRegresses
<1>1. IInv /\ [Next]_vars => [\A s \in StocksOnly : NoOlder(s)]_vars
  BY NeverOlder DEF StocksOnly
<1>2. (\A s \in StocksOnly : NoOlder(s)) =>
        \A s \in StocksOnly : snapshot[s] # None =>
          snapshot'[s] # None /\ snapshot'[s].born >= snapshot[s].born
  BY DEF NoOlder
<1>3. QED BY <1>1, <1>2, Invariance, PTL DEF Spec, SnapshotNeverRegresses

(* A live answer is found in the snapshot, it or a newer one, under every  *)
(* symbol that names its own quotes.  (Trading pairs do not: their REST    *)
(* quote is named by the coin.)                                            *)
THEOREM LiveAnswersKept == Spec => []LiveAnswerKept
<1>1. Init => LiveAnswerKept
  BY DEF Init, LiveAnswerKept, NoAnswer
<1>2. IInv /\ LiveAnswerKept /\ [Next]_vars => LiveAnswerKept'
  <2> SUFFICES ASSUME IInv, LiveAnswerKept, [Next]_vars,
                      answer'.source = "live", answer'.kept,
                      answer'.request.symbol \in OwnName
               PROVE  /\ snapshot'[answer'.request.symbol] # None
                      /\ answer'.request.symbol \in StocksOnly =>
                           snapshot'[answer'.request.symbol].born >= answer'.born
    BY DEF LiveAnswerKept
  <2>1. CASE answer' = answer
    <3>1. /\ answer \in Answers /\ answer.source = "live"
          /\ snapshot \in [Symbols -> Snapshots \cup {None}]
      BY <2>1 DEF IInv, TypeOK
    <3> DEFINE t == answer.request.symbol
    <3>2. t \in Symbols /\ answer.born \in Int
      BY <3>1 DEF Answers, Requests
    <3>3. snapshot[t] # None /\ (t \in StocksOnly => snapshot[t].born >= answer.born)
      BY <2>1 DEF LiveAnswerKept
    <3>4. snapshot[t].born \in Int
      BY <3>1, <3>2, <3>3 DEF Snapshots
    <3>5. snapshot'[t] # None /\ (t \in StocksOnly => snapshot'[t].born >= snapshot[t].born)
      BY <3>2, <3>3, NeverOlder DEF NoOlder
    <3>6. IInv'
      BY Inductive
    <3>7. snapshot'[t].born \in Int
      BY <3>2, <3>5, <3>6 DEF IInv, TypeOK, Snapshots
    <3>8. QED BY <2>1, <3>2, <3>3, <3>4, <3>5, <3>7
  <2>2. ASSUME NEW c \in Calls,
               LeaveBinance(c) \/ FinnhubAnswers(c) \/ AlphaAnswers(c)
        PROVE  /\ snapshot'[answer'.request.symbol] # None
               /\ answer'.request.symbol \in StocksOnly =>
                    snapshot'[answer'.request.symbol].born >= answer'.born
    <3>1. PICK s \in Symbols, born \in Int :
            /\ Respond(c, s, born)
            /\ s \in {request[c].symbol, CoinOf[request[c].symbol]}
      BY <2>2, QuoteArrives
    <3>2. request[c] \in Requests /\ request[c].symbol \in Symbols
      BY <2>2, QuoteArrives DEF Requests
    <3>3. s = request[c].symbol
      BY <3>1, <3>2, NoCoinAssumption DEF Respond, OwnName
    <3>4. /\ answer'.request = request[c] /\ answer'.born = born /\ redisUp
          /\ snapshot' = [snapshot EXCEPT ![s] = [born |-> born, stamp |-> born]]
      BY <3>1 DEF Respond, SetSnapshot
    <3>5. snapshot'[s] = [born |-> born, stamp |-> born]
      BY <3>4 DEF IInv, TypeOK
    <3>6. snapshot'[s] # None
      <4>1. [born |-> born, stamp |-> born] \in Snapshots
        BY DEF Snapshots
      <4>2. QED BY <3>5, <4>1, NoneAssumption
    <3>7. QED BY <3>3, <3>4, <3>5, <3>6
  <2>3. QED BY <2>1, <2>2, OtherSteps
<1>3. QED BY <1>1, <1>2, Invariance, PTL DEF Spec
=============================================================================
