SPECIFICATION FairSpec
CONSTANTS
  stock = stock
  pair = pair
  coin = coin
  c1 = c1
  c2 = c2
  None = None
  NoCoin = NoCoin
  Symbols <- AllSymbols
  CoinOf <- PairNamesCoin
  Streamed <- PairStreamed
  Calls <- TwoCalls
  Asked <- EachKind
  SemanticTTL = 1
  LocalOffset = 1
  MaxLag = 1
  MaxTime = 2
INVARIANTS TypeOK RedisAnswerFresh SemanticAnswerRecent LiveAnswerKept
PROPERTIES SnapshotNeverRegresses EveryRequestAnswered
