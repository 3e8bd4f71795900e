SPECIFICATION Spec
CONSTANTS
  stock = stock
  pair = pair
  coin = coin
  c1 = c1
  c2 = c2
  None = None
  NoCoin = NoCoin
  Symbols <- OneStock
  CoinOf <- StockIsNoCoin
  Streamed <- NothingStreamed
  Calls <- OneCall
  Asked <- StockQuery
  SemanticTTL = 3
  LocalOffset = 0
  MaxLag = 1
  MaxTime = 4
INVARIANTS CachedWithinMaxAge
