----------------------------- MODULE MCQuoteCache -----------------------------
(* Small instances of QuoteCache: a listed stock, which nothing streams,   *)
(* and a coin with its trading pair, which is streamed.                    *)
EXTENDS QuoteCache

CONSTANTS stock, pair, coin, c1, c2

AllSymbols == {stock, pair, coin}
PairNamesCoin == [s \in AllSymbols |-> IF s = stock THEN NoCoin ELSE coin]
PairStreamed == {pair}
OneCall == {c1}
TwoCalls == {c1, c2}

Ask(s, maxAge, mode) == [symbol |-> s, maxAge |-> maxAge, mode |-> mode]

(* The stock's answers are remembered for less time than a caller allows,  *)
(* so that each cache is asked in turn; the pair is asked for as it is.    *)
EachKind == {Ask(stock, 2, "remember"), Ask(pair, 1, "plain")}

OneStock == {stock}
StockIsNoCoin == [s \in {stock} |-> NoCoin]
NothingStreamed == {}
StockQuery == {Ask(stock, 1, "remember")}
=============================================================================
