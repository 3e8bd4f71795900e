----------------------------- MODULE VerdictLedger -----------------------------
(***************************************************************************)
(* What the verdict history promises its readers, without tasks, threads   *)
(* or restarts: a ledger in which a verdict is entered once and never      *)
(* altered; a BUY or SELL with a price gets at most two checks, the one    *)
(* after five days first, each entered once, with a price of a day between *)
(* the end of its window and today, and with the mark it deserves.         *)
(***************************************************************************)
EXTENDS Integers

CONSTANTS
  Entries,             \* verdicts ever entered
  Verdicts,            \* what they may say
  Prices,              \* market prices
  FirstWindow,         \* 5 days
  SecondWindow,        \* 30 days
  None                 \* NULL

VARIABLES
  book,                \* the ledger
  day                  \* today

ledgerVars == <<book, day>>

LedgerInit ==
  /\ book = [e \in Entries |-> None]
  /\ day = 0

Enter(e) ==
  /\ book[e] = None
  /\ \E v \in Verdicts, p \in Prices \cup {None} :
       book' = [book EXCEPT ![e] = [verdict |-> v, price |-> p, created |-> day,
                                    first |-> None, second |-> None]]
  /\ UNCHANGED day

(* 1 if the price has moved in the direction of the verdict by more than   *)
(* 2% of what it was.                                                      *)
Deserved(entry, p) ==
  LET gain == 100 * (p - entry.price)
      limit == 2 * entry.price
  IN IF \/ entry.verdict \in {"STRONG BUY", "BUY"} /\ gain > limit
        \/ entry.verdict \in {"STRONG SELL", "SELL"} /\ -gain > limit
     THEN 1 ELSE 0

Open(e) ==
  /\ book[e] # None
  /\ book[e].verdict \in {"STRONG BUY", "BUY", "SELL", "STRONG SELL"}
  /\ book[e].price # None
  /\ book[e].second = None

Mark(entry, p, at) == [price |-> p, at |-> at, correct |-> Deserved(entry, p)]

CheckFirst(e) ==
  /\ Open(e) /\ book[e].first = None
  /\ \E p \in Prices, at \in (book[e].created + FirstWindow)..day :
       book' = [book EXCEPT ![e].first = Mark(book[e], p, at)]
  /\ UNCHANGED day

CheckSecond(e) ==
  /\ Open(e)
  /\ \E p \in Prices, at \in (book[e].created + SecondWindow)..day :
       book' = [book EXCEPT ![e].second = Mark(book[e], p, at)]
  /\ UNCHANGED day

NextDay == day' = day + 1 /\ UNCHANGED book

LedgerNext ==
  \/ \E e \in Entries : Enter(e) \/ CheckFirst(e) \/ CheckSecond(e)
  \/ NextDay

LedgerSpec == LedgerInit /\ [][LedgerNext]_ledgerVars
=============================================================================
