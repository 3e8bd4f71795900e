---------------------------- MODULE VerdictTracking ----------------------------
(***************************************************************************)
(* Recording verdicts and checking them against later prices:              *)
(* finance_mcp/verdict_history/tracker.py, and its two callers, the        *)
(* multi_agent_analysis tool and the streaming analysis endpoint.          *)
(*                                                                         *)
(* A finished debate is written to SQLite in a worker thread; then a       *)
(* background task is spawned that sleeps five days, fetches the price,    *)
(* writes the first check, sleeps twenty-five more and writes the second.  *)
(* Rows survive a restart of the server, recorders and tasks do not.  A    *)
(* client that leaves the streaming endpoint cancels the recorder, not the *)
(* thread that writes for it.                                              *)
(***************************************************************************)
EXTENDS Integers

CONSTANTS
  Analyses,       \* the analyses clients ask for
  Streaming,      \* those asked of the streaming endpoint
  Verdicts,       \* verdicts the judge gives
  Prices,         \* market prices
  FirstWait,      \* 5 trading days
  SecondWait,     \* 25 trading days more
  InfoEnabled,    \* the log level lets INFO through (the default does)
  PriceCanFail,   \* yfinance may return nothing
  WriteCanFail,   \* an SQLite write may raise
  MaxRestarts,    \* bound: restarts of the server
  MaxTime,        \* bound: the clock stops here unless a task sleeps longer
  None            \* NULL

ASSUME StreamingAssumption == Streaming \subseteq Analyses
ASSUME PricesAssumption == Prices \subseteq Nat \ {0} /\ None \notin Prices
ASSUME WaitsAssumption == FirstWait \in Nat /\ SecondWait \in Nat
ASSUME FlagsAssumption ==
  InfoEnabled \in BOOLEAN /\ PriceCanFail \in BOOLEAN /\ WriteCanFail \in BOOLEAN
ASSUME BoundsAssumption == MaxRestarts \in Nat /\ MaxTime \in Nat

VARIABLES
  now,            \* time of day, in days
  restarts,       \* how often the server was restarted
  rows,           \* the verdicts table, by the analysis that made the row
  recorder,       \* where each analysis stands
  made,           \* the verdict and price each analysis found
  task,           \* where the accuracy task of each row stands
  due,            \* when it wakes up
  seen            \* the price it fetched last

vars == <<now, restarts, rows, recorder, made, task, due, seen>>

Bullish == {"STRONG BUY", "BUY"}
Bearish == {"SELL", "STRONG SELL"}
Directional == Bullish \cup Bearish

Findings == [verdict : Verdicts, price : Prices \cup {None}]
(* first and second: price_5d, correct_5d and price_30d, correct_30d, with *)
(* the time the price was fetched as history.                              *)
Checks == [price : Prices, correct : 0..1, at : Nat]
Rows == [verdict : Verdicts, price : Prices \cup {None}, created : Nat,
         first : Checks \cup {None}, second : Checks \cup {None}]

ASSUME NoneAssumption == None \notin Rows

RecorderStages == {"idle", "debate", "writing", "orphaned", "over"}
TaskStages == {"none", "sleep1", "price1", "write1", "sleep2", "price2", "write2",
               "ended", "died", "lost"}

TypeOK ==
  /\ now \in Nat /\ restarts \in 0..MaxRestarts
  /\ rows \in [Analyses -> Rows \cup {None}]
  /\ recorder \in [Analyses -> RecorderStages]
  /\ made \in [Analyses -> Findings \cup {None}]
  /\ task \in [Analyses -> TaskStages]
  /\ due \in [Analyses -> Nat]
  /\ seen \in [Analyses -> [price : Prices, at : Nat] \cup {None}]

Init ==
  /\ now = 0 /\ restarts = 0
  /\ rows = [a \in Analyses |-> None]
  /\ recorder = [a \in Analyses |-> "idle"]
  /\ made = [a \in Analyses |-> None]
  /\ task = [a \in Analyses |-> "none"]
  /\ due = [a \in Analyses |-> 0]
  /\ seen = [a \in Analyses |-> None]

-----------------------------------------------------------------------------
(* _is_correct: a change of more than 2% in the direction of the verdict.  *)
(* Variant that counts a change of exactly 2%:                             *)
IsCorrectAtLimit(verdict, at, then) ==
  IF \/ verdict \in Bullish /\ 50 * (then - at) >= at
     \/ verdict \in Bearish /\ 50 * (at - then) >= at
  THEN 1 ELSE 0

(* Variant that returns a sign:                                            *)
IsCorrectSigned(verdict, at, then) ==
  IF \/ verdict \in Bullish /\ 50 * (then - at) > at
     \/ verdict \in Bearish /\ 50 * (at - then) > at
  THEN 1 ELSE -1

IsCorrect(verdict, at, then) ==
  IF \/ verdict \in Bullish /\ 50 * (then - at) > at
     \/ verdict \in Bearish /\ 50 * (at - then) > at
  THEN 1 ELSE 0

(* The test at the head of _schedule_price_updates.                        *)
Eligible(f) == f.verdict \in Directional /\ f.price # None

(* A request for an analysis.                                              *)
Analyse(a) ==
  /\ recorder[a] = "idle" /\ made[a] = None
  /\ recorder' = [recorder EXCEPT ![a] = "debate"]
  /\ UNCHANGED <<now, restarts, rows, made, task, due, seen>>

(* The judge decides; record_verdict hands the row to a thread.            *)
Decide(a) ==
  /\ recorder[a] = "debate"
  /\ \E f \in Findings : made' = [made EXCEPT ![a] = f]
  /\ recorder' = [recorder EXCEPT ![a] = "writing"]
  /\ UNCHANGED <<now, restarts, rows, task, due, seen>>

Insert(a) ==
  rows' = [rows EXCEPT ![a] =
             [verdict |-> made[a].verdict, price |-> made[a].price,
              created |-> now, first |-> None, second |-> None]]

(* The row is written and record_verdict goes on.  Its log call passes     *)
(* keyword arguments to a standard library logger, which raises TypeError  *)
(* when INFO is enabled; the callers swallow it.  Otherwise the task is    *)
(* spawned, and returns at once when there is nothing to check.            *)
RowWritten(a) ==
  /\ recorder[a] = "writing"
  /\ Insert(a)
  /\ recorder' = [recorder EXCEPT ![a] = "over"]
  /\ task' = [task EXCEPT ![a] = IF InfoEnabled THEN "none"
                                 ELSE IF Eligible(made[a]) THEN "sleep1"
                                 ELSE "ended"]
  /\ due' = [due EXCEPT ![a] = now + FirstWait]
  /\ UNCHANGED <<now, restarts, made, seen>>

RowNotWritten(a) ==
  /\ recorder[a] = "writing" /\ WriteCanFail
  /\ recorder' = [recorder EXCEPT ![a] = "over"]
  /\ UNCHANGED <<now, restarts, rows, made, task, due, seen>>

(* The client of a stream leaves: CancelledError at the await.             *)
ClientLeaves(a) ==
  /\ a \in Streaming
  /\ \/ /\ recorder[a] = "debate"
        /\ recorder' = [recorder EXCEPT ![a] = "over"]
     \/ /\ recorder[a] = "writing"
        /\ recorder' = [recorder EXCEPT ![a] = "orphaned"]
  /\ UNCHANGED <<now, restarts, rows, made, task, due, seen>>

(* The thread of a cancelled recorder ends; it may never have started.     *)
OrphanEnds(a) ==
  /\ recorder[a] = "orphaned"
  /\ Insert(a) \/ UNCHANGED rows
  /\ recorder' = [recorder EXCEPT ![a] = "over"]
  /\ UNCHANGED <<now, restarts, made, task, due, seen>>

-----------------------------------------------------------------------------
(* The task of a row.  asyncio.sleep ends no earlier than asked.           *)
Wake(a, from, to) ==
  /\ task[a] = from /\ now >= due[a]
  /\ task' = [task EXCEPT ![a] = to]
  /\ UNCHANGED <<now, restarts, rows, recorder, made, due, seen>>

PriceFound(a, from, to) ==
  /\ task[a] = from
  /\ \E p \in Prices : seen' = [seen EXCEPT ![a] = [price |-> p, at |-> now]]
  /\ task' = [task EXCEPT ![a] = to]
  /\ UNCHANGED <<now, restarts, rows, recorder, made, due>>

(* _fetch_current_price returned None: the check is skipped.               *)
(* Variant that asks again at once until there is a price:                 *)
PriceRetried(a, from, to) ==
  /\ task[a] = from /\ PriceCanFail
  /\ task' = [task EXCEPT ![a] = IF from = "price1" THEN "sleep1" ELSE "sleep2"]
  /\ UNCHANGED <<now, restarts, rows, recorder, made, due, seen>>

PriceMissing(a, from, to) ==
  /\ task[a] = from /\ PriceCanFail
  /\ task' = [task EXCEPT ![a] = to]
  /\ due' = [due EXCEPT ![a] = now + SecondWait]
  /\ UNCHANGED <<now, restarts, rows, recorder, made, seen>>

Check(a) ==
  [price |-> seen[a].price, at |-> seen[a].at,
   correct |-> IsCorrect(made[a].verdict, made[a].price, seen[a].price)]

(* The first check is written; again the log call raises under INFO, which *)
(* here ends the task.                                                     *)
FirstWritten(a) ==
  /\ task[a] = "write1"
  /\ rows' = [rows EXCEPT ![a].first = Check(a)]
  /\ task' = [task EXCEPT ![a] = IF InfoEnabled THEN "died" ELSE "sleep2"]
  /\ due' = [due EXCEPT ![a] = now + SecondWait]
  /\ UNCHANGED <<now, restarts, recorder, made, seen>>

(* Variant that writes the columns of the first check:                     *)
SecondWrittenOverFirst(a) ==
  /\ task[a] = "write2"
  /\ rows' = [rows EXCEPT ![a].first = Check(a)]
  /\ task' = [task EXCEPT ![a] = IF InfoEnabled THEN "died" ELSE "ended"]
  /\ UNCHANGED <<now, restarts, recorder, made, due, seen>>

SecondWritten(a) ==
  /\ task[a] = "write2"
  /\ rows' = [rows EXCEPT ![a].second = Check(a)]
  /\ task' = [task EXCEPT ![a] = IF InfoEnabled THEN "died" ELSE "ended"]
  /\ UNCHANGED <<now, restarts, recorder, made, due, seen>>

(* The update raises: nothing catches it in the task.                      *)
CheckNotWritten(a) ==
  /\ task[a] \in {"write1", "write2"} /\ WriteCanFail
  /\ task' = [task EXCEPT ![a] = "died"]
  /\ UNCHANGED <<now, restarts, rows, recorder, made, due, seen>>

TaskStep(a) ==
  \/ Wake(a, "sleep1", "price1") \/ Wake(a, "sleep2", "price2")
  \/ PriceFound(a, "price1", "write1") \/ PriceFound(a, "price2", "write2")
  \/ PriceMissing(a, "price1", "sleep2") \/ PriceMissing(a, "price2", "ended")
  \/ FirstWritten(a) \/ SecondWritten(a) \/ CheckNotWritten(a)

RecorderStep(a) ==
  Decide(a) \/ RowWritten(a) \/ RowNotWritten(a) \/ OrphanEnds(a)

(* Nothing reads the table back at start-up (lifespan, initialize_db).     *)
Restart ==
  /\ restarts < MaxRestarts
  /\ restarts' = restarts + 1
  /\ recorder' = [a \in Analyses |->
                    IF recorder[a] = "idle" THEN "idle" ELSE "over"]
  /\ task' = [a \in Analyses |->
                IF task[a] \in {"none", "ended", "died"} THEN task[a] ELSE "lost"]
  /\ UNCHANGED <<now, rows, made, due, seen>>

Sleeps(a) == task[a] \in {"sleep1", "sleep2"} /\ now < due[a]

DayPasses ==
  /\ now < MaxTime \/ \E a \in Analyses : Sleeps(a)
  /\ now' = now + 1
  /\ UNCHANGED <<restarts, rows, recorder, made, task, due, seen>>

Next ==
  \/ \E a \in Analyses :
       Analyse(a) \/ RecorderStep(a) \/ ClientLeaves(a) \/ TaskStep(a)
  \/ Restart
  \/ DayPasses

Spec == Init /\ [][Next]_vars

(* The event loop runs every ready coroutine, threads end, days pass.      *)
FairSpec ==
  /\ Spec
  /\ WF_vars(DayPasses)
  /\ \A a \in Analyses : WF_vars(RecorderStep(a)) /\ WF_vars(TaskStep(a))

-----------------------------------------------------------------------------
Written(a) == rows[a] # None
ChecksOf(a) == {rows[a].first, rows[a].second} \ {None}

(* docs/architecture.md: correct_5d is 1 if the price moved in the         *)
(* predicted direction by more than 2%, 0 otherwise - of the row's own     *)
(* prices, in both windows.                                                *)
JudgedByRowsPrices ==
  \A a \in Analyses : Written(a) => \A c \in ChecksOf(a) :
    (c.correct = 1) <=>
      LET up == 50 * c.price - 50 * rows[a].price IN
        \/ rows[a].verdict \in Bullish /\ up > rows[a].price
        \/ rows[a].verdict \in Bearish /\ -up > rows[a].price

(* The prices are taken when the windows have passed: 5 days after the     *)
(* verdict, and 30 days after it.                                          *)
WindowsRespected ==
  \A a \in Analyses : Written(a) =>
    /\ rows[a].first # None => rows[a].first.at >= rows[a].created + FirstWait
    /\ rows[a].second # None =>
         rows[a].second.at >= rows[a].created + FirstWait + SecondWait

(* Both: a check that is written is right.                                 *)
ChecksAreRight == JudgedByRowsPrices /\ WindowsRespected

(* tracker.py: persists a verdict and schedules its accuracy checks.       *)
RecordedIsScheduled ==
  \A a \in Analyses :
    recorder[a] = "over" /\ Written(a) /\ Eligible(made[a]) => task[a] # "none"

(* A scheduled task ends, even when prices are missing: it does not hold   *)
(* on for ever, unless a restart of the server loses it.                   *)
ScheduledEnds ==
  \A a \in Analyses :
    task[a] = "sleep1" ~> task[a] \in {"ended", "died", "lost"}

-----------------------------------------------------------------------------
(* The promise this implements: the rows are a VerdictLedger.  Restarts,   *)
(* cancelled recorders and failures may leave out an entry or a check;     *)
(* none is altered, made twice, made too early or for another row.         *)
Ledger == INSTANCE VerdictLedger
  WITH Entries <- Analyses, book <- rows, day <- now,
       FirstWindow <- FirstWait, SecondWindow <- FirstWait + SecondWait

ImplementsLedger == Ledger!LedgerSpec
=============================================================================
