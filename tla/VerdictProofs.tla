----------------------------- MODULE VerdictProofs -----------------------------
(***************************************************************************)
(* Proofs about VerdictTracking, for all analyses, prices, waits and       *)
(* numbers of restarts, whatever the log level lets through.               *)
(*                                                                         *)
(* The accuracy task computes a check from what it was spawned with, not   *)
(* from the row; that the row says the same (RowTells), that its columns   *)
(* are still empty when the task reaches them (ColumnsEmpty) and that the  *)
(* task is nowhere before its time (InTime) is what makes checks right.    *)
(***************************************************************************)
EXTENDS VerdictTracking, TLAPS

SeenPrices == [price : Prices, at : Nat]
BeforeFirst == {"sleep1", "price1", "write1"}
BeforeSecond == {"sleep2", "price2", "write2"}

(* The row of a says what its analysis found.                              *)
Tells(a) ==
  /\ rows[a] \in Rows /\ made[a] \in Findings
  /\ rows[a].verdict = made[a].verdict /\ rows[a].price = made[a].price
  /\ rows[a].created <= now

RowTells(a) ==
  Written(a) \/ task[a] \in BeforeFirst \cup BeforeSecond => Tells(a)

(* Until its recorder is over an analysis has neither row nor task.        *)
RecorderFirst(a) ==
  /\ recorder[a] # "over" => rows[a] = None /\ task[a] = "none"
  /\ recorder[a] \in {"writing", "orphaned"} => made[a] \in Findings

ColumnsEmpty(a) ==
  /\ task[a] \in BeforeFirst \cup BeforeSecond =>
       Eligible(made[a]) /\ rows[a].second = None
  /\ task[a] \in BeforeFirst => rows[a].first = None

FirstTime(a) == rows[a].created + FirstWait
SecondTime(a) == rows[a].created + FirstWait + SecondWait

(* The price was seen between the end of the window and today.             *)
SeenIn(a, end) == seen[a] \in SeenPrices /\ seen[a].at >= end /\ seen[a].at <= now

InTime(a) ==
  /\ task[a] = "sleep1" => due[a] >= FirstTime(a)
  /\ task[a] \in {"price1", "write1"} => now >= FirstTime(a)
  /\ task[a] = "sleep2" => due[a] >= SecondTime(a)
  /\ task[a] \in {"price2", "write2"} => now >= SecondTime(a)
  /\ task[a] = "write1" => SeenIn(a, FirstTime(a))
  /\ task[a] = "write2" => SeenIn(a, SecondTime(a))

(* The check c is what the verdict v, given at price p, deserves.          *)
Right(c, v, p) ==
  (c.correct = 1) <=>
    \/ v \in Bullish /\ 50 * c.price - 50 * p > p
    \/ v \in Bearish /\ -(50 * c.price - 50 * p) > p

RowRight(a) ==
  Written(a) \/ task[a] \in BeforeFirst \cup BeforeSecond =>
    /\ rows[a].first # None =>
         /\ Right(rows[a].first, rows[a].verdict, rows[a].price)
         /\ rows[a].first.at >= FirstTime(a)
    /\ rows[a].second # None =>
         /\ Right(rows[a].second, rows[a].verdict, rows[a].price)
         /\ rows[a].second.at >= SecondTime(a)

RowInv(a) ==
  RowTells(a) /\ RecorderFirst(a) /\ ColumnsEmpty(a) /\ InTime(a) /\ RowRight(a)

IInv == TypeOK /\ \A a \in Analyses : RowInv(a)

-----------------------------------------------------------------------------
(* An analysis that a step leaves alone keeps its part of the invariant,   *)
(* also when days pass.                                                    *)
LEMMA Frame ==
  ASSUME NEW d \in Analyses, TypeOK, RowInv(d), now' \in Nat, now' >= now,
         rows'[d] = rows[d], recorder'[d] = recorder[d], made'[d] = made[d],
         task'[d] = task[d], due'[d] = due[d], seen'[d] = seen[d]
  PROVE  RowInv(d)'
<1>1. now \in Nat
  BY DEF TypeOK
<1>2. Tells(d) => Tells(d)' /\ FirstTime(d) \in Nat /\ SecondTime(d) \in Nat
  BY <1>1, WaitsAssumption DEF Tells, FirstTime, SecondTime, Rows
<1>3. FirstTime(d)' = FirstTime(d) /\ SecondTime(d)' = SecondTime(d)
  BY DEF FirstTime, SecondTime
<1>4. RowTells(d)'
  BY <1>2 DEF RowInv, RowTells, Written
<1>5. RecorderFirst(d)'
  BY DEF RowInv, RecorderFirst
<1>6. ColumnsEmpty(d)'
  BY DEF RowInv, ColumnsEmpty, Eligible
<1>7. InTime(d)'
  <2>1. \A end : SeenIn(d, end) => SeenIn(d, end)'
    BY <1>1 DEF SeenIn, SeenPrices
  <2>2. InTime(d)
    BY DEF RowInv
  <2>3. task[d] \in BeforeFirst \cup BeforeSecond =>
          FirstTime(d) \in Nat /\ SecondTime(d) \in Nat
    BY <1>2 DEF RowInv, RowTells
  <2>4. task[d] = "write1" => SeenIn(d, FirstTime(d))'
    BY <1>3, <2>1, <2>2 DEF InTime, SeenIn
  <2>5. task[d] = "write2" => SeenIn(d, SecondTime(d))'
    BY <1>3, <2>1, <2>2 DEF InTime, SeenIn
  <2>6. QED BY <1>1, <1>3, <2>2, <2>3, <2>4, <2>5
            DEF InTime, BeforeFirst, BeforeSecond
<1>8. RowRight(d)'
  BY <1>3 DEF RowInv, RowRight, Written, Right
<1>9. QED BY <1>4, <1>5, <1>6, <1>7, <1>8 DEF RowInv

(* What a step of the recorder or the task of a leaves alone.              *)
OthersKept(a) ==
  /\ now' = now
  /\ \A d \in Analyses \ {a} :
       /\ rows'[d] = rows[d] /\ recorder'[d] = recorder[d] /\ made'[d] = made[d]
       /\ task'[d] = task[d] /\ due'[d] = due[d] /\ seen'[d] = seen[d]

LEMMA StepOfOne ==
  ASSUME IInv, NEW a \in Analyses, OthersKept(a), TypeOK', RowInv(a)'
  PROVE  IInv'
<1>1. now \in Nat /\ now' = now
  BY DEF IInv, TypeOK, OthersKept
<1>2. ASSUME NEW d \in Analyses
      PROVE  RowInv(d)'
  <2>1. CASE d = a
    BY <2>1
  <2>2. CASE d # a
    <3>1. /\ rows'[d] = rows[d] /\ recorder'[d] = recorder[d] /\ made'[d] = made[d]
          /\ task'[d] = task[d] /\ due'[d] = due[d] /\ seen'[d] = seen[d]
      BY <2>2 DEF OthersKept
    <3>2. TypeOK /\ RowInv(d)
      BY DEF IInv
    <3>3. now' \in Nat /\ now' >= now
      BY <1>1
    <3>4. QED BY <3>1, <3>2, <3>3, Frame
  <2>3. QED BY <2>1, <2>2
<1>3. QED BY <1>2 DEF IInv

(* The check that the task writes is right, for prices that are known.     *)
LEMMA CheckRight ==
  ASSUME NEW a \in Analyses, Tells(a), Eligible(made[a]), seen[a] \in SeenPrices
  PROVE  /\ Check(a) \in Checks
         /\ Check(a).at = seen[a].at
         /\ Right(Check(a), rows[a].verdict, rows[a].price)
<1>1. made[a].price \in Prices /\ seen[a].price \in Prices /\ seen[a].at \in Nat
  BY DEF Tells, Eligible, Findings, SeenPrices
<1>2. made[a].price \in Nat /\ seen[a].price \in Nat
  BY <1>1, PricesAssumption
<1>3. IsCorrect(made[a].verdict, made[a].price, seen[a].price) \in 0..1
  BY DEF IsCorrect
<1>4. Check(a) \in Checks /\ Check(a).at = seen[a].at
  BY <1>1, <1>3 DEF Check, Checks
<1>5. Right(Check(a), made[a].verdict, made[a].price)
  BY <1>2 DEF Right, Check, IsCorrect
<1>6. QED BY <1>4, <1>5 DEF Tells

-----------------------------------------------------------------------------
(* The recorder.  Nothing is in the table yet when it writes the row.      *)
LEMMA AnalyseStep ==
  ASSUME IInv, NEW a \in Analyses, Analyse(a)
  PROVE  IInv'
<1>1. TypeOK /\ RowInv(a)
  BY DEF IInv
<1>2. TypeOK'
  BY <1>1 DEF Analyse, TypeOK, RecorderStages
<1>3. OthersKept(a)
  BY <1>1 DEF Analyse, TypeOK, OthersKept
<1>4. /\ recorder'[a] = "debate" /\ recorder[a] = "idle"
      /\ UNCHANGED <<now, rows, made, task, due, seen>>
  BY <1>1 DEF Analyse, TypeOK
<1>5. RowInv(a)'
  BY <1>1, <1>4 DEF RowInv, RowTells, Tells, Written, RecorderFirst, ColumnsEmpty,
     Eligible, InTime, SeenIn, FirstTime, SecondTime, RowRight, Right
<1>6. QED BY <1>2, <1>3, <1>5, StepOfOne

LEMMA DecideStep ==
  ASSUME IInv, NEW a \in Analyses, Decide(a)
  PROVE  IInv'
<1>1. TypeOK /\ RowInv(a)
  BY DEF IInv
<1>2. PICK f \in Findings : made' = [made EXCEPT ![a] = f]
  BY DEF Decide
<1>3. TypeOK'
  BY <1>1, <1>2 DEF Decide, TypeOK, RecorderStages
<1>4. OthersKept(a)
  BY <1>1, <1>2 DEF Decide, TypeOK, OthersKept
<1>5. /\ recorder'[a] = "writing" /\ made'[a] \in Findings
      /\ rows[a] = None /\ task[a] = "none"
      /\ UNCHANGED <<now, rows, task, due, seen>>
  BY <1>1, <1>2 DEF Decide, TypeOK, RowInv, RecorderFirst
<1>6. RowInv(a)'
  BY <1>5 DEF RowInv, RowTells, Written, RecorderFirst, ColumnsEmpty, InTime, SeenIn,
     RowRight, BeforeFirst, BeforeSecond
<1>7. QED BY <1>3, <1>4, <1>6, StepOfOne

(* What Insert leaves in the table, for a recorder that is over then.      *)
LEMMA Inserted ==
  ASSUME IInv, NEW a \in Analyses, recorder[a] \in {"writing", "orphaned"},
         Insert(a), recorder'[a] = "over", UNCHANGED <<now, made>>
  PROVE  /\ rows' \in [Analyses -> Rows \cup {None}]
         /\ Tells(a)' /\ RecorderFirst(a)'
         /\ rows'[a].created = now
         /\ rows'[a].first = None /\ rows'[a].second = None
         /\ \A d \in Analyses \ {a} : rows'[d] = rows[d]
<1>1. TypeOK /\ made[a] \in Findings
  BY DEF IInv, RowInv, RecorderFirst
<1>2. rows' = [rows EXCEPT ![a] =
                 [verdict |-> made[a].verdict, price |-> made[a].price,
                  created |-> now, first |-> None, second |-> None]]
  BY DEF Insert
<1>3. rows'[a] \in Rows
  BY <1>1, <1>2 DEF TypeOK, Rows, Findings
<1>4. QED BY <1>1, <1>2, <1>3 DEF TypeOK, Tells, RecorderFirst

LEMMA RowWrittenStep ==
  ASSUME IInv, NEW a \in Analyses, RowWritten(a)
  PROVE  IInv'
<1>1. TypeOK
  BY DEF IInv
<1>2. /\ recorder[a] = "writing" /\ Insert(a) /\ recorder'[a] = "over"
      /\ UNCHANGED <<now, restarts, made, seen>>
  BY <1>1 DEF RowWritten, TypeOK
<1>3. /\ task'[a] \in {"none", "ended", "sleep1"}
      /\ task'[a] = "sleep1" => Eligible(made[a])
      /\ due'[a] = now + FirstWait
      /\ \A d \in Analyses \ {a} : task'[d] = task[d] /\ due'[d] = due[d]
      /\ \A d \in Analyses \ {a} : recorder'[d] = recorder[d]
      /\ task' \in [Analyses -> TaskStages] /\ due' \in [Analyses -> Nat]
      /\ recorder' \in [Analyses -> RecorderStages]
  BY <1>1, WaitsAssumption DEF RowWritten, TypeOK, TaskStages, RecorderStages
<1>4. /\ rows' \in [Analyses -> Rows \cup {None}]
      /\ Tells(a)' /\ RecorderFirst(a)'
      /\ rows'[a].created = now
      /\ rows'[a].first = None /\ rows'[a].second = None
      /\ \A d \in Analyses \ {a} : rows'[d] = rows[d]
  BY <1>2, Inserted
<1>5. TypeOK'
  BY <1>1, <1>2, <1>3, <1>4 DEF TypeOK
<1>6. OthersKept(a)
  BY <1>2, <1>3, <1>4 DEF OthersKept
<1>7. ColumnsEmpty(a)' /\ InTime(a)'
  BY <1>1, <1>2, <1>3, <1>4, WaitsAssumption
  DEF TypeOK, ColumnsEmpty, Eligible, InTime, SeenIn, FirstTime, BeforeFirst, BeforeSecond
<1>8. RowRight(a)'
  BY <1>4 DEF RowRight
<1>9. RowInv(a)'
  BY <1>4, <1>7, <1>8 DEF RowInv, RowTells
<1>10. QED BY <1>5, <1>6, <1>9, StepOfOne

(* Steps that only end or abandon the recorder.                            *)
LEMMA RecorderGivesUp ==
  ASSUME IInv, NEW a \in Analyses, NEW stage \in {"over", "orphaned"},
         recorder[a] \in {"debate", "writing", "orphaned"},
         stage = "orphaned" => recorder[a] = "writing",
         recorder' = [recorder EXCEPT ![a] = stage],
         UNCHANGED <<now, restarts, rows, made, task, due, seen>>
  PROVE  IInv'
<1>1. TypeOK /\ RowInv(a)
  BY DEF IInv
<1>2. TypeOK'
  BY <1>1 DEF TypeOK, RecorderStages
<1>3. OthersKept(a)
  BY <1>1 DEF TypeOK, OthersKept
<1>4. recorder'[a] = stage
  BY <1>1 DEF TypeOK
<1>5. RowInv(a)'
  BY <1>1, <1>4 DEF RowInv, RowTells, Tells, Written, RecorderFirst, ColumnsEmpty,
     Eligible, InTime, SeenIn, FirstTime, SecondTime, RowRight, Right
<1>6. QED BY <1>2, <1>3, <1>5, StepOfOne

LEMMA OrphanEndsStep ==
  ASSUME IInv, NEW a \in Analyses, OrphanEnds(a)
  PROVE  IInv'
<1>1. TypeOK /\ RowInv(a)
  BY DEF IInv
<1>2. CASE UNCHANGED rows
  BY <1>2, RecorderGivesUp DEF OrphanEnds
<1>3. CASE Insert(a)
  <2>1. /\ recorder[a] = "orphaned" /\ recorder'[a] = "over" /\ task'[a] = "none"
        /\ UNCHANGED <<now, restarts, made, task, due, seen>>
        /\ \A d \in Analyses \ {a} : recorder'[d] = recorder[d]
        /\ recorder' \in [Analyses -> RecorderStages]
    BY <1>1 DEF OrphanEnds, TypeOK, RecorderStages, RowInv, RecorderFirst
  <2>2. /\ rows' \in [Analyses -> Rows \cup {None}]
        /\ Tells(a)' /\ RecorderFirst(a)'
        /\ rows'[a].first = None /\ rows'[a].second = None
        /\ \A d \in Analyses \ {a} : rows'[d] = rows[d]
    BY <1>3, <2>1, Inserted
  <2>3. TypeOK'
    BY <1>1, <2>1, <2>2 DEF TypeOK
  <2>4. OthersKept(a)
    BY <2>1, <2>2 DEF OthersKept
  <2>5. RowInv(a)'
    BY <2>1, <2>2 DEF RowInv, RowTells, ColumnsEmpty, InTime, SeenIn, RowRight,
       BeforeFirst, BeforeSecond
  <2>6. QED BY <2>3, <2>4, <2>5, StepOfOne
<1>4. QED BY <1>2, <1>3 DEF OrphanEnds

LEMMA RecorderKeeps ==
  ASSUME IInv, NEW a \in Analyses, RecorderStep(a) \/ ClientLeaves(a)
  PROVE  IInv'
<1>1. CASE Decide(a)
  BY <1>1, DecideStep
<1>2. CASE RowWritten(a)
  BY <1>2, RowWrittenStep
<1>3. CASE RowNotWritten(a)
  BY <1>3, RecorderGivesUp DEF RowNotWritten
<1>4. CASE OrphanEnds(a)
  BY <1>4, OrphanEndsStep
<1>5. CASE ClientLeaves(a)
  <2>1. CASE recorder[a] = "debate"
    BY <1>5, <2>1, RecorderGivesUp DEF ClientLeaves
  <2>2. CASE recorder[a] = "writing"
    BY <1>5, <2>2, RecorderGivesUp DEF ClientLeaves
  <2>3. QED BY <1>5, <2>1, <2>2 DEF ClientLeaves
<1>6. QED BY <1>1, <1>2, <1>3, <1>4, <1>5 DEF RecorderStep

-----------------------------------------------------------------------------
(* The task.  A step that writes no column keeps the row and its checks;   *)
(* it is left to show that the task reaches its next stage in time.        *)
LEMMA TaskMoves ==
  ASSUME IInv, NEW a \in Analyses, NEW from \in TaskStages, NEW to \in TaskStages,
         task[a] = from, task' = [task EXCEPT ![a] = to],
         UNCHANGED <<now, restarts, rows, recorder, made>>,
         due' \in [Analyses -> Nat],
         seen' \in [Analyses -> SeenPrices \cup {None}],
         \A d \in Analyses \ {a} : due'[d] = due[d] /\ seen'[d] = seen[d],
         from # "none",
         to \in BeforeFirst => from \in BeforeFirst,
         to \in BeforeSecond => from \in BeforeFirst \cup BeforeSecond,
         InTime(a)'
  PROVE  IInv'
<1>1. TypeOK /\ RowInv(a)
  BY DEF IInv
<1>2. TypeOK'
  BY <1>1 DEF TypeOK, SeenPrices
<1>3. OthersKept(a)
  BY <1>1 DEF TypeOK, OthersKept
<1>4. task'[a] = to
  BY <1>1 DEF TypeOK
<1>5. RowTells(a)'
  BY <1>1, <1>4 DEF RowInv, RowTells, Tells, Written
<1>6. RecorderFirst(a)'
  BY <1>1 DEF RowInv, RecorderFirst
<1>7. ColumnsEmpty(a)'
  BY <1>1, <1>4 DEF RowInv, ColumnsEmpty, Eligible
<1>8. RowRight(a)'
  BY <1>1 DEF RowInv, RowRight, Written, Right, FirstTime, SecondTime
<1>9. RowInv(a)'
  BY <1>5, <1>6, <1>7, <1>8 DEF RowInv
<1>10. QED BY <1>2, <1>3, <1>9, StepOfOne

LEMMA WakeStep ==
  ASSUME IInv, NEW a \in Analyses,
         Wake(a, "sleep1", "price1") \/ Wake(a, "sleep2", "price2")
  PROVE  IInv'
<1>1. TypeOK /\ RowInv(a)
  BY DEF IInv
<1>2. /\ now >= due[a] /\ UNCHANGED <<now, restarts, rows, recorder, made, due, seen>>
      /\ now \in Nat /\ due[a] \in Nat /\ task \in [Analyses -> TaskStages]
      /\ due \in [Analyses -> Nat]
      /\ seen \in [Analyses -> SeenPrices \cup {None}]
  BY <1>1 DEF Wake, TypeOK, SeenPrices
<1>3. CASE Wake(a, "sleep1", "price1")
  <2>1. task[a] = "sleep1" /\ task' = [task EXCEPT ![a] = "price1"]
    BY <1>3 DEF Wake
  <2>2. Tells(a) /\ due[a] >= FirstTime(a)
    BY <1>1, <2>1 DEF RowInv, RowTells, InTime, SeenIn, BeforeFirst
  <2>3. FirstTime(a) \in Nat
    BY <2>2, WaitsAssumption DEF Tells, FirstTime, Rows
  <2>4. InTime(a)'
    BY <1>2, <2>1, <2>2, <2>3 DEF InTime, SeenIn, FirstTime
  <2>5. "sleep1" \in TaskStages /\ "price1" \in TaskStages
    BY DEF TaskStages
  <2>6. QED BY <1>2, <2>1, <2>4, <2>5, TaskMoves DEF BeforeFirst, BeforeSecond
<1>4. CASE Wake(a, "sleep2", "price2")
  <2>1. task[a] = "sleep2" /\ task' = [task EXCEPT ![a] = "price2"]
    BY <1>4 DEF Wake
  <2>2. Tells(a) /\ due[a] >= SecondTime(a)
    BY <1>1, <2>1 DEF RowInv, RowTells, InTime, SeenIn, BeforeSecond
  <2>3. SecondTime(a) \in Nat
    BY <2>2, WaitsAssumption DEF Tells, SecondTime, Rows
  <2>4. InTime(a)'
    BY <1>2, <2>1, <2>2, <2>3 DEF InTime, SeenIn, SecondTime
  <2>5. "sleep2" \in TaskStages /\ "price2" \in TaskStages
    BY DEF TaskStages
  <2>6. QED BY <1>2, <2>1, <2>4, <2>5, TaskMoves DEF BeforeFirst, BeforeSecond
<1>5. QED BY <1>3, <1>4

(* The fetched price is stamped now, and now is in time.                   *)
LEMMA PriceFoundStep ==
  ASSUME IInv, NEW a \in Analyses,
         PriceFound(a, "price1", "write1") \/ PriceFound(a, "price2", "write2")
  PROVE  IInv'
<1>1. TypeOK /\ RowInv(a)
  BY DEF IInv
<1>2. PICK p \in Prices : seen' = [seen EXCEPT ![a] = [price |-> p, at |-> now]]
  BY DEF PriceFound
<1>3. /\ UNCHANGED <<now, restarts, rows, recorder, made, due>>
      /\ now \in Nat /\ due \in [Analyses -> Nat] /\ task \in [Analyses -> TaskStages]
      /\ seen' \in [Analyses -> SeenPrices \cup {None}]
      /\ seen'[a] \in SeenPrices /\ seen'[a].at = now
      /\ \A d \in Analyses \ {a} : due'[d] = due[d] /\ seen'[d] = seen[d]
  BY <1>1, <1>2 DEF PriceFound, TypeOK, SeenPrices
<1>4. CASE PriceFound(a, "price1", "write1")
  <2>1. task[a] = "price1" /\ task' = [task EXCEPT ![a] = "write1"]
    BY <1>4 DEF PriceFound
  <2>2. now >= FirstTime(a)
    BY <1>1, <2>1 DEF RowInv, InTime, SeenIn
  <2>3. InTime(a)'
    BY <1>3, <2>1, <2>2 DEF InTime, SeenIn, FirstTime
  <2>4. "price1" \in TaskStages /\ "write1" \in TaskStages
    BY DEF TaskStages
  <2>5. QED BY <1>3, <2>1, <2>3, <2>4, TaskMoves DEF BeforeFirst, BeforeSecond
<1>5. CASE PriceFound(a, "price2", "write2")
  <2>1. task[a] = "price2" /\ task' = [task EXCEPT ![a] = "write2"]
    BY <1>5 DEF PriceFound
  <2>2. now >= SecondTime(a)
    BY <1>1, <2>1 DEF RowInv, InTime, SeenIn
  <2>3. InTime(a)'
    BY <1>3, <2>1, <2>2 DEF InTime, SeenIn, SecondTime
  <2>4. "price2" \in TaskStages /\ "write2" \in TaskStages
    BY DEF TaskStages
  <2>5. QED BY <1>3, <2>1, <2>3, <2>4, TaskMoves DEF BeforeFirst, BeforeSecond
<1>6. QED BY <1>4, <1>5

(* A missing price: the second wait starts now, which is in time.          *)
LEMMA PriceMissingStep ==
  ASSUME IInv, NEW a \in Analyses,
         PriceMissing(a, "price1", "sleep2") \/ PriceMissing(a, "price2", "ended")
  PROVE  IInv'
<1>1. TypeOK /\ RowInv(a)
  BY DEF IInv
<1>2. /\ UNCHANGED <<now, restarts, rows, recorder, made, seen>>
      /\ now \in Nat /\ task \in [Analyses -> TaskStages]
      /\ due' \in [Analyses -> Nat] /\ due'[a] = now + SecondWait
      /\ seen' \in [Analyses -> SeenPrices \cup {None}]
      /\ \A d \in Analyses \ {a} : due'[d] = due[d] /\ seen'[d] = seen[d]
  BY <1>1, WaitsAssumption DEF PriceMissing, TypeOK, SeenPrices
<1>3. CASE PriceMissing(a, "price1", "sleep2")
  <2>1. task[a] = "price1" /\ task' = [task EXCEPT ![a] = "sleep2"]
    BY <1>3 DEF PriceMissing
  <2>2. Tells(a) /\ now >= FirstTime(a)
    BY <1>1, <2>1 DEF RowInv, RowTells, InTime, SeenIn, BeforeFirst
  <2>3. FirstTime(a) \in Nat /\ SecondTime(a) = FirstTime(a) + SecondWait
    BY <2>2, WaitsAssumption DEF Tells, FirstTime, SecondTime, Rows
  <2>4. due'[a] >= SecondTime(a)
    BY <1>2, <2>2, <2>3, WaitsAssumption
  <2>5. InTime(a)'
    BY <1>2, <2>1, <2>4 DEF InTime, SeenIn, SecondTime
  <2>6. "price1" \in TaskStages /\ "sleep2" \in TaskStages
    BY DEF TaskStages
  <2>7. QED BY <1>2, <2>1, <2>5, <2>6, TaskMoves DEF BeforeFirst, BeforeSecond
<1>4. CASE PriceMissing(a, "price2", "ended")
  <2>1. task[a] = "price2" /\ task' = [task EXCEPT ![a] = "ended"]
    BY <1>4 DEF PriceMissing
  <2>2. InTime(a)'
    BY <1>2, <2>1 DEF InTime, SeenIn
  <2>3. "price2" \in TaskStages /\ "ended" \in TaskStages
    BY DEF TaskStages
  <2>4. QED BY <1>2, <2>1, <2>2, <2>3, TaskMoves DEF BeforeFirst, BeforeSecond
<1>5. QED BY <1>3, <1>4

LEMMA CheckNotWrittenStep ==
  ASSUME IInv, NEW a \in Analyses, CheckNotWritten(a)
  PROVE  IInv'
<1>1. TypeOK
  BY DEF IInv
<1>2. /\ task[a] \in {"write1", "write2"} /\ task' = [task EXCEPT ![a] = "died"]
      /\ UNCHANGED <<now, restarts, rows, recorder, made, due, seen>>
  BY DEF CheckNotWritten
<1>3. /\ due' \in [Analyses -> Nat] /\ task'[a] = "died"
      /\ seen' \in [Analyses -> SeenPrices \cup {None}]
      /\ task[a] \in TaskStages /\ "died" \in TaskStages
  BY <1>1, <1>2 DEF TypeOK, SeenPrices, TaskStages
<1>4. InTime(a)'
  BY <1>3 DEF InTime, SeenIn
<1>5. QED BY <1>2, <1>3, <1>4, TaskMoves DEF BeforeFirst, BeforeSecond

-----------------------------------------------------------------------------
(* The two writes.  The task is past the wait of the column it fills.      *)
LEMMA FirstWrittenStep ==
  ASSUME IInv, NEW a \in Analyses, FirstWritten(a)
  PROVE  IInv'
<1>1. TypeOK /\ RowInv(a) /\ now \in Nat
  BY DEF IInv, TypeOK
<1>2. /\ task[a] = "write1" /\ rows' = [rows EXCEPT ![a].first = Check(a)]
      /\ UNCHANGED <<now, restarts, recorder, made, seen>>
  BY DEF FirstWritten
<1>3. /\ task'[a] \in {"died", "sleep2"} /\ due'[a] = now + SecondWait
      /\ \A d \in Analyses \ {a} : task'[d] = task[d] /\ due'[d] = due[d]
      /\ task' \in [Analyses -> TaskStages] /\ due' \in [Analyses -> Nat]
  BY <1>1, WaitsAssumption DEF FirstWritten, TypeOK, TaskStages
<1>4. /\ Tells(a) /\ Eligible(made[a]) /\ rows[a].second = None
      /\ seen[a] \in SeenPrices /\ seen[a].at >= FirstTime(a)
      /\ now >= FirstTime(a) /\ recorder[a] = "over"
  BY <1>1, <1>2
  DEF RowInv, RowTells, ColumnsEmpty, InTime, SeenIn, RecorderFirst, BeforeFirst
<1>5. /\ Check(a) \in Checks /\ Check(a).at = seen[a].at
      /\ Right(Check(a), rows[a].verdict, rows[a].price)
  BY <1>4, CheckRight
<1>6. /\ rows'[a] \in Rows /\ rows'[a].first = Check(a)
      /\ rows'[a].verdict = rows[a].verdict /\ rows'[a].price = rows[a].price
      /\ rows'[a].created = rows[a].created /\ rows'[a].second = None
      /\ rows' \in [Analyses -> Rows \cup {None}]
      /\ \A d \in Analyses \ {a} : rows'[d] = rows[d]
  <2>1. rows[a] \in Rows /\ rows \in [Analyses -> Rows \cup {None}]
    BY <1>1, <1>4 DEF Tells, TypeOK
  <2>2. rows'[a] = [rows[a] EXCEPT !.first = Check(a)]
    BY <1>2, <2>1
  <2>3. rows'[a] \in Rows
    BY <1>5, <2>1, <2>2 DEF Rows
  <2>4. QED BY <1>2, <1>4, <2>1, <2>2, <2>3 DEF Rows
<1>7. TypeOK'
  BY <1>1, <1>2, <1>3, <1>6 DEF TypeOK
<1>8. OthersKept(a)
  BY <1>2, <1>3, <1>6 DEF OthersKept
<1>9. Tells(a)' /\ RecorderFirst(a)'
  BY <1>2, <1>4, <1>6 DEF Tells, RecorderFirst
<1>10. ColumnsEmpty(a)'
  BY <1>2, <1>3, <1>4, <1>6 DEF ColumnsEmpty, Eligible, BeforeFirst
<1>11. /\ FirstTime(a)' = FirstTime(a) /\ FirstTime(a) \in Nat
       /\ SecondTime(a)' = FirstTime(a) + SecondWait
  BY <1>4, <1>6, WaitsAssumption DEF Tells, FirstTime, SecondTime, Rows
<1>12. InTime(a)'
  BY <1>1, <1>3, <1>4, <1>11, WaitsAssumption DEF InTime, SeenIn
<1>13. RowRight(a)'
  BY <1>4, <1>5, <1>6, <1>11 DEF RowRight, Right
<1>14. QED BY <1>7, <1>8, <1>9, <1>10, <1>12, <1>13, StepOfOne DEF RowInv, RowTells

LEMMA SecondWrittenStep ==
  ASSUME IInv, NEW a \in Analyses, SecondWritten(a)
  PROVE  IInv'
<1>1. TypeOK /\ RowInv(a)
  BY DEF IInv
<1>2. /\ task[a] = "write2" /\ rows' = [rows EXCEPT ![a].second = Check(a)]
      /\ UNCHANGED <<now, restarts, recorder, made, due, seen>>
  BY DEF SecondWritten
<1>3. /\ task'[a] \in {"died", "ended"} /\ task' \in [Analyses -> TaskStages]
      /\ \A d \in Analyses \ {a} : task'[d] = task[d]
  BY <1>1 DEF SecondWritten, TypeOK, TaskStages
<1>4. /\ Tells(a) /\ Eligible(made[a]) /\ recorder[a] = "over"
      /\ seen[a] \in SeenPrices /\ seen[a].at >= SecondTime(a)
  BY <1>1, <1>2
  DEF RowInv, RowTells, ColumnsEmpty, InTime, SeenIn, RecorderFirst, BeforeSecond
<1>5. /\ Check(a) \in Checks /\ Check(a).at = seen[a].at
      /\ Right(Check(a), rows[a].verdict, rows[a].price)
  BY <1>4, CheckRight
<1>6. /\ rows'[a] \in Rows /\ rows'[a].second = Check(a)
      /\ rows'[a].verdict = rows[a].verdict /\ rows'[a].price = rows[a].price
      /\ rows'[a].created = rows[a].created /\ rows'[a].first = rows[a].first
      /\ rows' \in [Analyses -> Rows \cup {None}]
      /\ \A d \in Analyses \ {a} : rows'[d] = rows[d]
  <2>1. rows[a] \in Rows /\ rows \in [Analyses -> Rows \cup {None}]
    BY <1>1, <1>4 DEF Tells, TypeOK
  <2>2. rows'[a] = [rows[a] EXCEPT !.second = Check(a)]
    BY <1>2, <2>1
  <2>3. rows'[a] \in Rows
    BY <1>5, <2>1, <2>2 DEF Rows
  <2>4. QED BY <1>2, <2>1, <2>2, <2>3 DEF Rows
<1>7. TypeOK'
  BY <1>1, <1>2, <1>3, <1>6 DEF TypeOK
<1>8. OthersKept(a)
  BY <1>2, <1>3, <1>6 DEF OthersKept
<1>9. Tells(a)' /\ RecorderFirst(a)'
  BY <1>2, <1>4, <1>6 DEF Tells, RecorderFirst
<1>10. ColumnsEmpty(a)' /\ InTime(a)'
  BY <1>3 DEF ColumnsEmpty, InTime, SeenIn, BeforeFirst, BeforeSecond
<1>11. FirstTime(a)' = FirstTime(a) /\ SecondTime(a)' = SecondTime(a)
  BY <1>6 DEF FirstTime, SecondTime
<1>12. RowRight(a)'
  BY <1>1, <1>2, <1>5, <1>4, <1>6, <1>11 DEF RowInv, RowRight, Right, BeforeSecond
<1>13. QED BY <1>7, <1>8, <1>9, <1>10, <1>12, StepOfOne DEF RowInv, RowTells

-----------------------------------------------------------------------------
(* A restart loses recorders and tasks, never a row.                       *)
LEMMA RestartStep ==
  ASSUME IInv, Restart
  PROVE  IInv'
<1>1. TypeOK
  BY DEF IInv
<1>2. /\ UNCHANGED <<now, rows, made, due, seen>>
      /\ restarts' = restarts + 1 /\ restarts < MaxRestarts
      /\ recorder' = [a \in Analyses |->
                         IF recorder[a] = "idle" THEN "idle" ELSE "over"]
      /\ task' = [a \in Analyses |->
                     IF task[a] \in {"none", "ended", "died"} THEN task[a] ELSE "lost"]
  BY DEF Restart
<1>3. TypeOK'
  BY <1>1, <1>2, BoundsAssumption DEF TypeOK, RecorderStages, TaskStages
<1>4. ASSUME NEW a \in Analyses
      PROVE  RowInv(a)'
  <2>1. RowInv(a)
    BY DEF IInv
  <2>2. /\ task'[a] \in {"none", "ended", "died", "lost"}
        /\ task[a] = "none" => task'[a] = "none"
        /\ recorder'[a] # "over" => recorder[a] = "idle"
        /\ recorder'[a] \in {"idle", "over"}
    BY <1>2
  <2>3. RowTells(a)'
    BY <1>2, <2>1, <2>2 DEF RowInv, RowTells, Tells, Written, BeforeFirst, BeforeSecond
  <2>4. RecorderFirst(a)' /\ ColumnsEmpty(a)' /\ InTime(a)'
    BY <1>2, <2>1, <2>2
    DEF RowInv, RecorderFirst, ColumnsEmpty, InTime, SeenIn, BeforeFirst, BeforeSecond
  <2>5. RowRight(a)'
    BY <1>2, <2>1, <2>2
    DEF RowInv, RowRight, Written, Right, FirstTime, SecondTime, BeforeFirst, BeforeSecond
  <2>6. QED BY <2>3, <2>4, <2>5 DEF RowInv
<1>5. QED BY <1>3, <1>4 DEF IInv

LEMMA TaskKeeps ==
  ASSUME IInv, NEW a \in Analyses, TaskStep(a)
  PROVE  IInv'
  BY WakeStep, PriceFoundStep, PriceMissingStep, FirstWrittenStep,
     SecondWrittenStep, CheckNotWrittenStep
  DEF TaskStep

LEMMA Initial == Init => IInv
<1> SUFFICES ASSUME Init PROVE IInv
  OBVIOUS
<1>1. TypeOK
  BY BoundsAssumption DEF Init, TypeOK, RecorderStages, TaskStages
<1>2. QED
  BY <1>1 DEF Init, IInv, RowInv, RowTells, Written, RecorderFirst, ColumnsEmpty,
     InTime, SeenIn, RowRight, BeforeFirst, BeforeSecond

LEMMA Inductive == IInv /\ [Next]_vars => IInv'
<1> SUFFICES ASSUME IInv, [Next]_vars PROVE IInv'
  OBVIOUS
<1>1. TypeOK /\ now \in Nat
  BY DEF IInv, TypeOK
<1>2. ASSUME NEW a \in Analyses,
             Analyse(a) \/ RecorderStep(a) \/ ClientLeaves(a) \/ TaskStep(a)
      PROVE  IInv'
  BY <1>2, AnalyseStep, RecorderKeeps, TaskKeeps
<1>3. CASE Restart
  BY <1>3, RestartStep
<1>4. ASSUME now' \in Nat, now' >= now,
             UNCHANGED <<restarts, rows, recorder, made, task, due, seen>>
      PROVE  IInv'
  <2>1. TypeOK'
    BY <1>1, <1>4 DEF TypeOK
  <2>2. ASSUME NEW a \in Analyses
        PROVE  RowInv(a)'
    <3>1. RowInv(a)
      BY DEF IInv
    <3>2. QED BY <1>1, <1>4, <3>1, Frame
  <2>3. QED BY <2>1, <2>2 DEF IInv
<1>5. CASE DayPasses
  BY <1>1, <1>4, <1>5 DEF DayPasses
<1>6. CASE UNCHANGED vars
  BY <1>1, <1>4, <1>6 DEF vars
<1>7. QED BY <1>2, <1>3, <1>5, <1>6 DEF Next

(* Every reachable state satisfies the inductive invariant.                *)
THEOREM Invariance == Spec => []IInv
  BY Initial, Inductive, PTL DEF Spec

(* The variables of the tracker keep their types.                          *)
THEOREM TypeCorrect == Spec => []TypeOK
<1>1. IInv => TypeOK
  BY DEF IInv
<1>2. QED BY <1>1, Invariance, PTL

(* Every accuracy check in the table judges its row by the row's own       *)
(* verdict and price, by the 2% rule of _is_correct, with a price taken no *)
(* sooner than five and thirty days after the row was written: whatever    *)
(* restarts, failed fetches and failed writes came between.                *)
THEOREM ChecksRight == Spec => []ChecksAreRight
<1>1. IInv => ChecksAreRight
  <2>1. SUFFICES ASSUME IInv, NEW a \in Analyses, Written(a)
        PROVE  /\ \A c \in ChecksOf(a) : Right(c, rows[a].verdict, rows[a].price)
               /\ rows[a].first # None => rows[a].first.at >= rows[a].created + FirstWait
               /\ rows[a].second # None =>
                    rows[a].second.at >= rows[a].created + FirstWait + SecondWait
    BY DEF ChecksAreRight, JudgedByRowsPrices, WindowsRespected, Right
  <2>2. RowRight(a)
    BY <2>1 DEF IInv, RowInv
  <2>3. QED BY <2>1, <2>2 DEF RowRight, ChecksOf, FirstTime, SecondTime
<1>2. QED BY <1>1, Invariance, PTL

-----------------------------------------------------------------------------
(* The rows are a ledger.  A step that writes no column is invisible or a  *)
(* day that passes.                                                        *)
LEMMA Entered ==
  ASSUME IInv, NEW a \in Analyses, Insert(a), UNCHANGED now,
         recorder[a] \in {"writing", "orphaned"}
  PROVE  Ledger!Enter(a)
<1>1. rows[a] = None /\ made[a] \in Findings
  BY DEF IInv, RowInv, RecorderFirst
<1>2. made[a].verdict \in Verdicts /\ made[a].price \in Prices \cup {None}
  BY <1>1 DEF Findings
<1>3. QED BY <1>1, <1>2 DEF Ledger!Enter, Insert

(* What the task writes is the mark that the ledger gives.                 *)
LEMMA CheckIsMark ==
  ASSUME NEW a \in Analyses, Tells(a), Eligible(made[a]), seen[a] \in SeenPrices
  PROVE  Check(a) = Ledger!Mark(rows[a], seen[a].price, seen[a].at)
<1>1. /\ made[a].price \in Nat /\ seen[a].price \in Nat
      /\ rows[a].verdict = made[a].verdict /\ rows[a].price = made[a].price
  BY PricesAssumption DEF Tells, Eligible, Findings, SeenPrices
<1>2. ASSUME NEW at \in Nat, NEW then \in Nat
      PROVE  /\ (50 * (then - at) > at) <=> (100 * (then - at) > 2 * at)
             /\ (50 * (at - then) > at) <=> (-(100 * (then - at)) > 2 * at)
  OBVIOUS
<1>3. ASSUME NEW v, NEW at \in Nat, NEW then \in Nat, NEW entry,
             entry.verdict = v, entry.price = at
      PROVE  IsCorrect(v, at, then) = Ledger!Deserved(entry, then)
  <2> DEFINE rise == v \in Bullish /\ 50 * (then - at) > at
             fall == v \in Bearish /\ 50 * (at - then) > at
  <2>1. IsCorrect(v, at, then) = IF rise \/ fall THEN 1 ELSE 0
    BY DEF IsCorrect
  <2>2. Ledger!Deserved(entry, then)
          = IF \/ v \in {"STRONG BUY", "BUY"} /\ 100 * (then - at) > 2 * at
               \/ v \in {"STRONG SELL", "SELL"} /\ -(100 * (then - at)) > 2 * at
            THEN 1 ELSE 0
    BY <1>3 DEF Ledger!Deserved
  <2>3. rise <=> v \in {"STRONG BUY", "BUY"} /\ 100 * (then - at) > 2 * at
    BY <1>2 DEF Bullish
  <2>4. fall <=> v \in {"STRONG SELL", "SELL"} /\ -(100 * (then - at)) > 2 * at
    BY <1>2 DEF Bearish
  <2> HIDE DEF rise, fall
  <2>5. CASE rise \/ fall
    BY <2>1, <2>2, <2>3, <2>4, <2>5
  <2>6. CASE ~ (rise \/ fall)
    BY <2>1, <2>2, <2>3, <2>4, <2>6
  <2>7. QED BY <2>5, <2>6
<1>4. QED BY <1>1, <1>3 DEF Check, Ledger!Mark

LEMMA FirstChecked ==
  ASSUME IInv, NEW a \in Analyses, FirstWritten(a)
  PROVE  Ledger!CheckFirst(a)
<1>1. /\ task[a] = "write1" /\ rows' = [rows EXCEPT ![a].first = Check(a)]
      /\ UNCHANGED now
  BY DEF FirstWritten
<1>2. RowInv(a) /\ now \in Nat
  BY DEF IInv, TypeOK
<1>3. /\ Tells(a) /\ Eligible(made[a]) /\ SeenIn(a, FirstTime(a))
      /\ rows[a].first = None /\ rows[a].second = None
  BY <1>1, <1>2 DEF RowInv, RowTells, ColumnsEmpty, InTime, BeforeFirst
<1>4. /\ rows[a] \in Rows /\ rows[a] # None
      /\ seen[a].price \in Prices /\ seen[a].at \in Nat
  BY <1>3, NoneAssumption DEF Tells, SeenIn, SeenPrices
<1>5. Ledger!Open(a)
  BY <1>3, <1>4
     DEF Ledger!Open, Tells, Eligible, Directional, Bullish, Bearish
<1>6. seen[a].at \in (rows[a].created + FirstWait)..now
  BY <1>2, <1>3, <1>4, WaitsAssumption DEF SeenIn, FirstTime, Rows
<1>7. Check(a) = Ledger!Mark(rows[a], seen[a].price, seen[a].at)
  BY <1>3, CheckIsMark DEF SeenIn
<1>8. QED BY <1>1, <1>3, <1>4, <1>5, <1>6, <1>7 DEF Ledger!CheckFirst

LEMMA SecondChecked ==
  ASSUME IInv, NEW a \in Analyses, SecondWritten(a)
  PROVE  Ledger!CheckSecond(a)
<1>1. /\ task[a] = "write2" /\ rows' = [rows EXCEPT ![a].second = Check(a)]
      /\ UNCHANGED now
  BY DEF SecondWritten
<1>2. RowInv(a) /\ now \in Nat
  BY DEF IInv, TypeOK
<1>3. /\ Tells(a) /\ Eligible(made[a]) /\ SeenIn(a, SecondTime(a))
      /\ rows[a].second = None
  BY <1>1, <1>2 DEF RowInv, RowTells, ColumnsEmpty, InTime, BeforeSecond
<1>4. /\ rows[a] \in Rows /\ rows[a] # None
      /\ seen[a].price \in Prices /\ seen[a].at \in Nat
  BY <1>3, NoneAssumption DEF Tells, SeenIn, SeenPrices
<1>5. Ledger!Open(a)
  BY <1>3, <1>4
     DEF Ledger!Open, Tells, Eligible, Directional, Bullish, Bearish
<1>6. seen[a].at \in (rows[a].created + (FirstWait + SecondWait))..now
  BY <1>2, <1>3, <1>4, WaitsAssumption DEF SeenIn, SecondTime, Rows
<1>7. Check(a) = Ledger!Mark(rows[a], seen[a].price, seen[a].at)
  BY <1>3, CheckIsMark DEF SeenIn
<1>8. QED BY <1>1, <1>4, <1>5, <1>6, <1>7 DEF Ledger!CheckSecond

(* tracker.py, db.py: the table of verdicts is a ledger.  Each row is      *)
(* entered once with what its analysis found and never altered, each of    *)
(* its checks is entered once, in time and right, whatever threads,        *)
(* restarts and failures do.                                               *)
THEOREM Refinement == Spec => ImplementsLedger
<1>1. Init => Ledger!LedgerInit
  BY DEF Init, Ledger!LedgerInit
<1>2. ASSUME IInv, NEW a \in Analyses,
             Analyse(a) \/ RecorderStep(a) \/ ClientLeaves(a) \/ TaskStep(a)
      PROVE  Ledger!LedgerNext \/ UNCHANGED <<rows, now>>
  <2>1. CASE RowWritten(a)
    <3>1. Ledger!Enter(a)
      BY <1>2, <2>1, Entered DEF RowWritten
    <3>2. QED BY <3>1 DEF Ledger!LedgerNext
  <2>2. CASE OrphanEnds(a)
    <3>1. Ledger!Enter(a) \/ UNCHANGED <<rows, now>>
      BY <1>2, <2>2, Entered DEF OrphanEnds
    <3>2. QED BY <3>1 DEF Ledger!LedgerNext
  <2>3. CASE FirstWritten(a) \/ SecondWritten(a)
    BY <1>2, <2>3, FirstChecked, SecondChecked DEF Ledger!LedgerNext
  <2>4. QED
    BY <1>2, <2>1, <2>2, <2>3
    DEF Analyse, RecorderStep, Decide, RowNotWritten, ClientLeaves, TaskStep,
        Wake, PriceFound, PriceMissing, CheckNotWritten
<1>3. IInv /\ [Next]_vars => [Ledger!LedgerNext]_(Ledger!ledgerVars)
  <2> SUFFICES ASSUME IInv, [Next]_vars
               PROVE  Ledger!LedgerNext \/ UNCHANGED <<rows, now>>
    BY DEF Ledger!ledgerVars
  <2>1. CASE Restart \/ UNCHANGED vars
    BY <2>1 DEF Restart, vars
  <2>2. CASE DayPasses
    BY <2>2 DEF DayPasses, Ledger!LedgerNext, Ledger!NextDay
  <2>3. QED BY <1>2, <2>1, <2>2 DEF Next
<1>4. QED BY <1>1, <1>3, Invariance, PTL
          DEF Spec, ImplementsLedger, Ledger!LedgerSpec
=============================================================================
