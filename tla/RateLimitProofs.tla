--------------------------- MODULE RateLimitProofs ---------------------------
(***************************************************************************)
(* Proofs about RateLimit, for every set of keys, every limit and every    *)
(* window.                                                                 *)
(*                                                                         *)
(* WindowBound speaks of the whole history of admissions, the limiter only *)
(* of its deque.  The inductive invariant IInv links the two: the deque is *)
(* the tail of the history, the history is in time order, and whatever was *)
(* popped had expired.                                                     *)
(***************************************************************************)
EXTENDS RateLimit, SequenceTheorems, TLAPS

(* The deque of key k is the tail of the history of k.                     *)
Offset(k) == Len(granted[k]) - Len(bucket[k])

BucketIsTail ==
  \A k \in Keys :
    /\ Len(bucket[k]) <= Len(granted[k])
    /\ Len(bucket[k]) <= Limit
    /\ \A i \in 1..Len(bucket[k]) : bucket[k][i] = granted[k][Offset(k) + i]

HistoryOrdered ==
  \A k \in Keys :
    /\ \A i \in 1..Len(granted[k]) : granted[k][i] <= now
    /\ \A i, j \in 1..Len(granted[k]) : i <= j => granted[k][i] <= granted[k][j]

PoppedExpired ==
  \A k \in Keys : \A i \in 1..Len(granted[k]) :
    i <= Offset(k) => IsExpired(granted[k][i], now)

IInv ==
  /\ TypeOK
  /\ BucketIsTail
  /\ HistoryOrdered
  /\ PoppedExpired
  /\ WindowBound
  /\ RejectedOnlyWhenFull

-----------------------------------------------------------------------------
(* What the pop loop leaves of a deque.                                    *)
LEMMA DropFirstProperties ==
  ASSUME NEW b \in Seq(Nat), NEW n \in 0..Len(b)
  PROVE  /\ DropFirst(b, n) \in Seq(Nat)
         /\ Len(DropFirst(b, n)) = Len(b) - n
         /\ \A i \in 1..(Len(b) - n) : DropFirst(b, n)[i] = b[n + i]
<1>1. Len(b) \in Nat /\ n + 1 \in Int /\ Len(b) \in Int
  BY LenProperties
<1>2. \A i \in (n + 1)..Len(b) : b[i] \in Nat
  BY <1>1, ElementOfSeq
<1>3. /\ SubSeq(b, n + 1, Len(b)) \in Seq(Nat)
      /\ Len(SubSeq(b, n + 1, Len(b))) =
           IF n + 1 <= Len(b) THEN Len(b) - (n + 1) + 1 ELSE 0
      /\ \A i \in 1..(Len(b) - (n + 1) + 1) :
           SubSeq(b, n + 1, Len(b))[i] = b[(n + 1) + i - 1]
  BY <1>1, <1>2, SubSeqProperties
<1>4. QED BY <1>1, <1>3 DEF DropFirst

(* At a request, what stays in the deque is still the tail of the history  *)
(* and everything before it has expired.                                   *)
LEMMA LiveTail ==
  ASSUME IInv, NEW k \in Keys, NEW n \in 0..Len(bucket[k]),
         IsExpiredPrefix(bucket[k], n, now)
  PROVE  LET live == DropFirst(bucket[k], n)
             off == Len(granted[k]) - Len(live)
         IN /\ live \in Seq(Nat)
            /\ Len(live) \in Nat /\ Len(granted[k]) \in Nat
            /\ Len(live) <= Len(granted[k])
            /\ Len(live) <= Limit
            /\ \A i \in 1..Len(live) : live[i] = granted[k][off + i]
            /\ \A i \in 1..Len(granted[k]) :
                 i <= off => IsExpired(granted[k][i], now)
            /\ Len(live) > 0 => ~ IsExpired(live[1], now)
<1> DEFINE b == bucket[k]
           g == granted[k]
           live == DropFirst(b, n)
<1>1. b \in Seq(Nat) /\ g \in Seq(Nat)
  BY DEF IInv, TypeOK
<1>2. Len(b) \in Nat /\ Len(g) \in Nat /\ n \in Nat
  BY <1>1, LenProperties
<1>3. /\ live \in Seq(Nat) /\ Len(live) = Len(b) - n
      /\ \A i \in 1..(Len(b) - n) : live[i] = b[n + i]
  BY <1>1, DropFirstProperties
<1>4. /\ Len(b) <= Len(g) /\ Len(b) <= Limit
      /\ \A i \in 1..Len(b) : b[i] = g[Len(g) - Len(b) + i]
  BY DEF IInv, BucketIsTail, Offset
<1>a. \A i \in 1..Len(g) : i <= Len(g) - Len(b) => IsExpired(g[i], now)
  BY DEF IInv, PoppedExpired, Offset
<1>b. /\ \A i \in 1..n : IsExpired(b[i], now)
      /\ n < Len(b) => ~ IsExpired(b[n + 1], now)
  BY DEF IsExpiredPrefix
<1> HIDE DEF b, g, live
<1>5. Len(live) \in Nat /\ Len(live) <= Len(g) /\ Len(live) <= Limit
  BY <1>2, <1>3, <1>4, LimitAssumption
<1>6. ASSUME NEW i \in 1..Len(live)
      PROVE  live[i] = g[Len(g) - Len(live) + i]
  <2>1. live[i] = b[n + i] /\ n + i \in 1..Len(b)
    BY <1>2, <1>3, <1>5
  <2>2. b[n + i] = g[Len(g) - Len(b) + (n + i)]
    BY <2>1, <1>4
  <2>3. Len(g) - Len(b) + (n + i) = Len(g) - Len(live) + i
    BY <1>2, <1>3, <1>5
  <2>4. QED BY <2>1, <2>2, <2>3
<1>7. ASSUME NEW i \in 1..Len(g), i <= Len(g) - Len(live)
      PROVE  IsExpired(g[i], now)
  <2>1. CASE i <= Len(g) - Len(b)
    BY <2>1, <1>a, <1>7
  <2>2. CASE ~ (i <= Len(g) - Len(b))
    <3> DEFINE j == i - (Len(g) - Len(b))
    <3>1. j \in 1..n /\ j \in 1..Len(b) /\ Len(g) - Len(b) + j = i
      BY <1>2, <1>3, <1>4, <1>7, <2>2
    <3>2. b[j] = g[i]
      BY <3>1, <1>4
    <3>3. IsExpired(b[j], now)
      BY <3>1, <1>b
    <3>4. QED BY <3>2, <3>3
  <2>3. QED BY <2>1, <2>2
<1>8. Len(live) > 0 => ~ IsExpired(live[1], now)
  <2>1. SUFFICES ASSUME Len(live) > 0 PROVE ~ IsExpired(live[1], now)
    OBVIOUS
  <2>2. n < Len(b) /\ live[1] = b[n + 1]
    BY <2>1, <1>2, <1>3
  <2>3. QED BY <2>2, <1>b
<1>9. QED BY <1>2, <1>3, <1>5, <1>6, <1>7, <1>8 DEF b, g, live

-----------------------------------------------------------------------------
LEMMA InitIInv == Init => IInv
<1> SUFFICES ASSUME Init PROVE IInv
  OBVIOUS
<1>1. \A k \in Keys : bucket[k] = <<>> /\ granted[k] = <<>>
  BY DEF Init
<1>2. now = 0 /\ reply = NoReply
  BY DEF Init
<1>3. TypeOK
  BY DEF Init, TypeOK
<1>a. \A k \in Keys : Len(bucket[k]) = 0 /\ Len(granted[k]) = 0
  BY <1>1, EmptySeq
<1>b. ASSUME NEW k \in Keys, NEW i \in Int
      PROVE  i \notin 1..Len(bucket[k]) /\ i \notin 1..Len(granted[k])
  <2>1. Len(bucket[k]) = 0 /\ Len(granted[k]) = 0
    BY <1>a
  <2>2. i \notin 1..0
    OBVIOUS
  <2>3. QED BY <2>1, <2>2
<1>c. \A k \in Keys : \A i \in 1..Len(bucket[k]) : FALSE
  BY <1>a, <1>b
<1>d. \A k \in Keys : \A i \in 1..Len(granted[k]) : FALSE
  BY <1>a, <1>b
<1>4. BucketIsTail /\ HistoryOrdered /\ PoppedExpired /\ WindowBound
  BY <1>a, <1>c, <1>d, LimitAssumption
  DEF BucketIsTail, HistoryOrdered, PoppedExpired, WindowBound
<1>5. RejectedOnlyWhenFull
  BY <1>2 DEF RejectedOnlyWhenFull, NoReply
<1>6. QED BY <1>3, <1>4, <1>5 DEF IInv

(* An admitted request.                                                    *)
LEMMA AdmitIInv ==
  ASSUME IInv, NEW k \in Keys, Admit(k)
  PROVE  IInv'
<1> DEFINE g == granted[k]
<1>1. PICK n \in 0..Len(bucket[k]) :
        LET live == DropFirst(bucket[k], n) IN
          /\ IsExpiredPrefix(bucket[k], n, now)
          /\ Len(live) < Limit
          /\ bucket' = [bucket EXCEPT ![k] = Push(live, now)]
  BY DEF Admit
<1> DEFINE live == DropFirst(bucket[k], n)
<1>2. /\ live \in Seq(Nat)
      /\ Len(live) \in Nat /\ Len(g) \in Nat
      /\ Len(live) <= Len(g)
      /\ \A i \in 1..Len(live) : live[i] = g[Len(g) - Len(live) + i]
      /\ \A i \in 1..Len(g) :
           i <= Len(g) - Len(live) => IsExpired(g[i], now)
  BY <1>1, LiveTail
<1>3. /\ Len(live) < Limit
      /\ bucket' = [bucket EXCEPT ![k] = Append(live, now)]
  BY <1>1 DEF Push
<1>4. /\ granted' = [granted EXCEPT ![k] = Append(g, now)]
      /\ now' = now /\ reply' = Reply(k, "ok")
  BY DEF Admit
<1>5. /\ now \in Nat /\ g \in Seq(Nat)
      /\ bucket \in [Keys -> Seq(Nat)] /\ granted \in [Keys -> Seq(Nat)]
  BY DEF IInv, TypeOK
<1>6. /\ \A i \in 1..Len(g) : g[i] <= now /\ g[i] \in Nat
      /\ \A i, j \in 1..Len(g) : i <= j => g[i] <= g[j]
      /\ \A i \in 1..Len(g) : i + Limit <= Len(g) => g[i + Limit] >= g[i] + Window
  BY <1>5, ElementOfSeq DEF IInv, HistoryOrdered, WindowBound
<1>7. \A j \in Keys \ {k} : bucket'[j] = bucket[j] /\ granted'[j] = granted[j]
  BY <1>3, <1>4, <1>5
<1> HIDE DEF live
<1>8. /\ bucket'[k] = Append(live, now) /\ granted'[k] = Append(g, now)
      /\ bucket'[k] \in Seq(Nat) /\ granted'[k] \in Seq(Nat)
      /\ Len(bucket'[k]) = Len(live) + 1 /\ Len(granted'[k]) = Len(g) + 1
      /\ \A i \in 1..Len(live) : bucket'[k][i] = live[i]
      /\ bucket'[k][Len(live) + 1] = now
      /\ \A i \in 1..Len(g) : granted'[k][i] = g[i]
      /\ granted'[k][Len(g) + 1] = now
  BY <1>2, <1>3, <1>4, <1>5, AppendProperties
<1> HIDE DEF g
<1>9. TypeOK'
  <2>1. reply' \in [status : Statuses, key : Keys]
    BY <1>4 DEF Reply, Statuses
  <2>2. bucket' \in [Keys -> Seq(Nat)] /\ granted' \in [Keys -> Seq(Nat)]
    BY <1>2, <1>3, <1>4, <1>5, <1>8
  <2>3. QED BY <2>1, <2>2, <1>4, <1>5 DEF TypeOK
<1>10. BucketIsTail'
  <2>1. ASSUME NEW i \in 1..Len(bucket'[k])
        PROVE  bucket'[k][i] = granted'[k][Len(granted'[k]) - Len(bucket'[k]) + i]
    <3>0. i \in 1..(Len(live) + 1)
      BY <1>8
    <3>1. CASE i = Len(live) + 1
      BY <3>1, <1>2, <1>8
    <3>2. CASE i \in 1..Len(live)
      BY <3>2, <1>2, <1>8
    <3>3. i = Len(live) + 1 \/ i \in 1..Len(live)
      <4>1. Len(live) \in Nat
        BY <1>2
      <4>2. QED BY <3>0, <4>1
    <3>4. QED BY <3>1, <3>2, <3>3
  <2>2. Len(bucket'[k]) <= Len(granted'[k]) /\ Len(bucket'[k]) <= Limit
    BY <1>2, <1>3, <1>8, LimitAssumption
  <2>3. ASSUME NEW j \in Keys, j # k
        PROVE  /\ Len(bucket'[j]) <= Len(granted'[j])
               /\ Len(bucket'[j]) <= Limit
               /\ \A i \in 1..Len(bucket'[j]) :
                    bucket'[j][i] = granted'[j][Len(granted'[j]) - Len(bucket'[j]) + i]
    BY <2>3, <1>7 DEF IInv, BucketIsTail, Offset
  <2>4. QED BY <2>1, <2>2, <2>3 DEF BucketIsTail, Offset
<1>11. HistoryOrdered'
  <2>1. \A i \in 1..Len(granted'[k]) : granted'[k][i] <= now
    BY <1>2, <1>5, <1>6, <1>8
  <2>2. \A i, j \in 1..Len(granted'[k]) : i <= j => granted'[k][i] <= granted'[k][j]
    BY <1>2, <1>5, <1>6, <1>8
  <2>3. ASSUME NEW j \in Keys, j # k
        PROVE  /\ \A i \in 1..Len(granted'[j]) : granted'[j][i] <= now
               /\ \A i, m \in 1..Len(granted'[j]) :
                    i <= m => granted'[j][i] <= granted'[j][m]
    BY <2>3, <1>7 DEF IInv, HistoryOrdered
  <2>4. QED BY <2>1, <2>2, <2>3, <1>4 DEF HistoryOrdered
<1>12. PoppedExpired'
  <2>1. ASSUME NEW i \in 1..Len(granted'[k]),
               i <= Len(granted'[k]) - Len(bucket'[k])
        PROVE  IsExpired(granted'[k][i], now)
    <3>1. i \in 1..Len(g) /\ i <= Len(g) - Len(live)
      BY <2>1, <1>2, <1>8
    <3>2. QED BY <3>1, <1>2, <1>8
  <2>2. ASSUME NEW j \in Keys, j # k
        PROVE  \A i \in 1..Len(granted'[j]) :
                 i <= Len(granted'[j]) - Len(bucket'[j]) => IsExpired(granted'[j][i], now)
    BY <2>2, <1>7 DEF IInv, PoppedExpired, Offset
  <2>3. QED BY <2>1, <2>2, <1>4 DEF PoppedExpired, Offset, IsExpired
<1>13. WindowBound'
  <2>1. ASSUME NEW i \in 1..Len(granted'[k]), i + Limit <= Len(granted'[k])
        PROVE  granted'[k][i + Limit] >= granted'[k][i] + Window
    <3>0. i \in 1..(Len(g) + 1) /\ i + Limit <= Len(g) + 1
      BY <2>1, <1>8
    <3>1. CASE i + Limit <= Len(g)
      BY <3>1, <1>2, <1>6, <1>8, LimitAssumption
    <3>2. CASE i + Limit = Len(g) + 1
      <4>1. i \in 1..Len(g) /\ i <= Len(g) - Len(live)
        BY <3>2, <1>2, <1>3, LimitAssumption
      <4>2. IsExpired(g[i], now)
        BY <4>1, <1>2
      <4>3. granted'[k][i] = g[i] /\ granted'[k][i + Limit] = now
        BY <4>1, <3>2, <1>8
      <4>4. QED BY <4>1, <4>2, <4>3, <1>5, <1>6, WindowAssumption DEF IsExpired
    <3>3. i + Limit <= Len(g) \/ i + Limit = Len(g) + 1
      <4>1. Len(g) \in Nat /\ Limit \in Nat /\ i \in Nat
        BY <3>0, <1>2, LimitAssumption
      <4>2. QED BY <4>1, <3>0
    <3>4. QED BY <3>1, <3>2, <3>3
  <2>2. ASSUME NEW j \in Keys, j # k
        PROVE  \A i \in 1..Len(granted'[j]) :
                 i + Limit <= Len(granted'[j]) =>
                   granted'[j][i + Limit] >= granted'[j][i] + Window
    BY <2>2, <1>7 DEF IInv, WindowBound
  <2>3. QED BY <2>1, <2>2 DEF WindowBound
<1>14. RejectedOnlyWhenFull'
  BY <1>4 DEF RejectedOnlyWhenFull, Reply
<1>15. QED BY <1>9, <1>10, <1>11, <1>12, <1>13, <1>14 DEF IInv

(* A refused request: only the pops remain.                                *)
LEMMA RefuseIInv ==
  ASSUME IInv, NEW k \in Keys, Refuse(k)
  PROVE  IInv'
<1> DEFINE g == granted[k]
<1>1. PICK n \in 0..Len(bucket[k]) :
        LET live == DropFirst(bucket[k], n) IN
          /\ IsExpiredPrefix(bucket[k], n, now)
          /\ Len(live) >= Limit
          /\ bucket' = [bucket EXCEPT ![k] = live]
  BY DEF Refuse
<1> DEFINE live == DropFirst(bucket[k], n)
<1>2. /\ live \in Seq(Nat)
      /\ Len(live) \in Nat /\ Len(g) \in Nat
      /\ Len(live) <= Len(g) /\ Len(live) <= Limit
      /\ \A i \in 1..Len(live) : live[i] = g[Len(g) - Len(live) + i]
      /\ \A i \in 1..Len(g) :
           i <= Len(g) - Len(live) => IsExpired(g[i], now)
      /\ Len(live) > 0 => ~ IsExpired(live[1], now)
  BY <1>1, LiveTail
<1>3. Len(live) >= Limit /\ bucket' = [bucket EXCEPT ![k] = live]
  BY <1>1
<1>4. now' = now /\ granted' = granted /\ reply' = Reply(k, "rejected")
  BY DEF Refuse
<1>5. /\ now \in Nat /\ g \in Seq(Nat)
      /\ bucket \in [Keys -> Seq(Nat)] /\ granted \in [Keys -> Seq(Nat)]
  BY DEF IInv, TypeOK
<1> HIDE DEF live
<1>6. bucket'[k] = live /\ \A j \in Keys \ {k} : bucket'[j] = bucket[j]
  BY <1>3, <1>5
<1>7. TypeOK'
  <2>1. reply' \in [status : Statuses, key : Keys]
    BY <1>4 DEF Reply, Statuses
  <2>2. QED BY <2>1, <1>2, <1>3, <1>4, <1>5 DEF TypeOK
<1>8. BucketIsTail'
  <2>1. ASSUME NEW j \in Keys, j # k
        PROVE  /\ Len(bucket'[j]) <= Len(granted[j])
               /\ Len(bucket'[j]) <= Limit
               /\ \A i \in 1..Len(bucket'[j]) :
                    bucket'[j][i] = granted[j][Len(granted[j]) - Len(bucket'[j]) + i]
    BY <2>1, <1>6 DEF IInv, BucketIsTail, Offset
  <2>2. QED BY <2>1, <1>2, <1>4, <1>6 DEF BucketIsTail, Offset
<1>9. HistoryOrdered' /\ WindowBound'
  BY <1>4 DEF IInv, HistoryOrdered, WindowBound
<1>10. PoppedExpired'
  <2>1. ASSUME NEW j \in Keys, j # k
        PROVE  \A i \in 1..Len(granted[j]) :
                 i <= Len(granted[j]) - Len(bucket'[j]) => IsExpired(granted[j][i], now)
    BY <2>1, <1>6 DEF IInv, PoppedExpired, Offset
  <2>2. QED BY <2>1, <1>2, <1>4, <1>6 DEF PoppedExpired, Offset, IsExpired
<1>11. RejectedOnlyWhenFull'
  <2>1. Len(live) = Limit /\ Limit \in Nat \ {0}
    BY <1>2, <1>3, LimitAssumption
  <2>2. live[1] = g[Len(g) + 1 - Limit] /\ Len(g) >= Limit
    <3>1. 1 \in 1..Len(live) /\ Len(g) - Len(live) + 1 = Len(g) + 1 - Limit
      BY <2>1, <1>2
    <3>2. QED BY <3>1, <2>1, <1>2
  <2>3. ~ (live[1] + Window <= now) /\ live[1] \in Nat
    BY <2>1, <1>2, ElementOfSeq DEF IsExpired
  <2>4. g[Len(g) + 1 - Limit] + Window > now
    BY <2>2, <2>3, <1>5, WindowAssumption
  <2>5. QED BY <2>2, <2>4, <1>4 DEF RejectedOnlyWhenFull, Reply
<1>12. QED BY <1>7, <1>8, <1>9, <1>10, <1>11 DEF IInv

(* The clock advances: what had expired stays expired.                     *)
LEMMA TickIInv ==
  ASSUME IInv, Tick
  PROVE  IInv'
<1>1. /\ now' = now + 1 /\ bucket' = bucket /\ granted' = granted
      /\ reply' = NoReply /\ now \in Nat
  BY DEF IInv, TypeOK, Tick
<1>2. \A k \in Keys : \A i \in 1..Len(granted[k]) : granted[k][i] \in Nat
  BY ElementOfSeq DEF IInv, TypeOK
<1>3. TypeOK'
  BY <1>1 DEF IInv, TypeOK
<1>4. BucketIsTail' /\ WindowBound'
  BY <1>1 DEF IInv, BucketIsTail, WindowBound, Offset
<1>5. HistoryOrdered'
  BY <1>1, <1>2 DEF IInv, HistoryOrdered
<1>6. PoppedExpired'
  BY <1>1, <1>2, WindowAssumption DEF IInv, PoppedExpired, Offset, IsExpired
<1>7. RejectedOnlyWhenFull'
  BY <1>1 DEF RejectedOnlyWhenFull, NoReply
<1>8. QED BY <1>3, <1>4, <1>5, <1>6, <1>7 DEF IInv

(* The inductive invariant holds in every reachable state.                 *)
THEOREM Invariance == Spec => []IInv
<1>1. Init => IInv
  BY InitIInv
<1>2. IInv /\ [Next]_vars => IInv'
  <2> SUFFICES ASSUME IInv, [Next]_vars PROVE IInv'
    OBVIOUS
  <2>1. ASSUME NEW k \in Keys, Admit(k) PROVE IInv'
    BY <2>1, AdmitIInv
  <2>2. ASSUME NEW k \in Keys, Refuse(k) PROVE IInv'
    BY <2>2, RefuseIInv
  <2>3. ASSUME NEW k \in Keys, Unauthorized(k) PROVE IInv'
    <3>1. /\ now' = now /\ bucket' = bucket /\ granted' = granted
          /\ reply' = Reply(k, "unauthorized")
      BY <2>3 DEF Unauthorized
    <3>2. RejectedOnlyWhenFull'
      BY <3>1 DEF RejectedOnlyWhenFull, Reply
    <3>3. TypeOK'
      BY <3>1 DEF IInv, TypeOK, Reply, Statuses
    <3>4. QED BY <3>1, <3>2, <3>3
      DEF IInv, BucketIsTail, HistoryOrdered, PoppedExpired, WindowBound, Offset, IsExpired
  <2>4. CASE Tick
    BY <2>4, TickIInv
  <2>5. CASE UNCHANGED vars
    BY <2>5 DEF vars, IInv, TypeOK, BucketIsTail, HistoryOrdered, PoppedExpired,
                WindowBound, RejectedOnlyWhenFull, Offset, IsExpired
  <2>6. QED BY <2>1, <2>2, <2>3, <2>4, <2>5 DEF Next
<1>3. QED BY <1>1, <1>2, PTL DEF Spec

(* Every variable keeps its type.                                          *)
THEOREM TypeCorrect == Spec => []TypeOK
<1>1. IInv => TypeOK
  BY DEF IInv
<1>2. QED BY <1>1, Invariance, PTL

(* The documented limit: no window of the documented length ever holds     *)
(* more than Limit admissions of a key, whatever the limit and the window. *)
THEOREM RateLimited == Spec => []WindowBound
<1>1. IInv => WindowBound
  BY DEF IInv
<1>2. QED BY <1>1, Invariance, PTL

(* No request is answered 429 while the trailing window has room.          *)
THEOREM NoSpuriousRejection == Spec => []RejectedOnlyWhenFull
<1>1. IInv => RejectedOnlyWhenFull
  BY DEF IInv
<1>2. QED BY <1>1, Invariance, PTL

(* An admission that still counts is never lost from the deque.            *)
THEOREM NoLostAdmission == Spec => []LiveAdmissionsKept
<1>1. IInv => LiveAdmissionsKept
  <2> SUFFICES ASSUME IInv, NEW k \in Keys, NEW i \in 1..Len(granted[k]),
                      ~ IsExpired(granted[k][i], now)
               PROVE  i > Len(granted[k]) - Len(bucket[k])
    BY DEF LiveAdmissionsKept
  <2>1. ~ (i <= Len(granted[k]) - Len(bucket[k]))
    BY DEF IInv, PoppedExpired, Offset
  <2>2. Len(granted[k]) \in Nat /\ Len(bucket[k]) \in Nat /\ i \in Nat
    <3>1. granted[k] \in Seq(Nat) /\ bucket[k] \in Seq(Nat)
      BY DEF IInv, TypeOK
    <3>2. Len(granted[k]) \in Nat /\ Len(bucket[k]) \in Nat
      BY <3>1, LenProperties
    <3>3. QED BY <3>2
  <2>3. \A x, y, z \in Nat : ~ (z <= x - y) => z > x - y
    OBVIOUS
  <2>4. QED BY <2>1, <2>2, <2>3
<1>2. QED BY <1>1, Invariance, PTL
=============================================================================
