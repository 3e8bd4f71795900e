---------------------------- MODULE ThrottleProofs ----------------------------
(***************************************************************************)
(* Proofs about ProviderThrottle, for every set of callers, every interval *)
(* and every number of attempts.                                           *)
(*                                                                         *)
(* The noted time of the last call is shared by all callers.  It is never  *)
(* earlier than any call made (LastIsLatest), which is what makes each     *)
(* caller keep its distance from its own calls although others move the    *)
(* noted time while it sleeps.                                             *)
(***************************************************************************)
EXTENDS ProviderThrottle, SequenceTheorems, TLAPS

LastIsLatest ==
  /\ last <= now
  /\ \A c \in Callers : \A i \in 1..Len(calls[c]) : calls[c][i] <= last

AttemptsCounted ==
  \A c \in Callers : pc[c] # "idle" => attempt[c] \in 1..Attempts

(* A sleeping caller will not be woken before an interval has passed since *)
(* each of its own calls, nor is it asked to wait more than one interval.  *)
SleepBounded ==
  \A c \in Callers : pc[c] = "sleeping" =>
    /\ until[c] <= now + Interval
    /\ \A i \in 1..Len(calls[c]) : until[c] >= calls[c][i] + Interval

IInv ==
  /\ TypeOK
  /\ LastIsLatest
  /\ AttemptsCounted
  /\ SleepBounded
  /\ OwnCallsSpaced

(* A call that is an interval away from all earlier calls of its caller    *)
(* keeps the invariant, the type of the attempts aside.                    *)
LEMMA CallKeeps ==
  ASSUME IInv, NEW c \in Callers, Call(c), now' = now,
         \A i \in 1..Len(calls[c]) : now >= calls[c][i] + Interval
  PROVE  /\ last' \in Int
         /\ pc' \in [Callers -> Stages] /\ until' \in [Callers -> Int]
         /\ calls' \in [Callers -> Seq(Nat)]
         /\ LastIsLatest' /\ SleepBounded' /\ OwnCallsSpaced'
<1>1. /\ now \in Nat /\ last \in Int /\ calls \in [Callers -> Seq(Nat)]
      /\ pc \in [Callers -> Stages] /\ until \in [Callers -> Int]
  BY DEF IInv, TypeOK
<1>2. /\ last' = now /\ until' = until
      /\ calls' = [calls EXCEPT ![c] = Append(calls[c], now)]
      /\ pc' = [pc EXCEPT ![c] = "calling"]
  BY DEF Call
<1>3. /\ Len(calls[c]) \in Nat
      /\ Len(calls'[c]) = Len(calls[c]) + 1
      /\ \A i \in 1..Len(calls[c]) : calls'[c][i] = calls[c][i]
      /\ calls'[c][Len(calls[c]) + 1] = now
      /\ calls'[c] \in Seq(Nat)
  <2>1. calls[c] \in Seq(Nat) /\ calls'[c] = Append(calls[c], now)
    BY <1>1, <1>2
  <2>2. QED BY <2>1, <1>1, AppendProperties, LenProperties
<1>4. \A d \in Callers \ {c} : calls'[d] = calls[d] /\ pc'[d] = pc[d]
  BY <1>1, <1>2
<1>5. \A d \in Callers : \A i \in 1..Len(calls[d]) :
        calls[d][i] \in Nat /\ calls[d][i] <= last
  <2>1. \A d \in Callers : calls[d] \in Seq(Nat)
    BY <1>1
  <2>2. QED BY <2>1, ElementOfSeq DEF IInv, LastIsLatest
<1>6. \A i \in 1..Len(calls'[c]) : i \in 1..Len(calls[c]) \/ i = Len(calls[c]) + 1
  BY <1>3
<1>7. LastIsLatest'
  <2>1. last <= now
    BY DEF IInv, LastIsLatest
  <2>2. ASSUME NEW d \in Callers, NEW i \in 1..Len(calls'[d])
        PROVE  calls'[d][i] <= now
    <3>1. CASE d = c
      <4>1. CASE i \in 1..Len(calls[c])
        <5>1. calls'[c][i] = calls[c][i]
          BY <4>1, <1>3
        <5>2. calls[c][i] \in Nat /\ calls[c][i] <= last
          BY <4>1, <1>5
        <5>3. QED BY <5>1, <5>2, <3>1, <2>1, <1>1
      <4>2. CASE i = Len(calls[c]) + 1
        <5>1. calls'[c][i] = now
          BY <4>2, <1>3
        <5>2. QED BY <5>1, <3>1, <1>1
      <4>3. QED BY <4>1, <4>2, <3>1, <1>6
    <3>2. CASE d # c
      BY <3>2, <2>1, <1>1, <1>4, <1>5
    <3>3. QED BY <3>1, <3>2
  <2>3. QED BY <2>2, <1>1, <1>2 DEF LastIsLatest
<1>8. SleepBounded'
  <2>1. pc'[c] = "calling"
    BY <1>1, <1>2
  <2>2. ASSUME NEW d \in Callers, pc'[d] = "sleeping"
        PROVE  /\ until'[d] <= now' + Interval
               /\ \A i \in 1..Len(calls'[d]) : until'[d] >= calls'[d][i] + Interval
    <3>1. d # c
      BY <2>1, <2>2
    <3>2. QED BY <3>1, <2>2, <1>2, <1>4 DEF IInv, SleepBounded
  <2>3. QED BY <2>2 DEF SleepBounded
<1>9. OwnCallsSpaced'
  <2>1. ASSUME NEW i \in 1..Len(calls'[c]), NEW j \in 1..Len(calls'[c]), i < j
        PROVE  calls'[c][j] >= calls'[c][i] + Interval
    <3>1. i \in 1..Len(calls[c])
      BY <2>1, <1>3
    <3>2. CASE j \in 1..Len(calls[c])
      BY <2>1, <3>1, <3>2, <1>3 DEF IInv, OwnCallsSpaced
    <3>3. CASE j = Len(calls[c]) + 1
      BY <3>1, <3>3, <1>3
    <3>4. QED BY <3>2, <3>3, <1>6
  <2>2. ASSUME NEW d \in Callers, d # c,
               NEW i \in 1..Len(calls'[d]), NEW j \in 1..Len(calls'[d]), i < j
        PROVE  calls'[d][j] >= calls'[d][i] + Interval
    BY <2>2, <1>4 DEF IInv, OwnCallsSpaced
  <2>3. QED BY <2>1, <2>2 DEF OwnCallsSpaced
<1>10. calls' \in [Callers -> Seq(Nat)]
  BY <1>1, <1>2, <1>3
<1>11. pc' \in [Callers -> Stages]
  BY <1>1, <1>2 DEF Stages
<1>12. QED BY <1>1, <1>2, <1>7, <1>8, <1>9, <1>10, <1>11

(* The start of an attempt: either the interval since every call has       *)
(* passed, or the caller sleeps what is missing of it.                     *)
LEMMA RespectKeeps ==
  ASSUME IInv, NEW c \in Callers, Respect(c), now' = now
  PROVE  /\ last' \in Int
         /\ pc' \in [Callers -> Stages] /\ until' \in [Callers -> Int]
         /\ calls' \in [Callers -> Seq(Nat)]
         /\ LastIsLatest' /\ SleepBounded' /\ OwnCallsSpaced'
<1>1. /\ now \in Nat /\ last \in Int /\ calls \in [Callers -> Seq(Nat)]
      /\ pc \in [Callers -> Stages] /\ until \in [Callers -> Int]
      /\ Interval \in Nat
  BY IntervalAssumption DEF IInv, TypeOK
<1>2. \A d \in Callers : \A i \in 1..Len(calls[d]) :
        calls[d][i] \in Nat /\ calls[d][i] <= last
  <2>1. \A d \in Callers : calls[d] \in Seq(Nat)
    BY <1>1
  <2>2. QED BY <2>1, ElementOfSeq DEF IInv, LastIsLatest
<1>3. CASE now - last < Interval
  <2>1. /\ last' = last /\ calls' = calls
        /\ until' = [until EXCEPT ![c] = now + (Interval - (now - last))]
        /\ pc' = [pc EXCEPT ![c] = "sleeping"]
    BY <1>3 DEF Respect, Sleep
  <2>2. last <= now
    BY DEF IInv, LastIsLatest
  <2>3. until'[c] = last + Interval /\ until' \in [Callers -> Int]
    BY <1>1, <2>1
  <2>4. pc' \in [Callers -> Stages]
    BY <1>1, <2>1 DEF Stages
  <2>5. ASSUME NEW d \in Callers, pc'[d] = "sleeping"
        PROVE  /\ until'[d] <= now + Interval
               /\ \A i \in 1..Len(calls[d]) : until'[d] >= calls[d][i] + Interval
    <3>1. CASE d = c
      BY <3>1, <1>1, <1>2, <2>2, <2>3
    <3>2. CASE d # c
      <4>1. until'[d] = until[d] /\ pc[d] = "sleeping"
        BY <3>2, <2>1, <2>5, <1>1
      <4>2. QED BY <4>1 DEF IInv, SleepBounded
    <3>3. QED BY <3>1, <3>2
  <2>6. SleepBounded'
    BY <2>1, <2>5 DEF SleepBounded
  <2>7. LastIsLatest' /\ OwnCallsSpaced'
    BY <2>1 DEF IInv, LastIsLatest, OwnCallsSpaced
  <2>8. QED BY <1>1, <2>1, <2>3, <2>4, <2>6, <2>7
<1>4. CASE ~ (now - last < Interval)
  <2>1. Call(c)
    BY <1>4 DEF Respect
  <2>2. \A i \in 1..Len(calls[c]) : now >= calls[c][i] + Interval
    BY <1>1, <1>2, <1>4
  <2>3. QED BY <2>1, <2>2, CallKeeps
<1>5. QED BY <1>3, <1>4

LEMMA InitIInv == Init => IInv
<1> SUFFICES ASSUME Init PROVE IInv
  OBVIOUS
<1>1. \A c \in Callers : calls[c] = <<>> /\ pc[c] = "idle"
  BY DEF Init
<1>2. \A c \in Callers : Len(calls[c]) = 0
  BY <1>1, EmptySeq
<1>3. \A c \in Callers : \A i \in 1..Len(calls[c]) : FALSE
  <2>1. \A i \in 1..0 : FALSE
    OBVIOUS
  <2>2. QED BY <2>1, <1>2
<1>4. TypeOK
  BY IntervalAssumption, AttemptsAssumption DEF Init, TypeOK, Stages
<1>5. LastIsLatest
  BY <1>3, IntervalAssumption DEF Init, LastIsLatest
<1>6. AttemptsCounted /\ SleepBounded
  BY <1>1 DEF AttemptsCounted, SleepBounded
<1>7. OwnCallsSpaced
  BY <1>3 DEF OwnCallsSpaced
<1>8. QED BY <1>4, <1>5, <1>6, <1>7 DEF IInv

LEMMA BeginIInv ==
  ASSUME IInv, NEW c \in Callers, Begin(c)
  PROVE  IInv'
<1>1. now' = now /\ attempt' = [attempt EXCEPT ![c] = 1] /\ Respect(c)
  BY DEF Begin
<1>2. /\ last' \in Int
      /\ pc' \in [Callers -> Stages] /\ until' \in [Callers -> Int]
      /\ calls' \in [Callers -> Seq(Nat)]
      /\ LastIsLatest' /\ SleepBounded' /\ OwnCallsSpaced'
  BY <1>1, RespectKeeps
<1>3. attempt' \in [Callers -> 0..Attempts] /\ attempt'[c] = 1
  BY <1>1, AttemptsAssumption DEF IInv, TypeOK
<1>4. TypeOK'
  BY <1>1, <1>2, <1>3 DEF IInv, TypeOK
<1>5. \A d \in Callers \ {c} : pc'[d] = pc[d] /\ attempt'[d] = attempt[d]
  BY <1>1 DEF IInv, TypeOK, Respect, Sleep, Call
<1>6. AttemptsCounted'
  BY <1>3, <1>5, AttemptsAssumption DEF IInv, AttemptsCounted
<1>7. QED BY <1>2, <1>4, <1>6 DEF IInv

LEMMA ProceedIInv ==
  ASSUME IInv, NEW c \in Callers, Proceed(c)
  PROVE  IInv'
<1>1. CASE WakeUp(c)
  <2>1. /\ now' = now /\ attempt' = attempt /\ Call(c)
        /\ pc[c] = "sleeping" /\ now >= until[c]
    BY <1>1 DEF WakeUp
  <2>2. \A i \in 1..Len(calls[c]) : now >= calls[c][i] + Interval
    <3>1. \A i \in 1..Len(calls[c]) : until[c] >= calls[c][i] + Interval
      BY <2>1 DEF IInv, SleepBounded
    <3>2. now \in Nat /\ until[c] \in Int /\ Interval \in Nat /\ calls[c] \in Seq(Nat)
      BY IntervalAssumption DEF IInv, TypeOK
    <3>3. \A i \in 1..Len(calls[c]) : calls[c][i] \in Nat
      BY <3>2, ElementOfSeq
    <3>4. QED BY <3>1, <3>2, <3>3, <2>1
  <2>3. /\ last' \in Int
        /\ pc' \in [Callers -> Stages] /\ until' \in [Callers -> Int]
        /\ calls' \in [Callers -> Seq(Nat)]
        /\ LastIsLatest' /\ SleepBounded' /\ OwnCallsSpaced'
    BY <2>1, <2>2, CallKeeps
  <2>4. TypeOK'
    BY <2>1, <2>3 DEF IInv, TypeOK
  <2>5. AttemptsCounted'
    <3>1. \A d \in Callers : pc'[d] # "idle" => pc[d] # "idle"
      BY <2>1 DEF IInv, TypeOK, Call
    <3>2. QED BY <3>1, <2>1 DEF IInv, AttemptsCounted
  <2>6. QED BY <2>3, <2>4, <2>5 DEF IInv
<1>2. CASE CallReturns(c)
  <2>1. /\ now' = now /\ last' = last /\ until' = until /\ calls' = calls
        /\ pc' = [pc EXCEPT ![c] = "idle"] /\ attempt' = [attempt EXCEPT ![c] = 0]
    BY <1>2 DEF CallReturns
  <2>2. TypeOK'
    BY <2>1, AttemptsAssumption DEF IInv, TypeOK, Stages
  <2>3. LastIsLatest' /\ OwnCallsSpaced'
    BY <2>1 DEF IInv, LastIsLatest, OwnCallsSpaced
  <2>4. \A d \in Callers : pc'[d] # "idle" =>
          d # c /\ pc'[d] = pc[d] /\ attempt'[d] = attempt[d]
    BY <2>1 DEF IInv, TypeOK
  <2>5. AttemptsCounted'
    BY <2>4 DEF IInv, AttemptsCounted
  <2>6. SleepBounded'
    BY <2>1, <2>4 DEF IInv, SleepBounded
  <2>7. QED BY <2>2, <2>3, <2>5, <2>6 DEF IInv
<1>3. CASE CallFails(c)
  <2>1. /\ now' = now /\ last' = last /\ calls' = calls
        /\ pc[c] = "calling" /\ attempt[c] < Attempts
        /\ attempt' = [attempt EXCEPT ![c] = attempt[c] + 1]
        /\ pc' = [pc EXCEPT ![c] = "backoff"]
        /\ until' = [until EXCEPT ![c] = now + Backoff]
    BY <1>3 DEF CallFails
  <2>2. attempt[c] \in 1..Attempts
    BY <2>1 DEF IInv, AttemptsCounted
  <2>3. attempt' \in [Callers -> 0..Attempts] /\ attempt'[c] \in 1..Attempts
    BY <2>1, <2>2, AttemptsAssumption DEF IInv, TypeOK
  <2>4. TypeOK'
    BY <2>1, <2>3, BackoffAssumption DEF IInv, TypeOK, Stages
  <2>5. LastIsLatest' /\ OwnCallsSpaced'
    BY <2>1 DEF IInv, LastIsLatest, OwnCallsSpaced
  <2>6. \A d \in Callers \ {c} :
          pc'[d] = pc[d] /\ attempt'[d] = attempt[d] /\ until'[d] = until[d]
    BY <2>1 DEF IInv, TypeOK
  <2>7. AttemptsCounted'
    BY <2>3, <2>6 DEF IInv, AttemptsCounted
  <2>8. pc'[c] # "sleeping"
    BY <2>1 DEF IInv, TypeOK
  <2>9. SleepBounded'
    BY <2>1, <2>6, <2>8 DEF IInv, SleepBounded
  <2>10. QED BY <2>4, <2>5, <2>7, <2>9 DEF IInv
<1>4. CASE Retry(c)
  <2>1. now' = now /\ attempt' = attempt /\ Respect(c) /\ pc[c] = "backoff"
    BY <1>4 DEF Retry
  <2>2. /\ last' \in Int
        /\ pc' \in [Callers -> Stages] /\ until' \in [Callers -> Int]
        /\ calls' \in [Callers -> Seq(Nat)]
        /\ LastIsLatest' /\ SleepBounded' /\ OwnCallsSpaced'
    BY <2>1, RespectKeeps
  <2>3. TypeOK'
    BY <2>1, <2>2 DEF IInv, TypeOK
  <2>4. \A d \in Callers : pc'[d] # "idle" => pc[d] # "idle"
    BY <2>1 DEF IInv, TypeOK, Respect, Sleep, Call
  <2>5. AttemptsCounted'
    BY <2>1, <2>4 DEF IInv, AttemptsCounted
  <2>6. QED BY <2>2, <2>3, <2>5 DEF IInv
<1>5. QED BY <1>1, <1>2, <1>3, <1>4 DEF Proceed

(* The inductive invariant holds in every reachable state.                 *)
THEOREM Invariance == Spec => []IInv
<1>1. Init => IInv
  BY InitIInv
<1>2. IInv /\ [Next]_vars => IInv'
  <2> SUFFICES ASSUME IInv, [Next]_vars PROVE IInv'
    OBVIOUS
  <2>1. ASSUME NEW c \in Callers, Begin(c) PROVE IInv'
    BY <2>1, BeginIInv
  <2>2. ASSUME NEW c \in Callers, Proceed(c) PROVE IInv'
    BY <2>2, ProceedIInv
  <2>3. CASE Tick
    <3>1. /\ now' = now + 1 /\ now \in Nat /\ last \in Int /\ last' = last
          /\ pc' = pc /\ until' = until /\ attempt' = attempt /\ calls' = calls
      BY <2>3 DEF Tick, IInv, TypeOK
    <3>2. TypeOK' /\ AttemptsCounted' /\ OwnCallsSpaced'
      BY <3>1 DEF IInv, TypeOK, AttemptsCounted, OwnCallsSpaced
    <3>3. LastIsLatest'
      BY <3>1 DEF IInv, LastIsLatest
    <3>4. SleepBounded'
      <4>1. \A c \in Callers : until[c] \in Int
        BY DEF IInv, TypeOK
      <4>2. QED BY <3>1, <4>1, IntervalAssumption DEF IInv, SleepBounded
    <3>5. QED BY <3>2, <3>3, <3>4 DEF IInv
  <2>4. CASE UNCHANGED vars
    BY <2>4 DEF vars, IInv, TypeOK, LastIsLatest, AttemptsCounted, SleepBounded,
                OwnCallsSpaced
  <2>5. QED BY <2>1, <2>2, <2>3, <2>4 DEF Next
<1>3. QED BY <1>1, <1>2, PTL DEF Spec

(* Every variable keeps its type.                                          *)
THEOREM TypeCorrect == Spec => []TypeOK
<1>1. IInv => TypeOK
  BY DEF IInv
<1>2. QED BY <1>1, Invariance, PTL

(* Whatever the others do, the calls of one caller are an interval apart.  *)
THEOREM OwnCallsKeepDistance == Spec => []OwnCallsSpaced
<1>1. IInv => OwnCallsSpaced
  BY DEF IInv
<1>2. QED BY <1>1, Invariance, PTL

(* The documented limit holds when requests come one at a time: with a     *)
(* single caller all calls are an interval apart.                          *)
THEOREM LimitKeptAlone ==
  ASSUME NEW caller, Callers = {caller}
  PROVE  Spec => []AllCallsSpaced
<1>1. IInv => AllCallsSpaced
  <2> SUFFICES ASSUME IInv,
                      NEW c \in Callers, NEW d \in Callers,
                      NEW i \in 1..Len(calls[c]), NEW j \in 1..Len(calls[d]),
                      <<c, i>> # <<d, j>>
               PROVE  \/ calls[c][i] >= calls[d][j] + Interval
                      \/ calls[d][j] >= calls[c][i] + Interval
    BY DEF AllCallsSpaced
  <2>1. c = d /\ i # j
    OBVIOUS
  <2>2. i < j \/ j < i
    <3>1. i \in Int /\ j \in Int
      OBVIOUS
    <3>2. QED BY <3>1, <2>1
  <2>3. QED BY <2>1, <2>2 DEF IInv, OwnCallsSpaced
<1>2. QED BY <1>1, Invariance, PTL
=============================================================================
