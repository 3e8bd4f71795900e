--------------------------- MODULE ProviderThrottle ---------------------------
(***************************************************************************)
(* The connectors' own limit on calls to their provider, and their retries *)
(* (connectors/finnhub.py and connectors/alpha_vantage.py: the same code   *)
(* with other numbers).                                                    *)
(*                                                                         *)
(* One connector object serves all requests.  _respect_rate_limit reads    *)
(* the time of the last call, sleeps what is missing of the interval and   *)
(* only then notes the time; other requests run during the sleep.          *)
(***************************************************************************)
EXTENDS Integers, Sequences

CONSTANTS
  Callers,        \* slots for get_quote calls in progress
  Interval,       \* _min_interval
  Attempts,       \* stop_after_attempt(3)
  Backoff,        \* least wait between attempts
  MaxTime         \* bound: no new get_quote from here on

ASSUME IntervalAssumption == Interval \in Nat \ {0}
ASSUME AttemptsAssumption == Attempts \in Nat \ {0}
ASSUME BackoffAssumption == Backoff \in Nat
ASSUME MaxTimeAssumption == MaxTime \in Nat

VARIABLES
  now,            \* time.time()
  last,           \* _last_call_time
  pc,             \* where each get_quote stands
  until,          \* when its sleep or its backoff ends
  attempt,        \* its attempt, from 1; 0 when idle
  calls           \* history: the times of the HTTP calls of each caller

vars == <<now, last, pc, until, attempt, calls>>

Stages == {"idle", "sleeping", "calling", "backoff"}

TypeOK ==
  /\ now \in Nat
  /\ last \in Int
  /\ pc \in [Callers -> Stages]
  /\ until \in [Callers -> Int]
  /\ attempt \in [Callers -> 0..Attempts]
  /\ calls \in [Callers -> Seq(Nat)]

(* _last_call_time = 0 is long before any call.                            *)
Init ==
  /\ now = 0
  /\ last = -Interval
  /\ pc = [c \in Callers |-> "idle"]
  /\ until = [c \in Callers |-> 0]
  /\ attempt = [c \in Callers |-> 0]
  /\ calls = [c \in Callers |-> <<>>]

-----------------------------------------------------------------------------
(* The time is noted and the call sent without a suspension between.       *)
(* Variant that notes when the call was due instead:                       *)
CallNotingDue(c) ==
  /\ last' = until[c]
  /\ calls' = [calls EXCEPT ![c] = Append(@, now)]
  /\ pc' = [pc EXCEPT ![c] = "calling"]
  /\ UNCHANGED until

Call(c) ==
  /\ last' = now
  /\ calls' = [calls EXCEPT ![c] = Append(@, now)]
  /\ pc' = [pc EXCEPT ![c] = "calling"]
  /\ UNCHANGED until

Sleep(c) ==
  /\ until' = [until EXCEPT ![c] = now + (Interval - (now - last))]
  /\ pc' = [pc EXCEPT ![c] = "sleeping"]
  /\ UNCHANGED <<last, calls>>

(* _respect_rate_limit, at the start of an attempt.                        *)
Respect(c) ==
  IF now - last < Interval THEN Sleep(c) ELSE Call(c)

Begin(c) ==
  /\ pc[c] = "idle" /\ now < MaxTime
  /\ attempt' = [attempt EXCEPT ![c] = 1]
  /\ Respect(c)
  /\ UNCHANGED now

(* The sleep is over; it is not looked again whether another call was made *)
(* meanwhile.                                                              *)
WakeUp(c) ==
  /\ pc[c] = "sleeping" /\ now >= until[c]
  /\ Call(c)
  /\ UNCHANGED <<now, attempt>>

(* A quote, no quote, an error tenacity does not retry, or the last one.   *)
(* Variant that does not give up after the last attempt:                   *)
CallReturnsUnlessLast(c) ==
  /\ pc[c] = "calling" /\ attempt[c] < Attempts
  /\ pc' = [pc EXCEPT ![c] = "idle"]
  /\ attempt' = [attempt EXCEPT ![c] = 0]
  /\ UNCHANGED <<now, last, until, calls>>

CallReturns(c) ==
  /\ pc[c] = "calling"
  /\ pc' = [pc EXCEPT ![c] = "idle"]
  /\ attempt' = [attempt EXCEPT ![c] = 0]
  /\ UNCHANGED <<now, last, until, calls>>

(* An HTTP error or a rate limit answer: retried while attempts remain.    *)
(* Variant with one attempt too many:                                      *)
CallFailsOnceMore(c) ==
  /\ pc[c] = "calling"
  /\ attempt[c] <= Attempts
  /\ attempt' = [attempt EXCEPT ![c] = @ + 1]
  /\ pc' = [pc EXCEPT ![c] = "backoff"]
  /\ until' = [until EXCEPT ![c] = now + Backoff]
  /\ UNCHANGED <<now, last, calls>>

CallFails(c) ==
  /\ pc[c] = "calling"
  /\ attempt[c] < Attempts
  /\ attempt' = [attempt EXCEPT ![c] = @ + 1]
  /\ pc' = [pc EXCEPT ![c] = "backoff"]
  /\ until' = [until EXCEPT ![c] = now + Backoff]
  /\ UNCHANGED <<now, last, calls>>

Retry(c) ==
  /\ pc[c] = "backoff" /\ now >= until[c]
  /\ Respect(c)
  /\ UNCHANGED <<now, attempt>>

(* Bound: the clock stops when no call can begin and none waits.           *)
Waits(c) == pc[c] \in {"sleeping", "backoff"} /\ now < until[c]

Tick ==
  /\ now < MaxTime \/ \E c \in Callers : Waits(c)
  /\ now' = now + 1
  /\ UNCHANGED <<last, pc, until, attempt, calls>>

Proceed(c) == WakeUp(c) \/ CallReturns(c) \/ CallFails(c) \/ Retry(c)

Next ==
  \/ \E c \in Callers : Begin(c) \/ Proceed(c)
  \/ Tick

Spec == Init /\ [][Next]_vars

(* Timers fire, HTTP calls end by answer, error or timeout.                *)
FairSpec == Spec /\ WF_vars(Tick) /\ \A c \in Callers : WF_vars(Proceed(c))

-----------------------------------------------------------------------------
(* The calls of one caller, retries included, are at least the interval    *)
(* apart, whatever the others do: a burst is at most one call of each.     *)
OwnCallsSpaced ==
  \A c \in Callers : \A i, j \in 1..Len(calls[c]) :
    i < j => calls[c][j] >= calls[c][i] + Interval

(* docs/architecture.md: the limit of calls per minute is "enforced by" a  *)
(* minimum interval between requests, all callers together.  True of one   *)
(* caller at a time.                                                       *)
AllCallsSpaced ==
  \A c, d \in Callers : \A i \in 1..Len(calls[c]), j \in 1..Len(calls[d]) :
    <<c, i>> # <<d, j>> =>
      \/ calls[c][i] >= calls[d][j] + Interval
      \/ calls[d][j] >= calls[c][i] + Interval

(* However providers fail and callers queue, every get_quote returns.      *)
EveryCallEnds ==
  \A c \in Callers : pc[c] # "idle" ~> pc[c] = "idle"
=============================================================================
