------------------------------ MODULE RateLimit ------------------------------
(***************************************************************************)
(* The in-memory request limiter of the HTTP server                        *)
(* (mcp_server/server.py: check_rate_limit, get_api_key).                  *)
(*                                                                         *)
(* Every authenticated endpoint depends on get_api_key.  A request whose   *)
(* X-API-Key differs from the configured one is answered 401 before the    *)
(* limiter is consulted; a request with the right key is admitted or       *)
(* answered 429 by a sliding window over the times of earlier admissions,  *)
(* kept in one deque per key.  check_rate_limit has no suspension point,   *)
(* so a request is one atomic step of the event loop.                      *)
(***************************************************************************)
EXTENDS Integers, Sequences

CONSTANTS
  Keys,       \* the API keys clients present
  ValidKey,   \* settings.mcp_api_key
  Limit,      \* RATE_LIMIT_REQUESTS
  Window,     \* RATE_LIMIT_WINDOW_SECONDS, in clock ticks
  MaxTime     \* bound: the clock stops here

ASSUME LimitAssumption == Limit \in Nat \ {0}
ASSUME WindowAssumption == Window \in Nat \ {0}
ASSUME MaxTimeAssumption == MaxTime \in Nat
ASSUME KeysAssumption == ValidKey \in Keys

VARIABLES
  now,        \* time.time(); assumed not to run backwards
  bucket,     \* _rate_limits: for each key the times of recent admissions
  granted,    \* history: for each key the times of all its admissions
  reply       \* outcome of the request handled by the last step

vars == <<now, bucket, granted, reply>>

NoReply == [status |-> "none"]
Statuses == {"ok", "rejected", "unauthorized"}
Reply(k, s) == [status |-> s, key |-> k]

TypeOK ==
  /\ now \in Nat
  /\ bucket \in [Keys -> Seq(Nat)]
  /\ granted \in [Keys -> Seq(Nat)]
  /\ reply \in {NoReply} \cup [status : Statuses, key : Keys]

Init ==
  /\ now = 0
  /\ bucket = [k \in Keys |-> <<>>]
  /\ granted = [k \in Keys |-> <<>>]
  /\ reply = NoReply

-----------------------------------------------------------------------------
(* Variants of the expiry test, strict and one tick too eager:             *)
IsExpiredStrict(s, t) == s + Window < t
IsExpiredEarly(s, t) == s + Window <= t + 1

IsExpired(s, t) == s + Window <= t

(* The pop loop removes entries from the front while they are at or before *)
(* the start of the window, and stops at the first younger entry (or at    *)
(* the end): at time t it removes n entries.                               *)
IsExpiredPrefix(b, n, t) ==
  /\ \A i \in 1..n : IsExpired(b[i], t)
  /\ n < Len(b) => ~ IsExpired(b[n + 1], t)

DropFirst(b, n) == SubSeq(b, n + 1, Len(b))

(* deque(maxlen = Limit).append: a full deque loses its oldest entry.      *)
(* Variant with a cap one entry too small:                                 *)
PushShort(b, t) ==
  IF Len(b) + 1 < Limit \/ b = <<>> THEN Append(b, t) ELSE Append(Tail(b), t)

(* Variant that stores the start of the window instead of the time:        *)
PushWindowStart(b, t) == Append(b, t - Window)

Push(b, t) == IF Len(b) < Limit THEN Append(b, t) ELSE Append(Tail(b), t)

(* check_rate_limit returns True.                                          *)
Admit(k) ==
  /\ k = ValidKey
  /\ \E n \in 0..Len(bucket[k]) :
       LET live == DropFirst(bucket[k], n) IN
         /\ IsExpiredPrefix(bucket[k], n, now)
         /\ Len(live) < Limit
         /\ bucket' = [bucket EXCEPT ![k] = Push(live, now)]
  /\ granted' = [granted EXCEPT ![k] = Append(@, now)]
  /\ reply' = Reply(k, "ok")
  /\ UNCHANGED now

(* check_rate_limit returns False: the pops stay, nothing is appended, and *)
(* get_api_key raises 429.                                                 *)
Refuse(k) ==
  /\ k = ValidKey
  /\ \E n \in 0..Len(bucket[k]) :
       LET live == DropFirst(bucket[k], n) IN
         /\ IsExpiredPrefix(bucket[k], n, now)
         /\ Len(live) >= Limit
         /\ bucket' = [bucket EXCEPT ![k] = live]
  /\ reply' = Reply(k, "rejected")
  /\ UNCHANGED <<now, granted>>

(* get_api_key raises 401 without touching the limiter.                    *)
Unauthorized(k) ==
  /\ k # ValidKey
  /\ reply' = Reply(k, "unauthorized")
  /\ UNCHANGED <<now, bucket, granted>>

Tick ==
  /\ now < MaxTime
  /\ now' = now + 1
  /\ reply' = NoReply
  /\ UNCHANGED <<bucket, granted>>

Next ==
  \/ \E k \in Keys : Admit(k) \/ Refuse(k) \/ Unauthorized(k)
  \/ Tick

Spec == Init /\ [][Next]_vars

-----------------------------------------------------------------------------
(* README.md: "60 requests per 60-second window per API key".  However the *)
(* requests are placed in time, Limit + 1 consecutive admissions of a key  *)
(* span at least a full window, so every half-open window of that length   *)
(* holds at most Limit of them.                                            *)
WindowBound ==
  \A k \in Keys : \A i \in 1..Len(granted[k]) :
    i + Limit <= Len(granted[k]) =>
      granted[k][i + Limit] >= granted[k][i] + Window

(* A client is answered 429 only when the trailing window really is full:  *)
(* the Limit-th latest admission is younger than Window.  Stale entries    *)
(* left in the deque would refuse a client that has been quiet.            *)
RejectedOnlyWhenFull ==
  reply.status = "rejected" =>
    LET g == granted[reply.key] IN
      /\ Len(g) >= Limit
      /\ g[Len(g) + 1 - Limit] + Window > now

(* The deque's own cap (maxlen) never discards an admission that still     *)
(* counts: every admission of the last Window ticks is in the bucket.      *)
LiveAdmissionsKept ==
  \A k \in Keys : \A i \in 1..Len(granted[k]) :
    ~ IsExpired(granted[k][i], now) => i > Len(granted[k]) - Len(bucket[k])
=============================================================================
