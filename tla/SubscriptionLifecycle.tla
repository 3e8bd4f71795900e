------------------------ MODULE SubscriptionLifecycle ------------------------
(***************************************************************************)
(* What the streaming service promises its clients, without tasks, sockets *)
(* or concurrent requests: a subscription is opened once, delivers trades  *)
(* only while it is live, starts ending once, and is acknowledged as ended *)
(* once; nothing happens to it afterwards.                                 *)
(***************************************************************************)
EXTENDS Naturals

CONSTANT Subs          \* subscription ids ever issued

VARIABLES
  phase,               \* where each subscription is in its life
  ticks                \* how many trades each subscription has published

lifecycleVars == <<phase, ticks>>

Phases == {"absent", "live", "ending", "ended"}

LifecycleInit ==
  /\ phase = [s \in Subs |-> "absent"]
  /\ ticks = [s \in Subs |-> 0]

Move(s, from, to) ==
  /\ phase[s] = from
  /\ phase' = [phase EXCEPT ![s] = to]
  /\ UNCHANGED ticks

Open(s) == Move(s, "absent", "live")
StartEnding(s) == Move(s, "live", "ending")
Ended(s) == Move(s, "ending", "ended")

Deliver(s) ==
  /\ phase[s] = "live"
  /\ ticks' = [ticks EXCEPT ![s] = @ + 1]
  /\ UNCHANGED phase

LifecycleNext ==
  \E s \in Subs : Open(s) \/ StartEnding(s) \/ Ended(s) \/ Deliver(s)

LifecycleSpec == LifecycleInit /\ [][LifecycleNext]_lifecycleVars
=============================================================================
