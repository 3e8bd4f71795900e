------------------------- MODULE StreamSubscriptions -------------------------
(***************************************************************************)
(* Real-time stream subscriptions: the registry of the quote.stream tool   *)
(* (mcp_server/invoke_handlers/quote_stream.py) above the Binance          *)
(* WebSocket connector (connectors/binance_ws.py).                         *)
(*                                                                         *)
(* Everything runs on one asyncio event loop: a step of this module is a   *)
(* stretch of one coroutine between two suspension points.  Subscribe and  *)
(* the handling of one message never suspend.  Unsubscribe suspends twice  *)
(* (awaiting the cancelled listener task, closing the socket), and several *)
(* unsubscribe requests for one id may overlap.                            *)
(***************************************************************************)
EXTENDS Naturals, FiniteSets

CONSTANTS
  Subs,           \* subscription ids (uuid4, never reused)
  Calls,          \* slots for unsubscribe requests in progress
  MaxDelay,       \* max_reconnect_delay
  MaxMessages     \* bound: messages received per subscription

ASSUME SubsAssumption == Subs # {}
ASSUME MaxDelayAssumption == MaxDelay \in Nat \ {0}
ASSUME MaxMessagesAssumption == MaxMessages \in Nat

VARIABLES
  registry,       \* _active_subscriptions: ids listed by GET /subscriptions
  subs,           \* _subscriptions
  running,        \* _running
  tasks,          \* _tasks
  conns,          \* _connections: the stored socket, if any
  channel,        \* the WebSocket channel of each id
  listener,       \* where the _listen task of each id stands
  cancelled,      \* ids whose task has a cancellation to deliver
  delay,          \* reconnect_delay of each _listen task
  received,       \* messages read from the socket of each id
  published,      \* trades written to the Redis stream and snapshot
  pc,             \* where each unsubscribe request stands
  target,         \* its subscription id
  reply,          \* its last answer
  acks,           \* history: successful unsubscribes of each id
  raised          \* history: ids whose socket raised when it was closed

connectorVars == <<subs, running, tasks, conns>>
streamVars == <<channel, delay, received, published>>
requestVars == <<pc, target, reply, acks, raised>>
vars == <<registry, connectorVars, listener, cancelled, streamVars, requestVars>>

Channels == {"trade", "ticker"}
(* "start": created and not yet run; "exiting": leaving the async with     *)
(* block, the socket being closed; "backoff": asleep before a reconnect.   *)
Alive == {"start", "connecting", "reading", "exiting", "backoff"}
Finished == {"absent", "done"}
Replies == {"none", "unsubscribed", "unknown", "failed"}

TypeOK ==
  /\ registry \subseteq Subs /\ subs \subseteq Subs
  /\ running \subseteq Subs /\ tasks \subseteq Subs /\ cancelled \subseteq Subs
  /\ conns \in [Subs -> {"none", "open", "closed"}]
  /\ channel \in [Subs -> Channels]
  /\ listener \in [Subs -> Alive \cup Finished]
  /\ delay \in [Subs -> 1..MaxDelay]
  /\ received \in [Subs -> Nat] /\ published \in [Subs -> Nat]
  /\ pc \in [Calls -> {"idle", "awaitTask", "awaitClose"}]
  /\ target \in [Calls -> Subs]
  /\ reply \in [Calls -> Replies]
  /\ acks \in [Subs -> Nat]
  /\ raised \subseteq Subs

Init ==
  /\ registry = {} /\ subs = {} /\ running = {} /\ tasks = {} /\ cancelled = {}
  /\ conns = [s \in Subs |-> "none"]
  /\ channel = [s \in Subs |-> "trade"]
  /\ listener = [s \in Subs |-> "absent"]
  /\ delay = [s \in Subs |-> 1]
  /\ received = [s \in Subs |-> 0] /\ published = [s \in Subs |-> 0]
  /\ pc = [c \in Calls |-> "idle"]
  /\ target = [c \in Calls |-> CHOOSE s \in Subs : TRUE]
  /\ reply = [c \in Calls |-> "none"]
  /\ acks = [s \in Subs |-> 0]
  /\ raised = {}

-----------------------------------------------------------------------------
(* handle_quote_stream and BinanceWebSocketConnector.subscribe: no         *)
(* suspension between the connector's bookkeeping and the registry's.      *)
Subscribe(s) ==
  /\ listener[s] = "absent"
  /\ \E ch \in Channels : channel' = [channel EXCEPT ![s] = ch]
  /\ subs' = subs \cup {s}
  /\ tasks' = tasks \cup {s}
  /\ running' = running \cup {s}
  /\ listener' = [listener EXCEPT ![s] = "start"]
  /\ registry' = registry \cup {s}
  /\ UNCHANGED <<conns, cancelled, delay, received, published, requestVars>>

(* The listener task proceeds unless a cancellation is waiting for it.     *)
Goto(s, from, to) ==
  /\ listener[s] = from
  /\ s \notin cancelled
  /\ listener' = [listener EXCEPT ![s] = to]

StartListening(s) ==
  /\ Goto(s, "start", "connecting")
  /\ UNCHANGED <<registry, connectorVars, cancelled, streamVars, requestVars>>

Connected(s) ==
  /\ Goto(s, "connecting", "reading")
  /\ conns' = [conns EXCEPT ![s] = "open"]
  /\ delay' = [delay EXCEPT ![s] = 1]
  /\ UNCHANGED <<registry, subs, running, tasks, cancelled, channel, received,
                 published, requestVars>>

ConnectFailed(s) ==
  /\ Goto(s, "connecting", "backoff")
  /\ UNCHANGED <<registry, connectorVars, cancelled, streamVars, requestVars>>

(* The peer or the network ends the connection.  The closed socket stays   *)
(* in _connections until a reconnect replaces it.                          *)
ConnectionLost(s) ==
  /\ Goto(s, "reading", "backoff")
  /\ conns' = [conns EXCEPT ![s] = "closed"]
  /\ UNCHANGED <<registry, subs, running, tasks, cancelled, streamVars, requestVars>>

(* Variant without the cap.                                                *)
NextDelayUncapped(d) == 2 * d

NextDelay(d) == IF 2 * d < MaxDelay THEN 2 * d ELSE MaxDelay

(* Variant that gives up at the longest delay.                             *)
BackoffGivesUp(s) ==
  /\ Goto(s, "backoff", "connecting")
  /\ delay[s] < MaxDelay
  /\ delay' = [delay EXCEPT ![s] = NextDelay(@)]
  /\ UNCHANGED <<registry, connectorVars, cancelled, channel, received, published,
                 requestVars>>

BackoffOver(s) ==
  /\ Goto(s, "backoff", "connecting")
  /\ delay' = [delay EXCEPT ![s] = NextDelay(@)]
  /\ UNCHANGED <<registry, connectorVars, cancelled, channel, received, published,
                 requestVars>>

(* _process_message: only events of type "trade" are published, and only   *)
(* the trade channel carries them.  The loop's own test of _running never  *)
(* stops it: only a cancellation does (LoopEndsByCancellation in           *)
(* StreamProofs).                                                          *)
IsTrade(s) == channel[s] = "trade"

(* Variant: a trade already in the buffer outlives the cancellation.       *)
ReceiveBuffered(s) ==
  /\ listener[s] = "reading"
  /\ received[s] < MaxMessages
  /\ received' = [received EXCEPT ![s] = @ + 1]
  /\ published' = IF IsTrade(s) THEN [published EXCEPT ![s] = @ + 1] ELSE published
  /\ UNCHANGED <<registry, connectorVars, listener, cancelled, channel, delay,
                 requestVars>>

Receive(s) ==
  /\ listener[s] = "reading" /\ s \notin cancelled
  /\ received[s] < MaxMessages
  /\ received' = [received EXCEPT ![s] = @ + 1]
  /\ published' = IF IsTrade(s) THEN [published EXCEPT ![s] = @ + 1] ELSE published
  /\ UNCHANGED <<registry, connectorVars, listener, cancelled, channel, delay,
                 requestVars>>

(* CancelledError is raised where the task is suspended.  Inside the async *)
(* with block it first closes the socket; a second cancellation cuts that  *)
(* short.                                                                  *)
AfterCancel(s) == IF listener[s] = "reading" THEN "exiting" ELSE "done"

DeliverCancel(s) ==
  /\ s \in cancelled
  /\ listener[s] \in Alive
  /\ cancelled' = cancelled \ {s}
  /\ listener' = [listener EXCEPT ![s] = AfterCancel(s)]
  /\ UNCHANGED <<registry, connectorVars, streamVars, requestVars>>

SocketClosed(s) ==
  /\ Goto(s, "exiting", "done")
  /\ conns' = [conns EXCEPT ![s] = "closed"]
  /\ UNCHANGED <<registry, subs, running, tasks, cancelled, streamVars, requestVars>>

-----------------------------------------------------------------------------
(* The outcomes of an unsubscribe request.                                 *)
Answer(c, r) ==
  /\ pc' = [pc EXCEPT ![c] = "idle"]
  /\ reply' = [reply EXCEPT ![c] = r]

Succeed(c, s) ==
  /\ Answer(c, "unsubscribed")
  /\ subs' = subs \ {s}
  /\ registry' = registry \ {s}
  /\ acks' = [acks EXCEPT ![s] = @ + 1]

(* Variant: the handler drops the id from the registry on failure too.     *)
FailUnlisted(c) ==
  /\ Answer(c, "failed")
  /\ registry' = registry \ {target[c]}
  /\ UNCHANGED <<subs, acks>>

(* Any exception in the connector, the KeyError of a del that another      *)
(* request already made included, is caught and answered as a failure.     *)
Fail(c) ==
  /\ Answer(c, "failed")
  /\ UNCHANGED <<subs, registry, acks>>

(* Variant that does not look for a stored socket.                         *)
SucceedUnclosed(c, s) == UNCHANGED conns /\ Succeed(c, s)

(* After the listener task: close the stored socket, or finish.            *)
CloseOrSucceed(c, s) ==
  /\ UNCHANGED conns
  /\ \/ /\ conns[s] # "none"
        /\ pc' = [pc EXCEPT ![c] = "awaitClose"]
        /\ UNCHANGED <<subs, registry, reply, acks>>
     \/ /\ conns[s] = "none"
        /\ Succeed(c, s)

(* The registry does not know the id.  (The connector's own test of        *)
(* _subscriptions cannot fail after it: see RegistryMatchesConnector.)     *)
RequestUnknown(c, s) ==
  /\ s \notin registry
  /\ reply' = [reply EXCEPT ![c] = "unknown"]
  /\ UNCHANGED <<registry, connectorVars, cancelled, pc, acks>>

(* Variant that trusts the listener to notice the cleared _running flag.   *)
RequestNoCancel(c, s) ==
  /\ s \in registry
  /\ s \in tasks /\ listener[s] \in Alive
  /\ running' = running \ {s}
  /\ pc' = [pc EXCEPT ![c] = "awaitTask"]
  /\ UNCHANGED <<registry, subs, tasks, conns, cancelled, reply, acks>>

(* The listener task is still alive: cancel it and wait for its end.       *)
RequestCancel(c, s) ==
  /\ s \in registry
  /\ s \in tasks /\ listener[s] \in Alive
  /\ running' = running \ {s}
  /\ cancelled' = cancelled \cup {s}
  /\ pc' = [pc EXCEPT ![c] = "awaitTask"]
  /\ UNCHANGED <<registry, subs, tasks, conns, reply, acks>>

(* The task has ended already, or an earlier request has removed it.       *)
RequestAfterTask(c, s) ==
  /\ s \in registry
  /\ s \in tasks => listener[s] \in Finished
  /\ running' = running \ {s}
  /\ tasks' = tasks \ {s}
  /\ CloseOrSucceed(c, s)
  /\ UNCHANGED cancelled

RequestUnsubscribe(c, s) ==
  /\ pc[c] = "idle"
  /\ target' = [target EXCEPT ![c] = s]
  /\ RequestUnknown(c, s) \/ RequestCancel(c, s) \/ RequestAfterTask(c, s)
  /\ UNCHANGED <<listener, streamVars, raised>>

(* Variant: the task's CancelledError is not swallowed.                    *)
TaskEndedRaises(c) ==
  /\ pc[c] = "awaitTask"
  /\ listener[target[c]] \in Finished
  /\ Fail(c)
  /\ UNCHANGED <<tasks, conns, running, listener, cancelled, streamVars, target,
                 raised>>

(* The awaited task is over; del _tasks[s] raises KeyError if another      *)
(* request came first.                                                     *)
TaskEnded(c) ==
  LET s == target[c] IN
    /\ pc[c] = "awaitTask"
    /\ listener[s] \in Finished
    /\ \/ /\ s \in tasks
          /\ tasks' = tasks \ {s}
          /\ CloseOrSucceed(c, s)
       \/ /\ s \notin tasks
          /\ Fail(c)
          /\ UNCHANGED <<tasks, conns>>
    /\ UNCHANGED <<running, listener, cancelled, streamVars, target, raised>>

(* The socket is closed; del _connections[s] may raise KeyError likewise.  *)
CloseEnded(c) ==
  LET s == target[c] IN
    /\ pc[c] = "awaitClose"
    /\ \/ /\ conns[s] # "none"
          /\ conns' = [conns EXCEPT ![s] = "none"]
          /\ Succeed(c, s)
       \/ /\ conns[s] = "none"
          /\ Fail(c)
          /\ UNCHANGED conns
    /\ UNCHANGED <<running, tasks, listener, cancelled, streamVars, target, raised>>

CloseRaised(c) ==
  /\ pc[c] = "awaitClose"
  /\ Fail(c)
  /\ raised' = raised \cup {target[c]}
  /\ UNCHANGED <<connectorVars, listener, cancelled, streamVars, target>>

-----------------------------------------------------------------------------
ListenerStep(s) ==
  \/ StartListening(s) \/ Connected(s) \/ ConnectFailed(s) \/ ConnectionLost(s)
  \/ BackoffOver(s) \/ Receive(s) \/ DeliverCancel(s) \/ SocketClosed(s)

UnsubscribeStep(c) ==
  \/ \E s \in Subs : RequestUnsubscribe(c, s)
  \/ TaskEnded(c) \/ CloseEnded(c) \/ CloseRaised(c)

Next ==
  \/ \E s \in Subs : Subscribe(s) \/ ListenerStep(s)
  \/ \E c \in Calls : UnsubscribeStep(c)

(* The event loop runs every ready task; the network operations it waits   *)
(* for (a connect with its timeout, a close with its timeout, a sleep) end.*)
Fairness ==
  /\ \A s \in Subs :
       /\ WF_vars(StartListening(s))
       /\ WF_vars(Connected(s) \/ ConnectFailed(s))
       /\ WF_vars(BackoffOver(s))
       /\ WF_vars(DeliverCancel(s))
       /\ WF_vars(SocketClosed(s))
  /\ \A c \in Calls : WF_vars(TaskEnded(c) \/ CloseEnded(c) \/ CloseRaised(c))

Spec == Init /\ [][Next]_vars
FairSpec == Spec /\ Fairness

-----------------------------------------------------------------------------
(* The registry behind GET /subscriptions and the connector's own table    *)
(* always list the same ids, and every id is acknowledged as unsubscribed  *)
(* at most once, exactly when it leaves them: overlapping requests never   *)
(* both win, and none is lost between the two tables.                      *)
RegistryMatchesConnector ==
  /\ registry = subs
  /\ \A s \in Subs :
       listener[s] # "absent" => acks[s] = IF s \in registry THEN 0 ELSE 1

(* Once an id has left the tables nothing can release its resources any    *)
(* more, so none may be left: no task, no socket, no listener.             *)
NoOrphan ==
  \A s \in Subs \ subs :
    /\ listener[s] \in Finished
    /\ s \notin tasks \cup running
    /\ conns[s] = "none"

(* An unsubscribe answers "Failed to unsubscribe" only because closing     *)
(* raised, or because another request for the id is doing the work or has  *)
(* done it.                                                                *)
FailedOnlyIfOverlapped ==
  \A c \in Calls : reply[c] = "failed" /\ pc[c] = "idle" =>
    \/ target[c] \in raised
    \/ acks[target[c]] = 1
    \/ \E d \in Calls \ {c} : pc[d] # "idle" /\ target[d] = target[c]

(* Every unsubscribe request is answered.                                  *)
UnsubscribeAnswers ==
  \A c \in Calls : pc[c] # "idle" ~> pc[c] = "idle"

(* A subscription whose connection is lost or refused keeps trying until   *)
(* it is unsubscribed.                                                     *)
RetriesUntilUnsubscribed ==
  \A s \in Subs :
    s \in running /\ listener[s] = "backoff" ~>
      listener[s] = "connecting" \/ s \notin running

-----------------------------------------------------------------------------
(* The promise this implements: SubscriptionLifecycle.  An id is live      *)
(* while it is running and ending until it leaves the tables.  In          *)
(* particular no trade is published once an unsubscribe has begun.         *)
Phase(s) ==
  IF listener[s] = "absent" THEN "absent"
  ELSE IF s \in running THEN "live"
  ELSE IF s \in subs THEN "ending"
  ELSE "ended"

Lifecycle == INSTANCE SubscriptionLifecycle
  WITH phase <- [s \in Subs |-> Phase(s)], ticks <- published

ImplementsLifecycle == Lifecycle!LifecycleSpec
=============================================================================
