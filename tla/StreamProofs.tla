----------------------------- MODULE StreamProofs -----------------------------
(***************************************************************************)
(* Proofs about StreamSubscriptions, for any number of subscriptions and   *)
(* of overlapping unsubscribe requests, whether or not closing may raise.  *)
(*                                                                         *)
(* The argument is about who may still touch an id.  The entries of an id  *)
(* disappear in one order (running, then tasks, then the socket, then the  *)
(* two tables together), a live listener keeps its task entry, and a       *)
(* request that waits has already taken the entry before: so whichever     *)
(* request finds the last entry is the only one to acknowledge.            *)
(***************************************************************************)
EXTENDS StreamSubscriptions, TLAPS

Looping == Alive \ {"exiting"}

(* The tables of an id shrink in one order.                                *)
Nested(s) ==
  /\ s \in registry <=> s \in subs
  /\ s \in running => s \in tasks
  /\ s \in tasks => s \in subs
  /\ conns[s] # "none" => s \in subs

(* The listener of an id against its entries.                              *)
ListenerOwns(s) ==
  /\ listener[s] \in Alive => s \in tasks
  /\ s \in running <=> listener[s] \in Looping /\ s \notin cancelled
  /\ s \in cancelled => listener[s] \in Alive
  /\ s \in subs => listener[s] # "absent"

Acknowledged(s) ==
  acks[s] = IF listener[s] = "absent" \/ s \in subs THEN 0 ELSE 1

IdInv(s) == Nested(s) /\ ListenerOwns(s) /\ Acknowledged(s)

(* A waiting request has removed the entries before the one it waits for.  *)
RequestInv(c) ==
  /\ pc[c] # "idle" => listener[target[c]] # "absent"
  /\ pc[c] = "awaitTask" => target[c] \notin running
  /\ pc[c] = "awaitClose" => target[c] \notin tasks

IInv ==
  /\ TypeOK
  /\ \A s \in Subs : IdInv(s)
  /\ \A c \in Calls : RequestInv(c)

-----------------------------------------------------------------------------
LEMMA NextDelayBounded ==
  ASSUME NEW d \in 1..MaxDelay
  PROVE  NextDelay(d) \in 1..MaxDelay
BY MaxDelayAssumption DEF NextDelay

LEMMA InitIInv == Init => IInv
<1>1. SUFFICES ASSUME Init PROVE IInv
  OBVIOUS
<1>2. TypeOK
  <2>1. (CHOOSE s \in Subs : TRUE) \in Subs
    BY SubsAssumption
  <2>2. QED BY <1>1, <2>1, MaxDelayAssumption
            DEF Init, TypeOK, Channels, Alive, Finished, Replies
<1>3. \A s \in Subs : IdInv(s)
  BY <1>1 DEF Init, IdInv, Nested, ListenerOwns, Acknowledged, Alive, Looping
<1>4. \A c \in Calls : RequestInv(c)
  BY <1>1 DEF Init, RequestInv
<1>5. QED BY <1>2, <1>3, <1>4 DEF IInv

(* An id none of whose entries changes keeps its invariant.                *)
LEMMA Untouched ==
  ASSUME NEW t \in Subs, IdInv(t),
         t \in registry' <=> t \in registry, t \in subs' <=> t \in subs,
         t \in running' <=> t \in running, t \in tasks' <=> t \in tasks,
         t \in cancelled' <=> t \in cancelled,
         conns'[t] = conns[t], listener'[t] = listener[t], acks'[t] = acks[t]
  PROVE  IdInv(t)'
BY DEF IdInv, Nested, ListenerOwns, Acknowledged

LEMMA SubscribeKeeps ==
  ASSUME IInv, NEW s \in Subs, Subscribe(s)
  PROVE  IInv'
<1>1. TypeOK'
  BY DEF IInv, TypeOK, Subscribe, connectorVars, requestVars, Alive
<1>2. \A t \in Subs : IdInv(t)'
  <2>1. IdInv(s)'
    BY DEF IInv, TypeOK, IdInv, Nested, ListenerOwns, Acknowledged, Subscribe,
           requestVars, Alive, Looping
  <2>2. ASSUME NEW t \in Subs \ {s} PROVE IdInv(t)'
    <3>1. IdInv(t)
      BY DEF IInv
    <3>2. QED BY <3>1, Untouched DEF IInv, TypeOK, Subscribe, requestVars
  <2>3. QED BY <2>1, <2>2
<1>3. ASSUME NEW c \in Calls PROVE RequestInv(c)'
  BY DEF IInv, TypeOK, RequestInv, Subscribe, requestVars
<1>4. QED BY <1>1, <1>2, <1>3 DEF IInv

(* The steps of a listener.                                                *)
LEMMA ListenerKeeps ==
  ASSUME IInv, NEW s \in Subs, ListenerStep(s)
  PROVE  IInv'
<1> USE DEF connectorVars, streamVars, requestVars
<1>1. TypeOK'
  <2>1. delay[s] \in 1..MaxDelay /\ 1 \in 1..MaxDelay
    BY MaxDelayAssumption DEF IInv, TypeOK
  <2>2. NextDelay(delay[s]) \in 1..MaxDelay
    BY <2>1, NextDelayBounded
  <2>3. CASE StartListening(s) \/ ConnectFailed(s)
    BY <2>3 DEF IInv, TypeOK, StartListening, ConnectFailed, Goto, Alive
  <2>4. CASE Connected(s)
    BY <2>4, <2>1 DEF IInv, TypeOK, Connected, Goto, Alive
  <2>5. CASE ConnectionLost(s) \/ SocketClosed(s)
    BY <2>5 DEF IInv, TypeOK, ConnectionLost, SocketClosed, Goto, Alive, Finished
  <2>6. CASE BackoffOver(s)
    BY <2>6, <2>2 DEF IInv, TypeOK, BackoffOver, Goto, Alive
  <2>7. CASE Receive(s)
    BY <2>7 DEF IInv, TypeOK, Receive
  <2>8. CASE DeliverCancel(s)
    BY <2>8 DEF IInv, TypeOK, DeliverCancel, AfterCancel, Alive, Finished
  <2>9. QED BY <2>3, <2>4, <2>5, <2>6, <2>7, <2>8 DEF ListenerStep
<1>2. /\ UNCHANGED <<registry, subs, running, tasks, requestVars>>
      /\ listener[s] \in Alive /\ listener'[s] # "absent"
      /\ \A t \in Subs \ {s} : /\ listener'[t] = listener[t] /\ conns'[t] = conns[t]
                               /\ t \in cancelled' <=> t \in cancelled
  BY DEF IInv, TypeOK, ListenerStep, StartListening, Connected, ConnectFailed,
         ConnectionLost, BackoffOver, Receive, DeliverCancel, SocketClosed, Goto,
         AfterCancel, Alive
<1>3. \A t \in Subs : IdInv(t)'
  <2>1. ASSUME NEW t \in Subs \ {s} PROVE IdInv(t)'
    <3>1. IdInv(t)
      BY DEF IInv
    <3>2. QED BY <3>1, <1>2, Untouched
  <2>2. /\ s \in cancelled' => s \in cancelled /\ listener'[s] = listener[s]
        /\ listener'[s] \in Looping /\ s \notin cancelled' <=>
             listener[s] \in Looping /\ s \notin cancelled
    BY DEF IInv, TypeOK, ListenerStep, StartListening, Connected, ConnectFailed,
           ConnectionLost, BackoffOver, Receive, DeliverCancel, SocketClosed, Goto,
           AfterCancel, Alive, Looping
  <2>3. IdInv(s)
    BY DEF IInv
  <2>4. Nested(s)'
    BY <1>2, <2>3 DEF IdInv, Nested, ListenerOwns
  <2>5. ListenerOwns(s)'
    BY <1>2, <2>2, <2>3 DEF IdInv, ListenerOwns
  <2>6. Acknowledged(s)'
    BY <1>2, <2>3 DEF IdInv, ListenerOwns, Acknowledged, Alive
  <2>7. QED BY <2>1, <2>4, <2>5, <2>6 DEF IdInv
<1>4. ASSUME NEW c \in Calls PROVE RequestInv(c)'
  BY <1>2 DEF IInv, TypeOK, RequestInv
<1>5. QED BY <1>1, <1>3, <1>4 DEF IInv

(* The ways a successful unsubscribe leaves the tables consistent: it has  *)
(* the id in the connector's table, and nothing else is left of it.        *)
LEMMA SucceedKeeps ==
  ASSUME IInv, NEW c \in Calls, NEW s \in Subs, Succeed(c, s),
         s \in subs, s \notin running', s \notin tasks', conns'[s] = "none",
         UNCHANGED <<listener, cancelled>>, listener[s] \notin Alive
  PROVE  IdInv(s)'
<1>1. IdInv(s)
  BY DEF IInv
<1>2. s \notin subs' /\ s \notin registry' /\ acks'[s] = 1
  BY <1>1 DEF IInv, TypeOK, IdInv, Acknowledged, Succeed
<1>3. s \notin cancelled /\ listener[s] # "absent"
  BY <1>1 DEF IdInv, ListenerOwns
<1>4. QED BY <1>2, <1>3 DEF IdInv, Nested, ListenerOwns, Acknowledged, Looping

(* The steps of an unsubscribe request, for its own id.                    *)
LEMMA RequestKeepsId ==
  ASSUME IInv, NEW c \in Calls, NEW s \in Subs, RequestUnsubscribe(c, s)
  PROVE  IdInv(s)'
<1> USE DEF connectorVars, streamVars
<1>1. IdInv(s) /\ UNCHANGED listener
  BY DEF IInv, RequestUnsubscribe
<1>2. CASE RequestUnknown(c, s)
  BY <1>1, <1>2, Untouched DEF RequestUnknown
<1>3. CASE RequestCancel(c, s)
  BY <1>1, <1>3 DEF RequestCancel, IdInv, Nested, ListenerOwns, Acknowledged, Looping
<1>4. CASE RequestAfterTask(c, s)
  <2>1. s \in subs /\ s \notin running' /\ s \notin tasks' /\ UNCHANGED cancelled
    BY <1>1, <1>4 DEF RequestAfterTask, IdInv, Nested
  <2>2. listener[s] \notin Alive
    BY <1>1, <1>4 DEF RequestAfterTask, IdInv, ListenerOwns, Alive, Finished
  <2>3. CASE conns[s] = "none"
    <3>1. Succeed(c, s) /\ conns'[s] = "none"
      BY <1>4, <2>3 DEF RequestAfterTask, CloseOrSucceed
    <3>2. QED BY <3>1, <1>1, <2>1, <2>2, SucceedKeeps
  <2>4. CASE conns[s] # "none"
    <3>1. UNCHANGED <<conns, subs, registry, acks>>
      BY <1>4, <2>4 DEF RequestAfterTask, CloseOrSucceed, Succeed
    <3>2. QED BY <3>1, <1>1, <2>1, <2>2
              DEF IdInv, Nested, ListenerOwns, Acknowledged, Looping
  <2>5. QED BY <2>3, <2>4
<1>5. QED BY <1>2, <1>3, <1>4 DEF RequestUnsubscribe

LEMMA ResumeKeepsId ==
  ASSUME IInv, NEW c \in Calls, NEW s \in Subs, s = target[c],
         TaskEnded(c) \/ CloseEnded(c) \/ CloseRaised(c)
  PROVE  IdInv(s)'
<1> USE DEF connectorVars, streamVars
<1>1. IdInv(s) /\ RequestInv(c) /\ UNCHANGED <<listener, running, cancelled>>
  BY DEF IInv, TypeOK, TaskEnded, CloseEnded, CloseRaised
<1>2. CASE TaskEnded(c)
  <2>1. s \notin running /\ listener[s] \notin Alive
    BY <1>1, <1>2 DEF TaskEnded, RequestInv, Alive, Finished
  <2>2. CASE s \notin tasks
    BY <1>1, <1>2, <2>2, Untouched DEF TaskEnded, Fail
  <2>3. CASE s \in tasks /\ conns[s] = "none"
    <3>1. /\ Succeed(c, s) /\ conns'[s] = "none"
          /\ s \in subs /\ s \notin tasks' /\ s \notin running'
      BY <1>1, <1>2, <2>1, <2>3 DEF TaskEnded, CloseOrSucceed, IdInv, Nested
    <3>2. QED BY <3>1, <1>1, <2>1, SucceedKeeps
  <2>4. CASE s \in tasks /\ conns[s] # "none"
    <3>1. /\ UNCHANGED <<conns, subs, registry, acks>>
          /\ s \notin tasks' /\ s \notin running'
      BY <1>1, <1>2, <2>1, <2>4 DEF TaskEnded, CloseOrSucceed, Succeed
    <3>2. QED BY <3>1, <1>1, <2>1
              DEF IdInv, Nested, ListenerOwns, Acknowledged, Looping
  <2>5. QED BY <2>2, <2>3, <2>4
<1>3. CASE CloseEnded(c)
  <2>1. s \notin tasks /\ s \notin running /\ listener[s] \notin Alive
    BY <1>1, <1>3 DEF CloseEnded, RequestInv, IdInv, ListenerOwns, Nested
  <2>2. CASE conns[s] = "none"
    BY <1>1, <1>3, <2>2, Untouched DEF CloseEnded, Fail
  <2>3. CASE conns[s] # "none"
    <3>1. /\ Succeed(c, s) /\ conns'[s] = "none"
          /\ s \in subs /\ s \notin tasks' /\ s \notin running'
      BY <1>1, <1>3, <2>1, <2>3 DEF CloseEnded, IdInv, Nested, IInv, TypeOK
    <3>2. QED BY <3>1, <1>1, <2>1, SucceedKeeps
  <2>4. QED BY <2>2, <2>3
<1>4. CASE CloseRaised(c)
  BY <1>1, <1>4, Untouched DEF CloseRaised, Fail
<1>5. QED BY <1>2, <1>3, <1>4

(* No step of a request touches the entries of another id.                 *)
LEMMA OthersUntouched ==
  ASSUME IInv, NEW c \in Calls, NEW s \in Subs, NEW t \in Subs \ {s},
         \/ RequestUnsubscribe(c, s)
         \/ s = target[c] /\ (TaskEnded(c) \/ CloseEnded(c) \/ CloseRaised(c))
  PROVE  IdInv(t)'
<1> USE DEF connectorVars, streamVars
<1>1. /\ t \in registry' <=> t \in registry
      /\ t \in subs' <=> t \in subs
      /\ t \in running' <=> t \in running
      /\ t \in tasks' <=> t \in tasks
      /\ t \in cancelled' <=> t \in cancelled
      /\ conns'[t] = conns[t] /\ acks'[t] = acks[t] /\ listener'[t] = listener[t]
  BY DEF IInv, TypeOK, RequestUnsubscribe, RequestUnknown, RequestCancel,
         RequestAfterTask, CloseOrSucceed, Succeed, Fail, TaskEnded, CloseEnded,
         CloseRaised
<1>2. IdInv(t)
  BY DEF IInv
<1>3. QED BY <1>1, <1>2, Untouched

LEMMA UnsubscribeKeepsTypes ==
  ASSUME IInv, NEW c \in Calls, UnsubscribeStep(c)
  PROVE  TypeOK'
<1> USE DEF connectorVars, streamVars, Replies
<1>1. ASSUME NEW s \in Subs, RequestUnsubscribe(c, s)
      PROVE  TypeOK'
  BY <1>1 DEF IInv, TypeOK, RequestUnsubscribe, RequestUnknown, RequestCancel,
              RequestAfterTask, CloseOrSucceed, Succeed, Answer
<1>2. CASE TaskEnded(c)
  BY <1>2 DEF IInv, TypeOK, TaskEnded, CloseOrSucceed, Succeed, Fail, Answer
<1>3. CASE CloseEnded(c) \/ CloseRaised(c)
  BY <1>3 DEF IInv, TypeOK, CloseEnded, CloseRaised, Succeed, Fail, Answer
<1>4. QED BY <1>1, <1>2, <1>3 DEF UnsubscribeStep

LEMMA UnsubscribeKeepsRequests ==
  ASSUME IInv, NEW c \in Calls, UnsubscribeStep(c), NEW d \in Calls
  PROVE  RequestInv(d)'
<1> USE DEF connectorVars, streamVars
<1>1. /\ RequestInv(d) /\ TypeOK
      /\ \A t \in Subs : IdInv(t)
  BY DEF IInv
<1>2. /\ UNCHANGED listener
      /\ running' \subseteq running
      /\ tasks' \subseteq tasks
  BY DEF UnsubscribeStep, RequestUnsubscribe, RequestUnknown, RequestCancel,
         RequestAfterTask, TaskEnded, CloseEnded, CloseRaised
<1>3. CASE d # c
  <2>1. pc'[d] = pc[d] /\ target'[d] = target[d]
    BY <1>1, <1>3 DEF TypeOK, UnsubscribeStep, RequestUnsubscribe, RequestUnknown,
         RequestCancel, RequestAfterTask, CloseOrSucceed, Succeed, Fail, Answer,
         TaskEnded, CloseEnded, CloseRaised
  <2>2. QED BY <1>1, <1>2, <2>1 DEF RequestInv
<1>4. CASE d = c
  <2>1. ASSUME NEW s \in Subs, RequestUnsubscribe(c, s)
        PROVE  RequestInv(c)'
    <3>1. IdInv(s) /\ pc[c] = "idle" /\ target'[c] = s
      BY <1>1, <2>1 DEF TypeOK, RequestUnsubscribe
    <3>2. CASE RequestUnknown(c, s)
      BY <3>1, <3>2 DEF RequestUnknown, RequestInv
    <3>3. CASE RequestCancel(c, s)
      BY <1>1, <1>2, <3>1, <3>3
         DEF TypeOK, RequestCancel, RequestInv, IdInv, Nested, ListenerOwns
    <3>4. CASE RequestAfterTask(c, s)
      BY <1>1, <1>2, <3>1, <3>4
         DEF TypeOK, RequestAfterTask, CloseOrSucceed, Succeed, Answer, RequestInv,
             IdInv, Nested, ListenerOwns
    <3>5. QED BY <2>1, <3>2, <3>3, <3>4 DEF RequestUnsubscribe
  <2>2. CASE TaskEnded(c)
    BY <1>1, <1>2, <1>4, <2>2
       DEF TypeOK, TaskEnded, CloseOrSucceed, Succeed, Fail, Answer, RequestInv
  <2>3. CASE CloseEnded(c) \/ CloseRaised(c)
    BY <1>1, <1>2, <1>4, <2>3
       DEF TypeOK, CloseEnded, CloseRaised, Succeed, Fail, Answer, RequestInv
  <2>4. QED BY <1>4, <2>1, <2>2, <2>3 DEF UnsubscribeStep
<1>5. QED BY <1>3, <1>4

LEMMA UnsubscribeKeeps ==
  ASSUME IInv, NEW c \in Calls, UnsubscribeStep(c)
  PROVE  IInv'
<1>1. ASSUME NEW t \in Subs PROVE IdInv(t)'
  <2>1. ASSUME NEW s \in Subs, RequestUnsubscribe(c, s)
        PROVE  IdInv(t)'
    BY <2>1, RequestKeepsId, OthersUntouched
  <2>2. CASE TaskEnded(c) \/ CloseEnded(c) \/ CloseRaised(c)
    <3>1. target[c] \in Subs
      BY DEF IInv, TypeOK
    <3>2. QED BY <2>2, <3>1, ResumeKeepsId, OthersUntouched
  <2>3. QED BY <2>1, <2>2 DEF UnsubscribeStep
<1>2. QED BY <1>1, UnsubscribeKeepsTypes, UnsubscribeKeepsRequests DEF IInv

LEMMA StutterKeeps ==
  ASSUME IInv, UNCHANGED vars
  PROVE  IInv'
BY DEF IInv, TypeOK, IdInv, Nested, ListenerOwns, Acknowledged, RequestInv, vars,
       connectorVars, streamVars, requestVars

-----------------------------------------------------------------------------
(* The inductive invariant holds throughout.                               *)
THEOREM Invariance == Spec => []IInv
<1>1. IInv /\ [Next]_vars => IInv'
  BY SubscribeKeeps, ListenerKeeps, UnsubscribeKeeps, StutterKeeps DEF Next
<1>2. QED BY <1>1, InitIInv, PTL DEF Spec

(* Every variable keeps its type; in particular the reconnect delay never  *)
(* exceeds max_reconnect_delay.                                            *)
THEOREM TypeCorrect == Spec => []TypeOK
<1>1. IInv => TypeOK
  BY DEF IInv
<1>2. QED BY <1>1, Invariance, PTL

(* The two tables always agree, and an id is acknowledged as unsubscribed  *)
(* once, by the request that removes it, however many requests overlap.    *)
THEOREM TablesAgree == Spec => []RegistryMatchesConnector
<1>1. IInv => RegistryMatchesConnector
  BY DEF IInv, TypeOK, IdInv, Nested, ListenerOwns, Acknowledged,
         RegistryMatchesConnector
<1>2. QED BY <1>1, Invariance, PTL

(* No task, socket or listener outlives the entry that could release it.   *)
THEOREM NothingOrphaned == Spec => []NoOrphan
<1>1. IInv => NoOrphan
  BY DEF IInv, TypeOK, IdInv, Nested, ListenerOwns, NoOrphan, Alive, Finished
<1>2. QED BY <1>1, Invariance, PTL

(* The _running tests in the listener's loop are never what stops it: a    *)
(* listener that is neither cancelled nor closing its socket is running.   *)
OnlyCancellationStopsListener ==
  \A s \in Subs :
    listener[s] \in Alive \ {"exiting"} /\ s \notin cancelled => s \in running

(* Only a cancellation ends a listener's loop.                             *)
THEOREM LoopEndsByCancellation == Spec => []OnlyCancellationStopsListener
<1>1. IInv => OnlyCancellationStopsListener
  BY DEF IInv, IdInv, ListenerOwns, Looping, OnlyCancellationStopsListener
<1>2. QED BY <1>1, Invariance, PTL

-----------------------------------------------------------------------------
(* Why a request may fail.  An id that is in the tables without a task has *)
(* a socket left, and a request that is closing it, unless closing raised. *)
Closing(s) ==
  s \in subs /\ s \notin tasks =>
    /\ conns[s] # "none"
    /\ s \in raised \/ \E d \in Calls : pc[d] = "awaitClose" /\ target[d] = s

FailInv == IInv /\ (\A s \in Subs : Closing(s)) /\ FailedOnlyIfOverlapped

(* The tables of t, but for the flags that only say whether it runs.       *)
Kept(t) ==
  /\ t \in subs' <=> t \in subs
  /\ conns'[t] = conns[t] /\ acks'[t] = acks[t]
  /\ t \in raised' <=> t \in raised

TaskKept(t) == t \in tasks' <=> t \in tasks

(* A step of request c for the id s, by what comes of it.                  *)
Refused(c, s) ==
  /\ pc'[c] = "idle" /\ pc[c] = "idle" /\ reply'[c] = "unknown"
  /\ Kept(s) /\ TaskKept(s)

Waits(c, s) ==
  /\ pc'[c] # "idle" /\ pc[c] # "awaitClose" /\ Kept(s)
  /\ \/ TaskKept(s)
     \/ s \notin tasks' /\ pc'[c] = "awaitClose" /\ conns[s] # "none"

Succeeds(c, s) ==
  pc'[c] = "idle" /\ reply'[c] = "unsubscribed" /\ s \notin subs' /\ acks'[s] = 1

Fails(c, s) ==
  /\ pc'[c] = "idle" /\ s \notin tasks /\ s \notin tasks'
  /\ s \in subs' <=> s \in subs
  /\ conns'[s] = conns[s] /\ acks'[s] = acks[s] /\ listener[s] # "absent"
  /\ \/ pc[c] = "awaitTask" /\ (s \in raised' <=> s \in raised)
     \/ pc[c] = "awaitClose" /\ conns[s] = "none" /\ (s \in raised' <=> s \in raised)
     \/ pc[c] = "awaitClose" /\ s \in raised'

StepOf(c, s) ==
  \/ RequestUnsubscribe(c, s)
  \/ s = target[c] /\ (TaskEnded(c) \/ CloseEnded(c) \/ CloseRaised(c))

LEMMA Outcome ==
  ASSUME IInv, NEW c \in Calls, NEW s \in Subs, StepOf(c, s)
  PROVE  /\ Refused(c, s) \/ Waits(c, s) \/ Succeeds(c, s) \/ Fails(c, s)
         /\ target'[c] = s
<1> USE DEF connectorVars, streamVars, Kept, TaskKept, Answer
<1>1. TypeOK /\ IdInv(s) /\ RequestInv(c)
  BY DEF IInv
<1>2. CASE RequestUnsubscribe(c, s)
  <2>1. pc[c] = "idle" /\ target'[c] = s /\ UNCHANGED raised
    BY <1>1, <1>2 DEF TypeOK, RequestUnsubscribe
  <2>2. CASE RequestUnknown(c, s)
    BY <1>1, <2>1, <2>2 DEF TypeOK, RequestUnknown, Refused
  <2>3. CASE RequestCancel(c, s)
    BY <1>1, <2>1, <2>3 DEF TypeOK, RequestCancel, Waits
  <2>4. CASE RequestAfterTask(c, s) /\ conns[s] # "none"
    BY <1>1, <2>1, <2>4 DEF TypeOK, RequestAfterTask, CloseOrSucceed, Succeed, Waits
  <2>5. CASE RequestAfterTask(c, s) /\ conns[s] = "none"
    <3>1. Succeed(c, s) /\ s \in subs
      BY <1>1, <2>5 DEF RequestAfterTask, CloseOrSucceed, IdInv, Nested
    <3>2. QED BY <1>1, <2>1, <3>1
              DEF TypeOK, Succeed, Succeeds, IdInv, ListenerOwns, Acknowledged
  <2>6. QED BY <1>2, <2>1, <2>2, <2>3, <2>4, <2>5 DEF RequestUnsubscribe
<1>3. CASE s = target[c] /\ TaskEnded(c)
  <2>1. pc[c] = "awaitTask" /\ target'[c] = s /\ UNCHANGED raised
    BY <1>3 DEF TaskEnded
  <2>2. CASE s \notin tasks
    BY <1>1, <1>3, <2>1, <2>2 DEF TypeOK, TaskEnded, Fail, Fails, RequestInv
  <2>3. CASE s \in tasks /\ conns[s] # "none"
    BY <1>1, <1>3, <2>1, <2>3 DEF TypeOK, TaskEnded, CloseOrSucceed, Succeed, Waits
  <2>4. CASE s \in tasks /\ conns[s] = "none"
    <3>1. Succeed(c, s) /\ s \in subs
      BY <1>1, <1>3, <2>4 DEF TaskEnded, CloseOrSucceed, IdInv, Nested
    <3>2. QED BY <1>1, <2>1, <3>1
              DEF TypeOK, Succeed, Succeeds, IdInv, ListenerOwns, Acknowledged
  <2>5. QED BY <2>1, <2>2, <2>3, <2>4
<1>4. CASE s = target[c] /\ CloseEnded(c)
  <2>1. /\ pc[c] = "awaitClose" /\ target'[c] = s /\ UNCHANGED <<raised, tasks>>
        /\ s \notin tasks /\ listener[s] # "absent"
    BY <1>1, <1>4 DEF CloseEnded, RequestInv
  <2>2. CASE conns[s] = "none"
    BY <1>1, <1>4, <2>1, <2>2 DEF TypeOK, CloseEnded, Fail, Fails
  <2>3. CASE conns[s] # "none"
    <3>1. Succeed(c, s) /\ s \in subs
      BY <1>1, <1>4, <2>3 DEF CloseEnded, IdInv, Nested
    <3>2. QED BY <1>1, <2>1, <3>1
              DEF TypeOK, Succeed, Succeeds, IdInv, ListenerOwns, Acknowledged
  <2>4. QED BY <2>2, <2>3
<1>5. CASE s = target[c] /\ CloseRaised(c)
  BY <1>1, <1>5 DEF TypeOK, CloseRaised, Fail, Fails, RequestInv
<1>6. QED BY <1>2, <1>3, <1>4, <1>5 DEF StepOf

(* Requests and ids that the step is not about.                            *)
LEMMA OutcomeFrame ==
  ASSUME IInv, NEW c \in Calls, NEW s \in Subs, StepOf(c, s)
  PROVE  /\ \A d \in Calls \ {c} :
              pc'[d] = pc[d] /\ target'[d] = target[d] /\ reply'[d] = reply[d]
         /\ \A t \in Subs \ {s} : Kept(t) /\ TaskKept(t)
         /\ listener' = listener
<1> USE DEF connectorVars, streamVars, StepOf, RequestUnsubscribe, RequestUnknown,
        RequestCancel, RequestAfterTask, CloseOrSucceed, Succeed, Fail, Answer,
        TaskEnded, CloseEnded, CloseRaised
<1>1. \A d \in Calls \ {c} :
        pc'[d] = pc[d] /\ target'[d] = target[d] /\ reply'[d] = reply[d]
  BY DEF IInv, TypeOK
<1>2. \A t \in Subs \ {s} : Kept(t) /\ TaskKept(t)
  BY DEF IInv, TypeOK, Kept, TaskKept
<1>3. listener' = listener
  OBVIOUS
<1>4. QED BY <1>1, <1>2, <1>3

LEMMA ClosingKept ==
  ASSUME FailInv, NEW c \in Calls, NEW s \in Subs, StepOf(c, s), NEW t \in Subs
  PROVE  Closing(t)'
<1>1. IInv /\ Closing(t)
  BY DEF FailInv
<1>2. /\ Refused(c, s) \/ Waits(c, s) \/ Succeeds(c, s) \/ Fails(c, s)
      /\ target'[c] = s
  BY <1>1, Outcome
<1>3. /\ \A d \in Calls \ {c} : pc'[d] = pc[d] /\ target'[d] = target[d]
      /\ t # s => Kept(t) /\ TaskKept(t)
  BY <1>1, OutcomeFrame
<1>4. pc[c] # "idle" => target[c] = s
  BY DEF StepOf, RequestUnsubscribe
<1>5. SUFFICES ASSUME t \in subs', t \notin tasks'
               PROVE  /\ conns'[t] # "none"
                      /\ \/ t \in raised'
                         \/ \E d \in Calls : pc'[d] = "awaitClose" /\ target'[d] = t
  BY DEF Closing
<1>6. CASE t # s
  <2>1. t \in subs /\ t \notin tasks /\ conns'[t] = conns[t] /\ (t \in raised' <=> t \in raised)
    BY <1>3, <1>5, <1>6 DEF Kept, TaskKept
  <2>2. /\ conns[t] # "none"
        /\ t \in raised \/ \E d \in Calls : pc[d] = "awaitClose" /\ target[d] = t
    BY <1>1, <2>1 DEF Closing
  <2>3. ASSUME NEW d \in Calls, pc[d] = "awaitClose", target[d] = t
        PROVE  pc'[d] = "awaitClose" /\ target'[d] = t
    BY <2>3, <1>3, <1>4, <1>6
  <2>4. QED BY <2>1, <2>2, <2>3
<1>7. CASE t = s /\ (Refused(c, s) \/ Waits(c, s)) /\ TaskKept(s)
  <2>1. /\ t \in subs /\ t \notin tasks /\ conns'[t] = conns[t]
        /\ t \in raised' <=> t \in raised
        /\ pc[c] # "awaitClose"
    BY <1>5, <1>7 DEF Kept, TaskKept, Refused, Waits
  <2>2. /\ conns[t] # "none"
        /\ t \in raised \/ \E d \in Calls : pc[d] = "awaitClose" /\ target[d] = t
    BY <1>1, <2>1 DEF Closing
  <2>3. ASSUME NEW d \in Calls, pc[d] = "awaitClose", target[d] = t
        PROVE  pc'[d] = "awaitClose" /\ target'[d] = t
    BY <2>1, <2>3, <1>3
  <2>4. QED BY <2>1, <2>2, <2>3
<1>8. CASE t = s /\ Waits(c, s) /\ ~ TaskKept(s)
  BY <1>2, <1>8 DEF Waits, Kept
<1>9. CASE t = s /\ Fails(c, s)
  <2>1. /\ t \in subs /\ t \notin tasks /\ conns'[t] = conns[t]
    BY <1>5, <1>9 DEF Fails
  <2>2. /\ conns[t] # "none"
        /\ t \in raised \/ \E d \in Calls : pc[d] = "awaitClose" /\ target[d] = t
    BY <1>1, <2>1 DEF Closing
  <2>3. CASE t \in raised'
    BY <2>1, <2>2, <2>3
  <2>4. CASE t \notin raised'
    <3>1. pc[c] = "awaitTask" /\ t \notin raised
      BY <1>9, <2>2, <2>4 DEF Fails
    <3>2. ASSUME NEW d \in Calls, pc[d] = "awaitClose", target[d] = t
          PROVE  pc'[d] = "awaitClose" /\ target'[d] = t
      BY <3>1, <3>2, <1>3
    <3>3. QED BY <2>1, <2>2, <3>1, <3>2
  <2>5. QED BY <2>3, <2>4
<1>10. CASE t = s /\ Succeeds(c, s)
  BY <1>5, <1>10 DEF Succeeds
<1>11. QED BY <1>2, <1>6, <1>7, <1>8, <1>9, <1>10 DEF Refused

(* What answers for a failure of a request e that is over.                 *)
AnswersFor(e, t) ==
  \/ t \in raised
  \/ acks[t] = 1
  \/ \E d \in Calls \ {e} : pc[d] # "idle" /\ target[d] = t

LEMMA AnswersKept ==
  ASSUME FailInv, NEW c \in Calls, NEW s \in Subs, StepOf(c, s),
         NEW e \in Calls, pc'[e] = "idle", reply'[e] = "failed"
  PROVE  AnswersFor(e, target[e])'
<1>1. IInv /\ (\A t \in Subs : Closing(t) /\ IdInv(t))
  BY DEF FailInv, IInv
<1>2. /\ Refused(c, s) \/ Waits(c, s) \/ Succeeds(c, s) \/ Fails(c, s)
      /\ target'[c] = s
  BY <1>1, Outcome
<1>3. /\ \A d \in Calls \ {c} :
           pc'[d] = pc[d] /\ target'[d] = target[d] /\ reply'[d] = reply[d]
      /\ \A t \in Subs \ {s} : Kept(t)
  BY <1>1, OutcomeFrame
<1>4. pc[c] # "idle" => target[c] = s
  BY DEF StepOf, RequestUnsubscribe
<1>5. target'[e] \in Subs
  BY <1>1, <1>2, <1>3 DEF IInv, TypeOK
<1>6. CASE Fails(c, s) /\ target'[e] = s
  <2>1. CASE s \in raised'
    BY <1>6, <2>1 DEF AnswersFor
  <2>2. CASE s \notin subs
    BY <1>1, <1>6, <2>2 DEF AnswersFor, Fails, IdInv, Acknowledged
  <2>3. CASE s \in subs /\ s \notin raised'
    <3>1. /\ pc[c] = "awaitTask" /\ s \notin raised /\ s \notin tasks
      BY <1>1, <1>6, <2>3 DEF Fails, Closing
    <3>2. PICK d \in Calls : pc[d] = "awaitClose" /\ target[d] = s
      BY <1>1, <2>3, <3>1 DEF Closing
    <3>3. d # c /\ pc'[d] = "awaitClose" /\ target'[d] = s
      BY <1>3, <3>1, <3>2
    <3>4. d # e
      BY <3>3
    <3>5. QED BY <1>6, <3>3, <3>4 DEF AnswersFor
  <2>4. QED BY <2>1, <2>2, <2>3
<1>7. CASE ~ (Fails(c, s) /\ target'[e] = s)
  <2>1. e # c
    BY <1>2, <1>7 DEF Refused, Waits, Succeeds
  <2>2. AnswersFor(e, target[e]) /\ target'[e] = target[e]
    BY <1>3, <2>1 DEF FailInv, FailedOnlyIfOverlapped, AnswersFor
  <2>3. CASE target[e] # s
    <3>1. Kept(target[e])
      BY <1>3, <1>5, <2>2, <2>3
    <3>2. QED BY <1>3, <1>4, <2>2, <2>3, <3>1 DEF AnswersFor, Kept
  <2>4. CASE target[e] = s
    BY <1>2, <1>3, <1>7, <2>1, <2>2, <2>4
    DEF AnswersFor, Kept, Refused, Waits, Succeeds
  <2>5. QED BY <2>3, <2>4
<1>8. QED BY <1>6, <1>7

(* An unsubscribe fails only because closing the socket raised or because  *)
(* another request for the id is at work or has succeeded: a request that  *)
(* is alone on its id never loses it.                                      *)
THEOREM FailuresExplained == Spec => []FailedOnlyIfOverlapped
<1>1. Init => FailInv
  BY InitIInv DEF Init, FailInv, Closing, FailedOnlyIfOverlapped
<1>2. FailInv /\ [Next]_vars => FailInv'
  <2> SUFFICES ASSUME FailInv, [Next]_vars PROVE FailInv'
    OBVIOUS
  <2>1. IInv /\ IInv'
    BY SubscribeKeeps, ListenerKeeps, UnsubscribeKeeps, StutterKeeps DEF Next, FailInv
  <2>2. ASSUME NEW c \in Calls, NEW s \in Subs, StepOf(c, s)
        PROVE  FailInv'
    <3>1. \A t \in Subs : Closing(t)'
      BY <2>2, ClosingKept
    <3>2. FailedOnlyIfOverlapped'
      BY <2>2, AnswersKept DEF FailedOnlyIfOverlapped, AnswersFor
    <3>3. QED BY <2>1, <3>1, <3>2 DEF FailInv
  <2>3. ASSUME NEW c \in Calls, UnsubscribeStep(c)
        PROVE  FailInv'
    <3>1. target[c] \in Subs
      BY <2>1 DEF IInv, TypeOK
    <3>2. QED BY <2>2, <2>3, <3>1 DEF UnsubscribeStep, StepOf
  <2>4. ASSUME NEW s \in Subs, Subscribe(s) \/ ListenerStep(s)
        PROVE  FailInv'
    <3>1. /\ UNCHANGED requestVars
          /\ \A t \in Subs : t \in subs' /\ t \notin tasks' =>
               t \in subs /\ t \notin tasks /\ (conns[t] # "none" => conns'[t] # "none")
      BY <2>1, <2>4
      DEF IInv, TypeOK, connectorVars, requestVars, Subscribe, ListenerStep,
          StartListening, Connected, ConnectFailed, ConnectionLost, BackoffOver,
          Receive, DeliverCancel, SocketClosed, Goto
    <3>2. QED BY <2>1, <3>1 DEF FailInv, Closing, FailedOnlyIfOverlapped, requestVars
  <2>5. CASE UNCHANGED vars
    BY <2>1, <2>5 DEF FailInv, Closing, FailedOnlyIfOverlapped, vars, connectorVars,
       requestVars
  <2>6. QED BY <2>3, <2>4, <2>5 DEF Next
<1>3. FailInv => FailedOnlyIfOverlapped
  BY DEF FailInv
<1>4. QED BY <1>1, <1>2, <1>3, PTL DEF Spec

-----------------------------------------------------------------------------
(* The refinement: what one step does to the phase of one id.              *)

(* A step that changes no phase and publishes nothing is a stutter of the  *)
(* life cycle.                                                             *)
LEMMA PhasesKept ==
  ASSUME UNCHANGED published, \A t \in Subs : Phase(t)' = Phase(t)
  PROVE  UNCHANGED Lifecycle!lifecycleVars
BY DEF Lifecycle!lifecycleVars

(* A step that moves one id to its next phase is a step of the life cycle. *)
LEMMA PhaseMoved ==
  ASSUME NEW s \in Subs, UNCHANGED published,
         \A t \in Subs \ {s} : Phase(t)' = Phase(t),
         \/ Phase(s) = "absent" /\ Phase(s)' = "live"
         \/ Phase(s) = "live" /\ Phase(s)' = "ending"
         \/ Phase(s) = "ending" /\ Phase(s)' = "ended"
  PROVE  Lifecycle!LifecycleNext
<1> DEFINE before == [t \in Subs |-> Phase(t)]
           after == [t \in Subs |-> Phase(t)']
<1>1. ASSUME NEW to, Phase(s)' = to
      PROVE  after = [before EXCEPT ![s] = to]
  BY <1>1
<1>2. before[s] = Phase(s)
  OBVIOUS
<1>3. QED BY <1>1, <1>2 DEF Lifecycle!LifecycleNext, Lifecycle!Open,
               Lifecycle!StartEnding, Lifecycle!Ended, Lifecycle!Move

LEMMA SubscribeOpens ==
  ASSUME IInv, NEW s \in Subs, Subscribe(s)
  PROVE  Lifecycle!LifecycleNext
<1>1. /\ Phase(s) = "absent" /\ Phase(s)' = "live"
      /\ \A t \in Subs \ {s} : Phase(t)' = Phase(t)
      /\ UNCHANGED published
  BY DEF IInv, TypeOK, Subscribe, Phase
<1>2. QED BY <1>1, PhaseMoved

(* A listener publishes only while its id is live, and never changes the   *)
(* phase itself.                                                           *)
LEMMA ListenerDelivers ==
  ASSUME IInv, NEW s \in Subs, ListenerStep(s)
  PROVE  Lifecycle!LifecycleNext \/ UNCHANGED Lifecycle!lifecycleVars
<1> USE DEF connectorVars, streamVars
<1>1. \A t \in Subs : Phase(t)' = Phase(t)
  BY DEF IInv, TypeOK, ListenerStep, StartListening, Connected, ConnectFailed,
         ConnectionLost, BackoffOver, Receive, DeliverCancel, SocketClosed, Goto,
         AfterCancel, Alive, Phase
<1>2. CASE UNCHANGED published
  BY <1>1, <1>2, PhasesKept
<1>3. CASE Receive(s) /\ IsTrade(s)
  <2>1. Phase(s) = "live"
    BY <1>3 DEF IInv, IdInv, ListenerOwns, Receive, Phase, Alive, Looping
  <2>2. published' = [published EXCEPT ![s] = @ + 1]
    BY <1>3 DEF Receive
  <2>3. [t \in Subs |-> Phase(t)'] = [t \in Subs |-> Phase(t)]
    BY <1>1
  <2>4. Lifecycle!Deliver(s)
    BY <2>1, <2>2, <2>3 DEF Lifecycle!Deliver
  <2>5. QED BY <2>4 DEF Lifecycle!LifecycleNext
<1>4. QED
  BY <1>2, <1>3 DEF ListenerStep, StartListening, Connected, ConnectFailed,
     ConnectionLost, BackoffOver, Receive, DeliverCancel, SocketClosed, Goto

(* A request starts the ending when it cancels a live listener, and ends   *)
(* the id when it succeeds; everything else about it is invisible.         *)
LEMMA UnsubscribeEnds ==
  ASSUME IInv, NEW c \in Calls, UnsubscribeStep(c)
  PROVE  Lifecycle!LifecycleNext \/ UNCHANGED Lifecycle!lifecycleVars
<1> USE DEF connectorVars, streamVars
<1>1. UNCHANGED <<published, listener>>
  BY DEF UnsubscribeStep, RequestUnsubscribe, TaskEnded, CloseEnded, CloseRaised
<1>2. TypeOK /\ RequestInv(c) /\ \A t \in Subs : IdInv(t)
  BY DEF IInv
<1>3. CASE UNCHANGED <<running, subs>>
  BY <1>1, <1>3, PhasesKept DEF Phase
<1>4. ASSUME NEW s \in Subs, RequestCancel(c, s), s \in running
      PROVE  Lifecycle!LifecycleNext
  <2>1. /\ Phase(s) = "live" /\ Phase(s)' = "ending"
        /\ \A t \in Subs \ {s} : Phase(t)' = Phase(t)
    BY <1>1, <1>2, <1>4 DEF RequestCancel, Phase, Alive, IdInv, Nested
  <2>2. QED BY <1>1, <2>1, PhaseMoved
<1>5. ASSUME NEW s \in Subs, Succeed(c, s), s \in subs, running' = running,
             s \notin running
      PROVE  Lifecycle!LifecycleNext
  <2>1. /\ Phase(s) = "ending" /\ Phase(s)' = "ended"
        /\ \A t \in Subs \ {s} : Phase(t)' = Phase(t)
    BY <1>1, <1>2, <1>5 DEF Succeed, Phase, IdInv, ListenerOwns
  <2>2. QED BY <1>1, <2>1, PhaseMoved
<1>6. ASSUME NEW s \in Subs, RequestUnsubscribe(c, s)
      PROVE  Lifecycle!LifecycleNext \/ UNCHANGED Lifecycle!lifecycleVars
  <2>1. IdInv(s)
    BY <1>2
  <2>2. CASE RequestUnknown(c, s)
    BY <1>3, <2>2 DEF RequestUnknown
  <2>3. CASE RequestCancel(c, s)
    <3>1. s \notin running => running' = running
      BY <2>3 DEF RequestCancel
    <3>2. QED BY <1>3, <1>4, <2>3, <3>1 DEF RequestCancel
  <2>4. CASE RequestAfterTask(c, s)
    <3>1. s \notin running /\ running' = running /\ s \in subs
      BY <2>1, <2>4 DEF RequestAfterTask, IdInv, Nested, ListenerOwns, Looping,
                        Alive, Finished
    <3>2. QED BY <1>3, <1>5, <2>4, <3>1 DEF RequestAfterTask, CloseOrSucceed
  <2>5. QED BY <1>6, <2>2, <2>3, <2>4 DEF RequestUnsubscribe
<1>7. CASE TaskEnded(c) \/ CloseEnded(c) \/ CloseRaised(c)
  <2> DEFINE s == target[c]
  <2>1. s \in Subs /\ IdInv(s) /\ running' = running
    BY <1>2, <1>7 DEF TypeOK, TaskEnded, CloseEnded, CloseRaised
  <2>2. pc[c] # "idle" /\ s \notin running
    BY <1>2, <1>7, <2>1 DEF TaskEnded, CloseEnded, CloseRaised, RequestInv, IdInv,
                            Nested
  <2>3. (subs' = subs) \/ (Succeed(c, s) /\ s \in subs)
    BY <1>7, <2>1 DEF TaskEnded, CloseEnded, CloseRaised, CloseOrSucceed, Fail,
                      IdInv, Nested
  <2> HIDE DEF s
  <2>4. QED BY <1>3, <1>5, <2>1, <2>2, <2>3
<1>8. QED BY <1>6, <1>7 DEF UnsubscribeStep

(* The service implements the subscription life cycle: opened once, ended  *)
(* once, and no trade is published once an unsubscribe has begun.          *)
THEOREM Refinement == Spec => ImplementsLifecycle
<1>1. Init => Lifecycle!LifecycleInit
  BY DEF Init, Lifecycle!LifecycleInit, Phase
<1>2. IInv /\ [Next]_vars => [Lifecycle!LifecycleNext]_(Lifecycle!lifecycleVars)
  <2>1. IInv /\ Next =>
          Lifecycle!LifecycleNext \/ UNCHANGED Lifecycle!lifecycleVars
    BY SubscribeOpens, ListenerDelivers, UnsubscribeEnds DEF Next
  <2>2. UNCHANGED vars => UNCHANGED Lifecycle!lifecycleVars
    <3>1. UNCHANGED vars => /\ UNCHANGED published
                            /\ \A t \in Subs : Phase(t)' = Phase(t)
      BY DEF vars, connectorVars, streamVars, Phase
    <3>2. QED BY <3>1, PhasesKept
  <2>3. QED BY <2>1, <2>2
<1>3. QED BY <1>1, <1>2, Invariance, PTL
          DEF Spec, ImplementsLifecycle, Lifecycle!LifecycleSpec
=============================================================================
