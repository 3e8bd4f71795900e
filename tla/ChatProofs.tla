------------------------------ MODULE ChatProofs ------------------------------
(***************************************************************************)
(* Proofs about ChatHistory, for any number of requests, turns and tools   *)
(* and every window.                                                       *)
(*                                                                         *)
(* The history is what turns leave behind that overlapped, failed or were  *)
(* refused, and a request sends an arbitrary end of it.  That is still a   *)
(* conversation because each turn appends its results where its calls are, *)
(* unless another turn came between (CallsAnswered, ResultsCalled), and    *)
(* because the window never begins with a result (WindowShape).            *)
(***************************************************************************)
EXTENDS ChatHistory, SequenceTheorems, WellFoundedInduction, TLAPS

-----------------------------------------------------------------------------
(* A set of positions has a first one, which is what Min chooses.          *)
LEMMA FirstExists ==
  ASSUME NEW I \in SUBSET Nat, I # {}
  PROVE  Min(I) \in I /\ \A i \in I : Min(I) <= i
<1>1. IsWellFoundedOn(OpToRel(<, Nat), Nat)
  BY NatLessThanWellFounded
<1> DEFINE R == OpToRel(<, Nat)
<1>2. \A x, y \in Nat : x < y => <<x, y>> \in R
  BY DEF OpToRel
<1> HIDE DEF R
<1>3. \E x \in I : \A y \in I : ~ (<<y, x>> \in R)
  BY <1>1, WFMin DEF R
<1>4. PICK x \in I : \A y \in I : ~ (<<y, x>> \in R)
  BY <1>3
<1>5. ASSUME NEW y \in I PROVE x <= y
  <2>1. x \in Nat /\ y \in Nat
    OBVIOUS
  <2>2. ~ (y < x)
    BY <1>2, <1>4, <2>1
  <2>3. QED BY <2>1, <2>2
<1>6. QED BY <1>5 DEF Min

(* The window is an end of the history that does not begin with a result,  *)
(* and whatever is recent and no result lies in it.                        *)
LEMMA WindowShape ==
  ASSUME NEW h \in Seq(Messages)
  PROVE  \E s \in 1..(Len(h) + 1) :
           /\ Window(h) = SubSeq(h, s, Len(h))
           /\ s <= Len(h) => h[s].role # "tool"
           /\ \A k \in 1..Len(h) :
                k > Len(h) - WindowSize /\ h[k].role # "tool" => s <= k
<1> DEFINE w == Latest(h)
           I == {i \in 1..Len(w) : w[i].role # "tool"}
<1>1. Len(h) \in Nat /\ WindowSize \in Nat \ {0}
  BY LenProperties, WindowAssumption
<1>2. PICK m \in 1..(Len(h) + 1) :
        /\ w = SubSeq(h, m, Len(h))
        /\ m <= Len(h) - WindowSize + 1 \/ m = 1
  <2>1. CASE Len(h) <= WindowSize
    BY <1>1, <2>1, SubSeqFull DEF Latest
  <2>2. CASE Len(h) > WindowSize
    <3> DEFINE m == Len(h) - WindowSize + 1
    <3>1. m \in 1..(Len(h) + 1)
      BY <1>1, <2>2
    <3>2. w = SubSeq(h, m, Len(h))
      BY <1>1, <2>2 DEF Latest
    <3>3. m <= Len(h) - WindowSize + 1
      BY <1>1
    <3> HIDE DEF w, m
    <3>4. QED BY <3>1, <3>2, <3>3
  <2>3. QED BY <1>1, <2>1, <2>2
<1>3. /\ w \in Seq(Messages) /\ Len(w) = Len(h) - m + 1
      /\ \A i \in 1..Len(w) : w[i] = h[m + i - 1]
  <2>1. \A i \in m..Len(h) : h[i] \in Messages
    BY <1>1, ElementOfSeq
  <2>2. QED BY <1>1, <1>2, <2>1, SubSeqProperties
<1>4. Window(h) = IF I = {} THEN <<>> ELSE SubSeq(w, Min(I), Len(w))
  <2>1. I = {} \/ Min(I) \in I
    <3>1. I \in SUBSET Nat
      BY <1>3
    <3>2. QED BY <3>1, FirstExists
  <2>2. 0 \notin I
    OBVIOUS
  <2>3. QED BY <2>1, <2>2 DEF Window, SelectInSeq
<1> HIDE DEF w
<1>5. CASE I = {}
  <2>1. Window(h) = SubSeq(h, Len(h) + 1, Len(h))
    BY <1>1, <1>4, <1>5, SubSeqEmpty
  <2>2. \A k \in 1..Len(h) : k > Len(h) - WindowSize => h[k].role = "tool"
    <3> SUFFICES ASSUME NEW k \in 1..Len(h), k > Len(h) - WindowSize
                 PROVE  h[k].role = "tool"
      OBVIOUS
    <3>1. k - m + 1 \in 1..Len(w)
      BY <1>1, <1>2, <1>3
    <3>2. w[k - m + 1].role = "tool"
      BY <1>5, <3>1
    <3>3. m + (k - m + 1) - 1 = k
      BY <1>1
    <3>4. QED BY <1>3, <3>1, <3>2, <3>3
  <2>3. QED BY <1>1, <2>1, <2>2
<1>6. CASE I # {}
  <2> DEFINE f == Min(I)
             s == m + f - 1
  <2>1. f \in I /\ \A i \in I : f <= i
    <3>1. I \in SUBSET Nat
      BY <1>3
    <3>2. QED BY <1>6, <3>1, FirstExists
  <2>2. Window(h) = SubSeq(w, f, Len(w))
    BY <1>4, <1>6
  <2> HIDE DEF f
  <2>3. f \in 1..Len(w) /\ s \in 1..Len(h) /\ h[s].role # "tool"
    BY <1>1, <1>3, <2>1
  <2>4. s = m + f - 1
    OBVIOUS
  <2> HIDE DEF s
  <2>5. Window(h) = SubSeq(h, s, Len(h))
    <3>1. w \in Seq(Messages) /\ f \in Int /\ Len(w) \in Int
      BY <1>3, <2>3, LenProperties
    <3>2. SubSeq(w, f, Len(w)) = [i \in 1..(Len(w) - f + 1) |-> w[f + i - 1]]
      BY <3>1
    <3>3. SubSeq(h, s, Len(h)) = [i \in 1..(Len(h) - s + 1) |-> h[s + i - 1]]
      BY <1>1, <2>3
    <3>4. Len(w) - f + 1 = Len(h) - s + 1
      BY <1>1, <1>3, <2>3, <2>4
    <3>5. \A i \in 1..(Len(w) - f + 1) : w[f + i - 1] = h[s + i - 1]
      BY <1>1, <1>3, <2>3, <2>4
    <3>6. QED BY <2>2, <3>2, <3>3, <3>4, <3>5
  <2>6. ASSUME NEW k \in 1..Len(h), k > Len(h) - WindowSize, h[k].role # "tool"
        PROVE  s <= k
    <3>1. k - m + 1 \in 1..Len(w) /\ m + (k - m + 1) - 1 = k
      BY <1>1, <1>2, <1>3, <2>6
    <3>2. k - m + 1 \in I
      BY <1>3, <2>6, <3>1
    <3>3. f <= k - m + 1
      BY <2>1, <3>2
    <3>4. f \in Int /\ m \in Int /\ k \in Int
      BY <1>3, <2>3
    <3>5. QED BY <2>4, <3>3, <3>4
  <2>7. QED BY <2>3, <2>5, <2>6
<1>7. QED BY <1>5, <1>6

-----------------------------------------------------------------------------
(* Histories only grow.                                                    *)
Extension(h, g) ==
  /\ g \in Seq(Messages)
  /\ Len(h) <= Len(g)
  /\ \A p \in 1..Len(h) : g[p] = h[p]

LEMMA UndividedBefore ==
  ASSUME NEW h \in Seq(Messages), NEW g, Extension(h, g), NEW t, Undivided(g, t)
  PROVE  Undivided(h, t)
<1>1. Len(h) \in Nat /\ Len(g) \in Nat /\ Len(h) <= Len(g)
  BY DEF Extension
<1>2. \A p \in 1..Len(h) : p \in 1..Len(g) /\ g[p] = h[p]
  BY <1>1 DEF Extension
<1>3. QED BY <1>2 DEF Undivided

LEMMA CallsCount ==
  ASSUME NEW h \in Seq(Messages), NEW p \in 1..Len(h), Is(h[p], "calls")
  PROVE  /\ h[p].turn \in Turns /\ h[p].count \in 1..MaxTools
         /\ h[p] = Calls(h[p].turn, h[p].count)
<1>1. h[p] \in Messages
  BY ElementOfSeq
<1>2. QED BY <1>1 DEF Messages, Is, Calls

LEMMA ToolIndex ==
  ASSUME NEW h \in Seq(Messages), NEW p \in 1..Len(h), Is(h[p], "tool")
  PROVE  h[p].turn \in Turns /\ h[p].index \in 1..MaxTools
<1>1. h[p] \in Messages
  BY ElementOfSeq
<1>2. QED BY <1>1 DEF Messages, Is

LEMMA AnsweredAfter ==
  ASSUME NEW h \in Seq(Messages), NEW g, Extension(h, g),
         NEW p \in 1..Len(h), Is(h[p], "calls"), Answered(h, p)
  PROVE  Answered(g, p)
<1>1. h[p].count \in 1..MaxTools
  BY CallsCount
<1>2. Len(h) \in Nat /\ Len(g) \in Nat /\ Len(h) <= Len(g) /\ g[p] = h[p]
  BY DEF Extension
<1>3. ASSUME NEW i \in 1..h[p].count
      PROVE  p + i <= Len(g) /\ g[p + i] = Results(h[p].turn, h[p].count)[i]
  <2>1. p + i <= Len(h) /\ h[p + i] = Results(h[p].turn, h[p].count)[i]
    BY <1>3 DEF Answered
  <2>2. i \in Nat /\ i >= 1
    BY <1>1, ToolsAssumption
  <2>3. p + i \in 1..Len(h)
    BY <1>2, <2>1, <2>2
  <2>4. g[p + i] = h[p + i]
    BY <2>3 DEF Extension
  <2>5. QED BY <1>2, <2>1, <2>2, <2>4
<1>4. QED BY <1>2, <1>3 DEF Answered

-----------------------------------------------------------------------------
(* The invariant.  A turn in progress is its request's own, and the        *)
(* history holds of it just what the request has appended.                 *)
TurnsBegun == \A p \in 1..Len(history) : history[p].turn <= turns

Active == {r \in Requests : pc[r] # "idle"}

OwnTurns ==
  \A r \in Active :
    turn[r] \in 1..turns /\ \A q \in Active \ {r} : turn[q] # turn[r]

Asked(r) ==
  pc[r] = "asking" =>
    \E u \in 1..Len(history) :
      /\ history[u] = User(turn[r])
      /\ \A p \in 1..Len(history) : history[p].turn = turn[r] => p = u

HasCalled(r) ==
  pc[r] = "tools" =>
    /\ called[r] \in 1..MaxTools
    /\ \E u, j \in 1..Len(history) :
         /\ u < j /\ history[u] = User(turn[r])
         /\ history[j] = Calls(turn[r], called[r])
         /\ \A p \in 1..Len(history) : history[p].turn = turn[r] => p \in {u, j}

(* Where no other turn came between, calls are answered, or will be by the *)
(* request whose tools are running, and results have their calls.          *)
CallsAnswered ==
  \A p \in 1..Len(history) :
    Is(history[p], "calls") /\ Undivided(history, history[p].turn) =>
      \/ Answered(history, p)
      \/ \E r \in Requests : pc[r] = "tools" /\ turn[r] = history[p].turn

ResultsCalled ==
  \A p \in 1..Len(history) :
    Is(history[p], "tool") /\ Undivided(history, history[p].turn) =>
      LET j == p - history[p].index IN
        /\ j \in 1..Len(history) /\ Is(history[j], "calls")
        /\ history[j].turn = history[p].turn
        /\ history[p].index <= history[j].count

Requested == \A r \in Requests : Asked(r) /\ HasCalled(r)

IInv ==
  /\ TypeOK /\ TurnsBegun /\ OwnTurns /\ Requested
  /\ CallsAnswered /\ ResultsCalled
  /\ SentWellFormed
  /\ MaxTools + 2 <= WindowSize => QuestionSent

-----------------------------------------------------------------------------
(* A request adds messages of one turn only, its own or a new one, and     *)
(* nothing else happens to the others.                                     *)
Adds(r) ==
  /\ Extension(history, history')
  /\ \A p \in (Len(history) + 1)..Len(history') : history'[p].turn = turn'[r]
  /\ \A q \in Requests \ {r} :
       pc'[q] = pc[q] /\ turn'[q] = turn[q] /\ called'[q] = called[q]
  /\ \/ turns' = turns + 1 /\ turn'[r] = turns + 1 /\ pc[r] = "idle"
     \/ /\ turns' = turns /\ turn'[r] = turn[r] /\ called'[r] \in 0..MaxTools
        /\ pc[r] # "idle"

LEMMA OthersKeep ==
  ASSUME IInv, TypeOK', NEW r \in Requests, Adds(r)
  PROVE  /\ TurnsBegun' /\ OwnTurns'
         /\ \A q \in Requests \ {r} : Asked(q)' /\ HasCalled(q)'
<1>1. /\ turns \in Nat /\ turns' \in Nat /\ turns <= turns'
      /\ Len(history) \in Nat /\ Len(history') \in Nat
      /\ Len(history) <= Len(history')
      /\ \A p \in 1..Len(history) : history'[p] = history[p] /\ p \in 1..Len(history')
      /\ turn'[r] <= turns' /\ turn'[r] \in 0..MaxTurns
  BY TurnsAssumption DEF IInv, TypeOK, Adds, Extension, OwnTurns, Active
<1>2. \A p \in 1..Len(history') :
        p \in 1..Len(history) \/ history'[p].turn = turn'[r]
  BY <1>1 DEF Adds
<1>3. TurnsBegun'
  <2> SUFFICES ASSUME NEW p \in 1..Len(history')
               PROVE  history'[p].turn <= turns'
    BY DEF TurnsBegun
  <2>1. CASE p \in 1..Len(history)
    <3>1. history[p].turn <= turns /\ history'[p] = history[p]
      BY <1>1, <2>1 DEF IInv, TurnsBegun
    <3>2. history[p] \in Messages
      BY <2>1, ElementOfSeq DEF IInv, TypeOK
    <3>3. history[p].turn \in Turns
      BY <3>2 DEF Messages
    <3>4. QED BY <1>1, <3>1, <3>3, TurnsAssumption DEF Turns
  <2>2. CASE history'[p].turn = turn'[r]
    BY <1>1, <2>2
  <2>3. QED BY <1>2, <2>1, <2>2
<1>4. ASSUME NEW q \in Requests \ {r}, pc[q] # "idle"
      PROVE  turn[q] \in 1..turns /\ turn[q] # turn'[r]
  <2>1. turn[q] \in 1..turns /\ (pc[r] # "idle" => turn[q] # turn[r])
    BY <1>4 DEF IInv, OwnTurns, Active
  <2>2. QED BY <1>1, <2>1 DEF Adds
<1>5. OwnTurns'
  <2> SUFFICES ASSUME NEW q \in Requests, pc'[q] # "idle"
               PROVE  /\ turn'[q] \in 1..turns'
                      /\ \A z \in Requests \ {q} : pc'[z] # "idle" => turn'[z] # turn'[q]
    BY DEF OwnTurns, Active
  <2>1. CASE q = r
    <3>1. turn'[r] \in 1..turns'
      <4>1. CASE pc[r] # "idle"
        BY <1>1, <4>1 DEF IInv, OwnTurns, Active, Adds
      <4>2. CASE pc[r] = "idle"
        BY <1>1, <4>2 DEF Adds
      <4>3. QED BY <4>1, <4>2
    <3>2. QED BY <1>4, <2>1, <3>1 DEF Adds
  <2>2. CASE q # r
    <3>1. pc[q] # "idle" /\ turn'[q] = turn[q]
      BY <2>2 DEF Adds
    <3>2. turn[q] \in 1..turns'
      BY <1>1, <1>4, <2>2, <3>1
    <3>3. ASSUME NEW z \in Requests \ {q}, pc'[z] # "idle"
          PROVE  turn'[z] # turn'[q]
      <4>1. CASE z = r
        BY <1>4, <2>2, <3>1, <4>1
      <4>2. CASE z # r
        BY <3>1, <3>3, <4>2 DEF IInv, OwnTurns, Active, Adds
      <4>3. QED BY <4>1, <4>2
    <3>4. QED BY <3>1, <3>2, <3>3
  <2>3. QED BY <2>1, <2>2
<1>6. ASSUME NEW q \in Requests \ {r}, pc'[q] # "idle"
      PROVE  /\ pc'[q] = pc[q] /\ turn'[q] = turn[q] /\ called'[q] = called[q]
             /\ \A p \in 1..Len(history') : history'[p].turn = turn[q] =>
                  p \in 1..Len(history) /\ history[p].turn = turn[q]
  BY <1>1, <1>2, <1>4, <1>6 DEF Adds
<1>7. ASSUME NEW q \in Requests \ {r} PROVE Asked(q)'
  <2> SUFFICES ASSUME pc'[q] = "asking"
               PROVE  \E u \in 1..Len(history') :
                        /\ history'[u] = User(turn'[q])
                        /\ \A p \in 1..Len(history') :
                             history'[p].turn = turn'[q] => p = u
    BY DEF Asked, User
  <2>1. PICK u \in 1..Len(history) :
          /\ history[u] = User(turn[q])
          /\ \A p \in 1..Len(history) : history[p].turn = turn[q] => p = u
    BY <1>6 DEF IInv, Requested, Asked
  <2>2. QED BY <1>1, <1>6, <2>1
<1>8. ASSUME NEW q \in Requests \ {r} PROVE HasCalled(q)'
  <2> SUFFICES ASSUME pc'[q] = "tools"
               PROVE  /\ called'[q] \in 1..MaxTools
                      /\ \E u, j \in 1..Len(history') :
                           /\ u < j /\ history'[u] = User(turn'[q])
                           /\ history'[j] = Calls(turn'[q], called'[q])
                           /\ \A p \in 1..Len(history') :
                                history'[p].turn = turn'[q] => p \in {u, j}
    BY DEF HasCalled, User, Calls
  <2>1. /\ called[q] \in 1..MaxTools
        /\ \E u, j \in 1..Len(history) :
             /\ u < j /\ history[u] = User(turn[q])
             /\ history[j] = Calls(turn[q], called[q])
             /\ \A p \in 1..Len(history) : history[p].turn = turn[q] => p \in {u, j}
    BY <1>6 DEF IInv, Requested, HasCalled
  <2>2. QED BY <1>1, <1>6, <2>1
<1>9. QED BY <1>3, <1>5, <1>7, <1>8

LEMMA OldCalls ==
  ASSUME IInv, NEW r \in Requests, Adds(r), NEW p \in 1..Len(history),
         Is(history[p], "calls"), Undivided(history', history[p].turn)
  PROVE  \/ Answered(history', p)
         \/ \E q \in Requests \ {r} : pc'[q] = "tools" /\ turn'[q] = history[p].turn
         \/ pc[r] = "tools" /\ turn[r] = history[p].turn
<1>1. history \in Seq(Messages) /\ Extension(history, history')
  BY DEF IInv, TypeOK, Adds
<1>2. Undivided(history, history[p].turn)
  BY <1>1, UndividedBefore
<1>3. \/ Answered(history, p)
      \/ \E q \in Requests : pc[q] = "tools" /\ turn[q] = history[p].turn
  BY <1>2 DEF IInv, CallsAnswered
<1>4. CASE Answered(history, p)
  BY <1>1, <1>4, AnsweredAfter
<1>5. CASE \E q \in Requests : pc[q] = "tools" /\ turn[q] = history[p].turn
  BY <1>5 DEF Adds
<1>6. QED BY <1>3, <1>4, <1>5

(* The result at p has its call.                                           *)
Called(h, p) ==
  LET j == p - h[p].index IN
    /\ j \in 1..Len(h) /\ Is(h[j], "calls")
    /\ h[j].turn = h[p].turn /\ h[p].index <= h[j].count

LEMMA OldResults ==
  ASSUME IInv, NEW r \in Requests, Adds(r), NEW p \in 1..Len(history),
         Is(history[p], "tool"), Undivided(history', history[p].turn)
  PROVE  Called(history', p)
<1>1. history \in Seq(Messages) /\ Extension(history, history')
  BY DEF IInv, TypeOK, Adds
<1>2. Undivided(history, history[p].turn)
  BY <1>1, UndividedBefore
<1>3. Called(history, p)
  BY <1>2 DEF IInv, ResultsCalled, Called
<1>4. history'[p] = history[p] /\ Len(history) <= Len(history')
  BY <1>1 DEF Extension
<1> DEFINE j == p - history[p].index
<1>5. /\ j \in 1..Len(history) /\ Is(history[j], "calls")
      /\ history[j].turn = history[p].turn /\ history[p].index <= history[j].count
  BY <1>3 DEF Called
<1>6. history'[j] = history[j] /\ j \in 1..Len(history')
  <2> HIDE DEF j
  <2>1. Len(history) \in Nat /\ Len(history') \in Nat
    BY <1>1 DEF Extension
  <2>2. QED BY <1>1, <1>5, <2>1 DEF Extension
<1>7. QED BY <1>4, <1>5, <1>6 DEF Called

(* What a step keeps that adds no calls and leaves its request's tools.    *)
LEMMA ConversationKept ==
  ASSUME IInv, TypeOK', NEW r \in Requests, Adds(r), pc[r] # "tools",
         \A p \in (Len(history) + 1)..Len(history') :
           /\ ~ Is(history'[p], "tool")
           /\ Is(history'[p], "calls") => pc'[r] = "tools"
  PROVE  CallsAnswered' /\ ResultsCalled'
<1>1. /\ Len(history) \in Nat /\ Len(history') \in Nat
      /\ \A p \in 1..Len(history) : history'[p] = history[p]
  BY DEF IInv, TypeOK, Adds, Extension
<1>2. \A p \in 1..Len(history') :
        p \in 1..Len(history) \/ p \in (Len(history) + 1)..Len(history')
  BY <1>1
<1>3. CallsAnswered'
  <2> SUFFICES ASSUME NEW p \in 1..Len(history'), Is(history'[p], "calls"),
                      Undivided(history', history'[p].turn)
               PROVE  \/ Answered(history', p)
                      \/ \E q \in Requests :
                           pc'[q] = "tools" /\ turn'[q] = history'[p].turn
    BY DEF CallsAnswered
  <2>1. CASE p \in 1..Len(history)
    <3>1. history'[p] = history[p]
      BY <1>1, <2>1
    <3>2. QED BY <2>1, <3>1, OldCalls
  <2>2. CASE p \in (Len(history) + 1)..Len(history')
    BY <2>2 DEF Adds
  <2>3. QED BY <1>2, <2>1, <2>2
<1>4. ResultsCalled'
  <2> SUFFICES ASSUME NEW p \in 1..Len(history'), Is(history'[p], "tool"),
                      Undivided(history', history'[p].turn)
               PROVE  Called(history', p)
    BY DEF ResultsCalled, Called
  <2>1. CASE p \in 1..Len(history)
    <3>1. history'[p] = history[p]
      BY <1>1, <2>1
    <3>2. QED BY <2>1, <3>1, OldResults
  <2>2. QED BY <1>2, <2>1
<1>5. QED BY <1>3, <1>4

-----------------------------------------------------------------------------
(* The requests to the model.                                              *)
LEMMA SentKept ==
  ASSUME IInv, Extension(history, history'), UNCHANGED sent
  PROVE  SentWellFormed' /\ (MaxTools + 2 <= WindowSize => QuestionSent')
<1> DEFINE w == sent.messages
<1>1. \A i \in 1..Len(w) : Undivided(history', w[i].turn) => Undivided(history, w[i].turn)
  BY UndividedBefore DEF IInv, TypeOK
<1>2. SentWellFormed'
  <2> SUFFICES ASSUME sent.alone, \A i \in 1..Len(w) : Undivided(history', w[i].turn)
               PROVE  /\ \A j \in 1..Len(w) : Is(w[j], "calls") => Answered(w, j)
                      /\ \A i \in 1..Len(w) : Is(w[i], "tool") =>
                           \E j \in 1..(i - 1) :
                             /\ Is(w[j], "calls") /\ w[j].turn = w[i].turn
                             /\ j + w[i].index = i
    BY DEF SentWellFormed
  <2>1. SentWellFormed
    BY DEF IInv
  <2>2. QED BY <1>1, <2>1 DEF SentWellFormed
<1>3. QED BY <1>2 DEF IInv, QuestionSent

(* What is sent is an end of the history.                                  *)
LEMMA WindowEnd ==
  ASSUME NEW h \in Seq(Messages)
  PROVE  \E s \in 1..(Len(h) + 1) :
           /\ Window(h) \in Seq(Messages)
           /\ Len(Window(h)) = Len(h) - s + 1
           /\ \A i \in 1..Len(Window(h)) : Window(h)[i] = h[s + i - 1]
           /\ s <= Len(h) => h[s].role # "tool"
           /\ \A k \in 1..Len(h) :
                k > Len(h) - WindowSize /\ h[k].role # "tool" => s <= k
<1>1. PICK s \in 1..(Len(h) + 1) :
        /\ Window(h) = SubSeq(h, s, Len(h))
        /\ s <= Len(h) => h[s].role # "tool"
        /\ \A k \in 1..Len(h) :
             k > Len(h) - WindowSize /\ h[k].role # "tool" => s <= k
  BY WindowShape
<1>2. \A i \in s..Len(h) : h[i] \in Messages
  BY ElementOfSeq
<1>3. Len(h) \in Nat
  BY LenProperties
<1> DEFINE w == SubSeq(h, s, Len(h))
<1>4. /\ w \in Seq(Messages) /\ Len(w) = Len(h) - s + 1
      /\ \A i \in 1..Len(w) : w[i] = h[s + i - 1]
  BY <1>2, <1>3, SubSeqProperties
<1>5. Window(h) = w
  BY <1>1
<1> HIDE DEF w
<1>6. QED BY <1>1, <1>4, <1>5

LEMMA QuestionIn ==
  ASSUME history' \in Seq(Messages), NEW r, NEW t, Send(r, t, history'),
         NEW u \in 1..Len(history'), history'[u] = User(t),
         u > Len(history') - WindowSize
  PROVE  QuestionSent'
<1> DEFINE w == Window(history')
<1>1. sent'.messages = w /\ sent'.turn = t
  BY DEF Send
<1>2. PICK s \in 1..(Len(history') + 1) :
        /\ Len(w) = Len(history') - s + 1
        /\ \A i \in 1..Len(w) : w[i] = history'[s + i - 1]
        /\ \A k \in 1..Len(history') :
             k > Len(history') - WindowSize /\ history'[k].role # "tool" => s <= k
  BY WindowEnd
<1> HIDE DEF w
<1>3. s <= u
  BY <1>2 DEF User
<1>4. Len(history') \in Nat
  BY LenProperties
<1>5. u - s + 1 \in 1..Len(w) /\ s + (u - s + 1) - 1 = u
  BY <1>2, <1>3, <1>4
<1>6. w[u - s + 1] = User(t)
  BY <1>2, <1>5
<1>7. \E i \in 1..Len(sent'.messages) : sent'.messages[i] = User(sent'.turn)
  BY <1>1, <1>5, <1>6
<1>8. QED BY <1>7 DEF QuestionSent, User

(* A turn that has the chat for itself meets no calls that wait for tools, *)
(* and no result whose calls the window has cut off: the results between   *)
(* them would be its first message.                                        *)
LEMMA SentSound ==
  ASSUME history' \in Seq(Messages), CallsAnswered', ResultsCalled',
         NEW r \in Requests, NEW t, Send(r, t, history'), pc'[r] # "tools",
         \A q \in Requests \ {r} : pc'[q] = pc[q]
  PROVE  SentWellFormed'
<1> DEFINE h == history'
           w == Window(h)
<1>1. sent'.messages = w /\ sent'.alone = Alone(r, t, h)
  BY DEF Send
<1>2. PICK s \in 1..(Len(h) + 1) :
        /\ Len(w) = Len(h) - s + 1
        /\ \A i \in 1..Len(w) : w[i] = h[s + i - 1]
        /\ s <= Len(h) => h[s].role # "tool"
  BY WindowEnd
<1>3. Len(h) \in Nat
  BY LenProperties
<1> HIDE DEF w
<1>4. SUFFICES ASSUME sent'.alone, \A i \in 1..Len(w) : Undivided(h, w[i].turn)
      PROVE  /\ \A j \in 1..Len(w) : Is(w[j], "calls") => Answered(w, j)
             /\ \A i \in 1..Len(w) : Is(w[i], "tool") =>
                  \E j \in 1..(i - 1) :
                    Is(w[j], "calls") /\ w[j].turn = w[i].turn /\ j + w[i].index = i
  BY <1>1 DEF SentWellFormed
<1>5. \A q \in Requests : pc'[q] # "tools"
  BY <1>1, <1>4 DEF Alone
<1>6. ASSUME NEW p \in 1..Len(h), Is(h[p], "calls"), Undivided(h, h[p].turn),
             NEW i \in 1..h[p].count
      PROVE  p + i <= Len(h) /\ Is(h[p + i], "tool")
             /\ h[p + i] = Results(h[p].turn, h[p].count)[i]
  <2>1. Answered(h, p)
    BY <1>5, <1>6 DEF CallsAnswered
  <2>2. p + i <= Len(h) /\ h[p + i] = Results(h[p].turn, h[p].count)[i]
    BY <1>6, <2>1 DEF Answered
  <2>3. QED BY <2>2 DEF Results, Is
<1>7. ASSUME NEW j \in 1..Len(w), Is(w[j], "calls")
      PROVE  Answered(w, j)
  <2> DEFINE p == s + j - 1
  <2>1. p \in 1..Len(h) /\ w[j] = h[p]
    BY <1>2, <1>3
  <2>2. Undivided(h, h[p].turn) /\ Is(h[p], "calls")
    BY <1>4, <1>7, <2>1
  <2>3. h[p].count \in 1..MaxTools
    BY <2>1, <2>2, CallsCount
  <2>4. p = s + j - 1
    OBVIOUS
  <2> HIDE DEF p
  <2>5. ASSUME NEW i \in 1..w[j].count
        PROVE  j + i <= Len(w) /\ w[j + i] = Results(w[j].turn, w[j].count)[i]
    <3>1. /\ p + i <= Len(h) /\ h[p + i] = Results(h[p].turn, h[p].count)[i]
      BY <1>6, <2>1, <2>2, <2>5
    <3>2. i \in Nat /\ i >= 1
      BY <2>1, <2>3, ToolsAssumption
    <3>3. j + i \in 1..Len(w) /\ s + (j + i) - 1 = p + i
      BY <1>2, <1>3, <2>4, <3>1, <3>2
    <3>4. w[j + i] = h[p + i]
      BY <1>2, <3>3
    <3>5. QED BY <2>1, <3>1, <3>3, <3>4
  <2>6. QED BY <2>5 DEF Answered
<1>8. ASSUME NEW i \in 1..Len(w), Is(w[i], "tool")
      PROVE  \E j \in 1..(i - 1) :
               Is(w[j], "calls") /\ w[j].turn = w[i].turn /\ j + w[i].index = i
  <2> DEFINE p == s + i - 1
             k == w[i].index
             c == p - k
  <2>1. p \in 1..Len(h) /\ w[i] = h[p]
    BY <1>2, <1>3
  <2>2. Undivided(h, h[p].turn) /\ Is(h[p], "tool")
    BY <1>4, <1>8, <2>1
  <2>3. /\ c \in 1..Len(h) /\ Is(h[c], "calls")
        /\ h[c].turn = h[p].turn /\ k <= h[c].count
    BY <2>1, <2>2 DEF ResultsCalled
  <2>4. k \in 1..MaxTools /\ h[c].count \in 1..MaxTools
    BY <2>1, <2>2, <2>3, CallsCount, ToolIndex
  <2>5. p = s + i - 1 /\ c = p - k
    OBVIOUS
  <2> HIDE DEF p, k, c
  <2>6. ASSUME c < s PROVE FALSE
    <3>1. s \in 1..Len(h) /\ s <= p /\ h[s].role # "tool"
      BY <1>2, <1>3, <2>1, <2>5
    <3>2. s # p
      BY <2>2, <3>1 DEF Is
    <3>3. s - c \in 1..h[c].count /\ c + (s - c) = s
      <4>1. c \in Int /\ p \in Int /\ s \in Int /\ k \in Int /\ h[c].count \in Int
        BY <2>1, <2>3, <2>4, <3>1
      <4>2. c < s /\ s < p /\ c = p - k /\ k <= h[c].count
        BY <2>3, <2>5, <2>6, <3>1, <3>2, <4>1
      <4>3. QED BY <4>1, <4>2
    <3>4. Is(h[c + (s - c)], "tool")
      BY <1>6, <2>2, <2>3, <3>3
    <3>5. QED BY <3>1, <3>3, <3>4 DEF Is
  <2>7. i - k \in 1..(i - 1) /\ i - k \in 1..Len(w) /\ s + (i - k) - 1 = c
    <3>1. i \in Int /\ k \in Int /\ c \in Int /\ s \in Int /\ Len(w) \in Int
      BY <1>2, <1>3, <2>3, <2>4
    <3>2. s <= c /\ c = (s + i - 1) - k /\ 1 <= k /\ i <= Len(w)
      BY <2>4, <2>5, <2>6, <3>1
    <3>3. QED BY <3>1, <3>2
  <2>8. w[i - k] = h[c]
    BY <1>2, <2>7
  <2>9. (i - k) + k = i
    BY <2>4, ToolsAssumption
  <2>10. Is(w[i - k], "calls") /\ w[i - k].turn = w[i].turn
    BY <2>1, <2>3, <2>8
  <2>11. QED BY <2>7, <2>9, <2>10 DEF k
<1>9. QED BY <1>7, <1>8

LEMMA SentTyped ==
  ASSUME history' \in Seq(Messages), NEW r, NEW t \in 0..MaxTurns, Send(r, t, history')
  PROVE  /\ sent'.messages \in Seq(Messages) /\ sent'.turn \in 0..MaxTurns
         /\ sent'.alone \in BOOLEAN
<1>1. Window(history') \in Seq(Messages)
  BY WindowEnd
<1>2. sent'.messages = Window(history') /\ sent'.turn = t /\ sent'.alone = Alone(r, t, history')
  BY DEF Send
<1>3. Alone(r, t, history') \in BOOLEAN
  BY DEF Alone
<1>4. QED BY <1>1, <1>2, <1>3

-----------------------------------------------------------------------------
(* Each action adds messages of the turn of its request.                   *)
LEMMA AddedOne ==
  ASSUME IInv, NEW m \in Messages, history' = Append(history, m)
  PROVE  /\ Extension(history, history')
         /\ Len(history) \in Nat /\ Len(history') = Len(history) + 1
         /\ history'[Len(history) + 1] = m
  BY AppendProperties, LenProperties DEF IInv, TypeOK, Extension

LEMMA AddedMany ==
  ASSUME IInv, NEW ms \in Seq(Messages), history' = history \o ms
  PROVE  /\ Extension(history, history')
         /\ Len(history) \in Nat /\ Len(ms) \in Nat
         /\ Len(history') = Len(history) + Len(ms)
         /\ \A i \in 1..Len(ms) : history'[Len(history) + i] = ms[i]
<1>1. history \in Seq(Messages) /\ Len(history) \in Nat /\ Len(ms) \in Nat
  BY LenProperties DEF IInv, TypeOK
<1>2. /\ history' \in Seq(Messages)
      /\ Len(history') = Len(history) + Len(ms)
      /\ \A i \in 1..(Len(history) + Len(ms)) :
           history'[i] = IF i <= Len(history) THEN history[i] ELSE ms[i - Len(history)]
  BY <1>1, ConcatProperties
<1>3. QED BY <1>1, <1>2 DEF Extension

LEMMA ActiveTurn ==
  ASSUME IInv, NEW r \in Requests, pc[r] # "idle"
  PROVE  /\ turn[r] \in Turns /\ turn[r] \in 0..MaxTurns
         /\ User(turn[r]) \in Messages /\ Assistant(turn[r]) \in Messages
         /\ \A n \in 1..MaxTools : Calls(turn[r], n) \in Messages
<1>1. turn[r] \in 1..turns /\ turns \in 0..MaxTurns
  BY DEF IInv, OwnTurns, Active, TypeOK
<1>2. turn[r] \in Turns
  BY <1>1, TurnsAssumption DEF Turns
<1>3. turn[r] \in 0..MaxTurns
  BY <1>2, TurnsAssumption DEF Turns
<1>4. QED BY <1>2, <1>3 DEF Messages, User, Assistant, Calls

LEMMA RefuseStep ==
  ASSUME IInv, NEW r \in Requests, pc[r] = "idle", turns < MaxTurns,
         turns' = turns + 1, turn' = [turn EXCEPT ![r] = turns + 1],
         history' = history \o <<User(turns + 1), Assistant(turns + 1)>>,
         UNCHANGED <<pc, called, sent>>
  PROVE  IInv'
<1> DEFINE t == turns + 1
           ms == <<User(t), Assistant(t)>>
<1>1. t \in Turns /\ t \in 0..MaxTurns /\ turns \in Nat
  BY TurnsAssumption DEF IInv, TypeOK, Turns
<1>2. User(t) \in Messages /\ Assistant(t) \in Messages
  BY <1>1 DEF User, Assistant, Messages
<1>3. ms \in Seq(Messages) /\ Len(ms) = 2 /\ ms[1] = User(t) /\ ms[2] = Assistant(t)
  BY <1>2
<1>4. history' = history \o ms /\ turn'[r] = t /\ turns' = t
  BY DEF IInv, TypeOK
<1> HIDE DEF ms, t
<1>5. /\ Extension(history, history') /\ Len(history) \in Nat
      /\ Len(history') = Len(history) + 2
      /\ \A i \in 1..2 : history'[Len(history) + i] = ms[i]
  BY <1>3, <1>4, AddedMany
<1>6. \A p \in (Len(history) + 1)..Len(history') :
        /\ history'[p].turn = t
        /\ ~ Is(history'[p], "tool") /\ ~ Is(history'[p], "calls")
  <2> SUFFICES ASSUME NEW p \in (Len(history) + 1)..Len(history')
               PROVE  history'[p] = User(t) \/ history'[p] = Assistant(t)
    BY DEF User, Assistant, Is
  <2>1. p - Len(history) \in 1..2 /\ Len(history) + (p - Len(history)) = p
    BY <1>5
  <2>2. history'[p] = ms[p - Len(history)]
    BY <1>5, <2>1
  <2>3. QED BY <1>3, <2>1, <2>2
<1>7. TypeOK'
  BY <1>1, <1>4, <1>5 DEF IInv, TypeOK, Extension
<1>8. Adds(r)
  BY <1>4, <1>5, <1>6 DEF Adds, IInv, TypeOK, t
<1>9. Asked(r)' /\ HasCalled(r)'
  BY DEF Asked, HasCalled
<1>10. TurnsBegun' /\ OwnTurns' /\ Requested'
  BY <1>7, <1>8, <1>9, OthersKeep DEF Requested
<1>11. CallsAnswered' /\ ResultsCalled'
  BY <1>6, <1>7, <1>8, ConversationKept
<1>12. QED BY <1>5, <1>7, <1>10, <1>11, SentKept DEF IInv

LEMMA SendQuestionStep ==
  ASSUME IInv, NEW r \in Requests, pc[r] = "idle", turns < MaxTurns,
         turns' = turns + 1, turn' = [turn EXCEPT ![r] = turns + 1],
         history' = Append(history, User(turns + 1)),
         Send(r, turns + 1, history'), pc' = [pc EXCEPT ![r] = "asking"],
         UNCHANGED called
  PROVE  IInv'
<1> DEFINE t == turns + 1
<1>1. t \in Turns /\ t \in 0..MaxTurns /\ turns \in Nat
  BY TurnsAssumption DEF IInv, TypeOK, Turns
<1>2. User(t) \in Messages
  BY <1>1 DEF User, Messages
<1>3. turn'[r] = t /\ turns' = t /\ Send(r, t, history')
  BY DEF IInv, TypeOK
<1>4. /\ Extension(history, history') /\ Len(history) \in Nat
      /\ Len(history') = Len(history) + 1
      /\ history'[Len(history) + 1] = User(t)
  BY <1>2, AddedOne
<1>5. \A p \in (Len(history) + 1)..Len(history') :
        /\ history'[p].turn = t
        /\ ~ Is(history'[p], "tool") /\ ~ Is(history'[p], "calls")
  BY <1>4 DEF User, Is
<1>6. \A p \in 1..Len(history) : history'[p] = history[p] /\ history[p].turn # t
  <2> SUFFICES ASSUME NEW p \in 1..Len(history)
               PROVE  history[p].turn # t
    BY <1>4 DEF Extension
  <2>1. history[p].turn <= turns
    BY DEF IInv, TurnsBegun
  <2>2. QED BY <1>1, <2>1
<1>7. /\ pc' \in [Requests -> Stages] /\ pc'[r] = "asking"
      /\ \A q \in Requests \ {r} : pc'[q] = pc[q]
  BY DEF IInv, TypeOK, Stages
<1>8. TypeOK'
  BY <1>1, <1>3, <1>4, <1>7, SentTyped DEF IInv, TypeOK, Extension
<1>9. Adds(r)
  BY <1>3, <1>4, <1>5, <1>7 DEF Adds, IInv, TypeOK
<1>10. HasCalled(r)'
  BY <1>7 DEF HasCalled
<1>11. Asked(r)'
  <2>1. \A p \in 1..Len(history') : history'[p].turn = t => p = Len(history) + 1
    BY <1>4, <1>6
  <2>2. Len(history) + 1 \in 1..Len(history')
    BY <1>4
  <2>3. QED BY <1>3, <1>4, <2>1, <2>2 DEF Asked, User
<1>12. TurnsBegun' /\ OwnTurns' /\ Requested'
  BY <1>8, <1>9, <1>10, <1>11, OthersKeep DEF Requested
<1>13. CallsAnswered' /\ ResultsCalled'
  BY <1>5, <1>8, <1>9, ConversationKept
<1>14. SentWellFormed'
  BY <1>3, <1>4, <1>7, <1>13, SentSound DEF Extension
<1>15. QuestionSent'
  <2>1. Len(history) + 1 > Len(history') - WindowSize
    BY <1>4, WindowAssumption
  <2>2. Len(history) + 1 \in 1..Len(history')
    BY <1>4
  <2>3. QED BY <1>3, <1>4, <2>1, <2>2, QuestionIn DEF Extension
<1>16. QED BY <1>8, <1>12, <1>13, <1>14, <1>15 DEF IInv

LEMMA ModelAnswersStep ==
  ASSUME IInv, NEW r \in Requests, ModelAnswers(r)
  PROVE  IInv'
<1> DEFINE t == turn[r]
<1>1. /\ pc[r] # "idle" /\ pc[r] # "tools"
      /\ pc' = [pc EXCEPT ![r] = "idle"] /\ history' = Append(history, Assistant(t))
      /\ UNCHANGED <<turns, turn, called, sent>>
  BY DEF ModelAnswers, Finish
<1>2. Assistant(t) \in Messages
  BY <1>1, ActiveTurn
<1>3. /\ Extension(history, history') /\ Len(history) \in Nat
      /\ Len(history') = Len(history) + 1
      /\ history'[Len(history) + 1] = Assistant(t)
  BY <1>1, <1>2, AddedOne
<1>4. \A p \in (Len(history) + 1)..Len(history') :
        /\ history'[p].turn = t
        /\ ~ Is(history'[p], "tool") /\ ~ Is(history'[p], "calls")
  BY <1>3 DEF Assistant, Is
<1>5. /\ pc' \in [Requests -> Stages] /\ pc'[r] = "idle"
      /\ \A q \in Requests \ {r} : pc'[q] = pc[q]
  BY <1>1 DEF IInv, TypeOK, Stages
<1>6. TypeOK'
  BY <1>1, <1>3, <1>5 DEF IInv, TypeOK, Extension
<1>7. Adds(r)
  BY <1>1, <1>3, <1>4, <1>5 DEF Adds, IInv, TypeOK
<1>8. TurnsBegun' /\ OwnTurns' /\ Requested'
  BY <1>5, <1>6, <1>7, OthersKeep DEF Requested, Asked, HasCalled
<1>9. CallsAnswered' /\ ResultsCalled'
  BY <1>1, <1>4, <1>6, <1>7, ConversationKept
<1>10. QED BY <1>1, <1>3, <1>6, <1>8, <1>9, SentKept DEF IInv

LEMMA ModelFailsStep ==
  ASSUME IInv, NEW r \in Requests, ModelFails(r)
  PROVE  IInv'
<1>1. /\ pc[r] # "idle" /\ pc[r] # "tools"
      /\ pc' = [pc EXCEPT ![r] = "idle"]
      /\ UNCHANGED <<history, turns, turn, called, sent>>
  BY DEF ModelFails, Finish
<1>2. Len(history) \in Nat /\ Extension(history, history')
  BY <1>1, LenProperties DEF IInv, TypeOK, Extension
<1>3. /\ pc' \in [Requests -> Stages] /\ pc'[r] = "idle"
      /\ \A q \in Requests \ {r} : pc'[q] = pc[q]
  BY <1>1 DEF IInv, TypeOK, Stages
<1>4. TypeOK'
  BY <1>1, <1>3 DEF IInv, TypeOK
<1>5. \A p \in (Len(history) + 1)..Len(history') : FALSE
  BY <1>1, <1>2
<1>6. Adds(r)
  BY <1>1, <1>2, <1>3, <1>5 DEF Adds, IInv, TypeOK
<1>7. TurnsBegun' /\ OwnTurns' /\ Requested'
  BY <1>3, <1>4, <1>6, OthersKeep DEF Requested, Asked, HasCalled
<1>8. CallsAnswered' /\ ResultsCalled'
  BY <1>1, <1>4, <1>5, <1>6, ConversationKept
<1>9. QED BY <1>1, <1>2, <1>4, <1>7, <1>8, SentKept DEF IInv

LEMMA ModelCallsToolsStep ==
  ASSUME IInv, NEW r \in Requests, ModelCallsTools(r)
  PROVE  IInv'
<1> DEFINE t == turn[r]
<1>1. PICK n \in 1..MaxTools :
        /\ pc[r] = "asking" /\ pc' = [pc EXCEPT ![r] = "tools"]
        /\ history' = Append(history, Calls(t, n))
        /\ called' = [called EXCEPT ![r] = n]
        /\ UNCHANGED <<turns, turn, sent>>
  BY DEF ModelCallsTools
<1>2. Calls(t, n) \in Messages
  BY <1>1, ActiveTurn
<1>3. /\ Extension(history, history') /\ Len(history) \in Nat
      /\ Len(history') = Len(history) + 1
      /\ history'[Len(history) + 1] = Calls(t, n)
  BY <1>1, <1>2, AddedOne
<1>4. \A p \in (Len(history) + 1)..Len(history') :
        history'[p].turn = t /\ ~ Is(history'[p], "tool")
  BY <1>3 DEF Calls, Is
<1>5. /\ pc' \in [Requests -> Stages] /\ pc'[r] = "tools"
      /\ \A q \in Requests \ {r} : pc'[q] = pc[q]
  BY <1>1 DEF IInv, TypeOK, Stages
<1>6. /\ called' \in [Requests -> 0..MaxTools] /\ called'[r] = n
      /\ \A q \in Requests \ {r} : called'[q] = called[q]
  <2>1. n \in 0..MaxTools
    BY ToolsAssumption
  <2>2. QED BY <1>1, <2>1 DEF IInv, TypeOK
<1>7. TypeOK'
  BY <1>1, <1>3, <1>5, <1>6 DEF IInv, TypeOK, Extension
<1>8. Adds(r)
  BY <1>1, <1>3, <1>4, <1>5, <1>6 DEF Adds, TypeOK
<1>9. HasCalled(r)'
  <2> DEFINE j == Len(history) + 1
  <2>1. PICK u \in 1..Len(history) :
          /\ history[u] = User(t)
          /\ \A p \in 1..Len(history) : history[p].turn = t => p = u
    BY <1>1 DEF IInv, Requested, Asked
  <2>2. u \in 1..Len(history') /\ j \in 1..Len(history') /\ u < j
    BY <1>3
  <2>3. history'[u] = User(t) /\ history'[j] = Calls(t, n)
    BY <1>3, <2>1 DEF Extension
  <2>4. ASSUME NEW p \in 1..Len(history'), history'[p].turn = t
        PROVE  p \in {u, j}
    <3>1. CASE p \in 1..Len(history)
      BY <1>3, <2>1, <2>4, <3>1 DEF Extension
    <3>2. CASE p = j
      BY <3>2
    <3>3. QED BY <1>3, <3>1, <3>2
  <2> HIDE DEF j
  <2>5. turn'[r] = t /\ called'[r] = n
    BY <1>1, <1>6
  <2>6. \E v, i \in 1..Len(history') :
          /\ v < i /\ history'[v] = User(turn'[r])
          /\ history'[i] = Calls(turn'[r], called'[r])
          /\ \A p \in 1..Len(history') : history'[p].turn = turn'[r] => p \in {v, i}
    BY <2>2, <2>3, <2>4, <2>5
  <2>7. QED BY <2>5, <2>6 DEF HasCalled, User, Calls
<1>10. TurnsBegun' /\ OwnTurns' /\ Requested'
  BY <1>5, <1>7, <1>8, <1>9, OthersKeep DEF Requested, Asked
<1>11. CallsAnswered' /\ ResultsCalled'
  BY <1>1, <1>4, <1>5, <1>7, <1>8, ConversationKept
<1>12. QED BY <1>1, <1>3, <1>7, <1>10, <1>11, SentKept DEF IInv

LEMMA ResultsMade ==
  ASSUME NEW t \in Turns, NEW n \in 1..MaxTools
  PROVE  /\ Results(t, n) \in Seq(Messages) /\ Len(Results(t, n)) = n
         /\ \A i \in 1..n : /\ Results(t, n)[i].role = "tool"
                            /\ Results(t, n)[i].turn = t /\ Results(t, n)[i].index = i
<1>1. n \in Nat /\ \A i \in 1..n : i \in 1..MaxTools
  BY ToolsAssumption
<1>2. \A i \in 1..n : [role |-> "tool", turn |-> t, index |-> i] \in Messages
  BY <1>1 DEF Messages
<1>3. QED BY <1>1, <1>2 DEF Results

(* The results come right after their calls, unless another turn came      *)
(* between.                                                                *)
LEMMA ToolsReturnStep ==
  ASSUME IInv, NEW r \in Requests, ToolsReturn(r)
  PROVE  IInv'
<1> DEFINE t == turn[r]
           n == called[r]
           ms == Results(t, n)
           last == Len(history)
<1>1. /\ pc[r] = "tools" /\ pc' = [pc EXCEPT ![r] = "concluding"]
      /\ history' = history \o ms /\ Send(r, t, history')
      /\ UNCHANGED <<turns, turn, called>>
  BY DEF ToolsReturn
<1>2. PICK u, j \in 1..last :
        /\ n \in 1..MaxTools /\ u < j
        /\ history[u] = User(t) /\ history[j] = Calls(t, n)
        /\ \A p \in 1..last : history[p].turn = t => p \in {u, j}
  BY <1>1 DEF IInv, Requested, HasCalled
<1>3. t \in Turns /\ t \in 0..MaxTurns
  BY <1>1, ActiveTurn
<1>4. /\ ms \in Seq(Messages) /\ Len(ms) = n
      /\ \A i \in 1..n : ms[i].turn = t /\ ms[i].index = i /\ ms[i].role = "tool"
  BY <1>2, <1>3, ResultsMade
<1> HIDE DEF ms
<1>5. /\ Extension(history, history') /\ last \in Nat /\ n \in Nat \ {0}
      /\ Len(history') = last + n
      /\ \A i \in 1..n : history'[last + i] = ms[i]
  <2>1. n \in Nat \ {0}
    BY <1>2, ToolsAssumption
  <2>2. QED BY <1>1, <1>4, <2>1, AddedMany
<1>6. \A p \in (last + 1)..Len(history') :
        /\ p - last \in 1..n
        /\ history'[p].turn = t /\ history'[p].index = p - last
        /\ history'[p].role = "tool"
  <2> SUFFICES ASSUME NEW p \in (last + 1)..Len(history')
               PROVE  p - last \in 1..n /\ history'[p] = ms[p - last]
    BY <1>4
  <2>1. p - last \in 1..n /\ last + (p - last) = p
    BY <1>5
  <2>2. QED BY <1>5, <2>1
<1>7. \A p \in 1..last : history'[p] = history[p]
  BY <1>5 DEF Extension
<1>8. /\ pc' \in [Requests -> Stages] /\ pc'[r] = "concluding"
      /\ \A q \in Requests \ {r} : pc'[q] = pc[q]
  BY <1>1 DEF IInv, TypeOK, Stages
<1>9. TypeOK'
  BY <1>1, <1>3, <1>5, <1>8, SentTyped DEF IInv, TypeOK, Extension
<1>10. Adds(r)
  <2>1. turn'[r] = t /\ called'[r] \in 0..MaxTools
    BY <1>1, <1>9 DEF TypeOK
  <2>2. \A p \in (Len(history) + 1)..Len(history') : history'[p].turn = turn'[r]
    BY <1>6, <2>1
  <2>3. QED BY <1>1, <1>5, <1>8, <2>1, <2>2 DEF Adds
<1>11. TurnsBegun' /\ OwnTurns' /\ Requested'
  BY <1>8, <1>9, <1>10, OthersKeep DEF Requested, Asked, HasCalled
<1>12. ASSUME Undivided(history', t) PROVE j = last
  <2> SUFFICES ASSUME j < last PROVE FALSE
    BY <1>5
  <2>1. /\ j \in 1..Len(history') /\ j + 1 \in 1..last /\ j + 1 \in 1..Len(history')
        /\ last + 1 \in 1..Len(history') /\ j < j + 1 /\ j + 1 < last + 1
    BY <1>5
  <2>2. history'[j].turn = t /\ history'[last + 1].turn = t
    <3>1. last + 1 \in (last + 1)..Len(history')
      BY <1>5
    <3>2. history'[last + 1].turn = t
      BY <1>6, <3>1
    <3>3. QED BY <1>2, <1>7, <3>2 DEF Calls
  <2>3. history'[j + 1].turn = t
    BY <1>12, <2>1, <2>2 DEF Undivided
  <2>4. j + 1 \in {u, j}
    BY <1>2, <1>7, <2>1, <2>3
  <2>5. QED BY <1>2, <2>1, <2>4
<1>13. CallsAnswered'
  <2> SUFFICES ASSUME NEW p \in 1..Len(history'), Is(history'[p], "calls"),
                      Undivided(history', history'[p].turn)
               PROVE  \/ Answered(history', p)
                      \/ \E q \in Requests :
                           pc'[q] = "tools" /\ turn'[q] = history'[p].turn
    BY DEF CallsAnswered
  <2>1. p \in 1..last
    <3>1. p \notin (last + 1)..Len(history')
      BY <1>6 DEF Is
    <3>2. QED BY <1>5, <3>1
  <2>2. history'[p] = history[p]
    BY <1>7, <2>1
  <2>3. \/ Answered(history', p)
        \/ \E q \in Requests \ {r} : pc'[q] = "tools" /\ turn'[q] = history[p].turn
        \/ t = history[p].turn
    BY <1>1, <1>10, <2>1, <2>2, OldCalls
  <2>4. CASE t = history[p].turn
    <3>1. p = j
      BY <1>2, <2>1, <2>2, <2>4 DEF Is, User
    <3>2. j = last
      BY <1>12, <2>2, <2>4
    <3>3. history'[p].count = n /\ history'[p].turn = t
      BY <1>2, <2>2, <3>1 DEF Calls
    <3>4. \A i \in 1..n : p + i <= Len(history') /\ history'[p + i] = Results(t, n)[i]
      <4>1. \A i \in 1..n : p + i <= Len(history') /\ history'[p + i] = ms[i]
        <5> SUFFICES ASSUME NEW i \in 1..n
                     PROVE  p + i <= Len(history') /\ history'[p + i] = ms[i]
          OBVIOUS
        <5>1. p + i = last + i /\ last + i <= last + n
          BY <1>5, <3>1, <3>2
        <5>2. QED BY <1>5, <5>1
      <4>2. QED BY <4>1 DEF ms
    <3>5. QED BY <3>3, <3>4 DEF Answered
  <2>5. QED BY <2>2, <2>3, <2>4
<1>14. ResultsCalled'
  <2> SUFFICES ASSUME NEW p \in 1..Len(history'), Is(history'[p], "tool"),
                      Undivided(history', history'[p].turn)
               PROVE  Called(history', p)
    BY DEF ResultsCalled, Called
  <2>1. CASE p \in 1..last
    <3>1. history'[p] = history[p]
      BY <1>7, <2>1
    <3>2. QED BY <1>10, <2>1, <3>1, OldResults
  <2>2. CASE p \in (last + 1)..Len(history')
    <3>1. p - last \in 1..n /\ history'[p].turn = t /\ history'[p].index = p - last
      BY <1>6, <2>2
    <3>2. j = last
      BY <1>12, <3>1
    <3>3. p - history'[p].index = j
      BY <1>5, <3>1, <3>2
    <3>4. j \in 1..Len(history') /\ history'[j] = Calls(t, n)
      BY <1>2, <1>5, <1>7
    <3>5. history'[p].index <= n
      BY <1>5, <3>1
    <3>6. QED BY <3>1, <3>3, <3>4, <3>5 DEF Called, Calls, Is
  <2>3. QED BY <1>5, <2>1, <2>2
<1>15. SentWellFormed'
  BY <1>1, <1>5, <1>8, <1>13, <1>14, SentSound DEF Extension
<1>16. ASSUME MaxTools + 2 <= WindowSize PROVE QuestionSent'
  <2>1. CASE ~ sent'.alone
    BY <2>1 DEF QuestionSent
  <2>2. CASE sent'.alone
    <3>1. \A v, w \in 1..Len(history') :
            history'[v] = User(t) /\ v < w => history'[w].turn = t
      <4>1. Alone(r, t, history')
        BY <1>1, <2>2 DEF Send
      <4>2. QED BY <4>1 DEF Alone
    <3>2. u \in 1..Len(history') /\ history'[u] = User(t)
      BY <1>2, <1>5, <1>7
    <3>3. ASSUME NEW p \in 1..last, u < p PROVE p = j
      <4>1. p \in 1..Len(history')
        BY <1>5
      <4>2. history'[p].turn = t
        BY <3>1, <3>2, <3>3, <4>1
      <4>3. QED BY <1>2, <1>7, <3>3, <4>2
    <3>4. u + 1 = j /\ last = j
      <4>1. u + 1 \in 1..last /\ u < u + 1 /\ last \in 1..last /\ u < last
        BY <1>2, <1>5
      <4>2. QED BY <3>3, <4>1
    <3>5. u > Len(history') - WindowSize
      BY <1>2, <1>5, <1>16, <3>4, WindowAssumption, ToolsAssumption
    <3>6. QED BY <1>1, <1>5, <3>2, <3>5, QuestionIn DEF Extension
  <2>3. QED BY <2>1, <2>2
<1>17. QED BY <1>9, <1>11, <1>13, <1>14, <1>15, <1>16 DEF IInv

-----------------------------------------------------------------------------
LEMMA Initial == Init => IInv
<1> SUFFICES ASSUME Init PROVE IInv
  OBVIOUS
<1>1. TypeOK
  BY TurnsAssumption, ToolsAssumption, EmptySeq DEF Init, TypeOK, Stages
<1>2. history = <<>> /\ Len(history) = 0 /\ 1..Len(history) = {}
  BY EmptySeq DEF Init
<1>3. SentWellFormed /\ QuestionSent
  BY DEF Init, SentWellFormed, QuestionSent
<1>4. OwnTurns /\ Requested
  BY DEF Init, OwnTurns, Active, Requested, Asked, HasCalled
<1>5. TurnsBegun /\ CallsAnswered /\ ResultsCalled
  BY <1>2 DEF TurnsBegun, CallsAnswered, ResultsCalled
<1>6. QED BY <1>1, <1>3, <1>4, <1>5 DEF IInv

LEMMA Inductive == IInv /\ [Next]_vars => IInv'
<1> SUFFICES ASSUME IInv, [Next]_vars PROVE IInv'
  OBVIOUS
<1>1. ASSUME NEW r \in Requests, Ask(r) PROVE IInv'
  <2>1. \/ /\ history' = history \o <<User(turns + 1), Assistant(turns + 1)>>
           /\ UNCHANGED <<pc, sent>>
        \/ /\ history' = Append(history, User(turns + 1))
           /\ Send(r, turns + 1, history')
           /\ pc' = [pc EXCEPT ![r] = "asking"]
    BY <1>1 DEF Ask
  <2>2. QED BY <1>1, <2>1, RefuseStep, SendQuestionStep DEF Ask
<1>2. CASE UNCHANGED vars
  <2>1. TypeOK' /\ TurnsBegun' /\ OwnTurns'
    BY <1>2 DEF vars, IInv, TypeOK, TurnsBegun, OwnTurns, Active
  <2>2. Requested'
    BY <1>2 DEF vars, IInv, Requested, Asked, HasCalled, User, Calls
  <2>3. CallsAnswered'
    <3> SUFFICES ASSUME NEW p \in 1..Len(history'), Is(history'[p], "calls"),
                        Undivided(history', history'[p].turn)
                 PROVE  \/ Answered(history', p)
                        \/ \E r \in Requests :
                             pc'[r] = "tools" /\ turn'[r] = history'[p].turn
      BY DEF CallsAnswered
    <3>1. UNCHANGED <<history, pc, turn>> /\ CallsAnswered
      BY <1>2 DEF vars, IInv
    <3>2. QED BY <3>1 DEF CallsAnswered
  <2>4. ResultsCalled'
    BY <1>2 DEF vars, IInv, ResultsCalled, Is, Undivided
  <2>5. Extension(history, history') /\ UNCHANGED sent
    BY <1>2, LenProperties DEF vars, IInv, TypeOK, Extension
  <2>6. QED BY <2>1, <2>2, <2>3, <2>4, <2>5, SentKept DEF IInv
<1>3. QED
  BY <1>1, <1>2, ModelAnswersStep, ModelCallsToolsStep, ToolsReturnStep, ModelFailsStep
  DEF Next

(* Every reachable state satisfies the inductive invariant.                *)
THEOREM Invariance == Spec => []IInv
  BY Initial, Inductive, PTL DEF Spec

(* The variables of the chat agent keep their types.                       *)
THEOREM TypeCorrect == Spec => []TypeOK
<1>1. IInv => TypeOK
  BY DEF IInv
<1>2. QED BY <1>1, Invariance, PTL

(* chat_agent.py:391-466: a turn that has the chat for itself sends calls  *)
(* with their results and results with their calls, and its question,      *)
(* wherever a window that holds a turn with its tools cuts the history.    *)
THEOREM AnswerableSent ==
  ASSUME MaxTools + 2 <= WindowSize
  PROVE  Spec => []SentIsAnswerable
<1>1. IInv => SentIsAnswerable
  BY DEF IInv, SentIsAnswerable
<1>2. QED BY <1>1, Invariance, PTL

(* Without that assumption, what is sent is a conversation all the same.   *)
THEOREM WellFormedSent == Spec => []SentWellFormed
<1>1. IInv => SentWellFormed
  BY DEF IInv
<1>2. QED BY <1>1, Invariance, PTL
=============================================================================
