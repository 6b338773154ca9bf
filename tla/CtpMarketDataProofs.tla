------------------------ MODULE CtpMarketDataProofs ------------------------
(***************************************************************************)
(* Proofs about CtpMarketData, for any set of instruments and any bounds.  *)
(***************************************************************************)
EXTENDS CtpMarketData, TLAPS

Tasks == {<<"login">>, <<"failed">>, <<"down">>} \cup ({"quote"} \X Instruments)

\* Only quotes are queued: no news of the connection is on its way to the event loop.
Current(q) == \A k \in 1 .. Len(q) : q[k][1] = "quote"

\* The last news queued is a login.
LoginLast(q) ==
  \E k \in 1 .. Len(q) : q[k] = <<"login">> /\ \A l \in k + 1 .. Len(q) : q[l][1] = "quote"

\* Once its queue is empty the service believes what is true of the connection.
QueueTellsFront == front = "in" <=> LoginLast(tasks) \/ (logged_in /\ Current(tasks))

\* Logged in with no news queued, everything subscribed is fed, but for the exceptions.
AllSent == logged_in /\ Current(tasks) => subscribed \subseteq feed \cup skipped \cup refused

NothingStray == feed \subseteq subscribed \cup stray

NothingForgotten == subscribed \cup toSubscribe = wanted

FeedInv == TypeOK /\ QueueTellsFront /\ AllSent /\ NothingStray /\ NothingForgotten

----------------------------------------------------------------------------
(* the queue *)

LEMMA TaskKinds ==
  ASSUME NEW t \in Tasks
  PROVE  /\ t[1] \in {"login", "failed", "down", "quote"}
         /\ t[1] = "login" <=> t = <<"login">>
         /\ t[1] = "quote" => t[2] \in Instruments
  BY DEF Tasks

\* News appended to the queue is the last news.
LEMMA AppendNews ==
  ASSUME NEW q \in Seq(Tasks), NEW t \in Tasks, t[1] # "quote"
  PROVE  /\ Append(q, t) \in Seq(Tasks)
         /\ ~Current(Append(q, t))
         /\ LoginLast(Append(q, t)) <=> t = <<"login">>
<1>1. /\ Append(q, t) \in Seq(Tasks) /\ Len(q) \in Nat /\ Len(Append(q, t)) = Len(q) + 1
      /\ Append(q, t)[Len(q) + 1] = t
  OBVIOUS
<1>2. ~Current(Append(q, t))
  BY <1>1 DEF Current
<1>3. ASSUME t = <<"login">> PROVE LoginLast(Append(q, t))
  BY <1>1, <1>3 DEF LoginLast
<1>4. ASSUME LoginLast(Append(q, t)) PROVE t = <<"login">>
  <2>1. PICK k \in 1 .. Len(q) + 1 :
           /\ Append(q, t)[k] = <<"login">>
           /\ \A l \in k + 1 .. Len(q) + 1 : Append(q, t)[l][1] = "quote"
    BY <1>1, <1>4 DEF LoginLast
  <2>2. k = Len(q) + 1
    BY <1>1, <2>1
  <2>3. QED
    BY <1>1, <2>1, <2>2
<1>5. QED
  BY <1>1, <1>2, <1>3, <1>4

\* A quote appended to the queue changes nothing about the news in it.
LEMMA AppendQuote ==
  ASSUME NEW q \in Seq(Tasks), NEW i \in Instruments
  PROVE  /\ Append(q, <<"quote", i>>) \in Seq(Tasks)
         /\ Current(Append(q, <<"quote", i>>)) <=> Current(q)
         /\ LoginLast(Append(q, <<"quote", i>>)) <=> LoginLast(q)
<1> DEFINE t == <<"quote", i>>
           r == Append(q, t)
<1>0. t \in Tasks /\ t[1] = "quote" /\ t # <<"login">>
  BY DEF Tasks
<1> HIDE DEF t
<1>1. /\ r \in Seq(Tasks) /\ Len(q) \in Nat /\ Len(r) = Len(q) + 1
      /\ r[Len(q) + 1] = t /\ \A k \in 1 .. Len(q) : r[k] = q[k]
  BY <1>0
<1> HIDE DEF r
<1>2. \A k \in 1 .. Len(r) : k \in 1 .. Len(q) \/ k = Len(q) + 1
  BY <1>1
<1>3. Current(r) <=> Current(q)
  BY <1>0, <1>1, <1>2 DEF Current
<1>4. ASSUME LoginLast(r) PROVE LoginLast(q)
  <2>1. PICK k \in 1 .. Len(r) : r[k] = <<"login">> /\ \A l \in k + 1 .. Len(r) : r[l][1] = "quote"
    BY <1>4 DEF LoginLast
  <2>2. k \in 1 .. Len(q) /\ q[k] = <<"login">>
    BY <1>0, <1>1, <1>2, <2>1
  <2>3. \A l \in k + 1 .. Len(q) : q[l][1] = "quote"
    BY <1>1, <2>1, <2>2
  <2>4. QED
    BY <2>2, <2>3 DEF LoginLast
<1>5. ASSUME LoginLast(q) PROVE LoginLast(r)
  <2>1. PICK k \in 1 .. Len(q) : q[k] = <<"login">> /\ \A l \in k + 1 .. Len(q) : q[l][1] = "quote"
    BY <1>5 DEF LoginLast
  <2>2. k \in 1 .. Len(r) /\ r[k] = <<"login">>
    BY <1>1, <2>1
  <2>3. \A l \in k + 1 .. Len(r) : r[l][1] = "quote"
    BY <1>0, <1>1, <1>2, <2>1
  <2>4. QED
    BY <2>2, <2>3 DEF LoginLast
<1>6. QED
  BY <1>1, <1>3, <1>4, <1>5 DEF t, r

\* What the first task says matters only when no news follows it.
LEMMA TailNews ==
  ASSUME NEW q \in Seq(Tasks), q # << >>
  PROVE  /\ Head(q) \in Tasks /\ Tail(q) \in Seq(Tasks)
         /\ Head(q)[1] = "quote" => /\ Current(q) <=> Current(Tail(q))
                                    /\ LoginLast(q) <=> LoginLast(Tail(q))
         /\ Head(q)[1] # "quote" => ~Current(q)
         /\ Head(q)[1] = "login" => (LoginLast(q) <=> LoginLast(Tail(q)) \/ Current(Tail(q)))
         /\ Head(q)[1] \in {"failed", "down"} => (LoginLast(q) <=> LoginLast(Tail(q)))
<1> DEFINE r == Tail(q)
<1>1. /\ Len(q) \in Nat \ {0} /\ Head(q) = q[1] /\ q[1] \in Tasks
      /\ r \in Seq(Tasks) /\ Len(r) = Len(q) - 1 /\ \A k \in 1 .. Len(r) : r[k] = q[k + 1]
  OBVIOUS
<1> HIDE DEF r
<1>2. \A k \in 1 .. Len(q) : k = 1 \/ (k - 1 \in 1 .. Len(r) /\ q[k] = r[k - 1])
  BY <1>1
<1>3. Current(q) <=> q[1][1] = "quote" /\ Current(r)
  <2>1. ASSUME Current(q) PROVE q[1][1] = "quote" /\ Current(r)
    BY <1>1, <2>1 DEF Current
  <2>2. ASSUME q[1][1] = "quote", Current(r) PROVE Current(q)
    BY <1>1, <1>2, <2>2 DEF Current
  <2>3. QED
    BY <2>1, <2>2
<1>4. LoginLast(r) => LoginLast(q)
  <2> SUFFICES ASSUME LoginLast(r) PROVE LoginLast(q)
    OBVIOUS
  <2>1. PICK k \in 1 .. Len(r) : r[k] = <<"login">> /\ \A l \in k + 1 .. Len(r) : r[l][1] = "quote"
    BY DEF LoginLast
  <2>2. k + 1 \in 1 .. Len(q) /\ q[k + 1] = <<"login">>
    BY <1>1, <2>1
  <2>3. \A l \in (k + 1) + 1 .. Len(q) : l - 1 \in k + 1 .. Len(r) /\ q[l] = r[l - 1]
    BY <1>1, <1>2
  <2>4. QED
    BY <2>1, <2>2, <2>3 DEF LoginLast
<1>5. LoginLast(q) => LoginLast(r) \/ (q[1] = <<"login">> /\ Current(r))
  <2> SUFFICES ASSUME LoginLast(q) PROVE LoginLast(r) \/ (q[1] = <<"login">> /\ Current(r))
    OBVIOUS
  <2>1. PICK k \in 1 .. Len(q) : q[k] = <<"login">> /\ \A l \in k + 1 .. Len(q) : q[l][1] = "quote"
    BY DEF LoginLast
  <2>2. CASE k = 1
    <3>1. \A l \in 1 .. Len(r) : r[l][1] = "quote"
      BY <1>1, <2>1, <2>2
    <3>2. QED
      BY <2>1, <2>2, <3>1 DEF Current
  <2>3. CASE k # 1
    <3>1. k - 1 \in 1 .. Len(r) /\ r[k - 1] = <<"login">>
      BY <1>1, <1>2, <2>1, <2>3
    <3>2. \A l \in (k - 1) + 1 .. Len(r) : r[l][1] = "quote"
      BY <1>1, <2>1, <2>3
    <3>3. QED
      BY <3>1, <3>2 DEF LoginLast
  <2>4. QED
    BY <2>2, <2>3
<1>6. q[1] = <<"login">> /\ Current(r) => LoginLast(q)
  <2> SUFFICES ASSUME q[1] = <<"login">>, Current(r) PROVE LoginLast(q)
    OBVIOUS
  <2>1. \A l \in 1 + 1 .. Len(q) : l - 1 \in 1 .. Len(r) /\ q[l] = r[l - 1]
    BY <1>1, <1>2
  <2>2. 1 \in 1 .. Len(q)
    BY <1>1
  <2>3. QED
    BY <2>1, <2>2 DEF LoginLast, Current
<1>7. QED
  BY <1>1, <1>3, <1>4, <1>5, <1>6, TaskKinds DEF r

----------------------------------------------------------------------------
(* steps *)

LEMMA FeedInit == Init => FeedInv
  BY DEF Init, FeedInv, TypeOK, States, QueueTellsFront, AllSent, NothingStray, NothingForgotten,
         Current, LoginLast

\* The connection comes up: neither the queue nor what the service believes changes.
LEMMA ConnectedStep == ASSUME FeedInv, OnFrontConnected PROVE FeedInv'
<1> USE DEF FeedInv
<1>1. /\ front = "down" /\ front' \in {"asked", "up"}
      /\ UNCHANGED <<toSubscribe, subscribed, pending, logged_in, state, tasks, feed, out,
                     commands, drops, quotes, history>>
  BY DEF OnFrontConnected
<1>2. TypeOK'
  BY <1>1 DEF TypeOK
<1>3. QueueTellsFront'
  BY <1>1 DEF QueueTellsFront
<1>4. AllSent' /\ NothingStray' /\ NothingForgotten'
  BY <1>1 DEF AllSent, NothingStray, NothingForgotten, history
<1>5. QED
  BY <1>2, <1>3, <1>4

LEMMA TasksType == TypeOK <=> /\ tasks \in Seq(Tasks)
                              /\ toSubscribe \subseteq Instruments /\ subscribed \subseteq Instruments
                              /\ pending \subseteq subscribed
                              /\ logged_in => pending = {}
                              /\ state \in States /\ (logged_in <=> state = "Ready")
                              /\ front \in {"down", "up", "asked", "in"}
                              /\ feed \subseteq Instruments /\ (front # "in" => feed = {})
                              /\ out \in Seq(Instruments)
  BY DEF TypeOK, Tasks

LEMMA DisconnectedStep == ASSUME FeedInv, OnFrontDisconnected PROVE FeedInv'
<1> USE DEF FeedInv
<1> DEFINE t == <<"down">>
<1>1. /\ front' = "down" /\ feed' = {} /\ stray' = {} /\ tasks' = Append(tasks, t)
      /\ UNCHANGED <<toSubscribe, subscribed, pending, logged_in, state, out, wanted, skipped, refused>>
  BY DEF OnFrontDisconnected
<1>2. tasks \in Seq(Tasks) /\ t \in Tasks /\ t[1] # "quote" /\ t # <<"login">>
  BY TasksType DEF Tasks
<1> HIDE DEF t
<1>3. tasks' \in Seq(Tasks) /\ ~Current(tasks') /\ ~LoginLast(tasks')
  BY <1>1, <1>2, AppendNews
<1>4. TypeOK'
  BY <1>1, <1>3, TasksType DEF TypeOK, Tasks
<1>5. QueueTellsFront' /\ AllSent'
  BY <1>1, <1>3 DEF QueueTellsFront, AllSent
<1>6. NothingStray' /\ NothingForgotten'
  BY <1>1 DEF NothingStray, NothingForgotten
<1>7. QED
  BY <1>4, <1>5, <1>6

LEMMA LoginStep == ASSUME FeedInv, OnRspUserLogin PROVE FeedInv'
<1> USE DEF FeedInv
<1>1. /\ front = "asked"
      /\ UNCHANGED <<toSubscribe, subscribed, pending, logged_in, state, feed, out, wanted, skipped,
                     refused, stray>>
  BY DEF OnRspUserLogin, history
<1>2. tasks \in Seq(Tasks) /\ <<"login">> \in Tasks /\ <<"failed">> \in Tasks
  BY TasksType DEF Tasks
<1>3. /\ tasks' \in Seq(Tasks)
      /\ \/ front' = "in" /\ ~Current(tasks') /\ LoginLast(tasks')
         \/ front' = "up" /\ ~Current(tasks') /\ ~LoginLast(tasks')
         \/ front' = "up" /\ tasks' = tasks
  <2>1. CASE front' = "in" /\ tasks' = Append(tasks, <<"login">>)
    BY <1>2, <2>1, AppendNews
  <2>2. CASE front' = "up" /\ tasks' = Append(tasks, <<"failed">>)
    <3>1. <<"failed">>[1] # "quote" /\ <<"failed">> # <<"login">>
      OBVIOUS
    <3>2. QED
      BY <1>2, <2>2, <3>1, AppendNews
  <2>3. CASE front' = "up" /\ tasks' = tasks
    BY <1>2, <2>3
  <2>4. QED
    BY <2>1, <2>2, <2>3 DEF OnRspUserLogin
<1>4. TypeOK'
  BY <1>1, <1>3 DEF TypeOK, Tasks
<1>5. QueueTellsFront' /\ AllSent'
  BY <1>1, <1>3 DEF QueueTellsFront, AllSent
<1>6. NothingStray' /\ NothingForgotten'
  BY <1>1 DEF NothingStray, NothingForgotten
<1>7. QED
  BY <1>4, <1>5, <1>6

LEMMA QuoteStep == ASSUME FeedInv, NEW i \in Instruments, OnRtnDepthMarketData(i) PROVE FeedInv'
<1> USE DEF FeedInv
<1>1. /\ tasks' = Append(tasks, <<"quote", i>>)
      /\ UNCHANGED <<toSubscribe, subscribed, pending, logged_in, state, front, feed, out, wanted,
                     skipped, refused, stray>>
  BY DEF OnRtnDepthMarketData, history
<1>2. /\ tasks' \in Seq(Tasks)
      /\ Current(tasks') <=> Current(tasks)
      /\ LoginLast(tasks') <=> LoginLast(tasks)
  BY <1>1, TasksType, AppendQuote
<1>3. TypeOK'
  BY <1>1, <1>2 DEF TypeOK, Tasks
<1>4. QueueTellsFront' /\ AllSent' /\ NothingStray' /\ NothingForgotten'
  BY <1>1, <1>2 DEF QueueTellsFront, AllSent, NothingStray, NothingForgotten
<1>5. QED
  BY <1>3, <1>4

LEMMA AddKeyStep == ASSUME FeedInv, NEW i \in Instruments, AddKey(i) PROVE FeedInv'
  BY DEF FeedInv, AddKey, TypeOK, QueueTellsFront, AllSent, NothingStray, NothingForgotten

LEMMA UnsubscribeStep == ASSUME FeedInv, NEW i \in Instruments, Unsubscribe(i) PROVE FeedInv'
<1> USE DEF FeedInv
<1>1. /\ toSubscribe' = toSubscribe \ {i} /\ subscribed' = subscribed \ {i} /\ pending' = pending \ {i}
      /\ wanted' = wanted \ {i} /\ skipped' = skipped \ {i} /\ refused' = refused \ {i}
      /\ UNCHANGED <<logged_in, state, tasks, front, out>>
  BY DEF Unsubscribe, LaterWithout, QueuedWithout
<1>2. \/ feed' = feed \ {i} /\ stray' = stray
      \/ feed' = feed /\ stray' = stray \cup (feed \cap {i})
  BY DEF Unsubscribe
<1>3. TypeOK'
  BY <1>1, <1>2 DEF TypeOK
<1>4. QueueTellsFront' /\ AllSent'
  BY <1>1, <1>2 DEF QueueTellsFront, AllSent
<1>5. NothingStray' /\ NothingForgotten'
  BY <1>1, <1>2 DEF NothingStray, NothingForgotten
<1>6. QED
  BY <1>3, <1>4, <1>5

\* Nobody believes in a connection that is gone without news of it in the queue.
LEMMA TrySubscribeStep == ASSUME FeedInv, TrySubscribe PROVE FeedInv'
<1> USE DEF FeedInv
<1> DEFINE S == toSubscribe \ subscribed
<1>1. /\ toSubscribe' = {} /\ subscribed' = subscribed \cup toSubscribe
      /\ UNCHANGED <<logged_in, state, tasks, front, out, wanted, skipped, stray>>
  BY DEF TrySubscribe
<1>2. \/ S = {} /\ UNCHANGED <<pending, feed, refused>>
      \/ ~logged_in /\ pending' = pending \cup S /\ UNCHANGED <<feed, refused>>
      \/ logged_in /\ pending' = pending /\ front = "in" /\ feed' = feed \cup S /\ refused' = refused \ S
      \/ logged_in /\ pending' = pending /\ front # "in" /\ UNCHANGED <<feed, refused>>
      \/ logged_in /\ pending' = pending /\ front = "in" /\ feed' = feed /\ refused' = refused \cup S
  BY DEF TrySubscribe, do_subscribe, Fresh
<1>3. TypeOK'
  BY <1>1, <1>2 DEF TypeOK
<1>4. QueueTellsFront'
  BY <1>1 DEF QueueTellsFront
<1>5. AllSent'
  BY <1>1, <1>2 DEF AllSent, QueueTellsFront
<1>6. NothingStray' /\ NothingForgotten'
  BY <1>1, <1>2 DEF NothingStray, NothingForgotten
<1>7. QED
  BY <1>3, <1>4, <1>5, <1>6

LEMMA DrainStep == ASSUME FeedInv, Drain PROVE FeedInv'
<1> USE DEF FeedInv
<1> DEFINE t == Head(tasks)
<1>1. /\ tasks # << >> /\ tasks \in Seq(Tasks) /\ tasks' = Tail(tasks)
      /\ UNCHANGED <<toSubscribe, subscribed, front, wanted, stray>>
  BY TasksType DEF Drain
<1>2. /\ t \in Tasks /\ tasks' \in Seq(Tasks)
      /\ t[1] = "quote" => /\ Current(tasks) <=> Current(tasks')
                           /\ LoginLast(tasks) <=> LoginLast(tasks')
      /\ t[1] # "quote" => ~Current(tasks)
      /\ t[1] = "login" => (LoginLast(tasks) <=> LoginLast(tasks') \/ Current(tasks'))
      /\ t[1] \in {"failed", "down"} => (LoginLast(tasks) <=> LoginLast(tasks'))
  BY <1>1, TailNews
<1>3. CASE t[1] = "quote"
  <2>1. out' = Append(out, t[2]) /\ UNCHANGED <<logged_in, state, pending, feed, skipped, refused>>
    BY <1>3 DEF Drain
  <2>2. t[2] \in Instruments
    BY <1>2, <1>3, TaskKinds
  <2>3. TypeOK'
    BY <1>1, <1>2, <2>1, <2>2 DEF TypeOK, Tasks
  <2>4. QueueTellsFront' /\ AllSent' /\ NothingStray' /\ NothingForgotten'
    BY <1>1, <1>2, <1>3, <2>1 DEF QueueTellsFront, AllSent, NothingStray, NothingForgotten
  <2>5. QED
    BY <2>3, <2>4
<1>4. CASE t[1] \in {"failed", "down"}
  <2>1. /\ logged_in' = FALSE /\ state' \in {"LoginFailed", "DisConnected"}
        /\ UNCHANGED <<pending, feed, out, skipped, refused>>
    BY <1>4 DEF Drain, Logout
  <2>2. TypeOK'
    BY <1>1, <1>2, <2>1 DEF TypeOK, Tasks, States
  <2>3. QueueTellsFront' /\ AllSent' /\ NothingStray' /\ NothingForgotten'
    BY <1>1, <1>2, <1>4, <2>1 DEF QueueTellsFront, AllSent, NothingStray, NothingForgotten
  <2>4. QED
    BY <2>2, <2>3
<1>5. CASE t[1] = "login"
  <2>1. /\ logged_in' = TRUE /\ state' = "Ready" /\ pending' = {} /\ out' = out
        /\ skipped' = IF pending # {} THEN (skipped \cup subscribed) \ pending ELSE {}
    BY <1>5 DEF Drain, Login
  <2>2. \/ ToSend = {} /\ UNCHANGED <<feed, refused>>
        \/ front = "in" /\ feed' = feed \cup ToSend /\ refused' = refused \ ToSend
        \/ front # "in" /\ UNCHANGED <<feed, refused>>
        \/ front = "in" /\ feed' = feed /\ refused' = refused \cup ToSend
    BY <1>5 DEF Drain, Login, do_subscribe
  <2>3. ToSend \subseteq subscribed
    BY DEF ToSend, TypeOK
  <2>4. TypeOK'
    BY <1>1, <1>2, <2>1, <2>2, <2>3 DEF TypeOK, Tasks, States
  <2>5. QueueTellsFront'
    BY <1>1, <1>2, <1>5, <2>1 DEF QueueTellsFront
  <2>6. AllSent'
    <3> SUFFICES ASSUME Current(tasks') PROVE subscribed \subseteq feed' \cup skipped' \cup refused'
      BY <1>1, <2>1 DEF AllSent
    <3>1. front = "in"
      BY <1>2, <1>5 DEF QueueTellsFront
    <3>2. subscribed \subseteq ToSend \cup skipped'
      BY <2>1 DEF ToSend
    <3>3. QED
      BY <2>2, <3>1, <3>2
  <2>7. NothingStray' /\ NothingForgotten'
    BY <1>1, <2>2, <2>3 DEF NothingStray, NothingForgotten
  <2>8. QED
    BY <2>4, <2>5, <2>6, <2>7
<1>6. QED
  BY <1>2, <1>3, <1>4, <1>5, TaskKinds

LEMMA FeedStep == FeedInv /\ [Next]_vars => FeedInv'
<1> SUFFICES ASSUME FeedInv, [Next]_vars PROVE FeedInv'
  OBVIOUS
<1>1. CASE UNCHANGED vars
  BY <1>1 DEF vars, history, FeedInv, TypeOK, QueueTellsFront, AllSent, NothingStray, NothingForgotten,
              Current, LoginLast
<1>2. QED
  BY <1>1, ConnectedStep, DisconnectedStep, LoginStep, QuoteStep, AddKeyStep, UnsubscribeStep,
     TrySubscribeStep, DrainStep DEF Next

LEMMA FeedInvariant == Spec => []FeedInv
  BY FeedInit, FeedStep, PTL DEF Spec

\* The service's state keeps its types: in particular nothing is queued for a login that
\* subscribe() was not asked for, nor while the service is logged in (MarketDataCtp).
THEOREM MarketDataTypes == Spec => []TypeOK
  BY FeedInvariant, PTL DEF FeedInv

\* Once its queue of callbacks is empty the service knows whether it is logged in, and
\* the front then feeds what clients want, for any number of instruments, commands,
\* reconnects and refusals, with the exceptions that FrontFollows names.
THEOREM FrontFed == Spec => []FrontFollows
<1>1. FeedInv => FrontFollows
  <2> SUFFICES ASSUME FeedInv, logged_in, tasks = << >>
               PROVE  /\ front = "in"
                      /\ subscribed \ feed \subseteq skipped \cup refused
                      /\ feed \ subscribed \subseteq stray
                      /\ subscribed \cup toSubscribe = wanted
    BY DEF FrontFollows
  <2>1. Current(tasks)
    BY DEF Current
  <2>2. QED
    BY <2>1 DEF FeedInv, QueueTellsFront, AllSent, NothingStray, NothingForgotten
<1>2. QED
  BY <1>1, FeedInvariant, PTL
=============================================================================
