--------------------------- MODULE GatewayProofs ---------------------------
(***************************************************************************)
(* Proofs about Gateway, for any sets of clients, instruments, services,   *)
(* traders and strategies, and for any scenarios.                          *)
(***************************************************************************)
EXTENDS Gateway, FiniteSetTheorems, TLAPS

Session == [keys : SUBSET Keys, mds : SUBSET (MDs \X Keys), watch : SUBSET Strategies]

States == {"Ready", "DisConnected", "Idle"}

Frames == Procs \X ({"Register", "Deregister"} \cup States)

ThreadTypes ==
  /\ conn \in [Clients -> {"new", "open", "closed"}]
  /\ requests \in Seq(Clients \X Requests) /\ closing \in Seq(Clients)

SessionTypes ==
  /\ DOMAIN sessions \subseteq Clients
  /\ \A s \in DOMAIN sessions : sessions[s] \in Session

SourceTypes == replay \subseteq Keys /\ DOMAIN source \subseteq Keys /\ exchange \in MDs \cup {None}

MonitorTypes ==
  live \subseteq TDs /\ joined \subseteq TDs \X Strategies /\ late \subseteq TDs \X Strategies

NewsTypes ==
  /\ news \in Seq(Frames) /\ inbox \in Seq(Frames)
  /\ IsFiniteSet(DOMAIN states) /\ DOMAIN states \subseteq Procs
  /\ \A m \in DOMAIN states : states[m] \in States

ServiceTypes ==
  /\ md \in [Procs -> [up : BOOLEAN, ready : BOOLEAN, told : BOOLEAN, reads : BOOLEAN]]
  /\ bound \in Scenarios

Types ==
  /\ ThreadTypes /\ SessionTypes /\ SourceTypes /\ MonitorTypes /\ NewsTypes /\ ServiceTypes
  /\ linked \subseteq writers

\* A session, and a request, comes from a connection that was accepted.
Arrived ==
  /\ \A s \in DOMAIN sessions : conn[s] # "new"
  /\ \A i \in 1 .. Len(requests) : conn[requests[i][1]] # "new"

\* Only connections that have ended are queued for the clean-up.
Gone == \A i \in 1 .. Len(closing) : conn[closing[i]] = "closed"

\* Orders are numbered from 1, so that the next number is new.
Numbered ==
  /\ Cardinality(DOMAIN orders) \in Nat /\ DOMAIN orders = 1 .. Cardinality(DOMAIN orders)
  /\ \A o \in DOMAIN orders : orders[o] \in Clients

\* The routing table holds the orders of every connection that has not ended, and never
\* gives an order to another session.
Routed ==
  /\ \A o \in DOMAIN manual : o \in DOMAIN orders /\ manual[o] = orders[o]
  /\ \A o \in DOMAIN orders : conn[orders[o]] # "closed" => o \in DOMAIN manual

GatewayInv == Types /\ Arrived /\ Gone /\ Numbered /\ Routed /\ WatchedJoined

\* What a request of session s keeps.
Handled(s) ==
  /\ SessionTypes' /\ SourceTypes' /\ MonitorTypes' /\ WatchedJoined' /\ Numbered' /\ Routed'
  /\ DOMAIN sessions' \subseteq DOMAIN sessions \cup {s}
  /\ UNCHANGED <<writers, linked>>

----------------------------------------------------------------------------
(* helpers *)

LEMMA WithFacts ==
  ASSUME NEW f, NEW k, NEW v
  PROVE  /\ DOMAIN With(f, k, v) = {k} \cup DOMAIN f
         /\ With(f, k, v)[k] = v
         /\ \A x \in DOMAIN f \ {k} : With(f, k, v)[x] = f[x]
  BY DEF With

LEMMA WithoutFacts ==
  ASSUME NEW f, NEW S
  PROVE  /\ DOMAIN Without(f, S) = DOMAIN f \ S
         /\ \A x \in DOMAIN f \ S : Without(f, S)[x] = f[x]
  BY DEF Without

LEMMA RequestKinds ==
  ASSUME NEW r \in Requests
  PROVE  /\ r.method \in {"request_market_data", "cancel_market_data", "subscribe_strategy",
                          "unsubscribe_strategy", "issue_order"}
         /\ r.method \in {"request_market_data", "cancel_market_data"} => r.from \in MDs /\ r.key \in Keys
         /\ r.method \in {"subscribe_strategy", "unsubscribe_strategy"} => r.strategy \in Strategies
         /\ r.method = "issue_order" => r.account \in TDs
  BY DEF Requests

LEMMA SequenceOfSet ==
  ASSUME NEW S, IsFiniteSet(S)
  PROVE  /\ SetToSeq(S) \in Seq(S)
         /\ \A e \in S : \E i \in 1 .. Len(SetToSeq(S)) : SetToSeq(S)[i] = e
         /\ \A i, j \in 1 .. Len(SetToSeq(S)) : SetToSeq(S)[i] = SetToSeq(S)[j] => i = j
<1> DEFINE n == Cardinality(S)
<1>1. n \in Nat /\ ExistsBijection(1 .. n, S)
  BY FS_CardinalityType
<1>2. PICK f : f \in Bijection(1 .. n, S)
  BY <1>1 DEF ExistsBijection
<1>3. f \in [1 .. n -> S] /\ IsInjective(f)
  BY <1>2 DEF Bijection, Injection
<1>4. SetToSeq(S) \in [1 .. n -> S] /\ IsInjective(SetToSeq(S))
  BY <1>3 DEF SetToSeq
<1>5. \A g \in [1 .. n -> S] : g \in Seq(S) /\ Len(g) = n
  BY <1>1
<1>6. SetToSeq(S) \in Surjection(1 .. n, S)
  <2>1. SetToSeq(S) \in Injection(1 .. n, S)
    BY <1>4 DEF Injection
  <2>2. Cardinality(1 .. n) = Cardinality(S)
    BY <1>1, FS_Interval
  <2>3. QED
    BY <2>1, <2>2, FS_Injection
<1>7. QED
  BY <1>4, <1>5, <1>6 DEF Surjection, IsInjective

LEMMA SessionKeys ==
  ASSUME NEW rec \in Session, NEW S \in SUBSET Keys, NEW P \in SUBSET (MDs \X Keys)
  PROVE  /\ [rec EXCEPT !.keys = S, !.mds = P] \in Session
         /\ [rec EXCEPT !.keys = S, !.mds = P].watch = rec.watch
  BY DEF Session

LEMMA SessionWatch ==
  ASSUME NEW rec \in Session, NEW W \in SUBSET Strategies
  PROVE  /\ [rec EXCEPT !.watch = W] \in Session
         /\ [rec EXCEPT !.watch = W].watch = W
  BY DEF Session

LEMMA SessionFields ==
  ASSUME NEW rec \in Session
  PROVE  rec.keys \subseteq Keys /\ rec.mds \subseteq MDs \X Keys /\ rec.watch \subseteq Strategies
  BY DEF Session

LEMMA AbsentSession == Absent \in Session /\ Absent.watch = {}
  BY DEF Absent, Session

LEMMA HeadTail ==
  ASSUME NEW S, NEW q \in Seq(S), q # << >>
  PROVE  /\ Head(q) \in S /\ Tail(q) \in Seq(S)
         /\ Head(q) = q[1] /\ 1 \in 1 .. Len(q)
         /\ \A i \in 1 .. Len(Tail(q)) : i + 1 \in 1 .. Len(q) /\ Tail(q)[i] = q[i + 1]
  OBVIOUS

LEMMA AppendOne ==
  ASSUME NEW S, NEW q \in Seq(S), NEW e \in S
  PROVE  /\ Append(q, e) \in Seq(S)
         /\ \A i \in 1 .. Len(Append(q, e)) :
              (i \in 1 .. Len(q) /\ Append(q, e)[i] = q[i]) \/ Append(q, e)[i] = e
  OBVIOUS

----------------------------------------------------------------------------
(* what a step leaves alone *)

LEMMA SessionsKept ==
  ASSUME GatewayInv, UNCHANGED <<threads, api>>
  PROVE  /\ ThreadTypes' /\ SessionTypes' /\ Arrived' /\ Gone' /\ Numbered' /\ Routed'
  BY DEF GatewayInv, Types, ThreadTypes, SessionTypes, Arrived, Gone, Numbered, Routed, threads, api

LEMMA MonitorKept ==
  ASSUME GatewayInv, UNCHANGED <<sessions, monitor>>
  PROVE  MonitorTypes' /\ WatchedJoined'
  BY DEF GatewayInv, Types, MonitorTypes, WatchedJoined, monitor

LEMMA ClientKept ==
  ASSUME GatewayInv, UNCHANGED client
  PROVE  SourceTypes' /\ linked' \subseteq writers'
  BY DEF GatewayInv, Types, SourceTypes, client

LEMMA NewsKept ==
  ASSUME GatewayInv, UNCHANGED <<news, ledger>>
  PROVE  NewsTypes'
  BY DEF GatewayInv, Types, NewsTypes, ledger

LEMMA ServicesKept ==
  ASSUME GatewayInv, UNCHANGED <<md, bound>>
  PROVE  ServiceTypes'
  BY DEF GatewayInv, Types, ServiceTypes

----------------------------------------------------------------------------
(* socket threads *)

LEMMA AcceptStep ==
  ASSUME GatewayInv, NEW s \in Clients, Accept(s)
  PROVE  GatewayInv'
<1> USE DEF GatewayInv, Types
<1>1. /\ conn[s] = "new" /\ conn' = [conn EXCEPT ![s] = "open"] /\ sessions' = With(sessions, s, Absent)
      /\ UNCHANGED <<requests, closing, manual, orders, client, monitor, news, ledger, md, bound>>
  BY DEF Accept, services, hist
<1>2. s \notin DOMAIN sessions
  BY <1>1 DEF Arrived
<1>3. /\ DOMAIN sessions' = DOMAIN sessions \cup {s} /\ sessions'[s] = Absent
      /\ \A x \in DOMAIN sessions : sessions'[x] = sessions[x]
  BY <1>1, <1>2 DEF With
<1>4. conn'[s] = "open" /\ \A x \in Clients \ {s} : conn'[x] = conn[x]
  BY <1>1 DEF ThreadTypes
<1>5. ThreadTypes'
  BY <1>1 DEF ThreadTypes
<1>6. SessionTypes'
  BY <1>3, AbsentSession DEF SessionTypes
<1>7. Arrived'
  <2>1. \A x \in DOMAIN sessions' : conn'[x] # "new"
    BY <1>3, <1>4 DEF Arrived, SessionTypes
  <2>2. \A i \in 1 .. Len(requests) : requests[i][1] \in Clients
    BY DEF ThreadTypes
  <2>3. QED
    BY <1>1, <1>4, <2>1, <2>2 DEF Arrived
<1>8. Gone'
  <2>1. \A i \in 1 .. Len(closing) : closing[i] \in Clients
    BY DEF ThreadTypes
  <2>2. QED
    BY <1>1, <1>4, <2>1 DEF Gone
<1>9. Numbered' /\ Routed'
  BY <1>1, <1>4 DEF Numbered, Routed
<1>10. WatchedJoined' /\ MonitorTypes'
  BY <1>1, <1>3, AbsentSession DEF WatchedJoined, MonitorTypes, monitor
<1>11. QED
  BY <1>1, <1>5, <1>6, <1>7, <1>8, <1>9, <1>10, ClientKept, NewsKept, ServicesKept

LEMMA ReceiveStep ==
  ASSUME GatewayInv, NEW s \in Clients, Receive(s)
  PROVE  GatewayInv'
<1> USE DEF GatewayInv, Types
<1>1. /\ conn[s] = "open" /\ \E r \in Requests : requests' = Append(requests, <<s, r>>)
      /\ UNCHANGED <<conn, closing, api, client, monitor, news, ledger, md, bound>>
  BY DEF Receive, Asks, services, hist
<1>2. PICK r \in Requests : requests' = Append(requests, <<s, r>>)
  BY <1>1
<1>3. <<s, r>> \in Clients \X Requests
  OBVIOUS
<1>4. ThreadTypes' /\ Arrived'
  BY <1>1, <1>2, <1>3, AppendOne DEF ThreadTypes, Arrived, api
<1>5. SessionTypes' /\ Gone' /\ Numbered' /\ Routed'
  BY <1>1 DEF SessionTypes, Gone, Numbered, Routed, api
<1>6. WatchedJoined' /\ MonitorTypes'
  BY <1>1, MonitorKept DEF api
<1>7. QED
  BY <1>1, <1>4, <1>5, <1>6, ClientKept, NewsKept, ServicesKept

LEMMA CloseStep ==
  ASSUME GatewayInv, NEW s \in Clients, Close(s)
  PROVE  GatewayInv'
<1> USE DEF GatewayInv, Types
<1>1. /\ conn[s] = "open" /\ conn' = [conn EXCEPT ![s] = "closed"] /\ closing' = Append(closing, s)
      /\ UNCHANGED <<requests, api, client, monitor, news, ledger, md, bound>>
  BY DEF Close, services, hist
<1>2. conn'[s] = "closed" /\ \A x \in Clients \ {s} : conn'[x] = conn[x]
  BY <1>1 DEF ThreadTypes
<1>3. ThreadTypes'
  BY <1>1 DEF ThreadTypes
<1>4. Arrived'
  <2>1. \A i \in 1 .. Len(requests) : requests[i][1] \in Clients
    BY DEF ThreadTypes
  <2>2. QED
    BY <1>1, <1>2, <2>1 DEF Arrived, SessionTypes, api
<1>5. Gone'
  <2>1. \A i \in 1 .. Len(closing) : closing[i] \in Clients
    BY DEF ThreadTypes
  <2>2. QED
    BY <1>1, <1>2, <2>1, AppendOne DEF ThreadTypes, Gone
<1>6. SessionTypes' /\ Numbered' /\ Routed'
  BY <1>1, <1>2 DEF SessionTypes, Numbered, Routed, api
<1>7. WatchedJoined' /\ MonitorTypes'
  BY <1>1, MonitorKept DEF api
<1>8. QED
  BY <1>1, <1>3, <1>4, <1>5, <1>6, <1>7, ClientKept, NewsKept, ServicesKept

----------------------------------------------------------------------------
(* sessions *)

LEMMA AtType ==
  ASSUME SessionTypes, NEW s
  PROVE  At(s) \in Session
  BY AbsentSession DEF At, SessionTypes

\* An entry of sessions_ is made or replaced.
LEMMA PutSession ==
  ASSUME SessionTypes, NEW s \in Clients, NEW rec \in Session, sessions' = With(sessions, s, rec)
  PROVE  /\ SessionTypes' /\ DOMAIN sessions' = DOMAIN sessions \cup {s} /\ sessions'[s] = rec
         /\ \A x \in DOMAIN sessions \ {s} : sessions'[x] = sessions[x]
  BY DEF SessionTypes, With

\* A step that changes what s asks for and not what it watches.
LEMMA KeysOnly ==
  ASSUME GatewayInv, NEW s \in Clients, NEW rec \in Session, rec.watch = At(s).watch,
         sessions' = With(sessions, s, rec), UNCHANGED monitor
  PROVE  WatchedJoined' /\ MonitorTypes'
<1> USE DEF GatewayInv, Types
<1>1. /\ SessionTypes' /\ DOMAIN sessions' = DOMAIN sessions \cup {s} /\ sessions'[s] = rec
      /\ \A x \in DOMAIN sessions \ {s} : sessions'[x] = sessions[x]
  BY PutSession
<1>2. \A x \in DOMAIN sessions : sessions'[x].watch = sessions[x].watch
  BY <1>1 DEF At
<1>3. s \notin DOMAIN sessions => sessions'[s].watch = {}
  BY <1>1, AbsentSession DEF At
<1>4. \A x \in DOMAIN sessions' : sessions'[x].watch = {} \/ x \in DOMAIN sessions
  BY <1>1, <1>3
<1>5. WatchedJoined'
  BY <1>1, <1>2, <1>4 DEF WatchedJoined, monitor
<1>6. QED
  BY <1>5 DEF MonitorTypes, monitor

\* The clean-up of a session whose connection has ended.
LEMMA CleanupStep ==
  ASSUME GatewayInv, NEW s \in DOMAIN sessions, conn[s] = "closed", Cleanup(s),
         UNCHANGED <<conn, orders, live, late>>
  PROVE  /\ SessionTypes' /\ MonitorTypes' /\ WatchedJoined' /\ Numbered' /\ Routed'
         /\ DOMAIN sessions' \subseteq DOMAIN sessions /\ replay' \subseteq replay
<1> USE DEF GatewayInv, Types
<1>1. /\ joined' = {p \in joined : p[2] \notin Unwatched(s)}
      /\ manual' = Without(manual, Forgotten(s))
      /\ sessions' = Without(sessions, {s})
      /\ replay' \subseteq replay
  BY DEF Cleanup
<1>2. /\ DOMAIN sessions' = DOMAIN sessions \ {s}
      /\ \A x \in DOMAIN sessions \ {s} : sessions'[x] = sessions[x]
  BY <1>1 DEF Without
<1>3. /\ DOMAIN manual' = DOMAIN manual \ Forgotten(s)
      /\ \A o \in DOMAIN manual \ Forgotten(s) : manual'[o] = manual[o]
  BY <1>1 DEF Without
<1>4. SessionTypes'
  BY <1>2 DEF SessionTypes
<1>5. MonitorTypes'
  BY <1>1 DEF MonitorTypes
<1>6. Numbered' /\ Routed'
  BY <1>3 DEF Numbered, Routed, Forgotten
<1>7. \A p \in joined' : \E x \in DOMAIN sessions' : p[2] \in sessions'[x].watch
  <2> SUFFICES ASSUME NEW p \in joined' PROVE \E x \in DOMAIN sessions' : p[2] \in sessions'[x].watch
    OBVIOUS
  <2>1. PICK y \in DOMAIN sessions : p[2] \in sessions[y].watch
    BY <1>1 DEF WatchedJoined
  <2>2. CASE y = s
    <3>1. OthersWatch(sessions, s, p[2])
      BY <1>1, <2>1, <2>2 DEF Unwatched
    <3>2. QED
      BY <1>2, <3>1 DEF OthersWatch
  <2>3. CASE y # s
    BY <1>2, <2>1, <2>3
  <2>4. QED
    BY <2>2, <2>3
<1>8. ASSUME NEW g \in Strategies, NEW t \in TDs, t \in live', <<t, g>> \notin joined' \cup late',
             NEW x \in DOMAIN sessions'
      PROVE  g \notin sessions'[x].watch
  <2>1. CASE <<t, g>> \in joined
    <3>1. g \in Unwatched(s)
      BY <1>1, <1>8, <2>1
    <3>2. QED
      BY <1>2, <3>1 DEF Unwatched, OthersWatch
  <2>2. CASE <<t, g>> \notin joined
    BY <1>2, <1>8, <2>2 DEF WatchedJoined
  <2>3. QED
    BY <2>1, <2>2
<1>9. WatchedJoined'
  BY <1>7, <1>8 DEF WatchedJoined
<1>10. QED
  BY <1>1, <1>2, <1>4, <1>5, <1>6, <1>9

LEMMA DisconnectStep ==
  ASSUME GatewayInv, Disconnect
  PROVE  GatewayInv'
<1> USE DEF GatewayInv, Types
<1> DEFINE s == Head(closing)
<1>1. /\ closing # << >> /\ closing' = Tail(closing)
      /\ UNCHANGED <<conn, requests, orders, source, exchange, writers, linked, live, late, news,
                     ledger, md, bound>>
  BY DEF Disconnect, services, hist
<1>2. s \in Clients /\ conn[s] = "closed" /\ closing' \in Seq(Clients) /\ Gone'
  BY <1>1, HeadTail DEF ThreadTypes, Gone
<1>3. /\ SessionTypes' /\ MonitorTypes' /\ WatchedJoined' /\ Numbered' /\ Routed'
      /\ DOMAIN sessions' \subseteq DOMAIN sessions /\ replay' \subseteq replay
  <2>1. CASE s \in DOMAIN sessions
    <3>1. Cleanup(s)
      BY <2>1 DEF Disconnect
    <3>2. QED
      BY <1>1, <1>2, <2>1, <3>1, CleanupStep
  <2>2. CASE s \notin DOMAIN sessions
    <3>1. UNCHANGED <<replay, joined, manual, sessions>>
      BY <2>2 DEF Disconnect
    <3>2. QED
      BY <1>1, <3>1 DEF SessionTypes, MonitorTypes, WatchedJoined, Numbered, Routed
  <2>3. QED
    BY <2>1, <2>2
<1>4. ThreadTypes' /\ Arrived' /\ SourceTypes'
  BY <1>1, <1>2, <1>3 DEF ThreadTypes, Arrived, SourceTypes
<1>5. QED
  BY <1>1, <1>2, <1>3, <1>4, NewsKept, ServicesKept

LEMMA RequestMarketData ==
  ASSUME GatewayInv, NEW s \in Clients, NEW m \in MDs, NEW k \in Keys,
         handle_request_market_data(s, m, k), UNCHANGED conn
  PROVE  Handled(s)
<1> USE DEF GatewayInv, Types
<1>1. UNCHANGED <<manual, orders, writers, linked, monitor>>
  BY DEF handle_request_market_data
<1>2. Numbered' /\ Routed'
  BY <1>1 DEF Numbered, Routed
<1>3. CASE m \in writers
  <2> DEFINE S == At(s).keys \cup {k}
             P == At(s).mds \cup {<<m, k>>}
             rec == [At(s) EXCEPT !.keys = S, !.mds = P]
  <2>1. sessions' = With(sessions, s, rec)
    BY <1>3 DEF handle_request_market_data, Put
  <2>2. At(s) \in Session /\ S \in SUBSET Keys /\ P \in SUBSET (MDs \X Keys)
    BY AtType, SessionFields
  <2>3. rec \in Session /\ rec.watch = At(s).watch
    BY <2>2, SessionKeys
  <2> HIDE DEF rec
  <2>4. SessionTypes' /\ DOMAIN sessions' \subseteq DOMAIN sessions \cup {s}
    BY <2>1, <2>3, PutSession
  <2>5. WatchedJoined' /\ MonitorTypes'
    BY <1>1, <2>1, <2>3, KeysOnly
  <2>6. SourceTypes'
    BY <1>3 DEF handle_request_market_data, SourceTypes, Emplace, With
  <2>7. QED
    BY <1>1, <1>2, <2>4, <2>5, <2>6 DEF Handled
<1>4. CASE m \notin writers
  <2>1. UNCHANGED <<replay, source, exchange, sessions>>
    BY <1>4 DEF handle_request_market_data
  <2>2. SessionTypes' /\ SourceTypes'
    BY <2>1 DEF SessionTypes, SourceTypes
  <2>3. QED
    BY <1>1, <1>2, <2>1, <2>2, MonitorKept DEF Handled
<1>5. QED
  BY <1>3, <1>4

LEMMA CancelMarketData ==
  ASSUME GatewayInv, NEW s \in Clients, NEW m \in MDs, NEW k \in Keys,
         handle_cancel_market_data(s, m, k), UNCHANGED conn
  PROVE  Handled(s)
<1> USE DEF GatewayInv, Types
<1>1. UNCHANGED <<manual, orders, writers, linked, monitor, exchange>>
  BY DEF handle_cancel_market_data
<1>2. Numbered' /\ Routed'
  BY <1>1 DEF Numbered, Routed
<1> DEFINE S == At(s).keys \ {k}
           P == At(s).mds \ {<<m, k>>}
           rec == [At(s) EXCEPT !.keys = S, !.mds = P]
<1>3. sessions' = With(sessions, s, rec)
  BY DEF handle_cancel_market_data, Put
<1>4. At(s) \in Session /\ S \in SUBSET Keys /\ P \in SUBSET (MDs \X Keys)
  BY AtType, SessionFields
<1>5. rec \in Session /\ rec.watch = At(s).watch
  BY <1>4, SessionKeys
<1> HIDE DEF rec
<1>6. SessionTypes' /\ DOMAIN sessions' \subseteq DOMAIN sessions \cup {s}
  BY <1>3, <1>5, PutSession
<1>7. WatchedJoined' /\ MonitorTypes'
  BY <1>1, <1>3, <1>5, KeysOnly
<1>8. SourceTypes'
  BY <1>1 DEF handle_cancel_market_data, SourceTypes, Without
<1>9. QED
  BY <1>1, <1>2, <1>6, <1>7, <1>8 DEF Handled

LEMMA SubscribeStrategy ==
  ASSUME GatewayInv, NEW s \in Clients, NEW g \in Strategies,
         handle_subscribe_strategy(s, g), UNCHANGED conn
  PROVE  Handled(s)
<1> USE DEF GatewayInv, Types
<1>1. UNCHANGED <<manual, orders, client, live>>
  BY DEF handle_subscribe_strategy
<1>2. Numbered' /\ Routed' /\ SourceTypes' /\ UNCHANGED <<writers, linked>>
  BY <1>1 DEF Numbered, Routed, SourceTypes, client
<1>3. CASE s \in DOMAIN sessions /\ g \notin sessions[s].watch
  <2> DEFINE W == sessions[s].watch \cup {g}
             rec == [sessions[s] EXCEPT !.watch = W]
  <2>1. /\ sessions' = With(sessions, s, rec)
        /\ joined' = joined \cup (live \X {g}) /\ late' = late \ (live \X {g})
    BY <1>3 DEF handle_subscribe_strategy, Put
  <2>2. sessions[s] \in Session /\ W \in SUBSET Strategies
    BY <1>3, SessionFields DEF SessionTypes
  <2>3. rec \in Session /\ rec.watch = W
    BY <2>2, SessionWatch
  <2> HIDE DEF rec
  <2>4. /\ SessionTypes' /\ DOMAIN sessions' = DOMAIN sessions \cup {s} /\ sessions'[s] = rec
        /\ \A x \in DOMAIN sessions \ {s} : sessions'[x] = sessions[x]
    BY <2>1, <2>3, PutSession
  <2>5. MonitorTypes'
    BY <1>1, <2>1 DEF MonitorTypes
  <2>6. \A p \in joined' : \E x \in DOMAIN sessions' : p[2] \in sessions'[x].watch
    <3>1. \A p \in live \X {g} : p[2] \in sessions'[s].watch
      BY <2>3, <2>4
    <3>2. \A x \in DOMAIN sessions : sessions[x].watch \subseteq sessions'[x].watch
      BY <2>3, <2>4
    <3>3. \A p \in joined : \E x \in DOMAIN sessions : p[2] \in sessions'[x].watch
      BY <3>2 DEF WatchedJoined
    <3>4. QED
      BY <2>1, <2>4, <3>1, <3>3
  <2>7. ASSUME NEW h \in Strategies, NEW t \in TDs, t \in live', <<t, h>> \notin joined' \cup late',
               NEW x \in DOMAIN sessions'
        PROVE  h \notin sessions'[x].watch
    <3>1. h # g
      BY <1>1, <2>1, <2>7
    <3>2. <<t, h>> \notin joined \cup late
      BY <2>1, <2>7, <3>1
    <3>3. x \in DOMAIN sessions /\ h \notin sessions[x].watch
      BY <1>1, <1>3, <2>4, <2>7, <3>2 DEF WatchedJoined
    <3>4. QED
      BY <2>3, <2>4, <3>1, <3>3
  <2>8. QED
    BY <1>2, <2>4, <2>5, <2>6, <2>7 DEF Handled, WatchedJoined
<1>4. CASE ~(s \in DOMAIN sessions /\ g \notin sessions[s].watch)
  <2>1. UNCHANGED <<sessions, joined, late, live>>
    BY <1>1, <1>4 DEF handle_subscribe_strategy
  <2>2. QED
    BY <1>2, <2>1 DEF Handled, WatchedJoined, MonitorTypes, SessionTypes
<1>5. QED
  BY <1>3, <1>4

LEMMA UnsubscribeStrategy ==
  ASSUME GatewayInv, NEW s \in Clients, NEW g \in Strategies,
         handle_unsubscribe_strategy(s, g), UNCHANGED conn
  PROVE  Handled(s)
<1> USE DEF GatewayInv, Types
<1>1. UNCHANGED <<manual, orders, client, live, late>>
  BY DEF handle_unsubscribe_strategy
<1>2. Numbered' /\ Routed' /\ SourceTypes' /\ UNCHANGED <<writers, linked>>
  BY <1>1 DEF Numbered, Routed, SourceTypes, client
<1>3. CASE s \in DOMAIN sessions
  <2> DEFINE W == sessions[s].watch \ {g}
             rec == [sessions[s] EXCEPT !.watch = W]
  <2>1. /\ sessions' = With(sessions, s, rec)
        /\ joined' = IF OthersWatch(sessions, s, g) THEN joined ELSE {p \in joined : p[2] # g}
    BY <1>3 DEF handle_unsubscribe_strategy, Put
  <2>2. sessions[s] \in Session /\ W \in SUBSET Strategies
    BY <1>3, SessionFields DEF SessionTypes
  <2>3. rec \in Session /\ rec.watch = W
    BY <2>2, SessionWatch
  <2> HIDE DEF rec
  <2>4. /\ SessionTypes' /\ DOMAIN sessions' = DOMAIN sessions /\ sessions'[s] = rec
        /\ \A x \in DOMAIN sessions \ {s} : sessions'[x] = sessions[x]
    BY <1>3, <2>1, <2>3, PutSession
  <2>5. MonitorTypes' /\ joined' \subseteq joined
    BY <1>1, <2>1 DEF MonitorTypes
  <2>6. ASSUME NEW p \in joined' PROVE \E x \in DOMAIN sessions' : p[2] \in sessions'[x].watch
    <3>1. PICK y \in DOMAIN sessions : p[2] \in sessions[y].watch
      BY <2>5 DEF WatchedJoined
    <3>2. CASE p[2] # g
      BY <2>3, <2>4, <3>1, <3>2
    <3>3. CASE p[2] = g
      <4>1. OthersWatch(sessions, s, g)
        BY <2>1, <3>3
      <4>2. QED
        BY <2>4, <3>3, <4>1 DEF OthersWatch
    <3>4. QED
      BY <3>2, <3>3
  <2>7. ASSUME NEW h \in Strategies, NEW t \in TDs, t \in live', <<t, h>> \notin joined' \cup late',
               NEW x \in DOMAIN sessions'
        PROVE  h \notin sessions'[x].watch
    <3>1. CASE <<t, h>> \in joined
      <4>1. h = g /\ ~OthersWatch(sessions, s, g)
        BY <2>1, <2>7, <3>1
      <4>2. QED
        BY <2>3, <2>4, <4>1 DEF OthersWatch
    <3>2. CASE <<t, h>> \notin joined
      <4>1. h \notin sessions[x].watch
        BY <1>1, <2>4, <2>7, <3>2 DEF WatchedJoined
      <4>2. QED
        BY <2>3, <2>4, <4>1
    <3>3. QED
      BY <3>1, <3>2
  <2>8. WatchedJoined'
    BY <2>6, <2>7 DEF WatchedJoined
  <2>9. QED
    BY <1>2, <2>4, <2>5, <2>8 DEF Handled
<1>4. CASE s \notin DOMAIN sessions
  <2>1. UNCHANGED <<sessions, joined, late, live>>
    BY <1>1, <1>4 DEF handle_unsubscribe_strategy
  <2>2. QED
    BY <1>2, <2>1 DEF Handled, WatchedJoined, MonitorTypes, SessionTypes
<1>5. QED
  BY <1>3, <1>4

LEMMA IssueOrder ==
  ASSUME GatewayInv, NEW s \in Clients, NEW t \in TDs, handle_issue_order(s, t), UNCHANGED conn
  PROVE  Handled(s)
<1> USE DEF GatewayInv, Types
<1>1. UNCHANGED <<sessions, client, monitor>>
  BY DEF handle_issue_order
<1>2. SessionTypes' /\ SourceTypes' /\ UNCHANGED <<writers, linked>>
  BY <1>1 DEF SessionTypes, SourceTypes, client
<1>3. Numbered' /\ Routed'
  <2>1. CASE t \notin live
    <3>1. UNCHANGED <<manual, orders>>
      BY <2>1 DEF handle_issue_order
    <3>2. QED
      BY <3>1 DEF Numbered, Routed
  <2>2. CASE t \in live
    <3> DEFINE n == Cardinality(DOMAIN orders)
               o == n + 1
    <3>1. manual' = With(manual, o, s) /\ orders' = With(orders, o, s)
      BY <2>2 DEF handle_issue_order
    <3>2. n \in Nat /\ DOMAIN orders = 1 .. n
      BY DEF Numbered
    <3>3. /\ DOMAIN orders' = 1 .. o /\ orders'[o] = s /\ \A x \in 1 .. n : orders'[x] = orders[x]
      <4>1. DOMAIN orders' = {o} \cup (1 .. n)
        BY <3>1, <3>2 DEF With
      <4>2. {o} \cup (1 .. n) = 1 .. o
        BY <3>2
      <4>3. orders'[o] = s /\ \A x \in 1 .. n : orders'[x] = IF x = o THEN s ELSE orders[x]
        BY <3>1, <3>2 DEF With
      <4>4. QED
        BY <3>2, <4>1, <4>2, <4>3
    <3>4. Cardinality(1 .. o) = o
      BY <3>2, FS_Interval
    <3>5. Numbered'
      <4>1. Cardinality(DOMAIN orders') = o /\ o \in Nat
        BY <3>2, <3>3, <3>4
      <4>2. \A x \in 1 .. o : orders'[x] \in Clients
        BY <3>2, <3>3 DEF Numbered
      <4>3. QED
        BY <3>3, <4>1, <4>2 DEF Numbered
    <3>6. DOMAIN manual' = {o} \cup DOMAIN manual /\ manual'[o] = s
          /\ \A x \in DOMAIN manual \ {o} : manual'[x] = manual[x]
      BY <3>1 DEF With
    <3>7. Routed'
      BY <3>2, <3>3, <3>6 DEF Routed
    <3>8. QED
      BY <3>5, <3>7
  <2>3. QED
    BY <2>1, <2>2
<1>4. QED
  BY <1>1, <1>2, <1>3, MonitorKept DEF Handled

LEMMA DrainStep ==
  ASSUME GatewayInv, Drain
  PROVE  GatewayInv'
<1> USE DEF GatewayInv, Types
<1> DEFINE s == Head(requests)[1]
           r == Head(requests)[2]
<1>1. /\ requests # << >> /\ requests' = Tail(requests)
      /\ UNCHANGED <<conn, closing, news, ledger, md, bound>>
  BY DEF Drain, services
<1>2. /\ Head(requests) \in Clients \X Requests /\ requests' \in Seq(Clients \X Requests)
      /\ conn[s] # "new"
      /\ \A i \in 1 .. Len(requests') : conn[requests'[i][1]] # "new"
  BY <1>1, HeadTail DEF ThreadTypes, Arrived
<1>3. s \in Clients /\ r \in Requests
  BY <1>2
<1>4. Handled(s)
  <2>1. CASE r.method = "request_market_data"
    <3>1. handle_request_market_data(s, r.from, r.key)
      BY <2>1 DEF Drain
    <3>2. QED
      BY <1>1, <1>3, <2>1, <3>1, RequestKinds, RequestMarketData
  <2>2. CASE r.method = "cancel_market_data"
    <3>1. handle_cancel_market_data(s, r.from, r.key)
      BY <2>2 DEF Drain
    <3>2. QED
      BY <1>1, <1>3, <2>2, <3>1, RequestKinds, CancelMarketData
  <2>3. CASE r.method = "subscribe_strategy"
    <3>1. handle_subscribe_strategy(s, r.strategy)
      BY <2>3 DEF Drain
    <3>2. QED
      BY <1>1, <1>3, <2>3, <3>1, RequestKinds, SubscribeStrategy
  <2>4. CASE r.method = "unsubscribe_strategy"
    <3>1. handle_unsubscribe_strategy(s, r.strategy)
      BY <2>4 DEF Drain
    <3>2. QED
      BY <1>1, <1>3, <2>4, <3>1, RequestKinds, UnsubscribeStrategy
  <2>5. CASE r.method = "issue_order"
    <3>1. handle_issue_order(s, r.account)
      BY <2>5 DEF Drain
    <3>2. QED
      BY <1>1, <1>3, <2>5, <3>1, RequestKinds, IssueOrder
  <2>6. QED
    BY <1>3, <2>1, <2>2, <2>3, <2>4, <2>5, RequestKinds
<1>5. ThreadTypes' /\ Gone' /\ Arrived'
  BY <1>1, <1>2, <1>4 DEF ThreadTypes, Gone, Arrived, Handled
<1>6. QED
  BY <1>1, <1>4, <1>5, NewsKept, ServicesKept DEF Handled

----------------------------------------------------------------------------
(* the news of the processes *)

LEMMA FrameFacts ==
  ASSUME NEW e \in Frames
  PROVE  /\ e[1] \in Procs /\ e[2] \in {"Register", "Deregister"} \cup States
         /\ e = <<e[1], e[2]>>
  BY DEF Frames

\* A process comes up: the strategies watched then are the ones it may miss.
LEMMA ConnectStep ==
  ASSUME GatewayInv, NEW m \in Procs, connect(m), UNCHANGED <<sessions, bound>>
  PROVE  MonitorTypes' /\ WatchedJoined' /\ ServiceTypes' /\ linked' \subseteq writers'
<1> USE DEF GatewayInv, Types
<1>1. /\ linked' = linked \cup {m} /\ writers' = writers \cup {m}
      /\ live' = live \cup (TDs \cap {m}) /\ joined' = joined
      /\ late' = late \cup ((TDs \cap {m}) \X {g \in Strategies : \E s \in DOMAIN sessions : g \in sessions[s].watch})
      /\ md' = md \/ md' = [md EXCEPT ![m].told = TRUE]
  BY DEF connect
<1>2. MonitorTypes'
  BY <1>1 DEF MonitorTypes
<1>3. ServiceTypes'
  BY <1>1 DEF ServiceTypes
<1>4. ASSUME NEW g \in Strategies, NEW t \in TDs, t \in live', <<t, g>> \notin joined' \cup late',
             NEW x \in DOMAIN sessions'
      PROVE  g \notin sessions'[x].watch
  <2>1. CASE t = m
    BY <1>1, <1>4, <2>1
  <2>2. CASE t # m
    BY <1>1, <1>4, <2>2 DEF WatchedJoined
  <2>3. QED
    BY <2>1, <2>2
<1>5. WatchedJoined'
  BY <1>1, <1>4 DEF WatchedJoined
<1>6. QED
  BY <1>1, <1>2, <1>3, <1>5

LEMMA DeregisterStep ==
  ASSUME GatewayInv, NEW m \in Procs, deregister(m), UNCHANGED <<sessions, bound>>
  PROVE  MonitorTypes' /\ WatchedJoined' /\ ServiceTypes' /\ linked' \subseteq writers'
<1> USE DEF GatewayInv, Types
<1>1. /\ linked' = linked \ {m} /\ UNCHANGED <<writers, md>>
      /\ live' = live \ {m} /\ joined' = {p \in joined : p[1] # m} /\ late' = {p \in late : p[1] # m}
  BY DEF deregister, Forget
<1>2. MonitorTypes' /\ ServiceTypes'
  BY <1>1 DEF MonitorTypes, ServiceTypes
<1>3. ASSUME NEW g \in Strategies, NEW t \in TDs, t \in live', <<t, g>> \notin joined' \cup late',
             NEW x \in DOMAIN sessions'
      PROVE  g \notin sessions'[x].watch
  BY <1>1, <1>3 DEF WatchedJoined
<1>4. WatchedJoined'
  BY <1>1, <1>3 DEF WatchedJoined
<1>5. QED
  BY <1>1, <1>2, <1>4

LEMMA ReactStep ==
  ASSUME GatewayInv, React
  PROVE  GatewayInv'
<1> USE DEF GatewayInv, Types
<1> DEFINE m == Head(news)[1]
           what == Head(news)[2]
<1>1. /\ news # << >> /\ news' = Tail(news)
      /\ UNCHANGED <<threads, api, sessions, replay, source, exchange, ledger, bound>>
  BY DEF React, hist, api
<1>2. news' \in Seq(Frames) /\ Head(news) \in Frames
  BY <1>1, HeadTail DEF NewsTypes
<1>3. m \in Procs /\ what \in {"Register", "Deregister"} \cup States
  BY <1>2, FrameFacts
<1>4. MonitorTypes' /\ WatchedJoined' /\ ServiceTypes' /\ linked' \subseteq writers'
  <2>1. CASE what = "Register"
    <3>1. connect(m)
      BY <2>1 DEF React
    <3>2. QED
      BY <1>1, <1>3, <3>1, ConnectStep
  <2>2. CASE what = "Deregister"
    <3>1. deregister(m)
      BY <2>2 DEF React
    <3>2. QED
      BY <1>1, <1>3, <3>1, DeregisterStep
  <2>3. CASE what \in States
    <3>1. update_broker_state(m, what)
      BY <2>3 DEF React, States
    <3>2. UNCHANGED <<linked, writers, monitor, md>>
      BY <3>1 DEF update_broker_state
    <3>3. QED
      BY <1>1, <3>2, MonitorKept, ServicesKept
  <2>4. QED
    BY <1>3, <2>1, <2>2, <2>3
<1>5. SourceTypes' /\ NewsTypes'
  BY <1>1, <1>2 DEF SourceTypes, NewsTypes, ledger
<1>6. QED
  BY <1>1, <1>4, <1>5, SessionsKept

\* The frames of r tell the states st, each to be found there.
Retold(r, st) ==
  /\ \A i \in 1 .. Len(r) : r[i][1] \in DOMAIN st /\ r[i] = <<r[i][1], st[r[i][1]]>>
  /\ \A x \in DOMAIN st : \E i \in 1 .. Len(r) : r[i] = <<x, st[x]>>

\* What the ledger does with a frame.
LedgerTells(m, what) ==
  \/ what = "Register" /\ states' = states /\ news' = news
  \/ /\ what # "Register" /\ states' = Known(m, what)
     /\ \E r \in Seq(Procs \X States) : news' = news \o r /\ Retold(r, states')

\* The ledger repeats the states it knows: frames of processes, and no Deregister.
LEMMA LedgerFrames ==
  ASSUME NewsTypes, LedgerReact
  PROVE  /\ inbox # << >> /\ inbox' \in Seq(Frames)
         /\ IsFiniteSet(DOMAIN states') /\ DOMAIN states' \subseteq Procs
         /\ \A x \in DOMAIN states' : states'[x] \in States
         /\ news' = news \/ \E r \in Seq(Procs \X States) : news' = news \o r
         /\ LedgerTells(Head(inbox)[1], Head(inbox)[2])
<1> DEFINE m == Head(inbox)[1]
           what == Head(inbox)[2]
<1>1. inbox # << >> /\ inbox' = Tail(inbox)
  BY DEF LedgerReact
<1>2. inbox' \in Seq(Frames) /\ m \in Procs /\ what \in {"Register", "Deregister"} \cup States
  BY <1>1, HeadTail, FrameFacts DEF NewsTypes
<1>3. CASE what = "Register"
  BY <1>1, <1>2, <1>3 DEF LedgerReact, NewsTypes, LedgerTells
<1>4. CASE what # "Register"
  <2> DEFINE S == {<<x, states'[x]>> : x \in DOMAIN states'}
  <2>1. states' = Known(m, what) /\ news' = news \o SetToSeq(S)
    BY <1>4 DEF LedgerReact
  <2>2. /\ IsFiniteSet(DOMAIN states') /\ DOMAIN states' \subseteq Procs
        /\ \A x \in DOMAIN states' : states'[x] \in States
    <3>1. CASE what = "Deregister"
      BY <2>1, <3>1 DEF Known, NewsTypes
    <3>2. CASE what # "Deregister"
      <4>1. states' = With(states, m, what) /\ what \in States
        BY <1>2, <1>4, <2>1, <3>2 DEF Known
      <4>2. DOMAIN states' = DOMAIN states \cup {m}
        BY <4>1 DEF With
      <4>3. \A x \in DOMAIN states' : states'[x] = IF x = m THEN what ELSE states[x]
        BY <4>1 DEF With
      <4>4. IsFiniteSet(DOMAIN states \cup {m})
        BY FS_AddElement DEF NewsTypes
      <4>5. QED
        BY <1>2, <4>1, <4>2, <4>3, <4>4 DEF NewsTypes
    <3>3. QED
      BY <3>1, <3>2
  <2>3. S \subseteq Procs \X States
    BY <2>2
  <2>4. IsFiniteSet(S)
    <3> DEFINE f == [x \in DOMAIN states' |-> <<x, states'[x]>>]
    <3>1. f \in Surjection(DOMAIN states', S)
      BY DEF Surjection
    <3>2. QED
      BY <2>2, <3>1, FS_Surjection
  <2>a. /\ \A e \in S : e[1] \in DOMAIN states' /\ e = <<e[1], states'[e[1]]>>
        /\ \A x \in DOMAIN states' : <<x, states'[x]>> \in S
    OBVIOUS
  <2> HIDE DEF S
  <2>5. SetToSeq(S) \in Seq(S) /\ \A e \in S : \E i \in 1 .. Len(SetToSeq(S)) : SetToSeq(S)[i] = e
    BY <2>4, SequenceOfSet
  <2> DEFINE r == SetToSeq(S)
  <2>b. r \in Seq(S) /\ (\A e \in S : \E i \in 1 .. Len(r) : r[i] = e) /\ news' = news \o r
    BY <2>1, <2>5
  <2> HIDE DEF r
  <2>6. r \in Seq(Procs \X States)
    BY ONLY <2>3, <2>b
  <2>7. Retold(r, states')
    <3>1. \A i \in 1 .. Len(r) : r[i] \in S
      BY <2>b
    <3>2. QED
      BY <2>a, <2>b, <3>1 DEF Retold
  <2>8. LedgerTells(m, what)
    BY <1>4, <2>1, <2>6, <2>7, <2>b DEF LedgerTells
  <2>9. QED
    BY <1>1, <1>2, <2>1, <2>2, <2>6, <2>8, <2>b
<1>5. QED
  BY <1>3, <1>4

LEMMA LedgerStep ==
  ASSUME GatewayInv, LedgerReact
  PROVE  GatewayInv'
<1> USE DEF GatewayInv, Types
<1>1. UNCHANGED <<api, sessions, threads, client, monitor, md, bound>>
  BY DEF LedgerReact, services, hist, api
<1>2. \A r \in Seq(Procs \X States) : r \in Seq(Frames)
  <2>1. Procs \X States \subseteq Frames
    BY DEF Frames
  <2>2. QED
    BY <2>1
<1>3. news' \in Seq(Frames)
  <2>1. NewsTypes
    OBVIOUS
  <2>2. news' = news \/ \E r \in Seq(Frames) : news' = news \o r
    BY <1>2, <2>1, LedgerFrames
  <2>3. \A q, r \in Seq(Frames) : q \o r \in Seq(Frames)
    OBVIOUS
  <2>4. QED
    BY <2>1, <2>2, <2>3 DEF NewsTypes
<1>4. NewsTypes'
  BY <1>3, LedgerFrames DEF NewsTypes
<1>5. QED
  BY <1>1, <1>4, SessionsKept, MonitorKept, ClientKept, ServicesKept

----------------------------------------------------------------------------
(* market data services and traders *)

LEMMA PublishFrame ==
  ASSUME GatewayInv, NEW e \in Frames, Publish(e)
  PROVE  NewsTypes'
<1> USE DEF GatewayInv, Types
<1>1. /\ news' = Append(news, e) /\ inbox' \in {inbox, Append(inbox, e)} /\ UNCHANGED states
  BY DEF Publish
<1>2. QED
  BY <1>1, SMTT(30) DEF NewsTypes

LEMMA ServiceStep ==
  ASSUME GatewayInv, NEW p \in Procs,
         \/ Start(p) \/ Die(p)
         \/ FrontUp(p) \/ FrontDown(p) \/ Link(p)
  PROVE  GatewayInv'
<1> USE DEF GatewayInv, Types
<1>1. UNCHANGED <<api, sessions, threads, client, monitor, bound>>
  BY DEF Start, Die, FrontUp, FrontDown, Link, hist, api
<1>2. ServiceTypes'
  <2>1. bound' \in Scenarios
    BY <1>1 DEF ServiceTypes
  <2>2. CASE Start(p) \/ Die(p)
    <3>1. \E rec \in [up : BOOLEAN, ready : BOOLEAN, told : BOOLEAN, reads : BOOLEAN] :
             md' = [md EXCEPT ![p] = rec]
      BY <2>2 DEF Start, Die
    <3>2. QED
      BY <2>1, <3>1 DEF ServiceTypes
  <2>3. CASE FrontUp(p) \/ FrontDown(p)
    BY <2>1, <2>3, ZenonT(30) DEF FrontUp, FrontDown, ServiceTypes
  <2>4. CASE Link(p)
    BY <2>1, <2>4 DEF Link, ServiceTypes
  <2>5. QED
    BY <2>2, <2>3, <2>4
<1>3. \E e \in Frames : Publish(e)
  <2>1. \A what \in {"Register", "Deregister", "Ready", "DisConnected", "Idle"} : <<p, what>> \in Frames
    BY DEF Frames, States
  <2>2. \E what \in {"Register", "Deregister", "Ready", "DisConnected", "Idle"} : Publish(<<p, what>>)
    BY DEF Start, Die, FrontUp, FrontDown, Link, StateOf
  <2>3. QED
    BY <2>1, <2>2
<1>4. NewsTypes'
  BY <1>3, PublishFrame
<1>5. QED
  BY <1>1, <1>2, <1>4, SessionsKept, MonitorKept, ClientKept

LEMMA ServeStep ==
  ASSUME GatewayInv, NEW m \in MDs, Serve(m)
  PROVE  GatewayInv'
<1>1. UNCHANGED <<api, sessions, threads, client, monitor, news, ledger, md, bound>>
  BY DEF Serve, hist, api
<1>2. QED
  BY <1>1, SessionsKept, MonitorKept, ClientKept, NewsKept, ServicesKept DEF GatewayInv, Types

----------------------------------------------------------------------------
LEMMA InitGateway == Init => GatewayInv
<1> SUFFICES ASSUME Init PROVE GatewayInv
  OBVIOUS
<1> USE DEF Init
<1>1. DOMAIN sessions = {} /\ DOMAIN manual = {} /\ DOMAIN orders = {} /\ DOMAIN source = {} /\ DOMAIN states = {}
  OBVIOUS
<1>2. ThreadTypes /\ SessionTypes /\ SourceTypes /\ MonitorTypes
  BY <1>1 DEF ThreadTypes, SessionTypes, SourceTypes, MonitorTypes
<1>3. NewsTypes /\ ServiceTypes
  BY <1>1, FS_EmptySet DEF NewsTypes, ServiceTypes
<1>4. Arrived /\ Gone /\ Routed /\ WatchedJoined
  BY <1>1 DEF Arrived, Gone, Routed, WatchedJoined
<1>5. Numbered
  BY <1>1, FS_EmptySet DEF Numbered
<1>6. QED
  BY <1>2, <1>3, <1>4, <1>5 DEF GatewayInv, Types

LEMMA NextGateway == GatewayInv /\ [Next]_vars => GatewayInv'
<1> SUFFICES ASSUME GatewayInv, [Next]_vars PROVE GatewayInv'
  OBVIOUS
<1>1. CASE \E s \in Clients : Accept(s) \/ Receive(s) \/ Close(s)
  BY <1>1, AcceptStep, ReceiveStep, CloseStep
<1>2. CASE Disconnect \/ Drain \/ React \/ LedgerReact
  BY <1>2, DisconnectStep, DrainStep, ReactStep, LedgerStep
<1>3. CASE \E p \in Procs : Start(p) \/ Die(p)
  BY <1>3, ServiceStep
<1>4. CASE \E m \in MDs : FrontUp(m) \/ FrontDown(m) \/ Link(m) \/ Serve(m)
  BY <1>4, ServiceStep, ServeStep DEF Procs
<1>5. CASE UNCHANGED vars
  BY <1>5, SessionsKept, MonitorKept, ClientKept, NewsKept, ServicesKept
     DEF vars, api, hist, services, GatewayInv, Types
<1>6. QED
  BY <1>1, <1>2, <1>3, <1>4, <1>5 DEF Next

\* No session's departure takes a strategy's channel away from another session, and no
\* channel is followed that nobody watches (handle_subscribe_strategy,
\* handle_unsubscribe_strategy, cleanup_session, on_deregister): for any number of
\* clients, traders and strategies.
THEOREM ChannelsShared == Spec => []WatchedJoined
<1>1. Init => GatewayInv
  BY InitGateway
<1>2. GatewayInv /\ [Next]_vars => GatewayInv'
  BY NextGateway
<1>3. GatewayInv => WatchedJoined
  BY DEF GatewayInv
<1>4. QED
  BY <1>1, <1>2, <1>3, PTL DEF Spec

LEMMA RoutedReaches == GatewayInv => OwnerReachable
  BY DEF GatewayInv, Routed, OwnerReachable

\* The reports of an order a client placed by hand find the session that placed it as
\* long as that client is connected (handle_issue_order, cleanup_session): whichever
\* sessions came and left in between.
THEOREM OrdersRouted == Spec => []OwnerReachable
<1>1. Init => GatewayInv
  BY InitGateway
<1>2. GatewayInv /\ [Next]_vars => GatewayInv'
  BY NextGateway
<1>3. GatewayInv => OwnerReachable
  BY RoutedReaches
<1>4. QED
  BY <1>1, <1>2, <1>3, PTL DEF Spec

----------------------------------------------------------------------------
(***************************************************************************)
(* ready_md_locations_ is a part of connected_locations_: a service is     *)
(* ready only while it is connected.  Its frames come in the order in      *)
(* which things happen, so a state that is read belongs to a process that  *)
(* is registered.  A ledger that repeats the states of the dead breaks     *)
(* this: the theorem is about gateways without one, or without deaths.     *)
(***************************************************************************)

\* Reading the first i - 1 frames of q leaves m connected, when those in L are now.
UpAt(q, L, m, i) ==
  \/ \E j \in 1 .. i - 1 :
       q[j] = <<m, "Register">> /\ \A l \in j + 1 .. i - 1 : q[l] # <<m, "Deregister">>
  \/ m \in L /\ \A l \in 1 .. i - 1 : q[l] # <<m, "Deregister">>

\* The states in the news are those of connected processes, and whoever is up is
\* connected when all news are read.
InOrder ==
  /\ \A i \in 1 .. Len(news) : news[i][2] \in States => UpAt(news, linked, news[i][1], i)
  /\ \A m \in Procs : md[m].up => UpAt(news, linked, m, Len(news) + 1)

NobodyDies ==
  /\ linked = writers
  /\ \A i \in 1 .. Len(news) : news[i][2] # "Deregister"
  /\ \A i \in 1 .. Len(inbox) : inbox[i][2] # "Deregister"

\* Whose state the ledger has, or will have, is up.
HeardUp ==
  /\ \A i \in 1 .. Len(inbox) : inbox[i][2] \in States => md[inbox[i][1]].up
  /\ \A m \in DOMAIN states : md[m].up

LinkInv ==
  /\ GatewayInv
  /\ ready \subseteq linked /\ deaths \in Nat
  /\ \A m \in Procs : md[m].ready \/ md[m].told => md[m].up
  /\ bound.deaths = 0 => NobodyDies /\ HeardUp
  /\ ~bound.ledger => inbox = << >>
  /\ bound.deaths = 0 \/ ~bound.ledger => InOrder

LEMMA UpAppend ==
  ASSUME NEW q \in Seq(Frames), NEW e \in Frames, NEW L, NEW m
  PROVE  /\ \A i \in 1 .. Len(q) + 1 : UpAt(q, L, m, i) => UpAt(Append(q, e), L, m, i)
         /\ e = <<m, "Register">> => UpAt(Append(q, e), L, m, Len(q) + 2)
         /\ e # <<m, "Deregister">> /\ UpAt(q, L, m, Len(q) + 1) => UpAt(Append(q, e), L, m, Len(q) + 2)
<1> DEFINE r == Append(q, e)
<1>1. /\ Len(q) \in Nat /\ Len(r) = Len(q) + 1 /\ r[Len(q) + 1] = e
      /\ \A i \in 1 .. Len(q) : r[i] = q[i]
  OBVIOUS
<1> HIDE DEF r
<1>2. ASSUME NEW i \in 1 .. Len(q) + 1, UpAt(q, L, m, i) PROVE UpAt(r, L, m, i)
  <2>1. \A l \in 1 .. i - 1 : r[l] = q[l]
    BY <1>1
  <2>2. CASE \E j \in 1 .. i - 1 :
               q[j] = <<m, "Register">> /\ \A l \in j + 1 .. i - 1 : q[l] # <<m, "Deregister">>
    <3>1. PICK j \in 1 .. i - 1 :
                 q[j] = <<m, "Register">> /\ \A l \in j + 1 .. i - 1 : q[l] # <<m, "Deregister">>
      BY <2>2
    <3>2. \A l \in j + 1 .. i - 1 : l \in 1 .. i - 1
      OBVIOUS
    <3>3. r[j] = <<m, "Register">> /\ \A l \in j + 1 .. i - 1 : r[l] # <<m, "Deregister">>
      BY <2>1, <3>1, <3>2
    <3>4. QED
      BY <3>3 DEF UpAt
  <2>3. CASE m \in L /\ \A l \in 1 .. i - 1 : q[l] # <<m, "Deregister">>
    BY <2>1, <2>3 DEF UpAt
  <2>4. QED
    BY <1>2, <2>2, <2>3 DEF UpAt
<1>3. ASSUME e = <<m, "Register">> PROVE UpAt(r, L, m, Len(q) + 2)
  <2>1. Len(q) + 1 \in 1 .. (Len(q) + 2) - 1 /\ r[Len(q) + 1] = <<m, "Register">>
    BY <1>1, <1>3
  <2>2. \A l \in (Len(q) + 1) + 1 .. (Len(q) + 2) - 1 : FALSE
    BY <1>1
  <2>3. QED
    BY <2>1, <2>2 DEF UpAt
<1>4. ASSUME e # <<m, "Deregister">>, UpAt(q, L, m, Len(q) + 1) PROVE UpAt(r, L, m, Len(q) + 2)
  <2>1. (Len(q) + 1) - 1 = Len(q) /\ (Len(q) + 2) - 1 = Len(q) + 1
    BY <1>1
  <2>2. \A l \in 1 .. Len(q) + 1 : l \in 1 .. Len(q) \/ l = Len(q) + 1
    BY <1>1
  <2>3. CASE \E j \in 1 .. Len(q) :
               q[j] = <<m, "Register">> /\ \A l \in j + 1 .. Len(q) : q[l] # <<m, "Deregister">>
    <3>1. PICK j \in 1 .. Len(q) :
                 q[j] = <<m, "Register">> /\ \A l \in j + 1 .. Len(q) : q[l] # <<m, "Deregister">>
      BY <2>3
    <3>2. \A l \in j + 1 .. Len(q) + 1 :
             (l \in j + 1 .. Len(q) /\ l \in 1 .. Len(q)) \/ l = Len(q) + 1
      BY <1>1
    <3>3. \A l \in j + 1 .. Len(q) + 1 : r[l] # <<m, "Deregister">>
      BY <1>1, <1>4, <3>1, <3>2
    <3>4. j \in 1 .. Len(q) + 1 /\ r[j] = <<m, "Register">>
      BY <1>1, <3>1
    <3>5. QED
      BY <2>1, <3>3, <3>4 DEF UpAt
  <2>4. CASE m \in L /\ \A l \in 1 .. Len(q) : q[l] # <<m, "Deregister">>
    <3>1. \A l \in 1 .. Len(q) + 1 : r[l] # <<m, "Deregister">>
      BY <1>1, <1>4, <2>2, <2>4
    <3>2. QED
      BY <2>1, <2>4, <3>1 DEF UpAt
  <2>5. QED
    BY <1>4, <2>1, <2>3, <2>4 DEF UpAt
<1>5. QED
  BY <1>2, <1>3, <1>4 DEF r

\* Without a Deregister, who was connected stays so.
LEMMA UpExtends ==
  ASSUME NEW q, NEW r, Len(q) \in Nat, \A i \in 1 .. Len(q) : r[i] = q[i], NEW L, NEW m,
         NEW i \in 1 .. Len(q) + 1, NEW k \in Nat, i <= k,
         \A l \in 1 .. k - 1 : r[l] # <<m, "Deregister">>, UpAt(q, L, m, i)
  PROVE  UpAt(r, L, m, k)
<1>1. \A j \in 1 .. i - 1 : j \in 1 .. k - 1 /\ r[j] = q[j] /\ \A l \in j + 1 .. k - 1 : l \in 1 .. k - 1
  OBVIOUS
<1>2. CASE \E j \in 1 .. i - 1 :
             q[j] = <<m, "Register">> /\ \A l \in j + 1 .. i - 1 : q[l] # <<m, "Deregister">>
  <2>1. PICK j \in 1 .. i - 1 : q[j] = <<m, "Register">>
    BY <1>2
  <2>2. j \in 1 .. k - 1 /\ r[j] = <<m, "Register">> /\ \A l \in j + 1 .. k - 1 : r[l] # <<m, "Deregister">>
    BY <1>1, <2>1
  <2>3. QED
    BY <2>2 DEF UpAt
<1>3. CASE m \in L
  BY <1>3 DEF UpAt
<1>4. QED
  BY <1>2, <1>3 DEF UpAt

LEMMA UpTail ==
  ASSUME NEW q \in Seq(Frames), q # << >>, NEW L, NEW M, NEW m,
         Head(q) = <<m, "Register">> => m \in M,
         Head(q) # <<m, "Deregister">> /\ m \in L => m \in M
  PROVE  \A i \in 1 .. Len(q) : UpAt(q, L, m, i + 1) => UpAt(Tail(q), M, m, i)
<1> DEFINE r == Tail(q)
<1>1. /\ Len(q) \in Nat \ {0} /\ Len(r) = Len(q) - 1 /\ Head(q) = q[1]
      /\ \A i \in 1 .. Len(q) - 1 : r[i] = q[i + 1]
  OBVIOUS
<1> HIDE DEF r
<1> SUFFICES ASSUME NEW i \in 1 .. Len(q), UpAt(q, L, m, i + 1) PROVE UpAt(r, M, m, i)
  BY DEF r
<1>2. (i + 1) - 1 = i /\ i \in Nat
  BY <1>1
<1>3. \A l \in 1 .. i - 1 : r[l] = q[l + 1] /\ l + 1 \in 1 .. i
  BY <1>1, <1>2
<1>4. CASE \E j \in 1 .. i :
             q[j] = <<m, "Register">> /\ \A l \in j + 1 .. i : q[l] # <<m, "Deregister">>
  <2>1. PICK j \in 1 .. i :
               q[j] = <<m, "Register">> /\ \A l \in j + 1 .. i : q[l] # <<m, "Deregister">>
    BY <1>4
  <2>2. CASE j = 1
    <3>1. \A l \in 1 .. i - 1 : r[l] # <<m, "Deregister">>
      <4>1. \A l \in 1 .. i - 1 : l + 1 \in j + 1 .. i
        BY <1>2, <2>2
      <4>2. QED
        BY <1>3, <2>1, <4>1
    <3>2. m \in M
      BY <1>1, <2>1, <2>2
    <3>3. QED
      BY <3>1, <3>2 DEF UpAt
  <2>3. CASE j # 1
    <3>1. j - 1 \in 1 .. i - 1 /\ (j - 1) + 1 = j
      BY <1>2, <2>3
    <3>2. r[j - 1] = <<m, "Register">>
      BY <1>3, <2>1, <3>1
    <3>3. \A l \in (j - 1) + 1 .. i - 1 : l \in 1 .. i - 1 /\ l + 1 \in j + 1 .. i
      BY <1>2, <3>1
    <3>4. \A l \in (j - 1) + 1 .. i - 1 : r[l] # <<m, "Deregister">>
      BY <1>3, <2>1, <3>3
    <3>5. QED
      BY <3>1, <3>2, <3>4 DEF UpAt
  <2>4. QED
    BY <2>2, <2>3
<1>5. CASE m \in L /\ \A l \in 1 .. i : q[l] # <<m, "Deregister">>
  <2>1. 1 \in 1 .. i
    BY <1>2
  <2>2. m \in M
    BY <1>1, <1>5, <2>1
  <2>3. \A l \in 1 .. i - 1 : r[l] # <<m, "Deregister">>
    BY <1>3, <1>5
  <2>4. QED
    BY <2>2, <2>3 DEF UpAt
<1>6. QED
  BY <1>2, <1>4, <1>5 DEF UpAt

LEMMA LinkKept ==
  ASSUME LinkInv, GatewayInv',
         UNCHANGED <<linked, ready, writers, news, ledger, md, bound, deaths>>
  PROVE  LinkInv'
  BY DEF LinkInv, InOrder, NobodyDies, HeardUp, ledger

\* Frames of a process and of others.
LEMMA PublishInOrder ==
  ASSUME GatewayInv, InOrder, NEW p \in Procs, NEW what \in {"Register", "Deregister"} \cup States,
         news' = Append(news, <<p, what>>), linked' = linked,
         what \in States => md[p].up, what = "Deregister" => ~md'[p].up,
         \A m \in Procs : md'[m].up => md[m].up \/ (m = p /\ what = "Register")
  PROVE  InOrder'
<1> DEFINE e == <<p, what>>
<1>1. e \in Frames /\ news \in Seq(Frames)
  BY DEF Frames, GatewayInv, Types, NewsTypes
<1>2. /\ Len(news) \in Nat /\ Len(news') = Len(news) + 1 /\ news'[Len(news) + 1] = e
      /\ \A i \in 1 .. Len(news) : news'[i] = news[i] /\ i \in 1 .. Len(news) + 1
      /\ \A i \in 1 .. Len(news') : i \in 1 .. Len(news) \/ i = Len(news) + 1
      /\ Len(news) + 1 \in 1 .. Len(news) + 1
  BY <1>1
<1>3. \A m : \A i \in 1 .. Len(news) + 1 : UpAt(news, linked, m, i) => UpAt(news', linked', m, i)
  BY <1>1, UpAppend
<1>4. ASSUME NEW i \in 1 .. Len(news'), news'[i][2] \in States
      PROVE  UpAt(news', linked', news'[i][1], i)
  <2>1. CASE i \in 1 .. Len(news)
    BY <1>2, <1>3, <1>4, <2>1 DEF InOrder
  <2>2. CASE i = Len(news) + 1
    <3>1. news'[i][1] = p /\ md[p].up
      BY <1>2, <1>4, <2>2
    <3>2. QED
      BY <1>2, <1>3, <2>2, <3>1 DEF InOrder
  <2>3. QED
    BY <1>2, <2>1, <2>2
<1>5. ASSUME NEW m \in Procs, md'[m].up
      PROVE  UpAt(news', linked', m, Len(news') + 1)
  <2>1. Len(news') + 1 = Len(news) + 2
    BY <1>2
  <2>2. CASE m = p /\ what = "Register"
    BY <1>1, <2>1, <2>2, UpAppend
  <2>3. CASE ~(m = p /\ what = "Register")
    <3>1. md[m].up /\ UpAt(news, linked, m, Len(news) + 1)
      BY <1>5, <2>3 DEF InOrder
    <3>2. e # <<m, "Deregister">>
      BY <1>5
    <3>3. QED
      BY <1>1, <2>1, <3>1, <3>2, UpAppend
  <2>4. QED
    BY <2>2, <2>3
<1>6. QED
  BY <1>4, <1>5 DEF InOrder

\* What process p tells, and what that says of it.
Stepped(p, what) ==
  /\ Publish(<<p, what>>)
  /\ \A m \in Procs \ {p} : md'[m] = md[m]
  /\ what \in States => md[p].up /\ md'[p].up /\ (md[p].reads => md'[p].reads)
  /\ what = "Register" => p \in bound.procs /\ ~md[p].up /\ md'[p].up /\ ~md'[p].reads
  /\ what = "Deregister" => md[p].up /\ ~md'[p].up /\ ~md'[p].reads /\ deaths < bound.deaths
  /\ what # "Deregister" => deaths' = deaths
  /\ deaths' \in Nat
  /\ md'[p].ready => what = "Ready"
  /\ md'[p].ready \/ md'[p].told => md'[p].up
  /\ served' = IF what = "Register" /\ p \in MDs THEN [served EXCEPT ![p] = {}] ELSE served
  /\ UNCHANGED <<sessions, replay, source, chan, crossed, ready, writers, linked, bound>>

LEMMA ServiceFrame ==
  ASSUME LinkInv, NEW p \in Procs,
         \/ Start(p) \/ Die(p)
         \/ FrontUp(p) \/ FrontDown(p) \/ Link(p)
  PROVE  \E what \in {"Register", "Deregister"} \cup States : Stepped(p, what)
<1> USE DEF LinkInv
<1>1. md \in [Procs -> [up : BOOLEAN, ready : BOOLEAN, told : BOOLEAN, reads : BOOLEAN]]
  BY DEF GatewayInv, Types, ServiceTypes
<1>2. UNCHANGED <<sessions, replay, source, chan, crossed, ready, writers, linked, bound>>
  BY DEF Start, Die, FrontUp, FrontDown, Link, hist, client, api
<1>3. CASE Start(p)
  <2>1. Publish(<<p, "Register">>) /\ deaths' = deaths /\ p \in bound.procs /\ ~md[p].up
    BY <1>3 DEF Start
  <2>2. /\ md'[p].up /\ ~md'[p].ready /\ ~md'[p].told /\ ~md'[p].reads
        /\ \A m \in Procs \ {p} : md'[m] = md[m]
    BY <1>1, <1>3 DEF Start
  <2>3. served' = IF p \in MDs THEN [served EXCEPT ![p] = {}] ELSE served
    BY <1>3 DEF Start
  <2>4. Stepped(p, "Register")
    BY <1>2, <2>1, <2>2, <2>3 DEF Stepped, States
  <2>5. QED
    BY <2>4
<1>4. CASE Die(p)
  <2>1. /\ Publish(<<p, "Deregister">>) /\ deaths < bound.deaths /\ deaths' = deaths + 1
        /\ served' = served /\ md[p].up
    BY <1>4 DEF Die
  <2>2. /\ ~md'[p].up /\ ~md'[p].ready /\ ~md'[p].told /\ ~md'[p].reads
        /\ \A m \in Procs \ {p} : md'[m] = md[m]
    BY <1>1, <1>4 DEF Die
  <2>3. Stepped(p, "Deregister")
    BY <1>2, <2>1, <2>2 DEF Stepped, States
  <2>4. QED
    BY <2>3
<1>5. CASE FrontUp(p)
  <2>1. Publish(<<p, "Ready">>) /\ deaths' = deaths /\ served' = served /\ md[p].up
    BY <1>5 DEF FrontUp
  <2>2. /\ md'[p].up /\ md'[p].ready /\ md'[p].reads = md[p].reads
        /\ \A m \in Procs \ {p} : md'[m] = md[m]
    BY <1>1, <1>5 DEF FrontUp
  <2>3. Stepped(p, "Ready")
    BY <1>2, <2>1, <2>2 DEF Stepped, States
  <2>4. QED
    BY <2>3 DEF States
<1>6. CASE FrontDown(p)
  <2>1. Publish(<<p, "DisConnected">>) /\ deaths' = deaths /\ served' = served /\ md[p].up
    BY <1>6 DEF FrontDown
  <2>2. /\ md'[p].up /\ ~md'[p].ready /\ md'[p].reads = md[p].reads
        /\ \A m \in Procs \ {p} : md'[m] = md[m]
    BY <1>1, <1>6, <2>1 DEF FrontDown
  <2>3. Stepped(p, "DisConnected")
    BY <1>2, <2>1, <2>2 DEF Stepped, States
  <2>4. QED
    BY <2>3 DEF States
<1>7. CASE Link(p)
  <2>1. Publish(<<p, StateOf(p)>>) /\ deaths' = deaths /\ served' = served /\ md[p].up
    BY <1>7 DEF Link
  <2>2. /\ md'[p].up /\ md'[p].ready = md[p].ready /\ md'[p].reads
        /\ \A m \in Procs \ {p} : md'[m] = md[m]
    BY <1>1, <1>7, <2>1 DEF Link
  <2>3. StateOf(p) \in {"Ready", "Idle"} /\ (md[p].ready => StateOf(p) = "Ready")
    BY DEF StateOf
  <2>4. Stepped(p, StateOf(p))
    BY <1>2, <2>1, <2>2, <2>3 DEF Stepped, States
  <2>5. QED
    BY <2>3, <2>4 DEF States
<1>8. QED
  BY <1>3, <1>4, <1>5, <1>6, <1>7

LEMMA ServiceLinks ==
  ASSUME LinkInv, NEW p \in Procs,
         \/ Start(p) \/ Die(p)
         \/ FrontUp(p) \/ FrontDown(p) \/ Link(p)
  PROVE  LinkInv'
<1> USE DEF LinkInv
<1>1. GatewayInv'
  BY ServiceStep
<1>2. UNCHANGED <<linked, writers, ready, bound>>
  BY DEF Start, Die, FrontUp, FrontDown, Link, hist, client
<1>3. md \in [Procs -> [up : BOOLEAN, ready : BOOLEAN, told : BOOLEAN, reads : BOOLEAN]]
  BY DEF GatewayInv, Types, ServiceTypes
<1>4. PICK what \in {"Register", "Deregister"} \cup States :
        /\ Publish(<<p, what>>)
        /\ what \in States => md[p].up
        /\ what = "Deregister" => ~md'[p].up /\ deaths < bound.deaths
        /\ what # "Deregister" => deaths' = deaths /\ \A m \in Procs : md[m].up => md'[m].up
        /\ \A m \in Procs : md'[m].up => md[m].up \/ (m = p /\ what = "Register")
        /\ \A m \in Procs : md'[m].ready \/ md'[m].told => md'[m].up
        /\ deaths' \in Nat
  <2>1. PICK what \in {"Register", "Deregister"} \cup States : Stepped(p, what)
    BY ServiceFrame
  <2>2. what = "Deregister" \/ md'[p].up
    BY <2>1 DEF Stepped
  <2>3. QED
    BY <2>1, <2>2 DEF Stepped, States
<1>5. /\ news' = Append(news, <<p, what>>) /\ states' = states
      /\ inbox' = inbox \/ (bound.ledger /\ inbox' = Append(inbox, <<p, what>>))
  BY <1>4 DEF Publish
<1>6. bound.deaths = 0 => NobodyDies' /\ HeardUp'
  <2> SUFFICES ASSUME bound.deaths = 0 PROVE NobodyDies' /\ HeardUp'
    OBVIOUS
  <2>1. what # "Deregister" /\ deaths' = deaths
    BY <1>4
  <2>2. news \in Seq(Frames) /\ inbox \in Seq(Frames) /\ <<p, what>> \in Frames
    BY DEF GatewayInv, Types, NewsTypes, Frames
  <2>3. NobodyDies'
    <3>1. \A q \in Seq(Frames) : \A i \in 1 .. Len(Append(q, <<p, what>>)) :
             \/ i \in 1 .. Len(q) /\ Append(q, <<p, what>>)[i] = q[i]
             \/ Append(q, <<p, what>>)[i] = <<p, what>>
      BY <2>2, AppendOne
    <3>2. \A i \in 1 .. Len(news') : news'[i][2] # "Deregister"
      BY <1>5, <2>1, <2>2, <3>1 DEF NobodyDies
    <3>3. \A i \in 1 .. Len(inbox') : inbox'[i][2] # "Deregister"
      <4>1. CASE inbox' = inbox
        BY <4>1 DEF NobodyDies
      <4>2. CASE inbox' = Append(inbox, <<p, what>>)
        BY <2>1, <2>2, <3>1, <4>2 DEF NobodyDies
      <4>3. QED
        BY <1>5, <4>1, <4>2
    <3>4. QED
      BY <1>2, <3>2, <3>3 DEF NobodyDies
  <2>4. \A m \in Procs : md[m].up => md'[m].up
    BY <1>4, <2>1
  <2>5. \A i \in 1 .. Len(inbox) : inbox[i] \in Frames /\ inbox[i][1] \in Procs
    BY <2>2, FrameFacts
  <2>6. DOMAIN states \subseteq Procs
    BY DEF GatewayInv, Types, NewsTypes
  <2>7. ASSUME NEW i \in 1 .. Len(inbox'), inbox'[i][2] \in States PROVE md'[inbox'[i][1]].up
    <3>1. (i \in 1 .. Len(inbox) /\ inbox'[i] = inbox[i]) \/ inbox'[i] = <<p, what>>
      BY <1>5, <2>2, AppendOne
    <3>2. QED
      BY <1>4, <2>4, <2>5, <2>7, <3>1 DEF HeardUp
  <2>8. QED
    BY <1>5, <2>3, <2>4, <2>6, <2>7 DEF HeardUp
<1>7. bound.deaths = 0 \/ ~bound.ledger => InOrder'
  BY <1>2, <1>4, <1>5, PublishInOrder
<1>8. QED
  BY <1>1, <1>2, <1>4, <1>5, <1>6, <1>7

LEMMA LedgerLinks ==
  ASSUME LinkInv, LedgerReact
  PROVE  LinkInv'
<1> USE DEF LinkInv
<1>1. GatewayInv' /\ UNCHANGED <<linked, writers, ready, bound, md, deaths>>
  BY LedgerStep DEF LedgerReact, client, services, hist
<1>2. NewsTypes
  BY DEF GatewayInv, Types
<1>3. bound.ledger
  BY <1>2, LedgerFrames
<1>4. bound.deaths = 0 => NobodyDies' /\ HeardUp' /\ InOrder'
  <2> SUFFICES ASSUME bound.deaths = 0 PROVE NobodyDies' /\ HeardUp' /\ InOrder'
    OBVIOUS
  <2> DEFINE m == Head(inbox)[1]
             what == Head(inbox)[2]
  <2>1. /\ inbox # << >> /\ inbox' = Tail(inbox) /\ inbox \in Seq(Frames) /\ news \in Seq(Frames)
        /\ news' \in Seq(Frames)
    BY <1>1, <1>2, LedgerFrames DEF LedgerReact, GatewayInv, Types, NewsTypes
  <2>2. /\ m \in Procs /\ what \in {"Register"} \cup States
        /\ \A i \in 1 .. Len(inbox') : i + 1 \in 1 .. Len(inbox) /\ inbox'[i] = inbox[i + 1]
        /\ what \in States => md[m].up
    BY <2>1, HeadTail, FrameFacts DEF NobodyDies, HeardUp
  <2>3. \A x \in DOMAIN states' : md[x].up /\ x \in Procs
    <3>1. states' = states \/ (what \in States /\ states' = With(states, m, what))
      BY <1>2, <2>2, LedgerFrames DEF LedgerTells, Known, States
    <3>a. DOMAIN With(states, m, what) = {m} \cup DOMAIN states
      BY WithFacts
    <3>2. DOMAIN states' \subseteq DOMAIN states \cup {m} /\ (what \notin States => DOMAIN states' = DOMAIN states)
      <4>1. CASE states' = states
        BY <4>1
      <4>2. CASE what \in States /\ states' = With(states, m, what)
        BY <3>a, <4>2
      <4>3. QED
        BY <3>1, <4>1, <4>2
    <3>3. DOMAIN states \subseteq Procs /\ \A x \in DOMAIN states : md[x].up
      BY <1>2 DEF HeardUp, NewsTypes
    <3>4. QED
      BY <2>2, <3>2, <3>3
  <2>4. HeardUp'
    BY <1>1, <2>2, <2>3 DEF HeardUp
  <2>5. PICK r : /\ r \in Seq(Procs \X States) /\ news' = news \o r
                 /\ \A i \in 1 .. Len(r) : r[i][1] \in DOMAIN states'
    <3>1. CASE what = "Register"
      <4>1. news' = news
        BY <1>2, <3>1, LedgerFrames DEF LedgerTells
      <4>2. news' = news \o << >> /\ << >> \in Seq(Procs \X States) /\ Len(<< >>) = 0
        BY <2>1, <4>1
      <4>3. \A i \in 1 .. Len(<< >>) : FALSE
        BY <4>2
      <4>4. QED
        BY <4>2, <4>3
    <3>2. CASE what # "Register"
      BY <1>2, <3>2, LedgerFrames DEF LedgerTells, Retold
    <3>3. QED
      BY <3>1, <3>2
  <2>6. /\ Len(news) \in Nat /\ Len(r) \in Nat /\ Len(news') = Len(news) + Len(r)
        /\ \A i \in 1 .. Len(news) : news'[i] = news[i]
        /\ \A i \in 1 .. Len(r) : news'[Len(news) + i] = r[i] /\ r[i] \in Procs \X States
    BY <2>1, <2>5
  <2>7. \A i \in 1 .. Len(news') :
          \/ i \in 1 .. Len(news) /\ news'[i] = news[i]
          \/ /\ news'[i][1] \in DOMAIN states' /\ news'[i][2] \in States /\ i > Len(news)
    <3> TAKE i \in 1 .. Len(news')
    <3>1. CASE i \in 1 .. Len(news)
      BY <2>6, <3>1
    <3>2. CASE i \notin 1 .. Len(news)
      <4>1. i - Len(news) \in 1 .. Len(r) /\ i = Len(news) + (i - Len(news)) /\ i > Len(news)
        BY <2>6, <3>2
      <4>2. news'[i] = r[i - Len(news)] /\ r[i - Len(news)] \in Procs \X States
        BY <2>6, <4>1
      <4>3. QED
        BY <2>5, <4>1, <4>2
    <3>3. QED
      BY <3>1, <3>2
  <2>8. \A i \in 1 .. Len(news') : news'[i][2] # "Deregister"
    BY <2>7 DEF NobodyDies, States
  <2>9. NobodyDies'
    BY <1>1, <2>2, <2>8 DEF NobodyDies
  <2>10. \A x, l : l \in 1 .. Len(news') => news'[l] # <<x, "Deregister">>
    BY <2>8
  <2>11. ASSUME NEW x, NEW i \in 1 .. Len(news) + 1, NEW k \in 1 .. Len(news') + 1, i <= k,
                UpAt(news, linked, x, i)
         PROVE  UpAt(news', linked', x, k)
    <3>1. \A l \in 1 .. k - 1 : l \in 1 .. Len(news')
      BY <2>6
    <3>2. \A l \in 1 .. k - 1 : news'[l] # <<x, "Deregister">>
      BY <2>10, <3>1
    <3>3. k \in Nat /\ linked' = linked
      BY <1>1, <2>6
    <3>4. QED
      BY <2>6, <2>11, <3>2, <3>3, UpExtends
  <2>12. ASSUME NEW i \in 1 .. Len(news'), news'[i][2] \in States
         PROVE  UpAt(news', linked', news'[i][1], i)
    <3>1. i \in 1 .. Len(news') + 1
      BY <2>6
    <3>2. CASE i \in 1 .. Len(news) /\ news'[i] = news[i]
      <4>1. UpAt(news, linked, news[i][1], i)
        BY <2>12, <3>2 DEF InOrder
      <4>2. i \in 1 .. Len(news) + 1 /\ i <= i
        BY <2>6, <3>2
      <4>3. QED
        BY <2>11, <3>1, <3>2, <4>1, <4>2
    <3>3. CASE news'[i][1] \in DOMAIN states' /\ i > Len(news)
      <4>1. UpAt(news, linked, news'[i][1], Len(news) + 1)
        BY <2>3, <3>3 DEF InOrder
      <4>2. Len(news) + 1 \in 1 .. Len(news) + 1 /\ Len(news) + 1 <= i
        BY <2>6, <3>3
      <4>3. QED
        BY <2>11, <3>1, <4>1, <4>2
    <3>4. QED
      BY <2>7, <3>2, <3>3
  <2>13. ASSUME NEW x \in Procs, md'[x].up PROVE UpAt(news', linked', x, Len(news') + 1)
    <3>1. UpAt(news, linked, x, Len(news) + 1)
      BY <1>1, <2>13 DEF InOrder
    <3>2. /\ Len(news) + 1 \in 1 .. Len(news) + 1 /\ Len(news') + 1 \in 1 .. Len(news') + 1
          /\ Len(news) + 1 <= Len(news') + 1
      BY <2>6
    <3>3. QED
      BY <2>11, <3>1, <3>2
  <2>14. QED
    BY <2>4, <2>9, <2>12, <2>13 DEF InOrder
<1>5. QED
  BY <1>1, <1>3, <1>4

\* What the event loop does with a frame is what UpAt foretold.
LEMMA ReactLinks ==
  ASSUME LinkInv, React, bound.deaths = 0 \/ ~bound.ledger
  PROVE  LinkInv'
<1> USE DEF LinkInv
<1> DEFINE m == Head(news)[1]
           what == Head(news)[2]
<1>1. /\ news # << >> /\ news' = Tail(news) /\ UNCHANGED <<inbox, states, deaths, bound>>
  BY DEF React, ledger, hist
<1>2. GatewayInv' /\ news \in Seq(Frames) /\ md \in [Procs -> [up : BOOLEAN, ready : BOOLEAN, told : BOOLEAN, reads : BOOLEAN]]
  BY ReactStep DEF GatewayInv, Types, NewsTypes, ServiceTypes
<1>3. /\ Head(news) = <<m, what>> /\ m \in Procs /\ what \in {"Register", "Deregister"} \cup States
      /\ Head(news) = news[1] /\ 1 \in 1 .. Len(news) /\ Len(news) \in Nat
  BY <1>1, <1>2, HeadTail, FrameFacts
<1>4. /\ what = "Register" => linked' = linked \cup {m} /\ writers' = writers \cup {m} /\ ready' = ready
      /\ what = "Deregister" => linked' = linked \ {m} /\ ready' = ready \ {m}
      /\ what \in States => /\ UNCHANGED <<linked, writers>>
                            /\ ready' \subseteq ready \/ (ready' = ready \cup {m} /\ m \in writers)
  <2>1. CASE what = "Register"
    BY <2>1 DEF React, connect, States
  <2>2. CASE what = "Deregister"
    BY <2>2 DEF React, deregister, Forget, States
  <2>3. CASE what \in States
    <3>1. update_broker_state(m, what)
      BY <2>3 DEF React, States
    <3>2. QED
      BY <2>3, <3>1 DEF update_broker_state, States
  <2>4. QED
    BY <1>3, <2>1, <2>2, <2>3
<1>5. \A x \in Procs : md'[x].up = md[x].up /\ md'[x].ready = md[x].ready /\ (md'[x].told => md[x].told \/ md[x].up)
  <2>1. md' = md \/ (md[m].up /\ md' = [md EXCEPT ![m].told = TRUE])
    <3>1. CASE what = "Register"
      BY <3>1 DEF React, connect
    <3>2. CASE what = "Deregister"
      BY <3>2 DEF React, deregister
    <3>3. CASE what \in States
      BY <3>3 DEF React, update_broker_state, States
    <3>4. QED
      BY <1>3, <3>1, <3>2, <3>3
  <2>2. QED
    BY <1>2, <1>3, <2>1
<1>6. ready' \subseteq linked'
  <2>1. CASE what \in {"Register", "Deregister"}
    BY <1>4, <2>1
  <2>2. CASE what \in States
    <3>1. m \in writers => m \in linked
      <4>1. CASE bound.deaths = 0
        BY <4>1 DEF NobodyDies
      <4>2. CASE ~bound.ledger
        <5>1. UpAt(news, linked, m, 1)
          BY <1>3, <2>2 DEF InOrder
        <5>2. QED
          BY <5>1 DEF UpAt
      <4>3. QED
        BY <4>1, <4>2
    <3>2. QED
      BY <1>4, <2>2, <3>1
  <2>3. QED
    BY <1>3, <2>1, <2>2
<1>7. bound.deaths = 0 => NobodyDies' /\ HeardUp'
  <2> SUFFICES ASSUME bound.deaths = 0 PROVE NobodyDies' /\ HeardUp'
    OBVIOUS
  <2>1. what # "Deregister"
    BY <1>3 DEF NobodyDies
  <2>2. linked' = writers'
    <3>1. linked = writers
      BY DEF NobodyDies
    <3>2. CASE what = "Register"
      BY <1>4, <3>1, <3>2
    <3>3. CASE what \in States
      BY <1>4, <3>1, <3>3
    <3>4. QED
      BY <1>3, <2>1, <3>2, <3>3
  <2>3. \A i \in 1 .. Len(news') : news'[i][2] # "Deregister"
    BY <1>1, <1>2, HeadTail DEF NobodyDies
  <2>4. HeardUp'
    <3>1. inbox \in Seq(Frames) /\ DOMAIN states \subseteq Procs
      BY DEF GatewayInv, Types, NewsTypes
    <3>2. \A i \in 1 .. Len(inbox) : inbox[i] \in Frames /\ inbox[i][1] \in Procs
      BY <3>1, FrameFacts
    <3>3. QED
      BY <1>1, <1>5, <3>1, <3>2 DEF HeardUp
  <2>5. QED
    BY <1>1, <2>2, <2>3, <2>4 DEF NobodyDies
<1>8. InOrder'
  <2>1. InOrder
    OBVIOUS
  <2>2. \A x : (Head(news) = <<x, "Register">> => x \in linked')
             /\ (Head(news) # <<x, "Deregister">> /\ x \in linked => x \in linked')
    BY <1>3, <1>4
  <2>3. ASSUME NEW x PROVE \A i \in 1 .. Len(news) : UpAt(news, linked, x, i + 1) => UpAt(news', linked', x, i)
    <3>1. /\ Head(news) = <<x, "Register">> => x \in linked'
          /\ Head(news) # <<x, "Deregister">> /\ x \in linked => x \in linked'
      BY <2>2
    <3>2. news \in Seq(Frames) /\ news # << >> /\ news' = Tail(news)
      BY <1>1, <1>2
    <3>3. QED
      BY ONLY <3>1, <3>2, UpTail
  <2>4. /\ \A i \in 1 .. Len(news') : /\ i + 1 \in 1 .. Len(news) /\ news'[i] = news[i + 1]
                                      /\ i \in 1 .. Len(news)
        /\ Len(news') + 1 = Len(news) /\ Len(news) \in 1 .. Len(news)
    BY <1>1, <1>2, <1>3
  <2>5. \A i \in 1 .. Len(news') : news'[i][2] \in States => UpAt(news', linked', news'[i][1], i)
    BY <2>1, <2>3, <2>4 DEF InOrder
  <2>6. \A x \in Procs : md'[x].up => UpAt(news', linked', x, Len(news') + 1)
    BY <1>5, <2>1, <2>3, <2>4 DEF InOrder
  <2>7. QED
    BY <2>5, <2>6 DEF InOrder
<1>9. QED
  BY <1>1, <1>2, <1>5, <1>6, <1>7, <1>8

LEMMA InitLinks == Init => LinkInv
<1> SUFFICES ASSUME Init PROVE LinkInv
  OBVIOUS
<1>1. GatewayInv
  BY InitGateway
<1>2. \A m \in Procs : ~md[m].up /\ ~md[m].ready /\ ~md[m].told
  BY DEF Init
<1>3. QED
  BY <1>1, <1>2 DEF Init, LinkInv, InOrder, NobodyDies, HeardUp

LEMMA NextLinks ==
  ASSUME \A b \in Scenarios : b.deaths = 0 \/ ~b.ledger
  PROVE  LinkInv /\ [Next]_vars => LinkInv'
<1> SUFFICES ASSUME LinkInv, [Next]_vars PROVE LinkInv'
  OBVIOUS
<1>1. GatewayInv' /\ (bound.deaths = 0 \/ ~bound.ledger)
  BY NextGateway DEF LinkInv, GatewayInv, Types, ServiceTypes
<1>2. CASE \E s \in Clients : Accept(s) \/ Receive(s) \/ Close(s)
  <2>1. UNCHANGED <<linked, ready, writers, news, ledger, md, bound, deaths>>
    BY <1>2 DEF Accept, Receive, Close, client, ledger, services, hist
  <2>2. QED
    BY <1>1, <2>1, LinkKept
<1>3. CASE Disconnect
  <2>1. UNCHANGED <<linked, ready, writers, news, ledger, md, bound, deaths>>
    BY <1>3 DEF Disconnect, client, ledger, services, hist
  <2>2. QED
    BY <1>1, <2>1, LinkKept
<1>4. CASE Drain
  <2>1. UNCHANGED <<news, ledger, md, bound, deaths>>
    BY <1>4 DEF Drain, ledger, services
  <2>2. UNCHANGED <<linked, ready, writers>>
    <3>1. Head(requests) \in Clients \X Requests
      BY <1>4, HeadTail DEF Drain, LinkInv, GatewayInv, Types, ThreadTypes
    <3>2. Head(requests)[2] \in Requests
      BY <3>1
    <3>3. Head(requests)[2].method \in {"request_market_data", "cancel_market_data",
                                        "subscribe_strategy", "unsubscribe_strategy", "issue_order"}
      BY <3>2, RequestKinds
    <3>4. QED
      BY <1>4, <3>3 DEF Drain, handle_request_market_data, handle_cancel_market_data,
                        handle_subscribe_strategy, handle_unsubscribe_strategy,
                        handle_issue_order, client
  <2>3. QED
    BY <1>1, <2>1, <2>2, LinkKept
<1>5. CASE React
  BY <1>1, <1>5, ReactLinks
<1>6. CASE LedgerReact
  BY <1>6, LedgerLinks
<1>7. CASE \E p \in Procs : Start(p) \/ Die(p)
  BY <1>7, ServiceLinks
<1>8. CASE \E m \in MDs : FrontUp(m) \/ FrontDown(m) \/ Link(m)
  BY <1>8, ServiceLinks DEF Procs
<1>9. CASE \E m \in MDs : Serve(m)
  <2>1. UNCHANGED <<linked, ready, writers, news, ledger, md, bound, deaths>>
    BY <1>9 DEF Serve, client, ledger, services, hist
  <2>2. QED
    BY <1>1, <2>1, LinkKept
<1>10. CASE UNCHANGED vars
  <2>1. UNCHANGED <<linked, ready, writers, news, ledger, md, bound, deaths>>
    BY <1>10 DEF vars, client, ledger, services, hist
  <2>2. QED
    BY <1>1, <2>1, LinkKept
<1>11. QED
  BY <1>2, <1>3, <1>4, <1>5, <1>6, <1>7, <1>8, <1>9, <1>10 DEF Next

LEMMA LinkTypes == LinkInv => TypeOK
  BY DEF LinkInv, GatewayInv, Types, ThreadTypes, SessionTypes, SourceTypes, MonitorTypes, Routed,
         Session, TypeOK

\* The gateway's tables keep their shape, a service is ready only while it is connected
\* and connected only with a writer (Client::update_broker_state, Client::connect): in
\* every scenario in which no ledger repeats the state of a service that died.
THEOREM GatewayTypes ==
  ASSUME \A b \in Scenarios : b.deaths = 0 \/ ~b.ledger
  PROVE  Spec => []TypeOK
<1>1. Init => LinkInv
  BY InitLinks
<1>2. LinkInv /\ [Next]_vars => LinkInv'
  BY NextLinks
<1>3. LinkInv => TypeOK
  BY LinkTypes
<1>4. QED
  BY <1>1, <1>2, <1>3, PTL DEF Spec

----------------------------------------------------------------------------
(***************************************************************************)
(* ServedExactly.  For an instrument asked of one service only, the replay *)
(* set is what the sessions want; what a service serves once it has read   *)
(* its channel is never more than that, and, once the gateway has it as    *)
(* ready and no Deregister of it is on the way, never less.                *)
(***************************************************************************)

Commands == {"sub", "unsub"} \X Keys

\* Once a service that serves S has applied the commands q, it serves k.
Follows(q, S, k) ==
  \/ k \in S /\ \A i \in 1 .. Len(q) : q[i][2] # k
  \/ \E i \in 1 .. Len(q) : q[i] = <<"sub", k>> /\ \A j \in i + 1 .. Len(q) : q[j][2] # k

\* k is to be served by m
Due(k, m) == k \in replay /\ k \in DOMAIN source /\ source[k] = m

\* A session that wants k has asked one service for it, the one it is replayed to.
Asking(rec, k, src, ws) ==
  /\ k \in rec.keys <=> \E m \in MDs : <<m, k>> \in rec.mds
  /\ \A m \in MDs : <<m, k>> \in rec.mds => m \in ws /\ k \in DOMAIN src /\ src[k] = m

Shared(k) ==
  /\ \A s \in DOMAIN sessions : Asking(sessions[s], k, source, writers)
  /\ k \in replay <=> Wanted(k)

Pending(m) == \E i \in 1 .. Len(news) : news[i] = <<m, "Deregister">>

Fed(k) ==
  \A m \in MDs :
    /\ Follows(chan[m], served[m], k) => Due(k, m)
    /\ m \in ready /\ ~Pending(m) /\ Due(k, m) => Follows(chan[m], served[m], k)

ChannelTypes ==
  /\ chan \in [MDs -> Seq(Commands)] /\ served \in [MDs -> SUBSET Keys]
  /\ \A k \in DOMAIN source : source[k] \in MDs

ChannelInv == ChannelTypes /\ \A k \in Keys \ crossed : Shared(k) /\ Fed(k)

\* q2 is q and then op for each of ks
Sent(q, q2, op, ks) ==
  /\ q2 \in Seq(Commands)
  /\ \A S, k : Follows(q2, S, k) <=> IF k \in ks THEN op = "sub" ELSE Follows(q, S, k)

LEMMA SentAll ==
  ASSUME NEW q \in Seq(Commands), NEW op \in {"sub", "unsub"}, NEW ks \in SUBSET Keys
  PROVE  Sent(q, q \o SetToSeq({<<op, k>> : k \in ks}), op, ks)
<1> DEFINE S == {<<op, k>> : k \in ks}
           r == SetToSeq(S)
           q2 == q \o r
<1>1. IsFiniteSet(S)
  <2> DEFINE f == [k \in ks |-> <<op, k>>]
  <2>1. f \in Surjection(ks, S)
    BY DEF Surjection
  <2>2. IsFiniteSet(ks)
    BY GatewayAssumption, FS_Subset
  <2>3. QED
    BY <2>1, <2>2, FS_Surjection
<1>2. /\ r \in Seq(S) /\ \A e \in S : \E i \in 1 .. Len(r) : r[i] = e
      /\ \A i, j \in 1 .. Len(r) : r[i] = r[j] => i = j
  BY <1>1, SequenceOfSet
<1>3. (\A e \in S : e[1] = op /\ e[2] \in ks /\ e = <<op, e[2]>>) /\ (\A k \in ks : <<op, k>> \in S) /\ S \subseteq Commands
  BY DEF Commands
<1> HIDE DEF S, r
<1>4. r \in Seq(Commands) /\ Len(r) \in Nat /\ \A i \in 1 .. Len(r) : r[i] \in S
  BY <1>2, <1>3
<1>5. \A i \in 1 .. Len(r) : r[i] = <<op, r[i][2]>> /\ r[i][2] \in ks
  BY <1>3, <1>4
<1>6. /\ q2 \in Seq(Commands) /\ Len(q) \in Nat /\ Len(q2) = Len(q) + Len(r)
      /\ \A i \in 1 .. Len(q) : q2[i] = q[i]
      /\ \A i \in 1 .. Len(r) : q2[Len(q) + i] = r[i]
  BY <1>4
<1> HIDE DEF q2
<1>7. \A i \in 1 .. Len(q2) : i \in 1 .. Len(q) \/ (i - Len(q) \in 1 .. Len(r) /\ i = Len(q) + (i - Len(q)))
  BY <1>4, <1>6
<1>8. \A i \in 1 .. Len(q2) : i \in 1 .. Len(q) \/ (q2[i] = <<op, q2[i][2]>> /\ q2[i][2] \in ks /\ i > Len(q))
  <2> TAKE i \in 1 .. Len(q2)
  <2>1. CASE i - Len(q) \in 1 .. Len(r) /\ i = Len(q) + (i - Len(q))
    <3>1. q2[i] = r[i - Len(q)]
      BY <1>6, <2>1
    <3>2. QED
      BY <1>5, <1>6, <2>1, <3>1
  <2>2. QED
    BY <1>7, <2>1
<1>9. ASSUME NEW W, NEW k \in ks PROVE Follows(q2, W, k) <=> op = "sub"
  <2>1. PICK i \in 1 .. Len(r) : r[i] = <<op, k>>
    BY <1>2, <1>3
  <2>2. Len(q) + i \in 1 .. Len(q2) /\ q2[Len(q) + i] = <<op, k>>
    BY <1>4, <1>6, <2>1
  <2>3. Follows(q2, W, k) => op = "sub"
    <3> SUFFICES ASSUME Follows(q2, W, k) PROVE op = "sub"
      OBVIOUS
    <3>a. Len(q) + i \in 1 .. Len(q2) /\ q2[Len(q) + i][2] = k
      BY <2>2
    <3>1. PICK j \in 1 .. Len(q2) : q2[j] = <<"sub", k>> /\ \A l \in j + 1 .. Len(q2) : q2[l][2] # k
      BY <3>a DEF Follows
    <3>2. Len(q) + i \notin j + 1 .. Len(q2)
      BY <3>a, <3>1
    <3>3. Len(q) + i <= j
      BY <1>6, <2>2, <3>2
    <3>4. j \notin 1 .. Len(q)
      BY <1>6, <3>3
    <3>5. QED
      BY <1>8, <3>1, <3>4
  <2>4. ASSUME op = "sub" PROVE Follows(q2, W, k)
    <3>1. ASSUME NEW l \in Len(q) + i + 1 .. Len(q2) PROVE q2[l][2] # k
      <4>1. l - Len(q) \in 1 .. Len(r) /\ l - Len(q) # i /\ l = Len(q) + (l - Len(q))
        BY <1>4, <1>6
      <4>2. q2[l] = r[l - Len(q)]
        BY <1>6, <4>1
      <4>3. r[l - Len(q)] # r[i]
        BY <1>2, <4>1
      <4>4. QED
        BY <1>5, <2>1, <4>1, <4>2, <4>3
    <3>2. QED
      BY <2>2, <2>4, <3>1 DEF Follows
  <2>5. QED
    BY <2>3, <2>4
<1>10. ASSUME NEW W, NEW k, k \notin ks PROVE Follows(q2, W, k) <=> Follows(q, W, k)
  <2>1. \A i \in 1 .. Len(q2) : q2[i][2] = k => i \in 1 .. Len(q)
    BY <1>8, <1>10
  <2>2. \A i \in 1 .. Len(q) : i \in 1 .. Len(q2) /\ q2[i] = q[i]
    BY <1>4, <1>6
  <2>3. (\A i \in 1 .. Len(q2) : q2[i][2] # k) <=> (\A i \in 1 .. Len(q) : q[i][2] # k)
    BY <2>1, <2>2
  <2>4. \A i \in 1 .. Len(q) : (\A j \in i + 1 .. Len(q2) : q2[j][2] # k) <=> (\A j \in i + 1 .. Len(q) : q[j][2] # k)
    <3> TAKE i \in 1 .. Len(q)
    <3>1. \A j \in i + 1 .. Len(q2) : j \in 1 .. Len(q2) /\ (j \in 1 .. Len(q) => j \in i + 1 .. Len(q))
      BY <1>6
    <3>2. \A j \in i + 1 .. Len(q) : j \in 1 .. Len(q) /\ j \in i + 1 .. Len(q2)
      BY <1>4, <1>6
    <3>3. QED
      BY <2>1, <2>2, <3>1, <3>2
  <2>5. \A i \in 1 .. Len(q2) : q2[i] = <<"sub", k>> => i \in 1 .. Len(q) /\ q[i] = <<"sub", k>>
    BY <2>1, <2>2
  <2>6. QED
    BY <2>2, <2>3, <2>4, <2>5 DEF Follows
<1>11. Sent(q, q2, op, ks)
  BY <1>6, <1>9, <1>10 DEF Sent
<1>12. QED
  BY <1>11 DEF q2, r, S

\* A service that applies a command keeps following.
LEMMA FollowsTail ==
  ASSUME NEW q \in Seq(Commands), q # << >>, NEW S, NEW T, NEW k,
         k \in T <=> IF Head(q)[2] = k THEN Head(q)[1] = "sub" ELSE k \in S
  PROVE  Follows(Tail(q), T, k) <=> Follows(q, S, k)
<1> DEFINE r == Tail(q)
<1>1. /\ Len(q) \in Nat \ {0} /\ Len(r) = Len(q) - 1 /\ Head(q) = q[1] /\ q[1] \in Commands
      /\ \A i \in 1 .. Len(r) : r[i] = q[i + 1]
  OBVIOUS
<1>2. q[1][2] = k => (q[1] = <<"sub", k>> <=> k \in T)
  BY <1>1 DEF Commands
<1>3. q[1][2] # k => (k \in S <=> k \in T)
  BY <1>1
<1> HIDE DEF r
<1>4. \A i \in 1 .. Len(q) : i = 1 \/ (i - 1 \in 1 .. Len(r) /\ q[i] = r[i - 1])
  BY <1>1
<1>5. \A i \in 1 .. Len(r) : i + 1 \in 1 .. Len(q) /\ i + 1 # 1 /\ q[i + 1] = r[i]
  BY <1>1
<1>6. (\A i \in 1 .. Len(q) : q[i][2] # k) <=> q[1][2] # k /\ \A i \in 1 .. Len(r) : r[i][2] # k
  <2>1. 1 \in 1 .. Len(q)
    BY <1>1
  <2>2. ASSUME \A i \in 1 .. Len(q) : q[i][2] # k, NEW i \in 1 .. Len(r) PROVE r[i][2] # k
    BY <1>5, <2>2
  <2>3. ASSUME q[1][2] # k, \A i \in 1 .. Len(r) : r[i][2] # k, NEW i \in 1 .. Len(q) PROVE q[i][2] # k
    BY <1>4, <2>3
  <2>4. QED
    BY <2>1, <2>2, <2>3
<1>7. \A i \in 1 .. Len(r) : (\A j \in i + 1 .. Len(r) : r[j][2] # k) <=> (\A j \in (i + 1) + 1 .. Len(q) : q[j][2] # k)
  <2> TAKE i \in 1 .. Len(r)
  <2>1. \A j \in i + 1 .. Len(r) : j \in 1 .. Len(r) /\ j + 1 \in (i + 1) + 1 .. Len(q)
    BY <1>1
  <2>2. \A j \in (i + 1) + 1 .. Len(q) : j \in 1 .. Len(q) /\ j # 1 /\ j - 1 \in i + 1 .. Len(r)
    BY <1>1
  <2>3. ASSUME \A j \in i + 1 .. Len(r) : r[j][2] # k, NEW j \in (i + 1) + 1 .. Len(q) PROVE q[j][2] # k
    <3>1. q[j] = r[j - 1] /\ j - 1 \in i + 1 .. Len(r)
      BY <1>4, <2>2
    <3>2. QED
      BY <2>3, <3>1
  <2>4. ASSUME \A j \in (i + 1) + 1 .. Len(q) : q[j][2] # k, NEW j \in i + 1 .. Len(r) PROVE r[j][2] # k
    <3>1. q[j + 1] = r[j] /\ j + 1 \in (i + 1) + 1 .. Len(q)
      BY <1>5, <2>1
    <3>2. QED
      BY <2>4, <3>1
  <2>5. QED
    BY <2>3, <2>4
<1>8. (\A j \in 1 + 1 .. Len(q) : q[j][2] # k) <=> (\A j \in 1 .. Len(r) : r[j][2] # k)
  <2>1. \A j \in 1 .. Len(r) : j + 1 \in 1 + 1 .. Len(q)
    BY <1>1
  <2>2. \A j \in 1 + 1 .. Len(q) : j \in 1 .. Len(q) /\ j # 1
    BY <1>1
  <2>3. ASSUME \A j \in 1 .. Len(r) : r[j][2] # k, NEW j \in 1 + 1 .. Len(q) PROVE q[j][2] # k
    <3>1. q[j] = r[j - 1] /\ j - 1 \in 1 .. Len(r)
      BY <1>4, <2>2
    <3>2. QED
      BY <2>3, <3>1
  <2>4. ASSUME \A j \in 1 + 1 .. Len(q) : q[j][2] # k, NEW j \in 1 .. Len(r) PROVE r[j][2] # k
    <3>1. q[j + 1] = r[j] /\ j + 1 \in 1 + 1 .. Len(q)
      BY <1>5, <2>1
    <3>2. QED
      BY <2>4, <3>1
  <2>5. QED
    BY <2>3, <2>4
<1>9. (\E i \in 1 .. Len(q) : q[i] = <<"sub", k>> /\ \A j \in i + 1 .. Len(q) : q[j][2] # k)
      <=> \/ q[1] = <<"sub", k>> /\ \A j \in 1 .. Len(r) : r[j][2] # k
          \/ \E i \in 1 .. Len(r) : r[i] = <<"sub", k>> /\ \A j \in i + 1 .. Len(r) : r[j][2] # k
  <2>1. 1 \in 1 .. Len(q)
    BY <1>1
  <2>2. ASSUME NEW i \in 1 .. Len(q), q[i] = <<"sub", k>>, \A j \in i + 1 .. Len(q) : q[j][2] # k
        PROVE  \/ q[1] = <<"sub", k>> /\ \A j \in 1 .. Len(r) : r[j][2] # k
               \/ \E x \in 1 .. Len(r) : r[x] = <<"sub", k>> /\ \A j \in x + 1 .. Len(r) : r[j][2] # k
    <3>1. CASE i = 1
      BY <1>8, <2>2, <3>1
    <3>2. CASE i # 1
      <4>1. i - 1 \in 1 .. Len(r) /\ r[i - 1] = <<"sub", k>> /\ (i - 1) + 1 = i
        BY <1>4, <2>2, <3>2
      <4>2. \A j \in (i - 1) + 1 .. Len(r) : r[j][2] # k
        BY <1>7, <2>2, <4>1
      <4>3. QED
        BY <4>1, <4>2
    <3>3. QED
      BY <3>1, <3>2
  <2>3. ASSUME NEW i \in 1 .. Len(r), r[i] = <<"sub", k>>, \A j \in i + 1 .. Len(r) : r[j][2] # k
        PROVE  \E x \in 1 .. Len(q) : q[x] = <<"sub", k>> /\ \A j \in x + 1 .. Len(q) : q[j][2] # k
    <3>1. i + 1 \in 1 .. Len(q) /\ q[i + 1] = <<"sub", k>>
      BY <1>5, <2>3
    <3>2. \A j \in (i + 1) + 1 .. Len(q) : q[j][2] # k
      BY <1>7, <2>3
    <3>3. QED
      BY <3>1, <3>2
  <2>4. QED
    BY <1>8, <2>1, <2>2, <2>3
<1>10. (\E i \in 1 .. Len(r) : r[i] = <<"sub", k>> /\ \A j \in i + 1 .. Len(r) : r[j][2] # k)
       => ~(\A i \in 1 .. Len(r) : r[i][2] # k)
  OBVIOUS
<1>11. Follows(r, T, k) <=> Follows(q, S, k)
  <2> DEFINE A == \E i \in 1 .. Len(r) : r[i] = <<"sub", k>> /\ \A j \in i + 1 .. Len(r) : r[j][2] # k
             B == \A i \in 1 .. Len(r) : r[i][2] # k
             C == \E i \in 1 .. Len(q) : q[i] = <<"sub", k>> /\ \A j \in i + 1 .. Len(q) : q[j][2] # k
             D == \A i \in 1 .. Len(q) : q[i][2] # k
  <2>1. (Follows(r, T, k) <=> (k \in T /\ B) \/ A) /\ (Follows(q, S, k) <=> (k \in S /\ D) \/ C)
    BY Zenon DEF Follows
  <2>2. D <=> q[1][2] # k /\ B
    BY <1>6
  <2>3. C <=> (q[1] = <<"sub", k>> /\ B) \/ A
    BY <1>9
  <2>4. q[1] = <<"sub", k>> => q[1][2] = k
    OBVIOUS
  <2> HIDE DEF A, B, C, D
  <2>5. QED
    BY <1>2, <1>3, <2>1, <2>2, <2>3, <2>4
<1>12. QED
  BY <1>11 DEF r

LEMMA FollowsFacts ==
  ASSUME NEW q, NEW S, NEW k
  PROVE  /\ Follows(<< >>, S, k) <=> k \in S
         /\ Follows(q, {}, k) => Follows(q, S, k)
         /\ k \notin S /\ (\A i \in 1 .. Len(q) : q[i][2] # k) => ~Follows(q, S, k)
<1>1. Follows(<< >>, S, k) <=> k \in S
  <2>1. \A i \in 1 .. Len(<< >>) : FALSE
    OBVIOUS
  <2>2. QED
    BY <2>1 DEF Follows
<1>2. Follows(q, {}, k) => Follows(q, S, k)
  BY DEF Follows
<1>3. k \notin S /\ (\A i \in 1 .. Len(q) : q[i][2] # k) => ~Follows(q, S, k)
  <2>1. \A i : q[i] = <<"sub", k>> => q[i][2] = k
    OBVIOUS
  <2>2. QED
    BY <2>1 DEF Follows
<1>4. QED
  BY <1>1, <1>2, <1>3

\* What the sessions keep of a key.
LEMMA FedKept ==
  ASSUME NEW k, Fed(k), UNCHANGED <<served, ready, news>>,
         \A m \in MDs : Follows(chan'[m], served[m], k) <=> Follows(chan[m], served[m], k),
         \A m \in MDs : Due(k, m)' <=> Due(k, m)
  PROVE  Fed(k)'
<1>1. \A m : Pending(m)' <=> Pending(m)
  BY DEF Pending
<1>2. QED
  BY <1>1, Zenon DEF Fed

LEMMA FedEven ==
  ASSUME NEW k, UNCHANGED served,
         \A m \in MDs : Follows(chan'[m], served[m], k) <=> Due(k, m)'
  PROVE  Fed(k)'
  BY Zenon DEF Fed

LEMMA WantedBy ==
  ASSUME NEW s, NEW k
  PROVE  Wanted(k) <=> k \in At(s).keys \/ OthersNeed(sessions, s, k)
<1>1. Wanted(k) <=> (s \in DOMAIN sessions /\ k \in sessions[s].keys) \/ OthersNeed(sessions, s, k)
  BY DEF Wanted, OthersNeed
<1>2. CASE s \in DOMAIN sessions
  BY <1>1, <1>2 DEF At
<1>3. CASE s \notin DOMAIN sessions
  BY <1>1, <1>3 DEF At, Absent
<1>4. QED
  BY <1>2, <1>3

\* the key of a request that is not about this one
LEMMA WantedPut ==
  ASSUME NEW s, NEW rec, NEW k, sessions' = With(sessions, s, rec)
  PROVE  /\ Wanted(k)' <=> k \in rec.keys \/ OthersNeed(sessions, s, k)
         /\ \A x \in DOMAIN sessions' :
               (x = s /\ sessions'[x] = rec) \/ (x \in DOMAIN sessions \ {s} /\ sessions'[x] = sessions[x])
<1> DEFINE f == sessions
           g == sessions'
<1>1. g = With(f, s, rec)
  OBVIOUS
<1> HIDE DEF f, g
<1>2. DOMAIN g = {s} \cup DOMAIN f /\ g[s] = rec /\ \A x \in DOMAIN f \ {s} : g[x] = f[x]
  BY <1>1 DEF With
<1>3. \A x \in DOMAIN g : (x = s /\ g[x] = rec) \/ (x \in DOMAIN f \ {s} /\ g[x] = f[x])
  BY <1>2
<1>4. (\E x \in DOMAIN g : k \in g[x].keys) <=> k \in rec.keys \/ \E x \in DOMAIN f \ {s} : k \in f[x].keys
  <2>1. \A x \in DOMAIN g : (x = s /\ g[x] = rec) \/ (x \in DOMAIN f \ {s} /\ g[x] = f[x])
    BY <1>3
  <2>2. \A x \in DOMAIN f \ {s} : x \in DOMAIN g /\ g[x] = f[x]
    BY <1>2
  <2>3. s \in DOMAIN g /\ g[s] = rec
    BY <1>2
  <2> HIDE <1>2
  <2>4. QED
    BY <2>1, <2>2, <2>3
<1>5. QED
  BY <1>3, <1>4 DEF Wanted, OthersNeed, f, g

LEMMA AskingAt ==
  ASSUME NEW s, NEW k, Shared(k)
  PROVE  Asking(At(s), k, source, writers)
<1>1. CASE s \in DOMAIN sessions
  BY <1>1 DEF At, Shared
<1>2. CASE s \notin DOMAIN sessions
  BY <1>2 DEF At, Absent, Asking
<1>3. QED
  BY <1>1, <1>2

\* What an entry and the source of a key say of it.
SameAsk(rec, old, k) ==
  /\ k \in rec.keys <=> k \in old.keys
  /\ \A m \in MDs : <<m, k>> \in rec.mds <=> <<m, k>> \in old.mds

SameSource(k) ==
  /\ k \in replay' <=> k \in replay
  /\ k \in DOMAIN source' <=> k \in DOMAIN source
  /\ k \in DOMAIN source => source'[k] = source[k]

LEMMA DueSame ==
  ASSUME NEW k, SameSource(k)
  PROVE  \A m : Due(k, m)' <=> Due(k, m)
  BY DEF SameSource, Due

LEMMA AskingSame ==
  ASSUME NEW rec, NEW old, NEW k, SameAsk(rec, old, k), SameSource(k), Asking(old, k, source, writers),
         writers \subseteq writers'
  PROVE  Asking(rec, k, source', writers')
<1>1. k \in rec.keys <=> \E m \in MDs : <<m, k>> \in rec.mds
  BY DEF SameAsk, Asking
<1>2. \A m \in MDs : <<m, k>> \in rec.mds => m \in writers' /\ k \in DOMAIN source' /\ source'[k] = m
  BY DEF SameAsk, SameSource, Asking
<1>3. QED
  BY <1>1, <1>2 DEF Asking

\* A session's entry changes, though not in what it says of k.
LEMMA PutOther ==
  ASSUME NEW s, NEW rec, NEW k, Shared(k), sessions' = With(sessions, s, rec),
         SameAsk(rec, At(s), k), SameSource(k), UNCHANGED writers
  PROVE  Shared(k)'
<1>1. /\ Wanted(k)' <=> k \in rec.keys \/ OthersNeed(sessions, s, k)
      /\ \A x \in DOMAIN sessions' :
            (x = s /\ sessions'[x] = rec) \/ (x \in DOMAIN sessions \ {s} /\ sessions'[x] = sessions[x])
  BY WantedPut
<1>2. Wanted(k) <=> k \in At(s).keys \/ OthersNeed(sessions, s, k)
  BY WantedBy
<1>3. Wanted(k)' <=> Wanted(k)
  BY <1>1, <1>2 DEF SameAsk
<1>4. \A x : SameAsk(sessions[x], sessions[x], k)
  BY DEF SameAsk
<1>5. ASSUME NEW x \in DOMAIN sessions' PROVE Asking(sessions'[x], k, source', writers')
  <2>1. CASE x = s /\ sessions'[x] = rec
    <3>1. Asking(At(s), k, source, writers)
      BY AskingAt
    <3>2. QED
      BY <2>1, <3>1, AskingSame
  <2>2. CASE x \in DOMAIN sessions \ {s} /\ sessions'[x] = sessions[x]
    <3>1. Asking(sessions[x], k, source, writers)
      BY <2>2 DEF Shared
    <3>2. QED
      BY <1>4, <2>2, <3>1, AskingSame
  <2>3. QED
    BY <1>1, <2>1, <2>2
<1>6. k \in replay' <=> Wanted(k)'
  BY <1>3 DEF Shared, SameSource
<1>7. QED
  BY <1>5, <1>6 DEF Shared

LEMMA SharedSame ==
  ASSUME NEW k, Shared(k), UNCHANGED <<sessions, replay, source>>, writers \subseteq writers'
  PROVE  Shared(k)'
  BY DEF Shared, Asking, Wanted

\* Nothing is said of k.
LEMMA FedSame ==
  ASSUME NEW k, Fed(k), UNCHANGED <<served, ready, news, chan>>, SameSource(k)
  PROVE  Fed(k)'
<1>1. \A m \in MDs : Due(k, m)' <=> Due(k, m)
  BY DueSame
<1>2. \A m \in MDs : Follows(chan'[m], served[m], k) <=> Follows(chan[m], served[m], k)
  OBVIOUS
<1>3. QED
  BY <1>1, <1>2, FedKept

\* The market data tables stay as they are.
LEMMA ChannelsKept ==
  ASSUME ChannelInv, UNCHANGED <<sessions, replay, source, writers, chan, served, ready, news, crossed>>
  PROVE  ChannelInv'
<1>1. ChannelTypes'
  BY DEF ChannelInv, ChannelTypes
<1>2. \A k : SameSource(k)
  BY DEF SameSource
<1>3. ASSUME NEW k \in Keys \ crossed' PROVE Shared(k)' /\ Fed(k)'
  <2>1. Shared(k) /\ Fed(k)
    BY <1>3 DEF ChannelInv
  <2>2. QED
    BY <1>2, <2>1, SharedSame, FedSame
<1>4. QED
  BY <1>1, <1>3 DEF ChannelInv

\* A session's entry changes, though not in what it asks for.
LEMMA WatchKept ==
  ASSUME ChannelInv, NEW s, NEW rec, sessions' = With(sessions, s, rec),
         rec.keys = At(s).keys, rec.mds = At(s).mds,
         UNCHANGED <<replay, source, writers, chan, served, ready, news, crossed>>
  PROVE  ChannelInv'
<1>1. ChannelTypes'
  BY DEF ChannelInv, ChannelTypes
<1>2. \A k : SameSource(k) /\ SameAsk(rec, At(s), k)
  BY DEF SameSource, SameAsk
<1>3. ASSUME NEW k \in Keys \ crossed' PROVE Shared(k)' /\ Fed(k)'
  <2>1. Shared(k) /\ Fed(k)
    BY <1>3 DEF ChannelInv
  <2>2. QED
    BY <1>2, <2>1, PutOther, FedSame
<1>4. QED
  BY <1>1, <1>3 DEF ChannelInv

LEMMA AcceptServed ==
  ASSUME GatewayInv, ChannelInv, NEW s \in Clients, Accept(s)
  PROVE  ChannelInv'
<1>1. s \notin DOMAIN sessions
  BY DEF GatewayInv, Arrived, Accept
<1>2. At(s) = Absent
  BY <1>1 DEF At
<1>3. /\ sessions' = With(sessions, s, Absent)
      /\ UNCHANGED <<replay, source, writers, chan, served, ready, news, crossed>>
  BY DEF Accept, client, services, hist
<1>4. QED
  BY <1>2, <1>3, WatchKept

LEMMA SentTo ==
  ASSUME ChannelTypes, NEW m \in MDs, NEW op \in {"sub", "unsub"}, NEW ks \in SUBSET Keys
  PROVE  /\ Send(chan, m, op, ks) \in [MDs -> Seq(Commands)]
         /\ Sent(chan[m], Send(chan, m, op, ks)[m], op, ks)
         /\ \A x \in MDs \ {m} : Send(chan, m, op, ks)[x] = chan[x]
<1>1. chan \in [MDs -> Seq(Commands)] /\ chan[m] \in Seq(Commands)
  BY DEF ChannelTypes
<1> DEFINE q == chan[m] \o SetToSeq({<<op, k>> : k \in ks})
<1>2. Sent(chan[m], q, op, ks)
  BY <1>1, SentAll
<1>3. q \in Seq(Commands)
  BY <1>2 DEF Sent
<1>4. Send(chan, m, op, ks) = [chan EXCEPT ![m] = q]
  BY DEF Send
<1> HIDE DEF q
<1>5. QED
  BY <1>1, <1>2, <1>3, <1>4

\* What has been sent to one service.
LEMMA FollowsSent ==
  ASSUME NEW m, NEW op, NEW ks, NEW k, NEW old, NEW new, Sent(old, new, op, ks)
  PROVE  /\ k \in ks => (Follows(new, served[m], k) <=> op = "sub")
         /\ k \notin ks => (Follows(new, served[m], k) <=> Follows(old, served[m], k))
  BY DEF Sent

\* The tables after a request for k0 from m.
LEMMA AskedTables ==
  ASSUME GatewayInv, ChannelInv, NEW s \in Clients, NEW m \in MDs, NEW k0 \in Keys,
         handle_request_market_data(s, m, k0), m \in writers
  PROVE  \E rec \in Session :
           /\ sessions' = With(sessions, s, rec)
           /\ \A k : k \in rec.keys <=> k \in At(s).keys \/ k = k0
           /\ \A x, k : <<x, k>> \in rec.mds <=> <<x, k>> \in At(s).mds \/ (x = m /\ k = k0)
           /\ replay' = replay \cup {k0}
           /\ DOMAIN source' = DOMAIN source \cup {k0}
           /\ \A k \in DOMAIN source : source'[k] = source[k]
           /\ k0 \in DOMAIN source \/ source'[k0] = m
<1> DEFINE old == At(s)
           rec == [old EXCEPT !.keys = @ \cup {k0}, !.mds = @ \cup {<<m, k0>>}]
<1>1. old \in Session
  BY AtType DEF GatewayInv, Types
<1>2. sessions' = With(sessions, s, rec) /\ replay' = replay \cup {k0} /\ source' = Emplace(source, k0, m)
  BY DEF handle_request_market_data, Put
<1> HIDE DEF old
<1>3. /\ rec \in Session /\ rec.keys = old.keys \cup {k0} /\ rec.mds = old.mds \cup {<<m, k0>>}
  <2>1. old.keys \cup {k0} \subseteq Keys /\ old.mds \cup {<<m, k0>>} \subseteq MDs \X Keys
    BY <1>1, SessionFields
  <2> DEFINE K == old.keys \cup {k0}
             P == old.mds \cup {<<m, k0>>}
  <2>2. rec = [old EXCEPT !.keys = K, !.mds = P]
    OBVIOUS
  <2>3. K \in SUBSET Keys /\ P \in SUBSET (MDs \X Keys)
    BY <2>1
  <2>4. K = old.keys \cup {k0} /\ P = old.mds \cup {<<m, k0>>}
    OBVIOUS
  <2> HIDE DEF K, P, rec
  <2>5. rec \in Session /\ rec.keys = K /\ rec.mds = P
    BY <1>1, <2>2, <2>3 DEF Session
  <2>6. QED
    BY <2>4, <2>5
<1>4. (\A x, k : <<x, k>> = <<m, k0>> <=> x = m /\ k = k0)
  OBVIOUS
<1> HIDE DEF rec
<1>5. \A x, k : <<x, k>> \in rec.mds <=> <<x, k>> \in old.mds \/ (x = m /\ k = k0)
  BY <1>3, <1>4
<1>6. /\ DOMAIN source' = DOMAIN source \cup {k0}
      /\ \A k \in DOMAIN source : source'[k] = source[k]
      /\ k0 \in DOMAIN source \/ source'[k0] = m
  <2>1. CASE k0 \in DOMAIN source
    BY <1>2, <2>1 DEF Emplace
  <2>2. CASE k0 \notin DOMAIN source
    <3>1. source' = With(source, k0, m)
      BY <1>2, <2>2 DEF Emplace
    <3>2. QED
      BY <2>2, <3>1 DEF With
  <2>3. QED
    BY <2>1, <2>2
<1>7. \A k : k \in rec.keys <=> k \in old.keys \/ k = k0
  BY <1>3
<1>8. QED
  BY <1>2, <1>3, <1>5, <1>6, <1>7 DEF old

LEMMA RequestServed ==
  ASSUME GatewayInv, ChannelInv, NEW s \in Clients, NEW m \in MDs, NEW k0 \in Keys,
         handle_request_market_data(s, m, k0), UNCHANGED <<served, news>>
  PROVE  ChannelInv'
<1>1. UNCHANGED <<writers, ready>>
  BY DEF handle_request_market_data
<1>2. CASE m \notin writers
  <2>1. UNCHANGED <<sessions, replay, source, chan, crossed>>
    BY <1>2 DEF handle_request_market_data
  <2>2. QED
    BY <1>1, <2>1, ChannelsKept
<1>3. CASE m \in writers
  <2>1. PICK rec \in Session :
           /\ sessions' = With(sessions, s, rec)
           /\ \A k : k \in rec.keys <=> k \in At(s).keys \/ k = k0
           /\ \A x, k : <<x, k>> \in rec.mds <=> <<x, k>> \in At(s).mds \/ (x = m /\ k = k0)
           /\ replay' = replay \cup {k0}
           /\ DOMAIN source' = DOMAIN source \cup {k0}
           /\ \A k \in DOMAIN source : source'[k] = source[k]
           /\ k0 \in DOMAIN source \/ source'[k0] = m
    BY <1>3, AskedTables
  <2>2. ChannelTypes /\ \A k \in DOMAIN source : source[k] \in MDs
    BY DEF ChannelInv, ChannelTypes
  <2>3. IF Wanted(k0) THEN chan' = chan ELSE chan' = Send(chan, m, "sub", {k0})
    BY <1>3 DEF handle_request_market_data, Wanted
  <2>4. /\ Send(chan, m, "sub", {k0}) \in [MDs -> Seq(Commands)]
        /\ Sent(chan[m], Send(chan, m, "sub", {k0})[m], "sub", {k0})
        /\ \A x \in MDs \ {m} : Send(chan, m, "sub", {k0})[x] = chan[x]
    BY <2>2, SentTo
  <2>5. ChannelTypes'
    <3>1. chan' \in [MDs -> Seq(Commands)]
      BY <2>2, <2>3, <2>4 DEF ChannelTypes
    <3>2. \A k \in DOMAIN source' : source'[k] \in MDs
      BY <2>1, <2>2
    <3>3. QED
      BY <2>2, <3>1, <3>2 DEF ChannelTypes
  <2>6. crossed \subseteq crossed'
    BY <1>3 DEF handle_request_market_data
  <2>7. ASSUME NEW k \in Keys \ crossed', k # k0 PROVE Shared(k)' /\ Fed(k)'
    <3>1. Shared(k) /\ Fed(k)
      BY <2>6, <2>7 DEF ChannelInv
    <3>2. SameSource(k) /\ SameAsk(rec, At(s), k)
      BY <2>1, <2>7 DEF SameSource, SameAsk
    <3>3. Shared(k)'
      BY <1>1, <2>1, <3>1, <3>2, PutOther
    <3>4. \A x \in MDs : Follows(chan'[x], served[x], k) <=> Follows(chan[x], served[x], k)
      <4> TAKE x \in MDs
      <4>1. CASE chan' = chan \/ x # m
        BY <2>3, <2>4, <4>1
      <4>2. CASE chan' = Send(chan, m, "sub", {k0}) /\ x = m
        <5>1. k \notin {k0} /\ Sent(chan[m], chan'[m], "sub", {k0})
          BY <2>4, <2>7, <4>2
        <5>2. QED
          BY <4>2, <5>1, FollowsSent
      <4>3. QED
        BY <2>3, <4>1, <4>2
    <3>5. \A x \in MDs : Due(k, x)' <=> Due(k, x)
      BY <3>2, DueSame
    <3>6. QED
      BY <1>1, <3>1, <3>3, <3>4, <3>5, FedKept
  <2>8. ASSUME k0 \notin crossed' PROVE Shared(k0)' /\ Fed(k0)'
    <3>1. /\ Shared(k0) /\ Fed(k0)
      BY <2>6, <2>8 DEF ChannelInv
    <3>2. \A x \in MDs \ {m} : /\ ~(k0 \in DOMAIN source /\ source[k0] = x)
                               /\ k0 \notin served[x]
                               /\ ~(\E i \in DOMAIN chan[x] : chan[x][i][2] = k0)
      BY <1>3, <2>8 DEF handle_request_market_data
    <3>3. k0 \in DOMAIN source' /\ source'[k0] = m /\ k0 \in replay' /\ (k0 \in DOMAIN source => source[k0] = m)
      BY <2>1, <2>2, <3>2
    <3>4. Wanted(k0)'
      BY <2>1, WantedPut
    <3>5. ASSUME NEW x \in DOMAIN sessions' PROVE Asking(sessions'[x], k0, source', writers')
      <4>1. (x = s /\ sessions'[x] = rec) \/ (x \in DOMAIN sessions \ {s} /\ sessions'[x] = sessions[x])
        BY <2>1, <3>5, WantedPut
      <4>2. CASE x = s /\ sessions'[x] = rec
        <5>1. Asking(At(s), k0, source, writers)
          BY <3>1, AskingAt
        <5>2. k0 \in rec.keys /\ <<m, k0>> \in rec.mds
          BY <2>1
        <5>3. \A y \in MDs : <<y, k0>> \in rec.mds => y = m
          BY <2>1, <3>3, <5>1 DEF Asking
        <5>4. QED
          BY <1>1, <1>3, <3>3, <4>2, <5>2, <5>3 DEF Asking
      <4>3. CASE x \in DOMAIN sessions \ {s} /\ sessions'[x] = sessions[x]
        <5>1. Asking(sessions[x], k0, source, writers)
          BY <3>1, <4>3 DEF Shared
        <5>2. \A y \in MDs : <<y, k0>> \in sessions[x].mds => y = m
          BY <3>3, <5>1 DEF Asking
        <5>3. k0 \in sessions[x].keys <=> \E y \in MDs : <<y, k0>> \in sessions[x].mds
          BY <5>1 DEF Asking
        <5>4. QED
          BY <1>1, <1>3, <3>3, <4>3, <5>2, <5>3 DEF Asking
      <4>4. QED
        BY <4>1, <4>2, <4>3
    <3>6. Shared(k0)'
      BY <3>3, <3>4, <3>5 DEF Shared
    <3>7. \A x \in MDs : Due(k0, x)' <=> x = m
      BY <3>3 DEF Due
    <3>8. CASE Wanted(k0)
      <4>1. k0 \in replay
        BY <3>1, <3>8 DEF Shared
      <4>2. k0 \in DOMAIN source
        <5>1. PICK x \in DOMAIN sessions : k0 \in sessions[x].keys
          BY <3>8 DEF Wanted
        <5>2. Asking(sessions[x], k0, source, writers)
          BY <3>1 DEF Shared
        <5>3. QED
          BY <5>1, <5>2 DEF Asking
      <4>3. \A x \in MDs : Due(k0, x) <=> x = m
        BY <3>3, <4>1, <4>2 DEF Due
      <4>4. chan' = chan
        BY <2>3, <3>8
      <4>5. \A x \in MDs : Due(k0, x)' <=> Due(k0, x)
        BY <3>7, <4>3
      <4>6. QED
        BY <1>1, <3>1, <3>6, <4>4, <4>5, FedKept
    <3>9. CASE ~Wanted(k0)
      <4>1. chan' = Send(chan, m, "sub", {k0})
        BY <2>3, <3>9
      <4>2. Follows(chan'[m], served[m], k0)
        <5>1. Sent(chan[m], chan'[m], "sub", {k0}) /\ k0 \in {k0}
          BY <2>4, <4>1
        <5>2. QED
          BY <5>1, FollowsSent
      <4>3. ASSUME NEW x \in MDs, x # m PROVE ~Follows(chan'[x], served[x], k0)
        <5>1. chan'[x] = chan[x] /\ chan[x] \in Seq(Commands)
          BY <2>2, <2>4, <4>1, <4>3 DEF ChannelTypes
        <5>2. k0 \notin served[x] /\ \A i \in 1 .. Len(chan[x]) : chan[x][i][2] # k0
          BY <3>2, <4>3, <5>1
        <5>3. QED
          BY <5>1, <5>2, FollowsFacts
      <4>4. \A x \in MDs : Follows(chan'[x], served[x], k0) <=> Due(k0, x)'
        BY <3>7, <4>2, <4>3
      <4>5. QED
        BY <3>6, <4>4, FedEven
    <3>10. QED
      BY <3>8, <3>9
  <2>9. \A k \in Keys \ crossed' : Shared(k)' /\ Fed(k)'
    BY <2>7, <2>8
  <2>10. QED
    BY <2>5, <2>9 DEF ChannelInv
<1>4. QED
  BY <1>2, <1>3

\* The tables after a cancel of k0 from m.
LEMMA CancelledTables ==
  ASSUME GatewayInv, NEW s \in Clients, NEW m \in MDs, NEW k0 \in Keys,
         handle_cancel_market_data(s, m, k0)
  PROVE  \E rec \in Session :
           /\ sessions' = With(sessions, s, rec)
           /\ \A k : k \in rec.keys <=> k \in At(s).keys /\ k # k0
           /\ \A x, k : <<x, k>> \in rec.mds <=> <<x, k>> \in At(s).mds /\ ~(x = m /\ k = k0)
<1> DEFINE old == At(s)
           rec == [old EXCEPT !.keys = @ \ {k0}, !.mds = @ \ {<<m, k0>>}]
           K == old.keys \ {k0}
           P == old.mds \ {<<m, k0>>}
<1>1. old \in Session
  BY AtType DEF GatewayInv, Types
<1>2. sessions' = With(sessions, s, rec) /\ rec = [old EXCEPT !.keys = K, !.mds = P]
  BY DEF handle_cancel_market_data, Put
<1> HIDE DEF old
<1>3. K \in SUBSET Keys /\ P \in SUBSET (MDs \X Keys)
  BY <1>1, SessionFields
<1>4. (\A k : k \in K <=> k \in old.keys /\ k # k0) /\ \A x, k : <<x, k>> \in P <=> <<x, k>> \in old.mds /\ ~(x = m /\ k = k0)
  <2>1. \A x, k : <<x, k>> = <<m, k0>> <=> x = m /\ k = k0
    OBVIOUS
  <2>2. QED
    BY <2>1
<1> HIDE DEF K, P, rec
<1>5. rec \in Session /\ rec.keys = K /\ rec.mds = P
  BY <1>1, <1>2, <1>3 DEF Session
<1>6. QED
  BY <1>2, <1>4, <1>5 DEF old

LEMMA CancelServed ==
  ASSUME GatewayInv, ChannelInv, NEW s \in Clients, NEW m \in MDs, NEW k0 \in Keys,
         handle_cancel_market_data(s, m, k0), UNCHANGED <<served, news>>
  PROVE  ChannelInv'
<1> DEFINE gone == m \in writers /\ ~OthersNeed(sessions, s, k0)
<1>1. UNCHANGED <<writers, ready>> /\ crossed \subseteq crossed'
  BY DEF handle_cancel_market_data
<1>2. IF gone
      THEN chan' = Send(chan, m, "unsub", {k0}) /\ replay' = replay \ {k0} /\ source' = Without(source, {k0})
      ELSE UNCHANGED <<chan, replay, source>>
  BY DEF handle_cancel_market_data
<1>3. PICK rec \in Session :
           /\ sessions' = With(sessions, s, rec)
           /\ \A k : k \in rec.keys <=> k \in At(s).keys /\ k # k0
           /\ \A x, k : <<x, k>> \in rec.mds <=> <<x, k>> \in At(s).mds /\ ~(x = m /\ k = k0)
  BY CancelledTables
<1>4. ChannelTypes /\ \A k \in DOMAIN source : source[k] \in MDs
  BY DEF ChannelInv, ChannelTypes
<1>5. /\ Send(chan, m, "unsub", {k0}) \in [MDs -> Seq(Commands)]
      /\ Sent(chan[m], Send(chan, m, "unsub", {k0})[m], "unsub", {k0})
      /\ \A x \in MDs \ {m} : Send(chan, m, "unsub", {k0})[x] = chan[x]
  BY <1>4, SentTo
<1>6. /\ DOMAIN Without(source, {k0}) = DOMAIN source \ {k0}
      /\ \A k \in DOMAIN source \ {k0} : Without(source, {k0})[k] = source[k]
  BY WithoutFacts
<1>7. ChannelTypes'
  <2>1. chan' \in [MDs -> Seq(Commands)]
    BY <1>2, <1>4, <1>5 DEF ChannelTypes
  <2>2. \A k \in DOMAIN source' : source'[k] \in MDs
    <3>1. CASE gone
      BY <1>2, <1>4, <1>6, <3>1
    <3>2. CASE ~gone
      BY <1>2, <1>4, <3>2
    <3>3. QED
      BY <3>1, <3>2
  <2>3. QED
    BY <1>4, <2>1, <2>2 DEF ChannelTypes
<1> HIDE DEF gone
<1>8. ASSUME NEW k \in Keys \ crossed', k # k0 PROVE Shared(k)' /\ Fed(k)'
  <2>1. Shared(k) /\ Fed(k)
    BY <1>1, <1>8 DEF ChannelInv
  <2>2. SameSource(k)
    <3>1. CASE gone
      BY <1>2, <1>6, <1>8, <3>1 DEF SameSource
    <3>2. CASE ~gone
      BY <1>2, <3>2 DEF SameSource
    <3>3. QED
      BY <3>1, <3>2
  <2>3. SameAsk(rec, At(s), k)
    BY <1>3, <1>8 DEF SameAsk
  <2>4. Shared(k)'
    BY <1>1, <1>3, <2>1, <2>2, <2>3, PutOther
  <2>5. \A x \in MDs : Follows(chan'[x], served[x], k) <=> Follows(chan[x], served[x], k)
    <3> TAKE x \in MDs
    <3>1. CASE chan' = chan \/ x # m
      BY <1>2, <1>5, <3>1
    <3>2. CASE chan' = Send(chan, m, "unsub", {k0}) /\ x = m
      <4>1. k \notin {k0} /\ Sent(chan[m], chan'[m], "unsub", {k0})
        BY <1>5, <1>8, <3>2
      <4>2. QED
        BY <3>2, <4>1, FollowsSent
    <3>3. QED
      BY <1>2, <3>1, <3>2
  <2>6. \A x \in MDs : Due(k, x)' <=> Due(k, x)
    BY <2>2, DueSame
  <2>7. QED
    BY <1>1, <2>1, <2>4, <2>5, <2>6, FedKept
<1>9. ASSUME k0 \notin crossed' PROVE Shared(k0)' /\ Fed(k0)'
  <2>1. Shared(k0) /\ Fed(k0)
    BY <1>1, <1>9 DEF ChannelInv
  <2>2. \A x \in MDs \ {m} : <<x, k0>> \notin At(s).mds
    BY <1>9 DEF handle_cancel_market_data
  <2>3. Asking(At(s), k0, source, writers)
    BY <2>1, AskingAt
  <2>4. k0 \notin rec.keys /\ \A x \in MDs : <<x, k0>> \notin rec.mds
    BY <1>3, <2>2
  <2>5. Wanted(k0)' <=> OthersNeed(sessions, s, k0)
    BY <1>3, <2>4, WantedPut
  <2>6. Wanted(k0) <=> k0 \in At(s).keys \/ OthersNeed(sessions, s, k0)
    BY WantedBy
  <2>7. k0 \in At(s).keys => m \in writers /\ k0 \in DOMAIN source /\ source[k0] = m
    BY <2>2, <2>3 DEF Asking
  <2>8. CASE gone
    <3>1. ~Wanted(k0)' /\ k0 \notin replay'
      BY <1>2, <2>5, <2>8 DEF gone
    <3>2. ASSUME NEW x \in DOMAIN sessions' PROVE Asking(sessions'[x], k0, source', writers')
      <4>1. (x = s /\ sessions'[x] = rec) \/ (x \in DOMAIN sessions \ {s} /\ sessions'[x] = sessions[x])
        BY <1>3, <3>2, WantedPut
      <4>2. CASE x = s /\ sessions'[x] = rec
        BY <2>4, <4>2 DEF Asking
      <4>3. CASE x \in DOMAIN sessions \ {s} /\ sessions'[x] = sessions[x]
        <5>1. k0 \notin sessions[x].keys
          BY <2>8, <4>3 DEF gone, OthersNeed
        <5>2. Asking(sessions[x], k0, source, writers)
          BY <2>1, <4>3 DEF Shared
        <5>3. QED
          BY <4>3, <5>1, <5>2 DEF Asking
      <4>4. QED
        BY <4>1, <4>2, <4>3
    <3>3. Shared(k0)'
      BY <3>1, <3>2 DEF Shared
    <3>4. \A x : ~Due(k0, x)'
      BY <3>1 DEF Due
    <3>5. chan' = Send(chan, m, "unsub", {k0})
      BY <1>2, <2>8
    <3>6. ~Follows(chan'[m], served[m], k0)
      <4>1. Sent(chan[m], chan'[m], "unsub", {k0}) /\ k0 \in {k0}
        BY <1>5, <3>5
      <4>2. QED
        BY <4>1, FollowsSent
    <3>7. ASSUME NEW x \in MDs, x # m PROVE ~Follows(chan'[x], served[x], k0)
      <4>1. chan'[x] = chan[x]
        BY <1>5, <3>5, <3>7
      <4>2. SUFFICES ASSUME Follows(chan[x], served[x], k0) PROVE FALSE
        BY <4>1
      <4>3. Due(k0, x)
        BY <2>1, <4>2 DEF Fed
      <4>4. k0 \in At(s).keys
        BY <2>1, <2>6, <2>8, <4>3 DEF Due, Shared, gone
      <4>5. QED
        BY <2>7, <3>7, <4>3, <4>4 DEF Due
    <3>8. \A x \in MDs : Follows(chan'[x], served[x], k0) <=> Due(k0, x)'
      BY <3>4, <3>6, <3>7
    <3>9. QED
      BY <3>3, <3>8, FedEven
  <2>9. CASE ~gone
    <3>1. UNCHANGED <<chan, replay, source>>
      BY <1>2, <2>9
    <3>2. Wanted(k0)' <=> Wanted(k0)
      BY <2>5, <2>6, <2>7, <2>9 DEF gone
    <3>3. ASSUME NEW x \in DOMAIN sessions' PROVE Asking(sessions'[x], k0, source', writers')
      <4>1. (x = s /\ sessions'[x] = rec) \/ (x \in DOMAIN sessions \ {s} /\ sessions'[x] = sessions[x])
        BY <1>3, <3>3, WantedPut
      <4>2. CASE x = s /\ sessions'[x] = rec
        BY <2>4, <4>2 DEF Asking
      <4>3. CASE x \in DOMAIN sessions \ {s} /\ sessions'[x] = sessions[x]
        BY <1>1, <2>1, <3>1, <4>3 DEF Shared
      <4>4. QED
        BY <4>1, <4>2, <4>3
    <3>4. Shared(k0)'
      BY <2>1, <3>1, <3>2, <3>3 DEF Shared
    <3>5. SameSource(k0)
      BY <3>1 DEF SameSource
    <3>6. QED
      BY <1>1, <2>1, <3>1, <3>4, <3>5, FedSame
  <2>10. QED
    BY <2>8, <2>9
<1>10. \A k \in Keys \ crossed' : Shared(k)' /\ Fed(k)'
  BY <1>8, <1>9
<1>11. QED
  BY <1>7, <1>10 DEF ChannelInv

\* cleanup_session gives up what only this session wanted.
LEMMA CleanupServed ==
  ASSUME GatewayInv, ChannelInv, NEW s \in DOMAIN sessions, Cleanup(s),
         UNCHANGED <<source, writers, served, ready, news, crossed>>
  PROVE  ChannelInv'
<1> DEFINE gone(k) == \E m \in writers \cap MDs : k \in Released(s, m)
<1>1. ChannelTypes
  BY DEF ChannelInv
<1>2. \A m \in MDs : Released(s, m) \in SUBSET Keys
  BY DEF Released
<1>3. ASSUME NEW m \in MDs
      PROVE  /\ m \in writers => chan'[m] \in Seq(Commands) /\ Sent(chan[m], chan'[m], "unsub", Released(s, m))
             /\ m \notin writers => chan'[m] = chan[m]
  <2>1. chan'[m] = IF m \in writers THEN Send(chan, m, "unsub", Released(s, m))[m] ELSE chan[m]
    BY DEF Cleanup
  <2>2. Sent(chan[m], Send(chan, m, "unsub", Released(s, m))[m], "unsub", Released(s, m))
    BY <1>1, <1>2, SentTo
  <2>3. QED
    BY <2>1, <2>2 DEF Sent
<1>4. ChannelTypes'
  <2>1. DOMAIN chan' = MDs /\ chan' = [m \in MDs |-> chan'[m]]
    BY DEF Cleanup
  <2>2. \A m \in MDs : chan'[m] \in Seq(Commands)
    BY <1>1, <1>3 DEF ChannelTypes
  <2>3. chan' \in [MDs -> Seq(Commands)]
    BY <2>1, <2>2
  <2>4. QED
    BY <1>1, <2>3 DEF ChannelTypes
<1>5. \A k : k \in replay' <=> k \in replay /\ ~gone(k)
  BY DEF Cleanup
<1>6. /\ DOMAIN sessions' = DOMAIN sessions \ {s}
      /\ \A x \in DOMAIN sessions \ {s} : sessions'[x] = sessions[x]
  <2> DEFINE f == sessions
             g == sessions'
  <2>1. g = Without(f, {s})
    BY DEF Cleanup
  <2> HIDE DEF f, g
  <2>2. DOMAIN g = DOMAIN f \ {s} /\ \A x \in DOMAIN f \ {s} : g[x] = f[x]
    BY <2>1 DEF Without
  <2>3. QED
    BY <2>2 DEF f, g
<1> HIDE DEF gone
<1>7. ASSUME NEW k \in Keys \ crossed' PROVE Shared(k)' /\ Fed(k)'
  <2>1. Shared(k) /\ Fed(k)
    BY <1>7 DEF ChannelInv
  <2>2. Wanted(k)' <=> OthersNeed(sessions, s, k)
    BY <1>6 DEF Wanted, OthersNeed
  <2>3. Wanted(k) <=> k \in sessions[s].keys \/ OthersNeed(sessions, s, k)
    BY DEF Wanted, OthersNeed
  <2>4. Asking(sessions[s], k, source, writers)
    BY <2>1 DEF Shared
  <2>5. k \in replay <=> Wanted(k)
    BY <2>1 DEF Shared
  <2>6. \A x \in DOMAIN sessions' : Asking(sessions'[x], k, source', writers')
    BY <1>6, <2>1 DEF Shared
  <2>7. gone(k) <=> k \in sessions[s].keys /\ ~OthersNeed(sessions, s, k)
    <3>1. ASSUME gone(k) PROVE k \in sessions[s].keys /\ ~OthersNeed(sessions, s, k)
      <4>1. PICK m \in writers \cap MDs : k \in Released(s, m)
        BY <3>1 DEF gone
      <4>2. <<m, k>> \in sessions[s].mds /\ ~OthersNeed(sessions, s, k)
        BY <4>1 DEF Released
      <4>3. QED
        BY <2>4, <4>2 DEF Asking
    <3>2. ASSUME k \in sessions[s].keys, ~OthersNeed(sessions, s, k) PROVE gone(k)
      <4>1. PICK m \in MDs : <<m, k>> \in sessions[s].mds
        BY <2>4, <3>2 DEF Asking
      <4>2. m \in writers
        BY <2>4, <4>1 DEF Asking
      <4>3. k \in Released(s, m)
        BY <3>2, <4>1 DEF Released
      <4>4. QED
        BY <4>2, <4>3 DEF gone
    <3>3. QED
      BY <3>1, <3>2
  <2>8. k \in replay' <=> Wanted(k)'
    BY <1>5, <2>2, <2>3, <2>5, <2>7
  <2>9. Shared(k)'
    BY <2>6, <2>8 DEF Shared
  <2>10. CASE gone(k)
    <3>1. \A x : ~Due(k, x)'
      BY <1>5, <2>10 DEF Due
    <3>2. PICK m \in writers \cap MDs : k \in Released(s, m)
      BY <2>10 DEF gone
    <3>3. k \in DOMAIN source /\ source[k] = m
      <4>1. <<m, k>> \in sessions[s].mds
        BY <3>2 DEF Released
      <4>2. QED
        BY <2>4, <3>2, <4>1 DEF Asking
    <3>4. ASSUME NEW x \in MDs PROVE ~Follows(chan'[x], served[x], k)
      <4>1. CASE x \in writers /\ k \in Released(s, x)
        <5>1. Sent(chan[x], chan'[x], "unsub", Released(s, x))
          BY <1>3, <4>1
        <5>2. Follows(chan'[x], served[x], k) <=> "unsub" = "sub"
          BY <4>1, <5>1, FollowsSent
        <5>3. QED
          BY <5>2
      <4>2. CASE ~(x \in writers /\ k \in Released(s, x))
        <5>1. Follows(chan'[x], served[x], k) <=> Follows(chan[x], served[x], k)
          <6>1. CASE x \in writers
            <7>1. Sent(chan[x], chan'[x], "unsub", Released(s, x)) /\ k \notin Released(s, x)
              BY <1>3, <4>2, <6>1
            <7>2. QED
              BY <7>1, FollowsSent
          <6>2. CASE x \notin writers
            BY <1>3, <6>2
          <6>3. QED
            BY <6>1, <6>2
        <5>2. x # m
          BY <3>2, <4>2
        <5>3. ~Due(k, x)
          BY <3>3, <5>2 DEF Due
        <5>4. QED
          BY <2>1, <5>1, <5>3 DEF Fed
      <4>3. QED
        BY <4>1, <4>2
    <3>5. \A x \in MDs : Follows(chan'[x], served[x], k) <=> Due(k, x)'
      BY <3>1, <3>4
    <3>6. QED
      BY <2>9, <3>5, FedEven
  <2>11. CASE ~gone(k)
    <3>1. \A x \in MDs : Due(k, x)' <=> Due(k, x)
      BY <1>5, <2>11 DEF Due
    <3>2. ASSUME NEW x \in MDs PROVE Follows(chan'[x], served[x], k) <=> Follows(chan[x], served[x], k)
      <4>1. CASE x \in writers
        <5>1. Sent(chan[x], chan'[x], "unsub", Released(s, x)) /\ k \notin Released(s, x)
          BY <1>3, <2>11, <4>1 DEF gone
        <5>2. QED
          BY <5>1, FollowsSent
      <4>2. CASE x \notin writers
        BY <1>3, <4>2
      <4>3. QED
        BY <4>1, <4>2
    <3>3. QED
      BY <2>1, <2>9, <3>1, <3>2, FedKept
  <2>12. QED
    BY <2>10, <2>11
<1>8. QED
  BY <1>4, <1>7 DEF ChannelInv

LEMMA DisconnectServed ==
  ASSUME GatewayInv, ChannelInv, Disconnect
  PROVE  ChannelInv'
<1>1. UNCHANGED <<source, writers, served, ready, news, crossed>>
  BY DEF Disconnect, services, hist
<1>2. CASE Head(closing) \in DOMAIN sessions
  <2>1. Cleanup(Head(closing))
    BY <1>2 DEF Disconnect
  <2>2. QED
    BY <1>1, <1>2, <2>1, CleanupServed
<1>3. CASE Head(closing) \notin DOMAIN sessions
  <2>1. UNCHANGED <<chan, replay, sessions>>
    BY <1>3 DEF Disconnect
  <2>2. QED
    BY <1>1, <2>1, ChannelsKept
<1>4. QED
  BY <1>2, <1>3

LEMMA WatchServed ==
  ASSUME GatewayInv, ChannelInv, NEW s \in Clients, NEW g \in Strategies,
         handle_subscribe_strategy(s, g) \/ handle_unsubscribe_strategy(s, g), UNCHANGED <<served, news>>
  PROVE  ChannelInv'
<1>1. UNCHANGED <<replay, source, writers, ready, chan, crossed>>
  BY DEF handle_subscribe_strategy, handle_unsubscribe_strategy, client
<1>2. CASE s \in DOMAIN sessions
  <2>1. sessions[s] \in Session /\ At(s) = sessions[s]
    BY <1>2 DEF GatewayInv, Types, SessionTypes, At
  <2>2. \/ sessions' = sessions
        \/ \E W : sessions' = With(sessions, s, [sessions[s] EXCEPT !.watch = W])
    BY <1>2 DEF handle_subscribe_strategy, handle_unsubscribe_strategy, Put
  <2>3. CASE sessions' = sessions
    BY <1>1, <2>3, ChannelsKept
  <2>4. CASE \E W : sessions' = With(sessions, s, [sessions[s] EXCEPT !.watch = W])
    <3>1. PICK W : sessions' = With(sessions, s, [sessions[s] EXCEPT !.watch = W])
      BY <2>4
    <3> DEFINE rec == [sessions[s] EXCEPT !.watch = W]
    <3>2. rec.keys = At(s).keys /\ rec.mds = At(s).mds
      BY <2>1 DEF Session
    <3>3. sessions' = With(sessions, s, rec)
      BY <3>1
    <3> HIDE DEF rec
    <3>4. QED
      BY <1>1, <3>2, <3>3, WatchKept
  <2>5. QED
    BY <2>2, <2>3, <2>4
<1>3. CASE s \notin DOMAIN sessions
  <2>1. sessions' = sessions
    BY <1>3 DEF handle_subscribe_strategy, handle_unsubscribe_strategy
  <2>2. QED
    BY <1>1, <2>1, ChannelsKept
<1>4. QED
  BY <1>2, <1>3

LEMMA DrainServed ==
  ASSUME GatewayInv, ChannelInv, Drain
  PROVE  ChannelInv'
<1> DEFINE s == Head(requests)[1]
           r == Head(requests)[2]
<1>1. UNCHANGED <<served, news>>
  BY DEF Drain, services
<1>2. s \in Clients /\ r \in Requests
  <2>1. Head(requests) \in Clients \X Requests
    BY HeadTail DEF Drain, GatewayInv, Types, ThreadTypes
  <2>2. QED
    BY <2>1
<1>3. /\ r.method = "request_market_data" => handle_request_market_data(s, r.from, r.key)
      /\ r.method = "cancel_market_data" => handle_cancel_market_data(s, r.from, r.key)
      /\ r.method = "subscribe_strategy" => handle_subscribe_strategy(s, r.strategy)
      /\ r.method = "unsubscribe_strategy" => handle_unsubscribe_strategy(s, r.strategy)
      /\ r.method = "issue_order" => handle_issue_order(s, r.account)
  BY DEF Drain
<1> HIDE DEF s, r
<1>4. /\ r.method \in {"request_market_data", "cancel_market_data", "subscribe_strategy",
                       "unsubscribe_strategy", "issue_order"}
      /\ r.method \in {"request_market_data", "cancel_market_data"} => r.from \in MDs /\ r.key \in Keys
      /\ r.method \in {"subscribe_strategy", "unsubscribe_strategy"} => r.strategy \in Strategies
  BY <1>2, RequestKinds
<1>5. CASE r.method = "request_market_data"
  BY <1>1, <1>2, <1>3, <1>4, <1>5, RequestServed
<1>6. CASE r.method = "cancel_market_data"
  BY <1>1, <1>2, <1>3, <1>4, <1>6, CancelServed
<1>7. CASE r.method \in {"subscribe_strategy", "unsubscribe_strategy"}
  BY <1>1, <1>2, <1>3, <1>4, <1>7, WatchServed
<1>8. CASE r.method = "issue_order"
  <2>1. UNCHANGED <<sessions, replay, source, writers, chan, ready, crossed>>
    BY <1>3, <1>8 DEF handle_issue_order, client
  <2>2. QED
    BY <1>1, <2>1, ChannelsKept
<1>9. QED
  BY <1>4, <1>5, <1>6, <1>7, <1>8

----------------------------------------------------------------------------
(* ServedExactly: the services *)

\* A service reads its channel only while it is up, and serves nothing before.
Fresh ==
  \A m \in MDs : /\ md[m].reads => md[m].up
                 /\ md[m].up /\ ~md[m].reads => served[m] = {}

\* What is ready for the gateway though it is down will be deregistered.
Buried ==
  \A m \in MDs : ~md[m].up =>
    /\ m \in ready => Pending(m)
    /\ \A i \in 1 .. Len(news) : news[i] = <<m, "Ready">> =>
          \E j \in i + 1 .. Len(news) : news[j] = <<m, "Deregister">>

LEMMA PendingTail ==
  ASSUME news \in Seq(Frames), news # << >>, news' = Tail(news), NEW m, Pending(m)
  PROVE  Head(news) = <<m, "Deregister">> \/ Pending(m)'
<1> DEFINE q == news
           r == news'
<1>1. PICK i \in 1 .. Len(q) : q[i] = <<m, "Deregister">>
  BY DEF Pending
<1>2. Len(q) \in Nat /\ Head(q) = q[1] /\ Len(r) = Len(q) - 1 /\ \A j \in 1 .. Len(r) : r[j] = q[j + 1]
  OBVIOUS
<1> HIDE DEF q, r
<1>3. CASE i = 1
  BY <1>1, <1>2, <1>3 DEF q
<1>4. CASE i # 1
  <2>1. i - 1 \in 1 .. Len(r) /\ r[i - 1] = <<m, "Deregister">>
    BY <1>1, <1>2, <1>4
  <2>2. QED
    BY <2>1 DEF Pending, r
<1>5. QED
  BY <1>3, <1>4

\* What is fed stays so when no more is ready and no Deregister is read.
LEMMA FedGrows ==
  ASSUME NEW k, Fed(k), UNCHANGED <<chan, served>>,
         \A m \in MDs : Due(k, m)' <=> Due(k, m),
         \A m \in MDs : m \in ready' /\ ~Pending(m)' => m \in ready /\ ~Pending(m)
  PROVE  Fed(k)'
<1> SUFFICES ASSUME NEW m \in MDs
             PROVE  /\ Follows(chan'[m], served'[m], k) => Due(k, m)'
                    /\ m \in ready' /\ ~Pending(m)' /\ Due(k, m)' => Follows(chan'[m], served'[m], k)
  BY DEF Fed
<1>1. Follows(chan[m], served[m], k) => Due(k, m)
  BY DEF Fed
<1>2. m \in ready /\ ~Pending(m) /\ Due(k, m) => Follows(chan[m], served[m], k)
  BY DEF Fed
<1>3. Due(k, m)' <=> Due(k, m)
  OBVIOUS
<1>4. m \in ready' /\ ~Pending(m)' => m \in ready /\ ~Pending(m)
  OBVIOUS
<1>5. QED
  BY <1>1, <1>2, <1>3, <1>4

LEMMA GrowsServed ==
  ASSUME ChannelInv, UNCHANGED <<sessions, replay, source, crossed, chan, served>>, writers \subseteq writers',
         \A m \in MDs : m \in ready' /\ ~Pending(m)' => m \in ready /\ ~Pending(m)
  PROVE  ChannelInv'
<1>1. ChannelTypes'
  BY DEF ChannelInv, ChannelTypes
<1>2. \A k : \A m \in MDs : Due(k, m)' <=> Due(k, m)
  BY DEF Due
<1>3. ASSUME NEW k \in Keys \ crossed' PROVE Shared(k)' /\ Fed(k)'
  <2>1. Shared(k) /\ Fed(k)
    BY <1>3 DEF ChannelInv
  <2>2. Shared(k)'
    BY <2>1, SharedSame
  <2>3. Fed(k)'
    BY <1>2, <2>1, FedGrows
  <2>4. QED
    BY <2>2, <2>3
<1>4. QED
  BY <1>1, <1>3 DEF ChannelInv

\* A service that comes up starts with nothing; its channel is emptied when it connects.
LEMMA ConnectServed ==
  ASSUME LinkInv, ChannelInv, Fresh, NEW m \in Procs, connect(m),
         UNCHANGED <<sessions, replay, source, crossed, served>>,
         \A x : Pending(x) => Pending(x)'
  PROVE  ChannelInv'
<1>1. ready' = ready /\ writers \subseteq writers'
  BY DEF connect
<1>2. chan' = chan \/ (m \in MDs /\ m \notin linked /\ md[m].up /\ ~md[m].reads /\ chan' = [chan EXCEPT ![m] = << >>])
  BY DEF connect, Procs
<1>3. CASE chan' = chan
  BY <1>1, <1>3, GrowsServed
<1>4. CASE m \in MDs /\ m \notin linked /\ md[m].up /\ ~md[m].reads /\ chan' = [chan EXCEPT ![m] = << >>]
  <2>1. chan' \in [MDs -> Seq(Commands)] /\ chan'[m] = << >> /\ \A x \in MDs \ {m} : chan'[x] = chan[x]
    BY <1>4 DEF ChannelInv, ChannelTypes
  <2>2. ChannelTypes'
    BY <2>1 DEF ChannelInv, ChannelTypes
  <2>3. served[m] = {} /\ m \notin ready
    BY <1>4 DEF Fresh, LinkInv
  <2>4. ASSUME NEW k \in Keys \ crossed' PROVE Shared(k)' /\ Fed(k)'
    <3>1. Shared(k) /\ Fed(k)
      BY <2>4 DEF ChannelInv
    <3>2. Shared(k)'
      BY <1>1, <3>1, SharedSame
    <3>3. \A x : Due(k, x)' <=> Due(k, x)
      BY DEF Due
    <3>4. ASSUME NEW x \in MDs
          PROVE  /\ Follows(chan'[x], served'[x], k) => Due(k, x)'
                 /\ x \in ready' /\ ~Pending(x)' /\ Due(k, x)' => Follows(chan'[x], served'[x], k)
      <4>1. CASE x = m
        <5>1. ~Follows(<< >>, {}, k)
          BY FollowsFacts
        <5>2. chan'[x] = << >> /\ served'[x] = {}
          BY <2>1, <2>3, <4>1
        <5>3. x \notin ready'
          BY <1>1, <2>3, <4>1
        <5>4. QED
          BY <5>1, <5>2, <5>3
      <4>2. CASE x # m
        <5>1. chan'[x] = chan[x]
          BY <2>1, <4>2
        <5>2. Follows(chan[x], served[x], k) => Due(k, x)
          BY <3>1 DEF Fed
        <5>3. x \in ready /\ ~Pending(x) /\ Due(k, x) => Follows(chan[x], served[x], k)
          BY <3>1 DEF Fed
        <5>4. (Pending(x) => Pending(x)') /\ (Due(k, x)' <=> Due(k, x))
          BY <3>3
        <5>5. QED
          BY <1>1, <5>1, <5>2, <5>3, <5>4
      <4>3. QED
        BY <4>1, <4>2
    <3>5. Fed(k)'
      BY <3>4 DEF Fed
    <3>6. QED
      BY <3>2, <3>5
  <2>5. QED
    BY <2>2, <2>4 DEF ChannelInv
<1>5. QED
  BY <1>2, <1>3, <1>4

\* renew: a service that is ready gets all that is to be served by it.
LEMMA RenewServed ==
  ASSUME GatewayInv, ChannelInv, NEW m \in Procs, chan' = Send(chan, m, "sub", Renewed(m)),
         ready' = ready \cup {m}, UNCHANGED <<sessions, replay, source, crossed, served, writers>>,
         \A x : Pending(x) => Pending(x)'
  PROVE  ChannelInv'
<1>1. ChannelTypes
  BY DEF ChannelInv
<1>2. CASE m \notin MDs
  <2>1. chan' = chan
    BY <1>1, <1>2 DEF ChannelTypes, Send
  <2>2. QED
    BY <1>2, <2>1, GrowsServed
<1>3. CASE m \in MDs
  <2> DEFINE ks == Renewed(m)
  <2>1. ks \in SUBSET Keys /\ \A k : k \in ks <=> k \in replay /\ SourceOf(k) = m
    BY DEF Renewed, GatewayInv, Types, SourceTypes
  <2> HIDE DEF ks
  <2>2. /\ chan' \in [MDs -> Seq(Commands)] /\ Sent(chan[m], chan'[m], "sub", ks)
        /\ \A x \in MDs \ {m} : chan'[x] = chan[x]
    BY <1>1, <1>3, <2>1, SentTo DEF ks
  <2>3. ChannelTypes'
    BY <1>1, <2>2 DEF ChannelTypes
  <2>4. ASSUME NEW k \in Keys \ crossed' PROVE Shared(k)' /\ Fed(k)'
    <3>1. Shared(k) /\ Fed(k)
      BY <2>4 DEF ChannelInv
    <3>2. Shared(k)'
      BY <3>1, SharedSame
    <3>3. \A x : Due(k, x)' <=> Due(k, x)
      BY DEF Due
    <3>4. k \in ks <=> Due(k, m)
      <4>1. k \in replay => k \in DOMAIN source
        <5> SUFFICES ASSUME k \in replay PROVE k \in DOMAIN source
          OBVIOUS
        <5>1. PICK s \in DOMAIN sessions : k \in sessions[s].keys
          BY <3>1 DEF Shared, Wanted
        <5>2. Asking(sessions[s], k, source, writers)
          BY <3>1 DEF Shared
        <5>3. QED
          BY <5>1, <5>2 DEF Asking
      <4>2. QED
        BY <2>1, <4>1 DEF Due, SourceOf
    <3>5. ASSUME NEW x \in MDs
          PROVE  /\ Follows(chan'[x], served'[x], k) => Due(k, x)'
                 /\ x \in ready' /\ ~Pending(x)' /\ Due(k, x)' => Follows(chan'[x], served'[x], k)
      <4>1. Follows(chan[x], served[x], k) => Due(k, x)
        BY <3>1 DEF Fed
      <4>2. CASE x = m
        <5>1. k \in ks => Follows(chan'[m], served[m], k)
          BY <2>2, FollowsSent
        <5>2. k \notin ks => (Follows(chan'[m], served[m], k) <=> Follows(chan[m], served[m], k))
          BY <2>2, FollowsSent
        <5>3. QED
          BY <3>3, <3>4, <4>1, <4>2, <5>1, <5>2
      <4>3. CASE x # m
        <5>1. chan'[x] = chan[x]
          BY <2>2, <4>3
        <5>2. x \in ready /\ ~Pending(x) /\ Due(k, x) => Follows(chan[x], served[x], k)
          BY <3>1 DEF Fed
        <5>3. (Pending(x) => Pending(x)') /\ (Due(k, x)' <=> Due(k, x)) /\ (x \in ready' <=> x \in ready)
          BY <3>3, <4>3
        <5>4. QED
          BY <4>1, <5>1, <5>2, <5>3
      <4>4. QED
        BY <4>2, <4>3
    <3>6. Fed(k)'
      BY <3>5 DEF Fed
    <3>7. QED
      BY <3>2, <3>6
  <2>5. QED
    BY <2>3, <2>4 DEF ChannelInv
<1>4. QED
  BY <1>2, <1>3

LEMMA ReactServed ==
  ASSUME LinkInv, ChannelInv, Fresh, React
  PROVE  ChannelInv'
<1> DEFINE m == Head(news)[1]
           what == Head(news)[2]
<1>1. /\ news # << >> /\ news' = Tail(news) /\ news \in Seq(Frames) /\ GatewayInv
      /\ UNCHANGED <<sessions, replay, source, crossed, served>>
  BY DEF React, api, hist, LinkInv, GatewayInv, Types, NewsTypes
<1>2. Head(news) = <<m, what>> /\ m \in Procs /\ what \in {"Register", "Deregister"} \cup States
  BY <1>1, HeadTail, FrameFacts
<1>3. \A x : Pending(x) => Head(news) = <<x, "Deregister">> \/ Pending(x)'
  BY <1>1, PendingTail
<1>4. /\ what = "Register" => connect(m)
      /\ what = "Deregister" => deregister(m)
      /\ what \in States => update_broker_state(m, what)
  BY DEF React, States
<1> HIDE DEF m, what
<1>5. CASE what = "Register"
  <2>1. \A x : Pending(x) => Pending(x)'
    BY <1>2, <1>3, <1>5
  <2>2. QED
    BY <1>1, <1>2, <1>4, <1>5, <2>1, ConnectServed
<1>6. CASE what = "Deregister"
  <2>1. ready' = ready \ {m} /\ writers' = writers /\ chan' = chan
    BY <1>4, <1>6 DEF deregister, Forget
  <2>2. \A x \in MDs : x \in ready' /\ ~Pending(x)' => x \in ready /\ ~Pending(x)
    BY <1>2, <1>3, <2>1
  <2>3. QED
    BY <1>1, <2>1, <2>2, GrowsServed
<1>7. CASE what \in States
  <2>1. \A x : Pending(x) => Pending(x)'
    BY <1>2, <1>3, <1>7 DEF States
  <2>2. update_broker_state(m, what) /\ writers' = writers
    BY <1>4, <1>7 DEF update_broker_state
  <2>3. CASE what = "Ready" /\ m \in writers /\ m \notin ready
    <3>1. ready' = ready \cup {m} /\ chan' = Send(chan, m, "sub", Renewed(m))
      BY <2>2, <2>3 DEF update_broker_state
    <3>2. QED
      BY <1>1, <1>2, <2>1, <2>2, <3>1, RenewServed
  <2>4. CASE ~(what = "Ready" /\ m \in writers /\ m \notin ready)
    <3>1. ready' \subseteq ready /\ chan' = chan
      BY <2>2, <2>4 DEF update_broker_state
    <3>2. QED
      BY <1>1, <2>1, <2>2, <3>1, GrowsServed
  <2>5. QED
    BY <2>3, <2>4
<1>8. QED
  BY <1>2, <1>5, <1>6, <1>7

\* A Deregister on its way stays there while frames are added behind it.
LEMMA PendingGrows ==
  ASSUME news \in Seq(Frames), NEW r \in Seq(Frames), news' = news \o r, NEW x, Pending(x)
  PROVE  Pending(x)'
<1>1. PICK i \in 1 .. Len(news) : news[i] = <<x, "Deregister">>
  BY DEF Pending
<1>2. i \in 1 .. Len(news') /\ news'[i] = news[i]
  OBVIOUS
<1>3. QED
  BY <1>1, <1>2 DEF Pending

LEMMA PendingAppend ==
  ASSUME news \in Seq(Frames), NEW e \in Frames, news' = Append(news, e), NEW x
  PROVE  /\ Pending(x) => Pending(x)'
         /\ e = <<x, "Deregister">> => Pending(x)'
<1>1. ASSUME Pending(x) PROVE Pending(x)'
  <2>1. PICK i \in 1 .. Len(news) : news[i] = <<x, "Deregister">>
    BY <1>1 DEF Pending
  <2>2. i \in 1 .. Len(news') /\ news'[i] = news[i]
    OBVIOUS
  <2>3. QED
    BY <2>1, <2>2 DEF Pending
<1>2. ASSUME e = <<x, "Deregister">> PROVE Pending(x)'
  <2>1. Len(news') \in 1 .. Len(news') /\ news'[Len(news')] = e
    OBVIOUS
  <2>2. QED
    BY <1>2, <2>1 DEF Pending
<1>3. QED
  BY <1>1, <1>2

LEMMA LedgerServed ==
  ASSUME GatewayInv, ChannelInv, LedgerReact
  PROVE  ChannelInv'
<1>1. UNCHANGED <<sessions, replay, source, crossed, chan, served, writers, ready>>
  BY DEF LedgerReact, api, client, services, hist
<1>2. NewsTypes
  BY DEF GatewayInv, Types
<1>3. \A x : Pending(x) => Pending(x)'
  <2>1. CASE news' = news
    BY <2>1 DEF Pending
  <2>2. CASE \E r \in Seq(Procs \X States) : news' = news \o r
    <3>1. PICK r \in Seq(Procs \X States) : news' = news \o r
      BY <2>2
    <3>2. r \in Seq(Frames) /\ news \in Seq(Frames)
      <4>1. Procs \X States \subseteq Frames
        BY DEF Frames
      <4>2. QED
        BY <1>2, <4>1 DEF NewsTypes
    <3>3. QED
      BY <3>1, <3>2, PendingGrows
  <2>3. QED
    BY <1>2, <2>1, <2>2, LedgerFrames
<1>4. QED
  BY <1>1, <1>3, GrowsServed

\* What a service says of itself changes nothing of its channel; one that comes up
\* starts empty, and its Deregister is then on the way.
LEMMA ServiceServed ==
  ASSUME LinkInv, ChannelInv, Buried, NEW p \in Procs, NEW what \in {"Register", "Deregister"} \cup States,
         Stepped(p, what)
  PROVE  ChannelInv'
<1>1. /\ news' = Append(news, <<p, what>>)
      /\ UNCHANGED <<sessions, replay, source, crossed, chan, writers, ready>>
  BY DEF Stepped, Publish
<1>2. news \in Seq(Frames) /\ <<p, what>> \in Frames
  BY DEF LinkInv, GatewayInv, Types, NewsTypes, Frames
<1>3. \A x : Pending(x) => Pending(x)'
  BY <1>1, <1>2, PendingAppend
<1>4. CASE served' = served
  BY <1>1, <1>3, <1>4, GrowsServed
<1>5. CASE p \in MDs /\ what = "Register" /\ served' = [served EXCEPT ![p] = {}]
  <2>1. served' \in [MDs -> SUBSET Keys] /\ served'[p] = {} /\ \A x \in MDs \ {p} : served'[x] = served[x]
    BY <1>5 DEF ChannelInv, ChannelTypes
  <2>2. ChannelTypes'
    BY <1>1, <2>1 DEF ChannelInv, ChannelTypes
  <2>3. p \in ready => Pending(p)
    BY <1>5 DEF Stepped, Buried
  <2>4. ASSUME NEW k \in Keys \ crossed' PROVE Shared(k)' /\ Fed(k)'
    <3>1. Shared(k) /\ Fed(k)
      BY <1>1, <2>4 DEF ChannelInv
    <3>2. Shared(k)'
      BY <1>1, <3>1, SharedSame
    <3>3. \A x : Due(k, x)' <=> Due(k, x)
      BY <1>1 DEF Due
    <3>4. ASSUME NEW x \in MDs
          PROVE  /\ Follows(chan'[x], served'[x], k) => Due(k, x)'
                 /\ x \in ready' /\ ~Pending(x)' /\ Due(k, x)' => Follows(chan'[x], served'[x], k)
      <4>1. Follows(chan[x], served[x], k) => Due(k, x)
        BY <3>1 DEF Fed
      <4>2. CASE x = p
        <5>1. Follows(chan[x], {}, k) => Follows(chan[x], served[x], k)
          BY FollowsFacts
        <5>2. chan'[x] = chan[x] /\ served'[x] = {}
          BY <1>1, <2>1, <4>2
        <5>3. ~(x \in ready' /\ ~Pending(x)')
          BY <1>1, <1>3, <2>3, <4>2
        <5>4. QED
          BY <3>3, <4>1, <5>1, <5>2, <5>3
      <4>3. CASE x # p
        <5>1. chan'[x] = chan[x] /\ served'[x] = served[x]
          BY <1>1, <2>1, <4>3
        <5>2. x \in ready /\ ~Pending(x) /\ Due(k, x) => Follows(chan[x], served[x], k)
          BY <3>1 DEF Fed
        <5>3. (Pending(x) => Pending(x)') /\ (Due(k, x)' <=> Due(k, x)) /\ (x \in ready' <=> x \in ready)
          BY <1>1, <1>3, <3>3
        <5>4. QED
          BY <4>1, <5>1, <5>2, <5>3
      <4>4. QED
        BY <4>2, <4>3
    <3>5. Fed(k)'
      BY <3>4 DEF Fed
    <3>6. QED
      BY <3>2, <3>5
  <2>5. QED
    BY <2>2, <2>4 DEF ChannelInv
<1>6. QED
  BY <1>4, <1>5 DEF Stepped

\* A service that applies a command stays on its way to the same end.
LEMMA ServeServed ==
  ASSUME ChannelInv, NEW m \in MDs, Serve(m)
  PROVE  ChannelInv'
<1> DEFINE q == chan[m]
           S == served[m]
           T == IF Head(chan[m])[1] = "sub" THEN served[m] \cup {Head(chan[m])[2]} ELSE served[m] \ {Head(chan[m])[2]}
<1>1. UNCHANGED <<sessions, replay, source, crossed, writers, ready, news>>
  BY DEF Serve, api, client, hist
<1>2. /\ chan \in [MDs -> Seq(Commands)] /\ served \in [MDs -> SUBSET Keys]
      /\ q \in Seq(Commands) /\ q # << >> /\ Tail(q) \in Seq(Commands)
  BY DEF ChannelInv, ChannelTypes, Serve
<1>3. /\ chan' = [chan EXCEPT ![m] = Tail(q)] /\ served' = [served EXCEPT ![m] = T]
  BY DEF Serve
<1>4. Head(q) \in Commands /\ T \in SUBSET Keys
  <2>1. Head(q) \in Commands
    BY <1>2
  <2>2. Head(q)[2] \in Keys
    BY <2>1 DEF Commands
  <2>3. QED
    BY <1>2, <2>1, <2>2
<1>5. \A k : k \in T <=> IF Head(q)[2] = k THEN Head(q)[1] = "sub" ELSE k \in S
  OBVIOUS
<1>6. /\ chan'[m] = Tail(q) /\ served'[m] = T
      /\ \A x \in MDs \ {m} : chan'[x] = chan[x] /\ served'[x] = served[x]
      /\ chan' \in [MDs -> Seq(Commands)] /\ served' \in [MDs -> SUBSET Keys]
  BY <1>2, <1>3, <1>4
<1> HIDE DEF q, S, T
<1>7. \A k : Follows(Tail(q), T, k) <=> Follows(q, S, k)
  BY <1>2, <1>5, FollowsTail
<1>8. \A k : \A x \in MDs : Follows(chan'[x], served'[x], k) <=> Follows(chan[x], served[x], k)
  BY <1>6, <1>7 DEF q, S
<1>9. ChannelTypes'
  BY <1>1, <1>6 DEF ChannelInv, ChannelTypes
<1>10. ASSUME NEW k \in Keys \ crossed' PROVE Shared(k)' /\ Fed(k)'
  <2>1. Shared(k) /\ Fed(k)
    BY <1>1, <1>10 DEF ChannelInv
  <2>2. Shared(k)'
    BY <1>1, <2>1, SharedSame
  <2>3. \A x : (Due(k, x)' <=> Due(k, x)) /\ (Pending(x)' <=> Pending(x))
    BY <1>1 DEF Due, Pending
  <2>4. Fed(k)'
    BY <1>1, <1>8, <2>1, <2>3 DEF Fed
  <2>5. QED
    BY <2>2, <2>4
<1>11. QED
  BY <1>9, <1>10 DEF ChannelInv

\* All there is belongs to the scenario's processes.
Ours ==
  /\ writers \subseteq bound.procs
  /\ \A m \in Procs : md[m].up => m \in bound.procs
  /\ \A i \in 1 .. Len(news) : news[i][1] \in bound.procs
  /\ \A i \in 1 .. Len(inbox) : inbox[i][1] \in bound.procs
  /\ DOMAIN states \subseteq bound.procs
  /\ \A m \in MDs \ bound.procs : served[m] = {}

\* A gateway that has R as ready has m as ready once it has read q.
Readies(q, R, m) ==
  \/ \E i \in 1 .. Len(q) :
       q[i] = <<m, "Ready">> /\ \A j \in i + 1 .. Len(q) : q[j] \notin {<<m, "Deregister">>, <<m, "DisConnected">>}
  \/ m \in R /\ \A j \in 1 .. Len(q) : q[j] \notin {<<m, "Deregister">>, <<m, "DisConnected">>}

\* It will hear that m is ready, from the ledger last when there is one: it has it in
\* the news, or the ledger has yet to repeat it.
Heard(m) ==
  \/ \E i \in 1 .. Len(inbox) : inbox[i] = <<m, "Ready">> /\ \A j \in i + 1 .. Len(inbox) : inbox[j][1] # m
  \/ /\ \A j \in 1 .. Len(inbox) : inbox[j][1] # m
     /\ bound.ledger => m \in DOMAIN states /\ states[m] = "Ready"
     /\ Readies(news, ready, m)

Telling == \A m \in MDs : md[m].ready => Heard(m)

ServedInv == LinkInv /\ ChannelInv /\ Fresh /\ Buried /\ Ours /\ Telling

LEMMA ServiceFresh ==
  ASSUME LinkInv, ChannelInv, Fresh, NEW p \in Procs, NEW what \in {"Register", "Deregister"} \cup States,
         Stepped(p, what)
  PROVE  Fresh'
<1> SUFFICES ASSUME NEW m \in MDs
             PROVE  (md'[m].reads => md'[m].up) /\ (md'[m].up /\ ~md'[m].reads => served'[m] = {})
  BY DEF Fresh
<1>1. m \in Procs /\ (md[m].reads => md[m].up) /\ (md[m].up /\ ~md[m].reads => served[m] = {})
  BY DEF Procs, Fresh
<1>2. served \in [MDs -> SUBSET Keys]
  BY DEF ChannelInv, ChannelTypes
<1>3. CASE m # p
  <2>1. md'[m] = md[m] /\ served'[m] = served[m]
    BY <1>1, <1>2, <1>3 DEF Stepped
  <2>2. QED
    BY <1>1, <2>1
<1>4. CASE m = p /\ what = "Register"
  <2>1. md'[m].up /\ ~md'[m].reads /\ served'[m] = {}
    BY <1>2, <1>4 DEF Stepped
  <2>2. QED
    BY <2>1
<1>5. CASE m = p /\ what = "Deregister"
  BY <1>5 DEF Stepped
<1>6. CASE m = p /\ what \in States
  <2>1. served' = served /\ md[m].up /\ md'[m].up /\ (md[m].reads => md'[m].reads)
    BY <1>6 DEF Stepped, States
  <2>2. QED
    BY <1>1, <2>1
<1>7. QED
  BY <1>3, <1>4, <1>5, <1>6

LEMMA ServiceBuried ==
  ASSUME LinkInv, Buried, NEW p \in Procs, NEW what \in {"Register", "Deregister"} \cup States,
         Stepped(p, what)
  PROVE  Buried'
<1> DEFINE e == <<p, what>>
<1>1. /\ news' = Append(news, e) /\ ready' = ready /\ news \in Seq(Frames) /\ e \in Frames
  BY DEF Stepped, Publish, LinkInv, GatewayInv, Types, NewsTypes, Frames
<1>2. /\ Len(news) \in Nat /\ Len(news') = Len(news) + 1 /\ news'[Len(news) + 1] = e
      /\ \A i \in 1 .. Len(news) : news'[i] = news[i]
      /\ \A i \in 1 .. Len(news') : i \in 1 .. Len(news) \/ i = Len(news) + 1
  BY <1>1
<1>3. \A x : /\ Pending(x) => Pending(x)'
             /\ e = <<x, "Deregister">> => Pending(x)'
  BY <1>1, PendingAppend
<1> SUFFICES ASSUME NEW m \in MDs, ~md'[m].up
             PROVE  /\ m \in ready' => Pending(m)'
                    /\ \A i \in 1 .. Len(news') : news'[i] = <<m, "Ready">> =>
                          \E j \in i + 1 .. Len(news') : news'[j] = <<m, "Deregister">>
  BY DEF Buried, Pending
<1>4. CASE m = p
  <2>1. what = "Deregister"
    BY <1>4 DEF Stepped
  <2>2. Pending(m)'
    BY <1>3, <1>4, <2>1
  <2>3. ASSUME NEW i \in 1 .. Len(news'), news'[i] = <<m, "Ready">>
        PROVE  \E j \in i + 1 .. Len(news') : news'[j] = <<m, "Deregister">>
    <3>1. i # Len(news) + 1
      BY <1>2, <2>1, <2>3
    <3>2. Len(news) + 1 \in i + 1 .. Len(news')
      BY <1>2, <3>1
    <3>3. QED
      BY <1>2, <1>4, <2>1, <3>2
  <2>4. QED
    BY <2>2, <2>3
<1>5. CASE m # p
  <2>1. ~md[m].up
    BY <1>5 DEF Stepped, Procs
  <2>2. /\ m \in ready => Pending(m)
        /\ \A i \in 1 .. Len(news) : news[i] = <<m, "Ready">> =>
              \E j \in i + 1 .. Len(news) : news[j] = <<m, "Deregister">>
    BY <2>1 DEF Buried
  <2>3. ASSUME NEW i \in 1 .. Len(news'), news'[i] = <<m, "Ready">>
        PROVE  \E j \in i + 1 .. Len(news') : news'[j] = <<m, "Deregister">>
    <3>1. i \in 1 .. Len(news) /\ news[i] = <<m, "Ready">>
      BY <1>2, <1>5, <2>3
    <3>2. PICK j \in i + 1 .. Len(news) : news[j] = <<m, "Deregister">>
      BY <2>2, <3>1
    <3>3. j \in 1 .. Len(news) /\ j \in i + 1 .. Len(news')
      BY <1>2, <3>1
    <3>4. QED
      BY <1>2, <3>2, <3>3
  <2>4. QED
    BY <1>1, <1>3, <2>2, <2>3
<1>6. QED
  BY <1>4, <1>5

LEMMA ServiceOurs ==
  ASSUME LinkInv, ChannelInv, Ours, NEW p \in Procs, NEW what \in {"Register", "Deregister"} \cup States,
         Stepped(p, what)
  PROVE  Ours'
<1>1. p \in bound.procs
  BY DEF Stepped, Ours
<1>2. /\ news' = Append(news, <<p, what>>) /\ inbox' \in {inbox, Append(inbox, <<p, what>>)}
      /\ states' = states /\ writers' = writers /\ bound' = bound
  BY DEF Stepped, Publish
<1>3. news \in Seq(Frames) /\ inbox \in Seq(Frames) /\ <<p, what>> \in Frames
  BY DEF LinkInv, GatewayInv, Types, NewsTypes, Frames
<1>4. ASSUME NEW q \in Seq(Frames), \A i \in 1 .. Len(q) : q[i][1] \in bound.procs
      PROVE  \A i \in 1 .. Len(Append(q, <<p, what>>)) : Append(q, <<p, what>>)[i][1] \in bound.procs
  <2>1. \A i \in 1 .. Len(Append(q, <<p, what>>)) :
           \/ i \in 1 .. Len(q) /\ Append(q, <<p, what>>)[i] = q[i]
           \/ Append(q, <<p, what>>)[i] = <<p, what>>
    BY <1>3, AppendOne
  <2>2. QED
    BY <1>1, <1>4, <2>1
<1>5. \A i \in 1 .. Len(news') : news'[i][1] \in bound.procs
  BY <1>2, <1>3, <1>4 DEF Ours
<1>6. \A i \in 1 .. Len(inbox') : inbox'[i][1] \in bound.procs
  <2>1. CASE inbox' = inbox
    BY <2>1 DEF Ours
  <2>2. CASE inbox' = Append(inbox, <<p, what>>)
    BY <1>3, <1>4, <2>2 DEF Ours
  <2>3. QED
    BY <1>2, <2>1, <2>2
<1>7. \A m \in Procs : md'[m].up => m \in bound.procs
  BY <1>1 DEF Stepped, Ours
<1>8. \A m \in MDs \ bound.procs : served'[m] = {}
  <2>1. served \in [MDs -> SUBSET Keys]
    BY DEF ChannelInv, ChannelTypes
  <2>2. \A m \in MDs \ bound.procs : served'[m] = served[m]
    BY <1>1, <2>1 DEF Stepped
  <2>3. QED
    BY <2>2 DEF Ours
<1>9. QED
  BY <1>2, <1>5, <1>6, <1>7, <1>8 DEF Ours

\* A frame of someone else changes nothing.
LEMMA ReadiesAppend ==
  ASSUME NEW q \in Seq(Frames), NEW e \in Frames, NEW R, NEW m
  PROVE  /\ e[1] # m /\ Readies(q, R, m) => Readies(Append(q, e), R, m)
         /\ e = <<m, "Ready">> => Readies(Append(q, e), R, m)
<1> DEFINE r == Append(q, e)
           Away == {<<m, "Deregister">>, <<m, "DisConnected">>}
<1>1. /\ Len(q) \in Nat /\ Len(r) = Len(q) + 1 /\ r[Len(q) + 1] = e
      /\ \A i \in 1 .. Len(q) : r[i] = q[i] /\ i \in 1 .. Len(r)
  OBVIOUS
<1>2. \A a \in Away : a[1] = m
  OBVIOUS
<1> HIDE DEF r, Away
<1>3. ASSUME e[1] # m, Readies(q, R, m) PROVE Readies(r, R, m)
  <2>1. e \notin Away
    BY <1>2, <1>3
  <2>2. CASE \E i \in 1 .. Len(q) : q[i] = <<m, "Ready">> /\ \A j \in i + 1 .. Len(q) : q[j] \notin Away
    <3>1. PICK i \in 1 .. Len(q) : q[i] = <<m, "Ready">> /\ \A j \in i + 1 .. Len(q) : q[j] \notin Away
      BY <2>2
    <3>2. \A j \in i + 1 .. Len(r) : (j \in i + 1 .. Len(q) /\ j \in 1 .. Len(q)) \/ j = Len(q) + 1
      BY <1>1
    <3>3. \A j \in i + 1 .. Len(r) : r[j] \notin Away
      BY <1>1, <2>1, <3>1, <3>2
    <3>4. i \in 1 .. Len(r) /\ r[i] = <<m, "Ready">>
      BY <1>1, <3>1
    <3>5. QED
      BY <3>3, <3>4 DEF Readies, Away
  <2>3. CASE m \in R /\ \A j \in 1 .. Len(q) : q[j] \notin Away
    <3>1. \A j \in 1 .. Len(r) : j \in 1 .. Len(q) \/ j = Len(q) + 1
      BY <1>1
    <3>2. \A j \in 1 .. Len(r) : r[j] \notin Away
      BY <1>1, <2>1, <2>3, <3>1
    <3>3. QED
      BY <2>3, <3>2 DEF Readies, Away
  <2>4. QED
    BY <1>3, <2>2, <2>3 DEF Readies, Away
<1>4. ASSUME e = <<m, "Ready">> PROVE Readies(r, R, m)
  <2>1. Len(r) \in 1 .. Len(r) /\ r[Len(r)] = <<m, "Ready">> /\ \A j \in Len(r) + 1 .. Len(r) : FALSE
    BY <1>1, <1>4
  <2>2. QED
    BY <2>1 DEF Readies
<1>5. QED
  BY <1>3, <1>4 DEF r

\* A frame that is read is taken into account.
LEMMA ReadiesTail ==
  ASSUME NEW q \in Seq(Frames), q # << >>, NEW R, NEW T, NEW m, Readies(q, R, m),
         Head(q) = <<m, "Ready">> => m \in T,
         Head(q) \notin {<<m, "Deregister">>, <<m, "DisConnected">>} /\ m \in R => m \in T
  PROVE  Readies(Tail(q), T, m)
<1> DEFINE r == Tail(q)
           Away == {<<m, "Deregister">>, <<m, "DisConnected">>}
<1>1. /\ Len(q) \in Nat \ {0} /\ Len(r) = Len(q) - 1 /\ Head(q) = q[1]
      /\ \A i \in 1 .. Len(r) : r[i] = q[i + 1]
  OBVIOUS
<1>2. Head(q) \notin Away /\ m \in R => m \in T
  OBVIOUS
<1> HIDE DEF r, Away
<1>3. CASE \E i \in 1 .. Len(q) : q[i] = <<m, "Ready">> /\ \A j \in i + 1 .. Len(q) : q[j] \notin Away
  <2>1. PICK i \in 1 .. Len(q) : q[i] = <<m, "Ready">> /\ \A j \in i + 1 .. Len(q) : q[j] \notin Away
    BY <1>3
  <2>2. CASE i = 1
    <3>1. m \in T
      BY <1>1, <2>1, <2>2
    <3>2. \A j \in 1 .. Len(r) : j + 1 \in i + 1 .. Len(q)
      BY <1>1, <2>2
    <3>3. \A j \in 1 .. Len(r) : r[j] \notin Away
      BY <1>1, <2>1, <3>2
    <3>4. QED
      BY <3>1, <3>3 DEF Readies, r, Away
  <2>3. CASE i # 1
    <3>1. i - 1 \in 1 .. Len(r) /\ r[i - 1] = <<m, "Ready">>
      BY <1>1, <2>1, <2>3, SMTT(30)
    <3>2. \A j \in (i - 1) + 1 .. Len(r) : j \in 1 .. Len(r) /\ j + 1 \in i + 1 .. Len(q)
      BY <1>1, <2>3
    <3>3. \A j \in (i - 1) + 1 .. Len(r) : r[j] \notin Away
      BY <1>1, <2>1, <3>2
    <3>4. QED
      BY <3>1, <3>3 DEF Readies, r, Away
  <2>4. QED
    BY <2>2, <2>3
<1>4. CASE m \in R /\ \A j \in 1 .. Len(q) : q[j] \notin Away
  <2>1. m \in T
    BY <1>1, <1>2, <1>4
  <2>2. \A j \in 1 .. Len(r) : r[j] \notin Away
    BY <1>1, <1>4
  <2>3. QED
    BY <2>1, <2>2 DEF Readies, r, Away
<1>5. QED
  BY <1>3, <1>4 DEF Readies, Away

\* The ledger tells that m is ready.
LEMMA ReadiesTold ==
  ASSUME NEW q \in Seq(Frames), NEW r \in Seq(Procs \X States), NEW st, Retold(r, st), NEW R,
         NEW m \in DOMAIN st, st[m] = "Ready"
  PROVE  Readies(q \o r, R, m)
<1> DEFINE t == q \o r
           Away == {<<m, "Deregister">>, <<m, "DisConnected">>}
<1>1. /\ Len(q) \in Nat /\ Len(r) \in Nat /\ Len(t) = Len(q) + Len(r)
      /\ \A i \in 1 .. Len(r) : t[Len(q) + i] = r[i] /\ r[i] \in Procs \X States
  OBVIOUS
<1>2. /\ \A i \in 1 .. Len(r) : r[i] = <<r[i][1], st[r[i][1]]>>
      /\ \E i \in 1 .. Len(r) : r[i] = <<m, "Ready">>
  BY DEF Retold
<1>3. \A i \in 1 .. Len(r) : r[i] \notin Away
  <2> TAKE i \in 1 .. Len(r)
  <2>1. r[i] # <<m, "Deregister">>
    BY <1>1 DEF States
  <2>2. r[i] # <<m, "DisConnected">>
    BY <1>2
  <2>3. QED
    BY <2>1, <2>2
<1> HIDE DEF t, Away
<1>4. PICK i \in 1 .. Len(r) : r[i] = <<m, "Ready">>
  BY <1>2
<1>5. Len(q) + i \in 1 .. Len(t) /\ t[Len(q) + i] = <<m, "Ready">>
  BY <1>1, <1>4
<1>6. \A j \in (Len(q) + i) + 1 .. Len(t) : t[j] \notin Away
  <2> TAKE j \in (Len(q) + i) + 1 .. Len(t)
  <2>1. j - Len(q) \in 1 .. Len(r) /\ Len(q) + (j - Len(q)) = j
    BY <1>1
  <2>2. t[j] = r[j - Len(q)]
    BY <1>1, <2>1
  <2>3. QED
    BY <1>3, <2>1, <2>2
<1>7. QED
  BY <1>5, <1>6 DEF Readies, t, Away

LEMMA ServiceTelling ==
  ASSUME LinkInv, Telling, NEW p \in Procs, NEW what \in {"Register", "Deregister"} \cup States,
         Stepped(p, what)
  PROVE  Telling'
<1> DEFINE e == <<p, what>>
<1>1. /\ news' = Append(news, e) /\ inbox' = IF bound.ledger THEN Append(inbox, e) ELSE inbox
      /\ states' = states /\ ready' = ready /\ bound' = bound
  BY DEF Stepped, Publish
<1>2. news \in Seq(Frames) /\ inbox \in Seq(Frames) /\ e \in Frames /\ (~bound.ledger => inbox = << >>)
  BY DEF LinkInv, GatewayInv, Types, NewsTypes, Frames
<1>3. e[1] = p
  OBVIOUS
<1> HIDE DEF e
<1> SUFFICES ASSUME NEW m \in MDs, md'[m].ready PROVE Heard(m)'
  BY DEF Telling
<1>4. CASE m = p
  <2>1. e = <<m, "Ready">>
    BY <1>4 DEF Stepped, e
  <2>2. CASE bound.ledger
    <3>1. Len(inbox') \in 1 .. Len(inbox') /\ inbox'[Len(inbox')] = e /\ \A j \in Len(inbox') + 1 .. Len(inbox') : FALSE
      BY <1>1, <1>2, <2>2
    <3>2. QED
      BY <2>1, <3>1 DEF Heard
  <2>3. CASE ~bound.ledger
    <3>1. Readies(news', ready', m)
      BY <1>1, <1>2, <2>1, ReadiesAppend
    <3>2. \A j \in 1 .. Len(inbox') : FALSE
      BY <1>1, <1>2, <2>3
    <3>3. QED
      BY <1>1, <2>3, <3>1, <3>2 DEF Heard
  <2>4. QED
    BY <2>2, <2>3
<1>5. CASE m # p
  <2>1. Heard(m)
    <3>1. md[m].ready
      BY <1>5 DEF Stepped, Procs
    <3>2. QED
      BY <3>1 DEF Telling
  <2>2. \A i \in 1 .. Len(inbox') :
          \/ i \in 1 .. Len(inbox) /\ inbox'[i] = inbox[i]
          \/ inbox'[i][1] = p /\ i = Len(inbox) + 1
    BY <1>1, <1>2, <1>3
  <2>a. \A i \in 1 .. Len(inbox) : i \in 1 .. Len(inbox') /\ inbox'[i] = inbox[i]
    BY <1>1, <1>2
  <2>b. Len(inbox) \in Nat /\ Len(inbox') \in Nat
    BY <1>1, <1>2
  <2>3. CASE \E i \in 1 .. Len(inbox) : inbox[i] = <<m, "Ready">> /\ \A j \in i + 1 .. Len(inbox) : inbox[j][1] # m
    <3>1. PICK i \in 1 .. Len(inbox) : inbox[i] = <<m, "Ready">> /\ \A j \in i + 1 .. Len(inbox) : inbox[j][1] # m
      BY <2>3
    <3>2. \A j \in i + 1 .. Len(inbox') : inbox'[j][1] # m
      <4> TAKE j \in i + 1 .. Len(inbox')
      <4>1. j \in 1 .. Len(inbox')
        BY <2>b
      <4>2. CASE j \in 1 .. Len(inbox) /\ inbox'[j] = inbox[j]
        <5>1. j \in i + 1 .. Len(inbox)
          BY <2>b, <4>2
        <5>2. QED
          BY <3>1, <4>2, <5>1
      <4>3. CASE inbox'[j][1] = p
        BY <1>5, <4>3
      <4>4. QED
        BY <2>2, <4>1, <4>2, <4>3
    <3>3. i \in 1 .. Len(inbox') /\ inbox'[i] = <<m, "Ready">>
      BY <2>a, <3>1
    <3>4. QED
      BY <3>2, <3>3 DEF Heard
  <2>4. CASE /\ \A j \in 1 .. Len(inbox) : inbox[j][1] # m
             /\ bound.ledger => m \in DOMAIN states /\ states[m] = "Ready"
             /\ Readies(news, ready, m)
    <3>1. \A j \in 1 .. Len(inbox') : inbox'[j][1] # m
      BY <1>5, <2>2, <2>4
    <3>2. Readies(news', ready', m)
      BY <1>1, <1>2, <1>3, <1>5, <2>4, ReadiesAppend
    <3>3. QED
      BY <1>1, <2>4, <3>1, <3>2 DEF Heard
  <2>5. QED
    BY <2>1, <2>3, <2>4 DEF Heard
<1>6. QED
  BY <1>4, <1>5

\* The ledger repeats only who is up: it says nothing of the dead.
LEMMA LedgerBuried ==
  ASSUME LinkInv, LinkInv', Buried, LedgerReact, bound.deaths = 0 \/ ~bound.ledger
  PROVE  Buried'
<1>1. UNCHANGED <<md, ready, bound>>
  BY DEF LedgerReact, client, services, hist
<1>2. NewsTypes /\ news \in Seq(Frames)
  BY DEF LinkInv, GatewayInv, Types, NewsTypes
<1>3. inbox # << >> /\ bound.ledger
  BY DEF LedgerReact, LinkInv
<1>4. \A x \in DOMAIN states' : md[x].up
  BY <1>1, <1>3 DEF LinkInv, HeardUp
<1>5. LedgerTells(Head(inbox)[1], Head(inbox)[2])
  BY <1>2, LedgerFrames
<1>6. CASE news' = news
  BY <1>1, <1>6 DEF Buried, Pending
<1>7. CASE \E r \in Seq(Procs \X States) : news' = news \o r /\ Retold(r, states')
  <2>1. PICK r \in Seq(Procs \X States) : news' = news \o r /\ Retold(r, states')
    BY <1>7
  <2>2. /\ Len(news) \in Nat /\ Len(r) \in Nat /\ Len(news') = Len(news) + Len(r)
        /\ \A i \in 1 .. Len(news) : news'[i] = news[i]
        /\ \A i \in 1 .. Len(r) : news'[Len(news) + i] = r[i]
    BY <1>2, <2>1
  <2>a. \A i \in 1 .. Len(news) : i \in 1 .. Len(news')
    BY <2>2
  <2>3. \A i \in 1 .. Len(news') : i \in 1 .. Len(news) \/ md[news'[i][1]].up
    <3> TAKE i \in 1 .. Len(news')
    <3>1. CASE i \notin 1 .. Len(news)
      <4>1. i - Len(news) \in 1 .. Len(r) /\ Len(news) + (i - Len(news)) = i
        BY <2>2, <3>1
      <4>2. news'[i] = r[i - Len(news)]
        BY <2>2, <4>1
      <4>3. news'[i][1] \in DOMAIN states'
        BY <2>1, <4>1, <4>2 DEF Retold
      <4>4. QED
        BY <1>4, <4>3
    <3>2. QED
      BY <3>1
  <2>4. ASSUME NEW m \in MDs, ~md[m].up
        PROVE  /\ m \in ready => Pending(m)'
               /\ \A i \in 1 .. Len(news') : news'[i] = <<m, "Ready">> =>
                     \E j \in i + 1 .. Len(news') : news'[j] = <<m, "Deregister">>
    <3>1. /\ m \in ready => Pending(m)
          /\ \A i \in 1 .. Len(news) : news[i] = <<m, "Ready">> =>
                \E j \in i + 1 .. Len(news) : news[j] = <<m, "Deregister">>
      BY <2>4 DEF Buried
    <3>2. m \in ready => Pending(m)'
      BY <2>2, <2>a, <3>1 DEF Pending
    <3>3. ASSUME NEW i \in 1 .. Len(news'), news'[i] = <<m, "Ready">>
          PROVE  \E j \in i + 1 .. Len(news') : news'[j] = <<m, "Deregister">>
      <4>1. i \in 1 .. Len(news) /\ news[i] = <<m, "Ready">>
        BY <2>2, <2>3, <2>4, <3>3
      <4>2. PICK j \in i + 1 .. Len(news) : news[j] = <<m, "Deregister">>
        BY <3>1, <4>1
      <4>3. j \in 1 .. Len(news) /\ j \in i + 1 .. Len(news')
        BY <2>2, <4>1
      <4>4. QED
        BY <2>2, <4>2, <4>3
    <3>4. QED
      BY <3>2, <3>3
  <2>5. QED
    BY <1>1, <2>4 DEF Buried, Pending
<1>8. QED
  BY <1>5, <1>6, <1>7 DEF LedgerTells

LEMMA LedgerOurs ==
  ASSUME GatewayInv, Ours, LedgerReact
  PROVE  Ours'
<1>1. UNCHANGED <<md, bound, writers, served>>
  BY DEF LedgerReact, client, services, hist
<1>2. NewsTypes /\ news \in Seq(Frames) /\ inbox \in Seq(Frames)
  BY DEF GatewayInv, Types, NewsTypes
<1> DEFINE m == Head(inbox)[1]
           what == Head(inbox)[2]
<1>3. /\ inbox # << >> /\ inbox' = Tail(inbox) /\ Head(inbox) = inbox[1] /\ 1 \in 1 .. Len(inbox)
      /\ \A i \in 1 .. Len(inbox') : i + 1 \in 1 .. Len(inbox) /\ inbox'[i] = inbox[i + 1]
  BY <1>2, HeadTail DEF LedgerReact
<1>4. m \in bound.procs /\ \A i \in 1 .. Len(inbox') : inbox'[i][1] \in bound.procs
  BY <1>3 DEF Ours
<1>5. LedgerTells(m, what)
  BY <1>2, LedgerFrames
<1> HIDE DEF m, what
<1>6. DOMAIN states' \subseteq bound.procs
  <2>1. states' = states \/ states' = With(states, m, what)
    BY <1>5 DEF LedgerTells, Known
  <2>2. DOMAIN With(states, m, what) = {m} \cup DOMAIN states
    BY WithFacts
  <2>3. DOMAIN states \subseteq bound.procs
    BY DEF Ours
  <2>4. CASE states' = states
    BY <2>3, <2>4
  <2>5. CASE states' = With(states, m, what)
    BY <1>4, <2>2, <2>3, <2>5
  <2>6. QED
    BY <2>1, <2>4, <2>5
<1>7. \A i \in 1 .. Len(news') : news'[i][1] \in bound.procs
  <2>1. CASE news' = news
    BY <2>1 DEF Ours
  <2>2. CASE \E r \in Seq(Procs \X States) : news' = news \o r /\ Retold(r, states')
    <3>1. PICK r \in Seq(Procs \X States) : news' = news \o r /\ Retold(r, states')
      BY <2>2
    <3>2. /\ Len(news) \in Nat /\ Len(r) \in Nat /\ Len(news') = Len(news) + Len(r)
          /\ \A i \in 1 .. Len(news) : news'[i] = news[i]
          /\ \A i \in 1 .. Len(r) : news'[Len(news) + i] = r[i]
      BY <1>2, <3>1
    <3> TAKE i \in 1 .. Len(news')
    <3>3. CASE i \in 1 .. Len(news)
      BY <3>2, <3>3 DEF Ours
    <3>4. CASE i \notin 1 .. Len(news)
      <4>1. i - Len(news) \in 1 .. Len(r) /\ Len(news) + (i - Len(news)) = i
        BY <3>2, <3>4
      <4>2. news'[i] = r[i - Len(news)]
        BY <3>2, <4>1
      <4>3. QED
        BY <1>6, <3>1, <4>1, <4>2 DEF Retold
    <3>5. QED
      BY <3>3, <3>4
  <2>3. QED
    BY <1>5, <2>1, <2>2 DEF LedgerTells
<1>8. QED
  BY <1>1, <1>4, <1>6, <1>7 DEF Ours

\* What the ledger heard last it repeats, then and with every later frame.
LEMMA LedgerTelling ==
  ASSUME LinkInv, Telling, LedgerReact, bound.deaths = 0 \/ ~bound.ledger
  PROVE  Telling'
<1> DEFINE h == Head(inbox)[1]
           what == Head(inbox)[2]
<1>1. UNCHANGED <<md, ready, bound>>
  BY DEF LedgerReact, client, services, hist
<1>2. NewsTypes /\ news \in Seq(Frames) /\ inbox \in Seq(Frames)
  BY DEF LinkInv, GatewayInv, Types, NewsTypes
<1>3. /\ inbox # << >> /\ inbox' = Tail(inbox) /\ Head(inbox) = inbox[1] /\ Head(inbox) = <<h, what>>
      /\ Len(inbox) \in Nat \ {0} /\ Len(inbox') = Len(inbox) - 1
      /\ \A i \in 1 .. Len(inbox') : inbox'[i] = inbox[i + 1]
  <2>1. inbox # << >> /\ inbox' = Tail(inbox) /\ Head(inbox) \in Frames
    BY <1>2, HeadTail DEF LedgerReact
  <2>2. Head(inbox) = <<h, what>>
    BY <2>1, FrameFacts
  <2>3. QED
    BY <1>2, <2>1, <2>2
<1>4. bound.ledger /\ bound.deaths = 0 /\ what # "Deregister"
  <2>1. bound.ledger /\ bound.deaths = 0
    BY <1>3 DEF LinkInv
  <2>2. 1 \in 1 .. Len(inbox)
    BY <1>3
  <2>3. QED
    BY <1>3, <2>1, <2>2 DEF LinkInv, NobodyDies
<1>5. LedgerTells(h, what)
  BY <1>2, LedgerFrames
<1> HIDE DEF h, what
<1>6. ASSUME NEW m \in DOMAIN states', states'[m] = "Ready", what # "Register" PROVE Readies(news', ready', m)
  <2>1. PICK r \in Seq(Procs \X States) : news' = news \o r /\ Retold(r, states')
    BY <1>5, <1>6 DEF LedgerTells
  <2> DEFINE st == states'
             R == ready'
  <2>2. m \in DOMAIN st /\ st[m] = "Ready" /\ Retold(r, st)
    BY <1>6, <2>1
  <2> HIDE DEF st, R
  <2>3. Readies(news \o r, R, m)
    BY <1>2, <2>2, ReadiesTold
  <2>4. QED
    BY <2>1, <2>3 DEF R
<1>7. what # "Register" => states' = With(states, h, what)
  BY <1>4, <1>5 DEF LedgerTells, Known
<1>8. /\ DOMAIN With(states, h, what) = {h} \cup DOMAIN states /\ With(states, h, what)[h] = what
      /\ \A x \in DOMAIN states \ {h} : With(states, h, what)[x] = states[x]
  BY DEF With
<1> SUFFICES ASSUME NEW m \in MDs, md[m].ready PROVE Heard(m)'
  BY <1>1 DEF Telling
<1>9. Heard(m)
  BY DEF Telling
<1>10. CASE \E i \in 1 .. Len(inbox) : inbox[i] = <<m, "Ready">> /\ \A j \in i + 1 .. Len(inbox) : inbox[j][1] # m
  <2>1. PICK i \in 1 .. Len(inbox) : inbox[i] = <<m, "Ready">> /\ \A j \in i + 1 .. Len(inbox) : inbox[j][1] # m
    BY <1>10
  <2>2. CASE i = 1
    <3>1. h = m /\ what = "Ready"
      BY <1>3, <2>1, <2>2
    <3>2. m \in DOMAIN states' /\ states'[m] = "Ready"
      <4>1. states' = With(states, h, what)
        BY <1>7, <3>1
      <4>2. QED
        BY <1>8, <3>1, <4>1
    <3>3. Readies(news', ready', m)
      BY <1>6, <3>1, <3>2
    <3>4. \A j \in 1 .. Len(inbox') : inbox'[j][1] # m
      <4>1. \A j \in 1 .. Len(inbox') : j + 1 \in i + 1 .. Len(inbox)
        BY <1>3, <2>2
      <4>2. QED
        BY <1>3, <2>1, <4>1
    <3>5. QED
      BY <3>2, <3>3, <3>4 DEF Heard
  <2>3. CASE i # 1
    <3>1. i - 1 \in 1 .. Len(inbox') /\ inbox'[i - 1] = <<m, "Ready">>
      BY <1>3, <2>1, <2>3
    <3>2. \A j \in (i - 1) + 1 .. Len(inbox') : j \in 1 .. Len(inbox') /\ j + 1 \in i + 1 .. Len(inbox)
      BY <1>3, <2>3
    <3>3. \A j \in (i - 1) + 1 .. Len(inbox') : inbox'[j][1] # m
      BY <1>3, <2>1, <3>2
    <3>4. QED
      BY <3>1, <3>3 DEF Heard
  <2>4. QED
    BY <2>2, <2>3
<1>11. CASE /\ \A j \in 1 .. Len(inbox) : inbox[j][1] # m
            /\ bound.ledger => m \in DOMAIN states /\ states[m] = "Ready"
            /\ Readies(news, ready, m)
  <2>1. h # m
    <3>1. 1 \in 1 .. Len(inbox)
      BY <1>3
    <3>2. QED
      BY <1>3, <1>11, <3>1
  <2>2. \A j \in 1 .. Len(inbox') : inbox'[j][1] # m
    <3>1. \A j \in 1 .. Len(inbox') : j + 1 \in 1 .. Len(inbox)
      BY <1>3
    <3>2. QED
      BY <1>3, <1>11, <3>1
  <2>3. CASE what = "Register"
    <3>1. states' = states /\ news' = news
      BY <1>5, <2>3 DEF LedgerTells
    <3>2. QED
      BY <1>1, <1>11, <2>2, <3>1 DEF Heard
  <2>4. CASE what # "Register"
    <3>1. m \in DOMAIN states' /\ states'[m] = "Ready"
      <4>1. states' = With(states, h, what)
        BY <1>7, <2>4
      <4>2. m \in DOMAIN states \ {h} /\ states[m] = "Ready"
        BY <1>4, <1>11, <2>1
      <4>3. QED
        BY <1>8, <4>1, <4>2
    <3>2. Readies(news', ready', m)
      BY <1>6, <2>4, <3>1
    <3>3. QED
      BY <2>2, <3>1, <3>2 DEF Heard
  <2>5. QED
    BY <2>3, <2>4
<1>12. QED
  BY <1>9, <1>10, <1>11 DEF Heard

\* What the event loop does with a frame: it marks no more than who says it is ready.
LEMMA ReactFacts ==
  ASSUME LinkInv, React, bound.deaths = 0 \/ ~bound.ledger
  PROVE  /\ news # << >> /\ news' = Tail(news) /\ news \in Seq(Frames)
         /\ UNCHANGED <<inbox, states, bound, served>>
         /\ \A x \in Procs : md'[x].up = md[x].up /\ md'[x].ready = md[x].ready /\ md'[x].reads = md[x].reads
         /\ writers' \subseteq writers \cup {Head(news)[1]}
         /\ \A x : Head(news) = <<x, "Ready">> => x \in ready'
         /\ \A x : Head(news) \notin {<<x, "Deregister">>, <<x, "DisConnected">>} /\ x \in ready => x \in ready'
         /\ \A x : Head(news) = <<x, "Deregister">> => x \notin ready'
         /\ \A x : x \in ready' => x \in ready \/ Head(news) = <<x, "Ready">>
<1> DEFINE m == Head(news)[1]
           what == Head(news)[2]
<1>1. /\ news # << >> /\ news' = Tail(news) /\ news \in Seq(Frames)
      /\ UNCHANGED <<inbox, states, bound, served>>
  BY DEF React, ledger, hist, LinkInv, GatewayInv, Types, NewsTypes
<1>2. /\ Head(news) = <<m, what>> /\ m \in Procs /\ what \in {"Register", "Deregister"} \cup States
      /\ Head(news) = news[1] /\ 1 \in 1 .. Len(news)
  BY <1>1, HeadTail, FrameFacts
<1>3. /\ what = "Register" => connect(m)
      /\ what = "Deregister" => deregister(m)
      /\ what \in States => update_broker_state(m, what)
  BY DEF React, States
<1>4. md \in [Procs -> [up : BOOLEAN, ready : BOOLEAN, told : BOOLEAN, reads : BOOLEAN]]
  BY DEF LinkInv, GatewayInv, Types, ServiceTypes
<1>5. what \in States => m \in writers
  <2>1. CASE what \in States
    <3>1. UpAt(news, linked, news[1][1], 1)
      BY <1>2, <2>1 DEF LinkInv, InOrder
    <3>2. m \in linked
      BY <1>2, <3>1 DEF UpAt
    <3>3. QED
      BY <3>2 DEF LinkInv, GatewayInv, Types
  <2>2. QED
    BY <2>1
<1>a. \A x, w : Head(news) = <<x, w>> <=> x = m /\ w = what
  BY <1>2
<1>b. \A x : Head(news) \in {<<x, "Deregister">>, <<x, "DisConnected">>} <=>
                x = m /\ what \in {"Deregister", "DisConnected"}
  BY <1>a
<1> HIDE DEF m, what
<1>6. CASE what = "Register"
  <2>1. connect(m)
    BY <1>3, <1>6
  <2>2. ready' = ready /\ writers' = writers \cup {m} /\ (md' = md \/ md' = [md EXCEPT ![m].told = TRUE])
    BY <2>1 DEF connect
  <2>3. \A x \in Procs : md'[x].up = md[x].up /\ md'[x].ready = md[x].ready /\ md'[x].reads = md[x].reads
    BY <1>2, <1>4, <2>2
  <2>4. QED
    BY <1>1, <1>a, <1>6, <2>2, <2>3, SMTT(30) DEF m
<1>7. CASE what = "Deregister"
  <2>1. ready' = ready \ {m} /\ writers' = writers /\ md' = md
    BY <1>3, <1>7 DEF deregister, Forget
  <2>2. QED
    <3>1. /\ \A x : Head(news) = <<x, "Ready">> => x \in ready'
          /\ \A x : Head(news) = <<x, "Deregister">> => x \notin ready'
          /\ \A x : x \in ready' => x \in ready \/ Head(news) = <<x, "Ready">>
      BY <1>a, <1>7, <2>1
    <3>2. \A x : Head(news) \notin {<<x, "Deregister">>, <<x, "DisConnected">>} /\ x \in ready => x \in ready'
      BY <1>b, <1>7, <2>1
    <3>3. QED
      BY <1>1, <2>1, <3>1, <3>2
<1>8. CASE what \in States
  <2>1. update_broker_state(m, what) /\ m \in writers
    BY <1>3, <1>5, <1>8
  <2>2. /\ writers' = writers /\ md' = md
        /\ ready' = IF what = "Ready" THEN ready \cup {m} ELSE IF what = "DisConnected" THEN ready \ {m} ELSE ready
    BY <2>1 DEF update_broker_state
  <2>3. QED
    <3>1. /\ \A x : Head(news) = <<x, "Ready">> => x \in ready'
          /\ \A x : Head(news) = <<x, "Deregister">> => x \notin ready'
          /\ \A x : x \in ready' => x \in ready \/ Head(news) = <<x, "Ready">>
      BY <1>a, <1>8, <2>2 DEF States
    <3>2. \A x : Head(news) \notin {<<x, "Deregister">>, <<x, "DisConnected">>} /\ x \in ready => x \in ready'
      BY <1>b, <1>8, <2>2 DEF States
    <3>3. QED
      BY <1>1, <2>2, <3>1, <3>2
<1>9. QED
  BY <1>2, <1>6, <1>7, <1>8

LEMMA ReactBuried ==
  ASSUME LinkInv, Buried, React, bound.deaths = 0 \/ ~bound.ledger
  PROVE  Buried'
<1>1. /\ news # << >> /\ news' = Tail(news) /\ news \in Seq(Frames)
      /\ \A x \in Procs : md'[x].up = md[x].up
      /\ \A x : Head(news) = <<x, "Deregister">> => x \notin ready'
      /\ \A x : x \in ready' => x \in ready \/ Head(news) = <<x, "Ready">>
  BY ReactFacts
<1>2. /\ Len(news) \in Nat \ {0} /\ Len(news') = Len(news) - 1 /\ Head(news) = news[1]
      /\ \A i \in 1 .. Len(news') : news'[i] = news[i + 1] /\ i + 1 \in 1 .. Len(news)
  BY <1>1
<1>3. ASSUME NEW m, NEW i \in 1 .. Len(news), \E j \in i + 1 .. Len(news) : news[j] = <<m, "Deregister">>
      PROVE  \E j \in i .. Len(news') : news'[j] = <<m, "Deregister">>
  <2>1. PICK j \in i + 1 .. Len(news) : news[j] = <<m, "Deregister">>
    BY <1>3
  <2>2. j - 1 \in i .. Len(news') /\ j - 1 \in 1 .. Len(news') /\ (j - 1) + 1 = j
    BY <1>2
  <2>3. QED
    BY <1>2, <2>1, <2>2
<1> SUFFICES ASSUME NEW m \in MDs, ~md'[m].up
             PROVE  /\ m \in ready' => Pending(m)'
                    /\ \A i \in 1 .. Len(news') : news'[i] = <<m, "Ready">> =>
                          \E j \in i + 1 .. Len(news') : news'[j] = <<m, "Deregister">>
  BY DEF Buried, Pending
<1>4. /\ m \in ready => Pending(m)
      /\ \A i \in 1 .. Len(news) : news[i] = <<m, "Ready">> =>
            \E j \in i + 1 .. Len(news) : news[j] = <<m, "Deregister">>
  BY <1>1 DEF Buried, Procs
<1>5. m \in ready' => Pending(m)'
  <2> SUFFICES ASSUME m \in ready' PROVE Pending(m)'
    OBVIOUS
  <2>1. CASE m \in ready
    BY <1>1, <1>4, <2>1, PendingTail
  <2>2. CASE Head(news) = <<m, "Ready">>
    <3>1. 1 \in 1 .. Len(news)
      BY <1>2
    <3>2. \E j \in 1 .. Len(news') : news'[j] = <<m, "Deregister">>
      BY <1>2, <1>3, <1>4, <2>2, <3>1
    <3>3. QED
      BY <3>2 DEF Pending
  <2>3. QED
    BY <1>1, <2>1, <2>2
<1>6. ASSUME NEW i \in 1 .. Len(news'), news'[i] = <<m, "Ready">>
      PROVE  \E j \in i + 1 .. Len(news') : news'[j] = <<m, "Deregister">>
  <2>1. i + 1 \in 1 .. Len(news) /\ news[i + 1] = <<m, "Ready">>
    BY <1>2, <1>6
  <2>2. QED
    BY <1>3, <1>4, <2>1
<1>7. QED
  BY <1>5, <1>6

LEMMA ReactOthers ==
  ASSUME LinkInv, Fresh, Ours, Telling, React, bound.deaths = 0 \/ ~bound.ledger
  PROVE  Fresh' /\ Ours' /\ Telling'
<1>1. /\ news # << >> /\ news' = Tail(news) /\ news \in Seq(Frames)
      /\ UNCHANGED <<inbox, states, bound, served>>
      /\ \A x \in Procs : md'[x].up = md[x].up /\ md'[x].ready = md[x].ready /\ md'[x].reads = md[x].reads
      /\ writers' \subseteq writers \cup {Head(news)[1]}
  BY ReactFacts
<1>2. /\ Head(news) = news[1] /\ 1 \in 1 .. Len(news)
      /\ \A i \in 1 .. Len(news') : i + 1 \in 1 .. Len(news) /\ news'[i] = news[i + 1]
  BY <1>1, HeadTail
<1>3. Fresh'
  BY <1>1 DEF Fresh, Procs
<1>4. Ours'
  BY <1>1, <1>2 DEF Ours
<1>5. Telling'
  <2> SUFFICES ASSUME NEW m \in MDs, md[m].ready PROVE Heard(m)'
    BY <1>1 DEF Telling, Procs
  <2>1. Heard(m)
    BY DEF Telling
  <2>2. ASSUME Readies(news, ready, m) PROVE Readies(news', ready', m)
    <3> DEFINE R == ready'
    <3>1. /\ Head(news) = <<m, "Ready">> => m \in R
          /\ Head(news) \notin {<<m, "Deregister">>, <<m, "DisConnected">>} /\ m \in ready => m \in R
      BY ReactFacts
    <3> HIDE DEF R
    <3>2. Readies(Tail(news), R, m)
      BY <1>1, <2>2, <3>1, ReadiesTail
    <3>3. QED
      BY <1>1, <3>2 DEF R
  <2>3. QED
    BY <1>1, <2>1, <2>2 DEF Heard
<1>6. QED
  BY <1>3, <1>4, <1>5

\* The services, the news and the ledger stay as they are.
LEMMA ServicesRest ==
  ASSUME Fresh, Buried, Ours, Telling,
         UNCHANGED <<md, news, inbox, states, ready, writers, bound, served>>
  PROVE  Fresh' /\ Buried' /\ Ours' /\ Telling'
<1>1. Fresh' /\ Ours'
  BY DEF Fresh, Ours
<1>2. Buried'
  BY DEF Buried, Pending
<1>3. Telling'
  BY DEF Telling, Heard
<1>4. QED
  BY <1>1, <1>2, <1>3

\* Only a service that reads its channel, and so is up, is given anything.
LEMMA ServeRest ==
  ASSUME Fresh, Buried, Ours, Telling, ChannelTypes, NEW m \in MDs, Serve(m)
  PROVE  Fresh' /\ Buried' /\ Ours' /\ Telling'
<1>1. UNCHANGED <<md, news, inbox, states, ready, writers, bound>>
  BY DEF Serve, client, ledger, hist
<1>2. \A x \in MDs \ {m} : served'[x] = served[x]
  BY DEF Serve, ChannelTypes
<1>3. md[m].reads /\ md[m].up /\ m \in bound.procs
  BY DEF Serve, Fresh, Ours, Procs
<1>4. Fresh'
  BY <1>1, <1>2, <1>3 DEF Fresh
<1>5. Ours'
  <2>1. \A x \in MDs \ bound.procs : served'[x] = {}
    BY <1>2, <1>3 DEF Ours
  <2>2. QED
    BY <1>1, <2>1 DEF Ours
<1>6. Buried'
  BY <1>1 DEF Buried, Pending
<1>7. Telling'
  BY <1>1 DEF Telling, Heard
<1>8. QED
  BY <1>4, <1>5, <1>6, <1>7

LEMMA InitServed == Init => ServedInv
<1> SUFFICES ASSUME Init PROVE ServedInv
  OBVIOUS
<1>1. LinkInv
  BY InitLinks
<1>2. \A m \in Procs : ~md[m].up /\ ~md[m].ready /\ ~md[m].reads
  BY DEF Init
<1>3. \A m \in MDs : m \in Procs /\ served[m] = {} /\ chan[m] = << >>
  BY DEF Init, Procs
<1>4. ChannelInv
  <2>1. chan \in [MDs -> Seq(Commands)] /\ served \in [MDs -> SUBSET Keys]
    BY DEF Init
  <2>2. DOMAIN source = {} /\ DOMAIN sessions = {} /\ replay = {} /\ ready = {}
    BY DEF Init
  <2>3. \A k : ~Follows(<< >>, {}, k)
    BY FollowsFacts
  <2>4. \A k : Shared(k) /\ Fed(k)
    BY <1>3, <2>2, <2>3 DEF Shared, Fed, Wanted
  <2>5. QED
    BY <2>1, <2>2, <2>4 DEF ChannelInv, ChannelTypes
<1>5. Fresh /\ Telling
  BY <1>2, <1>3 DEF Fresh, Telling
<1>6. Len(news) = 0 /\ Len(inbox) = 0
  BY DEF Init
<1>7. Buried
  BY <1>6 DEF Init, Buried
<1>8. Ours
  <2>1. \A i \in 1 .. 0 : FALSE
    OBVIOUS
  <2>2. DOMAIN states = {} /\ writers = {}
    BY DEF Init
  <2>3. QED
    BY <1>2, <1>3, <1>6, <2>1, <2>2 DEF Ours
<1>9. QED
  BY <1>1, <1>4, <1>5, <1>7, <1>8 DEF ServedInv

LEMMA NextServed ==
  ASSUME \A b \in Scenarios : b.deaths = 0 \/ ~b.ledger
  PROVE  ServedInv /\ [Next]_vars => ServedInv'
<1> SUFFICES ASSUME ServedInv, [Next]_vars PROVE ServedInv'
  OBVIOUS
<1>1. /\ LinkInv /\ ChannelInv /\ Fresh /\ Buried /\ Ours /\ Telling /\ GatewayInv /\ ChannelTypes
      /\ bound.deaths = 0 \/ ~bound.ledger
  BY DEF ServedInv, ChannelInv, LinkInv, GatewayInv, Types, ServiceTypes
<1>2. LinkInv'
  BY <1>1, NextLinks
<1> SUFFICES ChannelInv' /\ (Fresh' /\ Buried' /\ Ours' /\ Telling')
  BY <1>2 DEF ServedInv
<1>3. CASE \E s \in Clients : Accept(s) \/ Receive(s) \/ Close(s)
  <2>1. UNCHANGED <<md, news, inbox, states, ready, writers, bound, served>>
    BY <1>3 DEF Accept, Receive, Close, client, ledger, services, hist
  <2>2. CASE \E s \in Clients : Accept(s)
    BY <1>1, <2>1, <2>2, AcceptServed, ServicesRest
  <2>3. CASE \E s \in Clients : Receive(s) \/ Close(s)
    <3>1. UNCHANGED <<sessions, replay, source, writers, chan, served, ready, news, crossed>>
      BY <2>1, <2>3 DEF Receive, Close, api, client, hist
    <3>2. QED
      BY <1>1, <2>1, <3>1, ChannelsKept, ServicesRest
  <2>4. QED
    BY <1>3, <2>2, <2>3
<1>4. CASE Disconnect
  <2>1. UNCHANGED <<md, news, inbox, states, ready, writers, bound, served>>
    BY <1>4 DEF Disconnect, ledger, services, hist
  <2>2. QED
    BY <1>1, <1>4, <2>1, DisconnectServed, ServicesRest
<1>5. CASE Drain
  <2>1. UNCHANGED <<news, inbox, states, md, bound, served>>
    BY <1>5 DEF Drain, ledger, services
  <2>2. UNCHANGED <<ready, writers>>
    <3>1. Head(requests) \in Clients \X Requests
      BY <1>1, <1>5, HeadTail DEF Drain, GatewayInv, Types, ThreadTypes
    <3>2. Head(requests)[2] \in Requests
      BY <3>1
    <3>3. Head(requests)[2].method \in {"request_market_data", "cancel_market_data",
                                        "subscribe_strategy", "unsubscribe_strategy", "issue_order"}
      BY <3>2, RequestKinds
    <3>4. QED
      BY <1>5, <3>3 DEF Drain, handle_request_market_data, handle_cancel_market_data,
                        handle_subscribe_strategy, handle_unsubscribe_strategy,
                        handle_issue_order, client
  <2>3. QED
    BY <1>1, <1>5, <2>1, <2>2, DrainServed, ServicesRest
<1>6. CASE React
  BY <1>1, <1>6, ReactServed, ReactBuried, ReactOthers
<1>7. CASE LedgerReact
  <2>1. UNCHANGED <<md, served>>
    BY <1>7 DEF LedgerReact, services
  <2>2. Fresh'
    BY <1>1, <2>1 DEF Fresh
  <2>3. QED
    BY <1>1, <1>2, <1>7, <2>2, LedgerServed, LedgerBuried, LedgerOurs, LedgerTelling
<1>8. ASSUME NEW p \in Procs,
             \/ Start(p) \/ Die(p)
             \/ FrontUp(p) \/ FrontDown(p) \/ Link(p)
      PROVE  ChannelInv' /\ Fresh' /\ Buried' /\ Ours' /\ Telling'
  <2>1. PICK what \in {"Register", "Deregister"} \cup States : Stepped(p, what)
    BY <1>1, <1>8, ServiceFrame
  <2>2. QED
    BY <1>1, <2>1, ServiceServed, ServiceFresh, ServiceBuried, ServiceOurs, ServiceTelling
<1>9. CASE \E p \in Procs : Start(p) \/ Die(p)
  BY <1>8, <1>9
<1>10. CASE \E m \in MDs : FrontUp(m) \/ FrontDown(m) \/ Link(m)
  BY <1>8, <1>10 DEF Procs
<1>11. CASE \E m \in MDs : Serve(m)
  BY <1>1, <1>11, ServeServed, ServeRest
<1>12. CASE UNCHANGED vars
  <2>1. UNCHANGED <<md, news, inbox, states, ready, writers, bound, served>>
    BY <1>12 DEF vars, client, ledger, services, hist
  <2>2. UNCHANGED <<sessions, replay, source, writers, chan, served, ready, news, crossed>>
    BY <1>12, <2>1 DEF vars, api, client, hist
  <2>3. QED
    BY <1>1, <2>1, <2>2, ChannelsKept, ServicesRest
<1>13. QED
  BY <1>3, <1>4, <1>5, <1>6, <1>7, <1>9, <1>10, <1>11, <1>12 DEF Next

LEMMA ServedSettled == ServedInv => ServedExactly
<1> SUFFICES ASSUME ServedInv, Settled, NEW k \in Keys \ crossed
             PROVE  Wanted(k) <=> \E m \in MDs : k \in served[m]
  BY DEF ServedExactly
<1>1. LinkInv /\ ChannelInv /\ Ours /\ Telling /\ Shared(k) /\ Fed(k)
  BY DEF ServedInv, ChannelInv
<1>2. /\ Len(news) = 0 /\ Len(inbox) = 0
      /\ \A m \in MDs \cap bound.procs : md[m].ready /\ chan[m] = << >>
  BY DEF Settled
<1>3. \A i \in 1 .. 0 : FALSE
  OBVIOUS
<1>4. ASSUME NEW m \in MDs \cap bound.procs
      PROVE  m \in ready /\ ~Pending(m) /\ (Follows(chan[m], served[m], k) <=> k \in served[m])
  <2>1. Heard(m)
    BY <1>1, <1>2 DEF Telling
  <2>2. m \in ready
    BY <1>2, <1>3, <2>1 DEF Heard, Readies
  <2>3. ~Pending(m)
    BY <1>2, <1>3 DEF Pending
  <2>4. Follows(<< >>, served[m], k) <=> k \in served[m]
    BY FollowsFacts
  <2>5. QED
    BY <1>2, <2>2, <2>3, <2>4
<1>5. ASSUME Wanted(k) PROVE \E m \in MDs : k \in served[m]
  <2>1. PICK s \in DOMAIN sessions : k \in sessions[s].keys
    BY <1>5 DEF Wanted
  <2>2. Asking(sessions[s], k, source, writers)
    BY <1>1 DEF Shared
  <2>3. PICK m \in MDs : m \in writers /\ k \in DOMAIN source /\ source[k] = m
    BY <2>1, <2>2 DEF Asking
  <2>4. Due(k, m) /\ m \in bound.procs
    BY <1>1, <1>5, <2>3 DEF Shared, Due, Ours
  <2>5. k \in served[m]
    BY <1>1, <1>4, <2>4 DEF Fed
  <2>6. QED
    BY <2>5
<1>6. ASSUME NEW m \in MDs, k \in served[m] PROVE Wanted(k)
  <2>1. m \in bound.procs
    BY <1>1, <1>6 DEF Ours
  <2>2. Due(k, m)
    BY <1>1, <1>4, <1>6, <2>1 DEF Fed
  <2>3. QED
    BY <1>1, <2>2 DEF Shared, Due
<1>7. QED
  BY <1>5, <1>6

\* When nothing is in flight the services are subscribed to exactly what the sessions
\* ask for (the shared subscriptions of handle_request_market_data and
\* handle_cancel_market_data, cleanup_session, Client::renew), whatever came before:
\* in every scenario in which no ledger repeats the state of a service that died.
THEOREM SharedFeeds ==
  ASSUME \A b \in Scenarios : b.deaths = 0 \/ ~b.ledger
  PROVE  Spec => []ServedExactly
<1>1. Init => ServedInv
  BY InitServed
<1>2. ServedInv /\ [Next]_vars => ServedInv'
  BY NextServed
<1>3. ServedInv => ServedExactly
  BY ServedSettled
<1>4. QED
  BY <1>1, <1>2, <1>3, PTL DEF Spec
============================================================================
