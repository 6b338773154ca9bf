------------------------------ MODULE Gateway ------------------------------
(***************************************************************************)
(* ApiService (apps/api.cpp) with its AutoClient: client sessions share    *)
(* the market data and trader channels of one process.  A receive thread   *)
(* per socket queues requests and disconnects; the event loop empties both *)
(* queues in on_active, the disconnects first.  A market data service is   *)
(* here what the gateway relies on: a process that applies the commands of *)
(* its channel in order, dies, and comes back empty (its CTP side is       *)
(* CtpMarketData).  The ledger, when it runs, repeats the broker states it *)
(* knows on its own public journal, which the gateway reads too.           *)
(* Taken together: the two swapped queues are consumed one entry at a      *)
(* time, which an arrival before or after the swap explains; the master's  *)
(* answers to connect (RequestWriteTo, RequestReadFromPublic) come with    *)
(* the Register that caused them, its RequestReadFrom to the service later.*)
(***************************************************************************)
EXTENDS Integers, Sequences, FiniteSets, SequencesExt

CONSTANTS Clients,      \* session ids 1, 2, ..., one per accepted connection
          Keys,         \* instruments, all of one exchange
          MDs,          \* market data services
          TDs,          \* traders
          Strategies,   \* strategies whose orders clients may watch
          None,         \* no location
          Scenarios     \* bounds: which processes start, die and
                        \* lose their front, what clients ask and how often, does the
                        \* ledger run

ASSUME GatewayAssumption ==
  /\ Clients \subseteq Nat /\ IsFiniteSet(Keys) /\ None \notin MDs /\ MDs \cap TDs = {}
  /\ Scenarios \subseteq [procs : SUBSET (MDs \cup TDs), methods : SUBSET STRING,
                          requests : Nat, starts : Nat, deaths : Nat, resets : Nat, ledger : BOOLEAN]

VARIABLES
  bound,     \* the scenario, chosen at the start
  conn,      \* socket of a client: "new", "open", "closed"
  requests,  \* request_queue_
  closing,   \* disconnect_queue_
  asked,     \* how many requests were received
  sessions,  \* sessions_: id -> what the client subscribed to
  manual,    \* manual_order_sessions_: order -> session id
  orders,    \* history: order -> the session that issued it
  replay,    \* Client::instrument_keys_
  source,    \* Client::instrument_md_locations_
  exchange,  \* Client::exchange_md_locations_ of the one exchange
  writers,   \* services the gateway has a writer to; never taken back
  linked,    \* Client::connected_locations_
  ready,     \* Client::ready_md_locations_
  joined,    \* trader channels of strategies that reader_ has joined
  live,      \* registry_: traders known to be alive
  news,      \* what the gateway has yet to read: master's and services' public journals
  inbox,     \* what the ledger has yet to read of the same journals
  states,    \* Ledger::broker_states_
  md,        \* a market data service: is it up, has it its front, does it read the channel
  chan,      \* frames of the channel to a service that it has not read
  served,    \* instruments a service is subscribed to
  starts, deaths, resets,
  crossed,   \* history: instruments asked of two services
  late       \* history: channels of traders that came up while their strategy was watched

api == <<sessions, manual, orders>>
threads == <<conn, requests, closing, asked>>
client == <<replay, source, exchange, writers, linked, ready>>
monitor == <<joined, live, late>>
hist == <<bound, crossed>>
ledger == <<inbox, states>>
services == <<md, served, starts, deaths, resets>>
vars == <<api, threads, client, monitor, news, ledger, chan, services, hist>>

Absent == [keys |-> {}, mds |-> {}, watch |-> {}]

Procs == MDs \cup TDs

\* f with v at k
With(f, k, v) == [x \in {k} \cup DOMAIN f |-> IF x = k THEN v ELSE f[x]]

Init ==
  /\ bound \in Scenarios
  /\ conn = [s \in Clients |-> "new"]
  /\ requests = << >> /\ closing = << >> /\ asked = 0
  /\ sessions = << >> /\ manual = << >> /\ orders = << >>
  /\ replay = {} /\ source = << >> /\ exchange = None
  /\ writers = {} /\ linked = {} /\ ready = {}
  /\ joined = {} /\ live = {} /\ late = {}
  /\ news = << >> /\ inbox = << >> /\ states = << >>
  /\ md = [m \in Procs |-> [up |-> FALSE, ready |-> FALSE, told |-> FALSE, reads |-> FALSE]]
  /\ chan = [m \in MDs |-> << >>]
  /\ served = [m \in MDs |-> {}]
  /\ starts = 0 /\ deaths = 0 /\ resets = 0
  /\ crossed = {}

----------------------------------------------------------------------------
(* socket threads *)

\* accept_loop: ids are given in order
Accept(s) ==
  /\ conn[s] = "new" /\ \A x \in Clients : x < s => conn[x] # "new"
  /\ conn' = [conn EXCEPT ![s] = "open"]
  /\ sessions' = With(sessions, s, Absent)
  /\ UNCHANGED <<requests, closing, asked, manual, orders, client, monitor, news, ledger, chan, services, hist>>

Requests ==
  [method : {"request_market_data", "cancel_market_data"}, from : MDs, key : Keys]
    \cup [method : {"subscribe_strategy", "unsubscribe_strategy"}, strategy : Strategies]
    \cup [method : {"issue_order"}, account : TDs]

\* what clients ask in this scenario
Asks == {r \in Requests : /\ r.method \in bound.methods
                          /\ "from" \in DOMAIN r => r.from \in bound.procs}

\* client_recv_loop, a frame
Receive(s) ==
  /\ conn[s] = "open" /\ asked < bound.requests
  /\ asked' = asked + 1
  /\ \E r \in Asks : requests' = Append(requests, <<s, r>>)
  /\ UNCHANGED <<conn, closing, api, client, monitor, news, ledger, chan, services, hist>>

\* client_recv_loop, the connection ends
Close(s) ==
  /\ conn[s] = "open"
  /\ conn' = [conn EXCEPT ![s] = "closed"]
  /\ closing' = Append(closing, s)
  /\ UNCHANGED <<requests, asked, api, client, monitor, news, ledger, chan, services, hist>>

----------------------------------------------------------------------------
(* sessions *)

\* the sessions of ss other than s that still ask for key k, or watch strategy g
OthersNeed(ss, s, k) == \E x \in DOMAIN ss \ {s} : k \in ss[x].keys

OthersWatch(ss, s, g) == \E x \in DOMAIN ss \ {s} : g \in ss[x].watch

Without(f, S) == [x \in DOMAIN f \ S |-> f[x]]

Send(ch, m, op, ks) == [ch EXCEPT ![m] = @ \o SetToSeq({<<op, k>> : k \in ks})]

\* mutant: the keys are not compared with the other sessions
ReleasedAll(s, m) == {k \in Keys : <<m, k>> \in sessions[s].mds}

\* keys of session s that are unsubscribed from m when it goes
Released(s, m) ==
  {k \in Keys : <<m, k>> \in sessions[s].mds /\ ~OthersNeed(sessions, s, k)}

\* mutant: the other sessions are not asked
UnwatchedAll(s) == sessions[s].watch

\* strategies of s that no other session watches
Unwatched(s) == {g \in sessions[s].watch : ~OthersWatch(sessions, s, g)}

\* mutant: orders of every session are forgotten
ForgottenAll(s) == DOMAIN manual

\* orders the routing table drops with session s
Forgotten(s) == {o \in DOMAIN manual : manual[o] = s}

\* cleanup_session
Cleanup(s) ==
  /\ chan' = [m \in MDs |-> IF m \in writers THEN Send(chan, m, "unsub", Released(s, m))[m] ELSE chan[m]]
  /\ replay' = replay \ UNION {Released(s, m) : m \in writers \cap MDs}
  /\ joined' = {p \in joined : p[2] \notin Unwatched(s)}
  /\ manual' = Without(manual, Forgotten(s))
  /\ sessions' = Without(sessions, {s})

\* process_disconnect_queue
Disconnect ==
  /\ closing # << >>
  /\ closing' = Tail(closing)
  /\ LET s == Head(closing)
     IN  IF s \in DOMAIN sessions THEN Cleanup(s)
         ELSE UNCHANGED <<chan, replay, joined, manual, sessions>>
  /\ UNCHANGED <<conn, requests, asked, orders, source, exchange, writers, linked, ready, live,
                 late, news, ledger, services, hist>>

\* sessions_[s]: creates the entry when there is none
At(s) == IF s \in DOMAIN sessions THEN sessions[s] ELSE Absent

Put(s, rec) == sessions' = With(sessions, s, rec)

Emplace(f, k, v) == IF k \in DOMAIN f THEN f ELSE With(f, k, v)

\* handle_request_market_data; without a writer the request is refused
handle_request_market_data(s, m, k) ==
  /\ IF m \in writers
     THEN /\ chan' = IF \E x \in DOMAIN sessions : k \in sessions[x].keys THEN chan
                     ELSE Send(chan, m, "sub", {k})
          /\ replay' = replay \cup {k}
          /\ source' = Emplace(source, k, m)
          /\ exchange' = IF exchange = None THEN m ELSE exchange
          /\ Put(s, [At(s) EXCEPT !.keys = @ \cup {k}, !.mds = @ \cup {<<m, k>>}])
          /\ crossed' = IF \E x \in MDs \ {m} : \/ k \in DOMAIN source /\ source[k] = x
                                                \/ k \in served[x]
                                                \/ \E i \in DOMAIN chan[x] : chan[x][i][2] = k
                        THEN crossed \cup {k} ELSE crossed
     ELSE UNCHANGED <<chan, replay, source, exchange, sessions, crossed>>
  /\ UNCHANGED <<manual, orders, writers, linked, ready, monitor>>

\* handle_cancel_market_data: no test whether the session had subscribed
handle_cancel_market_data(s, m, k) ==
  /\ Put(s, [At(s) EXCEPT !.keys = @ \ {k}, !.mds = @ \ {<<m, k>>}])
  /\ IF m \in writers /\ ~OthersNeed(sessions, s, k)
     THEN /\ chan' = Send(chan, m, "unsub", {k})
          /\ replay' = replay \ {k}
          /\ source' = Without(source, {k})
     ELSE UNCHANGED <<chan, replay, source>>
  /\ crossed' = IF \E x \in MDs \ {m} : <<x, k>> \in At(s).mds THEN crossed \cup {k} ELSE crossed
  /\ UNCHANGED <<manual, orders, exchange, writers, linked, ready, monitor>>

\* handle_subscribe_strategy: joins the traders that are alive now
handle_subscribe_strategy(s, g) ==
  /\ IF s \in DOMAIN sessions /\ g \notin sessions[s].watch
     THEN /\ Put(s, [sessions[s] EXCEPT !.watch = @ \cup {g}])
          /\ joined' = joined \cup (live \X {g})
          /\ late' = late \ (live \X {g})
     ELSE UNCHANGED <<sessions, joined, late>>
  /\ UNCHANGED <<manual, orders, client, live, chan, crossed>>

handle_unsubscribe_strategy(s, g) ==
  /\ IF s \in DOMAIN sessions
     THEN /\ Put(s, [sessions[s] EXCEPT !.watch = @ \ {g}])
          /\ joined' = IF OthersWatch(sessions, s, g) THEN joined
                       ELSE {p \in joined : p[2] # g}
     ELSE UNCHANGED <<sessions, joined>>
  /\ UNCHANGED <<manual, orders, client, live, late, chan, crossed>>

\* handle_issue_order: refused unless the account is live (its writer comes with the
\* Register); make_instruction_uid gives a number not used before
handle_issue_order(s, t) ==
  /\ LET o == Cardinality(DOMAIN orders) + 1
     IN  IF t \in live
         THEN /\ manual' = With(manual, o, s)
              /\ orders' = With(orders, o, s)
         ELSE UNCHANGED <<manual, orders>>
  /\ UNCHANGED <<sessions, client, monitor, chan, crossed>>

\* drain_requests, handle_request
Drain ==
  /\ requests # << >>
  /\ requests' = Tail(requests)
  /\ LET s == Head(requests)[1]
         r == Head(requests)[2]
     IN  CASE r.method = "request_market_data" -> handle_request_market_data(s, r.from, r.key)
           [] r.method = "cancel_market_data" -> handle_cancel_market_data(s, r.from, r.key)
           [] r.method = "subscribe_strategy" -> handle_subscribe_strategy(s, r.strategy)
           [] r.method = "unsubscribe_strategy" -> handle_unsubscribe_strategy(s, r.strategy)
           [] r.method = "issue_order" -> handle_issue_order(s, r.account)
  /\ UNCHANGED <<conn, closing, asked, news, ledger, services, bound>>

----------------------------------------------------------------------------
(* Client *)

\* the service an instrument is replayed to
SourceOf(k) == IF k \in DOMAIN source THEN source[k] ELSE exchange

\* Client::renew
Renewed(m) == {k \in replay : SourceOf(k) = m}

\* Client::connect: idempotent while the channels stand; the service reads the channel
\* from the time of this request
connect(m) ==
  /\ linked' = linked \cup {m}
  /\ writers' = writers \cup {m}
  /\ IF m \in linked \/ m \in TDs \/ ~md[m].up THEN UNCHANGED <<md, chan>>
     ELSE /\ md' = [md EXCEPT ![m].told = TRUE]
          /\ chan' = IF md[m].told \/ md[m].reads THEN chan ELSE [chan EXCEPT ![m] = << >>]
  /\ live' = live \cup (TDs \cap {m})
  /\ late' = late \cup ((TDs \cap {m}) \X {g \in Strategies : \E s \in DOMAIN sessions : g \in sessions[s].watch})
  /\ UNCHANGED <<ready, joined>>

\* mutant: the dead stay marked as ready
ForgetLink(m) == ready' = ready /\ linked' = linked \ {m}

\* mutant: the channels of the dead stay marked as connected
ForgetReady(m) == ready' = ready \ {m} /\ linked' = linked

\* Client::update_broker_state(Deregister)
Forget(m) == ready' = ready \ {m} /\ linked' = linked \ {m}

\* apprentice::on_deregister, then the client: writers_ keeps the writer
deregister(m) ==
  /\ Forget(m)
  /\ joined' = {p \in joined : p[1] # m}
  /\ live' = live \ {m}
  /\ late' = {p \in late : p[1] # m}
  /\ UNCHANGED <<writers, chan, md>>

\* Client::update_broker_state(BrokerStateUpdate)
update_broker_state(m, state) ==
  /\ IF state = "Ready" /\ m \in writers /\ m \notin ready
     THEN ready' = ready \cup {m} /\ chan' = Send(chan, m, "sub", Renewed(m))
     ELSE /\ ready' = IF state = "DisConnected" THEN ready \ {m} ELSE ready
          /\ UNCHANGED chan
  /\ UNCHANGED <<linked, writers, monitor, md>>

\* the event loop reads a frame
React ==
  /\ news # << >>
  /\ news' = Tail(news)
  /\ LET m == Head(news)[1]
         what == Head(news)[2]
     IN  CASE what = "Register" -> connect(m)
           [] what = "Deregister" -> deregister(m)
           [] what \in {"Ready", "DisConnected", "Idle"} -> update_broker_state(m, what)
  /\ UNCHANGED <<threads, api, replay, source, exchange, served, starts, deaths, resets, ledger, hist>>

----------------------------------------------------------------------------
(* market data services and traders *)

\* Ledger::update_broker_state_map: a state is recorded under its sender; a Deregister
\* erases the entry of ITS sender, the master, which has none
Known(m, what) == IF what = "Deregister" THEN states ELSE With(states, m, what)

\* the ledger reads a frame and writes every state it knows to its public journal
LedgerReact ==
  /\ inbox # << >>
  /\ inbox' = Tail(inbox)
  /\ LET m == Head(inbox)[1]
         what == Head(inbox)[2]
     IN  IF what = "Register" THEN UNCHANGED <<states, news>>
         ELSE /\ states' = Known(m, what)
              /\ news' = news \o SetToSeq({<<x, states'[x]>> : x \in DOMAIN states'})
  /\ UNCHANGED <<api, threads, client, monitor, chan, services, hist>>

\* a frame of the master's or the service's public journal
Publish(e) ==
  /\ news' = Append(news, e)
  /\ inbox' = IF bound.ledger THEN Append(inbox, e) ELSE inbox
  /\ UNCHANGED states

StateOf(m) == IF md[m].ready THEN "Ready" ELSE "Idle"

Start(m) ==
  /\ ~md[m].up /\ m \in bound.procs /\ starts < bound.starts
  /\ starts' = starts + 1
  /\ md' = [md EXCEPT ![m] = [up |-> TRUE, ready |-> FALSE, told |-> FALSE, reads |-> FALSE]]
  /\ served' = IF m \in MDs THEN [served EXCEPT ![m] = {}] ELSE served
  /\ Publish(<<m, "Register">>)
  /\ UNCHANGED <<api, threads, client, monitor, chan, deaths, resets, hist>>

\* the service dies and the master deregisters it
Die(m) ==
  /\ md[m].up /\ deaths < bound.deaths
  /\ deaths' = deaths + 1
  /\ md' = [md EXCEPT ![m] = [up |-> FALSE, ready |-> FALSE, told |-> FALSE, reads |-> FALSE]]
  /\ Publish(<<m, "Deregister">>)
  /\ UNCHANGED <<api, threads, client, monitor, chan, served, starts, resets, hist>>

\* it has its front: update_broker_state(Ready)
FrontUp(m) ==
  /\ md[m].up /\ ~md[m].ready
  /\ md' = [md EXCEPT ![m].ready = TRUE]
  /\ Publish(<<m, "Ready">>)
  /\ UNCHANGED <<api, threads, client, monitor, chan, served, starts, deaths, resets, hist>>

FrontDown(m) ==
  /\ md[m].ready /\ resets < bound.resets
  /\ resets' = resets + 1
  /\ md' = [md EXCEPT ![m].ready = FALSE]
  /\ Publish(<<m, "DisConnected">>)
  /\ UNCHANGED <<api, threads, client, monitor, chan, served, starts, deaths, hist>>

\* RequestReadFrom: the service joins the channel and BrokerVendor::notify_broker_state
\* tells its state again
Link(m) ==
  /\ md[m].told
  /\ md' = [md EXCEPT ![m].told = FALSE, ![m].reads = TRUE]
  /\ Publish(<<m, StateOf(m)>>)
  /\ UNCHANGED <<api, threads, client, monitor, chan, served, starts, deaths, resets, hist>>

\* a command of the channel
Serve(m) ==
  /\ md[m].reads /\ chan[m] # << >>
  /\ LET k == Head(chan[m])[2]
     IN  served' = [served EXCEPT ![m] = IF Head(chan[m])[1] = "sub" THEN @ \cup {k} ELSE @ \ {k}]
  /\ chan' = [chan EXCEPT ![m] = Tail(@)]
  /\ UNCHANGED <<api, threads, client, monitor, news, ledger, md, starts, deaths, resets, hist>>

Next ==
  \/ \E s \in Clients : Accept(s) \/ Receive(s) \/ Close(s)
  \/ Disconnect \/ Drain \/ React \/ LedgerReact
  \/ \E p \in Procs : Start(p) \/ Die(p)
  \/ \E m \in MDs : FrontUp(m) \/ FrontDown(m) \/ Link(m) \/ Serve(m)

\* the event loops turn; a service that is up logs in to its front
Fairness == /\ WF_vars(Disconnect) /\ WF_vars(Drain) /\ WF_vars(React) /\ WF_vars(LedgerReact)
            /\ \A m \in MDs : WF_vars(FrontUp(m)) /\ WF_vars(Link(m)) /\ WF_vars(Serve(m))

Spec == Init /\ [][Next]_vars /\ Fairness

----------------------------------------------------------------------------
TypeOK ==
  /\ conn \in [Clients -> {"new", "open", "closed"}]
  /\ requests \in Seq(Clients \X Requests) /\ closing \in Seq(Clients)
  /\ DOMAIN sessions \subseteq Clients
  /\ \A s \in DOMAIN sessions :
       sessions[s] \in [keys : SUBSET Keys, mds : SUBSET (MDs \X Keys), watch : SUBSET Strategies]
  /\ DOMAIN manual \subseteq DOMAIN orders
  /\ replay \subseteq Keys /\ DOMAIN source \subseteq Keys /\ exchange \in MDs \cup {None}
  /\ linked \subseteq writers /\ ready \subseteq linked /\ live \subseteq TDs
  /\ joined \subseteq TDs \X Strategies

\* everything queued between the processes has been read and the services are up
Settled ==
  /\ requests = << >> /\ closing = << >> /\ news = << >> /\ inbox = << >>
  /\ \A m \in MDs \cap bound.procs : md[m].reads /\ md[m].ready /\ chan[m] = << >>

Wanted(k) == \E s \in DOMAIN sessions : k \in sessions[s].keys

\* When nothing is in flight an instrument is subscribed at a service if and only if
\* some session asks for it: whatever the order in which sessions came, cancelled and
\* left and services restarted (the shared subscriptions, the replay set and renew).
\* Instruments that were asked of two services are excepted.
ServedExactly ==
  Settled => \A k \in Keys \ crossed : Wanted(k) <=> \E m \in MDs : k \in served[m]

\* The event loop follows a strategy's orders exactly as long as some session watches
\* them, at every live trader that did not come up after the watchers asked (late): no
\* session's departure takes the channel away from another one.
WatchedJoined ==
  /\ \A p \in joined : \E s \in DOMAIN sessions : p[2] \in sessions[s].watch
  /\ \A g \in Strategies : \A t \in TDs :
       t \in live /\ <<t, g>> \notin joined \cup late
         => \A s \in DOMAIN sessions : g \notin sessions[s].watch

\* Reports of an order a client placed by hand find their way back to it for as long
\* as it is connected (manual_order_sessions_).
OwnerReachable ==
  \A o \in DOMAIN orders : conn[orders[o]] = "open" => o \in DOMAIN manual /\ manual[o] = orders[o]

\* A service that stays up ends up serving what a session keeps asking of it: "so that
\* renew() can replay it after this MD restarts" (handle_request_market_data).
RestartServed ==
  \A s \in Clients : \A m \in MDs : \A k \in Keys :
    <>[](/\ s \in DOMAIN sessions /\ <<m, k>> \in sessions[s].mds
         /\ md[m].up /\ k \notin crossed)
      => <>[](k \in served[m])
=============================================================================
