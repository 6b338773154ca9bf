--------------------------- MODULE CtpMarketData ---------------------------
(***************************************************************************)
(* The market data service of the CTP broker: MarketData (marketdata.cpp)  *)
(* collects the instruments clients ask for and hands them on once a       *)
(* second; MarketDataCtp subscribes them at the front, keeps them for the  *)
(* next login when it is not logged in, and subscribes them again after a  *)
(* reconnect.  CtpMdSpi's callbacks run on the CTP API's thread and only   *)
(* queue tasks for the event loop.  The front forgets a session's          *)
(* subscriptions when the connection ends.                                 *)
(***************************************************************************)
EXTENDS Integers, Sequences, FiniteSets

CONSTANTS Instruments,
          MaxCommands,  \* bound: subscribe and unsubscribe commands of clients
          MaxDrops,     \* bound: times the front goes away
          MaxFailures,  \* bound: logins the front refuses, calls the API refuses
          MaxQuotes     \* bound: quotes of the front

ASSUME MarketDataAssumption ==
  MaxCommands \in Nat /\ MaxDrops \in Nat /\ MaxFailures \in Nat /\ MaxQuotes \in Nat

VARIABLES
  toSubscribe,  \* MarketData::instruments_to_subscribe_
  subscribed,   \* MarketDataCtp::subscribed_
  pending,      \* MarketDataCtp::pending_subscribes_
  logged_in,    \* MarketDataCtp::logged_in_
  state,        \* BrokerService::state_
  tasks,        \* MarketDataCtp::tasks_
  front,        \* the connection: "down", "up", "asked" (login sent), "in"
  feed,         \* instruments the front sends quotes of
  out,          \* instruments of the quotes published, newest last
  commands, drops, failures, quotes,
  wanted,       \* history: instruments whose last command was to subscribe
  skipped,      \* history: subscribed instruments a login did not send again
  refused,      \* history: instruments of a SubscribeMarketData that the API refused
  stray         \* history: instruments unsubscribed while fed, without UnSubscribeMarketData
                \* naming them

bounds == <<commands, drops, failures, quotes>>
history == <<wanted, skipped, refused, stray>>
vars == <<toSubscribe, subscribed, pending, logged_in, state, tasks, front, feed, out, bounds, history>>

States == {"Idle", "DisConnected", "LoggedIn", "LoginFailed", "Ready"}

\* MarketDataCtp::on_start with a front_uri configured
Init ==
  /\ toSubscribe = {} /\ subscribed = {} /\ pending = {}
  /\ logged_in = FALSE
  /\ state = "Idle"
  /\ tasks = << >>
  /\ front = "down" /\ feed = {}
  /\ out = << >>
  /\ commands = 0 /\ drops = 0 /\ failures = 0 /\ quotes = 0
  /\ wanted = {} /\ skipped = {} /\ refused = {} /\ stray = {}

----------------------------------------------------------------------------
(* CtpMdSpi: callbacks of the CTP API's thread *)

\* OnFrontConnected: asks to log in; nothing is done when the call fails
OnFrontConnected ==
  /\ front = "down"
  /\ \/ front' = "asked" /\ UNCHANGED failures
     \/ failures < MaxFailures /\ failures' = failures + 1 /\ front' = "up"
  /\ UNCHANGED <<toSubscribe, subscribed, pending, logged_in, state, tasks, feed, out,
                 commands, drops, quotes, history>>

OnFrontDisconnected ==
  /\ front # "down" /\ drops < MaxDrops
  /\ drops' = drops + 1
  /\ front' = "down" /\ feed' = {} /\ stray' = {}
  /\ tasks' = Append(tasks, <<"down">>)
  /\ UNCHANGED <<toSubscribe, subscribed, pending, logged_in, state, out, commands, failures,
                 quotes, wanted, skipped, refused>>

\* OnRspUserLogin: success, an error, or an answer without data
OnRspUserLogin ==
  /\ front = "asked"
  /\ \/ front' = "in" /\ tasks' = Append(tasks, <<"login">>) /\ UNCHANGED failures
     \/ /\ failures < MaxFailures /\ failures' = failures + 1
        /\ front' = "up"
        /\ tasks' \in {Append(tasks, <<"failed">>), tasks}
  /\ UNCHANGED <<toSubscribe, subscribed, pending, logged_in, state, feed, out, commands, drops,
                 quotes, history>>

\* OnRtnDepthMarketData, on_depth_market_data
OnRtnDepthMarketData(i) ==
  /\ i \in feed /\ quotes < MaxQuotes
  /\ quotes' = quotes + 1
  /\ tasks' = Append(tasks, <<"quote", i>>)
  /\ UNCHANGED <<toSubscribe, subscribed, pending, logged_in, state, front, feed, out, commands,
                 drops, failures, history>>

----------------------------------------------------------------------------
(* MarketDataCtp, on the event loop *)

\* do_subscribe: SubscribeMarketData fails without a session and may be refused
\* with one (too many requests); the result is only logged
do_subscribe(S) ==
  \/ front = "in" /\ feed' = feed \cup S /\ refused' = refused \ S /\ UNCHANGED failures
  \/ front # "in" /\ UNCHANGED <<feed, refused, failures>>
  \/ /\ front = "in" /\ failures < MaxFailures /\ failures' = failures + 1
     /\ refused' = refused \cup S /\ UNCHANGED feed

\* mutant: a login sends the new instruments only
ToSendNew == pending

\* what a login subscribes: the queued instruments if there are any, else all
ToSend == IF pending # {} THEN pending ELSE subscribed

\* task of on_login_success
Login ==
  /\ logged_in' = TRUE
  /\ state' = "Ready"
  /\ IF ToSend # {} THEN do_subscribe(ToSend) ELSE UNCHANGED <<feed, refused, failures>>
  /\ skipped' = IF pending # {} THEN (skipped \cup subscribed) \ pending ELSE {}
  /\ pending' = {}
  /\ UNCHANGED out

\* mutant: the loss of the front is only reported
LogoutReported(s) ==
  /\ state' = s
  /\ UNCHANGED <<logged_in, pending, feed, out, failures, skipped, refused>>

\* tasks of on_front_disconnected and on_login_failed
Logout(s) ==
  /\ logged_in' = FALSE
  /\ state' = s
  /\ UNCHANGED <<pending, feed, out, failures, skipped, refused>>

\* drain_tasks, one task
Drain ==
  /\ tasks # << >>
  /\ tasks' = Tail(tasks)
  /\ LET t == Head(tasks)
     IN  CASE t[1] = "login" -> Login
           [] t[1] = "failed" -> Logout("LoginFailed")
           [] t[1] = "down" -> Logout("DisConnected")
           [] t[1] = "quote" -> /\ out' = Append(out, t[2])
                                /\ UNCHANGED <<logged_in, state, pending, feed, failures, skipped, refused>>
  /\ UNCHANGED <<toSubscribe, subscribed, front, commands, drops, quotes, wanted, stray>>

\* the instruments of S that subscribe() has not seen: subscribed_.insert(id).second
Fresh(S) == S \ subscribed

\* MarketData::try_subscribe, every second, and MarketDataCtp::subscribe
TrySubscribe ==
  /\ toSubscribe # {}
  /\ toSubscribe' = {}
  /\ subscribed' = subscribed \cup toSubscribe
  /\ IF Fresh(toSubscribe) = {} THEN UNCHANGED <<pending, feed, refused, failures>>
     ELSE IF logged_in THEN do_subscribe(Fresh(toSubscribe)) /\ UNCHANGED pending
     ELSE pending' = pending \cup Fresh(toSubscribe) /\ UNCHANGED <<feed, refused, failures>>
  /\ UNCHANGED <<logged_in, state, tasks, front, out, commands, drops, quotes, wanted, skipped, stray>>

\* MarketData::add_instrument_key
AddKey(i) ==
  /\ commands < MaxCommands
  /\ commands' = commands + 1
  /\ toSubscribe' = toSubscribe \cup {i}
  /\ wanted' = wanted \cup {i}
  /\ UNCHANGED <<subscribed, pending, logged_in, state, tasks, front, feed, out, drops, failures,
                 quotes, skipped, refused, stray>>

\* "Drop it from the pending list so try_subscribe() will not subscribe it"
LaterWithout(i) == toSubscribe \ {i}

\* mutant: the instrument stays queued for the next login
QueuedKept(i) == pending

\* "otherwise a login would still subscribe the canceled instrument"
QueuedWithout(i) == pending \ {i}

\* MarketData::unsubscribe_key, MarketDataCtp::unsubscribe.  The pointers handed to
\* UnSubscribeMarketData are those of a string destroyed in the loop: the call may name
\* the instrument or anything else.
Unsubscribe(i) ==
  /\ commands < MaxCommands
  /\ commands' = commands + 1
  /\ toSubscribe' = LaterWithout(i)
  /\ subscribed' = subscribed \ {i}
  /\ pending' = QueuedWithout(i)
  /\ wanted' = wanted \ {i}
  /\ skipped' = skipped \ {i} /\ refused' = refused \ {i}
  /\ IF logged_in /\ front = "in"
     THEN \/ feed' = feed \ {i} /\ UNCHANGED stray
          \/ feed' = feed /\ stray' = stray \cup (feed \cap {i})
     ELSE stray' = stray \cup (feed \cap {i}) /\ UNCHANGED feed
  /\ UNCHANGED <<logged_in, state, tasks, front, out, drops, failures, quotes>>

Next ==
  \/ OnFrontConnected \/ OnFrontDisconnected \/ OnRspUserLogin
  \/ \E i \in Instruments : OnRtnDepthMarketData(i) \/ AddKey(i) \/ Unsubscribe(i)
  \/ Drain \/ TrySubscribe

\* the event loop drains its tasks every millisecond and its list every second; the API
\* reconnects by itself and the front answers
Fairness == /\ WF_vars(Drain) /\ WF_vars(TrySubscribe)
            /\ WF_vars(OnFrontConnected) /\ WF_vars(OnRspUserLogin)

Spec == Init /\ [][Next]_vars /\ Fairness

----------------------------------------------------------------------------
TypeOK ==
  /\ toSubscribe \subseteq Instruments /\ subscribed \subseteq Instruments
  /\ pending \subseteq subscribed
  /\ logged_in => pending = {}
  /\ state \in States /\ (logged_in <=> state = "Ready")
  /\ tasks \in Seq({<<"login">>, <<"failed">>, <<"down">>} \cup ({"quote"} \X Instruments))
  /\ front \in {"down", "up", "asked", "in"}
  /\ feed \subseteq Instruments /\ (front # "in" => feed = {})
  /\ out \in Seq(Instruments)

\* With no task queued the service believes it is logged in only when it is, and then
\* the front feeds exactly the instruments clients want: nothing is lost or brought back
\* by a command that meets a connection going up or down.  Excepted are the instruments
\* that a login left out (skipped), that the API refused, or whose unsubscription was
\* sent from a dead string or fell between two logins of which one was still queued.
FrontFollows ==
  logged_in /\ tasks = << >> =>
    /\ front = "in"
    /\ subscribed \ feed \subseteq skipped \cup refused
    /\ feed \ subscribed \subseteq stray
    /\ subscribed \cup toSubscribe = wanted

\* An instrument that clients keep wanting is fed for good once the front stays:
\* whatever was queued while the service was not logged in is sent in the end.
WantedFed ==
  \A i \in Instruments :
    <>[](i \in wanted /\ front = "in") => <>[](i \in feed \cup skipped \cup refused)
=============================================================================
