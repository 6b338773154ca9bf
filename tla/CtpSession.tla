----------------------------- MODULE CtpSession -----------------------------
(***************************************************************************)
(* The session of the CTP trader (brokers/ctp/src): connecting, logging    *)
(* in, confirming the settlement, and the paced queue of queries.          *)
(*                                                                         *)
(* Two threads act.  The worker thread of the vendor's library calls       *)
(* CtpTraderSpi, whose callbacks only enqueue tasks; the event loop of     *)
(* kungfu drains the tasks every millisecond and pumps one query every     *)
(* 1.1 seconds.  The front itself (what it answers, in which order, when   *)
(* the line drops) is external: `server' holds the requests it has not     *)
(* answered yet, oldest first, and loses them when the line drops.         *)
(***************************************************************************)
EXTENDS Naturals, Sequences, SequencesExt, FiniteSets

CONSTANTS MaxDrops,      \* how often the line to the front drops
          Requests,      \* what the trader service asks for, and how often
          MaxRequests,
          MaxLate        \* how often a query is given up while its answer is still to come

ASSUME SessionAssumption ==
    Requests \subseteq {"position", "account", "order_trade"} /\ MaxDrops \in Nat /\ MaxRequests \in Nat /\ MaxLate \in Nat

VARIABLES faulty,        \* whether this front refuses requests and answers with errors
          link,          \* the line to the front is up
          server,        \* requests sent on this line and not answered yet
          spi,           \* tasks the running callback has still to enqueue
          tasks,         \* tasks_: enqueued by callbacks
          pending,       \* what drain_tasks swapped out and has still to run
          logged_in, ready, broker_state,
          query_queue, query_in_flight,
          pending_positions,  \* whether rows of positions are accumulated
          drops, requests,    \* bounds
          late,          \* history: queries given up while their answer was still to come
          doubled        \* history: the second end of one answer cleared the flag

worker == <<faulty, link, server, spi, drops>>
history == <<late, doubled>>
session == <<logged_in, ready, broker_state>>
queries == <<query_queue, query_in_flight>>
sessionVars == <<worker, tasks, pending, session, queries, pending_positions, requests, history>>

\* The queries that go through the queue.
Queries == {"instrument", "account", "position", "order", "trade"}

\* How the front answers a query: a row that is not the last, the last row, an
\* empty answer (no row, bIsLast), or an error, which is also how a request is lost.
Forms == {"row", "last", "empty"} \cup (IF faulty THEN {"error"} ELSE {})

\* A task; flag is is_last for the rows of an answer; for the answer to the
\* settlement query, whether there is a record; for the end of the instruments,
\* whether a last row came with it.
Task(on, flag) == [on |-> on, flag |-> flag]

\* The queries on_settlement_confirmed queues; the placeholder sends nothing.
InitialQueries == <<"placeholder", "instrument", "account", "position", "order", "trade">>

-----------------------------------------------------------------------------
SessionInit ==
    /\ link = FALSE /\ server = <<>> /\ spi = <<>> /\ drops = 0
    /\ tasks = <<>> /\ pending = <<>>
    /\ logged_in = FALSE /\ ready = FALSE /\ broker_state = "Idle"
    /\ query_queue = <<>> /\ query_in_flight = FALSE
    /\ pending_positions = FALSE /\ requests = 0
    /\ faulty \in BOOLEAN /\ late = 0 /\ doubled = FALSE

\* What a call of the vendor's API does: 0 when the request went out.  It is
\* refused when the line is down, and may be refused by the flow control.
Sent(req) == link /\ server' = Append(server, req)
Refused == (faulty \/ ~link) /\ server' = server
Send(req) == Sent(req) \/ Refused

-----------------------------------------------------------------------------
(* The callbacks of CtpTraderSpi, on the worker thread.                     *)

Callback ==
    /\ link /\ spi = <<>>
    /\ UNCHANGED <<faulty, pending, session, queries, pending_positions, requests, history>>

Answers(req) == Callback /\ server # <<>> /\ Head(server) = req

OnFrontConnected ==
    /\ ~link
    /\ link' = TRUE
    /\ \/ server' = <<"auth">>
       \/ faulty /\ server' = <<>>
    /\ UNCHANGED <<faulty, spi, drops, tasks, pending, session, queries, pending_positions, requests, history>>

OnFrontDisconnected ==
    /\ Callback
    /\ drops < MaxDrops
    /\ drops' = drops + 1
    /\ link' = FALSE /\ server' = <<>>
    /\ tasks' = Append(tasks, Task("disconnected", FALSE))
    /\ UNCHANGED spi

OnRspAuthenticate ==
    /\ Answers("auth")
    /\ \/ server' \in {Append(Tail(server), "login")} \cup (IF faulty THEN {Tail(server)} ELSE {})
          /\ UNCHANGED tasks
       \/ /\ faulty
          /\ server' = Tail(server)
          /\ tasks' = Append(tasks, Task("login_failed", FALSE))
    /\ UNCHANGED <<link, spi, drops>>

OnRspUserLogin ==
    /\ Answers("login")
    /\ server' = Tail(server)
    /\ \/ tasks' = Append(tasks, Task("login_success", FALSE))
       \/ faulty /\ tasks' = Append(tasks, Task("login_failed", FALSE))
       \/ faulty /\ UNCHANGED tasks                   \* a response without data
    /\ UNCHANGED <<link, spi, drops>>

OnRspQrySettlementInfoConfirm ==
    /\ Answers("qry_confirm")
    /\ server' = Tail(server)
    /\ \/ \E record \in BOOLEAN : tasks' = Append(tasks, Task("qry_confirm", record))
       \/ faulty /\ UNCHANGED tasks
    /\ UNCHANGED <<link, spi, drops>>

OnRspQrySettlementInfo ==
    /\ Answers("qry_info")
    /\ server' = Tail(server)
    /\ \/ tasks' = Append(tasks, Task("qry_info", FALSE))
       \/ faulty /\ UNCHANGED tasks
    /\ UNCHANGED <<link, spi, drops>>

OnRspSettlementInfoConfirm ==
    /\ Answers("confirm")
    /\ server' = Tail(server)
    /\ \/ tasks' = Append(tasks, Task("settled", FALSE))
       \/ faulty /\ UNCHANGED tasks
    /\ UNCHANGED <<link, spi, drops>>

\* Bound: a row that is not the last comes only while none is accumulated or queued.
MoreRows == ~pending_positions /\ ~Contains(tasks \o pending, Task("position", FALSE))

\* The request stays unanswered while rows that are not the last arrive.
Consume(form) == server' = IF form = "row" THEN server ELSE Tail(server)

\* A last row enqueues two tasks: the row's, then the end's.
OnRspQryInstrument(form) ==
    /\ Answers("instrument") /\ form # "row"
    /\ Consume(form)
    /\ IF form = "last"
       THEN /\ tasks' = Append(tasks, Task("instrument", TRUE))
            /\ spi' = <<Task("instrument_end", TRUE)>>
       ELSE /\ tasks' = IF form = "empty" THEN Append(tasks, Task("instrument_end", FALSE)) ELSE tasks
            /\ UNCHANGED spi
    /\ UNCHANGED <<link, drops>>

\* on_qry_instrument_end, after on_qry_instrument, in the same callback.
OnRspQryInstrumentEnd ==
    /\ spi # <<>>
    /\ tasks' = tasks \o spi
    /\ spi' = <<>>
    /\ UNCHANGED <<faulty, link, server, drops, pending, session, queries, pending_positions, requests, history>>

\* An empty answer and an error enqueue nothing: nobody hears of them.
OnRspQryRow(req, form) ==
    /\ req \in {"account", "order", "trade"}
    /\ Answers(req) /\ form # "row"
    /\ Consume(form)
    /\ tasks' = IF form = "last" THEN Append(tasks, Task(req, TRUE)) ELSE tasks
    /\ UNCHANGED <<link, spi, drops>>

OnRspQryInvestorPosition(form) ==
    /\ Answers("position")
    /\ form = "row" => MoreRows
    /\ Consume(form)
    /\ tasks' = CASE form = "row"   -> Append(tasks, Task("position", FALSE))
                  [] form = "last"  -> Append(tasks, Task("position", TRUE))
                  [] form = "empty" -> Append(tasks, Task("position_end", TRUE))
                  [] form = "error" -> tasks
    /\ UNCHANGED <<link, spi, drops>>

Worker ==
    \/ OnFrontConnected \/ OnFrontDisconnected \/ OnRspAuthenticate \/ OnRspUserLogin
    \/ OnRspQrySettlementInfoConfirm \/ OnRspQrySettlementInfo \/ OnRspSettlementInfoConfirm
    \/ OnRspQryInstrumentEnd
    \/ \E form \in Forms : \/ OnRspQryInstrument(form)
                           \/ OnRspQryInvestorPosition(form)
                           \/ \E req \in Queries : OnRspQryRow(req, form)

-----------------------------------------------------------------------------
(* The event loop.                                                          *)

drain_tasks ==
    /\ pending = <<>> /\ tasks # <<>>
    /\ pending' = tasks /\ tasks' = <<>>
    /\ UNCHANGED <<worker, session, queries, pending_positions, requests, history>>

Runs(on) ==
    /\ pending # <<>> /\ Head(pending).on = on
    /\ pending' = Tail(pending)
    /\ UNCHANGED <<faulty, link, spi, drops, requests>>

on_front_disconnected ==
    /\ Runs("disconnected")
    /\ logged_in' = FALSE /\ ready' = FALSE /\ broker_state' = "DisConnected"
    /\ UNCHANGED <<server, tasks, queries, pending_positions, history>>

on_login_success ==
    /\ Runs("login_success")
    /\ logged_in' = TRUE /\ broker_state' = "LoggedIn"
    /\ Send("qry_confirm")
    /\ UNCHANGED <<ready, tasks, queries, pending_positions, history>>

on_login_failed ==
    /\ Runs("login_failed")
    /\ logged_in' = FALSE /\ ready' = FALSE /\ broker_state' = "LoginFailed"
    /\ UNCHANGED <<server, tasks, queries, pending_positions, history>>

\* The task reads the record through a pointer into the vendor's buffer, which
\* is gone when the callback has returned: with a record, any date may be read.
on_qry_settlement_info_confirm ==
    /\ Runs("qry_confirm")
    /\ \/ /\ Head(pending).flag                          \* read as confirmed today
          /\ tasks' = Append(tasks, Task("settled", FALSE))
          /\ UNCHANGED server
       \/ Send("qry_info") /\ UNCHANGED tasks
    /\ UNCHANGED <<session, queries, pending_positions, history>>

\* Mutant: the settlement is read and never confirmed.
on_qry_settlement_info_read ==
    /\ Runs("qry_info")
    /\ UNCHANGED <<server, tasks, session, queries, pending_positions, history>>

on_qry_settlement_info ==
    /\ Runs("qry_info")
    /\ Send("confirm")
    /\ UNCHANGED <<tasks, session, queries, pending_positions, history>>

on_settlement_confirmed ==
    /\ Runs("settled")
    /\ ready' = TRUE /\ broker_state' = "Ready"
    /\ query_queue' = query_queue \o InitialQueries
    /\ UNCHANGED <<server, tasks, logged_in, query_in_flight, pending_positions, history>>

\* Clear the flag, whichever query it stands for now.
finish_in_flight_query == query_in_flight' = FALSE

\* Mutant: any row finishes the query.
FinishAny(last) == finish_in_flight_query

FinishIf(last) ==
    IF last THEN finish_in_flight_query ELSE UNCHANGED query_in_flight

\* on_qry_instrument, on_qry_trading_account, on_qry_order, on_qry_trade: the row
\* goes to a journal.
on_qry_row(req) ==
    /\ req \in Queries \ {"position"}
    /\ Runs(req)
    /\ FinishIf(Head(pending).flag)
    /\ UNCHANGED <<server, tasks, session, query_queue, pending_positions, history>>

on_qry_instrument_end ==
    /\ Runs("instrument_end")
    /\ finish_in_flight_query
    /\ doubled' = (doubled \/ (query_in_flight /\ Head(pending).flag))
    /\ UNCHANGED <<server, tasks, session, query_queue, pending_positions, late>>

on_qry_investor_position ==
    /\ Runs("position")
    /\ FinishIf(Head(pending).flag)
    /\ pending_positions' = TRUE
    /\ UNCHANGED <<server, tasks, session, query_queue, history>>

flush_positions == pending_positions' = FALSE

on_qry_investor_position_end ==
    /\ Runs("position_end")
    /\ flush_positions
    /\ finish_in_flight_query
    /\ UNCHANGED <<server, tasks, session, query_queue, history>>

is_ready_for_requests == logged_in /\ ready

\* Queries of the queue that the front has not answered.
Unanswered == {i \in DOMAIN server : server[i] \in Queries}

\* The answer to a query, or a task it enqueued, is still to come.
AnswerToCome ==
    \/ Unanswered # {} \/ spi # <<>>
    \/ \E i \in DOMAIN tasks : tasks[i].on \in Queries \cup {"instrument_end", "position_end"}

\* Mutant: no time-out.
MayPumpUntimed == ~query_in_flight

\* While a query is in flight the pump returns, until QUERY_TIMEOUT_NS has passed,
\* which may be at any time (MaxLate times while the answer is still to come).
MayPump == query_in_flight /\ AnswerToCome => late < MaxLate

\* The flag of an overdue query is reset; the next query goes out, or all are dropped.
pump_query_queue ==
    /\ pending = <<>>
    /\ MayPump
    /\ late' = IF query_in_flight /\ AnswerToCome THEN late + 1 ELSE late
    /\ UNCHANGED doubled
    /\ \/ /\ query_queue = <<>> /\ query_in_flight
          /\ query_in_flight' = FALSE
          /\ UNCHANGED <<server, query_queue>>
       \/ /\ query_queue # <<>> /\ ~is_ready_for_requests
          /\ query_queue' = <<>> /\ query_in_flight' = FALSE
          /\ UNCHANGED server
       \/ /\ query_queue # <<>> /\ is_ready_for_requests
          /\ query_queue' = Tail(query_queue)
          /\ \/ /\ Head(query_queue) # "placeholder"
                /\ Sent(Head(query_queue)) /\ query_in_flight' = TRUE
             \/ /\ Head(query_queue) = "placeholder" \/ faulty \/ ~link
                /\ UNCHANGED server /\ query_in_flight' = FALSE
    /\ UNCHANGED <<faulty, link, spi, drops, tasks, pending, session, pending_positions, requests>>

\* req_position, req_account, req_order_trade.
QueriesOf(request) == IF request = "order_trade" THEN <<"order", "trade">> ELSE <<request>>

Request ==
    /\ pending = <<>> /\ requests < MaxRequests
    /\ requests' = requests + 1
    /\ \E request \in Requests : query_queue' = query_queue \o QueriesOf(request)
    /\ UNCHANGED <<worker, tasks, pending, session, query_in_flight,
                   pending_positions, history>>

RunTask ==
    \/ on_front_disconnected \/ on_login_success \/ on_login_failed
    \/ on_qry_settlement_info_confirm \/ on_qry_settlement_info \/ on_settlement_confirmed
    \/ on_qry_instrument_end \/ on_qry_investor_position \/ on_qry_investor_position_end
    \/ \E req \in Queries : on_qry_row(req)

SessionNext == Worker \/ drain_tasks \/ RunTask \/ pump_query_queue \/ Request

\* The loop drains and pumps on timers, time passes, a callback that has begun
\* ends, and the library reconnects and answers or forgets every request.
SessionFairness ==
    /\ WF_sessionVars(drain_tasks) /\ WF_sessionVars(RunTask) /\ WF_sessionVars(pump_query_queue)
    /\ WF_sessionVars(Worker)

SessionSpec == SessionInit /\ [][SessionNext]_sessionVars /\ SessionFairness

-----------------------------------------------------------------------------
\* trader_ctp.h:124 promises that CTP never sees overlapping queries.  Two things
\* only break it, whatever the threads, the line and the answers do: a query that was
\* given up as overdue, and an instrument answer whose second end task is
\* drained after the next query went out.
OverlapCause == Cardinality(Unanswered) > 1 => late > 0 \/ doubled

\* Every queued query is sent or dropped, even if the front answers nothing, answers
\* with errors, or drops the line: a lost answer cannot stall the queue
\* (pump_query_queue's time-out).
QueueServed == query_queue # <<>> ~> query_queue = <<>>

\* A front that answers without errors makes a logged-in trader ready, unless the
\* line drops: the settlement steps after a login hand over to each other.
SettlementDone ==
    ~faulty => (broker_state = "LoggedIn" ~> broker_state \in {"Ready", "DisConnected"})
=============================================================================
