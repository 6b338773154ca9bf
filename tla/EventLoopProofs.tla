-------------------------- MODULE EventLoopProofs --------------------------
(***************************************************************************)
(* Proofs about what the event loop hands to a process, in two parts.      *)
(*                                                                         *)
(* CtpSession, for any bounds: what may make two queries overlap at the    *)
(* front.  The argument follows the one answer that will clear             *)
(* query_in_flight: it is at the front, or a task that was enqueued, or a  *)
(* task that drain_tasks has swapped out, and never in two places.         *)
(*                                                                         *)
(* MergeReader: for any set of journals, finite or not, and any bounds,    *)
(* the reader's types and that frames are handed over exactly once.        *)
(***************************************************************************)
EXTENDS MergeReader, CtpSession, WellFoundedInduction, FiniteSetTheorems, TLAPS

----------------------------------------------------------------------------
(* the session of the CTP trader *)

\* What is asked of the front, by the queue or by the steps of a login.
Names == Queries \cup {"placeholder", "auth", "login", "qry_confirm", "qry_info", "confirm"}

\* The tasks that the callbacks enqueue.
Events == Queries \cup {"instrument_end", "position_end", "disconnected", "login_success",
                       "login_failed", "qry_confirm", "qry_info", "settled"}

Tasks == [on : Events, flag : BOOLEAN]

\* A task that finishes the query it answers.  The second end of an instrument answer
\* is not among them: when it clears the flag, `doubled' says so.
Finishing(t) ==
    \/ t.on \in Queries /\ t.flag
    \/ t.on = "position_end"
    \/ t.on = "instrument_end" /\ ~t.flag

\* The places of a queue that hold such a task.
Ends(q) == {i \in 1 .. Len(q) : Finishing(q[i])}

\* The places of the queries among the requests s.
Asked(s) == {i \in 1 .. Len(s) : s[i] \in Queries}

AtMostOne(S) == \A i, j \in S : i = j

\* The query in flight is at one place, and while it is anywhere the flag is set.
OneInFlight ==
    /\ AtMostOne(Asked(server)) /\ AtMostOne(Ends(tasks)) /\ AtMostOne(Ends(pending))
    /\ Asked(server) # {} => Ends(tasks) = {} /\ Ends(pending) = {}
    /\ Ends(tasks) # {} => Ends(pending) = {}
    /\ Asked(server) # {} \/ Ends(tasks) # {} \/ Ends(pending) # {} => query_in_flight

Types ==
    /\ server \in Seq(Names) /\ query_queue \in Seq(Names)
    /\ spi \in Seq(Tasks) /\ tasks \in Seq(Tasks) /\ pending \in Seq(Tasks)
    /\ query_in_flight \in BOOLEAN /\ doubled \in BOOLEAN /\ late \in Nat

\* Only the second end of an instrument answer is enqueued in a step of its own.
SecondEnds == \A i \in 1 .. Len(spi) : ~Finishing(spi[i])

SessionInv ==
    /\ Types /\ SecondEnds
    /\ late = 0 /\ ~doubled => OneInFlight

-----------------------------------------------------------------------------
(* Queues.                                                                  *)

\* S holds a marked place only if T does, and two only if T does.
Within(S, T) == (T = {} => S = {}) /\ (AtMostOne(T) => AtMostOne(S))

LEMMA WithinSelf == ASSUME NEW S PROVE Within(S, S)
  BY DEF Within

LEMMA AppendTask ==
    ASSUME NEW q \in Seq(Tasks), NEW t \in Tasks
    PROVE  /\ Append(q, t) \in Seq(Tasks)
           /\ ~Finishing(t) => Ends(Append(q, t)) = Ends(q)
           /\ Ends(q) = {} => AtMostOne(Ends(Append(q, t)))
<1>1. /\ Append(q, t) \in Seq(Tasks) /\ Len(q) \in Nat /\ Len(Append(q, t)) = Len(q) + 1
      /\ Append(q, t)[Len(q) + 1] = t
      /\ \A i \in 1 .. Len(q) : Append(q, t)[i] = q[i]
  OBVIOUS
<1>2. \A i \in 1 .. Len(Append(q, t)) : i \in 1 .. Len(q) \/ i = Len(q) + 1
  BY <1>1
<1>3. \A i \in Ends(Append(q, t)) : i \in Ends(q) \/ (i = Len(q) + 1 /\ Finishing(t))
  BY <1>1, <1>2 DEF Ends
<1>4. \A i \in Ends(q) : i \in Ends(Append(q, t))
  BY <1>1 DEF Ends
<1>5. QED
  BY <1>1, <1>3, <1>4 DEF AtMostOne

LEMMA TailTask ==
    ASSUME NEW q \in Seq(Tasks), q # <<>>
    PROVE  /\ Tail(q) \in Seq(Tasks) /\ Head(q) \in Tasks
           /\ Within(Ends(Tail(q)), Ends(q))
           /\ Finishing(Head(q)) => Ends(q) # {}
           /\ Finishing(Head(q)) /\ AtMostOne(Ends(q)) => Ends(Tail(q)) = {}
<1>1. /\ Tail(q) \in Seq(Tasks) /\ Len(q) \in Nat \ {0} /\ Len(Tail(q)) = Len(q) - 1
      /\ Head(q) = q[1] /\ Head(q) \in Tasks
      /\ \A i \in 1 .. Len(q) - 1 : Tail(q)[i] = q[i + 1]
  OBVIOUS
<1>2. \A i \in Ends(Tail(q)) : i \in Nat \ {0} /\ i + 1 \in Ends(q)
  BY <1>1 DEF Ends
<1>3. Finishing(Head(q)) => 1 \in Ends(q)
  BY <1>1 DEF Ends
<1>4. ASSUME AtMostOne(Ends(q)) PROVE AtMostOne(Ends(Tail(q)))
  BY <1>2, <1>4 DEF AtMostOne
<1>5. ASSUME Finishing(Head(q)), AtMostOne(Ends(q)) PROVE Ends(Tail(q)) = {}
  BY <1>2, <1>3, <1>5 DEF AtMostOne
<1>6. QED
  BY <1>1, <1>2, <1>3, <1>4, <1>5 DEF Within

LEMMA AppendRequest ==
    ASSUME NEW s \in Seq(Names), NEW r \in Names
    PROVE  /\ Append(s, r) \in Seq(Names)
           /\ r \notin Queries => Asked(Append(s, r)) = Asked(s)
           /\ Asked(s) = {} => AtMostOne(Asked(Append(s, r)))
<1>1. /\ Append(s, r) \in Seq(Names) /\ Len(s) \in Nat /\ Len(Append(s, r)) = Len(s) + 1
      /\ Append(s, r)[Len(s) + 1] = r
      /\ \A i \in 1 .. Len(s) : Append(s, r)[i] = s[i]
  OBVIOUS
<1>2. \A i \in 1 .. Len(Append(s, r)) : i \in 1 .. Len(s) \/ i = Len(s) + 1
  BY <1>1
<1>3. \A i \in Asked(Append(s, r)) : i \in Asked(s) \/ (i = Len(s) + 1 /\ r \in Queries)
  BY <1>1, <1>2 DEF Asked
<1>4. \A i \in Asked(s) : i \in Asked(Append(s, r))
  BY <1>1 DEF Asked
<1>5. QED
  BY <1>1, <1>3, <1>4 DEF AtMostOne

LEMMA TailRequest ==
    ASSUME NEW s \in Seq(Names), s # <<>>
    PROVE  /\ Tail(s) \in Seq(Names) /\ Head(s) \in Names
           /\ Within(Asked(Tail(s)), Asked(s))
           /\ Head(s) \in Queries => Asked(s) # {}
           /\ Head(s) \in Queries /\ AtMostOne(Asked(s)) => Asked(Tail(s)) = {}
<1>1. /\ Tail(s) \in Seq(Names) /\ Len(s) \in Nat \ {0} /\ Len(Tail(s)) = Len(s) - 1
      /\ Head(s) = s[1] /\ Head(s) \in Names
      /\ \A i \in 1 .. Len(s) - 1 : Tail(s)[i] = s[i + 1]
  OBVIOUS
<1>2. \A i \in Asked(Tail(s)) : i \in Nat \ {0} /\ i + 1 \in Asked(s)
  BY <1>1 DEF Asked
<1>3. Head(s) \in Queries => 1 \in Asked(s)
  BY <1>1 DEF Asked
<1>4. ASSUME AtMostOne(Asked(s)) PROVE AtMostOne(Asked(Tail(s)))
  BY <1>2, <1>4 DEF AtMostOne
<1>5. ASSUME Head(s) \in Queries, AtMostOne(Asked(s)) PROVE Asked(Tail(s)) = {}
  BY <1>2, <1>3, <1>5 DEF AtMostOne
<1>6. QED
  BY <1>1, <1>2, <1>3, <1>4, <1>5 DEF Within

LEMMA EmptyQueue ==
    /\ <<>> \in Seq(Tasks) /\ Ends(<<>>) = {}
    /\ <<>> \in Seq(Names) /\ Asked(<<>>) = {}
  BY DEF Ends, Asked

\* A callback's tasks that finish nothing.
LEMMA AppendSecondEnds ==
    ASSUME NEW q \in Seq(Tasks), NEW r \in Seq(Tasks), \A i \in 1 .. Len(r) : ~Finishing(r[i])
    PROVE  q \o r \in Seq(Tasks) /\ Ends(q \o r) = Ends(q)
<1>1. /\ q \o r \in Seq(Tasks) /\ Len(q) \in Nat /\ Len(r) \in Nat /\ Len(q \o r) = Len(q) + Len(r)
      /\ \A i \in 1 .. Len(q) : (q \o r)[i] = q[i]
      /\ \A i \in Len(q) + 1 .. Len(q) + Len(r) : (q \o r)[i] = r[i - Len(q)]
  OBVIOUS
<1>2. \A i \in Len(q) + 1 .. Len(q) + Len(r) : i - Len(q) \in 1 .. Len(r) /\ ~Finishing((q \o r)[i])
  BY <1>1
<1>3. \A i \in 1 .. Len(q \o r) : i \in 1 .. Len(q) \/ i \in Len(q) + 1 .. Len(q) + Len(r)
  BY <1>1
<1>4. \A i \in Ends(q \o r) : i \in Ends(q)
  BY <1>1, <1>2, <1>3 DEF Ends
<1>5. \A i \in Ends(q) : i \in Ends(q \o r)
  BY <1>1 DEF Ends
<1>6. QED
  BY <1>1, <1>4, <1>5

-----------------------------------------------------------------------------
(* Steps.                                                                   *)

\* A step that adds no query, finishes none and adds no task that does.
LEMMA Quiet ==
    ASSUME SessionInv, Types', SecondEnds',
           Within(Asked(server'), Asked(server)), Within(Ends(tasks'), Ends(tasks)),
           Within(Ends(pending'), Ends(pending)), UNCHANGED <<query_in_flight, history>>
    PROVE  SessionInv'
  BY DEF SessionInv, OneInFlight, Within, history

\* A request other than a query is sent, or refused.
LEMMA SendOther ==
    ASSUME server \in Seq(Names), NEW r \in Names, r \notin Queries, Send(r)
    PROVE  server' \in Seq(Names) /\ Within(Asked(server'), Asked(server))
  BY AppendRequest, WithinSelf DEF Send, Sent, Refused

\* The callbacks that answer a request other than a query, and OnFrontConnected.
LEMMA OtherCallbacks ==
    ASSUME SessionInv,
           \/ OnFrontConnected \/ OnRspAuthenticate \/ OnRspUserLogin
           \/ OnRspQrySettlementInfoConfirm \/ OnRspQrySettlementInfo \/ OnRspSettlementInfoConfirm
    PROVE  SessionInv'
<1> USE DEF SessionInv, Types
<1>0. UNCHANGED <<spi, pending, queries, history>>
  BY DEF OnFrontConnected, OnRspAuthenticate, OnRspUserLogin, OnRspQrySettlementInfoConfirm,
         OnRspQrySettlementInfo, OnRspSettlementInfoConfirm, Answers, Callback
<1>1. server' \in Seq(Names) /\ Within(Asked(server'), Asked(server))
  <2>1. CASE OnFrontConnected
    <3>1. server' = <<>> \/ server' = Append(<<>>, "auth")
      BY <2>1 DEF OnFrontConnected
    <3>2. "auth" \notin Queries /\ "auth" \in Names
      BY DEF Queries, Names
    <3>3. server' \in Seq(Names) /\ Asked(server') = {}
      BY <3>1, <3>2, EmptyQueue, AppendRequest
    <3>4. QED
      BY <3>3 DEF Within, AtMostOne
  <2>2. CASE OnRspAuthenticate
    <3>1. server # <<>> /\ (server' = Tail(server) \/ server' = Append(Tail(server), "login"))
      BY <2>2 DEF OnRspAuthenticate, Answers
    <3>2. "login" \notin Queries /\ "login" \in Names
      BY DEF Queries, Names
    <3>3. Tail(server) \in Seq(Names) /\ Within(Asked(Tail(server)), Asked(server))
      BY <3>1, TailRequest
    <3>4. QED
      BY <3>1, <3>2, <3>3, AppendRequest
  <2>3. CASE \/ OnRspUserLogin \/ OnRspQrySettlementInfoConfirm \/ OnRspQrySettlementInfo
             \/ OnRspSettlementInfoConfirm
    <3>1. server # <<>> /\ server' = Tail(server)
      BY <2>3 DEF OnRspUserLogin, OnRspQrySettlementInfoConfirm, OnRspQrySettlementInfo,
                  OnRspSettlementInfoConfirm, Answers
    <3>2. QED
      BY <3>1, TailRequest
  <2>4. QED
    BY <2>1, <2>2, <2>3
<1>2. tasks' \in Seq(Tasks) /\ Within(Ends(tasks'), Ends(tasks))
  <2>1. \/ tasks' = tasks
        \/ \E on \in {"login_failed", "login_success", "qry_confirm", "qry_info", "settled"} :
             \/ tasks' = Append(tasks, Task(on, TRUE))
             \/ tasks' = Append(tasks, Task(on, FALSE))
    BY DEF OnFrontConnected, OnRspAuthenticate, OnRspUserLogin, OnRspQrySettlementInfoConfirm,
           OnRspQrySettlementInfo, OnRspSettlementInfoConfirm
  <2>2. \A on \in {"login_failed", "login_success", "qry_confirm", "qry_info", "settled"} :
           /\ Task(on, TRUE) \in Tasks /\ ~Finishing(Task(on, TRUE))
           /\ Task(on, FALSE) \in Tasks /\ ~Finishing(Task(on, FALSE))
    BY DEF Task, Tasks, Finishing, Events, Queries
  <2>3. tasks' = tasks \/ \E t \in Tasks : ~Finishing(t) /\ tasks' = Append(tasks, t)
    BY <2>1, <2>2
  <2>4. QED
    BY <2>3, AppendTask, WithinSelf
<1>3. Types' /\ SecondEnds' /\ Within(Ends(pending'), Ends(pending)) /\ UNCHANGED query_in_flight
  BY <1>0, <1>1, <1>2, WithinSelf DEF queries, history, SecondEnds
<1>4. QED
  BY <1>0, <1>1, <1>2, <1>3, Quiet

\* The line drops: the front forgets the query, and the flag stays until its time-out.
LEMMA LineDrops ==
    ASSUME SessionInv, OnFrontDisconnected
    PROVE  SessionInv'
<1> USE DEF SessionInv, Types
<1>1. /\ server' = <<>> /\ tasks' = Append(tasks, Task("disconnected", FALSE))
      /\ UNCHANGED <<spi, pending, queries, history>>
  BY DEF OnFrontDisconnected, Callback
<1>2. Task("disconnected", FALSE) \in Tasks /\ ~Finishing(Task("disconnected", FALSE))
  BY DEF Task, Tasks, Finishing, Events, Queries
<1>3. server' \in Seq(Names) /\ Within(Asked(server'), Asked(server))
  BY <1>1, EmptyQueue DEF Within, AtMostOne
<1>4. tasks' \in Seq(Tasks) /\ Within(Ends(tasks'), Ends(tasks)) /\ Within(Ends(pending'), Ends(pending))
  BY <1>1, <1>2, AppendTask, WithinSelf
<1>5. Types' /\ SecondEnds'
  BY <1>1, <1>3, <1>4 DEF queries, history, SecondEnds
<1>6. QED
  BY <1>1, <1>3, <1>4, <1>5, Quiet DEF queries

\* The front answers the query at the head of its requests for good, with a task or
\* without one.
LEMMA Answered ==
    ASSUME SessionInv, server # <<>>, Head(server) \in Queries, server' = Tail(server),
           Types', SecondEnds', UNCHANGED <<pending, query_in_flight, history>>,
           tasks' = tasks \/ \E t \in Tasks : tasks' = Append(tasks, t)
    PROVE  SessionInv'
<1> USE DEF SessionInv, Types
<1> SUFFICES ASSUME late = 0, ~doubled PROVE OneInFlight'
  BY DEF history
<1>1. /\ AtMostOne(Asked(server)) /\ Asked(server) # {} /\ Ends(tasks) = {} /\ Ends(pending) = {}
      /\ query_in_flight
  BY TailRequest DEF OneInFlight
<1>2. Asked(server') = {}
  BY <1>1, TailRequest
<1>3. AtMostOne(Ends(tasks'))
  <2>1. CASE tasks' = tasks
    BY <1>1, <2>1 DEF AtMostOne
  <2>2. CASE \E t \in Tasks : tasks' = Append(tasks, t)
    BY <1>1, <2>2, AppendTask
  <2>3. QED
    BY <2>1, <2>2
<1>4. QED
  BY <1>1, <1>2, <1>3 DEF OneInFlight, AtMostOne

LEMMA InstrumentAnswered ==
    ASSUME SessionInv, NEW form \in Forms, OnRspQryInstrument(form)
    PROVE  SessionInv'
<1> USE DEF SessionInv, Types
<1>1. /\ server # <<>> /\ Head(server) = "instrument" /\ server' = Tail(server) /\ spi = <<>>
      /\ UNCHANGED <<pending, queries, history>>
  BY DEF OnRspQryInstrument, Answers, Callback, Consume
<1>2. /\ Task("instrument", TRUE) \in Tasks /\ Task("instrument_end", FALSE) \in Tasks
      /\ Task("instrument_end", TRUE) \in Tasks /\ ~Finishing(Task("instrument_end", TRUE))
  BY DEF Task, Tasks, Finishing, Events, Queries
<1>3. tasks' = tasks \/ \E t \in Tasks : tasks' = Append(tasks, t)
  BY <1>2 DEF OnRspQryInstrument
<1>4. spi' = spi \/ spi' = <<Task("instrument_end", TRUE)>>
  BY DEF OnRspQryInstrument
<1>5. spi' \in Seq(Tasks) /\ SecondEnds'
  <2>1. CASE spi' = spi
    BY <2>1 DEF SecondEnds
  <2>2. CASE spi' = <<Task("instrument_end", TRUE)>>
    <3>0. \A t \in Tasks : <<t>> \in Seq(Tasks) /\ Len(<<t>>) = 1 /\ <<t>>[1] = t
      OBVIOUS
    <3>1. spi' \in Seq(Tasks) /\ Len(spi') = 1 /\ spi'[1] = Task("instrument_end", TRUE)
      BY ONLY <1>2, <2>2, <3>0
    <3>2. \A i \in 1 .. Len(spi') : i = 1
      BY <3>1
    <3>3. QED
      BY <1>2, <3>1, <3>2 DEF SecondEnds
  <2>3. QED
    BY <1>4, <2>1, <2>2
<1>6. Types'
  BY <1>1, <1>3, <1>5, TailRequest, AppendTask DEF queries, history
<1>7. QED
  BY <1>1, <1>3, <1>5, <1>6, Answered DEF Queries, queries

LEMMA SecondEndEnqueued ==
    ASSUME SessionInv, OnRspQryInstrumentEnd
    PROVE  SessionInv'
<1> USE DEF SessionInv, Types
<1>1. tasks' = tasks \o spi /\ spi' = <<>> /\ UNCHANGED <<server, pending, queries, history>>
  BY DEF OnRspQryInstrumentEnd
<1>2. tasks' \in Seq(Tasks) /\ Ends(tasks') = Ends(tasks)
  BY <1>1, AppendSecondEnds DEF SecondEnds
<1>3. Types' /\ SecondEnds'
  BY <1>1, <1>2, EmptyQueue DEF queries, history, SecondEnds
<1>4. QED
  BY <1>1, <1>2, <1>3, Quiet, WithinSelf DEF queries

LEMMA RowAnswered ==
    ASSUME SessionInv, NEW req \in Queries, NEW form \in Forms, OnRspQryRow(req, form)
    PROVE  SessionInv'
<1> USE DEF SessionInv, Types
<1>1. /\ server # <<>> /\ Head(server) = req /\ server' = Tail(server)
      /\ UNCHANGED <<spi, pending, queries, history>>
  BY DEF OnRspQryRow, Answers, Callback, Consume
<1>2. Task(req, TRUE) \in Tasks
  BY DEF Task, Tasks, Finishing, Events, Queries
<1>3. tasks' = tasks \/ \E t \in Tasks : tasks' = Append(tasks, t)
  BY <1>2 DEF OnRspQryRow
<1>4. Types' /\ SecondEnds'
  BY <1>1, <1>3, TailRequest, AppendTask DEF queries, history, SecondEnds
<1>5. QED
  BY <1>1, <1>3, <1>4, Answered DEF queries

LEMMA PositionAnswered ==
    ASSUME SessionInv, NEW form \in Forms, OnRspQryInvestorPosition(form)
    PROVE  SessionInv'
<1> USE DEF SessionInv, Types
<1>1. /\ server # <<>> /\ Head(server) = "position" /\ UNCHANGED <<spi, pending, queries, history>>
      /\ form \in {"row", "last", "empty", "error"}
  BY DEF OnRspQryInvestorPosition, Answers, Callback, Forms
<1>2. /\ Task("position", TRUE) \in Tasks /\ Task("position", FALSE) \in Tasks
      /\ Task("position_end", TRUE) \in Tasks
      /\ ~Finishing(Task("position", FALSE))
  BY DEF Task, Tasks, Finishing, Events, Queries
<1>3. CASE form = "row"
  <2>1. server' = server /\ tasks' = Append(tasks, Task("position", FALSE))
    BY <1>3 DEF OnRspQryInvestorPosition, Consume
  <2>2. tasks' \in Seq(Tasks) /\ Ends(tasks') = Ends(tasks)
    BY <1>2, <2>1, AppendTask
  <2>3. Types' /\ SecondEnds'
    BY <1>1, <2>1, <2>2 DEF queries, history, SecondEnds
  <2>4. QED
    BY <1>1, <2>1, <2>2, <2>3, Quiet, WithinSelf DEF queries
<1>4. CASE form # "row"
  <2>1. server' = Tail(server) /\ (tasks' = tasks \/ \E t \in Tasks : tasks' = Append(tasks, t))
    BY <1>1, <1>2, <1>4 DEF OnRspQryInvestorPosition, Consume
  <2>2. Types' /\ SecondEnds'
    BY <1>1, <2>1, TailRequest, AppendTask DEF queries, history, SecondEnds
  <2>3. QED
    BY <1>1, <2>1, <2>2, Answered DEF Queries, queries
<1>5. QED
  BY <1>3, <1>4

LEMMA Drained ==
    ASSUME SessionInv, drain_tasks
    PROVE  SessionInv'
<1> USE DEF SessionInv, Types
<1>1. pending = <<>> /\ pending' = tasks /\ tasks' = <<>> /\ UNCHANGED <<server, spi, queries, history>>
  BY DEF drain_tasks, worker
<1>2. Types' /\ SecondEnds' /\ Ends(tasks') = {}
  BY <1>1, EmptyQueue DEF queries, history, SecondEnds
<1>3. QED
  BY <1>1, <1>2 DEF OneInFlight, queries, history, AtMostOne

\* A task that clears nothing is run.
LEMMA IdleTask ==
    ASSUME SessionInv, pending # <<>>, pending' = Tail(pending), Types', SecondEnds',
           Within(Asked(server'), Asked(server)), Within(Ends(tasks'), Ends(tasks)),
           UNCHANGED <<query_in_flight, history>>
    PROVE  SessionInv'
<1>1. Within(Ends(pending'), Ends(pending))
  BY TailTask DEF SessionInv, Types
<1>2. QED
  BY <1>1, Quiet

\* A task that answers the query in flight clears the flag, and nothing else is to come.
LEMMA FinishingTask ==
    ASSUME SessionInv, pending # <<>>, Finishing(Head(pending)), pending' = Tail(pending),
           UNCHANGED <<server, tasks, spi, query_queue, late>>, doubled => doubled',
           doubled' \in BOOLEAN, query_in_flight' = FALSE
    PROVE  SessionInv'
<1> USE DEF SessionInv, Types
<1>1. Types' /\ SecondEnds'
  BY TailTask DEF SecondEnds
<1> SUFFICES ASSUME late = 0, ~doubled PROVE OneInFlight'
  BY <1>1
<1>2. AtMostOne(Ends(pending)) /\ Ends(pending) # {} /\ Ends(tasks) = {} /\ Asked(server) = {}
  BY TailTask DEF OneInFlight
<1>3. Ends(pending') = {}
  BY <1>2, TailTask
<1>4. QED
  BY <1>2, <1>3 DEF OneInFlight, AtMostOne

LEMMA SessionTasks ==
    ASSUME SessionInv,
           \/ on_front_disconnected \/ on_login_success \/ on_login_failed
           \/ on_qry_settlement_info_confirm \/ on_qry_settlement_info \/ on_settlement_confirmed
    PROVE  SessionInv'
<1> USE DEF SessionInv, Types
<1>1. /\ pending # <<>> /\ pending' = Tail(pending)
      /\ UNCHANGED <<spi, query_in_flight, pending_positions, history>>
  BY DEF on_front_disconnected, on_login_success, on_login_failed, on_qry_settlement_info_confirm,
         on_qry_settlement_info, on_settlement_confirmed, Runs, queries
<1>2. server' \in Seq(Names) /\ Within(Asked(server'), Asked(server))
  <2>1. server' = server \/ Send("qry_confirm") \/ Send("qry_info") \/ Send("confirm")
    BY DEF on_front_disconnected, on_login_success, on_login_failed, on_qry_settlement_info_confirm,
           on_qry_settlement_info, on_settlement_confirmed
  <2>2. \A r \in {"qry_confirm", "qry_info", "confirm"} : r \in Names /\ r \notin Queries
    BY DEF Names, Queries
  <2>3. QED
    BY <2>1, <2>2, SendOther, WithinSelf
<1>3. tasks' \in Seq(Tasks) /\ Within(Ends(tasks'), Ends(tasks))
  <2>1. tasks' = tasks \/ tasks' = Append(tasks, Task("settled", FALSE))
    BY DEF on_front_disconnected, on_login_success, on_login_failed, on_qry_settlement_info_confirm,
           on_qry_settlement_info, on_settlement_confirmed
  <2>2. Task("settled", FALSE) \in Tasks /\ ~Finishing(Task("settled", FALSE))
    BY DEF Task, Tasks, Finishing, Events, Queries
  <2>3. QED
    BY <2>1, <2>2, AppendTask, WithinSelf
<1>4. query_queue' \in Seq(Names)
  <2>1. query_queue' = query_queue \/ query_queue' = query_queue \o InitialQueries
    BY DEF on_front_disconnected, on_login_success, on_login_failed, on_qry_settlement_info_confirm,
           on_qry_settlement_info, on_settlement_confirmed, queries
  <2>2. InitialQueries \in Seq(Names)
    BY DEF InitialQueries, Names, Queries
  <2>3. \A q, r \in Seq(Names) : q \o r \in Seq(Names)
    OBVIOUS
  <2>4. QED
    BY <2>1, <2>2, <2>3
<1>5. Types' /\ SecondEnds'
  BY <1>1, <1>2, <1>3, <1>4, TailTask DEF history, SecondEnds
<1>6. QED
  BY <1>1, <1>2, <1>3, <1>5, IdleTask

\* A row of an answer; only the last one finishes the query.
LEMMA RowTask ==
    ASSUME SessionInv, on_qry_investor_position \/ \E req \in Queries : on_qry_row(req)
    PROVE  SessionInv'
<1> USE DEF SessionInv, Types
<1>1. /\ pending # <<>> /\ pending' = Tail(pending) /\ Head(pending).on \in Queries
      /\ FinishIf(Head(pending).flag)
      /\ UNCHANGED <<server, tasks, spi, query_queue, history>>
  BY DEF on_qry_investor_position, on_qry_row, Runs, Queries
<1>2. Head(pending) \in Tasks
  BY <1>1, TailTask
<1>3. CASE Head(pending).flag
  <2>1. query_in_flight' = FALSE /\ Finishing(Head(pending))
    BY <1>1, <1>3 DEF FinishIf, finish_in_flight_query, Finishing
  <2>2. QED
    BY <1>1, <2>1, FinishingTask DEF history
<1>4. CASE ~Head(pending).flag
  <2>1. UNCHANGED query_in_flight
    BY <1>1, <1>4 DEF FinishIf
  <2>2. Types' /\ SecondEnds'
    BY <1>1, <2>1, TailTask DEF history, SecondEnds
  <2>3. QED
    BY <1>1, <2>1, <2>2, IdleTask, WithinSelf
<1>5. QED
  BY <1>2, <1>3, <1>4 DEF Tasks

LEMMA InstrumentEndTask ==
    ASSUME SessionInv, on_qry_instrument_end
    PROVE  SessionInv'
<1> USE DEF SessionInv, Types
<1>1. /\ pending # <<>> /\ pending' = Tail(pending) /\ Head(pending).on = "instrument_end"
      /\ query_in_flight' = FALSE
      /\ doubled' = (doubled \/ (query_in_flight /\ Head(pending).flag))
      /\ UNCHANGED <<server, tasks, spi, query_queue, late>>
  BY DEF on_qry_instrument_end, Runs, finish_in_flight_query
<1>2. Head(pending) \in Tasks /\ Tail(pending) \in Seq(Tasks)
  BY <1>1, TailTask
<1>3. Head(pending).flag \in BOOLEAN
  BY <1>2 DEF Tasks
<1>4. Types' /\ SecondEnds'
  BY <1>1, <1>2 DEF SecondEnds
<1>5. CASE ~Head(pending).flag
  <2>1. Finishing(Head(pending))
    BY <1>1, <1>5 DEF Finishing
  <2>2. QED
    BY <1>1, <1>3, <2>1, FinishingTask
<1>6. CASE Head(pending).flag /\ query_in_flight
  BY <1>1, <1>4, <1>6
<1>7. CASE ~query_in_flight
  <2>1. UNCHANGED <<query_in_flight, history>>
    BY <1>1, <1>7 DEF history
  <2>2. QED
    BY <1>1, <1>4, <2>1, IdleTask, WithinSelf
<1>8. QED
  BY <1>3, <1>5, <1>6, <1>7

LEMMA PositionEndTask ==
    ASSUME SessionInv, on_qry_investor_position_end
    PROVE  SessionInv'
<1>1. /\ pending # <<>> /\ pending' = Tail(pending) /\ Finishing(Head(pending))
      /\ query_in_flight' = FALSE /\ UNCHANGED <<server, tasks, spi, query_queue, late, doubled>>
  BY DEF on_qry_investor_position_end, Runs, finish_in_flight_query, Finishing, history
<1>2. doubled' \in BOOLEAN
  BY <1>1 DEF SessionInv, Types
<1>3. QED
  BY <1>1, <1>2, FinishingTask

\* No answer is to come, so nothing is asked, enqueued or swapped out.
LEMMA NothingToCome ==
    ASSUME Types, pending = <<>>, ~AnswerToCome
    PROVE  Asked(server) = {} /\ Ends(tasks) = {} /\ Ends(pending) = {}
<1>1. Asked(server) = Unanswered
  BY DEF Types, Asked, Unanswered
<1>2. Ends(tasks) = {}
  BY DEF Types, Ends, AnswerToCome, Finishing
<1>3. QED
  BY <1>1, <1>2, EmptyQueue DEF AnswerToCome

LEMMA Pumped ==
    ASSUME SessionInv, pump_query_queue
    PROVE  SessionInv'
<1> USE DEF SessionInv, Types
<1>1. pending = <<>> /\ UNCHANGED <<spi, tasks, pending, doubled>>
  BY DEF pump_query_queue
<1>2. late' \in Nat /\ (late' = 0 => late = 0 /\ ~(query_in_flight /\ AnswerToCome))
  BY DEF pump_query_queue
<1>3. /\ query_queue' \in Seq(Names) /\ query_in_flight' \in BOOLEAN
      /\ \/ server' = server /\ query_in_flight' = FALSE
         \/ \E r \in Names : server' = Append(server, r) /\ query_in_flight' = TRUE
  <2>1. query_queue # <<>> => Head(query_queue) \in Names /\ Tail(query_queue) \in Seq(Names)
    OBVIOUS
  <2>2. QED
    BY <2>1, EmptyQueue DEF pump_query_queue, Sent
<1>4. Types' /\ SecondEnds'
  BY <1>1, <1>2, <1>3, AppendRequest DEF SecondEnds
<1> SUFFICES ASSUME late' = 0, ~doubled PROVE OneInFlight'
  BY <1>1, <1>4
<1>5. Asked(server) = {} /\ Ends(tasks) = {} /\ Ends(pending) = {}
  <2>1. CASE query_in_flight
    BY <1>1, <1>2, <2>1, NothingToCome
  <2>2. CASE ~query_in_flight
    BY <1>2, <2>2 DEF OneInFlight
  <2>3. QED
    BY <2>1, <2>2
<1>6. AtMostOne(Asked(server')) /\ (query_in_flight' = FALSE => Asked(server') = {})
  <2>1. CASE server' = server /\ query_in_flight' = FALSE
    BY <1>5, <2>1 DEF AtMostOne
  <2>2. CASE \E r \in Names : server' = Append(server, r) /\ query_in_flight' = TRUE
    BY <1>5, <2>2, AppendRequest
  <2>3. QED
    BY <1>3, <2>1, <2>2
<1>7. QED
  BY <1>1, <1>3, <1>5, <1>6 DEF OneInFlight, AtMostOne

LEMMA Requested ==
    ASSUME SessionInv, Request
    PROVE  SessionInv'
<1> USE DEF SessionInv, Types
<1>1. UNCHANGED <<server, spi, tasks, pending, query_in_flight, history>>
  BY DEF Request, worker
<1>2. ASSUME NEW request \in Requests PROVE QueriesOf(request) \in Seq(Names)
  <2>1. request \in {"position", "account", "order_trade"}
    BY SessionAssumption
  <2>2. /\ <<"position">> \in Seq(Names) /\ <<"account">> \in Seq(Names)
        /\ <<"order", "trade">> \in Seq(Names)
    BY DEF Names, Queries
  <2>3. QED
    BY <2>1, <2>2 DEF QueriesOf
<1>3. query_queue' \in Seq(Names)
  BY <1>2 DEF Request
<1>4. QED
  BY <1>1, <1>3, Quiet, WithinSelf DEF history, SecondEnds

-----------------------------------------------------------------------------
LEMMA InitSession == SessionInit => SessionInv
<1> SUFFICES ASSUME SessionInit PROVE SessionInv
  OBVIOUS
<1>1. Types
  BY EmptyQueue DEF SessionInit, Types
<1>2. SecondEnds
  BY DEF SessionInit, SecondEnds
<1>3. Asked(server) = {} /\ Ends(tasks) = {} /\ Ends(pending) = {}
  BY EmptyQueue DEF SessionInit
<1>4. OneInFlight
  BY <1>3 DEF OneInFlight, AtMostOne
<1>5. QED
  BY <1>1, <1>2, <1>4 DEF SessionInv

LEMMA NextSession == SessionInv /\ [SessionNext]_sessionVars => SessionInv'
<1> SUFFICES ASSUME SessionInv, [SessionNext]_sessionVars PROVE SessionInv'
  OBVIOUS
<1>1. CASE Worker
  BY <1>1, OtherCallbacks, LineDrops, InstrumentAnswered, SecondEndEnqueued, RowAnswered,
     PositionAnswered DEF Worker
<1>2. CASE drain_tasks
  BY <1>2, Drained
<1>3. CASE RunTask
  BY <1>3, SessionTasks, RowTask, InstrumentEndTask, PositionEndTask DEF RunTask
<1>4. CASE pump_query_queue
  BY <1>4, Pumped
<1>5. CASE Request
  BY <1>5, Requested
<1>6. CASE UNCHANGED sessionVars
  BY <1>6, Quiet, WithinSelf DEF sessionVars, worker, queries, history, SessionInv, Types, SecondEnds
<1>7. QED
  BY <1>1, <1>2, <1>3, <1>4, <1>5, <1>6 DEF SessionNext

LEMMA OneInFlightNoOverlap == SessionInv => OverlapCause
<1> SUFFICES ASSUME SessionInv, late = 0, ~doubled PROVE ~(Cardinality(Unanswered) > 1)
  BY DEF OverlapCause, SessionInv, Types
<1>0. Unanswered = Asked(server)
  BY DEF SessionInv, Types, Unanswered, Asked
<1>1. AtMostOne(Unanswered)
  BY <1>0 DEF SessionInv, OneInFlight
<1>2. Unanswered = {} \/ \E i \in Unanswered : Unanswered = {i}
  BY <1>1 DEF AtMostOne
<1>3. Cardinality(Unanswered) = 0 \/ Cardinality(Unanswered) = 1
  BY <1>2, FS_EmptySet, FS_Singleton
<1>4. QED
  BY <1>3

\* CTP sees two queries at a time only after one was given up as overdue, or after the
\* second end task of an instrument answer cleared the flag of the next query
\* (pump_query_queue, finish_in_flight_query): for any number of requests, dropped
\* lines and time-outs.
THEOREM OverlapExplained == SessionSpec => []OverlapCause
<1>1. SessionInit => SessionInv
  BY InitSession
<1>2. SessionInv /\ [SessionNext]_sessionVars => SessionInv'
  BY NextSession
<1>3. SessionInv => OverlapCause
  BY OneInFlightNoOverlap
<1>4. QED
  BY <1>1, <1>2, <1>3, PTL DEF SessionSpec

----------------------------------------------------------------------------
(* the merging reader *)

USE NoneAssumption, MergeAssumption

(* reader::sort *)

\* A nonempty set of naturals has a least element.
LEMMA LeastNatural ==
  ASSUME NEW S \in SUBSET Nat, S # {}
  PROVE  \E n \in S : \A m \in S : n <= m
<1>1. PICK n \in S : \A m \in S : ~ (<<m, n>> \in OpToRel(<, Nat))
  BY NatLessThanWellFounded, WFMin
<1>2. \A m \in S : ~ (m < n)
  BY <1>1 DEF OpToRel
<1>3. QED
  BY <1>2

\* sort() picks one of the journals with a frame, one whose frame is the oldest, and
\* keeps current_ when there is none.
LEMMA SortPicks ==
  ASSUME NEW js \in SUBSET Journals, NEW ps \in [Journals -> Nat \ {0}], NEW c,
         frames \in [Journals -> Seq(Nat)]
  PROVE  /\ Waiting(js, ps) = {} => Sort(js, ps, c) = c
         /\ Waiting(js, ps) # {} =>
              /\ Sort(js, ps, c) \in Waiting(js, ps)
              /\ \A x \in Waiting(js, ps) :
                   frames[Sort(js, ps, c)][ps[Sort(js, ps, c)]] <= frames[x][ps[x]]
<1>1. CASE Waiting(js, ps) = {}
  BY <1>1 DEF Sort
<1>2. CASE Waiting(js, ps) # {}
  <2> DEFINE Times == {frames[x][ps[x]] : x \in Waiting(js, ps)}
  <2>1. \A x \in Waiting(js, ps) : x \in Journals /\ ps[x] \in 1 .. Len(frames[x]) /\ frames[x] \in Seq(Nat)
    BY DEF Waiting, has_data
  <2>2. Times \in SUBSET Nat /\ Times # {}
    BY <1>2, <2>1, SMTT(30)
  <2>3. PICK n \in Times : \A m \in Times : n <= m
    BY <2>2, LeastNatural
  <2>4. PICK j \in Waiting(js, ps) : n = frames[j][ps[j]]
    BY <2>3
  <2>5. \A x \in Waiting(js, ps) : frames[j][ps[j]] <= frames[x][ps[x]]
    BY <2>3, <2>4, SMTT(30)
  <2>6. QED
    BY <1>2, <2>4, <2>5 DEF Sort
<1>3. QED
  BY <1>1, <1>2

----------------------------------------------------------------------------
(* the invariant *)

\* While the handlers look at a frame its journal stays joined and the frame stays under
\* the cursor; current_ is that journal, or a disjoin has moved it and both are in jumped.
HandInv ==
  busy # None =>
    /\ busy \in joined /\ has_data(busy, pos)
    /\ current # None
    /\ current = busy \/ {busy, current} \subseteq jumped

ReaderInv == TypeOK /\ HandInv /\ ExactlyOnce

LEMMA ReaderInit == Init => ReaderInv
  BY DEF Init, ReaderInv, TypeOK, HandInv, ExactlyOnce

LEMMA StampStep == ASSUME ReaderInv, NEW j \in Journals, Stamp(j) PROVE ReaderInv'
  BY SMTT(30) DEF ReaderInv, Stamp, TypeOK, HandInv, ExactlyOnce, Handed, has_data

\* A frame that becomes visible leaves the frames before it, and so every cursor, alone.
LEMMA PublishStep == ASSUME ReaderInv, NEW j \in Journals, Publish(j) PROVE ReaderInv'
<1> USE DEF ReaderInv
<1>1. TypeOK'
  BY DEF Publish, TypeOK
<1>2. \A x \in Journals : Len(frames'[x]) >= Len(frames[x])
  BY DEF Publish, TypeOK
<1>3. HandInv'
  BY <1>2 DEF Publish, TypeOK, HandInv, has_data
<1>4. ExactlyOnce'
  BY DEF Publish, ExactlyOnce, Handed
<1>5. QED
  BY <1>1, <1>3, <1>4

LEMMA PollStep == ASSUME ReaderInv, Poll PROVE ReaderInv'
<1> USE DEF ReaderInv
<1> DEFINE c == Sort(joined, pos, current)
<1>1. /\ c # None /\ has_data(c, pos) /\ current' = c /\ busy' = c
      /\ got' = [got EXCEPT ![c] = Append(@, pos[c])]
      /\ UNCHANGED <<clock, stamp, frames, joined, begin, pos, leaves, jumped>>
  BY DEF Poll
<1>2. c \in joined /\ c \in Journals
  <2>1. joined \in SUBSET Journals /\ current \in joined \cup {None}
    BY DEF TypeOK
  <2>2. c = current \/ c \in Waiting(joined, pos)
    BY <2>1, SortPicks DEF TypeOK
  <2>3. QED
    BY <1>1, <2>1, <2>2 DEF Waiting
<1> HIDE DEF c
<1>3. TypeOK'
  BY <1>1, <1>2 DEF TypeOK
<1>4. HandInv'
  BY <1>1, <1>2 DEF HandInv, has_data
<1>5. ExactlyOnce'
  <2> SUFFICES ASSUME NEW j \in joined \ jumped
               PROVE  /\ Len(got'[j]) = Handed(j)'
                      /\ \A i \in 1 .. Len(got'[j]) : got'[j][i] = begin[j] + i - 1
    BY <1>1 DEF ExactlyOnce
  <2>1. /\ j \in Journals /\ got[j] \in Seq(Nat) /\ pos[j] \in Nat /\ begin[j] \in Nat
        /\ Len(got[j]) = pos[j] - begin[j]
        /\ \A i \in 1 .. Len(got[j]) : got[j][i] = begin[j] + i - 1
    <3>1. j \in Journals /\ busy = None
      BY DEF Poll, TypeOK
    <3>2. busy # j
      BY <3>1
    <3>3. got[j] \in Seq(Nat) /\ pos[j] \in Nat /\ begin[j] \in Nat
      BY <3>1 DEF TypeOK
    <3>4. QED
      BY <3>1, <3>2, <3>3 DEF ExactlyOnce, Handed
  <2>2. CASE j = c
    <3>1. got'[j] = Append(got[j], pos[j])
      BY <1>1, <2>1, <2>2 DEF TypeOK
    <3>2. Len(got'[j]) = Len(got[j]) + 1 /\ Handed(j)' = pos[j] - begin[j] + 1
      BY <1>1, <2>1, <2>2, <3>1 DEF Handed
    <3>3. \A i \in 1 .. Len(got[j]) + 1 : got'[j][i] = begin[j] + i - 1
      <4>1. \A i \in 1 .. Len(got[j]) : got'[j][i] = got[j][i]
        BY <2>1, <3>1
      <4>2. got'[j][Len(got[j]) + 1] = pos[j]
        BY <2>1, <3>1
      <4>3. Len(got[j]) \in Nat /\ pos[j] = begin[j] + (Len(got[j]) + 1) - 1
        BY <2>1
      <4>4. \A i \in 1 .. Len(got[j]) + 1 : i \in 1 .. Len(got[j]) \/ i = Len(got[j]) + 1
        BY <4>3
      <4>5. QED
        BY <2>1, <4>1, <4>2, <4>3, <4>4
    <3>4. QED
      BY <2>1, <3>2, <3>3
  <2>3. CASE j # c
    BY <1>1, <2>1, <2>3 DEF TypeOK, Handed
  <2>4. QED
    BY <2>2, <2>3
<1>6. QED
  BY <1>3, <1>4, <1>5

\* next() steps over the frame in hand, or over a frame of a journal in jumped.
LEMMA AdvanceStep == ASSUME ReaderInv, Advance PROVE ReaderInv'
<1> USE DEF ReaderInv
<1>1. /\ busy # None /\ busy' = None /\ current \in Journals
      /\ pos' = [pos EXCEPT ![current] = @ + 1]
      /\ current' = Sort(joined, pos', current)
      /\ UNCHANGED <<clock, stamp, frames, joined, begin, leaves, got, jumped>>
  BY DEF Advance, HandInv, TypeOK
<1>2. pos' \in [Journals -> Nat \ {0}]
  BY <1>1 DEF TypeOK
<1>3. current' \in joined \cup {None}
  BY <1>1, <1>2, SortPicks DEF TypeOK, Waiting
<1>4. TypeOK'
  BY <1>1, <1>2, <1>3 DEF TypeOK
<1>5. HandInv'
  BY <1>1 DEF HandInv
<1>6. ExactlyOnce'
  <2> SUFFICES ASSUME NEW j \in joined \ jumped
               PROVE  Handed(j)' = Handed(j)
    BY <1>1 DEF ExactlyOnce
  <2>1. j \in Journals /\ pos[j] \in Nat /\ begin[j] \in Nat
    BY DEF TypeOK
  <2>2. busy = j <=> current = j
    BY <1>1 DEF HandInv
  <2>3. QED
    BY <1>1, <2>1, <2>2, SMTT(30) DEF Handed, TypeOK
<1>7. QED
  BY <1>4, <1>5, <1>6

\* A join sets a cursor of its own; current_ moves only if nothing is in hand.
LEMMA JoinStep ==
  ASSUME ReaderInv, NEW j \in Journals, NEW t \in 0 .. clock, Join(j, t)
  PROVE  ReaderInv'
<1> USE DEF ReaderInv
<1>1. /\ j \notin joined /\ joined' = joined \cup {j}
      /\ got' = [got EXCEPT ![j] = << >>] /\ jumped' = jumped \ {j}
      /\ UNCHANGED <<clock, stamp, frames, leaves, busy>>
  BY DEF Join
<1>2. PICK i \in Nat \ {0} : pos' = [pos EXCEPT ![j] = i] /\ begin' = [begin EXCEPT ![j] = i]
  <2>1. PICK i \in 1 .. Len(frames[j]) + 1 : pos' = [pos EXCEPT ![j] = i] /\ begin' = [begin EXCEPT ![j] = i]
    BY DEF Join
  <2>2. Len(frames[j]) \in Nat
    BY DEF TypeOK
  <2>3. i \in Nat \ {0}
    BY <2>2
  <2>4. QED
    BY <2>1, <2>3
<1>3. pos' \in [Journals -> Nat \ {0}] /\ begin' \in [Journals -> Nat \ {0}] /\ joined' \in SUBSET Journals
  BY <1>1, <1>2 DEF TypeOK
<1>4. current' \in joined' \cup {None}
  <2>1. Sort(joined', pos', current) \in joined' \cup {current}
    BY <1>3, SortPicks DEF TypeOK, Waiting
  <2>2. QED
    BY <1>1, <2>1 DEF Join, TypeOK
<1>5. TypeOK'
  <2>1. got' \in [Journals -> Seq(Nat)] /\ jumped' \subseteq Journals
    BY <1>1 DEF TypeOK
  <2>2. QED
    BY <1>1, <1>3, <1>4, <2>1 DEF TypeOK
<1>6. HandInv'
  <2> SUFFICES ASSUME busy # None
               PROVE  /\ busy \in joined' /\ has_data(busy, pos)'
                      /\ current' # None
                      /\ current' = busy \/ {busy, current'} \subseteq jumped'
    BY <1>1 DEF HandInv, has_data
  <2>1. /\ busy \in joined /\ has_data(busy, pos) /\ current # None
        /\ current = busy \/ {busy, current} \subseteq jumped
    BY DEF HandInv
  <2>2. current' = current /\ current \in joined
    BY <2>1 DEF Join, SortsOnJoin, TypeOK
  <2>3. has_data(busy, pos)'
    BY <1>1, <1>2, <2>1 DEF has_data, TypeOK
  <2>4. QED
    BY <1>1, <2>1, <2>2, <2>3
<1>7. ExactlyOnce'
  <2> SUFFICES ASSUME NEW x \in joined' \ jumped'
               PROVE  /\ Len(got'[x]) = Handed(x)'
                      /\ \A k \in 1 .. Len(got'[x]) : got'[x][k] = begin'[x] + k - 1
    BY DEF ExactlyOnce
  <2>1. CASE x = j
    <3>1. busy # j
      BY <1>1 DEF HandInv, TypeOK
    <3>2. QED
      BY <1>1, <1>2, <2>1, <3>1 DEF Handed, TypeOK
  <2>2. CASE x # j
    <3>1. x \in joined \ jumped /\ x \in Journals
      BY <1>1, <2>2 DEF TypeOK
    <3>2. got'[x] = got[x] /\ pos'[x] = pos[x] /\ begin'[x] = begin[x]
      BY <1>1, <1>2, <2>2, <3>1 DEF TypeOK
    <3>3. QED
      BY <1>1, <3>1, <3>2 DEF ExactlyOnce, Handed
  <2>3. QED
    BY <2>1, <2>2
<1>8. QED
  BY <1>5, <1>6, <1>7

\* A disjoin chooses current_ anew.  The journal of a frame in hand stays and has that
\* frame, so there is one to choose.
LEMMA LeaveStep == ASSUME ReaderInv, NEW j \in Journals, Leave(j) PROVE ReaderInv'
<1> USE DEF ReaderInv
<1>1. /\ busy # j /\ j \in joined /\ joined' = joined \ {j}
      /\ current' = Sort(joined', pos, None)
      /\ jumped' = IF busy \in {None, current'} THEN jumped ELSE jumped \cup {busy, current'}
      /\ leaves' = leaves + 1
      /\ UNCHANGED <<clock, stamp, frames, begin, pos, busy, got>>
  BY DEF Leave, MayLeave, Disjoin, Resort
<1>2. joined' \in SUBSET Journals
  BY <1>1 DEF TypeOK
<1>3. current' \in joined' \cup {None}
  BY <1>1, <1>2, SortPicks DEF TypeOK, Waiting
<1>4. busy # None => busy \in joined' /\ has_data(busy, pos) /\ current' # None
  <2> SUFFICES ASSUME busy # None PROVE busy \in joined' /\ has_data(busy, pos) /\ current' # None
    OBVIOUS
  <2>1. busy \in Waiting(joined', pos)
    BY <1>1 DEF HandInv, Waiting
  <2>2. current' \in joined'
    BY <1>1, <1>2, <2>1, SortPicks DEF TypeOK, Waiting
  <2>3. QED
    BY <1>2, <2>1, <2>2 DEF Waiting
<1>5. TypeOK'
  <2>1. jumped' \subseteq Journals
    BY <1>1, <1>2, <1>3, <1>4 DEF TypeOK
  <2>2. UNCHANGED <<clock, stamp, frames, begin, pos, busy, got>> /\ leaves' \in Nat
    BY <1>1 DEF TypeOK
  <2>3. QED
    BY <1>2, <1>3, <2>1, <2>2 DEF TypeOK
<1>6. HandInv'
  <2>1. has_data(busy, pos)' = has_data(busy, pos)
    BY <1>1 DEF has_data
  <2>2. QED
    BY <1>1, <1>4, <2>1 DEF HandInv
<1>7. ExactlyOnce'
  BY <1>1 DEF ExactlyOnce, Handed
<1>8. QED
  BY <1>5, <1>6, <1>7

LEMMA ReaderStep == ReaderInv /\ [Next]_vars => ReaderInv'
<1> SUFFICES ASSUME ReaderInv, [Next]_vars PROVE ReaderInv'
  OBVIOUS
<1>1. CASE UNCHANGED vars
  BY <1>1 DEF vars, ReaderInv, TypeOK, HandInv, ExactlyOnce, Handed, has_data
<1>2. QED
  BY <1>1, StampStep, PublishStep, LeaveStep, JoinStep, PollStep, AdvanceStep DEF Next

LEMMA ReaderInvariant == Spec => []ReaderInv
  BY ReaderInit, ReaderStep, PTL DEF Spec

\* The reader's state keeps its types, for any number of journals: in particular current_
\* is a joined journal or null, also after a handler's disjoin (reader::sort, disjoin).
THEOREM ReaderTypes == Spec => []TypeOK
  BY ReaderInvariant, PTL DEF ReaderInv

\* The frames of a journal are handed over exactly once and in order, whatever joins and
\* disjoins the handlers make, for any number of journals, frames and disjoins, but for the
\* journals between which a disjoin moved current_ (hero::drain, reader::next).
THEOREM HandedExactlyOnce == Spec => []ExactlyOnce
  BY ReaderInvariant, PTL DEF ReaderInv
============================================================================
