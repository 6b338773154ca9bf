----------------------------- MODULE CtpOrders ------------------------------
(***************************************************************************)
(* Orders of the CTP trader (brokers/ctp/src/trader_ctp.cpp): how kungfu's *)
(* order ids are mapped to the vendor's OrderRefs and back, through        *)
(* notifications that arrive later, reconnects (a new session of the       *)
(* front) and restarts of the trader.                                      *)
(*                                                                         *)
(* The exchange is external: `book' holds every order it has received, and *)
(* an order's place in it stands for its OrderSysID.  Notifications are    *)
(* tasks of the event loop (module CtpSession shows the queue); the ones   *)
(* made while the line is down wait in `flow' for the next login           *)
(* (THOST_TERT_RESUME).  An order is identified by its session and its     *)
(* ref, a trade and a rejection by the ref alone.                          *)
(***************************************************************************)
EXTENDS Integers, Sequences, FiniteSets, SequencesExt

CONSTANTS MaxOrders,     \* orders the strategy sends
          Volume,        \* volume of each of them
          MaxCancels,    \* cancels the strategy sends
          MaxLogins,     \* sessions of the front
          MaxCrashes     \* restarts of the trader

ASSUME OrdersAssumption ==
    /\ MaxOrders \in Nat /\ Volume \in Nat \ {0} /\ MaxCancels \in Nat
    /\ MaxLogins \in Nat /\ MaxCrashes \in Nat

VARIABLES book,          \* the exchange: its orders, in the order they came
          flow,          \* notifications waiting for a login
          front,         \* the session of the front, 0 before the first login
          line,          \* logged in to the front
          tasks,         \* tasks_ of the trader
          ready,         \* is_ready_for_requests
          session,       \* front_id_ and session_id_
          counter,       \* order_ref_counter_
          ref_to_order_id, order_id_to_ref_info,
          journal,       \* today's orders in the trader's journals: the ref of each id that has one
          reports,       \* history: what was reported about which order
          hits,          \* history: which order a cancel of which id ended
          sent, cancels, crashes  \* bounds

exchange == <<book, flow, front, line>>
maps == <<ref_to_order_id, order_id_to_ref_info>>
bounds == <<sent, cancels, crashes>>
vars == <<exchange, tasks, ready, session, counter, maps, journal, reports, hits, bounds>>

\* Ids of kungfu are positive; the ones hashed from the OrderSysID, or from the
\* session and the ref, are negative and never collide.
SysId(x) == -(2 * x)
RefHash(x) == -(2 * x) - 1

order_status_from_ctp(status) ==
    CASE status = "AllTraded"          -> "Filled"
      [] status = "PartTradedQueueing" -> "PartialFilledActive"
      [] status = "NoTradeQueueing"    -> "Submitted"
      [] status = "Canceled"           -> "Cancelled"
      [] status = "Unknown"            -> "Unknown"

\* Mutant: a partial fill counts as the end.
is_final_partial(status) == status \notin {"Submitted", "Pending", "Unknown"}

is_final_status(status) == status \notin {"Submitted", "Pending", "PartialFilledActive", "Unknown"}

\* A notification about the order at place x of the book; a rejected cancel is
\* known by its ref only, a login by its session.
Note(on, x, ref, status) == [on |-> on, x |-> x, ref |-> ref, status |-> status]

Put(f, key, value) == [k \in DOMAIN f \cup {key} |-> IF k = key THEN value ELSE f[k]]
Drop(f, key) == [k \in DOMAIN f \ {key} |-> f[k]]

NoMap == [k \in {} |-> 0]

-----------------------------------------------------------------------------
Init ==
    /\ book = <<>> /\ flow = <<>> /\ front = 0 /\ line = FALSE
    /\ tasks = <<>> /\ ready = FALSE /\ session = 0 /\ counter = 0
    /\ ref_to_order_id = NoMap /\ order_id_to_ref_info = NoMap
    /\ journal = NoMap /\ reports = {} /\ hits = {}
    /\ sent = 0 /\ cancels = 0 /\ crashes = 0

-----------------------------------------------------------------------------
(* The exchange and the line.                                               *)

\* A notification reaches the trader now, or after the next login.
Notify(notes) ==
    IF line THEN tasks' = tasks \o notes /\ UNCHANGED flow
            ELSE flow' = flow \o notes /\ UNCHANGED tasks

Trader == <<ready, session, counter, maps, journal, reports, bounds>>

Open(order) == order.status \in {"Unknown", "NoTradeQueueing", "PartTradedQueueing"}

\* The front acknowledges an order and the exchange takes it.
Accept(x) ==
    /\ book[x].status = "Unknown"
    /\ book' = [book EXCEPT ![x].status = "NoTradeQueueing"]
    /\ Notify(<<Note("order", x, book[x].ref, "Unknown"), Note("order", x, book[x].ref, "NoTradeQueueing")>>)
    /\ UNCHANGED <<front, line, Trader, hits>>

\* One lot is traded: the order is notified, then the trade.
Fill(x) ==
    /\ book[x].status \in {"NoTradeQueueing", "PartTradedQueueing"}
    /\ LET status == IF book[x].left = 1 THEN "AllTraded" ELSE "PartTradedQueueing" IN
       /\ book' = [book EXCEPT ![x].status = status, ![x].left = @ - 1]
       /\ Notify(<<Note("order", x, book[x].ref, status), Note("trade", x, book[x].ref, status)>>)
    /\ UNCHANGED <<front, line, Trader, hits>>

\* The front or the exchange refuses an order.
Reject(x) ==
    /\ book[x].status = "Unknown"
    /\ book' = [book EXCEPT ![x].status = "Canceled"]
    /\ Notify(<<Note("insert_rejected", x, book[x].ref, "Canceled")>>)
    /\ UNCHANGED <<front, line, Trader, hits>>

Disconnect ==
    /\ line /\ line' = FALSE
    /\ tasks' = Append(tasks, Note("disconnected", 0, 0, "Unknown"))
    /\ UNCHANGED <<book, flow, front, Trader, hits>>

Login ==
    /\ ~line /\ front < MaxLogins
    /\ line' = TRUE /\ front' = front + 1
    /\ tasks' = tasks \o <<Note("login", front', 0, "Unknown"), Note("settled", 0, 0, "Unknown")>> \o flow
    /\ flow' = <<>>
    /\ UNCHANGED <<book, Trader, hits>>

\* The answers to ReqQryOrder and ReqQryTrade: today's orders, and their trades.
Query ==
    /\ line /\ ready /\ book # <<>>
    /\ tasks = <<>>
    /\ LET traded == SetToSeq({x \in DOMAIN book : book[x].left < Volume})
       IN  tasks' = [x \in DOMAIN book |-> Note("qry_order", x, book[x].ref, book[x].status)]
                    \o [i \in DOMAIN traded |->
                          Note("trade", traded[i], book[traded[i]].ref, book[traded[i]].status)]
    /\ UNCHANGED <<exchange, Trader, hits>>

-----------------------------------------------------------------------------
(* The event loop: callbacks.                                               *)

Runs(on) ==
    /\ tasks # <<>> /\ Head(tasks).on = on
    /\ tasks' = Tail(tasks)
    /\ UNCHANGED <<exchange, counter, hits, bounds>>

on_front_disconnected ==
    /\ Runs("disconnected")
    /\ ready' = FALSE
    /\ UNCHANGED <<session, maps, journal, reports>>

on_login_success ==
    /\ Runs("login")
    /\ session' = Head(tasks).x
    /\ UNCHANGED <<ready, maps, journal, reports>>

on_settlement_confirmed ==
    /\ Runs("settled")
    /\ ready' = TRUE
    /\ UNCHANGED <<session, maps, journal, reports>>

\* Own-session refs map to the id of the OrderInput; anything else to a hash.  The
\* front sends no OrderSysID before the exchange has the order.
resolve_order_id(x, ref, status) ==
    IF book[x].session = session /\ ref \in DOMAIN ref_to_order_id
    THEN ref_to_order_id[ref]
    ELSE IF status # "Unknown" THEN SysId(x) ELSE RefHash(x)

\* The id of a trade: by its ref, whatever the session.
trade_order_id(x, ref) ==
    IF ref \in DOMAIN ref_to_order_id THEN ref_to_order_id[ref] ELSE SysId(x)

\* Whether a report goes to the strategy, or to PUBLIC only.
resolve_order_source(id) ==
    id \in DOMAIN order_id_to_ref_info /\ order_id_to_ref_info[id].source

Report(x, id, final) == [x |-> x, id |-> id, final |-> final, told |-> resolve_order_source(id)]

\* The statuses that tell a strategy the end of its order.
Ends == {"Filled", "Cancelled", "Error"}

write_order(x, id, ref, status) ==
    /\ reports' = reports \cup {Report(x, id, status \in Ends)}
    /\ journal' = Put(journal, id, ref)

erase_order_mapping(id) ==
    IF id \in DOMAIN order_id_to_ref_info
    THEN /\ ref_to_order_id' = Drop(ref_to_order_id, order_id_to_ref_info[id].ref)
         /\ order_id_to_ref_info' = Drop(order_id_to_ref_info, id)
    ELSE UNCHANGED maps

on_rtn_order ==
    /\ Runs("order")
    /\ LET note == Head(tasks)
           id == resolve_order_id(note.x, note.ref, note.status)
           status == order_status_from_ctp(note.status) IN
       /\ write_order(note.x, id, note.ref, status)
       /\ IF is_final_status(status) THEN erase_order_mapping(id) ELSE UNCHANGED maps
    /\ UNCHANGED <<ready, session>>

on_qry_order ==
    /\ Runs("qry_order")
    /\ LET note == Head(tasks) IN
       write_order(note.x, resolve_order_id(note.x, note.ref, note.status), note.ref,
                   order_status_from_ctp(note.status))
    /\ UNCHANGED <<ready, session, maps>>

\* on_rtn_trade, on_qry_trade
on_rtn_trade ==
    /\ Runs("trade")
    /\ LET note == Head(tasks) IN
       reports' = reports \cup {Report(note.x, trade_order_id(note.x, note.ref), FALSE)}
    /\ UNCHANGED <<ready, session, maps, journal>>

on_order_insert_rejected ==
    /\ Runs("insert_rejected")
    /\ LET note == Head(tasks) IN
       IF note.ref \in DOMAIN ref_to_order_id
       THEN LET id == ref_to_order_id[note.ref] IN
            write_order(note.x, id, note.ref, "Error") /\ erase_order_mapping(id)
       ELSE UNCHANGED <<maps, journal, reports>>
    /\ UNCHANGED <<ready, session>>

\* on_order_action_rejected, on_err_rtn_order_action: an OrderActionError goes to PUBLIC.
on_order_action_rejected ==
    /\ Runs("action_rejected")
    /\ UNCHANGED <<ready, session, maps, journal, reports>>

-----------------------------------------------------------------------------
(* The event loop: requests of the strategy.                                *)

\* A request is handled between two drains of the queue.
Requests == UNCHANGED <<front, line, ready, session, crashes>>

\* Not ready, invalid, or refused by the library: an error order, no mapping, and no
\* ref for on_recover to find.
insert_order_refused ==
    /\ Requests /\ sent < MaxOrders
    /\ sent' = sent + 1
    /\ counter' \in {counter} \cup (IF ready THEN {counter + 1} ELSE {})
    /\ UNCHANGED <<book, flow, tasks, maps, journal, reports, hits, cancels>>

\* Mutant: the counter's value before the increment is mapped.
map_order_before(id, ref) ==
    /\ order_id_to_ref_info' = Put(order_id_to_ref_info, id, [ref |-> ref - 1, source |-> TRUE])
    /\ ref_to_order_id' = Put(ref_to_order_id, ref - 1, id)

map_order(id, ref) ==
    /\ order_id_to_ref_info' = Put(order_id_to_ref_info, id, [ref |-> ref, source |-> TRUE])
    /\ ref_to_order_id' = Put(ref_to_order_id, ref, id)

\* The mapping is made after ReqOrderInsert, on the thread that drains the tasks.
insert_order ==
    /\ Requests /\ sent < MaxOrders
    /\ ready /\ line
    /\ sent' = sent + 1 /\ counter' = counter + 1
    /\ book' = Append(book, [id |-> sent', ref |-> counter', session |-> front,
                             status |-> "Unknown", left |-> Volume])
    /\ map_order(sent', counter')
    /\ UNCHANGED <<flow, tasks, journal, reports, hits, cancels>>

\* The order the front finds for a cancel: by session and ref.
CancelTarget(ref) ==
    {x \in DOMAIN book : book[x].session = session /\ book[x].ref = ref /\ Open(book[x])}

\* Refused by the library, whether the line is up or not: the ref of the action is spent,
\* and an OrderActionError goes to PUBLIC.  An unknown order and a trader that is not
\* ready give the error alone, which changes nothing here.
cancel_order_refused(id) ==
    /\ Requests /\ cancels < MaxCancels
    /\ cancels' = cancels + 1
    /\ id \in DOMAIN order_id_to_ref_info /\ ready
    /\ counter' = counter + 1                              \* OrderActionRef
    /\ UNCHANGED <<book, flow, tasks, maps, journal, reports, hits, sent>>

cancel_order(id) ==
    /\ Requests /\ cancels < MaxCancels
    /\ cancels' = cancels + 1
    /\ id \in DOMAIN order_id_to_ref_info /\ ready /\ line
    /\ counter' = counter + 1                              \* OrderActionRef
    /\ LET ref == order_id_to_ref_info[id].ref IN
       \/ \E x \in CancelTarget(ref) :
             /\ book' = [book EXCEPT ![x].status = "Canceled"]
             /\ tasks' = Append(tasks, Note("order", x, ref, "Canceled"))
             /\ hits' = hits \cup {[id |-> id, x |-> x]}
       \/ /\ CancelTarget(ref) = {}
          /\ tasks' = Append(tasks, Note("action_rejected", 0, ref, "Unknown"))
          /\ UNCHANGED <<book, hits>>
    /\ UNCHANGED <<flow, maps, journal, reports, sent>>

-----------------------------------------------------------------------------
(* The trader dies and is started again; what it had received and not yet    *)
(* handled is lost, and the line is gone.  recover() reads today's frames of *)
(* all the journals the trader writes and keeps the last frame of each       *)
(* order; write_order writes to PUBLIC last, so the frame kept carries no    *)
(* strategy.  on_recover maps the refs of these orders again.                *)

\* One of the orders that share a ref, whichever orders_ yields first.
Restart ==
    /\ crashes < MaxCrashes
    /\ crashes' = crashes + 1
    /\ line' = FALSE /\ tasks' = <<>> /\ ready' = FALSE /\ session' = 0 /\ counter' = 0
    /\ \E kept \in SUBSET DOMAIN journal :
          /\ \A id \in DOMAIN journal : \E other \in kept : journal[other] = journal[id]
          /\ \A id, other \in kept : journal[id] = journal[other] => id = other
          /\ order_id_to_ref_info' = [id \in kept |-> [ref |-> journal[id], source |-> FALSE]]
          /\ ref_to_order_id' = [ref \in {journal[id] : id \in kept} |->
                                   CHOOSE id \in kept : journal[id] = ref]
    /\ UNCHANGED <<book, flow, front, journal, reports, hits, sent, cancels>>

RunTask ==
    \/ on_front_disconnected \/ on_login_success \/ on_settlement_confirmed
    \/ on_rtn_order \/ on_qry_order \/ on_rtn_trade \/ on_order_insert_rejected
    \/ on_order_action_rejected

Exchange == Disconnect \/ Login \/ Query \/ \E x \in DOMAIN book : Accept(x) \/ Fill(x) \/ Reject(x)

Next ==
    \/ Exchange \/ RunTask \/ Restart
    \/ insert_order_refused \/ insert_order
    \/ \E id \in DOMAIN order_id_to_ref_info : cancel_order(id) \/ cancel_order_refused(id)

Spec == Init /\ [][Next]_vars

-----------------------------------------------------------------------------
\* Two orders carry one ref: only a restarted trader, which counts its refs from 0
\* again, can send such an order.
Reused(x) == crashes > 0 /\ \E y \in DOMAIN book : y # x /\ book[y].ref = book[x].ref

\* A report that names an order of kungfu is about that order, and a cancel ends the
\* order it names, across reconnects and out-of-session notifications
\* (resolve_order_id, trade_from_ctp, on_order_insert_rejected, cancel_order), except
\* through a ref used again after a restart: on_recover brings back the refs of an
\* earlier session, and the new session counts from 0.
Attributed == \A r \in reports \cup hits : r.id > 0 /\ r.id # book[r.x].id => Reused(r.x)

\* The strategy hears the end of every order it placed in the session that still
\* lasts, once its notifications are handled: no earlier report may have
\* erased the mapping, whatever partial fills, trades and queries came before.
EndHeard ==
    \A x \in DOMAIN book :
        \/ Open(book[x]) \/ book[x].session # session \/ Reused(x)
        \/ \E i \in DOMAIN (tasks \o flow) : (tasks \o flow)[i].x = x
        \/ \E r \in reports : r.x = x /\ r.id = book[x].id /\ r.told /\ r.final
=============================================================================
